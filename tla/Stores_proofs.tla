--------------------------- MODULE Stores_proofs ----------------------------
(***************************************************************************)
(* What several processes keep in files: the bound on the memories, what   *)
(* the digests of the context tables can promise, the report that the      *)
(* ledger of briefs names, and the verdict of the doctor, for any          *)
(* processes, entries, keys, values and files.                             *)
(***************************************************************************)
EXTENDS MemoryStore, ContextLedger, Brief, Doctor, FiniteSetTheorems, TLAPS

-----------------------------------------------------------------------------
(* The memories.                                                           *)

(* Commands that will write a memory, and those whose listing would leave  *)
(* room under a limit of m.                                                *)
Committed == {c \in Clients : mpc[c] \in {"create", "fill"}}
Hopeful(m) ==
  {c \in Clients : mpc[c] = "remember" /\ Cardinality(seen[c] \cap Whole) < m}

Claimed(m) ==
  Cardinality(Whole) + Cardinality(Committed \cup Hopeful(m)) <= m + Cardinality(Clients) - 1

(* The limit alone is not inductive: a memory that is forgotten leaves     *)
(* room to every command that had it in its listing, so what they may      *)
(* claim is bounded for all the limits above, too.                         *)
Claims == \A m \in Nat : m >= MaxMemories => Claimed(m)

Chosen == \A c \in Committed : entry[c] \in Entries

MInv == MemoryTypeOK /\ Chosen /\ Claims

-----------------------------------------------------------------------------
(* What is counted is finite.                                              *)
LEMMA Finite ==
  /\ IsFiniteSet(Whole) /\ Cardinality(Whole) \in Nat
  /\ IsFiniteSet(Clients) /\ Cardinality(Clients) \in Nat
  /\ \A m : /\ IsFiniteSet(Committed \cup Hopeful(m))
            /\ Cardinality(Committed \cup Hopeful(m)) \in Nat
            /\ Cardinality(Committed \cup Hopeful(m)) <= Cardinality(Clients)
  /\ \A c : Cardinality(seen[c] \cap Whole) \in Nat
<1>1. IsFiniteSet(Entries) /\ IsFiniteSet(Clients)
  BY MemoryAssumption
<1>2. Whole \in SUBSET Entries
  BY DEF Whole
<1>3. IsFiniteSet(Whole) /\ Cardinality(Whole) \in Nat
  BY <1>1, <1>2, FS_Subset, FS_CardinalityType
<1>4. Cardinality(Clients) \in Nat
  BY <1>1, FS_CardinalityType
<1>5. ASSUME NEW m
      PROVE  /\ IsFiniteSet(Committed \cup Hopeful(m))
             /\ Cardinality(Committed \cup Hopeful(m)) \in Nat
             /\ Cardinality(Committed \cup Hopeful(m)) <= Cardinality(Clients)
  <2>1. Committed \cup Hopeful(m) \in SUBSET Clients
    BY DEF Committed, Hopeful
  <2> QED
    BY <1>1, <2>1, FS_Subset, FS_CardinalityType
<1>6. ASSUME NEW c
      PROVE  Cardinality(seen[c] \cap Whole) \in Nat
  <2>1. seen[c] \cap Whole \in SUBSET Whole
    OBVIOUS
  <2> QED
    BY <1>3, <2>1, FS_Subset, FS_CardinalityType
<1> QED
  BY <1>1, <1>3, <1>4, <1>5, <1>6

(* The same of the next state.                                             *)
LEMMA FinitePrime ==
  /\ IsFiniteSet(Whole') /\ Cardinality(Whole') \in Nat
  /\ \A m : /\ IsFiniteSet((Committed \cup Hopeful(m))')
            /\ Cardinality((Committed \cup Hopeful(m))') \in Nat
  /\ \A c : Cardinality(seen'[c] \cap Whole') \in Nat
<1>1. IsFiniteSet(Entries) /\ IsFiniteSet(Clients)
  BY MemoryAssumption
<1>2. Whole' \in SUBSET Entries
  BY DEF Whole
<1>3. IsFiniteSet(Whole') /\ Cardinality(Whole') \in Nat
  BY <1>1, <1>2, FS_Subset, FS_CardinalityType
<1>5. ASSUME NEW m
      PROVE  /\ IsFiniteSet((Committed \cup Hopeful(m))')
             /\ Cardinality((Committed \cup Hopeful(m))') \in Nat
  <2>1. (Committed \cup Hopeful(m))' \in SUBSET Clients
    BY DEF Committed, Hopeful
  <2> QED
    BY <1>1, <2>1, FS_Subset, FS_CardinalityType
<1>6. ASSUME NEW c
      PROVE  Cardinality(seen'[c] \cap Whole') \in Nat
  <2>1. seen'[c] \cap Whole' \in SUBSET Whole'
    OBVIOUS
  <2> QED
    BY <1>3, <2>1, FS_Subset, FS_CardinalityType
<1> QED
  BY <1>1, <1>3, <1>5, <1>6

(* Nobody begins to hope or to write, and nothing is added: claims stay.   *)
LEMMA NoNewClaims ==
  ASSUME Claims, UNCHANGED file,
         \A m \in Nat : m >= MaxMemories =>
           (Committed \cup Hopeful(m))' \subseteq Committed \cup Hopeful(m)
  PROVE  Claims'
<1>1. Whole' = Whole
  BY DEF Whole
<1>2. SUFFICES ASSUME NEW m \in Nat, m >= MaxMemories
               PROVE  Claimed(m)'
  BY DEF Claims
<1>3. Cardinality((Committed \cup Hopeful(m))') <= Cardinality(Committed \cup Hopeful(m))
  BY <1>2, Finite, FS_Subset
<1>4. Claimed(m)
  BY <1>2 DEF Claims
<1> QED
  BY <1>1, <1>3, <1>4, Finite, FinitePrime, MemoryAssumption DEF Claimed

(* A file goes, or is emptied: whoever had it in its listing may come to   *)
(* hope, but no more than would have with one memory more.                 *)
LEMMA LessClaims ==
  ASSUME Claims, NEW e, e \in Whole, Whole' = Whole \ {e},
         Committed' \subseteq Committed,
         \A c \in Clients : mpc'[c] = "remember" =>
           mpc[c] = "remember" /\ seen'[c] = seen[c]
  PROVE  Claims'
<1>1. SUFFICES ASSUME NEW m \in Nat, m >= MaxMemories
               PROVE  Claimed(m)'
  BY DEF Claims
<1>2. Cardinality(Whole') = Cardinality(Whole) - 1
  BY Finite, FS_RemoveElement
<1>3. (Committed \cup Hopeful(m))' \subseteq Committed \cup Hopeful(m + 1)
  <2>1. ASSUME NEW c \in Clients, mpc'[c] = "remember",
               Cardinality(seen'[c] \cap Whole') < m
        PROVE  c \in Hopeful(m + 1)
    <3>1. mpc[c] = "remember" /\ seen'[c] = seen[c]
      BY <2>1
    <3>2. seen[c] \cap Whole' = (seen[c] \cap Whole) \ {e}
      OBVIOUS
    <3>3. IsFiniteSet(seen[c] \cap Whole)
      BY Finite, FS_Subset
    <3>4. Cardinality(seen[c] \cap Whole) <= Cardinality(seen[c] \cap Whole') + 1
      <4> DEFINE T == seen[c] \cap Whole
      <4>1. Cardinality(T \ {e}) = IF e \in T THEN Cardinality(T) - 1 ELSE Cardinality(T)
        BY <3>3, FS_RemoveElement
      <4>2. Cardinality(T) \in Nat
        BY Finite
      <4> HIDE DEF T
      <4>3. Cardinality(T) <= Cardinality(T \ {e}) + 1
        BY <4>1, <4>2
      <4> QED
        BY <3>2, <4>3 DEF T
    <3>5. Cardinality(seen[c] \cap Whole') \in Nat
      BY <3>1, FinitePrime
    <3>6. Cardinality(seen[c] \cap Whole') < m
      BY <2>1, <3>1
    <3>7. Cardinality(seen[c] \cap Whole) < m + 1
      <4> DEFINE n == Cardinality(seen[c] \cap Whole)
                 n1 == Cardinality(seen[c] \cap Whole')
      <4>1. n \in Nat /\ n1 \in Nat /\ n <= n1 + 1 /\ n1 < m
        BY <3>3, <3>4, <3>5, <3>6, FS_CardinalityType
      <4> HIDE DEF n, n1
      <4>2. n < m + 1
        BY <4>1
      <4> QED
        BY <4>2 DEF n
    <3> QED
      BY <3>1, <3>7 DEF Hopeful
  <2> QED
    BY <2>1 DEF Hopeful
<1>4. Cardinality((Committed \cup Hopeful(m))') <= Cardinality(Committed \cup Hopeful(m + 1))
  BY <1>3, Finite, FS_Subset
<1>5. Claimed(m + 1)
  <2>1. m + 1 \in Nat /\ m + 1 >= MaxMemories
    BY <1>1, MemoryAssumption
  <2> QED
    BY <2>1 DEF Claims
<1> QED
  BY <1>1, <1>2, <1>4, <1>5, Finite, FinitePrime DEF Claimed

(* A command that hoped, or was writing, has written: its claim becomes a  *)
(* memory, if not one that was there.                                      *)
LEMMA ClaimMet ==
  ASSUME Claims, NEW c \in Committed, \E e : Whole' \in {Whole, Whole \cup {e}},
         c \notin Committed', Committed' \subseteq Committed,
         \A d \in Clients : mpc'[d] = "remember" =>
           mpc[d] = "remember" /\ seen'[d] = seen[d]
  PROVE  Claims'
<1>1. SUFFICES ASSUME NEW m \in Nat, m >= MaxMemories
               PROVE  Claimed(m)'
  BY DEF Claims
<1>2. Cardinality(Whole') <= Cardinality(Whole) + 1
  <2> PICK e : Whole' \in {Whole, Whole \cup {e}}
    OBVIOUS
  <2>1. Cardinality(Whole \cup {e}) = IF e \in Whole THEN Cardinality(Whole)
                                      ELSE Cardinality(Whole) + 1
    BY Finite, FS_AddElement
  <2>2. Cardinality(Whole \cup {e}) <= Cardinality(Whole) + 1
    BY <2>1, Finite
  <2>3. CASE Whole' = Whole
    BY <2>3, Finite
  <2>4. CASE Whole' = Whole \cup {e}
    BY <2>2, <2>4
  <2> QED
    BY <2>3, <2>4
<1>3. (Committed \cup Hopeful(m))' \subseteq (Committed \cup Hopeful(m)) \ {c}
  <2>1. ASSUME NEW d \in Clients, mpc'[d] = "remember",
               Cardinality(seen'[d] \cap Whole') < m
        PROVE  d \in Hopeful(m) /\ d # c
    <3>1. mpc[d] = "remember" /\ seen'[d] = seen[d]
      BY <2>1
    <3>2. seen[d] \cap Whole \in SUBSET (seen[d] \cap Whole')
      OBVIOUS
    <3>3. IsFiniteSet(seen[d] \cap Whole')
      BY FinitePrime, FS_Subset
    <3>4. Cardinality(seen[d] \cap Whole) <= Cardinality(seen[d] \cap Whole')
      BY <3>2, <3>3, FS_Subset
    <3>5. Cardinality(seen[d] \cap Whole') \in Nat /\ Cardinality(seen[d] \cap Whole') < m
      BY <2>1, <3>1, FinitePrime
    <3>6. Cardinality(seen[d] \cap Whole) < m
      BY <3>4, <3>5, Finite, <1>1
    <3>7. d # c
      BY <3>1 DEF Committed
    <3> QED
      BY <3>1, <3>6, <3>7 DEF Hopeful
  <2>2. Committed' \subseteq Committed \ {c}
    OBVIOUS
  <2> QED
    BY <2>1, <2>2 DEF Hopeful
<1>4. Cardinality((Committed \cup Hopeful(m)) \ {c}) = Cardinality(Committed \cup Hopeful(m)) - 1
  BY Finite, FS_RemoveElement
<1>5. Cardinality((Committed \cup Hopeful(m))') <= Cardinality(Committed \cup Hopeful(m)) - 1
  <2>1. IsFiniteSet((Committed \cup Hopeful(m)) \ {c})
    BY Finite, FS_RemoveElement
  <2>2. Cardinality((Committed \cup Hopeful(m))') <= Cardinality((Committed \cup Hopeful(m)) \ {c})
    BY <1>3, <2>1, FS_Subset
  <2> QED
    BY <1>4, <2>2
<1>6. Claimed(m)
  BY <1>1 DEF Claims
<1> QED
  BY <1>1, <1>2, <1>5, <1>6, Finite, FinitePrime, MemoryAssumption DEF Claimed

(* The same where the file that goes was no memory.                        *)
LEMMA SameClaims ==
  ASSUME Claims, Whole' = Whole, Committed' \subseteq Committed,
         \A c \in Clients : mpc'[c] = "remember" =>
           mpc[c] = "remember" /\ seen'[c] = seen[c]
  PROVE  Claims'
<1>1. SUFFICES ASSUME NEW m \in Nat, m >= MaxMemories
               PROVE  Claimed(m)'
  BY DEF Claims
<1>2. (Committed \cup Hopeful(m))' \subseteq Committed \cup Hopeful(m)
  BY DEF Hopeful
<1>3. Cardinality((Committed \cup Hopeful(m))') <= Cardinality(Committed \cup Hopeful(m))
  BY <1>2, Finite, FS_Subset
<1>4. Claimed(m)
  BY <1>1 DEF Claims
<1> QED
  BY <1>1, <1>3, <1>4, Finite, FinitePrime, MemoryAssumption DEF Claimed

(* A new listing hopes only where there is room for it.                    *)
LEMMA GlobClaims ==
  ASSUME MInv, NEW c \in Clients, Glob(c)
  PROVE  Claims'
<1>1. SUFFICES ASSUME NEW m \in Nat, m >= MaxMemories
               PROVE  Claimed(m)'
  BY DEF Claims
<1>2. /\ Whole' = Whole /\ Whole \subseteq Present
      /\ mpc[c] = "idle" /\ seen'[c] = Present /\ mpc'[c] \notin {"create", "fill"}
      /\ \A d \in Clients \ {c} : mpc'[d] = mpc[d] /\ seen'[d] = seen[d]
  BY DEF Glob, At, Whole, Present, MInv, MemoryTypeOK
<1>3. Claimed(m)
  BY <1>1 DEF Claims, MInv
<1>4. CASE Cardinality(Whole) < m
  <2>1. Cardinality((Committed \cup Hopeful(m))') <= Cardinality(Clients)
    <3>1. (Committed \cup Hopeful(m))' \in SUBSET Clients
      BY DEF Committed, Hopeful
    <3> QED
      BY <3>1, Finite, FS_Subset
  <2> QED
    BY <1>1, <1>2, <1>4, <2>1, Finite, FinitePrime DEF Claimed
<1>5. CASE ~(Cardinality(Whole) < m)
  <2>1. (Committed \cup Hopeful(m))' \subseteq Committed \cup Hopeful(m)
    <3>1. Committed' \subseteq Committed
      BY <1>2 DEF Committed
    <3>2. seen'[c] \cap Whole' = Whole
      BY <1>2
    <3>3. Hopeful(m)' \subseteq Hopeful(m)
      BY <1>2, <1>5, <3>2 DEF Hopeful
    <3> QED
      BY <3>1, <3>3
  <2>2. Cardinality((Committed \cup Hopeful(m))') <= Cardinality(Committed \cup Hopeful(m))
    BY <2>1, Finite, FS_Subset
  <2> QED
    BY <1>1, <1>2, <1>3, <2>2, Finite, FinitePrime DEF Claimed
<1> QED
  BY <1>4, <1>5

-----------------------------------------------------------------------------
(* One lemma per action that may disturb the claims.                       *)

(* Every operation of the memory store keeps the types, and the ids chosen.*)
LEMMA TypesStep ==
  ASSUME MInv, [MemoryNext]_memoryVars
  PROVE  MemoryTypeOK' /\ Chosen'
<1> USE DEF MInv, MemoryTypeOK, Chosen, Committed
<1>1. CASE UNCHANGED memoryVars
  BY <1>1 DEF memoryVars
<1>2. ASSUME NEW c \in Clients,
             Glob(c) \/ Room(c) \/ Full(c) \/ ReadRaises(c) \/ Forgotten(c) \/ ClientDies(c)
      PROVE  MemoryTypeOK' /\ Chosen'
  <2>1. CASE Glob(c)
    BY <2>1 DEF Glob, At, Present
  <2>2. CASE Room(c)
    BY <2>2 DEF Room, At
  <2>3. CASE Full(c) \/ ReadRaises(c) \/ Forgotten(c) \/ ClientDies(c)
    <3>1. Over(c) /\ UNCHANGED file
      BY <2>3 DEF Full, ReadRaises, Forgotten, ClientDies
    <3> QED
      BY <3>1 DEF At, Over
  <2> QED
    BY <1>2, <2>1, <2>2, <2>3
<1>3. ASSUME NEW c \in Clients, Create(c) \/ Fill(c)
      PROVE  MemoryTypeOK' /\ Chosen'
  BY <1>3 DEF Create, Fill, At, Over
<1>4. ASSUME NEW c \in Clients, Unlink(c)
      PROVE  MemoryTypeOK' /\ Chosen'
  BY <1>4 DEF Unlink, At, Over
<1>5. ASSUME NEW e \in Entries, Forget(e)
      PROVE  MemoryTypeOK' /\ Chosen'
  BY <1>5 DEF Forget
<1> QED
  BY <1>1, <1>2, <1>3, <1>4, <1>5 DEF MemoryNext

(* Who finds room hoped for it: files that are gone were counted, too.     *)
LEMMA RoomClaims ==
  ASSUME MInv, NEW c \in Clients, Room(c)
  PROVE  Claims'
<1>1. mpc[c] = "remember" /\ Cardinality(seen[c] \cap Whole) < MaxMemories
  <2>1. PICK early \in SUBSET (seen[c] \ Present) :
               Cardinality((seen[c] \cap Whole) \cup early) < MaxMemories
    BY DEF Room
  <2> DEFINE T == (seen[c] \cap Whole) \cup early
  <2>2. IsFiniteSet(T)
    <3>1. T \in SUBSET Entries
      BY DEF MInv, MemoryTypeOK, Whole
    <3> QED
      BY <3>1, MemoryAssumption, FS_Subset
  <2>3. Cardinality(seen[c] \cap Whole) <= Cardinality(T)
    BY <2>2, FS_Subset
  <2>4. Cardinality(T) \in Nat
    BY <2>2, FS_CardinalityType
  <2>5. Cardinality(T) < MaxMemories
    BY <2>1
  <2> HIDE DEF T
  <2> QED
    BY <2>3, <2>4, <2>5, Finite, MemoryAssumption DEF Room
<1>2. /\ UNCHANGED file /\ mpc'[c] = "create"
      /\ \A d \in Clients \ {c} : mpc'[d] = mpc[d] /\ seen'[d] = seen[d]
  BY DEF Room, At, MInv, MemoryTypeOK
<1>3. Whole' = Whole
  BY <1>2 DEF Whole
<1>4. ASSUME NEW m \in Nat, m >= MaxMemories
      PROVE  (Committed \cup Hopeful(m))' \subseteq Committed \cup Hopeful(m)
  <2>1. Cardinality(seen[c] \cap Whole) \in Nat
    BY Finite
  <2>2. Cardinality(seen[c] \cap Whole) < m
    BY <1>1, <1>4, <2>1, MemoryAssumption
  <2>3. c \in Hopeful(m)
    BY <1>1, <2>2 DEF Hopeful
  <2> QED
    BY <1>2, <1>3, <2>3 DEF Committed, Hopeful
<1> QED
  BY <1>2, <1>4, NoNewClaims DEF MInv

(* A command that ends without having written gives up its claim.          *)
LEMMA OverClaims ==
  ASSUME MInv, NEW c \in Clients, Over(c), UNCHANGED file
  PROVE  Claims'
<1>1. /\ mpc'[c] = "idle"
      /\ \A d \in Clients \ {c} : mpc'[d] = mpc[d] /\ seen'[d] = seen[d]
  BY DEF Over, At, MInv, MemoryTypeOK
<1>2. Whole' = Whole
  BY DEF Whole
<1>3. ASSUME NEW m \in Nat, m >= MaxMemories
      PROVE  (Committed \cup Hopeful(m))' \subseteq Committed \cup Hopeful(m)
  BY <1>1, <1>2 DEF Committed, Hopeful
<1> QED
  BY <1>3, NoNewClaims DEF MInv

(* Every step keeps the claims under each limit.                           *)
LEMMA ClaimsStep ==
  ASSUME MInv, [MemoryNext]_memoryVars
  PROVE  Claims'
<1>1. CASE UNCHANGED memoryVars
  <2>1. UNCHANGED file /\ \A m : (Committed \cup Hopeful(m))' = Committed \cup Hopeful(m)
    BY <1>1 DEF memoryVars, Committed, Hopeful, Whole
  <2> QED
    BY <2>1, NoNewClaims DEF MInv
<1>2. ASSUME NEW c \in Clients, Glob(c)
      PROVE  Claims'
  BY <1>2, GlobClaims
<1>3. ASSUME NEW c \in Clients, Room(c)
      PROVE  Claims'
  BY <1>3, RoomClaims
<1>4. ASSUME NEW c \in Clients, Full(c) \/ ReadRaises(c) \/ Forgotten(c) \/ ClientDies(c)
      PROVE  Claims'
  BY <1>4, OverClaims DEF Full, ReadRaises, Forgotten, ClientDies
<1>5. ASSUME NEW c \in Clients, Create(c)
      PROVE  Claims'
  <2>1. /\ c \in Committed /\ entry[c] \in Entries
        /\ file' = [file EXCEPT ![entry[c]] = "empty"]
        /\ mpc'[c] = "fill"
        /\ \A d \in Clients \ {c} : mpc'[d] = mpc[d] /\ seen'[d] = seen[d]
    BY <1>5 DEF Create, At, MInv, MemoryTypeOK, Chosen, Committed
  <2>2. Whole' = Whole \ {entry[c]}
    BY <2>1 DEF Whole, MInv, MemoryTypeOK
  <2>3. /\ Committed' \subseteq Committed
        /\ \A d \in Clients : mpc'[d] = "remember" =>
             mpc[d] = "remember" /\ seen'[d] = seen[d]
    BY <2>1 DEF Committed
  <2>4. CASE entry[c] \in Whole
    BY <2>2, <2>3, <2>4, LessClaims DEF MInv
  <2>5. CASE entry[c] \notin Whole
    BY <2>2, <2>3, <2>5, SameClaims DEF MInv
  <2> QED
    BY <2>4, <2>5
<1>6. ASSUME NEW c \in Clients, Fill(c)
      PROVE  Claims'
  <2>1. /\ c \in Committed /\ entry[c] \in Entries /\ mpc'[c] = "idle"
        /\ file' \in {file, [file EXCEPT ![entry[c]] = "whole"]}
        /\ \A d \in Clients \ {c} : mpc'[d] = mpc[d] /\ seen'[d] = seen[d]
    BY <1>6 DEF Fill, Over, At, MInv, MemoryTypeOK, Chosen, Committed
  <2>2. Whole' \in {Whole, Whole \cup {entry[c]}}
    BY <2>1 DEF Whole, MInv, MemoryTypeOK
  <2>3. /\ Committed' \subseteq Committed /\ c \notin Committed'
        /\ \A d \in Clients : mpc'[d] = "remember" =>
             mpc[d] = "remember" /\ seen'[d] = seen[d]
    BY <2>1 DEF Committed
  <2> QED
    <3>1. Claims /\ c \in Committed
      BY <2>1 DEF MInv
    <3> QED
      BY <2>2, <2>3, <3>1, ClaimMet
<1>7. ASSUME NEW e \in Entries, file' = [file EXCEPT ![e] = "none"],
             Committed' \subseteq Committed,
             \A d \in Clients : mpc'[d] = "remember" =>
               mpc[d] = "remember" /\ seen'[d] = seen[d]
      PROVE  Claims'
  <2>1. Whole' = Whole \ {e}
    BY <1>7 DEF Whole, MInv, MemoryTypeOK
  <2>2. CASE e \in Whole
    BY <1>7, <2>1, <2>2, LessClaims DEF MInv
  <2>3. CASE e \notin Whole
    BY <1>7, <2>1, <2>3, SameClaims DEF MInv
  <2> QED
    BY <2>2, <2>3
<1>8. ASSUME NEW e \in Entries, Forget(e)
      PROVE  Claims'
  BY <1>7, <1>8 DEF Forget, Committed
<1>9. ASSUME NEW c \in Clients, Unlink(c)
      PROVE  Claims'
  <2>1. PICK e \in seen[c] :
          IF file[e] = "none" THEN Over(c) /\ UNCHANGED file
          ELSE /\ file' = [file EXCEPT ![e] = "none"]
               /\ At(c, "forget_all", seen[c] \ {e}, NoEntry)
    BY <1>9 DEF Unlink
  <2>2. CASE file[e] = "none"
    BY <2>1, <2>2, OverClaims
  <2>3. CASE file[e] # "none"
    <3>1. e \in Entries
      BY DEF MInv, MemoryTypeOK
    <3>2. /\ file' = [file EXCEPT ![e] = "none"] /\ mpc'[c] = "forget_all"
          /\ \A d \in Clients \ {c} : mpc'[d] = mpc[d] /\ seen'[d] = seen[d]
      BY <2>1, <2>3 DEF At, MInv, MemoryTypeOK
    <3>3. /\ Committed' \subseteq Committed
          /\ \A d \in Clients : mpc'[d] = "remember" =>
               mpc[d] = "remember" /\ seen'[d] = seen[d]
      BY <3>2 DEF Committed
    <3> QED
      BY <1>7, <3>1, <3>2, <3>3
  <2> QED
    BY <2>2, <2>3
<1> QED
  BY <1>1, <1>2, <1>3, <1>4, <1>5, <1>6, <1>8, <1>9 DEF MemoryNext

-----------------------------------------------------------------------------
(* The inductive invariant holds in every reachable state.                 *)
THEOREM MemoryInvariance == MemorySpec => []MInv
<1>1. MemoryInit => MInv
  <2> SUFFICES ASSUME MemoryInit
               PROVE  MInv
    OBVIOUS
  <2>1. MemoryTypeOK /\ Chosen
    BY DEF MemoryInit, MemoryTypeOK, Chosen, Committed
  <2>2. ASSUME NEW m \in Nat, m >= MaxMemories
        PROVE  Claimed(m)
    <3>1. Whole = {} /\ Committed \cup Hopeful(m) = {}
      BY DEF MemoryInit, Whole, Committed, Hopeful
    <3>2. Cardinality(Whole) = 0 /\ Cardinality(Committed \cup Hopeful(m)) = 0
      BY <3>1, FS_EmptySet
    <3> QED
      BY <2>2, <3>2, Finite, MemoryAssumption DEF Claimed
  <2> QED
    BY <2>1, <2>2 DEF MInv, Claims
<1>2. MInv /\ [MemoryNext]_memoryVars => MInv'
  <2> SUFFICES ASSUME MInv, [MemoryNext]_memoryVars
               PROVE  MInv'
    OBVIOUS
  <2>1. MemoryTypeOK' /\ Chosen'
    BY TypesStep
  <2>2. Claims'
    BY ClaimsStep
  <2> QED
    BY <2>1, <2>2 DEF MInv
<1> QED
  BY <1>1, <1>2, PTL DEF MemorySpec

(* The memories never outnumber the limit by as many as there are commands *)
(* that may run at the same time: each found room when it last looked.     *)
THEOREM MemoryBoundTheorem == MemorySpec => []MemoryBounded
<1>1. MInv => MemoryBounded
  <2> SUFFICES ASSUME MInv
               PROVE  MemoryBounded
    OBVIOUS
  <2>1. Claimed(MaxMemories)
    BY MemoryAssumption DEF MInv, Claims
  <2>2. Cardinality(Committed \cup Hopeful(MaxMemories)) \in Nat
    BY Finite
  <2> QED
    BY <2>1, <2>2, Finite, MemoryAssumption DEF Claimed, MemoryBounded
<1> QED
  BY <1>1, MemoryInvariance, PTL

-----------------------------------------------------------------------------
(* The tables of the context.                                              *)

(* A digest that was taken is of the truth, except for blind rows; where   *)
(* none was, the store was told nothing that is not in a blind row.        *)
Faithful ==
  \A t \in Tables : \A k \in KeysOf[t] : <<t, k>> \notin blind =>
    /\ digest[t] = NoDigest => truth[<<t, k>>] = NoValue
    /\ digest[t] # NoDigest =>
         \A v \in Values : <<k, v>> \in digest[t] <=> truth[<<t, k>>] = v

(* As long as nobody else writes, the digests are of the rows.             *)
Sound ==
  ~meddled => \A t \in Tables :
    /\ ContentOk(t)
    /\ digest[t] = Hashed(row, t) \/ (Hashed(row, t) = {} /\ digest[t] = NoDigest)

(* What was found of a row is not what its digest is of.                   *)
Misread(s) ==
  IF truth[s] = NoValue THEN \E v \in Values : <<s[2], v>> \in found
  ELSE <<s[2], truth[s]>> \notin found

(* What was read is what is there unless somebody wrote it; a drifted row  *)
(* of a table that was read was found to be wrong, or will be when its     *)
(* digest is.                                                              *)
Looking ==
  /\ at # NoValue /\ ~meddled /\ ~midway => found = Hashed(row, at)
  /\ drifted \subseteq Drifting
  /\ \A s \in drifted : s[1] \notin left => alarm
  /\ \A s \in drifted : s[1] = at => alarm \/ Misread(s)

LInv == LedgerTypeOK /\ Faithful /\ Sound /\ Looking /\ HonestUseVerifies

(* What Faithful says of one row.                                          *)
LEMMA FaithfulAt ==
  ASSUME Faithful, NEW t \in Tables, NEW k \in KeysOf[t], <<t, k>> \notin blind
  PROVE  /\ digest[t] = NoDigest => truth[<<t, k>>] = NoValue
         /\ digest[t] # NoDigest =>
              \A v \in Values : <<k, v>> \in digest[t] <=> truth[<<t, k>>] = v
  BY Zenon DEF Faithful

-----------------------------------------------------------------------------
(* A cell is a table and one of its keys.                                  *)
LEMMA CellsAre ==
  /\ \A t \in Tables : \A k \in KeysOf[t] : <<t, k>> \in Cells
  /\ \A s \in Cells : s[1] \in Tables /\ s[2] \in KeysOf[s[1]] /\ s = <<s[1], s[2]>>
<1>1. ASSUME NEW t \in Tables, NEW k \in KeysOf[t]
      PROVE  <<t, k>> \in Cells
  <2>1. k \in UNION {KeysOf[u] : u \in Tables}
    OBVIOUS
  <2>2. <<t, k>> \in Slots
    BY <2>1 DEF Slots
  <2> QED
    BY <2>2 DEF Cells
<1>2. ASSUME NEW s \in Cells
      PROVE  s[1] \in Tables /\ s[2] \in KeysOf[s[1]] /\ s = <<s[1], s[2]>>
  BY DEF Cells, Slots
<1> QED
  BY <1>1, <1>2

(* What a digest is taken of.                                              *)
LEMMA HashedIs ==
  ASSUME NEW r, NEW t \in Tables, NEW k \in KeysOf[t], NEW v
  PROVE  <<k, v>> \in Hashed(r, t) <=> (v = r[<<t, k>>].hash /\ v # NoValue)
  BY DEF Hashed

(* The hashes of a table are keys of it with values, and never the mark of a*)
(* digest that was not taken.                                              *)
LEMMA HashedInValues ==
  ASSUME NEW r \in [Cells -> [val : Values \cup {NoValue}, hash : Values \cup {NoValue}]],
         NEW t \in Tables
  PROVE  Hashed(r, t) \subseteq (KeysOf[t] \X Values) /\ Hashed(r, t) # NoDigest
<1>1. \A k \in KeysOf[t] : r[<<t, k>>].hash \in Values \cup {NoValue}
  BY CellsAre
<1>2. Hashed(r, t) \subseteq (KeysOf[t] \X Values)
  <2> SUFFICES ASSUME NEW d \in Hashed(r, t)
               PROVE  d \in KeysOf[t] \X Values
    OBVIOUS
  <2>1. PICK k \in KeysOf[t] : d = <<k, r[<<t, k>>].hash>> /\ r[<<t, k>>].hash # NoValue
    BY DEF Hashed
  <2>2. r[<<t, k>>].hash \in Values
    BY <1>1, <2>1
  <2> QED
    BY <2>1, <2>2
<1>3. <<NoValue, NoValue>> \notin Hashed(r, t)
  BY <1>2, LedgerAssumption
<1> QED
  BY <1>2, <1>3 DEF NoDigest

(* The store tells its rows the truth, and takes the digests of them all.  *)
LEMMA WriteStep ==
  ASSUME LInv, NEW s \in Cells, NEW v \in Values \cup {NoValue}, Write(s, v)
  PROVE  LInv'
<1> USE DEF LInv, looking
<1>1. /\ row' \in [Cells -> [val : Values \cup {NoValue}, hash : Values \cup {NoValue}]]
      /\ truth' \in [Cells -> Values \cup {NoValue}]
      /\ row'[s].hash \in {NoValue, row'[s].val} /\ row'[s].val = truth'[s]
      /\ \A c \in Cells : c # s => row'[c] = row[c] /\ truth'[c] = truth[c]
  BY DEF Write, NoRow, LedgerTypeOK
<1>2. \A t \in Tables : digest'[t] = Hashed(row', t)
  BY DEF Write
<1>3. \A t \in Tables : digest'[t] \subseteq (KeysOf[t] \X Values) /\ digest'[t] # NoDigest
  BY <1>1, <1>2, HashedInValues
<1>4. LedgerTypeOK'
  BY <1>1, <1>3 DEF LedgerTypeOK, Write, Watched
<1>5. Sound'
  <2> SUFFICES ASSUME ~meddled, NEW t \in Tables PROVE ContentOk(t)'
    BY <1>2 DEF Sound, Write
  <2>1. ContentOk(t)
    BY DEF Sound
  <2> QED
    BY <1>1, <2>1, CellsAre DEF ContentOk
<1>6. Faithful'
  <2> SUFFICES ASSUME NEW t \in Tables, NEW k \in KeysOf[t], <<t, k>> \notin blind',
                      NEW w \in Values
               PROVE  <<k, w>> \in digest'[t] <=> truth'[<<t, k>>] = w
    BY <1>3 DEF Faithful
  <2>1. row'[<<t, k>>].hash = truth'[<<t, k>>]
    BY CellsAre DEF Write
  <2>2. w # NoValue
    BY LedgerAssumption
  <2> QED
    BY <1>2, <2>1, <2>2, HashedIs
<1>7. Looking'
  <2>1. /\ drifted' \subseteq drifted /\ drifted' \subseteq Drifting' /\ s \notin drifted'
        /\ UNCHANGED <<meddled, left, at, found, alarm>> /\ midway' = (midway \/ s[1] = at)
    BY <1>1 DEF Write, Watched, Drifting
  <2>2. ASSUME at # NoValue, ~meddled, ~midway' PROVE found = Hashed(row', at)
    <3>1. s[1] # at /\ at \in Tables /\ found = Hashed(row, at)
      BY <2>1, <2>2 DEF Looking, LedgerTypeOK
    <3>2. \A k \in KeysOf[at] : row'[<<at, k>>] = row[<<at, k>>]
      BY <1>1, <3>1, CellsAre
    <3> QED
      BY <3>1, <3>2 DEF Hashed
  <2>3. \A c \in drifted' : truth'[c] = truth[c]
    BY <1>1, <2>1 DEF Drifting
  <2> QED
    BY <2>1, <2>2, <2>3 DEF Looking, Misread
<1>8. HonestUseVerifies'
  BY DEF HonestUseVerifies, Write
<1> QED
  BY <1>4, <1>5, <1>6, <1>7, <1>8

(* Forgetting empties the tables and the digests together.                 *)
LEMMA ForgetStep ==
  ASSUME LInv, ForgetEverything
  PROVE  LInv'
<1> USE DEF LInv, looking
<1>1. /\ row' = [s \in Cells |-> NoRow] /\ truth' = [s \in Cells |-> NoValue]
      /\ digest' = [t \in Tables |-> NoDigest] /\ blind' = {}
      /\ UNCHANGED <<meddled, left, at, found, alarm>>
      /\ midway' = (midway \/ at # NoValue)
  BY DEF ForgetEverything
<1>2. drifted' = {}
  BY <1>1 DEF ForgetEverything, Watched, Drifting, NoRow
<1>3. LedgerTypeOK'
  BY <1>1, <1>2 DEF LedgerTypeOK, NoRow
<1>4. \A t \in Tables : \A k \in KeysOf[t] : row'[<<t, k>>] = NoRow
  BY <1>1, CellsAre
<1>5. \A t \in Tables : Hashed(row', t) = {} /\ ContentOk(t)'
  <2>1. NoRow.hash = NoValue /\ NoRow.val = NoValue
    BY DEF NoRow
  <2> QED
    BY <1>4, <2>1 DEF Hashed, ContentOk
<1>6. Sound'
  BY <1>1, <1>5 DEF Sound
<1>7. Faithful'
  BY <1>1, CellsAre DEF Faithful
<1>8. Looking' /\ HonestUseVerifies'
  BY <1>1, <1>2 DEF Looking, HonestUseVerifies
<1> QED
  BY <1>3, <1>6, <1>7, <1>8

(* Somebody else changes a row, and nothing the store has written down.    *)
LEMMA OutsideStep ==
  ASSUME LInv, NEW s \in Cells, Outside(s)
  PROVE  LInv'
<1> USE DEF LInv, looking
<1>1. PICK r \in [val : Values \cup {NoValue}, hash : Values \cup {NoValue}] : Meddle(s, r)
  <2>1. row[s] \in [val : Values \cup {NoValue}, hash : Values \cup {NoValue}]
    BY DEF LedgerTypeOK
  <2>2. NoRow \in [val : Values \cup {NoValue}, hash : Values \cup {NoValue}]
    BY DEF NoRow
  <2> QED
    BY <2>1, <2>2 DEF Outside
<1>2. /\ UNCHANGED <<digest, truth, blind, midway, left, at, found, alarm>> /\ meddled'
      /\ drifted' \subseteq drifted /\ drifted' \subseteq Drifting'
  BY <1>1 DEF Meddle, Watched
<1>3. LedgerTypeOK'
  BY <1>1, <1>2 DEF Meddle, LedgerTypeOK
<1>4. Faithful'
  BY <1>2 DEF Faithful
<1>5. Looking'
  BY <1>2 DEF Looking, Misread
<1> QED
  BY <1>2, <1>3, <1>4, <1>5 DEF Sound, HonestUseVerifies

(* What is only read stays as sound as it was.                             *)
LEMMA SoundStays ==
  ASSUME Sound, row' = row, digest' = digest, meddled' = meddled
  PROVE  Sound'
<1>1. \A t \in Tables : Hashed(row', t) = Hashed(row, t) /\ digest'[t] = digest[t]
  OBVIOUS
<1>2. \A t \in Tables : ContentOk(t) => ContentOk(t)'
  BY DEF ContentOk
<1>3. ASSUME ~meddled, NEW t \in Tables
      PROVE  /\ ContentOk(t)'
             /\ digest'[t] = Hashed(row', t) \/ (Hashed(row', t) = {} /\ digest'[t] = NoDigest)
  BY <1>1, <1>2, <1>3 DEF Sound
<1> QED
  BY <1>3 DEF Sound

(* A look begins with what is wrong then.                                  *)
LEMMA LookBegins ==
  ASSUME LInv, BeginVerify
  PROVE  LInv'
<1> USE DEF LInv, tables
<1>1. /\ UNCHANGED <<row, digest, truth, meddled, blind>> /\ drifted' = Drifting
      /\ left' = Tables /\ at' = NoValue /\ found' = {} /\ ~alarm' /\ midway' = FALSE
      /\ alarm' = FALSE
  BY DEF BeginVerify
<1>2. Drifting' = Drifting /\ Drifting \subseteq Cells
  BY <1>1 DEF Drifting, Hashed
<1>3. LedgerTypeOK' /\ Faithful'
  BY <1>1, <1>2 DEF LedgerTypeOK, Faithful
<1>4. Sound'
  <2>1. row' = row /\ digest' = digest /\ meddled' = meddled
    BY <1>1
  <2> QED
    BY <2>1, SoundStays
<1>5. Looking' /\ HonestUseVerifies'
  <2>1. \A s \in Cells : s[1] \in Tables /\ s[1] # NoValue
    BY CellsAre, LedgerAssumption DEF Tables
  <2> QED
    BY <1>1, <1>2, <2>1 DEF Looking, HonestUseVerifies
<1> QED
  BY <1>3, <1>4, <1>5

(* The rows of a table give a drifted one away, by what their hashes are   *)
(* of or by being absent.                                                  *)
LEMMA RowsStep ==
  ASSUME LInv, NEW t \in Tables, ReadRows(t)
  PROVE  LInv'
<1> USE DEF LInv, tables
<1>1. /\ UNCHANGED <<row, digest, truth, meddled, blind, midway, drifted>>
      /\ at = NoValue /\ t \in left /\ t # NoValue /\ found = {}
      /\ alarm' = (alarm \/ ~ContentOk(t))
      /\ \/ Skipped(t) /\ left' = left \ {t} /\ at' = at /\ found' = found
         \/ ~Skipped(t) /\ at' = t /\ found' = Hashed(row, t) /\ left' = left
  BY LedgerAssumption DEF ReadRows, LedgerTypeOK, Tables
<1>2. Drifting' = Drifting
  BY <1>1 DEF Drifting, Hashed
<1>3. Hashed(row, t) \subseteq (KeysOf[t] \X Values)
  BY HashedInValues DEF LedgerTypeOK
<1>4. LedgerTypeOK'
  BY <1>1, <1>3 DEF LedgerTypeOK
<1>5. Faithful'
  BY <1>1 DEF Faithful
<1>9. Sound'
  <2>1. row' = row /\ digest' = digest /\ meddled' = meddled
    BY <1>1
  <2> QED
    BY <2>1, SoundStays
<1>6. HonestUseVerifies'
  BY <1>1 DEF HonestUseVerifies, Sound
<1>7. ASSUME NEW s \in drifted, s[1] = t, ContentOk(t)
      PROVE  /\ ~Skipped(t)
             /\ IF truth[s] = NoValue THEN \E v \in Values : <<s[2], v>> \in Hashed(row, t)
                ELSE <<s[2], truth[s]>> \notin Hashed(row, t)
  <2>1. /\ s \in Cells /\ row[s].val # truth[s]
        /\ row[s] = NoRow \/ row[s].hash # NoValue
        /\ s[1] = "feedback" => Hashed(row, "feedback") # {}
    BY DEF Looking, Drifting
  <2>2. s[2] \in KeysOf[t] /\ s = <<t, s[2]>>
    <3>1. s[2] \in KeysOf[s[1]] /\ s = <<s[1], s[2]>>
      BY <2>1, CellsAre
    <3> QED
      BY <1>7, <3>1
  <2>3. /\ row[s].hash \in {NoValue, row[s].val} /\ row[s].val \in Values \cup {NoValue}
        /\ row[s].hash \in Values \cup {NoValue}
    BY <1>7, <2>1, <2>2 DEF ContentOk, LedgerTypeOK
  <2>4. \A v : <<s[2], v>> \in Hashed(row, t) <=> (v = row[s].hash /\ v # NoValue)
    BY <2>2, HashedIs
  <2>5. NoRow.val = NoValue /\ NoRow.hash = NoValue
    BY DEF NoRow
  <2>6. t = "feedback" => Hashed(row, t) # {}
    BY <1>7, <2>1
  <2>7. truth[s] # NoValue => row[s].hash # truth[s]
    BY <2>1, <2>3, <2>5
  <2>8. truth[s] = NoValue => row[s].hash # NoValue
    BY <2>1, <2>3, <2>5
  <2>9. ASSUME truth[s] = NoValue PROVE \E v \in Values : <<s[2], v>> \in Hashed(row, t)
    BY <2>3, <2>4, <2>8, <2>9
  <2>10. ASSUME truth[s] # NoValue PROVE <<s[2], truth[s]>> \notin Hashed(row, t)
    BY <2>4, <2>7, <2>10
  <2>11. ~Skipped(t)
    BY <1>7, <2>6 DEF Skipped
  <2> QED
    BY <2>9, <2>10, <2>11
<1>8. Looking'
  <2>1. ASSUME NEW s \in drifted PROVE s[1] \notin left' => alarm'
    BY <1>1, <1>7 DEF Looking
  <2>2. ASSUME NEW s \in drifted, s[1] = at' PROVE alarm' \/ Misread(s)'
    <3>1. s[1] # NoValue
      BY CellsAre, LedgerAssumption DEF Looking, Drifting, Tables
    <3>2. at' = t /\ found' = Hashed(row, t)
      BY <1>1, <2>2, <3>1
    <3> QED
      BY <1>1, <1>7, <2>2, <3>2 DEF Misread
  <2>4. at' # NoValue => found' = Hashed(row', at')
    BY <1>1
  <2> QED
    BY <1>1, <1>2, <2>1, <2>2, <2>4 DEF Looking
<1> QED
  BY <1>4, <1>5, <1>6, <1>8, <1>9

(* The digest is of the truth, so what is not gives itself away by it.     *)
LEMMA DigestStep ==
  ASSUME LInv, ReadDigest
  PROVE  LInv'
<1> USE DEF LInv, tables
<1>1. /\ UNCHANGED <<row, digest, truth, meddled, blind, midway, drifted>>
      /\ at \in Tables /\ at # NoValue /\ at' = NoValue /\ found' = {}
      /\ left' = left \ {at} /\ alarm' = (alarm \/ ~DigestOk)
  BY DEF ReadDigest, LedgerTypeOK
<1>2. Drifting' = Drifting
  BY <1>1 DEF Drifting, Hashed
<1>3. LedgerTypeOK'
  BY <1>1 DEF LedgerTypeOK
<1>4. Faithful'
  BY <1>1 DEF Faithful
<1>8. Sound'
  <2>1. row' = row /\ digest' = digest /\ meddled' = meddled
    BY <1>1
  <2> QED
    BY <2>1, SoundStays
<1>5. HonestUseVerifies'
  BY <1>1 DEF HonestUseVerifies, Sound, Looking, DigestOk
<1>6. ASSUME NEW s \in drifted, s[1] = at, Misread(s) PROVE ~DigestOk
  <2>1. s \in Cells /\ s \notin blind
    BY DEF Looking, Drifting
  <2>2. s[2] \in KeysOf[at] /\ s = <<at, s[2]>> /\ truth[s] \in Values \cup {NoValue}
    BY <1>6, <2>1, CellsAre DEF LedgerTypeOK
  <2>3. /\ digest[at] = NoDigest => truth[s] = NoValue
        /\ digest[at] # NoDigest =>
             \A v \in Values : <<s[2], v>> \in digest[at] <=> truth[s] = v
    <3>1. <<at, s[2]>> \notin blind /\ truth[<<at, s[2]>>] = truth[s]
      BY <2>1, <2>2
    <3>2. Faithful /\ at \in Tables /\ s[2] \in KeysOf[at]
      BY <1>1, <2>2
    <3>3. /\ digest[at] = NoDigest => truth[<<at, s[2]>>] = NoValue
          /\ digest[at] # NoDigest =>
               \A v \in Values : <<s[2], v>> \in digest[at] <=> truth[<<at, s[2]>>] = v
      BY <3>1, <3>2, FaithfulAt, Zenon
    <3> QED
      BY <3>1, <3>3
  <2>4. found \subseteq (KeysOf[at] \X Values) /\ NoValue \notin Values
    BY <1>1, LedgerAssumption DEF LedgerTypeOK
  <2>5. found # NoDigest
    <3>1. <<NoValue, NoValue>> \notin found
      BY <2>4
    <3> QED
      BY <3>1 DEF NoDigest
  <2>6. CASE truth[s] = NoValue
    <3>1. PICK v \in Values : <<s[2], v>> \in found
      BY <1>6, <2>6 DEF Misread
    <3>2. digest[at] # found
      BY <2>3, <2>4, <2>5, <2>6, <3>1
    <3> QED
      BY <3>1, <3>2 DEF DigestOk
  <2>7. CASE truth[s] # NoValue
    <3>1. <<s[2], truth[s]>> \notin found
      BY <1>6, <2>7 DEF Misread
    <3>2. digest[at] # NoDigest /\ <<s[2], truth[s]>> \in digest[at]
      BY <2>2, <2>3, <2>7
    <3> QED
      BY <3>1, <3>2 DEF DigestOk
  <2> QED
    BY <2>6, <2>7
<1>7. Looking'
  <2>1. ASSUME NEW s \in drifted PROVE s[1] \notin left' => alarm'
    BY <1>1, <1>6 DEF Looking
  <2>2. ASSUME NEW s \in drifted PROVE s[1] # NoValue
    BY CellsAre, LedgerAssumption DEF Looking, Drifting, Tables
  <2> QED
    BY <1>1, <1>2, <2>1, <2>2 DEF Looking
<1> QED
  BY <1>3, <1>4, <1>5, <1>7, <1>8

-----------------------------------------------------------------------------
(* The inductive invariant holds in every reachable state.                 *)
THEOREM LedgerInvariance == LedgerSpec => []LInv
<1>1. LedgerInit => LInv
  <2> SUFFICES ASSUME LedgerInit
               PROVE  LInv
    OBVIOUS
  <2>1. LedgerTypeOK
    BY DEF LedgerInit, LedgerTypeOK
  <2>2. \A t \in Tables : \A k \in KeysOf[t] : row[<<t, k>>].hash = NoValue
    BY CellsAre DEF LedgerInit
  <2>3. \A t \in Tables : Hashed(row, t) = {} /\ ContentOk(t)
    BY <2>2 DEF Hashed, ContentOk
  <2>4. Sound
    BY <2>3 DEF LedgerInit, Sound
  <2>5. Faithful
    BY <2>2, CellsAre DEF LedgerInit, Faithful
  <2>6. Looking /\ HonestUseVerifies
    BY DEF LedgerInit, Looking, HonestUseVerifies
  <2> QED
    BY <2>1, <2>4, <2>5, <2>6 DEF LInv
<1>2. LInv /\ [LedgerNext]_ledgerVars => LInv'
  <2> SUFFICES ASSUME LInv, [LedgerNext]_ledgerVars
               PROVE  LInv'
    OBVIOUS
  <2>1. CASE UNCHANGED ledgerVars
    <3>1. /\ UNCHANGED <<row, digest, truth, meddled, blind>>
          /\ UNCHANGED <<left, at, found, alarm, midway, drifted>>
      BY <2>1 DEF ledgerVars
    <3>2. LedgerTypeOK' /\ Faithful' /\ HonestUseVerifies'
      BY <3>1 DEF LInv, LedgerTypeOK, Faithful, HonestUseVerifies
    <3>3. Sound'
      BY <3>1 DEF LInv, Sound, ContentOk, Hashed
    <3>4. Looking'
      BY <3>1 DEF LInv, Looking, Misread, Drifting, Hashed
    <3> QED
      BY <3>2, <3>3, <3>4 DEF LInv
  <2>2. ASSUME NEW s \in Cells, Put(s) \/ Remove(s)
        PROVE  LInv'
    BY <2>2, WriteStep DEF Put, Remove
  <2> QED
    BY <2>1, <2>2, OutsideStep, ForgetStep, LookBegins, RowsStep, DigestStep DEF LedgerNext
<1> QED
  BY <1>1, <1>2, PTL DEF LedgerSpec

(* verify_integrity raises an alarm over the store's own writes only if    *)
(* one of them fell between the rows of its table and the digest.          *)
THEOREM HonestTheorem == LedgerSpec => []HonestUseVerifies
<1>1. LInv => HonestUseVerifies
  BY DEF LInv
<1> QED
  BY <1>1, LedgerInvariance, PTL

(* A row that was not what the store was told, and could be seen not to    *)
(* be, for as long as verify_integrity took is reported.                   *)
THEOREM DriftTheorem == LedgerSpec => []DriftIsReported
<1>1. LInv => DriftIsReported
  BY DEF LInv, Looking, DriftIsReported
<1> QED
  BY <1>1, LedgerInvariance, PTL

-----------------------------------------------------------------------------

(* The brief: one run at a time, its report and then its line.             *)

(* The report is the one of the last line that says it was notified.       *)
Ledgered ==
  IF Notified = {} THEN latest = NoRun
  ELSE \E i \in Notified : (\A j \in Notified : j <= i) /\ latest = ledger[i].run
Lines == [run : Runs, decision : {"notify", "silence"}, delivered : BOOLEAN]

(* Until two runs cross, only one of them writes; until one is lost, the   *)
(* report is its own from when it was written until its line.              *)
Briefing(r) == bpc[r] \in {"report", "text", "notify", "line"}
OneWrites == ~crossed => \A r, q \in Runs : Briefing(r) /\ Briefing(q) => r = q
ItsReport ==
  ~crossed /\ lost = {} =>
    /\ \A r \in Runs : bpc[r] \in {"notify", "line"} => latest = r
    /\ (\A r \in Runs : bpc[r] \notin {"text", "notify", "line"}) => Ledgered
BriefInv == BriefTypeOK /\ OneWrites /\ ItsReport

(* A line is the last of the ledger.                                       *)
LEMMA LineAppends ==
  ASSUME BriefTypeOK, NEW r \in Runs, NEW decision \in {"notify", "silence"},
         NEW delivered \in BOOLEAN, Line(r, decision, delivered)
  PROVE  /\ ledger' \in Seq(Lines) /\ DOMAIN ledger' = DOMAIN ledger \cup {Len(ledger) + 1}
         /\ \A i \in DOMAIN ledger : i \in Nat /\ i < Len(ledger) + 1 /\ ledger'[i] = ledger[i]
         /\ Len(ledger) + 1 \notin DOMAIN ledger
         /\ ledger'[Len(ledger) + 1].decision = decision
         /\ ledger'[Len(ledger) + 1].run = r
<1> DEFINE line == [run |-> r, decision |-> decision, delivered |-> delivered]
<1>1. line \in Lines /\ ledger \in Seq(Lines) /\ ledger' = Append(ledger, line)
  BY DEF Lines, Line, BriefTypeOK
<1>2. line.decision = decision /\ line.run = r
  OBVIOUS
<1> HIDE DEF line
<1>3. ledger' \in Seq(Lines) /\ DOMAIN ledger' = 1..(Len(ledger) + 1)
      /\ DOMAIN ledger = 1..Len(ledger) /\ Len(ledger) \in Nat
  BY <1>1
<1>4. ledger'[Len(ledger) + 1] = line
  BY <1>1
<1>5. \A i \in DOMAIN ledger : i \in Nat /\ i < Len(ledger) + 1 /\ ledger'[i] = ledger[i]
  BY <1>1, <1>3
<1> QED
  BY <1>2, <1>3, <1>4, <1>5

(* A line of silence leaves the report the one that was notified last.     *)
LEMMA SilenceKeeps ==
  ASSUME BriefTypeOK, NEW r \in Runs, RecordSilence(r)
  PROVE  Ledgered' = Ledgered
<1>1. /\ DOMAIN ledger' = DOMAIN ledger \cup {Len(ledger) + 1}
      /\ \A i \in DOMAIN ledger : ledger'[i] = ledger[i]
      /\ ledger'[Len(ledger) + 1].decision = "silence"
  BY LineAppends DEF RecordSilence
<1>2. Notified' = Notified
  BY <1>1 DEF Notified
<1>3. \A i \in Notified : ledger'[i] = ledger[i]
  BY <1>1 DEF Notified
<1>4. latest' = latest
  BY DEF RecordSilence, Line
<1> QED
  BY <1>2, <1>3, <1>4 DEF Ledgered

(* Every step of a run.                                                    *)
LEMMA RunOfBriefStep ==
  ASSUME BriefInv, NEW r \in Runs,
         \/ Compose(r) \/ EmptyLatest(r) \/ WriteLatest(r) \/ Notify(r)
         \/ RecordNotified(r) \/ RecordSilence(r) \/ RunDies(r)
  PROVE  BriefInv'
<1>0. /\ bpc \in [Runs -> {"idle", "silence", "report", "text", "notify", "line"}]
      /\ shown \in [Runs -> BOOLEAN] /\ shown[r] \in BOOLEAN
  BY DEF BriefInv, BriefTypeOK
<1>1. CASE Compose(r)
  <2>1. PICK to \in {"report", "silence"} :
          /\ bpc[r] = "idle" /\ bpc' = [bpc EXCEPT ![r] = to]
          /\ crossed' = (crossed \/ Busy(r) # {})
          /\ UNCHANGED <<news, latest, ledger, shown, lost>>
    BY <1>1 DEF Compose
  <2>2. \A q \in Runs : bpc'[q] = IF q = r THEN to ELSE bpc[q]
    BY <1>0, <2>1
  <2>3. BriefTypeOK'
    BY <1>0, <2>1 DEF BriefInv, BriefTypeOK
  <2>4. ~crossed' => \A q \in Runs \ {r} : ~Briefing(q)
    BY <2>1 DEF Busy, Briefing
  <2>5. OneWrites'
    BY <2>1, <2>2, <2>4 DEF BriefInv, OneWrites, Briefing
  <2>6. Ledgered' = Ledgered
    BY <2>1 DEF Ledgered, Notified
  <2>7. ItsReport'
    BY <2>1, <2>2, <2>6 DEF BriefInv, ItsReport
  <2> QED
    BY <2>3, <2>5, <2>7 DEF BriefInv
<1>7. CASE EmptyLatest(r)
  <2>1. /\ bpc[r] = "report" /\ latest' = NoRun /\ bpc' = [bpc EXCEPT ![r] = "text"]
        /\ UNCHANGED <<news, ledger, shown, crossed, lost>>
    BY <1>7 DEF EmptyLatest
  <2>2. \A q \in Runs : bpc'[q] = IF q = r THEN "text" ELSE bpc[q]
    BY <1>0, <2>1
  <2>3. BriefTypeOK'
    BY <1>0, <2>1 DEF BriefInv, BriefTypeOK
  <2>4. OneWrites'
    BY <2>1, <2>2 DEF BriefInv, OneWrites, Briefing
  <2>5. ItsReport'
    BY <2>1, <2>2 DEF BriefInv, OneWrites, Briefing, ItsReport
  <2> QED
    BY <2>3, <2>4, <2>5 DEF BriefInv
<1>2. CASE WriteLatest(r)
  <2>1. /\ bpc[r] = "text" /\ latest' = r /\ bpc' = [bpc EXCEPT ![r] = "notify"]
        /\ lost' \subseteq lost /\ UNCHANGED <<news, ledger, shown, crossed>>
    BY <1>2 DEF WriteLatest
  <2>2. \A q \in Runs : bpc'[q] = IF q = r THEN "notify" ELSE bpc[q]
    BY <1>0, <2>1
  <2>3. BriefTypeOK'
    BY <1>0, <2>1 DEF BriefInv, BriefTypeOK
  <2>4. OneWrites'
    BY <2>1, <2>2 DEF BriefInv, OneWrites, Briefing
  <2>5. ItsReport'
    BY <2>1, <2>2 DEF BriefInv, OneWrites, Briefing, ItsReport
  <2> QED
    BY <2>3, <2>4, <2>5 DEF BriefInv
<1>3. CASE Notify(r)
  <2>1. PICK ok \in BOOLEAN :
          /\ bpc[r] = "notify" /\ bpc' = [bpc EXCEPT ![r] = "line"]
          /\ shown' = [shown EXCEPT ![r] = ok]
          /\ UNCHANGED <<news, latest, ledger, crossed, lost>>
    BY <1>3 DEF Notify
  <2>2. \A q \in Runs : bpc'[q] = IF q = r THEN "line" ELSE bpc[q]
    BY <1>0, <2>1
  <2>3. BriefTypeOK'
    BY <1>0, <2>1 DEF BriefInv, BriefTypeOK
  <2>4. OneWrites'
    BY <2>1, <2>2 DEF BriefInv, OneWrites, Briefing
  <2>5. ItsReport'
    BY <2>1, <2>2 DEF BriefInv, ItsReport
  <2> QED
    BY <2>3, <2>4, <2>5 DEF BriefInv
<1>4. CASE RecordNotified(r)
  <2>1. /\ bpc[r] = "line" /\ bpc' = [bpc EXCEPT ![r] = "idle"]
        /\ shown' = [shown EXCEPT ![r] = FALSE]
        /\ UNCHANGED <<news, latest, crossed, lost>> /\ Line(r, "notify", shown[r])
    BY <1>4 DEF RecordNotified, Line
  <2>2. \A q \in Runs : bpc'[q] = IF q = r THEN "idle" ELSE bpc[q]
    BY <1>0, <2>1
  <2>3. /\ ledger' \in Seq(Lines) /\ DOMAIN ledger' = DOMAIN ledger \cup {Len(ledger) + 1}
        /\ \A i \in DOMAIN ledger : i \in Nat /\ i < Len(ledger) + 1 /\ ledger'[i] = ledger[i]
        /\ ledger'[Len(ledger) + 1].decision = "notify"
        /\ ledger'[Len(ledger) + 1].run = r
    BY <1>0, <2>1, LineAppends DEF BriefInv
  <2>4. BriefTypeOK'
    BY <1>0, <2>1, <2>3 DEF BriefInv, BriefTypeOK, Lines
  <2>5. OneWrites'
    <3>1. \A q \in Runs : Briefing(q)' => Briefing(q)
      BY <2>2 DEF Briefing
    <3>2. crossed' = crossed
      BY <2>1
    <3> QED
      BY <3>1, <3>2, Zenon DEF BriefInv, OneWrites
  <2>6. /\ Len(ledger) + 1 \in Notified' /\ \A j \in Notified' : j <= Len(ledger) + 1
    <3>1. Len(ledger) \in Nat
      BY DEF BriefInv, BriefTypeOK
    <3> QED
      BY <2>3, <3>1 DEF Notified
  <2>7. latest' = r => Ledgered'
    BY <2>3, <2>6 DEF Ledgered
  <2>8. ItsReport'
    BY <2>1, <2>2, <2>7 DEF BriefInv, OneWrites, Briefing, ItsReport
  <2> QED
    BY <2>4, <2>5, <2>8 DEF BriefInv
<1>5. CASE RecordSilence(r)
  <2>1. /\ bpc[r] = "silence" /\ bpc' = [bpc EXCEPT ![r] = "idle"]
        /\ shown' = [shown EXCEPT ![r] = FALSE]
        /\ UNCHANGED <<news, latest, crossed, lost>> /\ Line(r, "silence", FALSE)
    BY <1>5 DEF RecordSilence, Line
  <2>2. \A q \in Runs : bpc'[q] = IF q = r THEN "idle" ELSE bpc[q]
    BY <1>0, <2>1
  <2>3. ledger' \in Seq(Lines)
    BY <2>1, LineAppends DEF BriefInv
  <2>4. BriefTypeOK'
    BY <1>0, <2>1, <2>3 DEF BriefInv, BriefTypeOK, Lines
  <2>5. OneWrites'
    <3>1. \A q \in Runs : Briefing(q)' => Briefing(q)
      BY <2>2 DEF Briefing
    <3>2. crossed' = crossed
      BY <2>1
    <3> QED
      BY <3>1, <3>2, Zenon DEF BriefInv, OneWrites
  <2>6. Ledgered' = Ledgered
    BY <1>5, SilenceKeeps DEF BriefInv
  <2>7. ItsReport'
    BY <2>1, <2>2, <2>6 DEF BriefInv, ItsReport
  <2> QED
    BY <2>4, <2>5, <2>7 DEF BriefInv
<1>6. CASE RunDies(r)
  <2>1. /\ bpc[r] # "idle" /\ bpc' = [bpc EXCEPT ![r] = "idle"]
        /\ shown' = [shown EXCEPT ![r] = FALSE]
        /\ lost' = IF bpc[r] \in {"text", "notify", "line"} THEN lost \cup {r} ELSE lost
        /\ UNCHANGED <<news, latest, ledger, crossed>>
    BY <1>6 DEF RunDies
  <2>2. \A q \in Runs : bpc'[q] = IF q = r THEN "idle" ELSE bpc[q]
    BY <1>0, <2>1
  <2>3. BriefTypeOK'
    BY <1>0, <2>1 DEF BriefInv, BriefTypeOK
  <2>4. OneWrites'
    <3>1. \A q \in Runs : Briefing(q)' => Briefing(q)
      BY <2>2 DEF Briefing
    <3>2. crossed' = crossed
      BY <2>1
    <3> QED
      BY <3>1, <3>2, Zenon DEF BriefInv, OneWrites
  <2>5. Ledgered' = Ledgered
    BY <2>1 DEF Ledgered, Notified
  <2>6. lost' = {} => lost = {} /\ bpc[r] \notin {"text", "notify", "line"}
    BY <2>1
  <2>7. ItsReport'
    BY <2>1, <2>2, <2>5, <2>6 DEF BriefInv, ItsReport
  <2> QED
    BY <2>3, <2>4, <2>7 DEF BriefInv
<1> QED
  BY <1>1, <1>2, <1>3, <1>4, <1>5, <1>6, <1>7

(* The invariant of the report and the ledger.                             *)
LEMMA BriefInvariance == BriefSpec => []BriefInv
<1>1. ASSUME BriefInit PROVE BriefInv
  <2>1. ledger = <<>> /\ latest = NoRun
    BY <1>1 DEF BriefInit
  <2>2. Ledgered
    BY <2>1 DEF Ledgered, Notified
  <2>3. /\ bpc = [r \in Runs |-> "idle"] /\ \A r \in Runs : bpc[r] = "idle"
        /\ shown \in [Runs -> BOOLEAN]
    BY <1>1 DEF BriefInit
  <2>4. BriefTypeOK
    <3>1. news \in BOOLEAN /\ crossed \in BOOLEAN /\ lost \subseteq Runs /\ latest = NoRun
      BY <1>1 DEF BriefInit
    <3>2. ledger \in Seq([run : Runs, decision : {"notify", "silence"}, delivered : BOOLEAN])
      BY <2>1
    <3>3. bpc \in [Runs -> {"idle", "silence", "report", "text", "notify", "line"}]
      BY <2>3
    <3> QED
      BY <2>3, <3>1, <3>2, <3>3 DEF BriefTypeOK
  <2>5. OneWrites
    BY <2>3 DEF OneWrites, Briefing
  <2>6. ItsReport
    BY <2>2, <2>3 DEF ItsReport
  <2> QED
    BY <2>4, <2>5, <2>6 DEF BriefInv
<1>2. BriefInv /\ [BriefNext]_briefVars => BriefInv'
  <2>1. ASSUME BriefInv, UNCHANGED briefVars \/ NewsChanges PROVE BriefInv'
    <3>1. UNCHANGED <<latest, ledger, bpc, shown, crossed, lost>> /\ news' \in BOOLEAN
      BY <2>1 DEF briefVars, NewsChanges, BriefInv, BriefTypeOK
    <3> QED
      BY <2>1, <3>1 DEF BriefInv, BriefTypeOK, OneWrites, Briefing, ItsReport, Ledgered, Notified
  <2> QED
    BY <2>1, RunOfBriefStep DEF BriefNext
<1> QED
  BY <1>1, <1>2, PTL DEF BriefSpec

(* However many runs brief, stay silent or are lost, the report on disk is *)
(* the last one the ledger says was notified, as long as none that writes  *)
(* crossed another and none died between report and line (run_once,        *)
(* BriefLedger._append).                                                   *)
THEOREM BriefTheorem == BriefSpec => []LatestIsLedgered
<1>1. BriefInv => LatestIsLedgered
  BY DEF BriefInv, ItsReport, LatestIsLedgered, Ledgered
<1> QED
  BY <1>1, BriefInvariance, PTL

-----------------------------------------------------------------------------

(* The doctor: between its first look and its verdict.                     *)

(* What a baseline may say of the files in scope.                          *)
Baselines == UNION {[S -> Contents] : S \in SUBSET Scope}

IntegrityTyped ==
  /\ disk \in [StateFiles -> Contents] /\ suspect \in BOOLEAN /\ moved \in BOOLEAN
  /\ \A f \in StateFiles : disk[f] \in MayHold[f] \cup {NoFile}
  /\ baseline \in Baselines \cup {NoBaseline} /\ whashes \in Baselines \cup {NoBaseline}
  /\ wtodo \subseteq Scope /\ (whashes = NoBaseline => wtodo = {})
  /\ dtodo \subseteq existing /\ existing \subseteq Scope
  /\ dpc \in {"idle", "verify"} /\ verdict \in {"none", "unknown", "clean", "drift"}

(* While it compares, and nothing moves, it knows the baseline and what is *)
(* there, and has found nothing exactly if what it has compared is as it   *)
(* was.                                                                    *)
Comparing ==
  dpc = "verify" =>
    /\ verdict = "none" /\ baseline # NoBaseline
    /\ ~moved =>
         /\ expected = baseline /\ existing = There(Scope)
         /\ drift = {} <=>
              \A f \in existing \ dtodo : f \in DOMAIN expected /\ disk[f] = expected[f]
IntegrityInv == IntegrityTyped /\ Comparing /\ DoctorIsRight

(* A baseline covers files in scope.                                       *)
LEMMA BaselineScope ==
  ASSUME NEW h \in Baselines PROVE DOMAIN h \subseteq Scope
  BY DEF Baselines

(* What the invariant says of types is what the runs check.                *)
LEMMA IntegrityTypes == ASSUME IntegrityInv PROVE IntegrityTypeOK
  BY BaselineScope DEF IntegrityInv, IntegrityTyped, IntegrityTypeOK

(* Nothing is missing exactly if all that is expected is there.            *)
LEMMA NothingMissing == Missing = {} <=> DOMAIN expected \subseteq existing
<1>1. ASSUME NEW f \in DOMAIN expected \ existing PROVE <<f, "missing">> \in Missing
  BY DEF Missing
<1>2. ASSUME NEW m \in Missing PROVE \E f \in DOMAIN expected : f \notin existing
  BY DEF Missing
<1> QED
  BY <1>1, <1>2

(* What the disk does beside the scope is not the doctor's affair.         *)
LEMMA ChangeStep ==
  ASSUME IntegrityInv, NEW f \in StateFiles, NEW c \in MayHold[f] \cup {NoFile}, Change(f, c)
  PROVE  IntegrityInv'
<1>1. /\ disk' = [disk EXCEPT ![f] = c] /\ moved' = (moved \/ f \in Scope)
      /\ UNCHANGED <<suspect, baseline, wtodo, whashes, dpc, expected, existing, dtodo,
                     drift, verdict>>
  BY DEF Change, writerVars, doctorVars
<1>2. c \in Contents
  <2>1. \E S \in {MayHold[g] \cup {NoFile} : g \in StateFiles} : c \in S
    OBVIOUS
  <2> QED
    BY <2>1, Zenon DEF Contents
<1>3. IntegrityTyped'
  <2>1. disk' \in [StateFiles -> Contents]
    BY <1>1, <1>2 DEF IntegrityInv, IntegrityTyped
  <2>2. \A g \in StateFiles : disk'[g] \in MayHold[g] \cup {NoFile}
    BY <1>1 DEF IntegrityInv, IntegrityTyped
  <2> QED
    BY <1>1, <2>1, <2>2 DEF IntegrityInv, IntegrityTyped
<1>4. CASE f \in Scope
  BY <1>1, <1>3, <1>4 DEF IntegrityInv, Comparing, DoctorIsRight
<1>5. CASE f \notin Scope
  <2>1. \A g \in Scope : disk'[g] = disk[g]
    BY <1>1, <1>5 DEF IntegrityInv, IntegrityTyped, StateFiles
  <2>2. There(Scope)' = There(Scope)
    BY <2>1 DEF There, Scope
  <2>3. existing \subseteq Scope
    BY DEF IntegrityInv, IntegrityTyped
  <2>4. Comparing'
    BY <1>1, <1>5, <2>1, <2>2, <2>3 DEF IntegrityInv, Comparing
  <2>5. \A g \in There(Scope) : g \in Scope
    BY DEF There
  <2>6. DoctorIsRight'
    BY <1>1, <1>5, <2>1, <2>2, <2>5 DEF IntegrityInv, DoctorIsRight
  <2> QED
    BY <1>3, <2>4, <2>6 DEF IntegrityInv
<1> QED
  BY <1>4, <1>5

(* A baseline that is given up leaves the last one; the disk has moved.    *)
LEMMA RaiseStep ==
  ASSUME IntegrityInv, NEW f \in Scope, HashRaises(f)
  PROVE  IntegrityInv'
<1>1. /\ disk' = [disk EXCEPT ![f] = NoFile] /\ moved' = TRUE
      /\ wtodo' = {} /\ whashes' = NoBaseline
      /\ UNCHANGED <<suspect, baseline, dpc, expected, existing, dtodo, drift, verdict>>
  BY DEF HashRaises, doctorVars
<1>2. NoFile \in Contents
  <2>1. NoFile \in MayHold[f] \cup {NoFile} /\ f \in StateFiles
    BY DEF StateFiles
  <2> QED
    BY <2>1, Zenon DEF Contents
<1>3. disk' \in [StateFiles -> Contents]
  BY <1>1, <1>2 DEF IntegrityInv, IntegrityTyped
<1>4. \A g \in StateFiles : disk'[g] \in MayHold[g] \cup {NoFile}
  BY <1>1 DEF IntegrityInv, IntegrityTyped
<1>5. IntegrityTyped'
  BY <1>1, <1>3, <1>4 DEF IntegrityInv, IntegrityTyped
<1>6. Comparing' /\ DoctorIsRight'
  BY <1>1 DEF IntegrityInv, Comparing, DoctorIsRight
<1> QED
  BY <1>5, <1>6 DEF IntegrityInv

(* Nobody's doctor minds a baseline under way; one that is written moves.  *)
LEMMA BaselineStep ==
  ASSUME IntegrityInv, Suspicion \/ BeginBaseline \/ WriteBaseline \/ \E f \in Scope : Hash(f)
  PROVE  IntegrityInv'
<1>1. CASE Suspicion
  BY <1>1 DEF Suspicion, writerVars, doctorVars, IntegrityInv, IntegrityTyped, Comparing,
         DoctorIsRight
<1>2. CASE WriteBaseline
  BY <1>2 DEF WriteBaseline, doctorVars, IntegrityInv, IntegrityTyped, Comparing,
         DoctorIsRight
<1>3. CASE BeginBaseline \/ \E f \in Scope : Hash(f)
  <2>1. UNCHANGED <<disk, suspect, baseline, dpc, expected, existing, dtodo, drift, verdict,
                    moved>>
    BY <1>3 DEF BeginBaseline, Hash, doctorVars
  <2>2. There(Scope)' = There(Scope)
    BY <2>1 DEF There, Scope
  <2>3. Comparing' /\ DoctorIsRight'
    BY <2>1, <2>2 DEF IntegrityInv, Comparing, DoctorIsRight
  <2>4. whashes' \in Baselines /\ wtodo' \subseteq Scope
    <3>1. CASE BeginBaseline
      <4>1. NoHashes \in [{} -> Contents] /\ {} \in SUBSET Scope
        BY DEF NoHashes
      <4>2. NoHashes \in Baselines
        BY <4>1 DEF Baselines
      <4> QED
        BY <3>1, <4>2 DEF BeginBaseline, There, Scope
    <3>2. ASSUME NEW f \in Scope, Hash(f)
          PROVE  whashes' \in Baselines /\ wtodo' \subseteq Scope
      <4>1. whashes \in Baselines /\ wtodo' \subseteq Scope
        BY <3>2 DEF Hash, IntegrityInv, IntegrityTyped
      <4>2. PICK S \in SUBSET Scope : whashes \in [S -> Contents]
        BY <4>1 DEF Baselines
      <4>3. disk[f] \in Contents
        BY DEF IntegrityInv, IntegrityTyped, StateFiles
      <4>4. CASE disk[f] = NoFile
        BY <3>2, <4>1, <4>4 DEF Hash
      <4>5. CASE disk[f] # NoFile
        <5>1. whashes' = [g \in S \cup {f} |-> IF g = f THEN disk[f] ELSE whashes[g]]
          BY <3>2, <4>2, <4>5 DEF Hash
        <5>2. whashes' \in [S \cup {f} -> Contents]
          BY <4>2, <4>3, <5>1
        <5>3. S \cup {f} \in SUBSET Scope
          OBVIOUS
        <5> QED
          BY <4>1, <5>2, <5>3 DEF Baselines
      <4> QED
        BY <4>4, <4>5
    <3> QED
      BY <1>3, <3>1, <3>2
  <2>5. whashes' # NoBaseline
    BY <2>4, DoctorAssumption DEF Baselines
  <2>6. IntegrityTyped'
    BY <2>1, <2>4, <2>5 DEF IntegrityInv, IntegrityTyped
  <2> QED
    BY <2>3, <2>6 DEF IntegrityInv
<1> QED
  BY <1>1, <1>2, <1>3

(* The doctor's own steps.                                                 *)
LEMMA DoctorStep ==
  ASSUME IntegrityInv,
         \/ BeginDoctor \/ Verdict
         \/ \E f \in Scope : Compare(f) \/ Lost(f)
  PROVE  IntegrityInv'
<1>0. /\ UNCHANGED <<disk, suspect, baseline, wtodo, whashes>>
      /\ There(Scope)' = There(Scope)
  BY DEF BeginDoctor, Verdict, Compare, Lost, Ends, writerVars, There, Scope
<1>1. CASE BeginDoctor
  <2>1. There(Scope) \subseteq Scope
    BY DEF There
  <2>2. CASE baseline = NoBaseline
    <3>1. dpc' = "idle" /\ verdict' = "unknown" /\ existing' = {} /\ dtodo' = {}
          /\ moved' = FALSE
      BY <1>1, <2>2 DEF BeginDoctor, Ends
    <3> QED
      BY <1>0, <3>1 DEF IntegrityInv, IntegrityTyped, Comparing, DoctorIsRight
  <2>3. CASE baseline # NoBaseline
    <3>1. /\ dpc' = "verify" /\ verdict' = "none" /\ moved' = FALSE /\ expected' = baseline
          /\ existing' = There(Scope) /\ dtodo' = There(Scope) /\ drift' = {}
      BY <1>1, <2>3 DEF BeginDoctor
    <3>2. IntegrityTyped'
      BY <1>0, <2>1, <3>1 DEF IntegrityInv, IntegrityTyped
    <3>3. Comparing'
      BY <1>0, <2>3, <3>1 DEF Comparing
    <3> QED
      BY <3>1, <3>2, <3>3 DEF IntegrityInv, DoctorIsRight
  <2> QED
    BY <2>2, <2>3
<1>2. CASE Verdict
  <2>1. /\ dpc = "verify" /\ dtodo = {} /\ dpc' = "idle" /\ existing' = {} /\ dtodo' = {}
        /\ moved' = moved
        /\ verdict' = IF drift \cup Missing = {} /\ ~suspect THEN "clean" ELSE "drift"
    BY <1>2 DEF Verdict, Ends
  <2>2. IntegrityTyped' /\ Comparing'
    BY <1>0, <2>1 DEF IntegrityInv, IntegrityTyped, Comparing
  <2>3. baseline # NoBaseline
    BY <2>1 DEF IntegrityInv, Comparing
  <2>4. ASSUME ~moved
        PROVE  drift \cup Missing = {} <=>
                 DOMAIN baseline = There(Scope) /\ \A f \in There(Scope) : baseline[f] = disk[f]
    <3>1. /\ expected = baseline /\ existing = There(Scope)
          /\ drift = {} <=>
               \A f \in There(Scope) : f \in DOMAIN baseline /\ disk[f] = baseline[f]
      BY <2>1, <2>4 DEF IntegrityInv, Comparing
    <3>2. Missing = {} <=> DOMAIN baseline \subseteq There(Scope)
      BY <3>1, NothingMissing
    <3> QED
      BY <3>1, <3>2
  <2>5. verdict' = "clean" <=> drift \cup Missing = {} /\ ~suspect
    BY <2>1
  <2>6. DoctorIsRight'
    BY <1>0, <2>1, <2>3, <2>4, <2>5 DEF DoctorIsRight
  <2> QED
    BY <2>2, <2>6 DEF IntegrityInv
<1>3. ASSUME NEW f \in Scope, Lost(f) PROVE IntegrityInv'
  BY <1>0, <1>3 DEF Lost, Ends, IntegrityInv, IntegrityTyped, Comparing, DoctorIsRight
<1>4. ASSUME NEW f \in Scope, Compare(f) PROVE IntegrityInv'
  <2>1. /\ dpc = "verify" /\ f \in dtodo /\ dtodo' = dtodo \ {f}
        /\ drift' = drift \cup (IF f \notin DOMAIN expected THEN {<<f, "added">>}
                                ELSE IF disk[f] # expected[f] THEN {<<f, "changed">>} ELSE {})
        /\ UNCHANGED <<dpc, expected, existing, verdict, moved>>
    BY <1>4 DEF Compare
  <2>2. IntegrityTyped'
    BY <1>0, <2>1 DEF IntegrityInv, IntegrityTyped
  <2>3. DoctorIsRight'
    BY <1>0, <2>1 DEF IntegrityInv, Comparing, DoctorIsRight
  <2>4. drift' = {} <=> drift = {} /\ f \in DOMAIN expected /\ disk[f] = expected[f]
    BY <2>1
  <2>5. f \in existing /\ existing \ dtodo' = (existing \ dtodo) \cup {f}
    BY <2>1 DEF IntegrityInv, IntegrityTyped
  <2>6. Comparing'
    BY <1>0, <2>1, <2>4, <2>5 DEF IntegrityInv, Comparing
  <2> QED
    BY <2>2, <2>3, <2>6 DEF IntegrityInv
<1> QED
  BY <1>1, <1>2, <1>3, <1>4

(* The invariant of the baseline, the disk and the doctor.                 *)
LEMMA IntegrityInvariance == IntegritySpec => []IntegrityInv
<1>1. ASSUME IntegrityInit PROVE IntegrityInv
  BY <1>1 DEF IntegrityInit, IntegrityInv, IntegrityTyped, Comparing, DoctorIsRight
<1>2. IntegrityInv /\ [IntegrityNext]_integrityVars => IntegrityInv'
  <2>1. ASSUME IntegrityInv, UNCHANGED integrityVars PROVE IntegrityInv'
    <3>1. There(Scope)' = There(Scope)
      BY <2>1 DEF integrityVars, There, Scope
    <3> QED
      BY <2>1, <3>1 DEF integrityVars, writerVars, doctorVars, IntegrityInv, IntegrityTyped,
             Comparing, DoctorIsRight
  <2> QED
    BY <2>1, ChangeStep, RaiseStep, BaselineStep, DoctorStep DEF IntegrityNext
<1> QED
  BY <1>1, <1>2, PTL DEF IntegritySpec

(* A clean verdict is worth something: the files in scope are those of the *)
(* baseline, byte for byte, however many files there are.                  *)
THEOREM DoctorTheorem == IntegritySpec => []DoctorIsRight
<1>1. IntegrityInv => DoctorIsRight
  BY DEF IntegrityInv
<1> QED
  BY <1>1, IntegrityInvariance, PTL
=============================================================================
