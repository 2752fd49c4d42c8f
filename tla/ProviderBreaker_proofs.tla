----------------------- MODULE ProviderBreaker_proofs -----------------------
(***************************************************************************)
(* Proofs about the breaker of the AI backends, for any processes, any     *)
(* finite set of backends, any threshold and any cooldown.                 *)
(***************************************************************************)
EXTENDS ProviderBreaker, FiniteSetTheorems, SequenceTheorems, TLAPS

(* A list of candidates: its positions, and each backend at one of them.   *)
LEMMA OrdersShape ==
  ASSUME NEW s \in Orders
  PROVE  /\ Len(s) \in Nat \ {0}
         /\ \A i \in 1..Len(s) : s[i] \in Providers
         /\ \A i, j \in 1..Len(s) : i # j => s[i] # s[j]
<1>1. Cardinality(Providers) \in Nat
  BY FS_CardinalityType, BreakerAssumption
<1>2. PICK n \in 1..Cardinality(Providers) : s \in [1..n -> Providers]
  BY DEF Orders
<1>3. n \in Nat \ {0}
  BY <1>1, <1>2
<1>4. s \in Seq(Providers) /\ Len(s) = n
  BY <1>2, <1>3
<1>5. DOMAIN s = 1..Len(s)
  BY <1>2, <1>4
<1> QED
  BY <1>2, <1>3, <1>4, <1>5 DEF Orders

(* The counts of a record, and of the history.                             *)
LEMMA CountsType ==
  ASSUME TypeOK
  PROVE  /\ Threshold \in Nat \ {0}
         /\ \A v \in Providers :
              /\ failed[v] \in 0..Threshold /\ file[v].failures \in 0..Threshold
              /\ \A p \in Procs : mem[p][v] \in Records
                                /\ mem[p][v].failures \in 0..Threshold
<1>1. \A r \in Records : r.failures \in 0..Threshold
  BY DEF Records
<1>2. ASSUME NEW v \in Providers
      PROVE  /\ failed[v] \in 0..Threshold /\ file[v] \in Records
             /\ \A p \in Procs : mem[p][v] \in Records
  BY DEF TypeOK
<1> QED
  BY <1>1, <1>2, BreakerAssumption

(* What an invocation can do to another one: nothing.                      *)
Untouched(q) ==
  /\ pc'[q] = pc[q] /\ order'[q] = order[q]
  /\ at'[q] = at[q] /\ attempt'[q] = attempt[q]
  /\ mem'[q] = mem[q] /\ probing'[q] = probing[q]
  /\ verdict'[q] = verdict[q] /\ heard'[q] = heard[q]

(* An untouched invocation stays where it is.                              *)
LEMMA UntouchedSound ==
  ASSUME NEW q \in Procs, Sound(q), Untouched(q)
  PROVE  Sound(q)'
  BY DEF Sound, Placed, Probed, Blamed, AtFault, Primary, Target, Trying, Untouched, Open

(* The start.                                                              *)
LEMMA InitIInv == Init => IInv
<1> SUFFICES ASSUME Init PROVE IInv
  OBVIOUS
<1>1. /\ NoRecord \in Records /\ Clear \in [Providers -> Records]
      /\ Threshold \in Nat
  BY BreakerAssumption DEF NoRecord, Records, Clear
<1>2. TypeOK
  <2>1. /\ file \in [Providers -> Records] /\ strikes \in [Providers -> Records]
        /\ mem \in [Procs -> [Providers -> Records]]
    BY <1>1 DEF Init
  <2>2. /\ verdict \in [Procs -> [who : Providers \cup {NoProvider}, good : BOOLEAN]]
        /\ heard \in [Procs -> [Providers -> {"nothing", "good", "bad"}]]
        /\ probing \in [Procs -> SUBSET Providers]
    BY DEF Init, NoVerdict
  <2>3. /\ pc \in [Procs -> Labels] /\ cmd \in [Procs -> Commands \cup {"none"}]
        /\ order \in [Procs -> Orders \cup {<<>>}]
        /\ at \in [Procs -> Nat \ {0}] /\ attempt \in [Procs -> 1..2]
    BY DEF Init, Labels
  <2>4. failed \in [Providers -> 0..Threshold]
    BY <1>1 DEF Init
  <2> QED
    BY <2>1, <2>2, <2>3, <2>4 DEF Init, TypeOK
<1>3. Counted
  BY DEF Init, Counted, Clear, NoRecord
<1>4. \A p \in Procs : Sound(p)
  BY DEF Init, Sound, Placed, Probed, Blamed, Trying
<1> QED
  BY <1>2, <1>3, <1>4 DEF IInv

(* Time changes no count.                                                  *)
LEMMA TickIInv ==
  ASSUME IInv, Tick
  PROVE  IInv'
<1>1. \A r \in Records :
        Older(r) \in Records /\ Older(r).failures = r.failures
  BY BreakerAssumption DEF Older, Records, Open
<1>2. TypeOK'
  BY <1>1 DEF IInv, TypeOK, Tick
<1>3. /\ \A v \in Providers : file'[v].failures = file[v].failures
      /\ \A p \in Procs, v \in Providers :
           mem'[p][v].failures = mem[p][v].failures
  BY <1>1 DEF IInv, TypeOK, Tick
<1>4. Counted'
  BY <1>3 DEF IInv, Counted, Tick
<1>5. ASSUME NEW p \in Procs PROVE Sound(p)'
  <2>1. Sound(p)
    BY DEF IInv
  <2>2. UNCHANGED <<pc, order, at, attempt, probing, verdict, heard>>
    BY DEF Tick
  <2>3. Placed(p)'
    BY <2>1, <2>2 DEF Sound, Placed, Trying
  <2>4. \A v \in Providers : Open(mem[p][v])' <=> Open(mem[p][v])
    BY <1>3 DEF Open
  <2>5. Trying(p) => Target(p) \in Providers /\ Primary(p) \in Providers
    BY <2>1, OrdersShape DEF Sound, Placed, Trying, Target, Primary
  <2>6. Probed(p)'
    BY <2>1, <2>2, <2>4, <2>5 DEF Sound, Probed, Trying, Target, Primary
  <2>7. Blamed(p)'
    BY <2>1, <2>2, <2>4, <2>5 DEF Sound, Blamed, Placed, AtFault, Trying, Target, Primary
  <2> QED
    BY <2>3, <2>6, <2>7 DEF Sound
<1> QED
  BY <1>2, <1>4, <1>5 DEF IInv

(* An invocation starts.                                                   *)
LEMMA StartIInv ==
  ASSUME IInv, NEW p \in Procs, NEW c \in Commands, NEW s \in Orders,
         Start(p, c, s)
  PROVE  IInv'
<1>1. mem'[p] = file \/ mem'[p] = Clear
  BY DEF Start, IInv, TypeOK
<1>2. Clear \in [Providers -> Records] /\ \A v \in Providers : Clear[v].failures = 0
  BY BreakerAssumption DEF NoRecord, Records, Clear
<1>3. TypeOK'
  <2>1. mem' \in [Procs -> [Providers -> Records]]
    BY <1>2 DEF Start, IInv, TypeOK
  <2>2. /\ clean' \in BOOLEAN
        /\ strikes' \in [Providers -> Records]
    BY <1>2 DEF Start, IInv, TypeOK, Overlapping
  <2>3. /\ pc' \in [Procs -> Labels] /\ cmd' \in [Procs -> Commands \cup {"none"}]
        /\ order' \in [Procs -> Orders \cup {<<>>}] /\ asked' \in BOOLEAN
    BY DEF Start, IInv, TypeOK, Go, Labels
  <2> QED
    BY <2>1, <2>2, <2>3 DEF Start, IInv, TypeOK, fileVars
<1>4. Counted'
  <2>1. ASSUME NEW v \in Providers PROVE mem'[p][v].failures <= failed[v]
    BY <1>1, <1>2 DEF IInv, Counted, TypeOK
  <2> QED
    BY <2>1 DEF Start, IInv, Counted, TypeOK, fileVars
<1>5. ASSUME NEW q \in Procs PROVE Sound(q)'
  <2>1. Sound(q)
    BY DEF IInv
  <2>2. CASE q # p
    <3>1. Untouched(q)
      BY <2>2 DEF Start, Untouched, Go, IInv, TypeOK
    <3> QED
      BY <2>1, <3>1, UntouchedSound
  <2>3. CASE q = p
    <3>1. /\ pc'[p] = "allow" /\ order'[p] = s /\ at'[p] = 1 /\ attempt'[p] = 1
          /\ verdict'[p] = verdict[p]
          /\ heard'[p] = [v \in Providers |-> "nothing"]
      BY <2>1, <2>3 DEF Start, Go, IInv, TypeOK, Sound, Placed, Probed
    <3>2. Placed(p)'
      BY <2>1, <2>3, <3>1, OrdersShape DEF Sound, Placed, Trying
    <3>3. Probed(p)'
      BY <3>1, OrdersShape DEF Probed, Trying
    <3> QED
      BY <2>3, <3>1, <3>2, <3>3 DEF Sound, Blamed, Trying
  <2> QED
    BY <2>2, <2>3
<1> QED
  BY <1>3, <1>4, <1>5 DEF IInv

(* A call starts: a half-open backend is marked.                           *)
LEMMA CallIInv ==
  ASSUME IInv, NEW p \in Procs, Call(p)
  PROVE  IInv'
<1>1. Sound(p) /\ Trying(p) /\ order[p] \in Orders /\ Target(p) \in Providers
  BY OrdersShape DEF IInv, Sound, Placed, Trying, Target, Call
<1>2. TypeOK'
  BY <1>1 DEF Call, IInv, TypeOK, Go, Labels, MarkProbe, fileVars, pastVars
<1>3. Counted'
  BY DEF Call, IInv, Counted, fileVars, pastVars
<1>4. ASSUME NEW q \in Procs PROVE Sound(q)'
  <2>1. Sound(q)
    BY DEF IInv
  <2>2. CASE q # p
    <3>1. Untouched(q)
      BY <2>2 DEF Call, Untouched, Go, IInv, TypeOK, MarkProbe
    <3> QED
      BY <2>1, <3>1, UntouchedSound
  <2>3. CASE q = p
    <3>1. /\ pc[p] = "allow" /\ pc'[p] = "call"
          /\ UNCHANGED <<order, at, attempt, mem, verdict, heard>>
      BY DEF Call, Go, IInv, TypeOK
    <3>2. Open(mem[p][Target(p)]) => Target(p) \in probing'[p]
      BY DEF Call, MarkProbe, IInv, TypeOK
    <3>3. Placed(p)' /\ Blamed(p)'
      BY <1>1, <3>1 DEF Sound, Placed, Blamed, Trying, AtFault, Primary, Open
    <3>4. Probed(p)'
      BY <1>1, <3>1, <3>2 DEF Sound, Probed, Trying, Primary, Target, Open
    <3> QED
      BY <2>3, <3>3, <3>4 DEF Sound
  <2> QED
    BY <2>2, <2>3
<1> QED
  BY <1>2, <1>3, <1>4 DEF IInv

(* A candidate is given up for a reason of its own, and whether it was     *)
(* called (how = "bad") or not, it is at fault.                            *)
LEMMA GiveUpIInv ==
  ASSUME IInv, NEW p \in Procs, NEW kind, GiveUp(p, kind), Trying(p),
         \/ UNCHANGED heard /\ Open(mem[p][Target(p)])
         \/ Hear(p, "bad"),
         UNCHANGED <<fileVars, cmd, order, mem, probing, pastVars>>
  PROVE  IInv'
<1>1. /\ Sound(p) /\ order[p] \in Orders /\ at[p] \in 1..Len(order[p])
      /\ Target(p) \in Providers /\ Primary(p) \in Providers
      /\ Len(order[p]) \in Nat \ {0}
  BY OrdersShape DEF IInv, Sound, Placed, Trying, Target, Primary
<1>2. /\ \A q \in Procs, v \in Providers :
           q # p \/ v # Target(p) => heard'[q][v] = heard[q][v]
      /\ heard'[p][Target(p)] = "bad" \/ Open(mem[p][Target(p)])
      /\ heard' \in [Procs -> [Providers -> {"nothing", "good", "bad"}]]
  <2>1. heard \in [Procs -> [Providers -> {"nothing", "good", "bad"}]]
    BY DEF IInv, TypeOK
  <2>2. CASE UNCHANGED heard /\ Open(mem[p][Target(p)])
    BY <2>1, <2>2
  <2>3. CASE Hear(p, "bad")
    <3>1. heard' = [heard EXCEPT ![p][Target(p)] = "bad"]
      BY <2>3 DEF Hear
    <3> HIDE DEF Target
    <3> QED
      BY <1>1, <2>1, <3>1
  <2> QED
    BY <2>2, <2>3
<1>3. CASE at[p] < Len(order[p])
  <2>1. /\ at' = [at EXCEPT ![p] = @ + 1] /\ pc' = [pc EXCEPT ![p] = "allow"]
        /\ attempt' = [attempt EXCEPT ![p] = 1] /\ verdict' = verdict
    BY <1>3 DEF GiveUp, Go
  <2>2. TypeOK'
    BY <1>2, <2>1 DEF IInv, TypeOK, Labels, fileVars, pastVars
  <2>3. ASSUME NEW q \in Procs PROVE Sound(q)'
    <3>1. CASE q # p
      <4>1. heard'[q] = heard[q]
        BY <1>2, <3>1 DEF Hear, IInv, TypeOK
      <4>2. Untouched(q) /\ Sound(q)
        BY <2>1, <3>1, <4>1 DEF Untouched, IInv, TypeOK
      <4> QED
        BY <4>2, UntouchedSound
    <3>2. CASE q = p
      <4>1. /\ pc'[p] = "allow" /\ at'[p] = at[p] + 1 /\ attempt'[p] = 1
            /\ order'[p] = order[p] /\ mem'[p] = mem[p] /\ verdict'[p] = verdict[p]
        BY <2>1 DEF IInv, TypeOK
      <4>2. Placed(p)'
        BY <1>1, <1>3, <4>1 DEF Sound, Placed, Trying
      <4>3. ASSUME NEW i \in at'[p]..Len(order[p])
            PROVE  heard'[p][order[p][i]] = "nothing"
        <5>1. i \in at[p]..Len(order[p]) /\ i > at[p] /\ i \in 1..Len(order[p])
          BY <1>1, <4>1
        <5>2. order[p][i] \in Providers /\ order[p][i] # Target(p)
          BY <1>1, <5>1, OrdersShape DEF Target
        <5> QED
          BY <1>1, <1>2, <5>1, <5>2 DEF Sound, Probed
      <4>4. Probed(p)'
        BY <4>1, <4>3 DEF Probed, Trying
      <4>5. AtFault(p, Primary(p))'
        <5>1. CASE at[p] = 1
          BY <1>2, <4>1, <5>1 DEF AtFault, Primary, Target, Open
        <5>2. CASE at[p] > 1
          <6>1. AtFault(p, Primary(p)) /\ Primary(p) # Target(p)
            BY <1>1, <5>2, OrdersShape DEF Sound, Blamed, Primary, Target
          <6> QED
            BY <1>1, <1>2, <4>1, <6>1 DEF AtFault, Primary, Open
        <5> QED
          BY <1>1, <5>1, <5>2
      <4>6. Blamed(p)'
        BY <4>1, <4>5 DEF Blamed, Trying
      <4> QED
        BY <3>2, <4>2, <4>4, <4>6 DEF Sound
    <3> QED
      BY <3>1, <3>2
  <2>4. Counted'
    BY DEF IInv, Counted, fileVars, pastVars
  <2> QED
    BY <2>2, <2>3, <2>4 DEF IInv
<1>4. CASE ~(at[p] < Len(order[p]))
  <2>1. /\ at' = at /\ pc' = [pc EXCEPT ![p] = "record"]
        /\ attempt' = [attempt EXCEPT ![p] = 1]
        /\ \/ verdict' = [verdict EXCEPT ![p] = NoVerdict]
           \/ verdict' = [verdict EXCEPT ![p] = [who |-> Primary(p), good |-> FALSE]]
    BY <1>4 DEF GiveUp, Go, Primary
  <2>2. TypeOK'
    <3> DEFINE V == [who : Providers \cup {NoProvider}, good : BOOLEAN]
    <3>0. NoVerdict \in V /\ [who |-> Primary(p), good |-> FALSE] \in V
      BY <1>1 DEF NoVerdict
    <3>1. verdict' \in [Procs -> V]
      BY <2>1, <3>0 DEF IInv, TypeOK
    <3> QED
      BY <1>2, <2>1, <3>1 DEF IInv, TypeOK, Labels, fileVars, pastVars
  <2>3. ASSUME NEW q \in Procs PROVE Sound(q)'
    <3>1. CASE q # p
      <4>1. heard'[q] = heard[q]
        BY <1>2, <3>1 DEF Hear, IInv, TypeOK
      <4>2. Untouched(q) /\ Sound(q)
        BY <2>1, <3>1, <4>1 DEF Untouched, IInv, TypeOK
      <4> QED
        BY <4>2, UntouchedSound
    <3>2. CASE q = p
      <4>1. /\ pc'[p] = "record" /\ order'[p] = order[p] /\ mem'[p] = mem[p]
            /\ \/ verdict'[p] = NoVerdict
               \/ verdict'[p] = [who |-> Primary(p), good |-> FALSE]
        BY <2>1 DEF IInv, TypeOK
      <4>2. Placed(p)'
        BY <1>1, <4>1 DEF Placed, Trying
      <4>3. AtFault(p, Primary(p))'
        <5>1. CASE at[p] = 1
          BY <1>2, <4>1, <5>1 DEF AtFault, Primary, Target, Open
        <5>2. CASE at[p] > 1
          <6>1. AtFault(p, Primary(p)) /\ Primary(p) # Target(p)
            BY <1>1, <5>2, OrdersShape DEF Sound, Blamed, Primary, Target
          <6> QED
            BY <1>1, <1>2, <4>1, <6>1 DEF AtFault, Primary, Open
        <5> QED
          BY <1>1, <5>1, <5>2
      <4>4. Blamed(p)'
        BY <4>1, <4>3 DEF Blamed, Trying, AtFault, Primary
      <4> QED
        BY <3>2, <4>1, <4>2, <4>4 DEF Sound, Probed, Trying
    <3> QED
      BY <3>1, <3>2
  <2>4. Counted'
    BY DEF IInv, Counted, fileVars, pastVars
  <2> QED
    BY <2>2, <2>3, <2>4 DEF IInv
<1> QED
  BY <1>3, <1>4

(* A candidate is refused: its circuit is open.                            *)
LEMMA DeniedIInv ==
  ASSUME IInv, NEW p \in Procs, Denied(p)
  PROVE  IInv'
<1>1. Open(mem[p][Target(p)]) /\ Trying(p) /\ UNCHANGED heard
  BY DEF Denied, Allows, Trying
<1>2. GiveUp(p, "breaker-open")
      /\ UNCHANGED <<fileVars, cmd, order, mem, probing, pastVars>>
  BY DEF Denied
<1> QED
  BY <1>1, <1>2, GiveUpIInv

(* A call fails: the primary is tried again, or the candidate given up.    *)
LEMMA CallFailsIInv ==
  ASSUME IInv, NEW p \in Procs, NEW kind, CallFails(p, kind)
  PROVE  IInv'
<1>1. CASE GiveUp(p, kind)
  BY <1>1, GiveUpIInv DEF CallFails, Trying
<1>2. CASE ~GiveUp(p, kind)
  <2>1. /\ at[p] = 1 /\ attempt[p] = 1 /\ pc[p] = "call"
        /\ attempt' = [attempt EXCEPT ![p] = 2]
        /\ pc' = [pc EXCEPT ![p] = "allow"]
        /\ heard' = [heard EXCEPT ![p][Target(p)] = "bad"]
        /\ UNCHANGED <<at, verdict, cmd, order, mem, probing, fileVars, pastVars>>
    BY <1>2 DEF CallFails, Go, Hear
  <2>2. /\ Sound(p) /\ order[p] \in Orders /\ Target(p) = Primary(p)
        /\ Target(p) \in Providers /\ Len(order[p]) \in Nat \ {0}
    BY <2>1, OrdersShape DEF IInv, Sound, Placed, Trying, Target, Primary
  <2>3. TypeOK'
    <3>1. heard' \in [Procs -> [Providers -> {"nothing", "good", "bad"}]]
      BY <2>1, <2>2 DEF IInv, TypeOK
    <3> QED
      BY <2>1, <3>1 DEF IInv, TypeOK, Labels, fileVars, pastVars
  <2>4. Counted'
    BY <2>1 DEF IInv, Counted, fileVars, pastVars
  <2>5. ASSUME NEW q \in Procs PROVE Sound(q)'
    <3>1. CASE q # p
      <4>1. Untouched(q) /\ Sound(q)
        BY <2>1, <3>1 DEF Untouched, IInv, TypeOK
      <4> QED
        BY <4>1, UntouchedSound
    <3>2. CASE q = p
      <4>1. /\ pc'[p] = "allow" /\ attempt'[p] = 2 /\ at'[p] = 1
            /\ order'[p] = order[p] /\ mem'[p] = mem[p]
            /\ probing'[p] = probing[p] /\ verdict'[p] = verdict[p]
        BY <2>1 DEF IInv, TypeOK
      <4>2. heard'[p] = [heard[p] EXCEPT ![Target(p)] = "bad"]
            /\ heard[p] \in [Providers -> {"nothing", "good", "bad"}]
        BY <2>1 DEF IInv, TypeOK
      <4>3. Placed(p)'
        BY <2>1, <2>2, <4>1 DEF Sound, Placed, Trying
      <4>4. ASSUME NEW i \in 1..Len(order[p]), i > 1
            PROVE  heard'[p][order[p][i]] = "nothing"
        <5>1. order[p][i] \in Providers /\ order[p][i] # Target(p)
          BY <2>2, <4>4, OrdersShape DEF Primary
        <5> QED
          BY <2>1, <2>2, <4>2, <4>4, <5>1 DEF Sound, Probed, Trying
      <4>5. /\ heard'[p][order[p][1]] = "bad"
            /\ Open(mem[p][order[p][1]]) => order[p][1] \in probing[p]
        BY <2>1, <2>2, <4>2 DEF Sound, Probed, Trying, Primary
      <4>6. Probed(p)'
        BY <4>1, <4>4, <4>5 DEF Probed, Trying, Primary, Target, Open
      <4>7. Blamed(p)'
        BY <4>1 DEF Blamed, Trying
      <4> QED
        BY <3>2, <4>3, <4>6, <4>7 DEF Sound
    <3> QED
      BY <3>1, <3>2
  <2> QED
    BY <2>3, <2>4, <2>5 DEF IInv
<1> QED
  BY <1>1, <1>2

(* A call returns.                                                         *)
LEMMA CallReturnsIInv ==
  ASSUME IInv, NEW p \in Procs, NEW answer, CallReturns(p, answer)
  PROVE  IInv'
<1>1. /\ Sound(p) /\ order[p] \in Orders
      /\ Target(p) \in Providers /\ Primary(p) \in Providers
  BY OrdersShape DEF CallReturns, IInv, Sound, Placed, Trying, Target, Primary
<1> DEFINE how == IF answer = "malformed" THEN "bad" ELSE "good"
<1> DEFINE w == [who |-> IF answer = "usable" THEN Primary(p) ELSE Target(p),
                 good |-> answer # "malformed"]
<1>2. /\ heard' = [heard EXCEPT ![p][Target(p)] = how]
      /\ verdict' = [verdict EXCEPT ![p] = w]
      /\ pc' = [pc EXCEPT ![p] = "record"]
      /\ UNCHANGED <<fileVars, cmd, order, at, attempt, mem, probing, pastVars>>
  BY DEF CallReturns, Hear, Go, Primary
<1>3. /\ w.who \in Providers
      /\ w \in [who : Providers \cup {NoProvider}, good : BOOLEAN]
      /\ ~w.good => w.who = Target(p) /\ how = "bad"
      /\ how \in {"nothing", "good", "bad"}
  BY <1>1
<1> HIDE DEF how, w
<1>4. TypeOK'
  <2>1. heard' \in [Procs -> [Providers -> {"nothing", "good", "bad"}]]
    BY <1>1, <1>2, <1>3 DEF IInv, TypeOK
  <2>2. verdict' \in [Procs -> [who : Providers \cup {NoProvider}, good : BOOLEAN]]
    BY <1>2, <1>3 DEF IInv, TypeOK
  <2> QED
    BY <1>2, <2>1, <2>2 DEF IInv, TypeOK, Labels, fileVars, pastVars
<1>5. Counted'
  BY <1>2 DEF IInv, Counted, fileVars, pastVars
<1>6. ASSUME NEW q \in Procs PROVE Sound(q)'
  <2>1. CASE q # p
    <3>1. Untouched(q) /\ Sound(q)
      BY <1>2, <2>1 DEF Untouched, IInv, TypeOK
    <3> QED
      BY <3>1, UntouchedSound
  <2>2. CASE q = p
    <3>1. /\ pc'[p] = "record" /\ order'[p] = order[p] /\ verdict'[p] = w
          /\ heard'[p][Target(p)] = how
      BY <1>1, <1>2 DEF IInv, TypeOK
    <3>2. Placed(p)' /\ Probed(p)'
      BY <1>1, <1>3, <3>1 DEF Placed, Probed, Trying
    <3>3. Blamed(p)'
      BY <1>3, <3>1 DEF Blamed, Trying, AtFault
    <3> QED
      BY <2>2, <3>2, <3>3 DEF Sound
  <2> QED
    BY <2>1, <2>2
<1> QED
  BY <1>4, <1>5, <1>6 DEF IInv

(* The end of an invocation: its locals are those of an idle process.      *)
Over(p) ==
  /\ Go(p, "idle") /\ Reset(p)
  /\ mem' = [mem EXCEPT ![p] = Clear]

(* Its place then, and the others'.                                        *)
LEMMA OverSound ==
  ASSUME TypeOK, NEW p \in Procs, Over(p), NEW q \in Procs, Sound(q)
  PROVE  Sound(q)'
<1>1. CASE q # p
  <2>1. Untouched(q)
    BY <1>1 DEF Over, Go, Reset, Untouched, TypeOK
  <2> QED
    BY <2>1, UntouchedSound
<1>2. CASE q = p
  <2>1. /\ pc'[p] = "idle" /\ at'[p] = 1 /\ attempt'[p] = 1
        /\ heard'[p] = [v \in Providers |-> "nothing"]
        /\ verdict'[p] = NoVerdict
    BY DEF Over, Go, Reset, TypeOK
  <2> QED
    BY <1>2, <2>1 DEF Sound, Placed, Probed, Blamed, Trying
<1> QED
  BY <1>1, <1>2

(* The types then.                                                         *)
LEMMA OverType ==
  ASSUME TypeOK, NEW p \in Procs, Over(p)
  PROVE  /\ pc' \in [Procs -> Labels] /\ cmd' \in [Procs -> Commands \cup {"none"}]
         /\ order' \in [Procs -> Orders \cup {<<>>}]
         /\ at' \in [Procs -> Nat \ {0}] /\ attempt' \in [Procs -> 1..2]
         /\ mem' \in [Procs -> [Providers -> Records]]
         /\ probing' \in [Procs -> SUBSET Providers]
         /\ verdict' \in [Procs -> [who : Providers \cup {NoProvider}, good : BOOLEAN]]
         /\ heard' \in [Procs -> [Providers -> {"nothing", "good", "bad"}]]
<1>1. Clear \in [Providers -> Records]
  BY BreakerAssumption DEF NoRecord, Records, Clear
<1>2. pc' \in [Procs -> Labels] /\ cmd' \in [Procs -> Commands \cup {"none"}]
  BY DEF Over, Go, Reset, TypeOK, Labels
<1>3. /\ order' \in [Procs -> Orders \cup {<<>>}]
      /\ at' \in [Procs -> Nat \ {0}] /\ attempt' \in [Procs -> 1..2]
  BY DEF Over, Reset, TypeOK
<1>4. /\ mem' \in [Procs -> [Providers -> Records]]
      /\ probing' \in [Procs -> SUBSET Providers]
  BY <1>1 DEF Over, Reset, TypeOK
<1>5. verdict' \in [Procs -> [who : Providers \cup {NoProvider}, good : BOOLEAN]]
  BY DEF Over, Reset, TypeOK, NoVerdict
<1>6. heard' \in [Procs -> [Providers -> {"nothing", "good", "bad"}]]
  <2>1. [v \in Providers |-> "nothing"] \in [Providers -> {"nothing", "good", "bad"}]
    OBVIOUS
  <2> QED
    BY <2>1 DEF Over, Reset, TypeOK
<1> QED
  BY <1>2, <1>3, <1>4, <1>5, <1>6

(* What the invocation empties counts nothing.                             *)
LEMMA OverCounted ==
  ASSUME TypeOK, Counted, NEW p \in Procs, Over(p),
         \A v \in Providers : failed'[v] \in Nat /\ failed[v] <= failed'[v],
         file' = file \/ file' = mem[p]
  PROVE  Counted'
<1>1. \A v \in Providers : Clear[v].failures = 0
  BY DEF Clear, NoRecord
<1>2. \A v \in Providers : /\ failed[v] \in Nat
                           /\ file[v].failures \in Nat
                           /\ \A q \in Procs : mem[q][v].failures \in Nat
  BY CountsType
<1>3. ASSUME NEW v \in Providers PROVE file'[v].failures <= failed'[v]
  BY <1>2 DEF Counted
<1>4. ASSUME NEW v \in Providers, NEW q \in Procs
      PROVE  mem'[q][v].failures <= failed'[v]
  <2>1. CASE q = p
    <3>1. mem'[q] = Clear
      BY <2>1 DEF Over, TypeOK
    <3> QED
      BY <1>1, <3>1
  <2>2. CASE q # p
    <3>1. mem'[q] = mem[q]
      BY <2>2 DEF Over, TypeOK
    <3> QED
      BY <1>2, <3>1 DEF Counted
  <2> QED
    BY <2>1, <2>2
<1> QED
  BY <1>3, <1>4 DEF Counted

(* The history of failures.                                                *)
LEMMA RememberShape ==
  ASSUME TypeOK, NEW p \in Procs, Remember(p)
  PROVE  /\ failed' \in [Providers -> 0..Threshold]
         /\ strikes' \in [Providers -> Records]
         /\ \A v \in Providers :
              /\ failed'[v] \in Nat /\ failed[v] <= failed'[v]
              /\ heard[p][v] = "bad" =>
                   failed'[v] = Threshold \/ failed'[v] = failed[v] + 1
<1>1. Threshold \in Nat \ {0} /\ Cooldown \in Nat \ {0}
  BY BreakerAssumption
<1>2. /\ NoRecord \in Records /\ Clear \in [Providers -> Records]
      /\ [failures |-> Threshold, age |-> 0] \in Records
  BY <1>1 DEF NoRecord, Records, Clear
<1>3. ASSUME NEW r \in Records, ~(r.failures + 1 >= Threshold)
      PROVE  [r EXCEPT !.failures = @ + 1] \in Records
  BY <1>1, <1>3 DEF Records
<1>4. failed' \in [Providers -> 0..Threshold]
  BY <1>1 DEF Remember, TypeOK
<1>5. strikes' \in [Providers -> Records]
  <2>1. CASE ~clean
    BY <1>2, <2>1 DEF Remember
  <2>2. CASE clean
    <3>1. ASSUME NEW v \in Providers PROVE strikes'[v] \in Records
      BY <1>2, <1>3, <2>2 DEF Remember, TypeOK
    <3>2. strikes' = [v \in Providers |-> strikes'[v]]
      BY <2>2 DEF Remember
    <3> QED
      BY <3>1, <3>2
  <2> QED
    BY <2>1, <2>2
<1>6. ASSUME NEW v \in Providers
      PROVE  /\ failed'[v] \in Nat /\ failed[v] <= failed'[v]
             /\ heard[p][v] = "bad" =>
                   failed'[v] = Threshold \/ failed'[v] = failed[v] + 1
  BY <1>1 DEF Remember, TypeOK
<1> QED
  BY <1>4, <1>5, <1>6

(* Nothing is recorded.                                                    *)
LEMMA RecordNothingIInv ==
  ASSUME IInv, NEW p \in Procs, RecordNothing(p)
  PROVE  IInv'
<1>1. TypeOK /\ Counted /\ Over(p) /\ Remember(p) /\ UNCHANGED <<fileVars, asked, clean>>
  BY DEF RecordNothing, Over, IInv
<1>2. TypeOK'
  BY <1>1, OverType, RememberShape DEF TypeOK, fileVars
<1>3. Counted'
  BY <1>1, OverCounted, RememberShape DEF fileVars
<1>4. \A q \in Procs : Sound(q)'
  BY <1>1, OverSound DEF IInv
<1> QED
  BY <1>2, <1>3, <1>4 DEF IInv

(* The document is written.                                                *)
LEMMA WriteIInv ==
  ASSUME IInv, NEW p \in Procs, Write(p)
  PROVE  IInv'
<1>1. /\ TypeOK /\ Counted /\ Over(p) /\ file' = mem[p]
      /\ torn' \in BOOLEAN /\ clash' \in BOOLEAN /\ UNCHANGED pastVars
  BY DEF Write, Over, IInv, TypeOK
<1>2. TypeOK'
  BY <1>1, OverType DEF TypeOK, pastVars
<1>3. Counted'
  <2>1. \A v \in Providers : failed'[v] \in Nat /\ failed[v] <= failed'[v]
    BY <1>1, BreakerAssumption DEF TypeOK, pastVars
  <2> QED
    BY <1>1, <2>1, OverCounted
<1>4. \A q \in Procs : Sound(q)'
  BY <1>1, OverSound DEF IInv
<1> QED
  BY <1>2, <1>3, <1>4 DEF IInv

(* A process is killed.                                                    *)
LEMMA DieIInv ==
  ASSUME IInv, NEW p \in Procs, Die(p)
  PROVE  IInv'
<1>1. /\ TypeOK /\ Counted /\ Over(p) /\ Overlapping(Writing(p))
      /\ clash' \in BOOLEAN /\ UNCHANGED <<file, torn, failed, asked>>
  BY DEF Die, Over, IInv, TypeOK
<1>2. clean' \in BOOLEAN /\ strikes' \in [Providers -> Records]
  <2>1. Clear \in [Providers -> Records]
    BY BreakerAssumption DEF NoRecord, Records, Clear
  <2> QED
    BY <1>1, <2>1 DEF Overlapping, TypeOK
<1>3. TypeOK'
  BY <1>1, <1>2, OverType DEF TypeOK
<1>4. Counted'
  <2>1. \A v \in Providers : failed'[v] \in Nat /\ failed[v] <= failed'[v]
    BY <1>1, BreakerAssumption DEF TypeOK
  <2> QED
    BY <1>1, <2>1, OverCounted
<1>5. \A q \in Procs : Sound(q)'
  BY <1>1, OverSound DEF IInv
<1> QED
  BY <1>3, <1>4, <1>5 DEF IInv

(* One more failure, up to the threshold.                                  *)
LEMMA WorseShape ==
  ASSUME NEW r \in Records
  PROVE  /\ Worse(r) \in Records
         /\ Worse(r).failures = r.failures + 1
            \/ (Worse(r).failures = Threshold /\ r.failures + 1 >= Threshold)
<1>1. r.failures \in 0..Threshold /\ Threshold \in Nat \ {0} /\ Cooldown \in Nat
  BY BreakerAssumption DEF Records
<1>2. CASE r.failures + 1 >= Threshold
  BY <1>1, <1>2 DEF Worse, Records
<1>3. CASE ~(r.failures + 1 >= Threshold)
  <2> DEFINE e == [r EXCEPT !.failures = @ + 1]
  <2>1. Worse(r) = e
    BY <1>3 DEF Worse
  <2>2. e \in Records
    BY <1>1, <1>3 DEF Records
  <2>3. e.failures = r.failures + 1
    BY <1>1 DEF Records
  <2> HIDE DEF e
  <2> QED
    BY <2>1, <2>2, <2>3
<1> QED
  BY <1>2, <1>3

(* An outcome is recorded.  The count of a failure is covered: either the  *)
(* backend failed in this invocation, or its circuit was open.             *)
LEMMA RecordIInv ==
  ASSUME IInv, NEW p \in Procs, Record(p)
  PROVE  IInv'
<1> DEFINE who == verdict[p].who
<1> DEFINE new == IF verdict[p].good THEN NoRecord ELSE Worse(mem[p][who])
<1>1. /\ TypeOK /\ Counted /\ Sound(p) /\ pc[p] = "record"
      /\ verdict[p] # NoVerdict /\ who \in Providers
      /\ mem' = [mem EXCEPT ![p][who] = new]
      /\ Remember(p) /\ torn' = TRUE /\ clash' \in BOOLEAN
      /\ pc' = [pc EXCEPT ![p] = "writing"]
      /\ UNCHANGED <<file, cmd, order, at, attempt, probing, verdict, heard, asked, clean>>
  BY DEF Record, NeedsSaving, Go, IInv, Sound, Placed, TypeOK
<1>2. /\ Threshold \in Nat \ {0} /\ Cooldown \in Nat \ {0}
      /\ mem[p][who] \in Records /\ failed[who] \in Nat
      /\ failed[who] <= Threshold /\ mem[p][who].failures <= failed[who]
  BY <1>1, BreakerAssumption, CountsType DEF Counted
<1>3. /\ Worse(mem[p][who]) \in Records
      /\ \/ Worse(mem[p][who]).failures = mem[p][who].failures + 1
         \/ /\ Worse(mem[p][who]).failures = Threshold
            /\ mem[p][who].failures + 1 >= Threshold
  BY <1>2, WorseShape
<1>4. new \in Records
  BY <1>2, <1>3 DEF NoRecord, Records
<1>5. new.failures <= failed'[who]
  <2>1. CASE verdict[p].good
    BY <1>1, <2>1, RememberShape DEF NoRecord
  <2>2. CASE ~verdict[p].good
    <3>1. heard[p][who] = "bad" \/ mem[p][who].failures = Threshold
      BY <1>1, <2>2 DEF Sound, Blamed, AtFault, Open
    <3>2. CASE heard[p][who] = "bad"
      <4>1. failed'[who] = Threshold \/ failed'[who] = failed[who] + 1
        BY <1>1, <3>2, RememberShape
      <4>2. Worse(mem[p][who]).failures <= Threshold
        BY <1>2, <1>3 DEF Records
      <4> QED
        BY <1>2, <1>3, <2>2, <4>1, <4>2 DEF Records
    <3>3. CASE mem[p][who].failures = Threshold
      <4>1. Worse(mem[p][who]).failures = Threshold
        BY <1>2, <3>3 DEF Worse
      <4>2. failed[who] = Threshold /\ failed'[who] \in Nat /\ failed[who] <= failed'[who]
        BY <1>1, <1>2, <3>3, RememberShape
      <4> QED
        BY <2>2, <4>1, <4>2
    <3> QED
      BY <3>1, <3>2, <3>3
  <2> QED
    BY <2>1, <2>2
<1> HIDE DEF new, who
<1>6. mem' \in [Procs -> [Providers -> Records]]
  BY <1>1, <1>4 DEF TypeOK
<1>7. TypeOK'
  BY <1>1, <1>6, RememberShape DEF TypeOK, Labels
<1>8. Counted'
  <2>1. \A v \in Providers : /\ failed[v] \in Nat /\ failed'[v] \in Nat
                             /\ failed[v] <= failed'[v]
                             /\ file[v].failures \in Nat
                             /\ \A q \in Procs : mem[q][v].failures \in Nat
    BY <1>1, CountsType, RememberShape
  <2>2. ASSUME NEW v \in Providers PROVE file'[v].failures <= failed'[v]
    BY <1>1, <2>1 DEF Counted
  <2>3. ASSUME NEW v \in Providers, NEW q \in Procs
        PROVE  mem'[q][v].failures <= failed'[v]
    <3>1. CASE q = p /\ v = who
      BY <1>1, <1>5, <3>1 DEF TypeOK
    <3>2. CASE ~(q = p /\ v = who)
      <4>1. mem'[q][v] = mem[q][v]
        BY <1>1, <3>2 DEF TypeOK
      <4> QED
        BY <1>1, <2>1, <4>1 DEF Counted
    <3> QED
      BY <3>1, <3>2
  <2> QED
    BY <2>2, <2>3 DEF Counted
<1>9. ASSUME NEW q \in Procs PROVE Sound(q)'
  <2>1. Sound(q)
    BY DEF IInv
  <2>2. CASE q # p
    <3>1. Untouched(q)
      BY <1>1, <2>2 DEF Untouched, TypeOK
    <3> QED
      BY <2>1, <3>1, UntouchedSound
  <2>3. CASE q = p
    <3>1. pc'[p] = "writing"
      BY <1>1 DEF TypeOK
    <3> QED
      BY <1>1, <2>3, <3>1 DEF Sound, Placed, Probed, Blamed, Trying
  <2> QED
    BY <2>2, <2>3
<1> QED
  BY <1>7, <1>8, <1>9 DEF IInv

(* A step that changes nothing.                                            *)
LEMMA StutterIInv ==
  ASSUME IInv, UNCHANGED vars
  PROVE  IInv'
<1>1. TypeOK' /\ Counted'
  BY DEF IInv, TypeOK, Counted, vars
<1>2. ASSUME NEW q \in Procs PROVE Sound(q)'
  <2>1. Untouched(q) /\ Sound(q)
    BY DEF Untouched, vars, IInv
  <2> QED
    BY <2>1, UntouchedSound
<1> QED
  BY <1>1, <1>2 DEF IInv

(* Every step keeps the invariant.                                         *)
LEMMA StepIInv ==
  ASSUME IInv, [Next]_vars
  PROVE  IInv'
<1>1. CASE Tick
  BY <1>1, TickIInv
<1>2. ASSUME NEW p \in Procs, StartAny(p) PROVE IInv'
  BY <1>2, StartIInv DEF StartAny
<1>3. ASSUME NEW p \in Procs, Step(p) PROVE IInv'
  BY <1>3, CallIInv, DeniedIInv, CallFailsIInv, CallReturnsIInv,
     RecordNothingIInv, RecordIInv, WriteIInv DEF Step
<1>4. ASSUME NEW p \in Procs, Die(p) PROVE IInv'
  BY <1>4, DieIInv
<1>5. CASE UNCHANGED vars
  BY <1>5, StutterIInv
<1> QED
  BY <1>1, <1>2, <1>3, <1>4, <1>5 DEF Next

(* The breaker's invariant: where an invocation is, whom it blames, and    *)
(* that no record counts more failures than there were.                    *)
THEOREM BreakerInvariance == Spec => []IInv
  BY InitIInv, StepIInv, PTL DEF Spec

(* Every variable of the breaker keeps its type.                           *)
THEOREM BreakerTypes == Spec => []TypeOK
<1>1. IInv => TypeOK
  BY DEF IInv
<1> QED
  BY <1>1, BreakerInvariance, PTL

(* A circuit is open only for a backend that failed in as many invocations *)
(* as the threshold says, whatever invocations overlap, wherever they are  *)
(* killed (ProviderBreaker.record_failure, _save, and whom _ask_flow       *)
(* blames).                                                                *)
THEOREM EarnedTheorem == Spec => []OpenIsEarned
<1>1. IInv => OpenIsEarned
  <2> SUFFICES ASSUME IInv, NEW v \in Providers,
                      Open(file[v]) \/ \E p \in Procs : Open(mem[p][v])
               PROVE  failed[v] = Threshold
    BY DEF OpenIsEarned
  <2>1. failed[v] \in 0..Threshold /\ Threshold \in Nat
    BY BreakerAssumption DEF IInv, TypeOK
  <2>2. Threshold <= failed[v]
    BY DEF IInv, Counted, Open
  <2> QED
    BY <2>1, <2>2
<1> QED
  BY <1>1, BreakerInvariance, PTL

(* Only Call makes a call.                                                 *)
LEMMA OnlyCallCalls ==
  ASSUME IInv, [Next]_vars, NEW p \in Procs, pc[p] = "allow", pc'[p] = "call"
  PROVE  Call(p)
<1>0. pc \in [Procs -> Labels]
  BY DEF IInv, TypeOK
<1>1. CASE Tick \/ UNCHANGED vars
  BY <1>1 DEF Tick, vars
<1>2. ASSUME NEW q \in Procs, StartAny(q) \/ Step(q) \/ Die(q)
      PROVE  Call(p)
  <2>1. CASE q # p
    <3>1. \E label \in Labels : Go(q, label)
      BY <1>2 DEF StartAny, Start, Step, Call, Denied, GiveUp, CallFails, CallReturns,
         RecordNothing, Record, Write, Die, Labels
    <3> QED
      BY <1>0, <2>1, <3>1 DEF Go
  <2>2. CASE q = p
    <3>1. ~Go(p, "idle") /\ ~Go(p, "allow") /\ ~Go(p, "record") /\ ~Go(p, "writing")
      BY <1>0 DEF Go
    <3> QED
      BY <1>2, <2>2, <3>1 DEF StartAny, Start, Step, Denied, GiveUp, CallFails, CallReturns,
         RecordNothing, Record, Write, Die
  <2> QED
    BY <2>1, <2>2
<1> QED
  BY <1>1, <1>2 DEF Next

(* Only the primary is called a second time in an invocation, after a      *)
(* failure, and never while its circuit is half-open                       *)
(* (complete_with_failover, guarded_complete).                             *)
THEOREM StormTheorem == Spec => StormGuard
<1> DEFINE Guarded(p) == CallsAgain(p) =>
                           /\ Target(p) = order[p][1] /\ attempt[p] = 2
                           /\ heard[p][Target(p)] = "bad"
                           /\ ~Open(mem[p][Target(p)])
<1>1. ASSUME IInv, [Next]_vars, NEW p \in Procs PROVE Guarded(p)
  <2> SUFFICES ASSUME CallsAgain(p)
               PROVE  /\ Target(p) = order[p][1] /\ attempt[p] = 2
                      /\ heard[p][Target(p)] = "bad"
                      /\ ~Open(mem[p][Target(p)])
    OBVIOUS
  <2>1. pc[p] = "allow" /\ pc'[p] = "call" /\ heard[p][Target(p)] # "nothing"
    BY DEF CallsAgain
  <2>2. Allows(p, Target(p))
    BY <1>1, <2>1, OnlyCallCalls DEF Call
  <2>3. Sound(p) /\ Trying(p) /\ order[p] \in Orders /\ at[p] \in 1..Len(order[p])
    BY <1>1, <2>1 DEF IInv, Sound, Placed, Trying
  <2>4. attempt[p] \in 1..2 /\ Len(order[p]) \in Nat \ {0}
    BY <1>1, <2>3, OrdersShape DEF IInv, TypeOK
  <2>5. attempt[p] = 2
    BY <2>1, <2>3, <2>4 DEF Sound, Probed, Target
  <2> QED
    BY <2>2, <2>3, <2>5 DEF Sound, Probed, Primary, Target, Allows
<1>2. IInv /\ [Next]_vars => [\A p \in Procs : Guarded(p)]_vars
  BY <1>1
<1> QED
  BY <1>2, BreakerInvariance, PTL DEF Spec, StormGuard

-----------------------------------------------------------------------------
(* What explain records is what the backend did.                           *)

(* An invocation of explain that has not called, or what it heard.         *)
Silent(p) == verdict[p] = NoVerdict /\ heard[p] = [v \in Providers |-> "nothing"]
Explains(p) ==
  /\ pc[p] \in {"idle", "allow", "call"} => Silent(p)
  /\ pc[p] # "idle" =>
       /\ cmd[p] = "explain" /\ Len(order[p]) = 1 /\ at[p] = 1 /\ mem[p] = strikes
  /\ pc[p] = "record" =>
       heard[p] = [v \in Providers |-> IF v # verdict[p].who THEN "nothing"
                                       ELSE IF verdict[p].good THEN "good" ELSE "bad"]
Alone == \A p, q \in Procs : pc[p] # "idle" /\ pc[q] # "idle" => p = q
Filed == (\A p \in Procs : ~Writing(p)) => file = strikes /\ ~torn

(* Without ask, and one invocation after the other, the file is the record *)
(* of failures in a row, and so is what an invocation knows.               *)
Mirror == clean /\ ~asked => Alone /\ ~clash /\ Filed /\ \A p \in Procs : Explains(p)

(* While one invocation takes a step the others are at rest.               *)
LEMMA SoleStep ==
  ASSUME TypeOK, Alone, NEW p \in Procs, pc[p] # "idle", NEW to \in Labels, Go(p, to),
         \A q \in Procs : Explains(q),
         \A q \in Procs \ {p} : verdict'[q] = verdict[q] /\ heard'[q] = heard[q]
  PROVE  /\ Alone' /\ pc'[p] = to /\ \A q \in Procs \ {p} : pc'[q] = "idle" /\ Explains(q)'
<1>1. pc' = [pc EXCEPT ![p] = to] /\ pc \in [Procs -> Labels]
  BY DEF Go, TypeOK
<1>2. \A q \in Procs \ {p} : pc[q] = "idle" /\ pc'[q] = "idle"
  BY <1>1 DEF Alone
<1>3. Alone'
  BY <1>2 DEF Alone
<1>4. ASSUME NEW q \in Procs \ {p} PROVE Explains(q)'
  BY <1>2, <1>4 DEF Explains, Silent
<1> QED
  BY <1>1, <1>2, <1>3, <1>4

(* The backend of an invocation of explain.                                *)
LEMMA ItsBackend ==
  ASSUME IInv, NEW p \in Procs, Explains(p), pc[p] # "idle"
  PROVE  /\ order[p] \in Orders /\ Target(p) \in Providers /\ Target(p) = order[p][1]
         /\ Target(p) # NoProvider
<1>1. order[p] \in Orders /\ Len(order[p]) = 1 /\ at[p] = 1
  BY DEF IInv, Sound, Placed, Explains
<1>2. order[p][1] \in Providers
  BY <1>1, OrdersShape
<1> QED
  BY <1>1, <1>2, BreakerAssumption DEF Target

(* Remembering does to the strikes what recording does to the file.        *)
LEMMA RememberMirrors ==
  ASSUME IInv, NEW p \in Procs, Explains(p), pc[p] = "record", clean, Remember(p)
  PROVE  strikes' = IF verdict[p] = NoVerdict THEN strikes
                    ELSE [strikes EXCEPT ![verdict[p].who] =
                            IF verdict[p].good THEN NoRecord ELSE Worse(@)]
<1>1. strikes \in [Providers -> Records]
  BY DEF IInv, TypeOK
<1>2. heard[p] = [v \in Providers |-> IF v # verdict[p].who THEN "nothing"
                                      ELSE IF verdict[p].good THEN "good" ELSE "bad"]
  BY DEF Explains
<1>3. strikes' = [v \in Providers |->
        IF heard[p][v] = "bad" THEN Worse(strikes[v])
        ELSE IF heard[p][v] = "good" THEN NoRecord ELSE strikes[v]]
  BY DEF Remember, Worse
<1>4. CASE verdict[p] = NoVerdict
  <2>1. \A v \in Providers : v # verdict[p].who
    BY <1>4, BreakerAssumption DEF NoVerdict
  <2>2. \A v \in Providers : strikes'[v] = strikes[v]
    BY <1>2, <1>3, <2>1
  <2>3. strikes' = [v \in Providers |-> strikes[v]]
    BY <1>2, <1>3, <2>1
  <2> QED
    BY <1>1, <1>4, <2>3
<1>5. CASE verdict[p] # NoVerdict
  <2>1. strikes' = [v \in Providers |->
          IF v = verdict[p].who
            THEN IF verdict[p].good THEN NoRecord ELSE Worse(strikes[v])
            ELSE strikes[v]]
    BY <1>2, <1>3
  <2> QED
    BY <1>1, <1>5, <2>1
<1> QED
  BY <1>4, <1>5

(* What the file holds stays what is remembered, with time.                *)
LEMMA TickMirror == ASSUME IInv, Mirror, Tick PROVE Mirror'
<1> SUFFICES ASSUME clean, ~asked
             PROVE  Alone' /\ ~clash' /\ Filed' /\ \A p \in Procs : Explains(p)'
  BY DEF Mirror, Tick
<1>1. /\ UNCHANGED <<torn, clash, pc, cmd, order, at, verdict, heard>>
      /\ file' = [v \in Providers |-> Older(file[v])]
      /\ mem' = [p \in Procs |-> [v \in Providers |-> Older(mem[p][v])]]
      /\ strikes' = [v \in Providers |-> Older(strikes[v])]
  BY DEF Tick
<1>2. Alone /\ ~clash /\ Filed /\ \A p \in Procs : Explains(p)
  BY DEF Mirror
<1>3. Alone' /\ ~clash'
  BY <1>1, <1>2 DEF Alone
<1>4. Filed'
  BY <1>1, <1>2 DEF Filed, Writing
<1>5. ASSUME NEW p \in Procs PROVE Explains(p)'
  <2>1. Explains(p)
    BY <1>2
  <2>2. pc[p] # "idle" => mem'[p] = strikes'
    BY <1>1, <2>1 DEF Explains
  <2> QED
    BY <1>1, <2>1, <2>2 DEF Explains, Silent
<1> QED
  BY <1>3, <1>4, <1>5

(* An invocation that starts reads the file.                               *)
LEMMA StartMirror ==
  ASSUME IInv, Mirror, NEW p \in Procs, NEW c \in Commands, NEW s \in Orders, Start(p, c, s)
  PROVE  Mirror'
<1> SUFFICES ASSUME clean', ~asked'
             PROVE  Alone' /\ ~clash' /\ Filed' /\ \A q \in Procs : Explains(q)'
  BY DEF Mirror
<1>1. /\ pc[p] = "idle" /\ pc' = [pc EXCEPT ![p] = "allow"] /\ cmd' = [cmd EXCEPT ![p] = c]
      /\ order' = [order EXCEPT ![p] = s]
      /\ mem' = [mem EXCEPT ![p] = IF torn THEN Clear ELSE file]
      /\ UNCHANGED <<file, torn, clash, at, verdict, heard>>
      /\ c = "explain" /\ Len(s) = 1
      /\ clean /\ ~asked /\ strikes' = strikes
      /\ \A q \in Procs : pc[q] = "idle"
  BY BreakerAssumption DEF Start, Go, Overlapping, fileVars
<1>2. Alone /\ ~clash /\ Filed /\ \A q \in Procs : Explains(q)
  BY <1>1 DEF Mirror
<1>3. /\ pc \in [Procs -> Labels] /\ cmd \in [Procs -> Commands \cup {"none"}]
      /\ order \in [Procs -> Orders \cup {<<>>}] /\ mem \in [Procs -> [Providers -> Records]]
      /\ at[p] = 1
  BY <1>1 DEF IInv, TypeOK, Sound, Placed
<1>4. file = strikes /\ ~torn
  BY <1>1, <1>2 DEF Filed, Writing
<1>5. Alone' /\ Filed'
  BY <1>1, <1>3, <1>4 DEF Alone, Filed
<1>6. ASSUME NEW q \in Procs PROVE Explains(q)'
  <2>1. Silent(q)'
    BY <1>1, <1>2 DEF Explains, Silent
  <2>2. CASE q = p
    <3>1. /\ pc'[p] = "allow" /\ cmd'[p] = "explain" /\ order'[p] = s /\ at'[p] = 1
          /\ mem'[p] = strikes'
      BY <1>1, <1>3, <1>4
    <3> QED
      BY <1>1, <2>1, <2>2, <3>1 DEF Explains
  <2>3. CASE q # p
    BY <1>1, <1>3, <2>1, <2>3 DEF Explains
  <2> QED
    BY <2>2, <2>3
<1> QED
  BY <1>1, <1>2, <1>5, <1>6

(* It is let through, or not; it has its answer, or none.                  *)
LEMMA AskingMirror ==
  ASSUME IInv, Mirror, NEW p \in Procs,
         \/ Call(p) \/ Denied(p)
         \/ \E kind \in {"transient", "hard"} : CallFails(p, kind)
         \/ \E answer \in {"usable", "honest", "malformed"} : CallReturns(p, answer)
  PROVE  Mirror'
<1> SUFFICES ASSUME clean', ~asked'
             PROVE  Alone' /\ ~clash' /\ Filed' /\ \A q \in Procs : Explains(q)'
  BY DEF Mirror
<1>1. /\ UNCHANGED <<file, torn, clash, cmd, order, mem, strikes, clean, asked>>
      /\ pc[p] \in {"allow", "call"}
  BY DEF Call, Denied, CallFails, CallReturns, fileVars, pastVars
<1>2. Alone /\ ~clash /\ Filed /\ (\A q \in Procs : Explains(q)) /\ TypeOK
  BY <1>1 DEF Mirror, IInv
<1>3. /\ cmd[p] = "explain" /\ Len(order[p]) = 1 /\ at[p] = 1 /\ mem[p] = strikes
      /\ Silent(p) /\ Target(p) \in Providers /\ Target(p) = order[p][1]
      /\ Target(p) # NoProvider
  BY <1>1, <1>2, ItsBackend DEF Explains
<1>4. /\ verdict \in [Procs -> [who : Providers \cup {NoProvider}, good : BOOLEAN]]
      /\ heard \in [Procs -> [Providers -> {"nothing", "good", "bad"}]]
      /\ at \in [Procs -> Nat \ {0}]
  BY <1>2 DEF TypeOK
<1>5. PICK to \in {"call", "record"}, who \in Providers \cup {NoProvider}, good \in BOOLEAN :
        /\ Go(p, to) /\ at' = at
        /\ verdict' = [verdict EXCEPT ![p] = [who |-> who, good |-> good]]
        /\ \/ heard' = heard /\ [who |-> who, good |-> good] = NoVerdict
           \/ /\ to = "record" /\ who = Target(p)
              /\ heard' = [heard EXCEPT ![p] = [@ EXCEPT ![Target(p)] =
                                                  IF good THEN "good" ELSE "bad"]]
  <2>0. verdict = [verdict EXCEPT ![p] = NoVerdict]
    BY <1>3, <1>4 DEF Silent
  <2>1. CASE Call(p)
    <3>1. Go(p, "call") /\ at' = at /\ verdict' = verdict /\ heard' = heard
      BY <2>1 DEF Call
    <3>2. [who |-> NoProvider, good |-> FALSE] = NoVerdict
      BY DEF NoVerdict
    <3>3. verdict' = [verdict EXCEPT ![p] = [who |-> NoProvider, good |-> FALSE]]
      BY <2>0, <3>1, <3>2
    <3> WITNESS "call" \in {"call", "record"}, NoProvider \in Providers \cup {NoProvider},
                FALSE \in BOOLEAN
    <3> QED
      BY <3>1, <3>2, <3>3
  <2>2. CASE Denied(p)
    <3>1. /\ Go(p, "record") /\ at' = at /\ heard' = heard
          /\ verdict' = [verdict EXCEPT ![p] = NoVerdict]
      BY <1>3, <2>2 DEF Denied, GiveUp
    <3>2. [who |-> NoProvider, good |-> FALSE] = NoVerdict
      BY DEF NoVerdict
    <3> WITNESS "record" \in {"call", "record"}, NoProvider \in Providers \cup {NoProvider},
                FALSE \in BOOLEAN
    <3> QED
      BY <3>1, <3>2
  <2>3. ASSUME NEW kind \in {"transient", "hard"}, CallFails(p, kind)
        PROVE  /\ Go(p, "record") /\ at' = at
               /\ verdict' = [verdict EXCEPT ![p] = [who |-> Target(p), good |-> FALSE]]
               /\ heard' = [heard EXCEPT ![p] = [@ EXCEPT ![Target(p)] = "bad"]]
    BY <1>3, <2>3 DEF CallFails, GiveUp, Hear
  <2>4. ASSUME NEW answer \in {"usable", "honest", "malformed"}, CallReturns(p, answer)
        PROVE  /\ Go(p, "record") /\ at' = at
               /\ verdict' = [verdict EXCEPT ![p] =
                                [who |-> Target(p), good |-> answer # "malformed"]]
               /\ heard' = [heard EXCEPT ![p] = [@ EXCEPT ![Target(p)] =
                              IF answer # "malformed" THEN "good" ELSE "bad"]]
    BY <1>3, <2>4 DEF CallReturns, Hear
  <2>5. CASE \E kind \in {"transient", "hard"} : CallFails(p, kind)
    BY <1>3, <2>3, <2>5
  <2>6. ASSUME NEW answer \in {"usable", "honest", "malformed"}, CallReturns(p, answer)
        PROVE  \E good \in BOOLEAN :
                 /\ Go(p, "record") /\ at' = at
                 /\ verdict' = [verdict EXCEPT ![p] = [who |-> Target(p), good |-> good]]
                 /\ heard' = [heard EXCEPT ![p] = [@ EXCEPT ![Target(p)] =
                                IF good THEN "good" ELSE "bad"]]
    BY <2>4, <2>6
  <2> QED
    BY <1>3, <2>1, <2>2, <2>5, <2>6
<1>6. \A q \in Procs \ {p} : verdict'[q] = verdict[q] /\ heard'[q] = heard[q]
  BY <1>4, <1>5
<1>7. Alone' /\ pc'[p] = to /\ \A q \in Procs \ {p} : pc'[q] = "idle" /\ Explains(q)'
  BY <1>1, <1>2, <1>5, <1>6, SoleStep DEF Labels
<1>8. verdict'[p] = [who |-> who, good |-> good] /\ verdict'[p].who = who /\ verdict'[p].good = good
  BY <1>4, <1>5
<1>9. Explains(p)'
  <2>1. pc'[p] # "idle" /\ cmd'[p] = "explain" /\ Len(order'[p]) = 1 /\ at'[p] = 1
        /\ mem'[p] = strikes'
    BY <1>1, <1>3, <1>5, <1>7
  <2>2. CASE to = "call"
    <3>1. Silent(p)'
      BY <1>3, <1>5, <1>8, <2>2 DEF Silent
    <3> QED
      BY <1>7, <2>1, <2>2, <3>1 DEF Explains
  <2>3. CASE to = "record"
    <3>1. heard[p] = [v \in Providers |-> "nothing"]
      BY <1>3 DEF Silent
    <3>2. heard'[p] = [v \in Providers |-> IF v # who THEN "nothing"
                                           ELSE IF good THEN "good" ELSE "bad"]
      <4>1. CASE heard' = heard /\ [who |-> who, good |-> good] = NoVerdict
        <5>1. who = NoProvider
          BY <4>1 DEF NoVerdict
        <5> QED
          BY <3>1, <4>1, <5>1, BreakerAssumption
      <4>2. CASE /\ who = Target(p)
                 /\ heard' = [heard EXCEPT ![p] = [@ EXCEPT ![Target(p)] =
                                                     IF good THEN "good" ELSE "bad"]]
        <5>1. heard'[p] = [heard[p] EXCEPT ![Target(p)] = IF good THEN "good" ELSE "bad"]
          BY <1>4, <4>2
        <5> QED
          BY <1>3, <3>1, <4>2, <5>1
      <4> QED
        BY <1>5, <4>1, <4>2
    <3> QED
      BY <1>7, <1>8, <2>1, <2>3, <3>2 DEF Explains
  <2> QED
    BY <2>2, <2>3
<1>10. Filed'
  <2>1. \A q \in Procs : ~Writing(q)
    BY <1>1, <1>2 DEF Alone, Writing
  <2> QED
    BY <1>1, <1>2, <2>1 DEF Filed
<1> QED
  BY <1>1, <1>2, <1>7, <1>9, <1>10

(* It records, and the file follows what is remembered.                    *)
LEMMA RecordingMirror ==
  ASSUME IInv, Mirror, NEW p \in Procs, RecordNothing(p) \/ Record(p) \/ Write(p)
  PROVE  Mirror'
<1> SUFFICES ASSUME clean', ~asked'
             PROVE  Alone' /\ ~clash' /\ Filed' /\ \A q \in Procs : Explains(q)'
  BY DEF Mirror
<1>1. UNCHANGED <<clean, asked>> /\ pc[p] \in {"record", "writing"}
  BY DEF RecordNothing, Record, Write, Writing, pastVars
<1>2. Alone /\ ~clash /\ Filed /\ (\A q \in Procs : Explains(q)) /\ TypeOK
  BY <1>1 DEF Mirror, IInv
<1>3. /\ cmd[p] = "explain" /\ Len(order[p]) = 1 /\ at[p] = 1 /\ mem[p] = strikes
      /\ Explains(p) /\ \A q \in Procs \ {p} : ~Writing(q)
  BY <1>1, <1>2 DEF Explains, Alone, Writing
<1>4. /\ verdict \in [Procs -> [who : Providers \cup {NoProvider}, good : BOOLEAN]]
      /\ heard \in [Procs -> [Providers -> {"nothing", "good", "bad"}]]
      /\ mem \in [Procs -> [Providers -> Records]] /\ strikes \in [Providers -> Records]
  BY <1>2 DEF TypeOK
<1>5. ASSUME Reset(p), Go(p, "idle"), ~clash', Filed'
      PROVE  Alone' /\ ~clash' /\ Filed' /\ \A q \in Procs : Explains(q)'
  <2>1. /\ verdict' = [verdict EXCEPT ![p] = NoVerdict]
        /\ heard' = [heard EXCEPT ![p] = [v \in Providers |-> "nothing"]]
    BY <1>5 DEF Reset
  <2>2. \A q \in Procs \ {p} : verdict'[q] = verdict[q] /\ heard'[q] = heard[q]
    BY <1>4, <2>1
  <2>3. Alone' /\ pc'[p] = "idle" /\ \A q \in Procs \ {p} : Explains(q)'
    BY <1>1, <1>2, <1>5, <2>2, SoleStep DEF Labels
  <2>4. Silent(p)'
    BY <1>4, <2>1 DEF Silent
  <2>5. Explains(p)'
    BY <2>3, <2>4 DEF Explains
  <2> QED
    BY <1>5, <2>3, <2>5
<1>6. CASE RecordNothing(p)
  <2>1. /\ pc[p] = "record" /\ ~NeedsSaving(p) /\ Remember(p) /\ Go(p, "idle") /\ Reset(p)
        /\ UNCHANGED <<file, torn, clash>>
    BY <1>6 DEF RecordNothing, fileVars
  <2>2. strikes' = IF verdict[p] = NoVerdict THEN strikes
                   ELSE [strikes EXCEPT ![verdict[p].who] =
                           IF verdict[p].good THEN NoRecord ELSE Worse(@)]
    BY <1>1, <1>3, <2>1, RememberMirrors
  <2>3. strikes' = strikes
    <3>1. CASE verdict[p] = NoVerdict
      BY <2>2, <3>1
    <3>2. CASE verdict[p] # NoVerdict
      <4>1. verdict[p].good /\ strikes[verdict[p].who] = NoRecord
        BY <1>3, <2>1, <3>2 DEF NeedsSaving
      <4> QED
        BY <1>4, <2>2, <3>2, <4>1
    <3> QED
      BY <3>1, <3>2
  <2>4. file = strikes /\ ~torn
    BY <1>2, <1>3, <2>1 DEF Filed, Writing
  <2>5. Filed'
    BY <2>1, <2>3, <2>4 DEF Filed
  <2> QED
    BY <1>2, <1>5, <2>1, <2>5
<1>7. CASE Write(p)
  <2>1. /\ file' = mem[p] /\ torn' = FALSE /\ ~clash' /\ strikes' = strikes
        /\ Go(p, "idle") /\ Reset(p)
    BY <1>2, <1>7 DEF Write, pastVars
  <2>2. Filed'
    BY <1>3, <2>1 DEF Filed
  <2> QED
    BY <1>5, <2>1, <2>2
<1>8. CASE Record(p)
  <2>1. /\ pc[p] = "record" /\ NeedsSaving(p) /\ Remember(p) /\ Go(p, "writing")
        /\ mem' = [mem EXCEPT ![p][verdict[p].who] =
                                        IF verdict[p].good THEN NoRecord ELSE Worse(@)]
        /\ clash' = (clash \/ \E q \in Procs : Writing(q))
        /\ UNCHANGED <<cmd, order, at, verdict, heard>>
    BY <1>8 DEF Record
  <2>2. verdict[p] # NoVerdict
    BY <2>1 DEF NeedsSaving
  <2>3. strikes' = [strikes EXCEPT ![verdict[p].who] =
                      IF verdict[p].good THEN NoRecord ELSE Worse(@)]
    BY <1>1, <1>3, <2>1, <2>2, RememberMirrors
  <2>4. mem'[p] = [mem[p] EXCEPT ![verdict[p].who] =
                     IF verdict[p].good THEN NoRecord ELSE Worse(@)]
    BY <1>4, <2>1
  <2>5. mem'[p] = strikes'
    BY <1>3, <2>3, <2>4
  <2>6. ~clash'
    BY <1>2, <1>3, <2>1 DEF Writing
  <2>7. Alone' /\ pc'[p] = "writing" /\ \A q \in Procs \ {p} : Explains(q)'
    BY <1>1, <1>2, <2>1, SoleStep DEF Labels
  <2>8. Filed'
    BY <2>7 DEF Filed, Writing
  <2>9. Explains(p)'
    BY <1>3, <2>1, <2>5, <2>7 DEF Explains
  <2> QED
    BY <2>6, <2>7, <2>8, <2>9
<1> QED
  BY <1>6, <1>7, <1>8

(* One that is killed before it writes leaves nothing.                     *)
LEMMA DieMirror == ASSUME IInv, Mirror, NEW p \in Procs, Die(p) PROVE Mirror'
<1> SUFFICES ASSUME clean', ~asked'
             PROVE  Alone' /\ ~clash' /\ Filed' /\ \A q \in Procs : Explains(q)'
  BY DEF Mirror
<1>1. /\ clean /\ ~asked /\ ~Writing(p) /\ strikes' = strikes /\ pc[p] # "idle"
      /\ Go(p, "idle") /\ Reset(p) /\ UNCHANGED <<file, torn>>
      /\ clash' = (clash /\ \E q \in Procs \ {p} : Writing(q))
  BY DEF Die, Overlapping
<1>2. Alone /\ ~clash /\ Filed /\ (\A q \in Procs : Explains(q)) /\ TypeOK
  BY <1>1 DEF Mirror, IInv
<1>3. /\ verdict \in [Procs -> [who : Providers \cup {NoProvider}, good : BOOLEAN]]
      /\ heard \in [Procs -> [Providers -> {"nothing", "good", "bad"}]]
  BY <1>2 DEF TypeOK
<1>4. /\ verdict' = [verdict EXCEPT ![p] = NoVerdict]
      /\ heard' = [heard EXCEPT ![p] = [v \in Providers |-> "nothing"]]
  BY <1>1 DEF Reset
<1>5. \A q \in Procs \ {p} : verdict'[q] = verdict[q] /\ heard'[q] = heard[q]
  BY <1>3, <1>4
<1>6. Alone' /\ pc'[p] = "idle" /\ \A q \in Procs \ {p} : Explains(q)'
  BY <1>1, <1>2, <1>5, SoleStep DEF Labels
<1>7. Explains(p)'
  <2>1. Silent(p)'
    BY <1>3, <1>4 DEF Silent
  <2> QED
    BY <1>6, <2>1 DEF Explains
<1>8. Filed'
  <2>1. \A q \in Procs : ~Writing(q)
    BY <1>1, <1>2 DEF Alone, Writing
  <2> QED
    BY <1>1, <1>2, <2>1 DEF Filed
<1> QED
  BY <1>1, <1>2, <1>6, <1>7, <1>8

(* Every step keeps file, memory and history together.                     *)
LEMMA StepMirror == ASSUME IInv, Mirror, [Next]_vars PROVE Mirror'
<1>1. CASE UNCHANGED vars
  BY <1>1 DEF vars, Mirror, Alone, Filed, Explains, Silent, Writing
<1>2. CASE Tick
  BY <1>2, TickMirror
<1>3. ASSUME NEW p \in Procs, StartAny(p) \/ Step(p) \/ Die(p) PROVE Mirror'
  BY <1>3, StartMirror, AskingMirror, RecordingMirror, DieMirror DEF StartAny, Step
<1> QED
  BY <1>1, <1>2, <1>3 DEF Next

(* Without ask, a backend that failed as often in a row as the threshold   *)
(* says is not called again before the cooldown is over, as long as        *)
(* invocations do not overlap and none is killed while it writes           *)
(* (ProviderBreaker.allow, record_failure, _save).                         *)
THEOREM DeadTheorem == Spec => ExplainLeavesAlone
<1>1. Init => Mirror
  BY DEF Init, Mirror, Alone, Filed, Explains, Silent
<1>2. Spec => [](IInv /\ Mirror)
  <2>1. IInv /\ Mirror /\ [Next]_vars => (IInv /\ Mirror)'
    BY StepIInv, StepMirror
  <2> QED
    BY <1>1, <2>1, InitIInv, PTL DEF Spec
<1>3. ASSUME IInv, Mirror, [Next]_vars, ~asked PROVE LeavesAlone
  <2> SUFFICES ASSUME NEW v \in Providers, clean, Open(strikes[v]), ~CooledDown(strikes[v]),
                      NEW p \in Procs, pc[p] = "allow", pc'[p] = "call"
               PROVE  Target(p) # v
    BY DEF LeavesAlone
  <2>1. Call(p)
    BY <1>3, OnlyCallCalls
  <2>2. mem[p] = strikes
    BY <1>3 DEF Mirror, Explains
  <2>3. Allows(p, Target(p))
    BY <2>1 DEF Call
  <2>4. Open(mem[p][v]) /\ ~CooledDown(mem[p][v])
    BY <2>2
  <2> QED
    BY <2>3, <2>4 DEF Allows
<1>4. IInv /\ Mirror /\ [Next]_vars => [~asked => LeavesAlone]_vars
  BY <1>3
<1> QED
  BY <1>2, <1>4, PTL DEF Spec, ExplainLeavesAlone
=============================================================================
