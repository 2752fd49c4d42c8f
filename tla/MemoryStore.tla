---------------------------- MODULE MemoryStore ----------------------------
(***************************************************************************)
(* Owner-taught memories (memory/store.py): one file per memory, listed,   *)
(* written and deleted by commands that may run at the same time.          *)
(*                                                                         *)
(* A file is created empty and then filled; a listing skips what it cannot *)
(* parse, and raises when a file it has seen is gone before it is read.    *)
(***************************************************************************)
EXTENDS Naturals, FiniteSets

CONSTANTS
  Clients,     \* commands that may run at the same time
  Entries,     \* ids: the hash of the second, the origin and the text
  NoEntry,
  MaxMemories  \* MAX_MEMORIES

ASSUME MemoryAssumption ==
  /\ IsFiniteSet(Clients) /\ IsFiniteSet(Entries) /\ NoEntry \notin Entries
  /\ MaxMemories \in Nat \ {0}

VARIABLES
  file,  \* none, empty (or otherwise malformed) or whole
  mpc,
  seen,  \* what the command has globbed and not yet dealt with
  entry  \* what it is about to write

memoryVars == <<file, mpc, seen, entry>>

MemoryInit ==
  /\ file = [e \in Entries |-> "none"]
  /\ mpc = [c \in Clients |-> "idle"]
  /\ seen = [c \in Clients |-> {}] /\ entry = [c \in Clients |-> NoEntry]

Present == {e \in Entries : file[e] # "none"}
Whole == {e \in Entries : file[e] = "whole"}

At(c, pc, s, e) ==
  /\ mpc' = [mpc EXCEPT ![c] = pc] /\ seen' = [seen EXCEPT ![c] = s]
  /\ entry' = [entry EXCEPT ![c] = e]
Over(c) == At(c, "idle", {}, NoEntry)

(* remember, forget --all: the names are collected first.                  *)
Glob(c) ==
  /\ mpc[c] = "idle"
  /\ \E pc \in {"remember", "forget_all"} : At(c, pc, Present, NoEntry)
  /\ UNCHANGED file

(* Mutant: one memory too many.                                            *)
Mut_Room(c) ==
  /\ mpc[c] = "remember"
  /\ Cardinality(seen[c] \cap Whole) <= MaxMemories
  /\ \E e \in Entries : At(c, "create", {}, e)
  /\ UNCHANGED file

(* What has been deleted since may have been read in time, and counted.    *)
Room(c) ==
  /\ mpc[c] = "remember"
  /\ \E early \in SUBSET (seen[c] \ Present) :
       /\ Cardinality((seen[c] \cap Whole) \cup early) < MaxMemories
       /\ \E e \in Entries : At(c, "create", {}, e)
  /\ UNCHANGED file

Full(c) ==
  /\ mpc[c] = "remember"
  /\ \E early \in SUBSET (seen[c] \ Present) :
       Cardinality((seen[c] \cap Whole) \cup early) >= MaxMemories
  /\ Over(c) /\ UNCHANGED file

ReadRaises(c) ==
  /\ mpc[c] = "remember" /\ ~(seen[c] \subseteq Present)
  /\ Over(c) /\ UNCHANGED file

Create(c) ==
  /\ mpc[c] = "create" /\ At(c, "fill", {}, entry[c])
  /\ file' = [file EXCEPT ![entry[c]] = "empty"]

(* Deleted in between, the text goes to a file that no longer has a name.  *)
Fill(c) ==
  /\ mpc[c] = "fill" /\ Over(c)
  /\ file' = IF file[entry[c]] = "none" THEN file
             ELSE [file EXCEPT ![entry[c]] = "whole"]

Forget(e) ==
  /\ file[e] # "none" /\ file' = [file EXCEPT ![e] = "none"]
  /\ UNCHANGED <<mpc, seen, entry>>

(* A file another command has deleted makes unlink raise: the rest stays.  *)
Unlink(c) ==
  /\ mpc[c] = "forget_all"
  /\ \E e \in seen[c] :
       IF file[e] = "none" THEN Over(c) /\ UNCHANGED file
       ELSE /\ file' = [file EXCEPT ![e] = "none"]
            /\ At(c, "forget_all", seen[c] \ {e}, NoEntry)

Forgotten(c) ==
  mpc[c] = "forget_all" /\ seen[c] = {} /\ Over(c) /\ UNCHANGED file

ClientDies(c) == mpc[c] # "idle" /\ Over(c) /\ UNCHANGED file

MemoryNext ==
  \/ \E c \in Clients :
       \/ Glob(c) \/ Room(c) \/ Full(c) \/ ReadRaises(c) \/ Create(c) \/ Fill(c)
       \/ Unlink(c) \/ Forgotten(c) \/ ClientDies(c)
  \/ \E e \in Entries : Forget(e)

MemorySpec == MemoryInit /\ [][MemoryNext]_memoryVars

-----------------------------------------------------------------------------
MemoryTypeOK ==
  /\ file \in [Entries -> {"none", "empty", "whole"}]
  /\ mpc \in [Clients -> {"idle", "remember", "create", "fill", "forget_all"}]
  /\ seen \in [Clients -> SUBSET Entries]
  /\ entry \in [Clients -> Entries \cup {NoEntry}]

(* MAX_MEMORIES: the count is taken before the file is written, so each of *)
(* the other commands that found room at the same moment may add one more, *)
(* and no other; a listing that races a deletion never makes it worse.     *)
MemoryBounded ==
  Cardinality(Whole) <= MaxMemories + Cardinality(Clients) - 1
=============================================================================
