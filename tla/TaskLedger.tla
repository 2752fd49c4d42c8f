----------------------------- MODULE TaskLedger -----------------------------
(***************************************************************************)
(* What the kernel promises about its tasks, without saying how.           *)
(*                                                                         *)
(* A task is opened in the journal, acts on the machine only while it is   *)
(* open, and is then either refused (and has not acted) or closed.  Its    *)
(* reverse path is offered before it is closed and after its last act, so  *)
(* that what is offered covers all it did; it is spent at most once.       *)
(* Nothing says that an open task is ever closed: a process that dies      *)
(* leaves its task open.                                                   *)
(***************************************************************************)
CONSTANT Tasks

VARIABLES
  phase,     \* the task's place in the journal
  acted,     \* the tasks that started a command on the machine
  reversal   \* the task's reverse path

ledgerVars == <<phase, acted, reversal>>

Init ==
  /\ phase = [t \in Tasks |-> "absent"]
  /\ acted = {}
  /\ reversal = [t \in Tasks |-> "none"]

Open(t) ==
  /\ phase[t] = "absent"
  /\ phase' = [phase EXCEPT ![t] = "open"]
  /\ UNCHANGED <<acted, reversal>>

Refuse(t) ==
  /\ phase[t] = "open"
  /\ t \notin acted
  /\ phase' = [phase EXCEPT ![t] = "refused"]
  /\ UNCHANGED <<acted, reversal>>

Act(t) ==
  /\ phase[t] = "open"
  /\ reversal[t] = "none"
  /\ acted' = acted \cup {t}
  /\ UNCHANGED <<phase, reversal>>

Offer(t) ==
  /\ phase[t] = "open"
  /\ reversal[t] = "none"
  /\ reversal' = [reversal EXCEPT ![t] = "offered"]
  /\ UNCHANGED <<phase, acted>>

Close(t) ==
  /\ phase[t] = "open"
  /\ phase' = [phase EXCEPT ![t] = "closed"]
  /\ UNCHANGED <<acted, reversal>>

(* Spending the reverse path of a task does not wait for the task's own    *)
(* process: it may still be about to close it.                             *)
Spend(t) ==
  /\ reversal[t] = "offered"
  /\ reversal' = [reversal EXCEPT ![t] = "spent"]
  /\ UNCHANGED <<phase, acted>>

Next ==
  \E t \in Tasks :
    \/ Open(t) \/ Refuse(t) \/ Act(t) \/ Offer(t)
    \/ Close(t) \/ Spend(t)

Spec == Init /\ [][Next]_ledgerVars
=============================================================================
