------------------------------ MODULE Charter ------------------------------
(***************************************************************************)
(* A standing order (safety/charter.py) between its timer and its owner:   *)
(* `jarvis charter run` checks the contract and the state file, runs the   *)
(* request as an ordinary task and records how it ended; `pause`,          *)
(* `resume`, `revoke` and `install` (cli/app.py) rewrite the same state.   *)
(*                                                                         *)
(* Every change of the state file is a read, a change of one field and a   *)
(* write of the whole, with no lock, so each is two actions here.  The     *)
(* counters in the file (runs, failures) are only ever displayed and are   *)
(* left out.                                                               *)
(***************************************************************************)
EXTENDS Naturals, Sequences, FiniteSets

CONSTANTS
  Firings,    \* processes that may run the charter at the same time
  Playbooks, NoPlaybook,
  TierOf,     \* playbook_tiers
  Contracts,  \* the documents somebody may write
  Budget,     \* monthly_run_budget
  Window,     \* the newest tasks the count looks at
  MaxTasks    \* tasks in the journal: bounds a behaviour

Owner == "owner"  \* whoever types pause, resume, revoke or install

ASSUME CharterAssumption ==
  /\ IsFiniteSet(Firings) /\ Owner \notin Firings /\ NoPlaybook \notin Playbooks
  /\ TierOf \in [Playbooks -> 0..3]
  /\ Contracts \subseteq [allow : SUBSET Playbooks, ceiling : 0..3]
  /\ Budget \in Nat \ {0} /\ Window \in Nat \ {0} /\ MaxTasks \in Nat

NoContract == [allow |-> {}, ceiling |-> 0]
Statuses == {"missing", "active", "paused", "revoked", "torn"}

VARIABLES
  contract,  \* the document
  status,    \* what the state file says; torn if it cannot be parsed
  match,     \* the playbook the catalog gives for the request
  tasks,     \* the journal, newest last: playbook, and whether a firing ran it
  aged,      \* how many of them are older than the window of 30 days
  \* a firing
  fpc, fdoc, fbuf, fend,
  \* the owner
  opc,
  \* what has happened
  halted,    \* a pause, a revocation or a failure was written; not since lifted
  raced      \* two changes of the state file overlapped

fileVars == <<contract, status>>
worldVars == <<match, tasks, aged>>
charterVars == <<contract, status, match, tasks, aged, fpc, fdoc, fbuf, fend,
                 opc, halted, raced>>

CharterInit ==
  /\ contract = NoContract /\ status = "missing"
  /\ match \in Playbooks /\ tasks = <<>> /\ aged = 0
  /\ fpc = [p \in Firings |-> "idle"]
  /\ fdoc = [p \in Firings |-> NoContract]
  /\ fbuf = [p \in Firings |-> "missing"]
  /\ fend = [p \in Firings |-> FALSE]
  /\ opc = "idle"
  /\ halted = FALSE /\ raced = FALSE

-----------------------------------------------------------------------------
(* The contract, the count, and the state file.                            *)

Valid(doc) ==
  /\ doc.allow # {} /\ doc.ceiling <= 2
  /\ \A b \in doc.allow : TierOf[b] <= doc.ceiling

Used(doc) ==
  Cardinality({i \in DOMAIN tasks : /\ i > aged /\ i + Window > Len(tasks)
                                    /\ tasks[i].playbook \in doc.allow})

(* Mutant: one firing more than the budget is let through.                 *)
Mut_Unfit(doc) ==
  \/ ~Valid(doc) \/ match \notin doc.allow
  \/ match \in Playbooks /\ TierOf[match] > doc.ceiling
  \/ Used(doc) > Budget
Unfit(doc) ==
  \/ ~Valid(doc)
  \/ match \notin doc.allow
  \/ match \in Playbooks /\ TierOf[match] > doc.ceiling
  \/ Used(doc) >= Budget

Writers(p) == {q \in Firings \ {p} : fpc[q] \in {"pausing", "recording"}}
                \cup IF p # Owner /\ opc # "idle" THEN {Owner} ELSE {}

Read(p, to) ==  \* read_state, when it returns
  /\ status # "torn"
  /\ fbuf' = [fbuf EXCEPT ![p] = status] /\ fpc' = [fpc EXCEPT ![p] = to]
(* What a firing no longer looks at is forgotten.                          *)
Go(p, to, doc, end) ==
  /\ fpc' = [fpc EXCEPT ![p] = to] /\ fdoc' = [fdoc EXCEPT ![p] = doc]
  /\ fbuf' = [fbuf EXCEPT ![p] = "missing"] /\ fend' = [fend EXCEPT ![p] = end]
Drop(p) == Go(p, "idle", NoContract, FALSE)
Racing(p) == raced' = (raced \/ Writers(p) # {})

-----------------------------------------------------------------------------
(* A firing.                                                               *)

(* load_charter refuses an invalid document and leaves the state alone.    *)
Fire(p) ==
  /\ fpc[p] = "idle" /\ Valid(contract)
  /\ Read(p, "loaded") /\ fdoc' = [fdoc EXCEPT ![p] = contract]
  /\ UNCHANGED <<fileVars, worldVars, fend, opc, halted, raced>>

NotActive(p) ==
  /\ fpc[p] = "loaded" /\ fbuf[p] # "active" /\ Drop(p)
  /\ UNCHANGED <<fileVars, worldVars, opc, halted, raced>>

Clear(p) ==
  /\ fpc[p] = "loaded" /\ fbuf[p] = "active" /\ ~Unfit(fdoc[p])
  /\ Go(p, "cleared", fdoc[p], FALSE)
  /\ UNCHANGED <<fileVars, worldVars, opc, halted, raced>>

(* precheck pauses the charter itself, reading the state once more.        *)
Refuse(p) ==
  /\ fpc[p] = "loaded" /\ fbuf[p] = "active" /\ Unfit(fdoc[p])
  /\ Read(p, "pausing") /\ Racing(p)
  /\ UNCHANGED <<fileVars, worldVars, fdoc, fend, opc, halted>>

WritePause(p) ==
  /\ fpc[p] = "pausing" /\ Drop(p) /\ status' = "paused" /\ halted' = TRUE
  /\ UNCHANGED <<contract, worldVars, opc, raced>>

(* The request is matched again: the journal gets what it gives now.       *)
Begin(p) ==
  /\ fpc[p] = "cleared" /\ match # NoPlaybook /\ Len(tasks) < MaxTasks
  /\ tasks' = Append(tasks, [playbook |-> match, fired |-> TRUE])
  /\ Go(p, "running", NoContract, FALSE)
  /\ UNCHANGED <<fileVars, match, aged, opc, halted, raced>>

(* No match, a build that fails or is refused: an outcome and no task.     *)
NoTask(p) ==
  /\ fpc[p] = "cleared" /\ Go(p, "ended", NoContract, FALSE)
  /\ UNCHANGED <<fileVars, worldVars, opc, halted, raced>>

DryRun(p) ==
  /\ fpc[p] = "cleared" /\ Drop(p)
  /\ UNCHANGED <<fileVars, worldVars, opc, halted, raced>>

(* A consent of T3 wants a typed answer, and a firing has an empty stdin.  *)
End(p) ==
  /\ fpc[p] = "running"
  /\ \E ok \in BOOLEAN : Go(p, "ended", NoContract, ok)
  /\ UNCHANGED <<fileVars, worldVars, opc, halted, raced>>

Record(p) ==
  /\ fpc[p] = "ended" /\ Read(p, "recording") /\ Racing(p)
  /\ UNCHANGED <<fileVars, worldVars, fdoc, fend, opc, halted>>

(* Mutant: a firing that ended well makes the charter active.              *)
Mut_AfterFiring(p) == IF fend[p] THEN "active" ELSE "paused"
AfterFiring(p) == IF fend[p] THEN fbuf[p] ELSE "paused"
WriteRecord(p) ==
  /\ fpc[p] = "recording" /\ Drop(p) /\ status' = AfterFiring(p)
  /\ halted' = (halted \/ ~fend[p])
  /\ UNCHANGED <<contract, worldVars, opc, raced>>

(* A read that finds half a file, or systemd at TimeoutStartSec.  Killed   *)
(* while it writes, a firing leaves the file truncated.                    *)
Crash(p) ==
  /\ fpc[p] # "idle" /\ Drop(p)
  /\ status' \in {status} \cup IF fpc[p] \in {"pausing", "recording"}
                               THEN {"torn"} ELSE {}
  /\ UNCHANGED <<contract, worldVars, opc, halted, raced>>

-----------------------------------------------------------------------------
(* The owner.                                                              *)

Install(doc) ==
  /\ opc = "idle" /\ Valid(doc) /\ contract' = doc /\ opc' = "active"
  /\ Racing(Owner)
  /\ UNCHANGED <<status, worldVars, fpc, fdoc, fbuf, fend, halted>>

(* pause, resume, revoke: set_status.  resume takes whatever it finds.     *)
Ask(to) ==
  /\ opc = "idle" /\ Valid(contract) /\ status # "torn"
  /\ opc' = to /\ Racing(Owner)
  /\ UNCHANGED <<fileVars, worldVars, fpc, fdoc, fbuf, fend, halted>>

(* set_status sets the status and the reason of what it read, which is all *)
(* of the file the gates look at.                                          *)
OwnerWrites ==
  /\ opc # "idle" /\ status' = opc /\ opc' = "idle"
  /\ halted' = (opc # "active")
  /\ UNCHANGED <<contract, worldVars, fpc, fdoc, fbuf, fend, raced>>

(* The document is a file; somebody opens it in an editor.                 *)
Edit(doc) ==
  /\ contract # NoContract /\ contract' = doc
  /\ UNCHANGED <<status, worldVars, fpc, fdoc, fbuf, fend, opc, halted,
                 raced>>

-----------------------------------------------------------------------------
(* Around them.                                                            *)

OtherTask(b) ==
  /\ Len(tasks) < MaxTasks
  /\ tasks' = Append(tasks, [playbook |-> b, fired |-> FALSE])
  /\ UNCHANGED <<fileVars, match, aged, fpc, fdoc, fbuf, fend, opc,
                 halted, raced>>

Age ==
  /\ aged < Len(tasks) /\ aged' = aged + 1
  /\ UNCHANGED <<fileVars, match, tasks, fpc, fdoc, fbuf, fend, opc,
                 halted, raced>>

(* A pack is installed or removed, or jarvis is upgraded.                  *)
CatalogMoves(b) ==
  /\ b # match /\ match' = b
  /\ UNCHANGED <<fileVars, tasks, aged, fpc, fdoc, fbuf, fend, opc,
                 halted, raced>>

CharterNext ==
  \/ \E p \in Firings :
       \/ Fire(p) \/ NotActive(p) \/ Clear(p) \/ Refuse(p) \/ WritePause(p)
       \/ Begin(p) \/ NoTask(p) \/ DryRun(p) \/ End(p)
       \/ Record(p) \/ WriteRecord(p) \/ Crash(p)
  \/ \E doc \in Contracts : Install(doc) \/ Edit(doc)
  \/ \E to \in {"active", "paused", "revoked"} : Ask(to)
  \/ OwnerWrites
  \/ \E b \in Playbooks : OtherTask(b)
  \/ Age
  \/ \E b \in Playbooks \cup {NoPlaybook} : CatalogMoves(b)

CharterSpec == CharterInit /\ [][CharterNext]_charterVars

-----------------------------------------------------------------------------
CharterTypeOK ==
  /\ contract \in Contracts \cup {NoContract} /\ status \in Statuses
  /\ match \in Playbooks \cup {NoPlaybook}
  /\ tasks \in Seq([playbook : Playbooks, fired : BOOLEAN])
  /\ aged \in 0..Len(tasks)
  /\ fpc \in [Firings -> {"idle", "loaded", "cleared", "pausing", "running",
                          "ended", "recording"}]
  /\ fdoc \in [Firings -> Contracts \cup {NoContract}]
  /\ fbuf \in [Firings -> Statuses \ {"torn"}]
  /\ fend \in [Firings -> BOOLEAN]
  /\ opc \in {"idle", "active", "paused", "revoked"}
  /\ halted \in BOOLEAN /\ raced \in BOOLEAN

(* A pause, a revocation or a failed firing holds until the owner resumes  *)
(* or installs the charter again: no firing that was already on its way    *)
(* brings it back (record_firing and set_status rewrite the whole file),   *)
(* unless two of these changes overlapped.                                 *)
HaltHolds == halted /\ ~raced => status # "active"

(* The playbooks every contract that might be on file allows.              *)
Always == {b \in Playbooks : \A doc \in Contracts : Valid(doc) => b \in doc.allow}

(* monthly_run_budget: within the window no more firings are begun than    *)
(* the budget allows, and one more for every other firing that was cleared *)
(* at the same moment.  True while the journal is no longer than the       *)
(* newest tasks count_recent_runs looks at; beyond them firings are        *)
(* forgotten early.                                                        *)
BudgetHolds ==
  Len(tasks) <= Window =>
    Cardinality({i \in DOMAIN tasks : /\ i > aged /\ tasks[i].fired
                                      /\ tasks[i].playbook \in Always})
      <= Budget + Cardinality(Firings) - 1
=============================================================================
