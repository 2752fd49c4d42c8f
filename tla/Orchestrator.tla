---------------------------- MODULE Orchestrator ----------------------------
(***************************************************************************)
(* The execution kernel: src/jarvis/core/orchestrator.py with the journal  *)
(* it writes (journal/sqlite.py), the approval policy (safety/approval.py) *)
(* and the subprocess runner (execution/runner.py).                        *)
(*                                                                         *)
(* Several processes drive an Orchestrator over one journal: the command   *)
(* line, the stdio server, a timer, and the request threads of `jarvis     *)
(* serve`.  Every journal call commits on its own, so a step of a process  *)
(* here ends at a commit or where another process, a signal or a death can *)
(* come between.                                                           *)
(***************************************************************************)
EXTENDS Integers, FiniteSets

CONSTANTS
  Procs,     \* the processes and threads that drive an Orchestrator
  Doorway,   \* those of them that are request threads of `jarvis serve`
  Tasks,     \* the task ids that may be drawn: bounds a behaviour
  NoTask,    \* no task id
  MaxSteps,  \* the longest plan
  Requests,  \* the plans a request or an LLM proposal can build
  Crashes    \* whether processes may die

UndoStatus == {"none_needed", "available", "unavailable"}

(* What the kernel knows of a plan once it is built.  "intent" is a plan   *)
(* of run_intent, "plan" one of run_plan, "undo" one rebuilt from an       *)
(* artifact; "none" is no plan yet.                                        *)
Plans == [kind : {"none", "intent", "plan", "undo"},
          pbTier : 0..3,              \* the playbook's tier
          stepTier : 0..3,            \* the highest tier of a step
          n : 1..MaxSteps,            \* number of steps
          optional : SUBSET (1..MaxSteps),
          undo : UndoStatus,
          undoTier : 0..3,            \* the highest tier of a reverse step
          undoN : 1..MaxSteps,        \* number of reverse steps
          rollback : BOOLEAN,         \* --auto-rollback
          cautiousOk : BOOLEAN]       \* --cautious-ok

NoPlan == [kind |-> "none", pbTier |-> 0, stepTier |-> 0, n |-> 1,
           optional |-> {}, undo |-> "none_needed", undoTier |-> 0,
           undoN |-> 1, rollback |-> FALSE, cautiousOk |-> FALSE]

(* run_intent takes the playbook's own tier into account, run_plan only    *)
(* its steps' tiers.                                                       *)
TierOf(r) ==
  IF r.kind = "intent" /\ r.pbTier > r.stepTier THEN r.pbTier ELSE r.stepTier

(* The catalog gives no reverse step a tier above the plan it reverses.    *)
ASSUME RequestsAssumption ==
  /\ Requests \subseteq Plans
  /\ \A r \in Requests : /\ r.kind \in {"intent", "plan"}
                         /\ r.undo = "available" => r.undoTier <= TierOf(r)

ASSUME IdsAssumption ==
  /\ NoTask \notin Tasks
  /\ Doorway \subseteq Procs
  /\ MaxSteps \in Nat \ {0}
  /\ Crashes \in BOOLEAN

(* Which plans leave an undo artifact behind.                              *)
Storable(r) ==
  /\ r.undo = "available"
  /\ (IF r.kind = "intent" THEN r.pbTier ELSE r.stepTier) >= 1

(* The plan an artifact is rebuilt into: every reverse step is required.   *)
UndoOf(r) ==
  [NoPlan EXCEPT !.kind = "undo", !.pbTier = r.undoTier,
                 !.stepTier = r.undoTier, !.n = r.undoN]

Labels == {"idle", "build", "gate", "consent", "refuse", "refused", "begin",
           "snapshot", "install", "loop", "child", "verify", "settle",
           "rollback", "check", "applied", "undone", "finish"}
Verdict == {"none", "succeeded", "failed", "interrupted"}
Status == {"none", "running", "refused", "succeeded", "failed",
           "interrupted", "undone"}
Answer == {"none", "refused", "failed", "succeeded", "interrupted", "dropped"}

VARIABLES
  \* the journal, which survives a process
  status,    \* tasks.status, "none" without a row
  steps,     \* the rows of steps
  artifact,  \* undo_artifacts.status, "none" without a row
  noted,     \* the tasks with a snapshot row in task_meta
  cautious,  \* the owner's cautious-mode marker file
  \* what was asked, and what became of it
  plan,      \* the plan built for a task id
  target,    \* the task an undo task reverses
  granted,   \* the tasks for which the policy let a tier-2 plan pass
  spawned,   \* the steps of a task whose command was started
  answer,    \* what the caller was told
  \* the processes
  pc, cur, idx,
  term,      \* the status `_execute` and VERIFY arrived at
  intr,      \* the kill-switch flag
  saved      \* status of the task being rolled back ("none" outside)

journalVars == <<status, steps, artifact, noted>>
askVars == <<plan, target, granted, spawned, answer>>
procVars == <<pc, cur, idx, term, intr, saved>>
vars == <<status, steps, artifact, noted, cautious, plan, target, granted,
          spawned, answer, pc, cur, idx, term, intr, saved>>

Init ==
  /\ status = [t \in Tasks |-> "none"]
  /\ steps = [t \in Tasks |-> [i \in 1..MaxSteps |-> "none"]]
  /\ artifact = [t \in Tasks |-> "none"]
  /\ noted = {}
  /\ cautious \in BOOLEAN
  /\ plan = [t \in Tasks |-> NoPlan]
  /\ target = [t \in Tasks |-> NoTask]
  /\ granted = {}
  /\ spawned = [t \in Tasks |-> {}]
  /\ answer = [t \in Tasks |-> "none"]
  /\ pc = [p \in Procs |-> "idle"]
  /\ cur = [p \in Procs |-> NoTask]
  /\ idx = [p \in Procs |-> 1]
  /\ term = [p \in Procs |-> "none"]
  /\ intr = [p \in Procs |-> FALSE]
  /\ saved = [p \in Procs |-> "none"]

-----------------------------------------------------------------------------
(* Shared pieces of the handlers.                                          *)

Go(p, label) == pc' = [pc EXCEPT ![p] = label]

RollingBack(p) == saved[p] # "none"

(* Mutant: what became of a rollback is told to the caller of the request. *)
Mut_LeaveTellsTarget(p, a) ==
  /\ answer' = [answer EXCEPT ![IF RollingBack(p) THEN target[cur[p]] ELSE cur[p]] = a]
  /\ idx' = [idx EXCEPT ![p] = 1]
  /\ intr' = [intr EXCEPT ![p] = FALSE]
  /\ saved' = [saved EXCEPT ![p] = "none"]
  /\ IF RollingBack(p)
       THEN /\ Go(p, "finish")
            /\ cur' = [cur EXCEPT ![p] = target[cur[p]]]
            /\ term' = [term EXCEPT ![p] = saved[p]]
       ELSE /\ Go(p, "idle")
            /\ cur' = [cur EXCEPT ![p] = NoTask]
            /\ term' = [term EXCEPT ![p] = "none"]

(* Mutant: the artifact is stored after the rollback instead of before it. *)
Mut_LeaveSettlesAgain(p, a) ==
  /\ answer' = [answer EXCEPT ![cur[p]] = a]
  /\ idx' = [idx EXCEPT ![p] = 1]
  /\ intr' = [intr EXCEPT ![p] = FALSE]
  /\ saved' = [saved EXCEPT ![p] = "none"]
  /\ IF RollingBack(p)
       THEN /\ Go(p, "settle")
            /\ cur' = [cur EXCEPT ![p] = target[cur[p]]]
            /\ term' = [term EXCEPT ![p] = saved[p]]
       ELSE /\ Go(p, "idle")
            /\ cur' = [cur EXCEPT ![p] = NoTask]
            /\ term' = [term EXCEPT ![p] = "none"]

(* Mutant: a rollback ends the request it was started for.                 *)
Mut_LeaveForgetsTarget(p, a) ==
  /\ answer' = [answer EXCEPT ![cur[p]] = a]
  /\ idx' = [idx EXCEPT ![p] = 1]
  /\ intr' = [intr EXCEPT ![p] = FALSE]
  /\ saved' = [saved EXCEPT ![p] = "none"]
  /\ Go(p, "idle")
  /\ cur' = [cur EXCEPT ![p] = NoTask]
  /\ term' = [term EXCEPT ![p] = "none"]

(* The end of a handler in which the caller is told `a`; a rollback goes   *)
(* back to the task it was started for instead.                            *)
Leave(p, a) ==
  /\ answer' = [answer EXCEPT ![cur[p]] = a]
  /\ idx' = [idx EXCEPT ![p] = 1]
  /\ intr' = [intr EXCEPT ![p] = FALSE]
  /\ saved' = [saved EXCEPT ![p] = "none"]
  /\ IF RollingBack(p)
       THEN /\ Go(p, "finish")
            /\ cur' = [cur EXCEPT ![p] = target[cur[p]]]
            /\ term' = [term EXCEPT ![p] = saved[p]]
       ELSE /\ Go(p, "idle")
            /\ cur' = [cur EXCEPT ![p] = NoTask]
            /\ term' = [term EXCEPT ![p] = "none"]

(* Bound: task ids come from Tasks, and one is kept for every process that *)
(* may still need an id for an automatic rollback.                         *)
Fresh == {t \in Tasks : plan[t].kind = "none"}
MayRollBack(p) ==
  pc[p] # "idle" /\ plan[cur[p]].rollback /\ pc[p] # "finish" /\ ~RollingBack(p)
CanDraw(extra) ==
  Cardinality(Fresh) > Cardinality({p \in Procs : MayRollBack(p)}) + extra

-----------------------------------------------------------------------------
(* run_intent and run_plan up to the journal.                              *)

Submit(p, t, r) ==
  /\ pc[p] = "idle"
  /\ t \in Fresh
  /\ CanDraw(IF r.rollback THEN 1 ELSE 0)
  /\ p \in Doorway => r.kind = "intent" /\ ~r.rollback /\ ~r.cautiousOk
  /\ plan' = [plan EXCEPT ![t] = r]
  /\ cur' = [cur EXCEPT ![p] = t]
  /\ Go(p, "build")
  /\ UNCHANGED <<journalVars, cautious, target, granted, spawned, answer,
                 idx, term, intr, saved>>

(* build, check_argv and undo raise nothing: the plan is ready.            *)
Built(p) ==
  /\ pc[p] = "build"
  /\ Go(p, "gate")
  /\ UNCHANGED <<journalVars, cautious, askVars, cur, idx, term, intr, saved>>

(* Invalid input or a static safety check refuses the plan, or it is       *)
(* unsupported on this machine; nothing is journaled.                      *)
NotBuilt(p) ==
  /\ pc[p] = "build"
  /\ \E a \in {"refused", "failed"} : Leave(p, a)
  /\ UNCHANGED <<journalVars, cautious, plan, target, granted, spawned>>

CautiousBlocks(r) == TierOf(r) >= 2 /\ ~r.cautiousOk /\ cautious

Gate(p) ==
  /\ pc[p] = "gate"
  /\ Go(p, IF CautiousBlocks(plan[cur[p]]) THEN "refuse" ELSE "consent")
  /\ UNCHANGED <<journalVars, cautious, askVars, cur, idx, term, intr, saved>>

(* Mutant: --yes covers every tier.                                        *)
Mut_MayPass(tier) == tier <= 3

(* ApprovalPolicy.decide: tier 3 never passes, tiers 0 and 1 always do,    *)
(* tier 2 by --yes, allow:true or the answer at the prompt.                *)
MayPass(tier) == tier <= 2
MustPass(tier) == tier <= 1

Approve(p) ==
  /\ pc[p] = "consent"
  /\ LET tier == TierOf(plan[cur[p]])
     IN  /\ MayPass(tier)
         /\ granted' = IF MustPass(tier) THEN granted ELSE granted \cup {cur[p]}
  /\ Go(p, "begin")
  /\ UNCHANGED <<journalVars, cautious, plan, target, spawned, answer, cur, idx,
                 term, intr, saved>>

(* A refused undo is not journaled, any other refusal of the policy is.    *)
Decline(p) ==
  /\ pc[p] = "consent"
  /\ ~MustPass(TierOf(plan[cur[p]]))
  /\ IF plan[cur[p]].kind = "undo"
       THEN Leave(p, "refused")
       ELSE Go(p, "refuse") /\ UNCHANGED <<answer, cur, idx, term, intr, saved>>
  /\ UNCHANGED <<journalVars, cautious, plan, target, granted, spawned>>

(* _refuse_journaled, and its copies in run_plan.                          *)
RefuseBegin(p) ==
  /\ pc[p] = "refuse"
  /\ status' = [status EXCEPT ![cur[p]] = "running"]
  /\ Go(p, "refused")
  /\ UNCHANGED <<steps, artifact, noted, cautious, askVars, cur, idx, term, intr, saved>>

RefuseEnd(p) ==
  /\ pc[p] = "refused"
  /\ LET t == cur[p]
         r == plan[t]
     IN  /\ status' = [status EXCEPT ![t] = "refused"]
         /\ steps' = [steps EXCEPT ![t] =
              [i \in 1..MaxSteps |->
                 IF r.kind = "intent" /\ i <= r.n THEN "skipped" ELSE "none"]]
  /\ Leave(p, "refused")
  /\ UNCHANGED <<artifact, noted, cautious, plan, target, granted, spawned>>

(* Mutant: no snapshot is attempted for an LLM plan.                       *)
Mut_BeginUnsnapped(p) ==
  /\ pc[p] = "begin"
  /\ status' = [status EXCEPT ![cur[p]] = "running"]
  /\ Go(p, IF plan[cur[p]].kind \in {"plan", "undo"} THEN "install" ELSE "snapshot")
  /\ UNCHANGED <<steps, artifact, noted, cautious, askVars, cur, idx, term,
                 intr, saved>>

(* begin_task, the first record of a task that may act.                    *)
Begin(p) ==
  /\ pc[p] = "begin"
  /\ status' = [status EXCEPT ![cur[p]] = "running"]
  /\ Go(p, IF plan[cur[p]].kind = "undo" THEN "install" ELSE "snapshot")
  /\ UNCHANGED <<steps, artifact, noted, cautious, askVars, cur, idx, term,
                 intr, saved>>

(* _preflight_snapshot: the attempt never blocks and is always noted.      *)
Snapshot(p) ==
  /\ pc[p] = "snapshot"
  /\ noted' = IF TierOf(plan[cur[p]]) >= 2 THEN noted \cup {cur[p]} ELSE noted
  /\ Go(p, "install")
  /\ UNCHANGED <<status, steps, artifact, cautious, askVars, cur, idx, term,
                 intr, saved>>

-----------------------------------------------------------------------------
(* _execute.                                                               *)

(* _install_handlers, which only the main thread of a process may do.      *)
Install(p) ==
  /\ pc[p] = "install"
  /\ p \notin Doorway
  /\ intr' = [intr EXCEPT ![p] = FALSE]
  /\ idx' = [idx EXCEPT ![p] = 1]
  /\ Go(p, "loop")
  /\ UNCHANGED <<journalVars, cautious, askVars, cur, term, saved>>

(* In a request thread signal.signal raises ValueError out of run_intent,  *)
(* and out of the HTTP handler.                                            *)
InstallRaises(p) ==
  /\ pc[p] = "install"
  /\ p \in Doorway
  /\ Leave(p, "dropped")
  /\ UNCHANGED <<journalVars, cautious, plan, target, granted, spawned>>

(* Mutant: only the kill-switch stops a plan, not a failed step.           *)
Mut_Stopped(p) == intr[p]

InLoop(p) == pc[p] = "loop" /\ idx[p] <= plan[cur[p]].n
Stopped(p) == intr[p] \/ term[p] # "none"

RecordStep(p, row) ==
  /\ steps' = [steps EXCEPT ![cur[p]][idx[p]] = row]
  /\ idx' = [idx EXCEPT ![p] = idx[p] + 1]

SkipStep(p) ==
  /\ InLoop(p)
  /\ Stopped(p)
  /\ RecordStep(p, "skipped")
  /\ UNCHANGED <<status, artifact, noted, cautious, askVars, pc, cur, term,
                 intr, saved>>

(* The command is started; what it does to the machine may happen from now *)
(* on, and goes on in its own session if this process dies.                *)
SpawnStep(p) ==
  /\ InLoop(p)
  /\ ~Stopped(p)
  /\ spawned' = [spawned EXCEPT ![cur[p]] = @ \cup {idx[p]}]
  /\ Go(p, "child")
  /\ UNCHANGED <<journalVars, cautious, plan, target, granted, answer, cur,
                 idx, term, intr, saved>>

(* Mutant: the test of `optional` is inverted.                             *)
Mut_Bearing(r, i, end) ==
  CASE end = "killed" -> "interrupted"
    [] end = "failed" /\ i \in r.optional -> "failed"
    [] OTHER -> "none"

(* How a step that did not succeed bears on the task: a command ended by a *)
(* signal (the kill-switch, the runner's own timeout, anyone) interrupts   *)
(* it even if the step is optional.                                        *)
Bearing(r, i, end) ==
  CASE end = "killed" -> "interrupted"
    [] end = "failed" /\ i \notin r.optional -> "failed"
    [] OTHER -> "none"

EndStep(p, end) ==
  /\ RecordStep(p, IF end = "ok" THEN "succeeded" ELSE "failed")
  /\ term' = [term EXCEPT ![p] = Bearing(plan[cur[p]], idx[p], end)]
  /\ Go(p, "loop")
  /\ UNCHANGED <<status, artifact, noted, cautious, askVars, cur, intr, saved>>

(* runner.run raises before the command is started.                        *)
NotStarted(p) ==
  /\ InLoop(p)
  /\ ~Stopped(p)
  /\ EndStep(p, "failed")

ChildEnds(p) ==
  /\ pc[p] = "child"
  /\ \E end \in {"ok", "failed", "killed"} : EndStep(p, end)

(* The kill-switch while the handlers are installed; the command that runs *)
(* is terminated and ends as it may.                                       *)
Signal(p) ==
  /\ pc[p] \in {"loop", "child"}
  /\ ~intr[p]
  /\ intr' = [intr EXCEPT ![p] = TRUE]
  /\ UNCHANGED <<journalVars, cautious, askVars, pc, cur, idx, term, saved>>

(* Mutant: an undo consumes the artifact whatever became of its steps.     *)
Mut_LoopEnds(p) ==
  /\ pc[p] = "loop"
  /\ idx[p] > plan[cur[p]].n
  /\ Go(p, IF plan[cur[p]].kind = "undo" THEN "applied"
           ELSE IF term[p] = "none" THEN "verify" ELSE "settle")
  /\ UNCHANGED <<journalVars, cautious, askVars, cur, idx, term, intr, saved>>

(* The handlers are restored.  Without a verdict the plan is verified,     *)
(* else a request is settled and an undo finished.                         *)
LoopEnds(p) ==
  /\ pc[p] = "loop"
  /\ idx[p] > plan[cur[p]].n
  /\ Go(p, IF term[p] = "none" THEN "verify"
           ELSE IF plan[cur[p]].kind = "undo" THEN "finish" ELSE "settle")
  /\ UNCHANGED <<journalVars, cautious, askVars, cur, idx, term, intr, saved>>

-----------------------------------------------------------------------------
(* VERIFY, the undo artifact and the end of a request.                     *)

Verify(p) ==
  /\ pc[p] = "verify"
  /\ \E v \in {"succeeded", "failed"} :
       /\ term' = [term EXCEPT ![p] = v]
       /\ Go(p, IF plan[cur[p]].kind # "undo" THEN "settle"
                ELSE IF v = "succeeded" THEN "applied" ELSE "finish")
  /\ UNCHANGED <<journalVars, cautious, askVars, cur, idx, intr, saved>>

(* run_intent turns an exception of the verification into a failure;       *)
(* run_plan and undo let it out.                                           *)
VerifyRaises(p) ==
  /\ pc[p] = "verify"
  /\ plan[cur[p]].kind \in {"plan", "undo"}
  /\ Leave(p, "dropped")
  /\ UNCHANGED <<journalVars, cautious, plan, target, granted, spawned>>

RollsBack(p) ==
  /\ plan[cur[p]].rollback
  /\ term[p] \in {"failed", "interrupted"}
  /\ artifact'[cur[p]] # "none"

(* Mutant: a request that failed is tried once more after its artifact was *)
(* stored.                                                                 *)
Mut_SettleRetries(p) ==
  /\ pc[p] = "settle"
  /\ artifact' = IF Storable(plan[cur[p]])
                   THEN [artifact EXCEPT ![cur[p]] = "available"] ELSE artifact
  /\ term' = [term EXCEPT ![p] = "none"]
  /\ Go(p, IF term[p] = "failed" THEN "install" ELSE "finish")
  /\ UNCHANGED <<status, steps, noted, cautious, askVars, cur, idx, intr,
                 saved>>

(* Mutant: the artifact of a request that was interrupted is not stored.   *)
Mut_SettleDropsArtifact(p) ==
  /\ pc[p] = "settle"
  /\ artifact' = IF Storable(plan[cur[p]]) /\ term[p] # "interrupted"
                   THEN [artifact EXCEPT ![cur[p]] = "available"] ELSE artifact
  /\ Go(p, IF RollsBack(p) THEN "rollback" ELSE "finish")
  /\ UNCHANGED <<status, steps, noted, cautious, askVars, cur, idx, term, intr,
                 saved>>

Settle(p) ==
  /\ pc[p] = "settle"
  /\ artifact' = IF Storable(plan[cur[p]])
                   THEN [artifact EXCEPT ![cur[p]] = "available"] ELSE artifact
  /\ Go(p, IF RollsBack(p) THEN "rollback" ELSE "finish")
  /\ UNCHANGED <<status, steps, noted, cautious, askVars, cur, idx, term, intr,
                 saved>>

Finish(p) ==
  /\ pc[p] = "finish"
  /\ status' = [status EXCEPT ![cur[p]] = term[p]]
  /\ Leave(p, term[p])
  /\ UNCHANGED <<steps, artifact, noted, cautious, plan, target, granted,
                 spawned>>

-----------------------------------------------------------------------------
(* undo, asked for or run by _maybe_auto_rollback.                         *)

AskUndo(p, t, u) ==
  /\ pc[p] = "idle"
  /\ p \notin Doorway
  /\ u \in Fresh /\ t \in Tasks \ Fresh
  /\ CanDraw(0)
  /\ plan' = [plan EXCEPT ![u] = UndoOf(plan[t])]
  /\ target' = [target EXCEPT ![u] = t]
  /\ cur' = [cur EXCEPT ![p] = u]
  /\ Go(p, "check")
  /\ UNCHANGED <<journalVars, cautious, granted, spawned, answer, idx, term,
                 intr, saved>>

Rollback(p, u) ==
  /\ pc[p] = "rollback"
  /\ u \in Fresh
  /\ plan' = [plan EXCEPT ![u] = UndoOf(plan[cur[p]])]
  /\ target' = [target EXCEPT ![u] = cur[p]]
  /\ saved' = [saved EXCEPT ![p] = term[p]]
  /\ term' = [term EXCEPT ![p] = "none"]
  /\ cur' = [cur EXCEPT ![p] = u]
  /\ Go(p, "check")
  /\ UNCHANGED <<journalVars, cautious, granted, spawned, answer, idx, intr>>

Reversible(t) == artifact[t] = "available" /\ status[t] \notin {"none", "undone"}

(* A rollback runs under the consent given to the task it reverses.        *)
CheckUndo(p) ==
  /\ pc[p] = "check"
  /\ Reversible(target[cur[p]])
  /\ Go(p, IF RollingBack(p) THEN "begin" ELSE "consent")
  /\ UNCHANGED <<journalVars, cautious, askVars, cur, idx, term, intr, saved>>

(* No artifact to apply, or its payload fails the revalidation.            *)
RefuseUndo(p) ==
  /\ pc[p] = "check"
  /\ Leave(p, "refused")
  /\ UNCHANGED <<journalVars, cautious, plan, target, granted, spawned>>

MarkApplied(p) ==
  /\ pc[p] = "applied"
  /\ artifact' = [artifact EXCEPT ![target[cur[p]]] = "applied"]
  /\ Go(p, "undone")
  /\ UNCHANGED <<status, steps, noted, cautious, askVars, cur, idx, term, intr,
                 saved>>

MarkUndone(p) ==
  /\ pc[p] = "undone"
  /\ status' = [status EXCEPT ![target[cur[p]]] = "undone"]
  /\ Go(p, "finish")
  /\ UNCHANGED <<steps, artifact, noted, cautious, askVars, cur, idx, term,
                 intr, saved>>

-----------------------------------------------------------------------------
(* The surroundings.                                                       *)

(* A process dies: a signal outside the handlers' window, SIGKILL, an      *)
(* exception of the journal.  The journal keeps what was committed.        *)
Die(p) ==
  /\ Crashes
  /\ pc[p] # "idle"
  /\ Go(p, "idle")
  /\ cur' = [cur EXCEPT ![p] = NoTask]
  /\ idx' = [idx EXCEPT ![p] = 1]
  /\ term' = [term EXCEPT ![p] = "none"]
  /\ intr' = [intr EXCEPT ![p] = FALSE]
  /\ saved' = [saved EXCEPT ![p] = "none"]
  /\ UNCHANGED <<journalVars, cautious, askVars>>

(* jarvis cautious on|off.                                                 *)
ToggleCautious ==
  /\ cautious' = ~cautious
  /\ UNCHANGED <<journalVars, askVars, procVars>>

(* What a process does by itself once it is asked.                         *)
Step(p) ==
  \/ Built(p) \/ NotBuilt(p) \/ Gate(p) \/ Approve(p) \/ Decline(p)
  \/ RefuseBegin(p) \/ RefuseEnd(p) \/ Begin(p) \/ Snapshot(p)
  \/ Install(p) \/ InstallRaises(p) \/ SkipStep(p) \/ SpawnStep(p)
  \/ NotStarted(p) \/ ChildEnds(p) \/ LoopEnds(p) \/ Verify(p)
  \/ VerifyRaises(p) \/ Settle(p) \/ Finish(p)
  \/ (\E u \in Tasks : Rollback(p, u)) \/ CheckUndo(p) \/ RefuseUndo(p)
  \/ MarkApplied(p) \/ MarkUndone(p)

Ask(p) ==
  \/ \E t \in Tasks, r \in Requests : Submit(p, t, r)
  \/ \E t, u \in Tasks : AskUndo(p, t, u)

Next ==
  \/ \E p \in Procs : Step(p) \/ Ask(p) \/ Signal(p) \/ Die(p)
  \/ ToggleCautious

Spec == Init /\ [][Next]_vars

(* A process that was asked goes on: the runner's timeout ends every       *)
(* command, and the prompt is answered.  Nobody has to ask, signal or die. *)
FairSpec == Spec /\ \A p \in Procs : WF_vars(Step(p))

-----------------------------------------------------------------------------
(* Properties.                                                             *)

TypeOK ==
  /\ status \in [Tasks -> Status]
  /\ steps \in [Tasks -> [1..MaxSteps -> {"none", "succeeded", "failed", "skipped"}]]
  /\ artifact \in [Tasks -> {"none", "available", "applied"}]
  /\ noted \subseteq Tasks
  /\ cautious \in BOOLEAN
  /\ plan \in [Tasks -> Plans]
  /\ target \in [Tasks -> Tasks \cup {NoTask}]
  /\ granted \subseteq Tasks
  /\ spawned \in [Tasks -> SUBSET (1..MaxSteps)]
  /\ answer \in [Tasks -> Answer]
  /\ pc \in [Procs -> Labels]
  /\ cur \in [Procs -> Tasks \cup {NoTask}]
  /\ idx \in [Procs -> 1..(MaxSteps + 1)]
  /\ term \in [Procs -> Verdict]
  /\ intr \in [Procs -> BOOLEAN]
  /\ saved \in [Procs -> Verdict]

Finished(t) == status[t] \in {"succeeded", "failed", "interrupted"}

(* No command of a task starts unless its tier needs no consent, or the    *)
(* policy let the task pass, or the task rolls back one that it let pass:  *)
(* skip_consent, the early refusals and the two ways of computing a tier   *)
(* leave no way round ApprovalPolicy.decide, and tier 3 never runs.        *)
EffectsAuthorised ==
  \A t \in Tasks : spawned[t] # {} =>
    \/ TierOf(plan[t]) <= 1
    \/ /\ TierOf(plan[t]) = 2
       /\ \/ t \in granted
          \/ target[t] \in granted /\ plan[target[t]].rollback

(* A request that was refused, in the journal or to its caller, has not    *)
(* started any command.                                                    *)
RefusedIsInert ==
  \A t \in Tasks : status[t] = "refused" \/ answer[t] = "refused" => spawned[t] = {}

(* Whatever a process that died has done is in the journal: a command      *)
(* starts only for a task with a row, and at tier 2 only once the snapshot *)
(* attempt was noted (undo takes no snapshot).                             *)
EffectsJournaled ==
  \A t \in Tasks : spawned[t] # {} =>
    /\ status[t] # "none"
    /\ TierOf(plan[t]) >= 2 /\ plan[t].kind # "undo" => t \in noted

(* The record of a finished task is complete: every step of its plan has a *)
(* row, the rows of the steps that ran are those whose command started or  *)
(* could not start, and a plan that has a reverse path has an artifact.    *)
FinishedIsComplete ==
  \A t \in Tasks : Finished(t) =>
    /\ \A i \in 1..plan[t].n :
         /\ steps[t][i] # "none"
         /\ steps[t][i] = "succeeded" => i \in spawned[t]
         /\ i \in spawned[t] => steps[t][i] # "skipped"
    /\ Storable(plan[t]) => artifact[t] # "none"

(* After a required step failed no later step of the task starts.          *)
NothingAfterFailure ==
  \A t \in Tasks : \A i \in 1..plan[t].n :
    steps[t][i] = "failed" /\ i \notin plan[t].optional =>
      \A j \in spawned[t] : j <= i

(* A task the journal calls succeeded has no failed required step, and the *)
(* caller of a task hears the status the journal gives it (until an undo). *)
JournalIsHonest ==
  \A t \in Tasks :
    /\ status[t] = "succeeded" =>
         \A i \in 1..plan[t].n : steps[t][i] = "failed" => i \in plan[t].optional
    /\ status[t] # "none" /\ answer[t] \notin {"none", "dropped"} =>
         status[t] \in {answer[t], "undone"}

(* A task is undone only with its artifact consumed, and a consumed        *)
(* artifact always has an undo task behind it that recorded every reverse  *)
(* step as succeeded or skipped, and that was not refused and has not      *)
(* failed, whoever died since.                                             *)
UndoneIsBacked ==
  \A t \in Tasks :
    /\ status[t] = "undone" => artifact[t] = "applied"
    /\ artifact[t] = "applied" =>
         \E u \in Tasks :
           /\ target[u] = t
           /\ status[u] \in {"running", "succeeded"}
           /\ \A i \in 1..plan[u].n : steps[u][i] \in {"succeeded", "skipped"}

HistoryStep ==
  \A t \in Tasks :
    /\ artifact[t] = "applied" => artifact'[t] = "applied"
    /\ artifact[t] = "available" => artifact'[t] # "none"
    /\ status[t] = "refused" => status'[t] = "refused"

(* An artifact is never made available again, so a consumed one stays so,  *)
(* and a refusal is final.                                                 *)
HistoryIsKept == [][HistoryStep]_vars

PhaseOf(st) == IF st = "none" THEN "absent"
               ELSE IF st = "running" THEN "open"
               ELSE IF st = "refused" THEN "refused" ELSE "closed"
ReversalOf(art) == IF art = "none" THEN "none"
                   ELSE IF art = "available" THEN "offered" ELSE "spent"

(* The kernel implements the ledger: in particular a task acts only while  *)
(* it is open and has no artifact yet, and a refused one never does.       *)
Ledger == INSTANCE TaskLedger WITH
  phase <- [t \in Tasks |-> PhaseOf(status[t])],
  acted <- {t \in Tasks : spawned[t] # {}},
  reversal <- [t \in Tasks |-> ReversalOf(artifact[t])]
LedgerSpec == Ledger!Spec

(* A task of run_intent that was begun does not stay "running": whatever   *)
(* its commands, its verification and an automatic rollback do, the        *)
(* journal gets its final status, unless the caller was cut off.           *)
IntentsFinish ==
  \A t \in Tasks :
    status[t] = "running" /\ plan[t].kind = "intent" ~>
      status[t] # "running" \/ answer[t] = "dropped"
=============================================================================
