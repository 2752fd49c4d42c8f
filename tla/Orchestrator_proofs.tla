------------------------ MODULE Orchestrator_proofs ------------------------
(***************************************************************************)
(* Proofs about the execution kernel, for any number of processes, tasks   *)
(* and steps and for any requests that satisfy RequestsAssumption.         *)
(***************************************************************************)
EXTENDS OrchestratorInv, TLAPS

USE DEF UndoStatus

(* No plan is of the type of a plan.                                       *)
LEMMA NoPlanType == NoPlan \in Plans
  BY IdsAssumption DEF NoPlan, Plans

(* An artifact is rebuilt into a plan.                                     *)
LEMMA UndoOfType == ASSUME NEW r \in Plans PROVE UndoOf(r) \in Plans
  BY NoPlanType DEF UndoOf, NoPlan, Plans

(* The handlers' common end keeps the types.                               *)
LEMMA LeaveType ==
  ASSUME TypeOK, NEW p \in Procs, NEW a \in Answer, Leave(p, a),
         cur[p] \in Tasks, RollingBack(p) => target[cur[p]] \in Tasks
  PROVE  /\ answer' \in [Tasks -> Answer]
         /\ pc' \in [Procs -> Labels]
         /\ cur' \in [Procs -> Tasks \cup {NoTask}]
         /\ idx' \in [Procs -> 1..(MaxSteps + 1)]
         /\ term' \in [Procs -> Verdict]
         /\ intr' \in [Procs -> BOOLEAN]
         /\ saved' \in [Procs -> Verdict]
<1>1. /\ answer' \in [Tasks -> Answer]
      /\ idx' \in [Procs -> 1..(MaxSteps + 1)]
      /\ intr' \in [Procs -> BOOLEAN]
      /\ saved' \in [Procs -> Verdict]
  BY IdsAssumption DEF TypeOK, Leave, Verdict
<1>2. CASE RollingBack(p)
  <2>1. /\ pc' = [pc EXCEPT ![p] = "finish"]
        /\ cur' = [cur EXCEPT ![p] = target[cur[p]]]
        /\ term' = [term EXCEPT ![p] = saved[p]]
    BY <1>2 DEF Leave, Go
  <2>2. "finish" \in Labels /\ saved[p] \in Verdict /\ target[cur[p]] \in Tasks
    BY <1>2 DEF TypeOK, Labels
  <2> QED
    BY <1>1, <2>1, <2>2 DEF TypeOK
<1>3. CASE ~RollingBack(p)
  <2>1. /\ pc' = [pc EXCEPT ![p] = "idle"]
        /\ cur' = [cur EXCEPT ![p] = NoTask]
        /\ term' = [term EXCEPT ![p] = "none"]
    BY <1>3 DEF Leave, Go
  <2>2. "idle" \in Labels /\ "none" \in Verdict
    BY DEF Labels, Verdict
  <2> QED
    BY <1>1, <2>1, <2>2 DEF TypeOK
<1> QED
  BY <1>2, <1>3

(* What Held says of the task ids, for a process that is not idle.        *)
LEMMA HeldIds ==
  ASSUME Held, NEW p \in Procs, pc[p] # "idle"
  PROVE  cur[p] \in Tasks /\ (RollingBack(p) => target[cur[p]] \in Tasks)
  BY DEF Held

(* A step that ends, or is skipped, is a step of the plan.                 *)
LEMMA EndStepType ==
  ASSUME TypeOK, NEW p \in Procs, cur[p] \in Tasks, idx[p] <= plan[cur[p]].n,
         NEW row \in {"succeeded", "failed", "skipped"}, RecordStep(p, row)
  PROVE  /\ idx[p] \in 1..MaxSteps
         /\ steps' \in [Tasks -> [1..MaxSteps -> {"none", "succeeded", "failed", "skipped"}]]
         /\ idx' \in [Procs -> 1..(MaxSteps + 1)]
<1>1. plan[cur[p]].n \in 1..MaxSteps /\ idx[p] \in 1..(MaxSteps + 1)
  BY DEF TypeOK, Plans
<1>2. idx[p] \in 1..MaxSteps /\ idx[p] + 1 \in 1..(MaxSteps + 1)
  BY <1>1, IdsAssumption
<1>3. idx' = [idx EXCEPT ![p] = idx[p] + 1]
  BY DEF RecordStep
<1>4. idx' \in [Procs -> 1..(MaxSteps + 1)]
  BY <1>2, <1>3 DEF TypeOK
<1>5. steps' = [steps EXCEPT ![cur[p]][idx[p]] = row]
  BY DEF RecordStep
<1>6. steps' \in [Tasks -> [1..MaxSteps -> {"none", "succeeded", "failed", "skipped"}]]
  BY <1>2, <1>5 DEF TypeOK
<1> QED
  BY <1>2, <1>4, <1>6

(* What a step bears on its task is a verdict.                             *)
LEMMA BearingType ==
  ASSUME NEW r, NEW i, NEW end PROVE Bearing(r, i, end) \in Verdict
  BY DEF Bearing, Verdict

(* Every step keeps the types.                                             *)
LEMMA TypeStep ==
  ASSUME TypeOK, Held, [Next]_vars
  PROVE  TypeOK'
<1> USE IdsAssumption DEF TypeOK, journalVars, askVars, procVars, Go
<1>1. ASSUME NEW p \in Procs, NEW t \in Tasks, NEW r \in Requests, Submit(p, t, r)
      PROVE  TypeOK'
  BY <1>1, RequestsAssumption DEF Submit, Labels
<1>2. ASSUME NEW p \in Procs, Built(p)
      PROVE  TypeOK'
  BY <1>2 DEF Built, Labels
<1>3. ASSUME NEW p \in Procs, Gate(p)
      PROVE  TypeOK'
  BY <1>3 DEF Gate, Labels
<1>4. ASSUME NEW p \in Procs, Approve(p)
      PROVE  TypeOK'
  BY <1>4 DEF Approve, Labels, Held
<1>5. ASSUME NEW p \in Procs, RefuseBegin(p)
      PROVE  TypeOK'
  BY <1>5 DEF RefuseBegin, Labels, Status
<1>6. ASSUME NEW p \in Procs, Begin(p)
      PROVE  TypeOK'
  BY <1>6 DEF Begin, Labels, Status
<1>7. ASSUME NEW p \in Procs, Snapshot(p)
      PROVE  TypeOK'
  BY <1>7 DEF Snapshot, Labels, Held
<1>8. ASSUME NEW p \in Procs, Install(p)
      PROVE  TypeOK'
  BY <1>8 DEF Install, Labels
<1>9. ASSUME NEW p \in Procs, SkipStep(p)
      PROVE  TypeOK'
  BY <1>9, EndStepType, HeldIds DEF SkipStep, InLoop
<1>10. ASSUME NEW p \in Procs, SpawnStep(p)
      PROVE  TypeOK'
  <2>1. cur[p] \in Tasks /\ idx[p] \in 1..MaxSteps
    BY <1>10, HeldIds DEF SpawnStep, InLoop, Plans
  <2> QED
    BY <1>10, <2>1 DEF SpawnStep, Labels
<1>11. ASSUME NEW p \in Procs, NotStarted(p)
      PROVE  TypeOK'
  BY <1>11, EndStepType, BearingType, HeldIds DEF NotStarted, EndStep, InLoop, Labels
<1>12. ASSUME NEW p \in Procs, ChildEnds(p)
      PROVE  TypeOK'
  <2>1. PICK end \in {"ok", "failed", "killed"} : EndStep(p, end)
    BY <1>12 DEF ChildEnds
  <2>2. cur[p] \in Tasks /\ idx[p] <= plan[cur[p]].n
    BY <1>12 DEF ChildEnds, Held
  <2>3. PICK row \in {"succeeded", "failed", "skipped"} : RecordStep(p, row)
    BY <2>1 DEF EndStep
  <2>4. /\ steps' \in [Tasks -> [1..MaxSteps -> {"none", "succeeded", "failed", "skipped"}]]
        /\ idx' \in [Procs -> 1..(MaxSteps + 1)]
    <3> HIDE DEF TypeOK
    <3> QED
      BY <2>2, <2>3, EndStepType
  <2> QED
    BY <2>1, <2>4, BearingType DEF EndStep, Labels
<1>13. ASSUME NEW p \in Procs, Signal(p)
      PROVE  TypeOK'
  BY <1>13 DEF Signal
<1>14. ASSUME NEW p \in Procs, LoopEnds(p)
      PROVE  TypeOK'
  BY <1>14 DEF LoopEnds, Labels
<1>15. ASSUME NEW p \in Procs, Verify(p)
      PROVE  TypeOK'
  BY <1>15 DEF Verify, Labels, Verdict
<1>16. ASSUME NEW p \in Procs, Settle(p)
      PROVE  TypeOK'
  BY <1>16 DEF Settle, Labels
<1>17. ASSUME NEW p \in Procs, CheckUndo(p)
      PROVE  TypeOK'
  BY <1>17 DEF CheckUndo, Labels
<1>18. ASSUME NEW p \in Procs, MarkApplied(p)
      PROVE  TypeOK'
  BY <1>18 DEF MarkApplied, Labels
<1>19. ASSUME NEW p \in Procs, MarkUndone(p)
      PROVE  TypeOK'
  BY <1>19 DEF MarkUndone, Labels, Status
<1>20. ASSUME NEW p \in Procs, Die(p)
      PROVE  TypeOK'
  BY <1>20 DEF Die, Labels, Verdict
<1>21. ASSUME NEW p \in Procs, NotBuilt(p)
      PROVE  TypeOK'
  <2>1. PICK a \in Answer : Leave(p, a)
    BY <1>21 DEF NotBuilt, Answer
  <2>2. cur[p] \in Tasks /\ (RollingBack(p) => target[cur[p]] \in Tasks)
    BY <1>21, HeldIds DEF NotBuilt
  <2> QED
    BY <1>21, <2>1, <2>2, LeaveType DEF NotBuilt
<1>22. ASSUME NEW p \in Procs, Decline(p)
      PROVE  TypeOK'
  <2>1. CASE plan[cur[p]].kind = "undo"
    BY <1>22, <2>1, LeaveType, HeldIds DEF Decline, Answer
  <2>2. CASE plan[cur[p]].kind # "undo"
    BY <1>22, <2>2 DEF Decline, Labels
  <2> QED
    BY <2>1, <2>2
<1>23. ASSUME NEW p \in Procs, RefuseEnd(p)
      PROVE  TypeOK'
  BY <1>23, LeaveType, HeldIds DEF RefuseEnd, Status, Answer
<1>24. ASSUME NEW p \in Procs, InstallRaises(p)
      PROVE  TypeOK'
  BY <1>24, LeaveType, HeldIds DEF InstallRaises, Answer
<1>25. ASSUME NEW p \in Procs, VerifyRaises(p)
      PROVE  TypeOK'
  BY <1>25, LeaveType, HeldIds DEF VerifyRaises, Answer
<1>26. ASSUME NEW p \in Procs, Finish(p)
      PROVE  TypeOK'
  BY <1>26, LeaveType, HeldIds DEF Finish, Status, Verdict, Answer
<1>27. ASSUME NEW p \in Procs, RefuseUndo(p)
      PROVE  TypeOK'
  BY <1>27, LeaveType, HeldIds DEF RefuseUndo, Answer
<1>28. ASSUME NEW p \in Procs, NEW t \in Tasks, NEW u \in Tasks, AskUndo(p, t, u)
      PROVE  TypeOK'
  BY <1>28, UndoOfType DEF AskUndo, Labels
<1>29. ASSUME NEW p \in Procs, NEW u \in Tasks, Rollback(p, u)
      PROVE  TypeOK'
  BY <1>29, UndoOfType DEF Rollback, Held, Labels, Verdict
<1>30. CASE ToggleCautious
  BY <1>30 DEF ToggleCautious
<1>31. CASE UNCHANGED vars
  BY <1>31 DEF vars
<1> QED
  BY <1>1, <1>2, <1>3, <1>4, <1>5, <1>6, <1>7, <1>8, <1>9, <1>10, <1>11, <1>12,
       <1>13, <1>14, <1>15, <1>16, <1>17, <1>18, <1>19, <1>20, <1>21, <1>22,
       <1>23, <1>24, <1>25, <1>26, <1>27, <1>28, <1>29, <1>30, <1>31 DEF Next,
       Step, Ask

-----------------------------------------------------------------------------
(* What a step of p leaves alone: the plans that were drawn, consent, the  *)
(* existence of artifacts, and, except for the task p works on, everything *)
(* but an undo of a task that has an artifact.                             *)
Elsewhere(p) ==
  /\ \A t \in Tasks : plan[t].kind # "none" =>
       plan'[t] = plan[t] /\ target'[t] = target[t]
  /\ granted \subseteq granted' /\ noted \subseteq noted'
  /\ \A t \in Tasks : artifact[t] # "none" => artifact'[t] # "none"
  /\ \A t \in Tasks \ {cur[p]} :
       /\ artifact[t] = "none" => artifact'[t] = "none"
       /\ spawned'[t] = spawned[t]
       /\ answer'[t] = answer[t]
       /\ \/ status'[t] = status[t]
          \/ artifact[t] # "none" /\ status'[t] = "undone"
  /\ \A q \in Procs \ {p} :
       /\ pc'[q] = pc[q] /\ cur'[q] = cur[q] /\ idx'[q] = idx[q]
       /\ saved'[q] = saved[q] /\ term'[q] = term[q]

(* The handlers' common end touches only p and the answer to its caller.   *)
LEMMA LeaveElsewhere ==
  ASSUME TypeOK, NEW p \in Procs, NEW a, Leave(p, a)
  PROVE  /\ \A t \in Tasks \ {cur[p]} : answer'[t] = answer[t]
         /\ \A q \in Procs \ {p} :
              /\ pc'[q] = pc[q] /\ cur'[q] = cur[q] /\ idx'[q] = idx[q]
              /\ saved'[q] = saved[q] /\ term'[q] = term[q]
  BY DEF TypeOK, Leave, Go

(* A step of one process leaves the others where they are.                 *)
LEMMA ElsewhereStep ==
  ASSUME Control, NEW p \in Procs, Step(p) \/ Ask(p) \/ Signal(p) \/ Die(p)
  PROVE  Elsewhere(p)
<1> USE DEF Control, TypeOK, Elsewhere, journalVars, askVars, Go
<1>1. ASSUME NEW t \in Tasks, NEW r \in Requests, Submit(p, t, r)
      PROVE  Elsewhere(p)
  BY <1>1 DEF Submit, Fresh, Drawn
<1>2. ASSUME NEW t \in Tasks, NEW u \in Tasks, AskUndo(p, t, u)
      PROVE  Elsewhere(p)
  BY <1>2 DEF AskUndo, Fresh, Drawn
<1>3. ASSUME NEW u \in Tasks, Rollback(p, u)
      PROVE  Elsewhere(p)
  BY <1>3 DEF Rollback, Fresh, Drawn
<1>4. ASSUME Built(p)
      PROVE  Elsewhere(p)
  BY <1>4 DEF Built
<1>5. ASSUME Gate(p)
      PROVE  Elsewhere(p)
  BY <1>5 DEF Gate
<1>6. ASSUME Approve(p)
      PROVE  Elsewhere(p)
  BY <1>6 DEF Approve
<1>7. ASSUME RefuseBegin(p)
      PROVE  Elsewhere(p)
  BY <1>7 DEF RefuseBegin
<1>8. ASSUME Begin(p)
      PROVE  Elsewhere(p)
  BY <1>8 DEF Begin
<1>9. ASSUME Snapshot(p)
      PROVE  Elsewhere(p)
  BY <1>9 DEF Snapshot
<1>10. ASSUME Install(p)
      PROVE  Elsewhere(p)
  BY <1>10 DEF Install
<1>11. ASSUME SkipStep(p)
      PROVE  Elsewhere(p)
  BY <1>11 DEF SkipStep, RecordStep
<1>12. ASSUME SpawnStep(p)
      PROVE  Elsewhere(p)
  BY <1>12 DEF SpawnStep
<1>13. ASSUME NotStarted(p)
      PROVE  Elsewhere(p)
  BY <1>13 DEF NotStarted, EndStep, RecordStep
<1>14. ASSUME ChildEnds(p)
      PROVE  Elsewhere(p)
  BY <1>14 DEF ChildEnds, EndStep, RecordStep
<1>15. ASSUME Signal(p)
      PROVE  Elsewhere(p)
  BY <1>15 DEF Signal
<1>16. ASSUME LoopEnds(p)
      PROVE  Elsewhere(p)
  BY <1>16 DEF LoopEnds
<1>17. ASSUME Verify(p)
      PROVE  Elsewhere(p)
  BY <1>17 DEF Verify
<1>18. ASSUME Settle(p)
      PROVE  Elsewhere(p)
  BY <1>18 DEF Settle
<1>19. ASSUME CheckUndo(p)
      PROVE  Elsewhere(p)
  BY <1>19 DEF CheckUndo
<1>20. ASSUME MarkApplied(p)
      PROVE  Elsewhere(p)
  <2>1. artifact[target[cur[p]]] # "none"
    BY <1>20 DEF MarkApplied, Place, PlaceOf, ForUndo
  <2> QED
    BY <1>20, <2>1 DEF MarkApplied
<1>21. ASSUME MarkUndone(p)
      PROVE  Elsewhere(p)
  <2>1. artifact[target[cur[p]]] # "none"
    BY <1>21 DEF MarkUndone, Place, PlaceOf, ForUndo
  <2> QED
    BY <1>21, <2>1 DEF MarkUndone
<1>22. ASSUME Die(p)
      PROVE  Elsewhere(p)
  BY <1>22 DEF Die
<1>23. ASSUME NotBuilt(p)
      PROVE  Elsewhere(p)
  BY <1>23, LeaveElsewhere DEF NotBuilt
<1>24. ASSUME Decline(p)
      PROVE  Elsewhere(p)
  BY <1>24, LeaveElsewhere DEF Decline
<1>25. ASSUME RefuseEnd(p)
      PROVE  Elsewhere(p)
  BY <1>25, LeaveElsewhere DEF RefuseEnd
<1>26. ASSUME InstallRaises(p)
      PROVE  Elsewhere(p)
  BY <1>26, LeaveElsewhere DEF InstallRaises
<1>27. ASSUME VerifyRaises(p)
      PROVE  Elsewhere(p)
  BY <1>27, LeaveElsewhere DEF VerifyRaises
<1>28. ASSUME Finish(p)
      PROVE  Elsewhere(p)
  BY <1>28, LeaveElsewhere DEF Finish
<1>29. ASSUME RefuseUndo(p)
      PROVE  Elsewhere(p)
  BY <1>29, LeaveElsewhere DEF RefuseUndo
<1> QED
  BY <1>1, <1>2, <1>3, <1>4, <1>5, <1>6, <1>7, <1>8, <1>9, <1>10, <1>11, <1>12,
       <1>13, <1>14, <1>15, <1>16, <1>17, <1>18, <1>19, <1>20, <1>21, <1>22,
       <1>23, <1>24, <1>25, <1>26, <1>27, <1>28, <1>29 DEF Step, Ask

-----------------------------------------------------------------------------
(* What a step of p keeps of the tasks of others.                          *)

(* Consent is not taken back from the plan of a task.                      *)
LEMMA AuthorisedKept ==
  ASSUME Control, NEW p \in Procs, Elsewhere(p),
         NEW t \in Tasks, plan[t].kind # "none", Authorised(t)
  PROVE  Authorised(t)'
<1>1. plan'[t] = plan[t] /\ target'[t] = target[t] /\ granted \subseteq granted'
  BY DEF Elsewhere
<1>2. CASE target[t] \in granted /\ plan[target[t]].rollback
  <2>1. target[t] \in Tasks /\ plan[t] \in Plans /\ NoTask \notin Tasks
    BY <1>2, IdsAssumption DEF Control, TypeOK
  <2>2. plan[target[t]].kind # "none"
    BY <2>1 DEF Control, Drawn, Request, Plans
  <2>3. plan'[target[t]] = plan[target[t]]
    BY <2>1, <2>2 DEF Elsewhere
  <2> QED
    BY <1>1, <1>2, <2>3 DEF Authorised
<1>3. CASE ~(target[t] \in granted /\ plan[target[t]].rollback)
  BY <1>1, <1>3 DEF Authorised
<1> QED
  BY <1>2, <1>3

(* A snapshot attempt stays noted.                                         *)
LEMMA SnapshotNotedKept ==
  ASSUME NEW p \in Procs, Elsewhere(p),
         NEW t \in Tasks, plan[t].kind # "none", SnapshotNoted(t)
  PROVE  SnapshotNoted(t)'
  BY DEF Elsewhere, SnapshotNoted

(* A task that a step does not touch keeps its trace.                      *)
LEMMA TraceKept ==
  ASSUME Control, NEW p \in Procs, Elsewhere(p), NEW t \in Tasks \ {cur[p]}
  PROVE  TraceOf(t)'
<1>1. TraceOf(t)
  BY DEF Control, Traces
<1>2. CASE plan[t].kind = "none"
  BY <1>2 DEF Control, Drawn, TraceOf, Elsewhere
<1>3. CASE plan[t].kind # "none"
  BY <1>1, <1>3, AuthorisedKept, SnapshotNotedKept DEF TraceOf, Elsewhere
<1> QED
  BY <1>2, <1>3

(* Another process finds its task as it left it.                           *)
LEMMA PlaceKept ==
  ASSUME Control, NEW p \in Procs, Elsewhere(p),
         NEW q \in Procs \ {p}, pc[q] # "idle"
  PROVE  PlaceOf(q)'
<1>1. PlaceOf(q) /\ cur[q] \in Tasks \ {cur[p]} /\ plan[cur[q]].kind # "none"
  BY IdsAssumption DEF Control, Place, Held, Apart
<1>2. /\ pc'[q] = pc[q] /\ cur'[q] = cur[q] /\ term'[q] = term[q]
      /\ RollingBack(q)' <=> RollingBack(q)
  BY DEF Elsewhere, RollingBack
<1>3. /\ plan'[cur[q]] = plan[cur[q]] /\ target'[cur[q]] = target[cur[q]]
      /\ Request(cur[q])' <=> Request(cur[q])
  BY <1>1, <1>2 DEF Elsewhere, Request
<1>4. /\ artifact[cur[q]] = "none" => artifact'[cur[q]] = "none"
      /\ artifact[cur[q]] # "none" => artifact'[cur[q]] # "none"
      /\ spawned'[cur[q]] = spawned[cur[q]]
      /\ \/ status'[cur[q]] = status[cur[q]]
         \/ artifact[cur[q]] # "none" /\ status'[cur[q]] = "undone"
  BY <1>1 DEF Elsewhere
<1>5. Authorised(cur[q]) => Authorised(cur[q])'
  BY <1>1, <1>2, AuthorisedKept
<1>6. SnapshotNoted(cur[q]) => SnapshotNoted(cur[q])'
  BY <1>1, <1>2, SnapshotNotedKept
<1>7. plan[cur[q]].kind = "undo" =>
        artifact[cur[q]] = "none" /\ target[cur[q]] \in Tasks
  BY <1>1 DEF Control, Drawn
<1>8. plan[cur[q]].kind = "undo" /\ artifact[target[cur[q]]] # "none" =>
        artifact'[target[cur[q]]] # "none"
  BY <1>7 DEF Elsewhere
<1> QED
  BY <1>1, <1>2, <1>3, <1>4, <1>5, <1>6, <1>7, <1>8
     DEF PlaceOf, ForRequests, ForUndo, Unopened, Executing, WithVerdict

-----------------------------------------------------------------------------
(* Who works on what.                                                      *)

(* A process that goes on with its task.                                   *)
LEMMA AdvanceHeld ==
  ASSUME Control, NEW p \in Procs, pc[p] # "idle", NEW x, x # "idle", Go(p, x),
         UNCHANGED <<cur, saved, plan, target, answer>>,
         x = "child" => idx'[p] <= plan[cur[p]].n,
         \A q \in Procs \ {p} : idx'[q] = idx[q],
         \A t \in Tasks : status'[t] \in {status[t], "running", "undone"}
  PROVE  Held' /\ Apart'
<1>1. /\ pc'[p] = x
      /\ \A q \in Procs \ {p} : pc'[q] = pc[q]
  BY DEF Control, TypeOK, Go
<1>2. Held'
  BY <1>1 DEF Control, Held, RollingBack, Request
<1>3. Apart'
  BY <1>1 DEF Control, Apart, RollingBack
<1> QED
  BY <1>2, <1>3

(* A process that comes to the end of a handler.                           *)
LEMMA LeaveHeld ==
  ASSUME Control, NEW p \in Procs, pc[p] # "idle", NEW a, Leave(p, a),
         UNCHANGED <<plan, target>>,
         \A t \in Tasks \ {cur[p]} : status'[t] = status[t]
  PROVE  Held' /\ Apart'
<1> USE DEF Control, TypeOK
<1>1. \A q \in Procs \ {p} :
        /\ pc'[q] = pc[q] /\ cur'[q] = cur[q] /\ idx'[q] = idx[q]
        /\ saved'[q] = saved[q]
  BY LeaveElsewhere
<1>2. \A t \in Tasks \ {cur[p]} : answer'[t] = answer[t]
  BY LeaveElsewhere
<1>3. saved'[p] = "none"
  BY DEF Leave
<1>4. CASE RollingBack(p)
  <2>1. pc'[p] = "finish" /\ cur'[p] = target[cur[p]]
    BY <1>4 DEF Leave, Go
  <2>2. /\ target[cur[p]] \in Tasks \ {cur[p]}
        /\ Request(target[cur[p]]) /\ answer[target[cur[p]]] = "none"
    BY <1>4 DEF Held, Drawn
  <2>3. Apart'
    <3> HIDE DEF TypeOK
    <3>1. \A q \in Procs \ {p} :
            /\ pc'[q] # "idle" =>
                 /\ cur'[q] # cur'[p]
                 /\ RollingBack(q)' => target'[cur'[q]] # cur'[p]
            /\ ~RollingBack(p)'
      BY <1>1, <1>3, <1>4, <2>1 DEF Apart, RollingBack
    <3>2. \A q, r \in Procs \ {p} :
            q # r /\ pc'[q] # "idle" /\ pc'[r] # "idle" =>
              /\ cur'[q] # cur'[r]
              /\ RollingBack(q)' => target'[cur'[q]] # cur'[r]
              /\ RollingBack(q)' /\ RollingBack(r)' =>
                   target'[cur'[q]] # target'[cur'[r]]
      BY <1>1 DEF Apart, RollingBack
    <3> QED
      BY <3>1, <3>2 DEF Apart
  <2>4. Held'
    BY <1>1, <1>2, <1>3, <1>4, <2>1, <2>2 DEF Held, Apart, RollingBack, Request
  <2> QED
    BY <2>3, <2>4
<1>5. CASE ~RollingBack(p)
  <2>1. pc'[p] = "idle" /\ cur'[p] = NoTask
    BY <1>5 DEF Leave, Go
  <2>3. Apart'
    <3> HIDE DEF TypeOK
    <3>2. \A q, r \in Procs \ {p} :
            q # r /\ pc'[q] # "idle" /\ pc'[r] # "idle" =>
              /\ cur'[q] # cur'[r]
              /\ RollingBack(q)' => target'[cur'[q]] # cur'[r]
              /\ RollingBack(q)' /\ RollingBack(r)' =>
                   target'[cur'[q]] # target'[cur'[r]]
      BY <1>1 DEF Apart, RollingBack
    <3> QED
      BY <3>2, <2>1 DEF Apart
  <2>4. Held'
    BY <1>1, <1>2, <1>3, <2>1 DEF Held, Apart, RollingBack, Request
  <2> QED
    BY <2>3, <2>4
<1> QED
  BY <1>4, <1>5

(* A process that takes up a fresh id.                                     *)
LEMMA DrawHeld ==
  ASSUME Control, NEW p \in Procs, NEW t \in Fresh, NEW r, r.kind # "none",
         NEW x, x \notin {"idle", "child"}, Go(p, x),
         plan' = [plan EXCEPT ![t] = r], cur' = [cur EXCEPT ![p] = t],
         \A u \in Tasks \ {t} : target'[u] = target[u],
         UNCHANGED <<status, answer, idx>>,
         \A q \in Procs \ {p} : saved'[q] = saved[q],
         \/ ~RollingBack(p)'
         \/ /\ pc[p] = "rollback" /\ r.kind = "undo" /\ target'[t] = cur[p]
            /\ ~RollingBack(p)
  PROVE  Held' /\ Apart'
<1> USE DEF Control, TypeOK
<1>1. /\ pc'[p] = x /\ cur'[p] = t
      /\ \A q \in Procs \ {p} : pc'[q] = pc[q] /\ cur'[q] = cur[q]
  BY DEF Go
<1>2. /\ t \in Tasks /\ plan[t].kind = "none" /\ answer[t] = "none"
      /\ plan'[t] = r
      /\ \A u \in Tasks \ {t} : plan'[u] = plan[u]
  BY DEF Fresh, Drawn
<1>3. \A q \in Procs : pc[q] # "idle" =>
        /\ cur[q] \in Tasks \ {t}
        /\ RollingBack(q) => target[cur[q]] \in Tasks \ {t}
  <2> HIDE DEF TypeOK
  <2> QED
    BY <1>2 DEF Held, Request
<1>4. pc[p] = "rollback" =>
        /\ Request(cur[p]) /\ plan[cur[p]].rollback
        /\ status[cur[p]] \in {"running", "undone"} /\ answer[cur[p]] = "none"
  BY DEF Place, PlaceOf, ForRequests, Held
<1>5. Held'
  BY <1>1, <1>2, <1>3, <1>4 DEF Held, RollingBack, Request
<1>6. Apart'
  BY <1>1, <1>2, <1>3 DEF Apart, RollingBack, Held
<1> QED
  BY <1>5, <1>6

(* Every step keeps who works on what.                                     *)
LEMMA HeldStep ==
  ASSUME Control, NEW p \in Procs, Step(p) \/ Ask(p) \/ Signal(p) \/ Die(p)
  PROVE  Held' /\ Apart'
<1> USE DEF Control, journalVars, askVars
<1>1. ASSUME NEW t \in Tasks, NEW r \in Requests, Submit(p, t, r)
      PROVE  Held' /\ Apart'
  <2>1. ~RollingBack(p)'
    BY <1>1 DEF Submit, Held, RollingBack
  <2>2. r.kind # "none" /\ t \in Fresh
    BY <1>1, RequestsAssumption DEF Submit
  <2> QED
    BY <1>1, <2>1, <2>2, DrawHeld DEF Submit
<1>2. ASSUME NEW t \in Tasks, NEW u \in Tasks, AskUndo(p, t, u)
      PROVE  Held' /\ Apart'
  <2>1. ~RollingBack(p)'
    BY <1>2 DEF AskUndo, Held, RollingBack
  <2>2. UndoOf(plan[t]).kind # "none"
    BY DEF UndoOf, NoPlan
  <2>3. \A v \in Tasks \ {u} : target'[v] = target[v]
    BY <1>2 DEF AskUndo, TypeOK
  <2> QED
    BY <1>2, <2>1, <2>2, <2>3, DrawHeld DEF AskUndo
<1>3. ASSUME NEW u \in Tasks, Rollback(p, u)
      PROVE  Held' /\ Apart'
  <2>1. UndoOf(plan[cur[p]]).kind = "undo"
    BY DEF UndoOf, NoPlan
  <2>2. ~RollingBack(p) /\ cur[p] \in Tasks
    BY <1>3 DEF Rollback, Held, Drawn, Place, PlaceOf, ForRequests, Request
  <2>3. /\ target'[u] = cur[p]
        /\ \A v \in Tasks \ {u} : target'[v] = target[v]
        /\ \A q \in Procs \ {p} : saved'[q] = saved[q]
    BY <1>3 DEF Rollback, TypeOK
  <2> QED
    BY <1>3, <2>1, <2>2, <2>3, DrawHeld DEF Rollback
<1>4. ASSUME Built(p)
      PROVE  Held' /\ Apart'
  BY <1>4, AdvanceHeld DEF Built
<1>5. ASSUME Gate(p)
      PROVE  Held' /\ Apart'
  BY <1>5, AdvanceHeld DEF Gate
<1>6. ASSUME Approve(p)
      PROVE  Held' /\ Apart'
  BY <1>6, AdvanceHeld DEF Approve
<1>7. ASSUME RefuseBegin(p)
      PROVE  Held' /\ Apart'
  BY <1>7, AdvanceHeld DEF RefuseBegin, TypeOK
<1>8. ASSUME Begin(p)
      PROVE  Held' /\ Apart'
  BY <1>8, AdvanceHeld DEF Begin, TypeOK
<1>9. ASSUME Snapshot(p)
      PROVE  Held' /\ Apart'
  BY <1>9, AdvanceHeld DEF Snapshot
<1>10. ASSUME LoopEnds(p)
      PROVE  Held' /\ Apart'
  BY <1>10, AdvanceHeld DEF LoopEnds
<1>11. ASSUME Verify(p)
      PROVE  Held' /\ Apart'
  BY <1>11, AdvanceHeld DEF Verify
<1>12. ASSUME Settle(p)
      PROVE  Held' /\ Apart'
  BY <1>12, AdvanceHeld DEF Settle
<1>13. ASSUME CheckUndo(p)
      PROVE  Held' /\ Apart'
  BY <1>13, AdvanceHeld DEF CheckUndo
<1>14. ASSUME MarkApplied(p)
      PROVE  Held' /\ Apart'
  BY <1>14, AdvanceHeld DEF MarkApplied
<1>15. ASSUME MarkUndone(p)
      PROVE  Held' /\ Apart'
  BY <1>15, AdvanceHeld DEF MarkUndone, TypeOK
<1>16. ASSUME Install(p)
      PROVE  Held' /\ Apart'
  BY <1>16, AdvanceHeld DEF Install, TypeOK
<1>17. ASSUME SpawnStep(p)
      PROVE  Held' /\ Apart'
  BY <1>17, AdvanceHeld DEF SpawnStep, InLoop
<1>18. ASSUME NotStarted(p)
      PROVE  Held' /\ Apart'
  BY <1>18, AdvanceHeld DEF NotStarted, EndStep, RecordStep, InLoop, TypeOK
<1>19. ASSUME ChildEnds(p)
      PROVE  Held' /\ Apart'
  BY <1>19, AdvanceHeld DEF ChildEnds, EndStep, RecordStep, TypeOK
<1>20. ASSUME SkipStep(p)
      PROVE  Held' /\ Apart'
  <2>1. pc[p] = "loop" /\ Go(p, "loop")
    BY <1>20 DEF SkipStep, InLoop, Go, TypeOK
  <2> QED
    BY <1>20, <2>1, AdvanceHeld DEF SkipStep, RecordStep, TypeOK
<1>21. ASSUME Signal(p)
      PROVE  Held' /\ Apart'
  BY <1>21 DEF Signal, Held, Apart, RollingBack, Request
<1>22. ASSUME Die(p)
      PROVE  Held' /\ Apart'
  <2>1. /\ pc'[p] = "idle" /\ cur'[p] = NoTask /\ saved'[p] = "none"
        /\ \A q \in Procs \ {p} :
             /\ pc'[q] = pc[q] /\ cur'[q] = cur[q] /\ idx'[q] = idx[q]
             /\ saved'[q] = saved[q]
    BY <1>22 DEF Die, Go, TypeOK
  <2>2. UNCHANGED <<status, plan, target, answer>>
    BY <1>22 DEF Die
  <2>3. Held'
    BY <2>1, <2>2 DEF Held, RollingBack, Request
  <2>4. Apart'
    BY <2>1, <2>2 DEF Apart, RollingBack
  <2> QED
    BY <2>3, <2>4
<1>23. ASSUME NotBuilt(p)
      PROVE  Held' /\ Apart'
  BY <1>23, LeaveHeld DEF NotBuilt
<1>24. ASSUME InstallRaises(p)
      PROVE  Held' /\ Apart'
  BY <1>24, LeaveHeld DEF InstallRaises
<1>25. ASSUME VerifyRaises(p)
      PROVE  Held' /\ Apart'
  BY <1>25, LeaveHeld DEF VerifyRaises
<1>26. ASSUME RefuseUndo(p)
      PROVE  Held' /\ Apart'
  BY <1>26, LeaveHeld DEF RefuseUndo
<1>27. ASSUME RefuseEnd(p)
      PROVE  Held' /\ Apart'
  BY <1>27, LeaveHeld DEF RefuseEnd, TypeOK
<1>28. ASSUME Finish(p)
      PROVE  Held' /\ Apart'
  BY <1>28, LeaveHeld DEF Finish, TypeOK
<1>29. ASSUME Decline(p)
      PROVE  Held' /\ Apart'
  <2>1. CASE plan[cur[p]].kind = "undo"
    BY <1>29, <2>1, LeaveHeld DEF Decline
  <2>2. CASE plan[cur[p]].kind # "undo"
    BY <1>29, <2>2, AdvanceHeld DEF Decline
  <2> QED
    BY <2>1, <2>2
<1> QED
  BY <1>1, <1>2, <1>3, <1>4, <1>5, <1>6, <1>7, <1>8, <1>9, <1>10, <1>11, <1>12,
       <1>13, <1>14, <1>15, <1>16, <1>17, <1>18, <1>19, <1>20, <1>21, <1>22,
       <1>23, <1>24, <1>25, <1>26, <1>27, <1>28, <1>29 DEF Step, Ask

-----------------------------------------------------------------------------
(* What an id and its plan say of each other.                              *)

(* A step that draws no id.                                                *)
LEMMA SamePlansDrawn ==
  ASSUME Control, NEW p \in Procs, Elsewhere(p), UNCHANGED <<plan, target>>,
         \/ pc[p] = "idle"
         \/ UNCHANGED artifact
         \/ Request(cur[p])
         \/ artifact' = [artifact EXCEPT ![target[cur[p]]] = "applied"]
  PROVE  Drawn'
<1> SUFFICES ASSUME NEW t \in Tasks
    PROVE /\ plan[t].kind = "none" =>
               status'[t] = "none" /\ artifact'[t] = "none" /\ spawned'[t] = {}
                                   /\ answer'[t] = "none"
          /\ plan[t].kind = "undo" => artifact'[t] = "none"
  BY DEF Control, Drawn, Request
<1>1. CASE plan[t].kind = "none"
  <2>1. t # cur[p]
    BY <1>1, IdsAssumption DEF Control, Held
  <2> QED
    BY <1>1, <2>1 DEF Control, Drawn, Elsewhere
<1>2. CASE plan[t].kind = "undo"
  <2>1. artifact[t] = "none" /\ target[t] # t
    BY <1>2 DEF Control, Drawn
  <2>2. CASE t # cur[p]
    BY <1>2, <2>1, <2>2 DEF Elsewhere
  <2>3. CASE t = cur[p]
    BY <1>2, <2>1, <2>3, IdsAssumption DEF Control, TypeOK, Held, Request
  <2> QED
    BY <2>2, <2>3
<1> QED
  BY <1>1, <1>2

(* Every step keeps what an id and its plan say of each other.             *)
LEMMA DrawnStep ==
  ASSUME Control, NEW p \in Procs, Step(p) \/ Ask(p) \/ Signal(p) \/ Die(p)
  PROVE  Drawn'
<1> USE DEF journalVars, askVars
<1>1. Elsewhere(p)
  BY ElsewhereStep
<1>2. ASSUME NEW t \in Tasks, NEW r \in Requests, Submit(p, t, r)
      PROVE  Drawn'
  BY <1>2, RequestsAssumption DEF Control, TypeOK, Submit, Fresh, Drawn, Request
<1>3. ASSUME NEW t \in Tasks, NEW u \in Tasks, AskUndo(p, t, u)
      PROVE  Drawn'
  BY <1>3 DEF Control, TypeOK, AskUndo, Fresh, Drawn, Request, UndoOf, NoPlan
<1>4. ASSUME NEW u \in Tasks, Rollback(p, u)
      PROVE  Drawn'
  BY <1>4 DEF Control, TypeOK, Held, Rollback, Fresh, Drawn, Request, UndoOf, NoPlan
<1>5. ASSUME Built(p)
      PROVE  Drawn'
  BY <1>1, <1>5, SamePlansDrawn DEF Built
<1>6. ASSUME Gate(p)
      PROVE  Drawn'
  BY <1>1, <1>6, SamePlansDrawn DEF Gate
<1>7. ASSUME Approve(p)
      PROVE  Drawn'
  BY <1>1, <1>7, SamePlansDrawn DEF Approve
<1>8. ASSUME RefuseBegin(p)
      PROVE  Drawn'
  BY <1>1, <1>8, SamePlansDrawn DEF RefuseBegin
<1>9. ASSUME Begin(p)
      PROVE  Drawn'
  BY <1>1, <1>9, SamePlansDrawn DEF Begin
<1>10. ASSUME Snapshot(p)
      PROVE  Drawn'
  BY <1>1, <1>10, SamePlansDrawn DEF Snapshot
<1>11. ASSUME Install(p)
      PROVE  Drawn'
  BY <1>1, <1>11, SamePlansDrawn DEF Install
<1>12. ASSUME SkipStep(p)
      PROVE  Drawn'
  BY <1>1, <1>12, SamePlansDrawn DEF SkipStep
<1>13. ASSUME SpawnStep(p)
      PROVE  Drawn'
  BY <1>1, <1>13, SamePlansDrawn DEF SpawnStep
<1>14. ASSUME NotStarted(p)
      PROVE  Drawn'
  BY <1>1, <1>14, SamePlansDrawn DEF NotStarted, EndStep
<1>15. ASSUME ChildEnds(p)
      PROVE  Drawn'
  BY <1>1, <1>15, SamePlansDrawn DEF ChildEnds, EndStep
<1>16. ASSUME Signal(p)
      PROVE  Drawn'
  BY <1>1, <1>16, SamePlansDrawn DEF Signal
<1>17. ASSUME LoopEnds(p)
      PROVE  Drawn'
  BY <1>1, <1>17, SamePlansDrawn DEF LoopEnds
<1>18. ASSUME Verify(p)
      PROVE  Drawn'
  BY <1>1, <1>18, SamePlansDrawn DEF Verify
<1>19. ASSUME CheckUndo(p)
      PROVE  Drawn'
  BY <1>1, <1>19, SamePlansDrawn DEF CheckUndo
<1>20. ASSUME MarkApplied(p)
      PROVE  Drawn'
  BY <1>1, <1>20, SamePlansDrawn DEF MarkApplied
<1>21. ASSUME MarkUndone(p)
      PROVE  Drawn'
  BY <1>1, <1>21, SamePlansDrawn DEF MarkUndone
<1>22. ASSUME Die(p)
      PROVE  Drawn'
  BY <1>1, <1>22, SamePlansDrawn DEF Die
<1>23. ASSUME NotBuilt(p)
      PROVE  Drawn'
  BY <1>1, <1>23, SamePlansDrawn DEF NotBuilt
<1>24. ASSUME Decline(p)
      PROVE  Drawn'
  BY <1>1, <1>24, SamePlansDrawn DEF Decline
<1>25. ASSUME RefuseEnd(p)
      PROVE  Drawn'
  BY <1>1, <1>25, SamePlansDrawn DEF RefuseEnd
<1>26. ASSUME InstallRaises(p)
      PROVE  Drawn'
  BY <1>1, <1>26, SamePlansDrawn DEF InstallRaises
<1>27. ASSUME VerifyRaises(p)
      PROVE  Drawn'
  BY <1>1, <1>27, SamePlansDrawn DEF VerifyRaises
<1>28. ASSUME Finish(p)
      PROVE  Drawn'
  BY <1>1, <1>28, SamePlansDrawn DEF Finish
<1>29. ASSUME RefuseUndo(p)
      PROVE  Drawn'
  BY <1>1, <1>29, SamePlansDrawn DEF RefuseUndo
<1>30. ASSUME Settle(p)
      PROVE  Drawn'
  BY <1>1, <1>30, SamePlansDrawn DEF Settle, Control, Place, PlaceOf, ForRequests
<1> QED
  BY <1>2, <1>3, <1>4, <1>5, <1>6, <1>7, <1>8, <1>9, <1>10, <1>11, <1>12, <1>13,
       <1>14, <1>15, <1>16, <1>17, <1>18, <1>19, <1>20, <1>21, <1>22, <1>23,
       <1>24, <1>25, <1>26, <1>27, <1>28, <1>29, <1>30 DEF Step, Ask

-----------------------------------------------------------------------------
(* The trace of a task, step by step of the process that works on it.      *)
LEMMA TraceStep ==
  ASSUME Control, NEW p \in Procs, Step(p) \/ Ask(p) \/ Signal(p) \/ Die(p),
         NEW t \in Tasks, t = cur[p]
  PROVE  TraceOf(t)'
<1> USE DEF journalVars, askVars
<1>1. /\ pc[p] # "idle" /\ plan[t].kind # "none"
      /\ answer[t] = "none" /\ TraceOf(t) /\ PlaceOf(p)
  BY IdsAssumption DEF Control, Held, Traces, Place
<1>2. /\ Authorised(t) => Authorised(t)'
      /\ SnapshotNoted(t) => SnapshotNoted(t)'
      /\ plan'[t] = plan[t]
  BY <1>1, ElsewhereStep, AuthorisedKept, SnapshotNotedKept DEF Elsewhere
<1>3. ASSUME UNCHANGED <<status, artifact, spawned, answer>>
      PROVE  TraceOf(t)'
  BY <1>1, <1>2, <1>3 DEF TraceOf
<1>4. CASE Built(p)
  BY <1>3, <1>4 DEF Built
<1>5. CASE Gate(p)
  BY <1>3, <1>5 DEF Gate
<1>6. CASE Approve(p)
  BY <1>3, <1>6 DEF Approve
<1>7. CASE Snapshot(p)
  BY <1>3, <1>7 DEF Snapshot
<1>8. CASE Install(p)
  BY <1>3, <1>8 DEF Install
<1>9. CASE SkipStep(p)
  BY <1>3, <1>9 DEF SkipStep
<1>10. CASE NotStarted(p)
  BY <1>3, <1>10 DEF NotStarted, EndStep
<1>11. CASE ChildEnds(p)
  BY <1>3, <1>11 DEF ChildEnds, EndStep
<1>12. CASE Signal(p)
  BY <1>3, <1>12 DEF Signal
<1>13. CASE LoopEnds(p)
  BY <1>3, <1>13 DEF LoopEnds
<1>14. CASE Verify(p)
  BY <1>3, <1>14 DEF Verify
<1>15. CASE CheckUndo(p)
  BY <1>3, <1>15 DEF CheckUndo
<1>16. CASE Die(p)
  BY <1>3, <1>16 DEF Die
<1>17. CASE \E u \in Tasks : Rollback(p, u)
  BY <1>3, <1>17 DEF Rollback
<1>18. CASE SpawnStep(p)
  <2>1. /\ Authorised(t) /\ SnapshotNoted(t) /\ artifact[t] = "none"
        /\ status[t] = "running"
    BY <1>1, <1>18 DEF SpawnStep, InLoop, PlaceOf, Executing
  <2> QED
    BY <1>1, <1>2, <1>18, <2>1 DEF SpawnStep, TraceOf
<1>19. CASE Settle(p)
  <2>1. status[t] = "running"
    BY <1>1, <1>19 DEF Settle, PlaceOf, Executing
  <2> QED
    BY <1>1, <1>2, <1>19, <2>1 DEF Control, TypeOK, Settle, TraceOf, Storable
<1>20. CASE RefuseBegin(p)
  <2>1. spawned[t] = {} /\ artifact[t] = "none"
    BY <1>1, <1>20 DEF RefuseBegin, PlaceOf, Unopened
  <2> QED
    BY <1>20, <2>1 DEF RefuseBegin, TraceOf
<1>21. CASE Begin(p)
  <2>1. spawned[t] = {} /\ artifact[t] = "none"
    BY <1>1, <1>21 DEF Begin, PlaceOf, Unopened
  <2> QED
    BY <1>21, <2>1 DEF Begin, TraceOf
<1>22. CASE RefuseEnd(p)
  <2>1. spawned[t] = {} /\ artifact[t] = "none"
    BY <1>1, <1>22 DEF RefuseEnd, PlaceOf, Unopened
  <2> QED
    BY <1>22, <2>1 DEF RefuseEnd, TraceOf
<1>23. CASE Finish(p)
  <2>1. status'[t] = term[p] /\ term[p] \notin {"none", "refused"}
    BY <1>1, <1>23 DEF Control, TypeOK, Verdict, Finish, PlaceOf, WithVerdict
  <2>2. answer'[t] = term[p]
    BY <1>23 DEF Control, TypeOK, Finish, Leave
  <2> QED
    BY <1>1, <1>2, <1>23, <2>1, <2>2 DEF Finish, TraceOf
<1>24. CASE MarkApplied(p)
  <2>1. target[t] # t
    BY <1>1, <1>24 DEF MarkApplied, PlaceOf, ForUndo, Control, Drawn
  <2> QED
    BY <1>1, <1>2, <1>24, <2>1 DEF Control, TypeOK, MarkApplied, TraceOf
<1>25. CASE MarkUndone(p)
  <2>1. target[t] # t
    BY <1>1, <1>25 DEF MarkUndone, PlaceOf, ForUndo, Control, Drawn
  <2> QED
    BY <1>1, <1>2, <1>25, <2>1 DEF Control, TypeOK, MarkUndone, TraceOf
<1>26. CASE InstallRaises(p)
  BY <1>1, <1>2, <1>26 DEF Control, TypeOK, InstallRaises, Leave, TraceOf
<1>27. CASE VerifyRaises(p)
  BY <1>1, <1>2, <1>27 DEF Control, TypeOK, VerifyRaises, Leave, TraceOf
<1>28. CASE NotBuilt(p)
  <2>1. spawned[t] = {} /\ artifact[t] = "none"
    BY <1>1, <1>28 DEF NotBuilt, PlaceOf, Unopened
  <2> QED
    BY <1>28, <2>1 DEF NotBuilt, TraceOf
<1>29. CASE Decline(p)
  <2>1. spawned[t] = {} /\ artifact[t] = "none"
    BY <1>1, <1>29 DEF Decline, PlaceOf, Unopened
  <2> QED
    BY <1>29, <2>1 DEF Decline, TraceOf
<1>30. CASE RefuseUndo(p)
  <2>1. spawned[t] = {} /\ artifact[t] = "none"
    BY <1>1, <1>30 DEF RefuseUndo, PlaceOf, Unopened
  <2> QED
    BY <1>30, <2>1 DEF RefuseUndo, TraceOf
<1>31. CASE Ask(p)
  BY <1>1, <1>31 DEF Ask, Submit, AskUndo
<1> QED
  BY <1>4, <1>5, <1>6, <1>7, <1>8, <1>9, <1>10, <1>11, <1>12, <1>13, <1>14,
       <1>15, <1>16, <1>17, <1>18, <1>19, <1>20, <1>21, <1>22, <1>23, <1>24,
       <1>25, <1>26, <1>27, <1>28, <1>29, <1>30, <1>31 DEF Step

-----------------------------------------------------------------------------
(* The place of a process, step by step of its own.                        *)

(* An id that is drawn.                                                    *)
LEMMA PlaceOfDraw ==
  ASSUME Control, NEW p \in Procs,
         (\E t \in Tasks, r \in Requests : Submit(p, t, r))
           \/ (\E t, u \in Tasks : AskUndo(p, t, u))
           \/ (\E u \in Tasks : Rollback(p, u))
  PROVE  PlaceOf(p)'
<1> USE DEF journalVars, askVars, Go
<1> USE DEF ForRequests, ForUndo, Unopened, Executing, WithVerdict
<1>1. ASSUME NEW t \in Tasks, NEW r \in Requests, Submit(p, t, r)
      PROVE  PlaceOf(p)'
  <2>1. /\ pc'[p] = "build" /\ cur'[p] = t /\ plan'[t] = r
        /\ r.kind \in {"intent", "plan"} /\ t \in Fresh
        /\ UNCHANGED <<status, artifact, spawned>>
    BY <1>1, RequestsAssumption DEF Control, TypeOK, Submit
  <2>2. status[t] = "none" /\ spawned[t] = {} /\ artifact[t] = "none"
    BY <2>1 DEF Fresh, Control, Drawn
  <2> QED
    BY <2>1, <2>2 DEF PlaceOf, Request
<1>2. ASSUME NEW t \in Tasks, NEW u \in Tasks, AskUndo(p, t, u)
      PROVE  PlaceOf(p)'
  <2>1. /\ pc'[p] = "check" /\ cur'[p] = u /\ plan'[u].kind = "undo"
        /\ u \in Fresh /\ ~RollingBack(p)'
        /\ UNCHANGED <<status, artifact, spawned>>
    <3>1. UndoOf(plan[t]).kind = "undo"
      BY DEF UndoOf, NoPlan
    <3>2. saved[p] = "none" /\ UNCHANGED saved
      BY <1>2 DEF AskUndo, Control, Held
    <3> QED
      BY <1>2, <3>1, <3>2 DEF Control, TypeOK, AskUndo, RollingBack
  <2>2. status[u] = "none" /\ spawned[u] = {} /\ artifact[u] = "none"
    BY <2>1 DEF Fresh, Control, Drawn
  <2> QED
    BY <2>1, <2>2 DEF PlaceOf
<1>3. ASSUME NEW u \in Tasks, Rollback(p, u)
      PROVE  PlaceOf(p)'
  <2>1. /\ pc'[p] = "check" /\ cur'[p] = u /\ plan'[u] = UndoOf(plan[cur[p]])
        /\ target'[u] = cur[p] /\ plan'[u].kind = "undo" /\ u \in Fresh
        /\ UNCHANGED <<status, artifact, spawned, granted>>
    BY <1>3 DEF Control, TypeOK, Held, Rollback, UndoOf, NoPlan
  <2>2. status[u] = "none" /\ spawned[u] = {} /\ artifact[u] = "none"
    BY <2>1 DEF Fresh, Control, Drawn
  <2> DEFINE t == cur[p]
  <2>3. /\ t \in Tasks /\ Request(t) /\ Authorised(t) /\ plan[t].rollback
        /\ artifact[t] # "none"
    BY <1>3 DEF Rollback, Control, Held, Place, PlaceOf
  <2>4. /\ plan[t] \in Requests /\ target[t] = NoTask /\ plan[t].undo = "available"
        /\ plan[t] \in Plans
    BY <2>3 DEF Control, TypeOK, Drawn, Traces, TraceOf
  <2>5. plan[t].undoTier <= TierOf(plan[t]) /\ plan[t].undoTier \in 0..3
    BY <2>4, RequestsAssumption DEF Plans
  <2>6. TierOf(plan'[u]) = plan[t].undoTier
    BY <2>1 DEF TierOf, UndoOf, NoPlan
  <2>7. TierOf(plan[t]) \in 0..3
    BY <2>4 DEF TierOf, Plans
  <2>8. TierOf(plan[t]) <= 1 \/ (TierOf(plan[t]) = 2 /\ t \in granted)
    BY <2>3, <2>4, IdsAssumption DEF Authorised, Control, TypeOK
  <2>9. plan'[t] = plan[t]
    BY <1>3, <2>1, <2>3 DEF Rollback, Fresh, Request, Control, TypeOK
  <2>10. Authorised(u)'
    BY <2>1, <2>3, <2>5, <2>6, <2>7, <2>8, <2>9 DEF Authorised
  <2> HIDE DEF t
  <2> QED
    BY <2>1, <2>2, <2>10 DEF PlaceOf
<1> QED
  BY <1>1, <1>2, <1>3

(* The end of a handler, back at the task that is rolled back.             *)
LEMMA PlaceOfLeave ==
  ASSUME Control, NEW p \in Procs, pc[p] # "idle", NEW a, Leave(p, a),
         UNCHANGED <<plan, target>>, pc'[p] # "idle",
         \A t \in Tasks \ {cur[p]} : status'[t] = status[t]
  PROVE  PlaceOf(p)'
<1>1. /\ RollingBack(p) /\ pc'[p] = "finish" /\ cur'[p] = target[cur[p]]
      /\ term'[p] = saved[p] /\ saved'[p] = "none"
  BY DEF Leave, Go, Control, TypeOK
<1>2. /\ target[cur[p]] \in Tasks \ {cur[p]} /\ Request(target[cur[p]])
      /\ status[target[cur[p]]] \in {"running", "undone"}
  BY <1>1 DEF Control, Held, Drawn
<1> QED
  BY <1>1, <1>2
     DEF PlaceOf, Request, RollingBack, ForRequests, ForUndo, Unopened,
          Executing, WithVerdict

(* A step of a process at work on its task.                                *)
LEMMA PlaceOfStep ==
  ASSUME Control, NEW p \in Procs, Step(p) \/ Signal(p), pc'[p] # "idle"
  PROVE  PlaceOf(p)'
<1> USE DEF journalVars, askVars
<1> DEFINE t == cur[p]
<1>1. pc[p] # "idle"
  BY DEF Step, Signal, Built, NotBuilt, Gate, Approve, Decline, RefuseBegin,
         RefuseEnd, Begin, Snapshot, Install, InstallRaises, SkipStep, SpawnStep,
         NotStarted, ChildEnds, LoopEnds, Verify, VerifyRaises, Settle, Finish,
         Rollback, CheckUndo, RefuseUndo, MarkApplied, MarkUndone, InLoop
<1>2. /\ t \in Tasks /\ plan[t].kind # "none" /\ plan[t] \in Plans
      /\ answer[t] = "none" /\ TraceOf(t) /\ PlaceOf(p)
  BY <1>1 DEF Control, TypeOK, Held, Traces, Place
<1>3. Elsewhere(p)
  BY ElsewhereStep
<1>4. /\ Authorised(t) => \A u \in Tasks : u = t => Authorised(u)'
      /\ SnapshotNoted(t) => \A u \in Tasks : u = t => SnapshotNoted(u)'
  BY <1>2, <1>3, AuthorisedKept, SnapshotNotedKept
<1>5. plan'[t] = plan[t] /\ target'[t] = target[t]
  BY <1>2, <1>3 DEF Elsewhere
<1>6. plan[t].kind = "undo" =>
        /\ target[t] \in Tasks \ {t} /\ artifact[t] = "none"
        /\ artifact[target[t]] # "none" => artifact'[target[t]] # "none"
  BY <1>2, <1>3 DEF Control, Drawn, Elsewhere
<1>7. plan[t].kind \in {"intent", "plan", "undo"}
  BY <1>2 DEF Plans
<1>8. RollingBack(p) => plan[t].kind = "undo"
  BY <1>1 DEF Control, Held
<1> DEFINE Here == /\ cur'[p] = t
                   /\ RollingBack(p)' <=> RollingBack(p)
                   /\ Request(t)' <=> Request(t)
                   /\ Authorised(t) => Authorised(t)'
                   /\ SnapshotNoted(t) => SnapshotNoted(t)'
<1>9. ASSUME UNCHANGED <<cur, saved>>
      PROVE  Here
  BY <1>2, <1>4, <1>5, <1>9 DEF RollingBack, Request
<1> HIDE DEF t, Here
<1>10. CASE Built(p)
  <2>1. Here
    BY <1>9, <1>10 DEF Built
  <2>2. pc[p] = "build" /\ pc'[p] = "gate" /\ UNCHANGED <<status, artifact, spawned, term>>
    BY <1>1, <1>2, <1>7, <1>8, <1>10 DEF Control, TypeOK, t, Built, Go
  <2> QED
    BY <1>2, <1>5, <1>6, <1>7, <1>8, <2>1, <2>2 DEF Here, PlaceOf, Request, t,
         ForRequests, ForUndo, Unopened, Executing, WithVerdict
<1>11. CASE Gate(p)
  <2>1. Here
    BY <1>9, <1>11 DEF Gate
  <2>2. /\ pc[p] = "gate" /\ pc'[p] \in {"refuse", "consent"}
        /\ UNCHANGED <<status, artifact, spawned, term>>
    BY <1>1, <1>2, <1>7, <1>8, <1>11 DEF Control, TypeOK, t, Gate, Go
  <2> QED
    BY <1>2, <1>5, <1>6, <1>7, <1>8, <2>1, <2>2 DEF Here, PlaceOf, Request, t,
         ForRequests, ForUndo, Unopened, Executing, WithVerdict
<1>12. CASE RefuseBegin(p)
  <2>1. Here
    BY <1>9, <1>12 DEF RefuseBegin
  <2>2. /\ pc[p] = "refuse" /\ pc'[p] = "refused" /\ status'[t] = "running"
        /\ UNCHANGED <<artifact, spawned>>
    BY <1>1, <1>2, <1>7, <1>8, <1>12 DEF Control, TypeOK, t, RefuseBegin, Go
  <2> QED
    BY <1>2, <1>5, <1>6, <1>7, <1>8, <2>1, <2>2 DEF Here, PlaceOf, Request, t,
         ForRequests, ForUndo, Unopened, Executing, WithVerdict
<1>13. CASE Begin(p)
  <2>1. Here
    BY <1>9, <1>13 DEF Begin
  <2>2. /\ pc[p] = "begin" /\ status'[t] = "running"
        /\ pc'[p] = IF plan[t].kind = "undo" THEN "install" ELSE "snapshot"
        /\ UNCHANGED <<artifact, spawned>>
    BY <1>1, <1>2, <1>7, <1>8, <1>13 DEF Control, TypeOK, t, Begin, Go
  <2>3. plan[t].kind = "undo" => SnapshotNoted(t)
    BY DEF SnapshotNoted
  <2> QED
    BY <1>2, <1>5, <1>6, <1>7, <1>8, <2>1, <2>2, <2>3
       DEF Here, PlaceOf, Request, t, ForRequests, ForUndo, Unopened, Executing,
            WithVerdict
<1>14. CASE Approve(p)
  <2>1. Here
    BY <1>9, <1>14 DEF Approve
  <2>2. /\ pc[p] = "consent" /\ pc'[p] = "begin"
        /\ UNCHANGED <<status, artifact, spawned>>
    BY <1>1, <1>2, <1>7, <1>8, <1>14 DEF Control, TypeOK, t, Approve, Go
  <2>3. \A u \in Tasks : u = t => Authorised(u)'
    <3>1. TierOf(plan[t]) \in 0..3
      BY <1>2 DEF TierOf, Plans
    <3> QED
      BY <1>2, <1>5, <1>14, <3>1 DEF Approve, Authorised, MayPass, MustPass, t,
           Control, TypeOK
  <2> QED
    BY <1>2, <1>5, <1>6, <1>7, <1>8, <2>1, <2>2, <2>3
       DEF Here, PlaceOf, Request, t, ForRequests, ForUndo, Unopened, Executing,
            WithVerdict
<1>15. CASE Snapshot(p)
  <2>1. Here
    BY <1>9, <1>15 DEF Snapshot
  <2>2. /\ pc[p] = "snapshot" /\ pc'[p] = "install"
        /\ UNCHANGED <<status, artifact, spawned>>
    BY <1>1, <1>2, <1>7, <1>8, <1>15 DEF Control, TypeOK, t, Snapshot, Go
  <2>3. \A u \in Tasks : u = t => SnapshotNoted(u)'
    BY <1>2, <1>5, <1>15 DEF Snapshot, SnapshotNoted, t
  <2> QED
    BY <1>2, <1>5, <1>6, <1>7, <1>8, <2>1, <2>2, <2>3
       DEF Here, PlaceOf, Request, t, ForRequests, ForUndo, Unopened, Executing,
            WithVerdict
<1>16. CASE Install(p)
  <2>1. Here
    BY <1>9, <1>16 DEF Install
  <2>2. pc[p] = "install" /\ pc'[p] = "loop" /\ UNCHANGED <<status, artifact, spawned, term>>
    BY <1>1, <1>2, <1>7, <1>8, <1>16 DEF Control, TypeOK, t, Install, Go
  <2> QED
    BY <1>2, <1>5, <1>6, <1>7, <1>8, <2>1, <2>2
       DEF Here, PlaceOf, Request, t, ForRequests, ForUndo, Unopened, Executing,
            WithVerdict
<1>17. CASE SkipStep(p)
  <2>1. Here
    BY <1>9, <1>17 DEF SkipStep, RecordStep, InLoop
  <2>2. pc[p] = "loop" /\ pc'[p] = "loop" /\ UNCHANGED <<status, artifact, spawned, term>>
    BY <1>1, <1>2, <1>7, <1>8, <1>17 DEF Control, TypeOK, t, SkipStep, Go,
         RecordStep, InLoop
  <2> QED
    BY <1>2, <1>5, <1>6, <1>7, <1>8, <2>1, <2>2
       DEF Here, PlaceOf, Request, t, ForRequests, ForUndo, Unopened, Executing,
            WithVerdict
<1>18. CASE SpawnStep(p)
  <2>1. Here
    BY <1>9, <1>18 DEF SpawnStep, InLoop
  <2>2. /\ pc[p] = "loop" /\ pc'[p] = "child"
        /\ UNCHANGED <<status, artifact, term>>
    BY <1>1, <1>2, <1>7, <1>8, <1>18 DEF Control, TypeOK, t, SpawnStep, Go, InLoop
  <2> QED
    BY <1>2, <1>5, <1>6, <1>7, <1>8, <2>1, <2>2
       DEF Here, PlaceOf, Request, t, ForRequests, ForUndo, Unopened, Executing,
            WithVerdict
<1>19. CASE NotStarted(p)
  <2>1. Here
    BY <1>9, <1>19 DEF NotStarted, EndStep, RecordStep, InLoop
  <2>2. /\ pc[p] = "loop" /\ pc'[p] = "loop"
        /\ UNCHANGED <<status, artifact, spawned>>
    BY <1>1, <1>2, <1>7, <1>8, <1>19 DEF Control, TypeOK, t, NotStarted, Go,
         EndStep, RecordStep, InLoop
  <2> QED
    BY <1>2, <1>5, <1>6, <1>7, <1>8, <2>1, <2>2
       DEF Here, PlaceOf, Request, t, ForRequests, ForUndo, Unopened, Executing,
            WithVerdict
<1>20. CASE ChildEnds(p)
  <2>1. Here
    BY <1>9, <1>20 DEF ChildEnds, EndStep, RecordStep
  <2>2. /\ pc[p] = "child" /\ pc'[p] = "loop"
        /\ UNCHANGED <<status, artifact, spawned>>
    BY <1>1, <1>2, <1>7, <1>8, <1>20 DEF Control, TypeOK, t, ChildEnds, Go,
         EndStep, RecordStep
  <2> QED
    BY <1>2, <1>5, <1>6, <1>7, <1>8, <2>1, <2>2
       DEF Here, PlaceOf, Request, t, ForRequests, ForUndo, Unopened, Executing,
            WithVerdict
<1>21. CASE Signal(p)
  <2>1. Here
    BY <1>9, <1>21 DEF Signal
  <2>2. /\ pc[p] \in {"loop", "child"} /\ pc'[p] = pc[p]
        /\ UNCHANGED <<status, artifact, spawned, term>>
    BY <1>1, <1>2, <1>7, <1>8, <1>21 DEF Control, TypeOK, t, Signal, Go
  <2> QED
    BY <1>2, <1>5, <1>6, <1>7, <1>8, <2>1, <2>2
       DEF Here, PlaceOf, Request, t, ForRequests, ForUndo, Unopened, Executing,
            WithVerdict
<1>22. CASE LoopEnds(p)
  <2>1. Here
    BY <1>9, <1>22 DEF LoopEnds
  <2>2. /\ pc[p] = "loop"
        /\ pc'[p] \in {"verify", "finish", "settle"}
        /\ pc'[p] = "settle" => plan[t].kind # "undo"
        /\ pc'[p] # "verify" => term[p] # "none"
        /\ UNCHANGED <<status, artifact, spawned, term>>
    <3>1. /\ pc[p] = "loop" /\ pc \in [Procs -> Labels]
          /\ UNCHANGED <<status, artifact, spawned, term>>
      BY <1>22 DEF LoopEnds, Control, TypeOK
    <3>2. CASE term[p] = "none"
      BY <1>22, <3>1, <3>2 DEF LoopEnds, Go
    <3>3. CASE term[p] # "none" /\ plan[t].kind = "undo"
      BY <1>22, <3>1, <3>3 DEF LoopEnds, Go, t
    <3>4. CASE term[p] # "none" /\ plan[t].kind # "undo"
      BY <1>22, <3>1, <3>4 DEF LoopEnds, Go, t
    <3> QED
      BY <3>2, <3>3, <3>4
  <2> QED
    BY <1>2, <1>5, <1>6, <1>7, <1>8, <2>1, <2>2
       DEF Here, PlaceOf, Request, t, ForRequests, ForUndo, Unopened, Executing,
            WithVerdict
<1>23. CASE Verify(p)
  <2>1. Here
    BY <1>9, <1>23 DEF Verify
  <2>2. /\ pc[p] = "verify" /\ term'[p] # "none"
        /\ pc'[p] \in {"settle", "applied", "finish"}
        /\ pc'[p] = "settle" <=> plan[t].kind # "undo"
        /\ UNCHANGED <<status, artifact, spawned>>
    <3>1. PICK v \in {"succeeded", "failed"} :
            /\ term' = [term EXCEPT ![p] = v]
            /\ Go(p, IF plan[t].kind # "undo" THEN "settle"
                     ELSE IF v = "succeeded" THEN "applied" ELSE "finish")
      BY <1>23 DEF t, Verify
    <3>2. /\ pc[p] = "verify" /\ pc \in [Procs -> Labels] /\ term'[p] # "none"
          /\ UNCHANGED <<status, artifact, spawned>>
      BY <1>23, <3>1 DEF Verify, Control, TypeOK
    <3>3. CASE plan[t].kind # "undo"
      BY <3>1, <3>2, <3>3 DEF Go
    <3>4. CASE plan[t].kind = "undo" /\ v = "succeeded"
      BY <3>1, <3>2, <3>4 DEF Go
    <3>5. CASE plan[t].kind = "undo" /\ v # "succeeded"
      BY <3>1, <3>2, <3>5 DEF Go
    <3> QED
      BY <3>3, <3>4, <3>5
  <2> QED
    BY <1>2, <1>5, <1>6, <1>7, <1>8, <2>1, <2>2
       DEF Here, PlaceOf, Request, t, ForRequests, ForUndo, Unopened, Executing,
            WithVerdict
<1>24. CASE CheckUndo(p)
  <2>1. Here
    BY <1>9, <1>24 DEF CheckUndo, Reversible
  <2>2. /\ pc[p] = "check"
        /\ pc'[p] = IF RollingBack(p) THEN "begin" ELSE "consent"
        /\ artifact[target[t]] # "none"
        /\ UNCHANGED <<status, artifact, spawned, term>>
    BY <1>1, <1>2, <1>7, <1>8, <1>24 DEF Control, TypeOK, t, CheckUndo, Go, Reversible
  <2> QED
    BY <1>2, <1>5, <1>6, <1>7, <1>8, <2>1, <2>2
       DEF Here, PlaceOf, Request, t, ForRequests, ForUndo, Unopened, Executing,
            WithVerdict
<1>25. CASE MarkApplied(p)
  <2>1. Here
    BY <1>9, <1>25 DEF MarkApplied
  <2>2. /\ pc[p] = "applied" /\ pc'[p] = "undone"
        /\ UNCHANGED <<status, spawned, term>>
    BY <1>1, <1>2, <1>7, <1>8, <1>25 DEF Control, TypeOK, t, MarkApplied, Go
  <2> QED
    BY <1>2, <1>5, <1>6, <1>7, <1>8, <2>1, <2>2
       DEF Here, PlaceOf, Request, t, ForRequests, ForUndo, Unopened, Executing,
            WithVerdict
<1>26. CASE MarkUndone(p)
  <2>1. Here
    BY <1>9, <1>26 DEF MarkUndone
  <2>2. /\ pc[p] = "undone" /\ pc'[p] = "finish"
        /\ status'[t] = status[t]
        /\ UNCHANGED <<artifact, spawned, term>>
    <3>1. target[t] # t
      BY <1>2, <1>6, <1>26 DEF MarkUndone, PlaceOf, ForUndo, t
    <3> QED
      BY <1>2, <1>26, <3>1 DEF Control, TypeOK, t, MarkUndone, Go
  <2> QED
    BY <1>2, <1>5, <1>6, <1>7, <1>8, <2>1, <2>2
       DEF Here, PlaceOf, Request, t, ForRequests, ForUndo, Unopened, Executing,
            WithVerdict
<1>27. CASE Settle(p)
  <2>1. Here
    BY <1>9, <1>27 DEF Settle, RollsBack
  <2>2. /\ pc[p] = "settle" /\ pc'[p] \in {"rollback", "finish"}
        /\ pc'[p] = "rollback" => artifact'[t] # "none" /\ plan[t].rollback
        /\ UNCHANGED <<status, spawned, term>>
    BY <1>1, <1>2, <1>7, <1>8, <1>27 DEF Control, TypeOK, t, Settle, Go, RollsBack
  <2> QED
    BY <1>2, <1>5, <1>6, <1>7, <1>8, <2>1, <2>2
       DEF Here, PlaceOf, Request, t, ForRequests, ForUndo, Unopened, Executing,
            WithVerdict
<1>28. CASE Decline(p) /\ plan[t].kind # "undo"
  <2>1. Here
    BY <1>9, <1>28 DEF Decline, t
  <2>2. /\ pc[p] = "consent" /\ pc'[p] = "refuse"
        /\ UNCHANGED <<status, artifact, spawned, term>>
    BY <1>1, <1>2, <1>7, <1>8, <1>28 DEF Control, TypeOK, t, Decline, Go
  <2> QED
    BY <1>2, <1>5, <1>6, <1>7, <1>8, <1>28, <2>1, <2>2
       DEF Here, PlaceOf, Request, t, ForRequests, ForUndo, Unopened, Executing,
            WithVerdict
<1>29. CASE NotBuilt(p)
  BY <1>1, <1>29, PlaceOfLeave DEF NotBuilt, Control, TypeOK
<1>30. CASE RefuseEnd(p)
  BY <1>1, <1>30, PlaceOfLeave DEF RefuseEnd, Control, TypeOK
<1>31. CASE InstallRaises(p)
  BY <1>1, <1>31, PlaceOfLeave DEF InstallRaises, Control, TypeOK
<1>32. CASE VerifyRaises(p)
  BY <1>1, <1>32, PlaceOfLeave DEF VerifyRaises, Control, TypeOK
<1>33. CASE Finish(p)
  BY <1>1, <1>33, PlaceOfLeave DEF Finish, Control, TypeOK
<1>34. CASE RefuseUndo(p)
  BY <1>1, <1>34, PlaceOfLeave DEF RefuseUndo, Control, TypeOK
<1>35. CASE Decline(p) /\ plan[t].kind = "undo"
  BY <1>1, <1>35, PlaceOfLeave DEF Decline, t
<1>36. CASE \E u \in Tasks : Rollback(p, u)
  BY <1>36, PlaceOfDraw
<1> QED
  BY <1>10, <1>11, <1>12, <1>13, <1>14, <1>15, <1>16, <1>17, <1>18, <1>19,
       <1>20, <1>21, <1>22, <1>23, <1>24, <1>25, <1>26, <1>27, <1>28, <1>29,
       <1>30, <1>31, <1>32, <1>33, <1>34, <1>35, <1>36 DEF Step

-----------------------------------------------------------------------------
(* The invariant and what follows from it.                                 *)

(* The invariant holds at first.                                           *)
LEMMA ControlInit == Init => Control
<1> SUFFICES ASSUME Init PROVE Control
  OBVIOUS
<1>1. TypeOK
  BY IdsAssumption, NoPlanType DEF Init, TypeOK, Status, Answer, Labels, Verdict
<1>2. Held /\ Apart /\ Place
  BY DEF Init, Held, Apart, Place, RollingBack
<1>3. Drawn /\ Traces
  BY DEF Init, Drawn, Traces, TraceOf, Request, NoPlan
<1> QED
  BY <1>1, <1>2, <1>3 DEF Control

(* Every step keeps the invariant.                                         *)
LEMMA ControlStep == Control /\ [Next]_vars => Control'
<1> SUFFICES ASSUME Control, [Next]_vars PROVE Control'
  OBVIOUS
<1>1. TypeOK'
  BY TypeStep DEF Control
<1>2. ASSUME NEW p \in Procs, Step(p) \/ Ask(p) \/ Signal(p) \/ Die(p)
      PROVE  Control'
  <2>1. Elsewhere(p) /\ Held' /\ Apart' /\ Drawn'
    BY <1>2, ElsewhereStep, HeldStep, DrawnStep
  <2>2. Traces'
    BY <1>2, <2>1, TraceKept, TraceStep DEF Traces
  <2>3. ASSUME pc'[p] # "idle" PROVE PlaceOf(p)'
    <3>1. CASE Step(p) \/ Signal(p)
      BY <2>3, <3>1, PlaceOfStep
    <3>2. CASE Ask(p)
      BY <3>2, PlaceOfDraw DEF Ask
    <3>3. CASE Die(p)
      BY <2>3, <3>3 DEF Die, Go, Control, TypeOK
    <3> QED
      BY <1>2, <3>1, <3>2, <3>3
  <2>4. ASSUME NEW q \in Procs \ {p}, pc'[q] # "idle" PROVE PlaceOf(q)'
    BY <2>1, <2>4, PlaceKept DEF Elsewhere
  <2> QED
    BY <1>1, <2>1, <2>2, <2>3, <2>4 DEF Control, Place
<1>3. CASE ToggleCautious \/ UNCHANGED vars
  <2>1. UNCHANGED <<status, artifact, noted, plan, target, granted, spawned,
                    answer, pc, cur, idx, term, saved>>
    BY <1>3 DEF ToggleCautious, vars, journalVars, askVars, procVars
  <2>2. Held' /\ Apart' /\ Drawn'
    BY <2>1 DEF Control, Held, Apart, Drawn, RollingBack, Request
  <2>3. Traces'
    BY <2>1 DEF Control, Traces, TraceOf, Authorised, SnapshotNoted
  <2>4. Place'
    BY <2>1 DEF Control, Place, PlaceOf, RollingBack, Request, Authorised, SnapshotNoted
  <2> QED
    BY <1>1, <2>2, <2>3, <2>4 DEF Control
<1> QED
  BY <1>2, <1>3 DEF Next

(* The processes, their tasks and the journal stay in the relation that    *)
(* Control describes, whatever the processes do and wherever they die.     *)
THEOREM ControlInvariance == Spec => []Control
  BY ControlInit, ControlStep, PTL DEF Spec

(* Every variable keeps its type.                                          *)
THEOREM TypeCorrect == Spec => []TypeOK
<1>1. Control => TypeOK
  BY DEF Control
<1> QED
  BY <1>1, ControlInvariance, PTL

(* No command starts without the consent its tier needs: there is no way   *)
(* round ApprovalPolicy.decide.                                            *)
THEOREM ConsentTheorem == Spec => []EffectsAuthorised
<1>1. Control => EffectsAuthorised
  BY DEF Control, Traces, TraceOf, Authorised, EffectsAuthorised
<1> QED
  BY <1>1, ControlInvariance, PTL

(* A refused request never starts a command.                               *)
THEOREM RefusalTheorem == Spec => []RefusedIsInert
<1>1. Control => RefusedIsInert
  BY DEF Control, Traces, TraceOf, RefusedIsInert, TypeOK
<1> QED
  BY <1>1, ControlInvariance, PTL

(* A command starts only for a task in the journal, with its snapshot      *)
(* attempt noted at tier 2.                                                *)
THEOREM JournalTheorem == Spec => []EffectsJournaled
<1>1. Control => EffectsJournaled
  BY DEF Control, Traces, TraceOf, SnapshotNoted, EffectsJournaled
<1> QED
  BY <1>1, ControlInvariance, PTL

-----------------------------------------------------------------------------
(* The kernel implements the ledger.                                       *)

(* The initial states map to the ledger's.                                 *)
LEMMA LedgerInit == Init => Ledger!Init
  BY DEF Init, Ledger!Init, PhaseOf, ReversalOf

(* A new status of one task is a new phase of it alone.                    *)
LEMMA PhaseMove ==
  ASSUME TypeOK, NEW t \in Tasks, NEW st, status' = [status EXCEPT ![t] = st]
  PROVE  [u \in Tasks |-> PhaseOf(status[u])]'
           = [[u \in Tasks |-> PhaseOf(status[u])] EXCEPT ![t] = PhaseOf(st)]
<1>1. status'[t] = st /\ \A u \in Tasks \ {t} : status'[u] = status[u]
  BY DEF TypeOK
<1>2. \A u \in Tasks : PhaseOf(status'[u]) = IF u = t THEN PhaseOf(st) ELSE PhaseOf(status[u])
  BY <1>1
<1> QED
  BY <1>2

(* A new status of one artifact is a new reversal of it alone.             *)
LEMMA ReversalMove ==
  ASSUME TypeOK, NEW t \in Tasks, NEW a, artifact' = [artifact EXCEPT ![t] = a]
  PROVE  [u \in Tasks |-> ReversalOf(artifact[u])]'
           = [[u \in Tasks |-> ReversalOf(artifact[u])] EXCEPT ![t] = ReversalOf(a)]
<1>1. artifact'[t] = a /\ \A u \in Tasks \ {t} : artifact'[u] = artifact[u]
  BY DEF TypeOK
<1>2. \A u \in Tasks :
        ReversalOf(artifact'[u]) = IF u = t THEN ReversalOf(a) ELSE ReversalOf(artifact[u])
  BY <1>1
<1> QED
  BY <1>2

(* A step of the kernel that leaves the ledger alone, or moves one task.   *)
LEMMA LedgerStep ==
  ASSUME Control, [Next]_vars
  PROVE  Ledger!Next \/ UNCHANGED Ledger!ledgerVars
<1> USE DEF journalVars, askVars, procVars
<1>0. ASSUME UNCHANGED <<status, artifact, spawned>>
      PROVE  UNCHANGED Ledger!ledgerVars
  BY <1>0 DEF Ledger!ledgerVars
<1>1. ASSUME NEW p \in Procs, Built(p)
      PROVE  UNCHANGED Ledger!ledgerVars
  BY <1>0, <1>1 DEF Built
<1>2. ASSUME NEW p \in Procs, NotBuilt(p)
      PROVE  UNCHANGED Ledger!ledgerVars
  BY <1>0, <1>2 DEF NotBuilt
<1>3. ASSUME NEW p \in Procs, Gate(p)
      PROVE  UNCHANGED Ledger!ledgerVars
  BY <1>0, <1>3 DEF Gate
<1>4. ASSUME NEW p \in Procs, Approve(p)
      PROVE  UNCHANGED Ledger!ledgerVars
  BY <1>0, <1>4 DEF Approve
<1>5. ASSUME NEW p \in Procs, Decline(p)
      PROVE  UNCHANGED Ledger!ledgerVars
  BY <1>0, <1>5 DEF Decline
<1>6. ASSUME NEW p \in Procs, Snapshot(p)
      PROVE  UNCHANGED Ledger!ledgerVars
  BY <1>0, <1>6 DEF Snapshot
<1>7. ASSUME NEW p \in Procs, Install(p)
      PROVE  UNCHANGED Ledger!ledgerVars
  BY <1>0, <1>7 DEF Install
<1>8. ASSUME NEW p \in Procs, InstallRaises(p)
      PROVE  UNCHANGED Ledger!ledgerVars
  BY <1>0, <1>8 DEF InstallRaises
<1>9. ASSUME NEW p \in Procs, SkipStep(p)
      PROVE  UNCHANGED Ledger!ledgerVars
  BY <1>0, <1>9 DEF SkipStep
<1>10. ASSUME NEW p \in Procs, NotStarted(p)
      PROVE  UNCHANGED Ledger!ledgerVars
  BY <1>0, <1>10 DEF NotStarted, EndStep
<1>11. ASSUME NEW p \in Procs, ChildEnds(p)
      PROVE  UNCHANGED Ledger!ledgerVars
  BY <1>0, <1>11 DEF ChildEnds, EndStep
<1>12. ASSUME NEW p \in Procs, Signal(p)
      PROVE  UNCHANGED Ledger!ledgerVars
  BY <1>0, <1>12 DEF Signal
<1>13. ASSUME NEW p \in Procs, LoopEnds(p)
      PROVE  UNCHANGED Ledger!ledgerVars
  BY <1>0, <1>13 DEF LoopEnds
<1>14. ASSUME NEW p \in Procs, Verify(p)
      PROVE  UNCHANGED Ledger!ledgerVars
  BY <1>0, <1>14 DEF Verify
<1>15. ASSUME NEW p \in Procs, VerifyRaises(p)
      PROVE  UNCHANGED Ledger!ledgerVars
  BY <1>0, <1>15 DEF VerifyRaises
<1>16. ASSUME NEW p \in Procs, CheckUndo(p)
      PROVE  UNCHANGED Ledger!ledgerVars
  BY <1>0, <1>16 DEF CheckUndo
<1>17. ASSUME NEW p \in Procs, RefuseUndo(p)
      PROVE  UNCHANGED Ledger!ledgerVars
  BY <1>0, <1>17 DEF RefuseUndo
<1>18. ASSUME NEW p \in Procs, Die(p)
      PROVE  UNCHANGED Ledger!ledgerVars
  BY <1>0, <1>18 DEF Die
<1>19. ASSUME NEW p \in Procs, Ask(p)
      PROVE  UNCHANGED Ledger!ledgerVars
  BY <1>0, <1>19 DEF Ask, Submit, AskUndo
<1>20. ASSUME NEW p \in Procs, NEW u \in Tasks, Rollback(p, u)
      PROVE  UNCHANGED Ledger!ledgerVars
  BY <1>0, <1>20 DEF Rollback
<1> SUFFICES ASSUME NEW p \in Procs,
             \/ RefuseBegin(p) \/ RefuseEnd(p) \/ Begin(p) \/ SpawnStep(p)
             \/ Settle(p) \/ Finish(p) \/ MarkApplied(p) \/ MarkUndone(p)
    PROVE Ledger!Next \/ UNCHANGED Ledger!ledgerVars
  BY <1>0, <1>1, <1>2, <1>3, <1>4, <1>5, <1>6, <1>7, <1>8, <1>9, <1>10, <1>11,
       <1>12, <1>13, <1>14, <1>15, <1>16, <1>17, <1>18, <1>19, <1>20 DEF Next,
       Step, vars, ToggleCautious
<1>21. pc[p] # "idle"
  BY DEF RefuseBegin, RefuseEnd, Begin, SpawnStep, InLoop, Settle, Finish,
         MarkApplied, MarkUndone
<1>22. PICK t \in Tasks : t = cur[p] /\ PlaceOf(p)
  BY <1>21 DEF Control, Held, Place
<1>23. CASE RefuseBegin(p)
  <2>1. status[t] = "none" /\ status' = [status EXCEPT ![t] = "running"]
    BY <1>22, <1>23 DEF RefuseBegin, PlaceOf, Unopened
  <2>2. Ledger!Open(t)
    BY <1>22, <1>23, <2>1, PhaseMove
       DEF Control, RefuseBegin, Ledger!Open, PhaseOf
  <2> QED
    BY <1>22, <2>2 DEF Ledger!Next
<1>24. CASE Begin(p)
  <2>1. status[t] = "none" /\ status' = [status EXCEPT ![t] = "running"]
    BY <1>22, <1>24 DEF Begin, PlaceOf, Unopened
  <2>2. Ledger!Open(t)
    BY <1>22, <1>24, <2>1, PhaseMove
       DEF Control, Begin, Ledger!Open, PhaseOf
  <2> QED
    BY <1>22, <2>2 DEF Ledger!Next
<1>25. CASE RefuseEnd(p)
  <2>1. /\ status[t] = "running" /\ spawned[t] = {}
        /\ status' = [status EXCEPT ![t] = "refused"]
    BY <1>22, <1>25 DEF RefuseEnd, PlaceOf
  <2>2. Ledger!Refuse(t)
    BY <1>22, <1>25, <2>1, PhaseMove
       DEF Control, RefuseEnd, Ledger!Refuse, PhaseOf
  <2> QED
    BY <1>22, <2>2 DEF Ledger!Next
<1>26. CASE SpawnStep(p)
  <2>1. /\ status[t] = "running" /\ artifact[t] = "none"
        /\ spawned' = [spawned EXCEPT ![t] = @ \cup {idx[p]}]
    BY <1>22, <1>26 DEF SpawnStep, InLoop, PlaceOf, Executing
  <2>2. Ledger!Act(t)
    BY <1>22, <1>26, <2>1 DEF Control, TypeOK, SpawnStep, Ledger!Act, PhaseOf, ReversalOf
  <2> QED
    BY <1>22, <2>2 DEF Ledger!Next
<1>27. CASE Settle(p)
  <2>1. status[t] = "running" /\ artifact[t] = "none"
    BY <1>22, <1>27 DEF Settle, PlaceOf, Executing
  <2>2. CASE artifact' = artifact
    BY <1>0, <1>27, <2>2 DEF Settle
  <2>3. CASE artifact' = [artifact EXCEPT ![t] = "available"]
    <3>1. Ledger!Offer(t)
      BY <1>22, <1>27, <2>1, <2>3, ReversalMove
         DEF Control, Settle, Ledger!Offer, PhaseOf, ReversalOf
    <3> QED
      BY <1>22, <3>1 DEF Ledger!Next
  <2> QED
    BY <1>22, <1>27, <2>2, <2>3 DEF Settle
<1>28. CASE Finish(p)
  <2>1. /\ status[t] \in {"running", "undone"} /\ term[p] \notin {"none", "running", "refused"}
        /\ status' = [status EXCEPT ![t] = term[p]]
    BY <1>22, <1>28 DEF Finish, PlaceOf, WithVerdict, Verdict, Control, TypeOK
  <2>2. CASE status[t] = "running"
    <3>1. Ledger!Close(t)
      BY <1>22, <1>28, <2>1, <2>2, PhaseMove
       DEF Control, Finish, Ledger!Close, PhaseOf
    <3> QED
      BY <1>22, <3>1 DEF Ledger!Next
  <2>3. CASE status[t] = "undone"
    <3>1. [u \in Tasks |-> PhaseOf(status[u])]'
            = [[u \in Tasks |-> PhaseOf(status[u])] EXCEPT ![t] = PhaseOf(term[p])]
      BY <1>22, <2>1, PhaseMove DEF Control
    <3>2. PhaseOf(term[p]) = PhaseOf(status[t])
      BY <2>1, <2>3 DEF PhaseOf
    <3>3. UNCHANGED [u \in Tasks |-> PhaseOf(status[u])]
      BY <1>22, <3>1, <3>2
    <3> QED
      BY <1>28, <3>3 DEF Finish, Ledger!ledgerVars
  <2> QED
    BY <2>1, <2>2, <2>3
<1>29. CASE MarkApplied(p)
  <2>1. PICK o \in Tasks :
          /\ o = target[t] /\ artifact[o] \in {"available", "applied"}
          /\ artifact' = [artifact EXCEPT ![o] = "applied"]
    <3>1. plan[t].kind = "undo" /\ artifact[target[t]] # "none"
      BY <1>22, <1>29 DEF MarkApplied, PlaceOf, ForUndo
    <3>2. target[t] \in Tasks
      BY <1>22, <3>1 DEF Control, Drawn
    <3>3. artifact[target[t]] \in {"available", "applied"}
      BY <3>1, <3>2 DEF Control, TypeOK
    <3> QED
      BY <1>22, <1>29, <3>2, <3>3 DEF MarkApplied
  <2>2. CASE artifact[o] = "available"
    <3>1. Ledger!Spend(o)
      BY <1>29, <2>1, <2>2, ReversalMove
         DEF Control, MarkApplied, Ledger!Spend, PhaseOf, ReversalOf
    <3> QED
      BY <2>1, <3>1 DEF Ledger!Next
  <2>3. CASE artifact[o] = "applied"
    BY <1>0, <1>29, <2>1, <2>3 DEF Control, TypeOK, MarkApplied
  <2> QED
    BY <2>1, <2>2, <2>3
<1>30. CASE MarkUndone(p)
  <2>1. PICK o \in Tasks :
          /\ o = target[t] /\ artifact[o] # "none"
          /\ status' = [status EXCEPT ![o] = "undone"]
    BY <1>22, <1>30 DEF MarkUndone, PlaceOf, ForUndo, Control, TypeOK, Drawn
  <2>2. status[o] \in {"running", "succeeded", "failed", "interrupted", "undone"}
    BY <2>1 DEF Control, TypeOK, Status, Traces, TraceOf
  <2>3. CASE status[o] = "running"
    <3>1. Ledger!Close(o)
      BY <1>30, <2>1, <2>3, PhaseMove
       DEF Control, MarkUndone, Ledger!Close, PhaseOf
    <3> QED
      BY <2>1, <3>1 DEF Ledger!Next
  <2>4. CASE status[o] # "running"
    <3>1. [u \in Tasks |-> PhaseOf(status[u])]'
            = [[u \in Tasks |-> PhaseOf(status[u])] EXCEPT ![o] = PhaseOf("undone")]
      BY <2>1, PhaseMove DEF Control
    <3>2. PhaseOf("undone") = PhaseOf(status[o])
      BY <2>2, <2>4 DEF PhaseOf
    <3>3. UNCHANGED [u \in Tasks |-> PhaseOf(status[u])]
      BY <2>1, <3>1, <3>2
    <3> QED
      BY <1>30, <3>3 DEF MarkUndone, Ledger!ledgerVars
  <2> QED
    BY <2>3, <2>4
<1> QED
  BY <1>23, <1>24, <1>25, <1>26, <1>27, <1>28, <1>29, <1>30

(* The kernel implements the ledger: a task acts only while it is open and *)
(* before its reverse path is offered, and its reverse path is spent once. *)
THEOREM Refinement == Spec => LedgerSpec
<1>1. Control /\ [Next]_vars => [Ledger!Next]_(Ledger!ledgerVars)
  BY LedgerStep
<1> QED
  BY <1>1, LedgerInit, ControlInvariance, PTL DEF Spec, LedgerSpec, Ledger!Spec

-----------------------------------------------------------------------------
(* History.                                                                *)

(* No step forgets an artifact or a refusal.                               *)
LEMMA HistoryLemma == ASSUME Control, [Next]_vars PROVE HistoryStep
<1> USE DEF journalVars, askVars
<1>1. ASSUME UNCHANGED <<status, artifact>> PROVE HistoryStep
  BY <1>1 DEF HistoryStep, Control, TypeOK
<1> SUFFICES ASSUME NEW p \in Procs, Step(p) \/ Ask(p) \/ Signal(p) \/ Die(p)
    PROVE  HistoryStep
  BY <1>1 DEF Next, vars, ToggleCautious
<1>2. Elsewhere(p)
  BY ElsewhereStep
<1>3. CASE pc[p] = "idle"
  BY <1>1, <1>3 DEF Step, Ask, Signal, Die, Submit, AskUndo, Built, NotBuilt, Gate,
         Approve, Decline, RefuseBegin, RefuseEnd, Begin, Snapshot, Install,
         InstallRaises, SkipStep, SpawnStep, NotStarted, ChildEnds, LoopEnds, Verify,
         VerifyRaises, Settle, Finish, Rollback, CheckUndo, RefuseUndo, MarkApplied,
         MarkUndone, InLoop
<1>4. CASE pc[p] # "idle"
  <2> DEFINE t == cur[p]
  <2>1. t \in Tasks /\ PlaceOf(p)
    BY <1>4 DEF Control, Held, Place
  <2>2. status[t] = "refused" => UNCHANGED status
    <3>1. SUFFICES ASSUME status[t] = "refused",
                     RefuseBegin(p) \/ RefuseEnd(p) \/ Begin(p) \/ Finish(p)
          PROVE  FALSE
      <4>1. status[t] = "refused" => ~MarkUndone(p)
        BY <2>1 DEF MarkUndone, PlaceOf
      <4> QED
        BY <4>1 DEF Step, Ask, Signal, Die, Submit, AskUndo, Built, NotBuilt,
             Gate, Approve,
         Decline, Snapshot, Install, InstallRaises, SkipStep, SpawnStep,
         NotStarted, ChildEnds, EndStep, LoopEnds, Verify, VerifyRaises, Settle, Rollback,
         CheckUndo, RefuseUndo, MarkApplied
    <3> QED
      BY <2>1, <3>1 DEF RefuseBegin, RefuseEnd, Begin, Finish, PlaceOf, Unopened
  <2>3. \A u \in Tasks : status[u] = "refused" => status'[u] = "refused"
    BY <1>2, <2>1, <2>2 DEF Elsewhere, Control, Traces, TraceOf
  <2>4. \A u \in Tasks : artifact[u] = "applied" => artifact'[u] = "applied"
    <3>1. CASE Settle(p)
      BY <2>1, <3>1 DEF Settle, PlaceOf, Executing, Control, TypeOK
    <3>2. CASE MarkApplied(p)
      BY <3>2 DEF MarkApplied, Control, TypeOK
    <3>3. CASE ~Settle(p) /\ ~MarkApplied(p)
      BY <3>3 DEF Step, Ask, Signal, Die, Submit, AskUndo, Built, NotBuilt,
           Gate, Approve,
         Decline, RefuseBegin, RefuseEnd, Begin, Snapshot, Install, InstallRaises,
         SkipStep, SpawnStep, NotStarted, ChildEnds, EndStep, LoopEnds, Verify,
         VerifyRaises, Finish, Rollback, CheckUndo, RefuseUndo, MarkUndone
    <3> QED
      BY <3>1, <3>2, <3>3
  <2> QED
    BY <1>2, <2>3, <2>4 DEF Elsewhere, HistoryStep
<1> QED
  BY <1>3, <1>4

(* A consumed artifact stays consumed and a refusal is final.              *)
THEOREM HistoryTheorem == Spec => HistoryIsKept
<1>1. Control /\ [Next]_vars => [HistoryStep]_vars
  BY HistoryLemma
<1> QED
  BY <1>1, ControlInvariance, PTL DEF Spec, HistoryIsKept

-----------------------------------------------------------------------------
(* The rows of the tasks.                                                  *)

Ours(p) == Step(p) \/ Ask(p) \/ Signal(p) \/ Die(p)

(* What a step of p leaves of the rows: those of other tasks, the consumed *)
(* artifacts, and the status of a task but for an undo.                    *)
Beside(p) ==
  /\ \A t \in Tasks \ {cur[p]} :
       /\ steps'[t] = steps[t]
       /\ status'[t] = status[t] \/ (status'[t] = "undone" /\ artifact[t] = "applied")
  /\ \A t \in Tasks : artifact[t] = "applied" => artifact'[t] = "applied"
  /\ \A t \in Tasks :
       plan[t].kind = "none" /\ plan'[t].kind = "undo" =>
         ~Storable(plan'[t]) /\ plan'[t].optional = {}

(* An undo has no artifact of its own and no optional step.                *)
LEMMA UndoIsPlain ==
  ASSUME NEW r \in Plans
  PROVE  ~Storable(UndoOf(r)) /\ UndoOf(r).optional = {} /\ UndoOf(r).kind = "undo"
  BY DEF UndoOf, NoPlan, Storable

(* Which plans a step can add.                                             *)
LEMMA DrawnPlan ==
  ASSUME IInv, NEW p \in Procs, Ours(p), NEW t \in Tasks,
         plan[t].kind = "none", plan'[t].kind = "undo"
  PROVE  ~Storable(plan'[t]) /\ plan'[t].optional = {}
<1> USE DEF IInv, Control, TypeOK
<1>1. CASE \E u \in Tasks, r \in Requests : Submit(p, u, r)
  BY <1>1, RequestsAssumption DEF Submit
<1>2. CASE \E s, u \in Tasks : AskUndo(p, s, u)
  <2>1. PICK s \in Tasks, u \in Tasks : AskUndo(p, s, u)
    BY <1>2
  <2>2. plan' = [plan EXCEPT ![u] = UndoOf(plan[s])]
    BY <2>1 DEF AskUndo
  <2>3. t = u
    BY <2>2
  <2> QED
    BY <2>2, <2>3, UndoIsPlain
<1>3. CASE \E u \in Tasks : Rollback(p, u)
  <2>1. PICK u \in Tasks : Rollback(p, u)
    BY <1>3
  <2>2. plan' = [plan EXCEPT ![u] = UndoOf(plan[cur[p]])] /\ cur[p] \in Tasks
    BY <2>1, HeldIds DEF Rollback
  <2>3. t = u
    BY <2>2
  <2> QED
    BY <2>2, <2>3, UndoIsPlain
<1>4. CASE UNCHANGED plan
  BY <1>4
<1>5. \/ \E u \in Tasks, r \in Requests : Submit(p, u, r)
      \/ \E s, u \in Tasks : AskUndo(p, s, u)
      \/ \E u \in Tasks : Rollback(p, u)
      \/ UNCHANGED plan
  BY DEF Ours, Step, Ask, Signal, Die, Built, NotBuilt, Gate, Approve, Decline,
         RefuseBegin, RefuseEnd, Begin, Snapshot, Install, InstallRaises, SkipStep,
         SpawnStep, NotStarted, ChildEnds, EndStep, LoopEnds, Verify, VerifyRaises,
         Settle, Finish, CheckUndo, RefuseUndo, MarkApplied, MarkUndone, askVars
<1> QED
  BY <1>1, <1>2, <1>3, <1>4, <1>5

(* A step of a process writes the rows of its own task only.               *)
LEMMA BesideStep ==
  ASSUME IInv, NEW p \in Procs, Ours(p)
  PROVE  Beside(p)
<1> USE DEF journalVars, askVars
<1>0. TypeOK /\ Control
  BY DEF IInv, Control
<1>1. \A t \in Tasks \ {cur[p]} : steps'[t] = steps[t]
  BY <1>0 DEF Ours, Step, Ask, Signal, Die, Submit, AskUndo, Built, NotBuilt, Gate,
         Approve, Decline, RefuseBegin, RefuseEnd, Begin, Snapshot, Install,
         InstallRaises, SkipStep, SpawnStep, NotStarted, ChildEnds, EndStep,
         RecordStep, LoopEnds, Verify, VerifyRaises, Settle, Finish, Rollback,
         CheckUndo, RefuseUndo, MarkApplied, MarkUndone, TypeOK
<1>2. \A t \in Tasks \ {cur[p]} :
        status'[t] = status[t] \/ (status'[t] = "undone" /\ artifact[t] = "applied")
  <2>1. CASE MarkUndone(p)
    BY <2>1, <1>0 DEF MarkUndone, IInv, Progress, ProgressOf, TypeOK
  <2>2. CASE ~MarkUndone(p)
    BY <2>2, <1>0 DEF Ours, Step, Ask, Signal, Die, Submit, AskUndo, Built, NotBuilt,
         Gate, Approve, Decline, RefuseBegin, RefuseEnd, Begin, Snapshot, Install,
         InstallRaises, SkipStep, SpawnStep, NotStarted, ChildEnds, EndStep,
         LoopEnds, Verify, VerifyRaises, Settle, Finish, Rollback,
         CheckUndo, RefuseUndo, MarkApplied, TypeOK
  <2> QED
    BY <2>1, <2>2
<1>3. \A t \in Tasks : artifact[t] = "applied" => artifact'[t] = "applied"
  BY <1>0, HistoryLemma DEF HistoryStep, Ours, Next
<1>4. \A t \in Tasks :
       plan[t].kind = "none" /\ plan'[t].kind = "undo" =>
         ~Storable(plan'[t]) /\ plan'[t].optional = {}
  BY DrawnPlan
<1> QED
  BY <1>1, <1>2, <1>3, <1>4 DEF Beside

(* A task that a step does not touch keeps its record.                     *)
LEMMA RecordKept ==
  ASSUME IInv, NEW p \in Procs, Elsewhere(p), Beside(p), NEW t \in Tasks \ {cur[p]}
  PROVE  RecordOf(t)'
<1>1. /\ RecordOf(t)
      /\ steps'[t] = steps[t] /\ spawned'[t] = spawned[t] /\ answer'[t] = answer[t]
      /\ status'[t] = status[t] \/ (status'[t] = "undone" /\ artifact[t] = "applied")
      /\ artifact[t] # "none" => artifact'[t] # "none"
      /\ artifact[t] = "applied" => artifact'[t] = "applied"
  BY DEF IInv, Records, Elsewhere, Beside
<1>2. CASE plan[t].kind # "none"
  <2>1. plan'[t] = plan[t]
    BY <1>2 DEF Elsewhere
  <2>2. Faithful(t)'
    BY <1>1, <2>1 DEF RecordOf, Faithful
  <2>3. plan'[t].kind = "none" => Blank(t)'
    BY <1>2, <2>1
  <2>4. plan'[t].kind = "undo" => ~Storable(plan'[t]) /\ plan'[t].optional = {}
    BY <1>1, <2>1 DEF RecordOf
  <2>5. Finished(t)' => Written(t)' /\ Offered(t)'
    BY <1>1, <2>1 DEF RecordOf, Finished, Written, Offered
  <2>6. status'[t] = "succeeded" => NoFailure(t)'
    BY <1>1, <2>1 DEF RecordOf, NoFailure
  <2>7. status'[t] = "undone" => artifact'[t] = "applied"
    BY <1>1 DEF RecordOf
  <2>8. status'[t] # "none" /\ answer'[t] \notin {"none", "dropped"} =>
          status'[t] \in {answer'[t], "undone"}
    <3>1. artifact[t] # "none" => status[t] # "none"
      BY DEF IInv, Control, Traces, TraceOf
    <3> QED
      BY <1>1, <3>1 DEF RecordOf
  <2> QED
    BY <2>2, <2>3, <2>4, <2>5, <2>6, <2>7, <2>8 DEF RecordOf
<1>3. CASE plan[t].kind = "none"
  <2>1. Blank(t)'
    BY <1>1, <1>3 DEF RecordOf, Blank
  <2>2. status[t] = "none" /\ artifact[t] = "none" /\ status'[t] = "none"
    BY <1>1, <1>3 DEF IInv, Control, Drawn
  <2>3. Faithful(t)'
    BY <2>1 DEF Blank, Faithful
  <2>4. plan'[t].kind = "undo" => ~Storable(plan'[t]) /\ plan'[t].optional = {}
    BY <1>3 DEF Beside
  <2> QED
    BY <2>1, <2>2, <2>3, <2>4 DEF RecordOf, Finished
<1> QED
  BY <1>2, <1>3

(* Another process finds the rows of its task as it left them.             *)
LEMMA ProgressKept ==
  ASSUME IInv, NEW p \in Procs, Elsewhere(p), Beside(p), NEW q \in Procs \ {p}
  PROVE  ProgressOf(q)'
<1>1. /\ ProgressOf(q)
      /\ pc'[q] = pc[q] /\ cur'[q] = cur[q] /\ term'[q] = term[q]
      /\ idx'[q] = idx[q] /\ saved'[q] = saved[q]
      /\ RollingBack(q)' <=> RollingBack(q)
  BY DEF Elsewhere, RollingBack, IInv, Progress
<1>2. CASE pc[q] = "idle"
  <2>1. ~RollingBack(q) /\ term[q] = "none"
    BY <1>1, <1>2 DEF IInv, Control, Held, RollingBack, ProgressOf
  <2> QED
    BY <1>1, <1>2, <2>1 DEF ProgressOf, Before, After, Unopened
<1>3. CASE pc[q] # "idle"
  <2> DEFINE t == cur[q]
  <2>1. t \in Tasks \ {cur[p]} /\ plan[t].kind # "none"
    BY <1>3, IdsAssumption DEF IInv, Control, Held, Apart
  <2>2. /\ plan'[t] = plan[t] /\ target'[t] = target[t]
        /\ steps'[t] = steps[t] /\ spawned'[t] = spawned[t]
        /\ artifact[t] # "none" => artifact'[t] # "none"
    BY <2>1 DEF Elsewhere, Beside
  <2>3. /\ Blank(t) => Blank(t)'
        /\ Written(t) => Written(t)'
        /\ NoFailure(t) => NoFailure(t)'
        /\ Offered(t) => Offered(t)'
    BY <1>1, <2>2 DEF Blank, Written, NoFailure, Offered
  <2>4. LoopOf(q) => LoopOf(q)'
    BY <1>1, <2>2, <2>3 DEF LoopOf
  <2>5. pc[q] = "undone" => target[t] \in Tasks
    BY <1>3, <2>1 DEF IInv, Control, Place, PlaceOf, ForUndo, Drawn
  <2>6. pc[q] = "undone" => artifact'[target[t]] = "applied"
    BY <1>1, <2>5 DEF ProgressOf, Beside
  <2>7. RollingBack(q) => Written(target[t])' /\ artifact'[target[t]] # "none"
    <3>1. SUFFICES ASSUME RollingBack(q)
                   PROVE  Written(target[t])' /\ artifact'[target[t]] # "none"
      OBVIOUS
    <3> DEFINE s == target[t]
    <3>2. s \in Tasks /\ Request(s)
      BY <1>3, <3>1 DEF IInv, Control, Held
    <3>3. s # cur[p]
      <4>1. CASE pc[p] = "idle"
        BY <3>2, <4>1, IdsAssumption DEF IInv, Control, Held
      <4>2. CASE pc[p] # "idle"
        BY <1>3, <3>1, <4>2 DEF IInv, Control, Apart
      <4> QED
        BY <4>1, <4>2
    <3>4. plan'[s] = plan[s] /\ steps'[s] = steps[s] /\ artifact[s] # "none"
      BY <1>1, <3>1, <3>2, <3>3 DEF Elsewhere, Beside, Request, ProgressOf, ReturnOf
    <3>5. Written(s)
      BY <1>1, <3>1 DEF ProgressOf, ReturnOf
    <3>6. Written(s)'
      BY <1>1, <2>2, <3>4, <3>5 DEF Written
    <3> QED
      BY <3>2, <3>4, <3>6 DEF Elsewhere
  <2>8. RollingBack(q) => ReturnOf(q)'
    BY <1>1, <2>2, <2>7 DEF ProgressOf, ReturnOf, Written
  <2> QED
    BY <1>1, <2>2, <2>3, <2>4, <2>6, <2>8 DEF ProgressOf
<1> QED
  BY <1>2, <1>3

-----------------------------------------------------------------------------
(* The record of the task a process works on.                              *)

(* What the invariant says of a process that is not idle, and its task.    *)
LEMMA Here ==
  ASSUME IInv, NEW p \in Procs, NEW t, t = cur[p], pc[p] # "idle"
  PROVE  /\ t \in Tasks /\ plan[t] \in Plans /\ plan[t].kind # "none"
         /\ answer[t] = "none"
         /\ RecordOf(t) /\ ProgressOf(p) /\ PlaceOf(p)
         /\ plan[t].n \in 1..MaxSteps /\ plan[t].optional \in SUBSET (1..MaxSteps)
         /\ idx[p] \in 1..(MaxSteps + 1)
         /\ steps[t] \in [1..MaxSteps -> {"none", "succeeded", "failed", "skipped"}]
         /\ spawned[t] \in SUBSET (1..MaxSteps)
         /\ pc[p] = "child" => idx[p] <= plan[t].n
<1>1. t \in Tasks /\ plan[t].kind # "none" /\ answer[t] = "none"
  BY DEF IInv, Control, Held
<1>2. plan[t] \in Plans
  BY <1>1 DEF IInv, Control, TypeOK
<1>3. plan[t].n \in 1..MaxSteps /\ plan[t].optional \in SUBSET (1..MaxSteps)
  BY <1>2 DEF Plans
<1>4. RecordOf(t) /\ ProgressOf(p) /\ PlaceOf(p)
  BY <1>1 DEF IInv, Control, Records, Progress, Place
<1>5. /\ idx[p] \in 1..(MaxSteps + 1)
      /\ steps[t] \in [1..MaxSteps -> {"none", "succeeded", "failed", "skipped"}]
      /\ spawned[t] \in SUBSET (1..MaxSteps)
  BY <1>1 DEF IInv, Control, TypeOK
<1>6. pc[p] = "child" => idx[p] <= plan[t].n
  BY DEF IInv, Control, Held
<1> QED
  BY <1>1, <1>2, <1>3, <1>4, <1>5, <1>6

(* The row that a step of the loop writes.                                 *)
LEMMA RowWritten ==
  ASSUME IInv, NEW p \in Procs, NEW t \in Tasks, t = cur[p],
         pc[p] \in {"loop", "child"}, idx[p] <= plan[t].n,
         NEW row, RecordStep(p, row)
  PROVE  /\ idx[p] \in 1..MaxSteps
         /\ steps'[t] = [steps[t] EXCEPT ![idx[p]] = row]
         /\ steps'[t][idx[p]] = row
         /\ \A k \in 1..MaxSteps : k # idx[p] => steps'[t][k] = steps[t][k]
         /\ idx'[p] = idx[p] + 1
<1>1. idx[p] \in 1..MaxSteps
  BY Here, IdsAssumption
<1>2. steps' = [steps EXCEPT ![t][idx[p]] = row] /\ idx' = [idx EXCEPT ![p] = idx[p] + 1]
  BY DEF RecordStep
<1>3. steps \in [Tasks -> [1..MaxSteps -> {"none", "succeeded", "failed", "skipped"}]]
  BY DEF IInv, Control, TypeOK
<1>4. steps'[t] = [steps[t] EXCEPT ![idx[p]] = row]
  BY <1>2, <1>3
<1>5. idx'[p] = idx[p] + 1
  BY <1>2 DEF IInv, Control, TypeOK
<1>6. DOMAIN steps[t] = 1..MaxSteps
  BY <1>3
<1> QED
  BY <1>1, <1>4, <1>5, <1>6

(* A step of a plan that ends, or is not reached, keeps the record: the    *)
(* commands started so far are those of the rows before and of this one.   *)
LEMMA RowRecord ==
  ASSUME IInv, NEW p \in Procs, NEW t \in Tasks, t = cur[p],
         pc[p] \in {"loop", "child"}, idx[p] <= plan[t].n,
         NEW row \in {"succeeded", "failed", "skipped"}, RecordStep(p, row),
         row = "succeeded" => idx[p] \in spawned[t],
         row = "skipped" => idx[p] \notin spawned[t],
         plan'[t] = plan[t],
         UNCHANGED <<spawned, status, artifact, answer>>
  PROVE  RecordOf(t)'
<1>0. /\ answer[t] = "none" /\ RecordOf(t) /\ status[t] = "running"
      /\ plan[t].kind # "none" /\ LoopOf(p)
      /\ spawned[t] \in SUBSET (1..MaxSteps) /\ idx[p] \in Nat
  BY Here DEF PlaceOf, Executing, ProgressOf
<1>a. /\ idx[p] \in 1..MaxSteps
      /\ steps'[t] = [steps[t] EXCEPT ![idx[p]] = row]
      /\ steps'[t][idx[p]] = row
      /\ \A k \in 1..MaxSteps : k # idx[p] => steps'[t][k] = steps[t][k]
      /\ idx'[p] = idx[p] + 1
  BY RowWritten
<1>1. /\ steps'[t][idx[p]] = row /\ idx[p] \in 1..MaxSteps
      /\ \A k \in 1..MaxSteps : k # idx[p] => steps'[t][k] = steps[t][k]
  BY <1>a
<1>2. \A j \in spawned[t] : j <= idx[p]
  BY <1>0, <1>1 DEF LoopOf
<1>3. Faithful(t)'
  <2>1. SUFFICES ASSUME NEW k \in 1..MaxSteps
                 PROVE  /\ steps'[t][k] = "succeeded" => k \in spawned[t]
                        /\ k \in spawned[t] => steps'[t][k] # "skipped"
                        /\ steps'[t][k] = "failed" /\ k \notin plan[t].optional =>
                             \A j \in spawned[t] : j <= k
    BY DEF Faithful
  <2>2. CASE k = idx[p]
    BY <1>1, <1>2, <2>2
  <2>3. CASE k # idx[p]
    BY <1>0, <1>1, <2>3 DEF RecordOf, Faithful
  <2> QED
    BY <2>2, <2>3
<1>4. status'[t] = "running" /\ answer'[t] = "none" /\ plan'[t].kind # "none"
  BY <1>0
<1> QED
  BY <1>0, <1>3, <1>4 DEF RecordOf, Finished

(* Which step of the loop writes which row.                                *)
LEMMA RowOf ==
  ASSUME IInv, NEW p \in Procs, NEW t, t = cur[p],
         SkipStep(p) \/ NotStarted(p) \/ ChildEnds(p)
  PROVE  /\ pc[p] \in {"loop", "child"} /\ idx[p] <= plan[t].n
         /\ UNCHANGED <<spawned, status, artifact, answer, plan, target, cur, saved>>
         /\ \/ /\ pc[p] = "loop" /\ Stopped(p) /\ RecordStep(p, "skipped")
               /\ pc' = pc /\ term' = term /\ idx[p] \notin spawned[t]
            \/ \E end \in {"ok", "failed", "killed"} :
                 /\ pc[p] = "child" \/ end = "failed"
                 /\ pc[p] = "child" => idx[p] \in spawned[t]
                 /\ term[p] = "none"
                 /\ RecordStep(p, IF end = "ok" THEN "succeeded" ELSE "failed")
                 /\ Go(p, "loop")
                 /\ term' = [term EXCEPT ![p] = Bearing(plan[t], idx[p], end)]
<1>1. CASE SkipStep(p)
  <2>1. /\ pc[p] = "loop" /\ idx[p] <= plan[t].n /\ Stopped(p) /\ RecordStep(p, "skipped")
        /\ UNCHANGED <<spawned, status, artifact, answer, plan, target, cur, saved, pc, term>>
    BY <1>1 DEF SkipStep, InLoop, askVars
  <2>2. \A k \in spawned[t] : k < idx[p]
    BY <2>1, Here DEF ProgressOf, LoopOf
  <2>3. idx[p] \in Nat
    BY <2>1, Here
  <2> QED
    BY <2>1, <2>2, <2>3
<1>2. CASE NotStarted(p)
  BY <1>2 DEF NotStarted, InLoop, Stopped, EndStep, askVars
<1>3. CASE ChildEnds(p)
  <2>1. /\ pc[p] = "child" /\ term[p] = "none" /\ idx[p] \in spawned[t]
        /\ idx[p] <= plan[t].n
    BY <1>3, Here DEF ChildEnds, ProgressOf, LoopOf
  <2> QED
    BY <1>3, <2>1 DEF ChildEnds, EndStep, askVars
<1> QED
  BY <1>1, <1>2, <1>3

(* The end of a handler tells the caller what the journal says.            *)
LEMMA LeaveRecord ==
  ASSUME IInv, NEW p \in Procs, NEW t \in Tasks, t = cur[p], pc[p] # "idle",
         NEW a, Leave(p, a), plan'[t] = plan[t],
         UNCHANGED <<spawned, artifact>>,
         \/ steps'[t] = steps[t] /\ status'[t] = status[t] /\ a = "dropped"
         \/ steps'[t] = steps[t] /\ status'[t] = "none"
         \/ status'[t] = "refused" /\ a = "refused" /\ spawned[t] = {}
            /\ \A k \in 1..MaxSteps : steps'[t][k] \in {"none", "skipped"}
         \/ steps'[t] = steps[t] /\ status'[t] = a /\ Written(t) /\ Offered(t)
            /\ (a = "succeeded" => NoFailure(t))
            /\ (a = "undone" => artifact[t] = "applied")
  PROVE  RecordOf(t)'
<1>1. /\ answer'[t] = a /\ plan[t].kind # "none" /\ RecordOf(t)
      /\ spawned'[t] = spawned[t] /\ artifact'[t] = artifact[t]
  BY Here DEF Leave, IInv, Control, TypeOK
<1>2. Faithful(t)'
  <2>1. CASE steps'[t] = steps[t]
    BY <1>1, <2>1 DEF RecordOf, Faithful
  <2>2. CASE spawned[t] = {} /\ \A k \in 1..MaxSteps : steps'[t][k] \in {"none", "skipped"}
    BY <1>1, <2>2 DEF Faithful
  <2> QED
    BY <2>1, <2>2
<1>3. Finished(t)' => Written(t)' /\ Offered(t)'
  BY <1>1 DEF RecordOf, Finished, Written, Offered
<1>4. status'[t] = "succeeded" => NoFailure(t)'
  BY <1>1 DEF RecordOf, NoFailure
<1>5. status'[t] = "undone" => artifact'[t] = "applied"
  BY <1>1 DEF RecordOf
<1>6. status'[t] # "none" /\ answer'[t] \notin {"none", "dropped"} =>
        status'[t] \in {answer'[t], "undone"}
  BY <1>1
<1> QED
  BY <1>1, <1>2, <1>3, <1>4, <1>5, <1>6 DEF RecordOf

(* Every step keeps the record of the task it works on.                    *)
LEMMA RecordStepKept ==
  ASSUME IInv, NEW p \in Procs, Ours(p), NEW t \in Tasks, t = cur[p]
  PROVE  RecordOf(t)'
<1> USE DEF journalVars, askVars
<1>0. /\ pc[p] # "idle" /\ plan[t].kind # "none" /\ answer[t] = "none"
      /\ RecordOf(t) /\ ProgressOf(p) /\ PlaceOf(p)
  <2>1. pc[p] # "idle"
    BY IdsAssumption DEF IInv, Control, Held
  <2> QED
    BY <2>1, Here
<1>1. Elsewhere(p) /\ plan'[t] = plan[t]
  BY <1>0, ElsewhereStep DEF Elsewhere, Ours, IInv
<1>2. ASSUME UNCHANGED <<steps, spawned, status, artifact, answer>>
      PROVE  RecordOf(t)'
  BY <1>0, <1>1, <1>2
     DEF RecordOf, Faithful, Blank, Finished, Written, Offered, NoFailure
<1>3. CASE Built(p) \/ Gate(p) \/ Approve(p) \/ Snapshot(p) \/ Install(p) \/ Signal(p)
           \/ LoopEnds(p) \/ Verify(p) \/ CheckUndo(p) \/ Die(p)
           \/ \E u \in Tasks : Rollback(p, u)
  BY <1>2, <1>3 DEF Built, Gate, Approve, Snapshot, Install, Signal, LoopEnds, Verify,
         CheckUndo, Die, Rollback
<1>4. CASE RefuseBegin(p) \/ Begin(p)
  <2>1. /\ status' = [status EXCEPT ![t] = "running"]
        /\ UNCHANGED <<steps, spawned, artifact, answer>>
    BY <1>4 DEF RefuseBegin, Begin
  <2>2. status'[t] = "running"
    BY <2>1 DEF IInv, Control, TypeOK
  <2> QED
    BY <1>0, <1>1, <2>1, <2>2 DEF RecordOf, Faithful, Finished
<1>5. CASE SkipStep(p) \/ NotStarted(p) \/ ChildEnds(p)
  <2>1. PICK row \in {"succeeded", "failed", "skipped"} :
          /\ RecordStep(p, row)
          /\ row = "succeeded" => idx[p] \in spawned[t]
          /\ row = "skipped" => idx[p] \notin spawned[t]
    BY <1>5, RowOf
  <2>2. /\ pc[p] \in {"loop", "child"} /\ idx[p] <= plan[t].n
        /\ UNCHANGED <<spawned, status, artifact, answer>>
    BY <1>5, RowOf
  <2> QED
    BY <1>1, <2>1, <2>2, RowRecord
<1>6. CASE SpawnStep(p)
  <2>1. /\ pc[p] = "loop" /\ term[p] = "none" /\ idx[p] <= plan[t].n
        /\ spawned' = [spawned EXCEPT ![t] = @ \cup {idx[p]}]
        /\ UNCHANGED <<steps, status, artifact, answer>>
    BY <1>6 DEF SpawnStep, InLoop, Stopped
  <2>2. spawned'[t] = spawned[t] \cup {idx[p]} /\ idx[p] \in 1..MaxSteps
    BY <2>1, Here, IdsAssumption DEF IInv, Control, TypeOK
  <2>3. LoopOf(p) /\ NoFailure(t) /\ status[t] = "running"
    BY <1>0, <2>1 DEF ProgressOf, LoopOf, PlaceOf, Executing
  <2>4. steps[t][idx[p]] = "none"
    BY <2>2, <2>3 DEF LoopOf
  <2>5. Faithful(t)'
    BY <1>0, <1>1, <2>1, <2>2, <2>3, <2>4 DEF RecordOf, Faithful, NoFailure
  <2> QED
    BY <1>0, <1>1, <2>1, <2>3, <2>5 DEF RecordOf, Finished
<1>7. CASE NotBuilt(p) \/ RefuseUndo(p) \/ (Decline(p) /\ plan[t].kind = "undo")
  <2>1. /\ UNCHANGED <<steps, status, spawned, artifact>>
        /\ \E a \in {"refused", "failed"} : Leave(p, a)
    BY <1>7 DEF NotBuilt, RefuseUndo, Decline
  <2>2. status'[t] = "none"
    BY <1>0, <1>7, <2>1 DEF NotBuilt, RefuseUndo, Decline, PlaceOf, Unopened
  <2> QED
    BY <1>0, <1>1, <2>1, <2>2, LeaveRecord
<1>8. CASE Decline(p) /\ plan[t].kind # "undo"
  BY <1>2, <1>8 DEF Decline
<1>9. CASE RefuseEnd(p)
  <2>1. /\ status' = [status EXCEPT ![t] = "refused"] /\ Leave(p, "refused")
        /\ steps' = [steps EXCEPT ![t] =
             [k \in 1..MaxSteps |->
                IF plan[t].kind = "intent" /\ k <= plan[t].n THEN "skipped" ELSE "none"]]
        /\ UNCHANGED <<spawned, artifact>>
    BY <1>9 DEF RefuseEnd
  <2>2. /\ status'[t] = "refused"
        /\ \A k \in 1..MaxSteps : steps'[t][k] \in {"none", "skipped"}
    BY <2>1 DEF IInv, Control, TypeOK
  <2>3. spawned[t] = {}
    BY <1>0, <1>9 DEF RefuseEnd, PlaceOf, Unopened
  <2> QED
    BY <1>0, <1>1, <2>1, <2>2, <2>3, LeaveRecord
<1>10. CASE InstallRaises(p) \/ VerifyRaises(p)
  <2>1. UNCHANGED <<steps, status, spawned, artifact>> /\ Leave(p, "dropped")
    BY <1>10 DEF InstallRaises, VerifyRaises
  <2> QED
    BY <1>0, <1>1, <2>1, LeaveRecord
<1>11. CASE Settle(p)
  <2>1. status[t] = "running" /\ UNCHANGED <<steps, spawned, status, answer>>
    BY <1>0, <1>11 DEF Settle, PlaceOf, Executing
  <2> QED
    BY <1>0, <1>1, <2>1 DEF RecordOf, Faithful, Finished
<1>12. CASE Finish(p)
  <2>1. /\ pc[p] = "finish" /\ status' = [status EXCEPT ![t] = term[p]]
        /\ Leave(p, term[p]) /\ UNCHANGED <<steps, spawned, artifact>>
    BY <1>12 DEF Finish
  <2>2. status'[t] = term[p] /\ term[p] # "undone"
    BY <2>1 DEF IInv, Control, TypeOK, Verdict
  <2>3. Written(t) /\ Offered(t) /\ (term[p] = "succeeded" => NoFailure(t))
    BY <1>0, <2>1 DEF ProgressOf, After
  <2> QED
    BY <1>0, <1>1, <2>1, <2>2, <2>3, LeaveRecord
<1>13. CASE MarkApplied(p) \/ MarkUndone(p)
  <2>1. target[t] # t
    BY <1>0, <1>13 DEF MarkApplied, MarkUndone, PlaceOf, ForUndo, IInv, Control, Drawn
  <2>2. /\ UNCHANGED <<steps, spawned, answer>>
        /\ status'[t] = status[t] /\ artifact'[t] = artifact[t]
    BY <1>13, <2>1 DEF MarkApplied, MarkUndone, IInv, Control, TypeOK
  <2> QED
    BY <1>0, <1>1, <2>2
       DEF RecordOf, Faithful, Blank, Finished, Written, Offered, NoFailure
<1>14. ~Ask(p)
  BY <1>0 DEF Ask, Submit, AskUndo
<1> QED
  BY <1>3, <1>4, <1>5, <1>6, <1>7, <1>8, <1>9, <1>10, <1>11, <1>12, <1>13, <1>14
     DEF Ours, Step

-----------------------------------------------------------------------------
(* How far a process got.                                                  *)

(* A rollback comes back to a task whose rows are written.                 *)
LEMMA ReturnKept ==
  ASSUME IInv, NEW p \in Procs, pc[p] # "idle", Elsewhere(p), Beside(p),
         UNCHANGED <<cur, saved>>
  PROVE  RollingBack(p)' => ReturnOf(p)'
<1> SUFFICES ASSUME RollingBack(p)' PROVE ReturnOf(p)'
  OBVIOUS
<1> DEFINE t == cur[p]
           s == target[cur[p]]
<1>1. RollingBack(p) /\ ReturnOf(p) /\ t \in Tasks
  BY Here DEF RollingBack, ProgressOf
<1>2. s \in Tasks \ {t} /\ plan[s].kind # "none" /\ plan[t].kind # "none"
  BY <1>1 DEF IInv, Control, Held, Drawn
<1>3. /\ target'[t] = s /\ plan'[s] = plan[s] /\ steps'[s] = steps[s]
      /\ artifact'[s] # "none"
  BY <1>1, <1>2 DEF Elsewhere, Beside, ReturnOf
<1> QED
  BY <1>1, <1>3 DEF ReturnOf, Written

(* A process that stays ahead of _execute.                                 *)
LEMMA BeforeKept ==
  ASSUME IInv, NEW p \in Procs, pc[p] \in Before, NEW x \in Before, Go(p, x),
         Elsewhere(p), Beside(p), UNCHANGED <<cur, saved, term, steps, spawned>>
  PROVE  ProgressOf(p)'
<1>1. pc'[p] = x /\ pc[p] # "idle"
  BY DEF Go, IInv, Control, TypeOK, Before, Unopened
<1>2. Blank(cur[p])' /\ term'[p] = "none"
  BY <1>1, Here DEF ProgressOf, Blank
<1>3. RollingBack(p)' => ReturnOf(p)'
  BY <1>1, ReturnKept
<1> QED
  BY <1>1, <1>2, <1>3 DEF ProgressOf, Before, After, Unopened

(* A process that was asked starts on a task without rows.                 *)
LEMMA AskProgress ==
  ASSUME IInv, NEW p \in Procs, Ask(p)
  PROVE  ProgressOf(p)'
<1> USE DEF journalVars, askVars, Go
<1>1. PICK t \in Fresh : /\ pc[p] = "idle" /\ cur' = [cur EXCEPT ![p] = t]
                         /\ pc' \in {[pc EXCEPT ![p] = "build"], [pc EXCEPT ![p] = "check"]}
                         /\ UNCHANGED <<steps, spawned, term, saved>>
  <2>1. CASE \E t \in Tasks, r \in Requests : Submit(p, t, r)
    BY <2>1 DEF Submit
  <2>2. CASE \E t, u \in Tasks : AskUndo(p, t, u)
    BY <2>2 DEF AskUndo
  <2> QED
    BY <2>1, <2>2 DEF Ask
<1>2. cur'[p] = t /\ pc'[p] \in {"build", "check"} /\ t \in Tasks
  BY <1>1 DEF IInv, Control, TypeOK, Fresh
<1>3. Blank(t) /\ term[p] = "none" /\ saved[p] = "none"
  BY <1>1 DEF IInv, Records, RecordOf, Fresh, Progress, ProgressOf, Control, Held
<1>4. Blank(cur[p])' /\ term'[p] = "none" /\ ~RollingBack(p)'
  BY <1>1, <1>2, <1>3 DEF Blank, RollingBack
<1> QED
  BY <1>2, <1>4 DEF ProgressOf, Before, After, Unopened

(* A rollback leaves a task whose rows are written.                        *)
LEMMA RollbackProgress ==
  ASSUME IInv, NEW p \in Procs, NEW u \in Tasks, Rollback(p, u)
  PROVE  ProgressOf(p)'
<1> DEFINE t == cur[p]
<1>0. pc[p] = "rollback" /\ t \in Tasks /\ u \in Fresh /\ u # t
  BY Here DEF Rollback, Fresh
<1>1. ProgressOf(p) /\ PlaceOf(p) /\ plan[t].kind # "none"
  BY <1>0, Here
<1>2. /\ pc'[p] = "check" /\ cur'[p] = u /\ saved'[p] = term[p] /\ term'[p] = "none"
      /\ target'[u] = t /\ plan'[t] = plan[t]
      /\ UNCHANGED <<steps, spawned, artifact>>
  BY <1>0 DEF Rollback, Go, journalVars, IInv, Control, TypeOK
<1>3. Blank(u)
  BY <1>0 DEF IInv, Records, RecordOf, Fresh
<1>4. Blank(cur[p])'
  BY <1>2, <1>3 DEF Blank
<1>5. ReturnOf(p)'
  BY <1>0, <1>1, <1>2 DEF ReturnOf, Written, ProgressOf, PlaceOf, After
<1> QED
  BY <1>2, <1>4, <1>5 DEF ProgressOf, Before, After, Unopened

(* A process that leaves a handler is idle, or back at the task it had     *)
(* begun to roll back, whose rows are written.                             *)
LEMMA LeaveProgress ==
  ASSUME IInv, NEW p \in Procs, pc[p] # "idle", NEW a, Leave(p, a),
         Elsewhere(p), Beside(p)
  PROVE  ProgressOf(p)'
<1> DEFINE t == cur[p]
           s == target[cur[p]]
<1>1. saved'[p] = "none"
  BY DEF Leave, IInv, Control, TypeOK
<1>2. CASE RollingBack(p)
  <2>1. ReturnOf(p) /\ s \in Tasks \ {t} /\ plan[s].kind # "none"
    BY <1>2, Here DEF ProgressOf, IInv, Control, Held, Drawn
  <2>2. pc'[p] = "finish" /\ cur'[p] = s /\ term'[p] = saved[p]
    BY <1>2 DEF Leave, Go, IInv, Control, TypeOK
  <2>3. plan'[s] = plan[s] /\ steps'[s] = steps[s] /\ artifact'[s] # "none"
    BY <2>1 DEF Elsewhere, Beside, ReturnOf
  <2>4. Written(cur[p])' /\ Offered(cur[p])'
    BY <2>1, <2>2, <2>3 DEF ReturnOf, Written, Offered
  <2> QED
    BY <1>1, <2>1, <2>2, <2>4
       DEF ProgressOf, ReturnOf, RollingBack, Before, After, Unopened
<1>3. CASE ~RollingBack(p)
  <2>1. pc'[p] = "idle" /\ term'[p] = "none"
    BY <1>3 DEF Leave, Go, IInv, Control, TypeOK
  <2> QED
    BY <1>1, <2>1 DEF ProgressOf, RollingBack, Before, After, Unopened
<1> QED
  BY <1>2, <1>3

(* What is left to show of a process in the loop.                          *)
LEMMA LoopProgress ==
  ASSUME IInv, NEW p \in Procs, pc[p] # "idle", Elsewhere(p), Beside(p),
         UNCHANGED <<cur, saved>>, pc'[p] \in {"loop", "child"}, LoopOf(p)'
  PROVE  ProgressOf(p)'
<1>1. RollingBack(p)' => ReturnOf(p)'
  BY ReturnKept
<1>2. term'[p] # "succeeded"
  BY DEF LoopOf
<1> QED
  BY <1>1, <1>2 DEF ProgressOf, Before, After, Unopened

(* The loop starts without a row.                                          *)
LEMMA InstallProgress ==
  ASSUME IInv, NEW p \in Procs, Install(p), Elsewhere(p), Beside(p)
  PROVE  ProgressOf(p)'
<1>1. /\ pc[p] = "install" /\ cur' = cur /\ saved' = saved /\ term' = term
      /\ steps' = steps /\ spawned' = spawned /\ plan' = plan
      /\ pc'[p] = "loop" /\ idx'[p] = 1
  BY DEF Install, Go, journalVars, askVars, IInv, Control, TypeOK
<1>2. Blank(cur[p]) /\ term[p] = "none"
  BY <1>1, Here DEF ProgressOf, Before
<1>3. LoopOf(p)'
  <2>1. \A k \in 1..MaxSteps : steps'[cur[p]][k] = "none" /\ ~(k < 1)
    BY <1>1, <1>2, IdsAssumption DEF Blank
  <2> QED
    BY <1>1, <1>2, <2>1 DEF LoopOf, Blank, NoFailure
<1> QED
  BY <1>1, <1>3, LoopProgress

(* The loop writes its rows in order.                                      *)
LEMMA RowProgress ==
  ASSUME IInv, NEW p \in Procs, SkipStep(p) \/ NotStarted(p) \/ ChildEnds(p),
         Elsewhere(p), Beside(p)
  PROVE  ProgressOf(p)'
<1> DEFINE t == cur[p]
<1>0. /\ pc[p] \in {"loop", "child"} /\ idx[p] <= plan[t].n
      /\ UNCHANGED <<spawned, plan, target, cur, saved>>
  BY RowOf
<1>1. PICK row \in {"succeeded", "failed", "skipped"} :
        /\ RecordStep(p, row) /\ pc'[p] = "loop"
        /\ term'[p] \in {"none", "failed", "interrupted"}
        /\ row = "succeeded" \/ (row = "skipped" /\ term'[p] = term[p])
           \/ (row = "failed" /\ term[p] = "none"
               /\ (term'[p] = "none" => idx[p] \in plan[t].optional))
        /\ row = "succeeded" => term[p] = "none"
  <2>1. LoopOf(p)
    BY <1>0, Here DEF ProgressOf
  <2>2. CASE /\ pc[p] = "loop" /\ RecordStep(p, "skipped")
             /\ pc' = pc /\ term' = term
    BY <2>1, <2>2 DEF LoopOf
  <2>3. CASE \E end \in {"ok", "failed", "killed"} :
                 /\ term[p] = "none"
                 /\ RecordStep(p, IF end = "ok" THEN "succeeded" ELSE "failed")
                 /\ Go(p, "loop")
                 /\ term' = [term EXCEPT ![p] = Bearing(plan[t], idx[p], end)]
    <3>1. PICK end \in {"ok", "failed", "killed"} :
                 /\ term[p] = "none"
                 /\ RecordStep(p, IF end = "ok" THEN "succeeded" ELSE "failed")
                 /\ Go(p, "loop")
                 /\ term' = [term EXCEPT ![p] = Bearing(plan[t], idx[p], end)]
      BY <2>3
    <3>2. pc'[p] = "loop" /\ term'[p] = Bearing(plan[t], idx[p], end)
      BY <3>1 DEF Go, IInv, Control, TypeOK
    <3>3. CASE end = "ok"
      BY <3>1, <3>2, <3>3 DEF Bearing
    <3>4. CASE end = "failed"
      BY <3>1, <3>2, <3>4 DEF Bearing
    <3>5. CASE end = "killed"
      BY <3>1, <3>2, <3>5 DEF Bearing
    <3> QED
      BY <3>3, <3>4, <3>5
  <2> QED
    BY <2>2, <2>3, RowOf
<1>2. t \in Tasks /\ LoopOf(p) /\ idx[p] \in Nat /\ spawned[t] \in SUBSET (1..MaxSteps)
  BY <1>0, Here DEF ProgressOf
<1>3. /\ idx[p] \in 1..MaxSteps /\ idx'[p] = idx[p] + 1
      /\ steps'[t] = [steps[t] EXCEPT ![idx[p]] = row]
      /\ steps'[t][idx[p]] = row
      /\ \A k \in 1..MaxSteps : k # idx[p] => steps'[t][k] = steps[t][k]
  BY <1>0, <1>1, <1>2, RowWritten
<1>4. \A k \in 1..MaxSteps : steps'[t][k] # "none" <=> k < idx'[p]
  <2> SUFFICES ASSUME NEW k \in 1..MaxSteps
               PROVE  steps'[t][k] # "none" <=> k < idx'[p]
    OBVIOUS
  <2>1. CASE k = idx[p]
    BY <1>1, <1>2, <1>3, <2>1
  <2>2. CASE k # idx[p]
    <3>1. steps'[t][k] = steps[t][k] /\ (steps[t][k] # "none" <=> k < idx[p])
      BY <1>2, <1>3, <2>2 DEF LoopOf
    <3>2. k < idx[p] <=> k < idx[p] + 1
      BY <1>2, <2>2
    <3> QED
      BY <1>3, <3>1, <3>2
  <2> QED
    BY <2>1, <2>2
<1>5. \A k \in spawned'[t] : k < idx'[p]
  BY <1>0, <1>2, <1>3 DEF LoopOf
<1>6. term'[p] = "none" => NoFailure(t)'
  <2> SUFFICES ASSUME term'[p] = "none", NEW k \in 1..MaxSteps,
                      steps'[t][k] = "failed"
               PROVE  k \in plan[t].optional
    BY <1>0 DEF NoFailure
  <2>1. NoFailure(t)
    BY <1>1, <1>2 DEF LoopOf
  <2>2. CASE k = idx[p]
    BY <1>1, <1>3, <2>2
  <2>3. CASE k # idx[p]
    BY <1>3, <2>1, <2>3 DEF NoFailure
  <2> QED
    BY <2>2, <2>3
<1>7. LoopOf(p)'
  BY <1>0, <1>1, <1>4, <1>5, <1>6 DEF LoopOf
<1> QED
  BY <1>0, <1>1, <1>7, LoopProgress

(* A command starts at the loop's index.                                   *)
LEMMA SpawnProgress ==
  ASSUME IInv, NEW p \in Procs, SpawnStep(p), Elsewhere(p), Beside(p)
  PROVE  ProgressOf(p)'
<1> DEFINE t == cur[p]
<1>1. /\ pc[p] = "loop" /\ term[p] = "none" /\ idx[p] <= plan[t].n
      /\ spawned' = [spawned EXCEPT ![t] = @ \cup {idx[p]}]
      /\ UNCHANGED <<steps, plan, cur, idx, term, saved>> /\ pc'[p] = "child"
  BY DEF SpawnStep, InLoop, Stopped, Go, journalVars, IInv, Control, TypeOK
<1>2. t \in Tasks /\ LoopOf(p)
  BY <1>1, Here DEF ProgressOf
<1>3. spawned'[t] = spawned[t] \cup {idx[p]}
  BY <1>1, <1>2 DEF IInv, Control, TypeOK
<1>4. LoopOf(p)'
  <2>1. NoFailure(t)'
    BY <1>1, <1>2 DEF LoopOf, NoFailure
  <2>2. \A k \in spawned'[t] : k < idx[p] \/ k = idx[p]
    BY <1>1, <1>2, <1>3 DEF LoopOf
  <2> QED
    BY <1>1, <1>2, <1>3, <2>1, <2>2 DEF LoopOf
<1> QED
  BY <1>1, <1>4, LoopProgress

(* The end of the loop, the verification and the undo artifact.            *)
LEMMA AfterProgress ==
  ASSUME IInv, NEW p \in Procs, Elsewhere(p), Beside(p),
         LoopEnds(p) \/ Verify(p) \/ Settle(p) \/ MarkApplied(p) \/ MarkUndone(p)
  PROVE  ProgressOf(p)'
<1> DEFINE t == cur[p]
<1> USE DEF journalVars, askVars
<1>0. /\ pc[p] # "idle" /\ UNCHANGED <<cur, saved, plan, target, steps, spawned>>
  BY DEF LoopEnds, Verify, Settle, MarkApplied, MarkUndone
<1>1. /\ t \in Tasks /\ ProgressOf(p) /\ PlaceOf(p) /\ RecordOf(t)
      /\ plan[t].n \in 1..MaxSteps
      /\ RollingBack(p)' => ReturnOf(p)'
  BY <1>0, Here, ReturnKept
<1>2. /\ Written(t) => Written(t)'
      /\ NoFailure(t) => NoFailure(t)'
      /\ plan[t].kind = "undo" => Offered(t)'
  BY <1>0, <1>1 DEF Written, NoFailure, Offered, RecordOf
<1>3. CASE LoopEnds(p)
  <2>1. /\ pc[p] = "loop" /\ idx[p] > plan[t].n /\ UNCHANGED <<term, artifact>>
        /\ pc'[p] = IF term[p] = "none" THEN "verify"
                    ELSE IF plan[t].kind = "undo" THEN "finish" ELSE "settle"
    BY <1>3 DEF LoopEnds, Go, IInv, Control, TypeOK
  <2>2. LoopOf(p)
    BY <1>1, <2>1 DEF ProgressOf
  <2>3. Written(t)
    <3>1. idx[p] \in Nat
      BY <1>0, Here
    <3>2. \A k \in 1..plan[t].n : k \in 1..MaxSteps /\ k < idx[p]
      BY <1>1, <2>1, <3>1, IdsAssumption
    <3> QED
      BY <2>2, <3>2 DEF LoopOf, Written
  <2>4. term[p] # "succeeded" /\ (term[p] = "none" => NoFailure(t))
    BY <2>2 DEF LoopOf
  <2>5. pc'[p] = "finish" => plan[t].kind = "undo" /\ term[p] # "none"
    BY <2>1
  <2>6. pc'[p] = "verify" => term[p] = "none"
    BY <2>1
  <2>7. pc'[p] \in {"verify", "finish", "settle"}
    BY <2>1
  <2> QED
    BY <1>0, <1>1, <1>2, <2>1, <2>3, <2>4, <2>5, <2>6, <2>7
       DEF ProgressOf, Before, After, Unopened
<1>4. CASE Verify(p)
  <2>1. PICK v \in {"succeeded", "failed"} :
          /\ term'[p] = v /\ pc[p] = "verify" /\ artifact' = artifact
          /\ pc'[p] = IF plan[t].kind # "undo" THEN "settle"
                      ELSE IF v = "succeeded" THEN "applied" ELSE "finish"
    BY <1>4 DEF Verify, Go, IInv, Control, TypeOK
  <2>2. Written(t) /\ NoFailure(t)
    BY <1>1, <2>1 DEF ProgressOf, After
  <2>3. /\ pc'[p] \in {"settle", "applied", "finish"}
        /\ pc'[p] = "applied" => v = "succeeded"
        /\ pc'[p] = "finish" => plan[t].kind = "undo"
    BY <2>1
  <2> QED
    BY <1>0, <1>1, <1>2, <2>1, <2>2, <2>3 DEF ProgressOf, Before, After, Unopened
<1>5. CASE Settle(p)
  <2>1. /\ pc[p] = "settle" /\ term' = term
        /\ artifact' = IF Storable(plan[t])
                         THEN [artifact EXCEPT ![t] = "available"] ELSE artifact
        /\ pc'[p] = IF RollsBack(p) THEN "rollback" ELSE "finish"
    BY <1>5 DEF Settle, Go, IInv, Control, TypeOK
  <2>2. Offered(t)'
    <3>1. Storable(plan[t]) => artifact'[t] = "available"
      BY <1>1, <2>1 DEF IInv, Control, TypeOK
    <3> QED
      BY <1>0, <3>1 DEF Offered
  <2>3. Written(t) /\ (term[p] = "succeeded" => NoFailure(t))
    BY <1>1, <2>1 DEF ProgressOf, After
  <2>4. pc'[p] = "rollback" => term[p] \in {"failed", "interrupted"}
    BY <2>1 DEF RollsBack
  <2>5. pc'[p] \in {"rollback", "finish"}
    BY <2>1
  <2> QED
    BY <1>0, <1>1, <1>2, <2>1, <2>2, <2>3, <2>4, <2>5
       DEF ProgressOf, Before, After, Unopened
<1>6. CASE MarkApplied(p)
  <2>1. /\ pc[p] = "applied" /\ term' = term /\ pc'[p] = "undone"
        /\ artifact' = [artifact EXCEPT ![target[t]] = "applied"]
    BY <1>6 DEF MarkApplied, Go, IInv, Control, TypeOK
  <2>2. target[t] \in Tasks
    BY <1>1, <2>1 DEF PlaceOf, ForUndo, IInv, Control, Drawn
  <2>3. artifact'[target[t]] = "applied"
    BY <2>1, <2>2 DEF IInv, Control, TypeOK
  <2>4. Written(t) /\ NoFailure(t) /\ term[p] = "succeeded"
    BY <1>1, <2>1 DEF ProgressOf, After
  <2> QED
    BY <1>0, <1>1, <1>2, <2>1, <2>3, <2>4 DEF ProgressOf, Before, After, Unopened
<1>7. CASE MarkUndone(p)
  <2>1. pc[p] = "undone" /\ term' = term /\ pc'[p] = "finish" /\ artifact' = artifact
    BY <1>7 DEF MarkUndone, Go, IInv, Control, TypeOK
  <2>2. Written(t) /\ NoFailure(t) /\ plan[t].kind = "undo"
    BY <1>1, <2>1 DEF ProgressOf, After, PlaceOf, ForUndo
  <2> QED
    BY <1>0, <1>1, <1>2, <2>1, <2>2 DEF ProgressOf, Before, After, Unopened
<1> QED
  BY <1>3, <1>4, <1>5, <1>6, <1>7

(* Every step of a process takes it where its rows allow it to be.         *)
LEMMA ProgressStep ==
  ASSUME IInv, NEW p \in Procs, Ours(p), Elsewhere(p), Beside(p)
  PROVE  ProgressOf(p)'
<1> USE DEF journalVars, askVars
<1>1. CASE Ask(p)
  BY <1>1, AskProgress
<1>2. CASE \E u \in Tasks : Rollback(p, u)
  BY <1>2, RollbackProgress
<1>3. CASE Built(p) \/ Gate(p) \/ Approve(p) \/ RefuseBegin(p) \/ Begin(p) \/ Snapshot(p)
           \/ CheckUndo(p) \/ (Decline(p) /\ plan[cur[p]].kind # "undo")
  <2>1. /\ pc[p] \in Before /\ \E x \in Before : Go(p, x)
        /\ UNCHANGED <<cur, saved, term, steps, spawned>>
    BY <1>3 DEF Built, Gate, Approve, RefuseBegin, Begin, Snapshot, CheckUndo, Decline,
           Before, Unopened
  <2> QED
    BY <2>1, BeforeKept
<1>4. CASE NotBuilt(p) \/ RefuseEnd(p) \/ InstallRaises(p) \/ VerifyRaises(p) \/ Finish(p)
           \/ RefuseUndo(p) \/ (Decline(p) /\ plan[cur[p]].kind = "undo")
  <2>1. pc[p] # "idle" /\ \E a : Leave(p, a)
    BY <1>4 DEF NotBuilt, RefuseEnd, InstallRaises, VerifyRaises, Finish, RefuseUndo,
           Decline
  <2> QED
    BY <2>1, LeaveProgress
<1>5. CASE Install(p)
  BY <1>5, InstallProgress
<1>6. CASE SkipStep(p) \/ NotStarted(p) \/ ChildEnds(p)
  BY <1>6, RowProgress
<1>7. CASE SpawnStep(p)
  BY <1>7, SpawnProgress
<1>8. CASE Signal(p)
  <2>1. /\ pc[p] \in {"loop", "child"}
        /\ UNCHANGED <<cur, saved, pc, idx, term, steps, spawned, plan>>
    BY <1>8 DEF Signal
  <2>2. LoopOf(p)
    BY <2>1, Here DEF ProgressOf
  <2>3. LoopOf(p)'
    BY <2>1, <2>2 DEF LoopOf, NoFailure
  <2> QED
    BY <2>1, <2>3, LoopProgress
<1>9. CASE LoopEnds(p) \/ Verify(p) \/ Settle(p) \/ MarkApplied(p) \/ MarkUndone(p)
  BY <1>9, AfterProgress
<1>10. CASE Die(p)
  <2>1. pc'[p] = "idle" /\ term'[p] = "none" /\ saved'[p] = "none"
    BY <1>10 DEF Die, Go, IInv, Control, TypeOK
  <2> QED
    BY <2>1 DEF ProgressOf, RollingBack, Before, After, Unopened
<1> QED
  BY <1>1, <1>2, <1>3, <1>4, <1>5, <1>6, <1>7, <1>8, <1>9, <1>10 DEF Ours, Step

-----------------------------------------------------------------------------
(* The undo task behind a consumed artifact.                               *)

(* An undo task that reverses another is not reversed itself, and nobody   *)
(* draws its id again.                                                     *)
LEMMA BackerIs ==
  ASSUME IInv, NEW t \in Tasks, NEW u \in Tasks, target[u] = t
  PROVE  /\ plan[u].kind = "undo" /\ artifact[u] = "none" /\ ~Request(u)
         /\ plan[u].kind # "none"
<1>1. target[u] # NoTask /\ plan[u] \in Plans
  BY IdsAssumption DEF IInv, Control, TypeOK
<1>2. plan[u].kind = "undo"
  BY <1>1 DEF IInv, Control, Drawn, Request, Plans
<1> QED
  BY <1>2 DEF IInv, Control, Drawn, Request

(* The step of the process that works on the backer, which has only the    *)
(* good end left.                                                          *)
LEMMA BackerEnds ==
  ASSUME IInv, NEW p \in Procs, Ours(p), NEW t \in Tasks, NEW u \in Tasks,
         Backs(u, t), cur[p] = u
  PROVE  /\ steps'[u] = steps[u]
         /\ status'[u] \in {"running", "succeeded"}
         /\ cur'[p] = u => pc'[p] = "finish" /\ term'[p] = "succeeded"
<1> USE DEF journalVars, askVars
<1>1. pc[p] \in {"undone", "finish"} /\ term[p] = "succeeded" /\ target[u] = t
  BY DEF Backs
<1>2. t # u /\ target[t] # u /\ saved[p] # "undone" /\ plan[u].kind = "undo"
  <2>1. t # u /\ plan[u].kind = "undo"
    BY <1>1, BackerIs DEF IInv, Control, Drawn
  <2>2. target[t] = u => artifact[t] = "none"
    BY <1>1, BackerIs
  <2>3. artifact[t] # "none"
    BY <1>1, <2>1 DEF IInv, Control, Place, PlaceOf
  <2> QED
    BY <2>1, <2>2, <2>3 DEF IInv, Control, TypeOK, Verdict
<1>3. CASE MarkUndone(p)
  BY <1>1, <1>2, <1>3 DEF MarkUndone, Go, Backs, IInv, Control, TypeOK
<1>4. CASE Finish(p)
  <2>1. steps' = steps /\ status'[u] = "succeeded"
    BY <1>1, <1>4 DEF Finish, IInv, Control, TypeOK
  <2>2. cur'[p] # u
    BY <1>1, <1>2, <1>4, IdsAssumption DEF Finish, Leave, IInv, Control, TypeOK
  <2> QED
    BY <2>1, <2>2
<1>5. CASE Die(p)
  BY <1>1, <1>5, IdsAssumption DEF Die, Backs, IInv, Control, TypeOK
<1> QED
  BY <1>1, <1>3, <1>4, <1>5
     DEF Ours, Step, Ask, Signal, Submit, AskUndo, Built, NotBuilt, Gate, Approve,
         Decline, RefuseBegin, RefuseEnd, Begin, Snapshot, Install, InstallRaises,
         SkipStep, SpawnStep, NotStarted, ChildEnds, LoopEnds, Verify,
         VerifyRaises, Settle, Rollback, CheckUndo, RefuseUndo, MarkApplied,
         InLoop

(* Nobody comes to work on the backer of a task.                           *)
LEMMA BackerAlone ==
  ASSUME IInv, NEW p \in Procs, Ours(p), NEW u \in Tasks,
         plan[u].kind = "undo", cur[p] # u
  PROVE  cur'[p] # u
<1> USE DEF journalVars, askVars
<1>1. CASE \/ \E t \in Tasks, r \in Requests : Submit(p, t, r)
           \/ \E s, t \in Tasks : AskUndo(p, s, t)
           \/ \E t \in Tasks : Rollback(p, t)
  BY <1>1 DEF Submit, AskUndo, Rollback, Fresh, IInv, Control, TypeOK
<1>2. CASE cur' = cur
  BY <1>2
<1>3. CASE pc[p] # "idle" /\ \E a : Leave(p, a)
  <2>1. RollingBack(p) => target[cur[p]] # u
    BY <1>3 DEF IInv, Control, Held, Request
  <2> QED
    BY <1>3, <2>1, IdsAssumption DEF Leave, IInv, Control, TypeOK
<1>4. CASE Die(p)
  BY <1>4, IdsAssumption DEF Die, IInv, Control, TypeOK
<1>5. CASE Decline(p)
  BY <1>2, <1>3, <1>5 DEF Decline
<1>6. CASE NotBuilt(p) \/ RefuseEnd(p) \/ InstallRaises(p) \/ VerifyRaises(p)
           \/ Finish(p) \/ RefuseUndo(p)
  BY <1>3, <1>6 DEF NotBuilt, RefuseEnd, InstallRaises, VerifyRaises, Finish, RefuseUndo
<1> QED
  BY <1>1, <1>2, <1>4, <1>5, <1>6
     DEF Ours, Step, Ask, Signal, Built, Gate, Approve, RefuseBegin,
         Begin, Snapshot, Install, SkipStep, SpawnStep, NotStarted, ChildEnds,
         EndStep, LoopEnds, Verify, Settle, CheckUndo, MarkApplied, MarkUndone

(* A task that backs an undo goes on backing it.                           *)
LEMMA BacksKept ==
  ASSUME IInv, NEW p \in Procs, Ours(p), Elsewhere(p), Beside(p),
         NEW t \in Tasks, NEW u \in Tasks, Backs(u, t)
  PROVE  Backs(u, t)'
<1>1. plan[u].kind = "undo" /\ artifact[u] = "none" /\ target[u] = t
  BY BackerIs DEF Backs
<1>2. plan'[u] = plan[u] /\ target'[u] = t
  BY <1>1 DEF Elsewhere
<1>3. steps'[u] = steps[u] /\ status'[u] \in {"running", "succeeded"}
  <2>1. CASE cur[p] = u
    BY <2>1, BackerEnds
  <2>2. CASE cur[p] # u
    BY <1>1, <2>2 DEF Beside, Backs
  <2> QED
    BY <2>1, <2>2
<1>4. ASSUME NEW q \in Procs, cur'[q] = u
      PROVE  pc'[q] \in {"undone", "finish"} /\ term'[q] = "succeeded"
  <2>1. CASE q = p
    <3>1. cur[p] = u
      BY <1>1, <1>4, <2>1, BackerAlone
    <3> QED
      BY <1>4, <2>1, <3>1, BackerEnds
  <2>2. CASE q # p
    BY <1>4, <2>2 DEF Elsewhere, Backs
  <2> QED
    BY <2>1, <2>2
<1> QED
  BY <1>2, <1>3, <1>4 DEF Backs

(* An artifact is consumed by an undo whose rows are all good.             *)
LEMMA AppliedBacks ==
  ASSUME IInv, NEW p \in Procs, MarkApplied(p), NEW u, u = cur[p],
         NEW s, s = target[u]
  PROVE  /\ u \in Tasks /\ s \in Tasks
         /\ \A t \in Tasks \ {s} : artifact'[t] = artifact[t]
         /\ Backs(u, s)'
<1>1. /\ pc[p] = "applied" /\ UNCHANGED <<status, steps, plan, target, cur, term>>
      /\ artifact' = [artifact EXCEPT ![s] = "applied"]
      /\ pc' = [pc EXCEPT ![p] = "undone"]
  BY DEF MarkApplied, Go, askVars
<1>2. /\ u \in Tasks /\ plan[u] \in Plans /\ RecordOf(u) /\ ProgressOf(p) /\ PlaceOf(p)
      /\ plan[u].n \in 1..MaxSteps
      /\ steps[u] \in [1..MaxSteps -> {"none", "succeeded", "failed", "skipped"}]
  BY <1>1, Here
<1>3. plan[u].kind = "undo" /\ status[u] = "running" /\ term[p] = "succeeded"
  BY <1>1, <1>2 DEF PlaceOf, ForUndo, ProgressOf
<1>4. s \in Tasks /\ \A t \in Tasks \ {s} : artifact'[t] = artifact[t]
  BY <1>1, <1>2, <1>3 DEF IInv, Control, Drawn, TypeOK
<1>5. \A k \in 1..plan[u].n : steps[u][k] \in {"succeeded", "skipped"}
  <2>1. plan[u].optional = {} /\ Written(u) /\ NoFailure(u)
    BY <1>1, <1>2, <1>3 DEF RecordOf, ProgressOf, After
  <2>2. \A k \in 1..plan[u].n : k \in 1..MaxSteps
    BY <1>2, IdsAssumption
  <2> QED
    BY <1>2, <2>1, <2>2 DEF Written, NoFailure
<1>6. \A q \in Procs : cur[q] = u => q = p
  BY <1>1, <1>2, IdsAssumption DEF IInv, Control, Held, Apart
<1>7. pc'[p] = "undone"
  BY <1>1 DEF IInv, Control, TypeOK
<1> QED
  BY <1>1, <1>2, <1>3, <1>4, <1>5, <1>6, <1>7 DEF Backs

(* Every consumed artifact keeps its backer.                               *)
LEMMA BackedStep ==
  ASSUME IInv, NEW p \in Procs, Ours(p), Elsewhere(p), Beside(p)
  PROVE  Backed'
<1> SUFFICES ASSUME NEW t \in Tasks, artifact'[t] = "applied"
             PROVE  \E u \in Tasks : Backs(u, t)'
  BY DEF Backed
<1>1. CASE artifact[t] = "applied"
  <2>1. PICK u \in Tasks : Backs(u, t)
    BY <1>1 DEF IInv, Backed
  <2> QED
    BY <2>1, BacksKept
<1>2. CASE artifact[t] # "applied"
  <2>1. MarkApplied(p)
    <3>1. CASE Settle(p)
      BY <1>2, <3>1 DEF Settle, IInv, Control, TypeOK
    <3> QED
      BY <1>2, <3>1 DEF Ours, Step, Ask, Signal, Die, Submit, AskUndo, Built, NotBuilt,
         Gate, Approve, Decline, RefuseBegin, RefuseEnd, Begin, Snapshot, Install,
         InstallRaises, SkipStep, SpawnStep, NotStarted, ChildEnds, EndStep, LoopEnds,
         Verify, VerifyRaises, Finish, Rollback, CheckUndo, RefuseUndo, MarkUndone,
         journalVars
  <2>2. PICK u : u = cur[p]
    OBVIOUS
  <2>3. PICK s : s = target[u]
    OBVIOUS
  <2>4. u \in Tasks /\ (\A x \in Tasks \ {s} : artifact'[x] = artifact[x]) /\ Backs(u, s)'
    BY <2>1, <2>2, <2>3, AppliedBacks
  <2>5. t = s
    BY <1>2, <2>4
  <2> QED
    BY <2>4, <2>5
<1> QED
  BY <1>1, <1>2

-----------------------------------------------------------------------------
(* The whole invariant.                                                    *)

(* It holds at first.                                                      *)
LEMMA IInvInit == Init => IInv
<1> SUFFICES ASSUME Init PROVE IInv
  OBVIOUS
<1>1. Control
  BY ControlInit
<1>2. Records
  <2> SUFFICES ASSUME NEW t \in Tasks PROVE RecordOf(t)
    BY DEF Records
  <2>1. Blank(t) /\ status[t] = "none" /\ plan[t] = NoPlan
    BY DEF Init, Blank
  <2>2. Faithful(t)
    BY <2>1 DEF Blank, Faithful
  <2> QED
    BY <2>1, <2>2 DEF RecordOf, Finished, NoPlan
<1>3. Progress
  BY DEF Init, Progress, ProgressOf, RollingBack, Before, After, Unopened
<1>4. Backed
  BY DEF Init, Backed
<1> QED
  BY <1>1, <1>2, <1>3, <1>4 DEF IInv

(* Every step keeps it.                                                    *)
LEMMA IInvStep == IInv /\ [Next]_vars => IInv'
<1> SUFFICES ASSUME IInv, [Next]_vars PROVE IInv'
  OBVIOUS
<1>1. Control'
  BY ControlStep DEF IInv
<1>2. ASSUME NEW p \in Procs, Ours(p) PROVE IInv'
  <2>1. Elsewhere(p) /\ Beside(p)
    BY <1>2, ElsewhereStep, BesideStep DEF IInv, Ours
  <2>2. Records'
    BY <1>2, <2>1, RecordKept, RecordStepKept DEF Records
  <2>3. Progress'
    BY <1>2, <2>1, ProgressKept, ProgressStep DEF Progress
  <2>4. Backed'
    BY <1>2, <2>1, BackedStep
  <2> QED
    BY <1>1, <2>2, <2>3, <2>4 DEF IInv
<1>3. CASE ToggleCautious \/ UNCHANGED vars
  <2>1. UNCHANGED <<status, steps, artifact, plan, target, spawned, answer, pc, cur,
                    idx, term, saved>>
    BY <1>3 DEF ToggleCautious, vars, journalVars, askVars, procVars
  <2>2. Records'
    BY <2>1 DEF IInv, Records, RecordOf, Faithful, Blank, Finished, Written, Offered,
           NoFailure
  <2>3. Progress'
    BY <2>1 DEF IInv, Progress, ProgressOf, LoopOf, ReturnOf, RollingBack, Blank,
           Written, Offered, NoFailure
  <2>4. Backed'
    BY <2>1 DEF IInv, Backed, Backs
  <2> QED
    BY <1>1, <2>2, <2>3, <2>4 DEF IInv
<1> QED
  BY <1>2, <1>3 DEF Next, Ours

(* The kernel's inductive invariant: who works on what, what the rows of a *)
(* task say at every point of _execute, and who consumed an artifact.      *)
THEOREM Invariance == Spec => []IInv
  BY IInvInit, IInvStep, PTL DEF Spec

(* After a required step of a plan failed, _execute starts no later one,   *)
(* whatever signals and deaths come between.                               *)
THEOREM StopTheorem == Spec => []NothingAfterFailure
<1>1. IInv => NothingAfterFailure
  <2> SUFFICES ASSUME IInv, NEW t \in Tasks, NEW k \in 1..plan[t].n,
                      steps[t][k] = "failed", k \notin plan[t].optional
               PROVE  \A j \in spawned[t] : j <= k
    BY DEF NothingAfterFailure
  <2>1. plan[t].n \in 1..MaxSteps
    BY DEF IInv, Control, TypeOK, Plans
  <2>2. k \in 1..MaxSteps
    BY <2>1, IdsAssumption
  <2> QED
    BY <2>2 DEF IInv, Records, RecordOf, Faithful
<1> QED
  BY <1>1, Invariance, PTL

(* A task whose status is final has a row for every step of its plan, rows *)
(* that agree with the commands, and its undo artifact.                    *)
THEOREM CompleteTheorem == Spec => []FinishedIsComplete
<1>1. IInv => FinishedIsComplete
  <2> SUFFICES ASSUME IInv, NEW t \in Tasks, Finished(t)
               PROVE  /\ \A k \in 1..plan[t].n :
                           /\ steps[t][k] # "none"
                           /\ steps[t][k] = "succeeded" => k \in spawned[t]
                           /\ k \in spawned[t] => steps[t][k] # "skipped"
                      /\ Storable(plan[t]) => artifact[t] # "none"
    BY DEF FinishedIsComplete
  <2>1. plan[t].n \in 1..MaxSteps
    BY DEF IInv, Control, TypeOK, Plans
  <2>2. \A k \in 1..plan[t].n : k \in 1..MaxSteps
    BY <2>1, IdsAssumption
  <2> QED
    BY <2>2 DEF IInv, Records, RecordOf, Faithful, Written, Offered
<1> QED
  BY <1>1, Invariance, PTL

(* What the journal and the caller are told of a task agrees, and success  *)
(* is never reported over a required step that failed.                     *)
THEOREM HonestyTheorem == Spec => []JournalIsHonest
<1>1. IInv => JournalIsHonest
  <2> SUFFICES ASSUME IInv, NEW t \in Tasks
               PROVE  /\ status[t] = "succeeded" =>
                           \A k \in 1..plan[t].n :
                             steps[t][k] = "failed" => k \in plan[t].optional
                      /\ status[t] # "none" /\ answer[t] \notin {"none", "dropped"} =>
                           status[t] \in {answer[t], "undone"}
    BY DEF JournalIsHonest
  <2>1. plan[t].n \in 1..MaxSteps
    BY DEF IInv, Control, TypeOK, Plans
  <2>2. \A k \in 1..plan[t].n : k \in 1..MaxSteps
    BY <2>1, IdsAssumption
  <2> QED
    BY <2>2 DEF IInv, Records, RecordOf, NoFailure
<1> QED
  BY <1>1, Invariance, PTL

(* Behind an undone task and a consumed artifact is an undo task none of   *)
(* whose steps failed, whoever died since.                                 *)
THEOREM UndoTheorem == Spec => []UndoneIsBacked
<1>1. IInv => UndoneIsBacked
  BY DEF IInv, Records, RecordOf, Backed, Backs, UndoneIsBacked
<1> QED
  BY <1>1, Invariance, PTL
=============================================================================
