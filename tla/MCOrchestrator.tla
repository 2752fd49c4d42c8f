--------------------------- MODULE MCOrchestrator ---------------------------
(***************************************************************************)
(* Instances of Orchestrator for TLC.                                      *)
(***************************************************************************)
EXTENDS OrchestratorInv, TLC

(* Plans of the catalog's shapes (planner/playbooks.py, file_cmds.py).     *)
FileAppend == [NoPlan EXCEPT !.kind = "intent", !.pbTier = 1, !.stepTier = 1,
                             !.undo = "available", !.undoTier = 1]
ServiceStart == [NoPlan EXCEPT !.kind = "intent", !.pbTier = 2, !.stepTier = 2,
                               !.undo = "available", !.undoTier = 2]
ServiceStatus == [NoPlan EXCEPT !.kind = "intent", !.n = 2, !.optional = {1}]
SystemUpgrade == [NoPlan EXCEPT !.kind = "intent", !.pbTier = 2, !.stepTier = 2,
                                !.n = 2, !.undo = "unavailable"]

(* Plans of more than one part, as run_plan gets them from the LLM planner *)
(* or from a sequence of playbooks.                                        *)
OneService == [ServiceStart EXCEPT !.kind = "plan", !.rollback = TRUE]
TwoServices == [OneService EXCEPT !.n = 2, !.undoN = 2]

(* check_argv refuses what the catalog would build at tier 3; the policy   *)
(* is asked all the same.                                                  *)
Destructive == [NoPlan EXCEPT !.kind = "intent", !.pbTier = 1, !.stepTier = 3,
                              !.undo = "available", !.undoTier = 1]

RaceRequests == {OneService, Destructive}
StepRequests == {FileAppend, ServiceStatus, TwoServices,
                 [ServiceStart EXCEPT !.rollback = TRUE]}
UpgradeRequests == {SystemUpgrade}
IntentRequests == {FileAppend, ServiceStatus}
UndoRequests == {[ServiceStart EXCEPT !.kind = "plan"]}

Symmetry == Permutations(Tasks) \cup Permutations(Procs)

-----------------------------------------------------------------------------
(* What the repository's text says and the code does not keep.             *)

(* serve.py:174: errors of a tool "ride in-band as isError (never          *)
(* transport errors)": no caller is cut off without an answer.  Here the   *)
(* requests are intents only, whose verification raises nothing.           *)
NeverCutOff == \A t \in Tasks : answer[t] # "dropped"

(* orchestrator.py:600: `_execute` returns no verdict "when all required   *)
(* steps succeeded", and only then may the verification call the task      *)
(* succeeded.                                                              *)
SucceededRanAll ==
  \A t \in Tasks : status[t] = "succeeded" =>
    \A i \in (1..plan[t].n) \ plan[t].optional : steps[t][i] = "succeeded"

(* orchestrator.py:510 and AGENT-EXPERIENCE.md:133, "no silent re-apply":  *)
(* the reverse path of a task is applied to its end at most once.          *)
AppliedOnce ==
  \A u, v \in Tasks :
    /\ u # v /\ target[u] # NoTask /\ target[u] = target[v]
    /\ status[u] = "succeeded"
    => status[v] # "succeeded"
=============================================================================
