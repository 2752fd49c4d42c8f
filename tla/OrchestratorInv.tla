-------------------------- MODULE OrchestratorInv --------------------------
(***************************************************************************)
(* The inductive invariant of the execution kernel: what holds of a        *)
(* process and of the task it works on at every point of the handlers, and *)
(* of a task nobody works on any more.                                     *)
(***************************************************************************)
EXTENDS Orchestrator

Request(t) == plan[t].kind \in {"intent", "plan"}

(* No command needs the owner's consent, or the owner gave it, to this     *)
(* task or to the one it rolls back.                                       *)
Authorised(t) ==
  \/ TierOf(plan[t]) <= 1
  \/ /\ TierOf(plan[t]) = 2
     /\ \/ t \in granted
        \/ target[t] \in granted /\ plan[target[t]].rollback

SnapshotNoted(t) ==
  TierOf(plan[t]) >= 2 /\ plan[t].kind # "undo" => t \in noted

(* A process that is not idle works on a task id that was drawn; one that  *)
(* rolls back will come back to the task it rolls back.                    *)
Held ==
  \A p \in Procs :
    /\ pc[p] = "idle" => cur[p] = NoTask /\ saved[p] = "none"
    /\ pc[p] # "idle" =>
         /\ cur[p] \in Tasks
         /\ plan[cur[p]].kind # "none"
         /\ answer[cur[p]] = "none"
         /\ pc[p] = "child" => idx[p] <= plan[cur[p]].n
    /\ RollingBack(p) =>
         /\ plan[cur[p]].kind = "undo"
         /\ target[cur[p]] \in Tasks
         /\ Request(target[cur[p]])
         /\ plan[target[cur[p]]].rollback
         /\ answer[target[cur[p]]] = "none"
         /\ status[target[cur[p]]] \in {"running", "undone"}

(* No task is worked on by two processes.                                  *)
Apart ==
  \A p, q \in Procs :
    p # q /\ pc[p] # "idle" /\ pc[q] # "idle" =>
      /\ cur[p] # cur[q]
      /\ RollingBack(p) => target[cur[p]] # cur[q]
      /\ RollingBack(p) /\ RollingBack(q) => target[cur[p]] # target[cur[q]]

(* An id that was not drawn has no trace, and where a plan comes from.     *)
Drawn ==
  \A t \in Tasks :
    /\ plan[t].kind = "none" =>
         /\ status[t] = "none" /\ artifact[t] = "none" /\ spawned[t] = {}
         /\ answer[t] = "none" /\ target[t] = NoTask
    /\ Request(t) => plan[t] \in Requests /\ target[t] = NoTask
    /\ plan[t].kind = "undo" =>
         /\ target[t] \in Tasks \ {t}
         /\ plan[target[t]].kind # "none"
         /\ artifact[t] = "none"

(* What an artifact and a started command say of their task.               *)
TraceOf(t) ==
  /\ artifact[t] # "none" =>
       status[t] \notin {"none", "refused"} /\ plan[t].undo = "available"
  /\ spawned[t] # {} =>
       /\ Authorised(t) /\ SnapshotNoted(t)
       /\ status[t] \notin {"none", "refused"}
       /\ answer[t] # "refused"
Traces == \A t \in Tasks : TraceOf(t)

(* The place of a process in the handlers and the state of its task.       *)
Unopened == {"build", "gate", "consent", "refuse", "check", "begin"}
Executing == {"install", "loop", "child", "verify", "settle"}
ForRequests == {"build", "gate", "refuse", "refused", "snapshot", "settle", "rollback"}
ForUndo == {"check", "applied", "undone"}
WithVerdict == {"settle", "rollback", "applied", "undone", "finish"}

PlaceOf(p) ==
  /\ pc[p] \in ForRequests => Request(cur[p])
  /\ pc[p] \in ForUndo => plan[cur[p]].kind = "undo"
  /\ pc[p] \in {"consent", "refuse", "refused"} => ~RollingBack(p)
  /\ pc[p] \in Unopened => status[cur[p]] = "none"
  /\ pc[p] \in Unopened \cup {"refused", "snapshot"} => spawned[cur[p]] = {}
  /\ pc[p] \in Unopened \cup {"refused", "snapshot"} \cup Executing =>
       artifact[cur[p]] = "none"
  /\ pc[p] \in {"refused", "snapshot", "applied", "undone"} \cup Executing =>
       status[cur[p]] = "running"
  /\ pc[p] \in {"rollback", "finish"} => status[cur[p]] \in {"running", "undone"}
  /\ pc[p] \in {"begin", "snapshot", "rollback"} \cup Executing => Authorised(cur[p])
  /\ pc[p] = "check" /\ RollingBack(p) => Authorised(cur[p])
  /\ pc[p] \in Executing => SnapshotNoted(cur[p])
  /\ pc[p] \in WithVerdict => term[p] # "none"
  /\ pc[p] = "rollback" => artifact[cur[p]] # "none" /\ plan[cur[p]].rollback
  /\ plan[cur[p]].kind = "undo" /\ pc[p] # "check" =>
       artifact[target[cur[p]]] # "none"
Place == \A p \in Procs : pc[p] # "idle" => PlaceOf(p)

(* Why the kernel authorises, journals and keeps apart what it does.       *)
Control ==
  /\ TypeOK
  /\ Held
  /\ Apart
  /\ Drawn
  /\ Traces
  /\ Place

-----------------------------------------------------------------------------
(* What the rows of a task say, at every point of _execute.                *)

Blank(t) == spawned[t] = {} /\ \A k \in 1..MaxSteps : steps[t][k] = "none"
Written(t) == \A k \in 1..plan[t].n : steps[t][k] # "none"
NoFailure(t) ==
  \A k \in 1..MaxSteps : steps[t][k] = "failed" => k \in plan[t].optional
Offered(t) == Storable(plan[t]) => artifact[t] # "none"

(* A row agrees with the command it is about, and a required step that     *)
(* failed is the last one that started.                                    *)
Faithful(t) ==
  \A k \in 1..MaxSteps :
    /\ steps[t][k] = "succeeded" => k \in spawned[t]
    /\ k \in spawned[t] => steps[t][k] # "skipped"
    /\ steps[t][k] = "failed" /\ k \notin plan[t].optional =>
         \A j \in spawned[t] : j <= k

RecordOf(t) ==
  /\ Faithful(t)
  /\ plan[t].kind = "none" => Blank(t)
  /\ plan[t].kind = "undo" => ~Storable(plan[t]) /\ plan[t].optional = {}
  /\ Finished(t) => Written(t) /\ Offered(t)
  /\ status[t] = "succeeded" => NoFailure(t)
  /\ status[t] = "undone" => artifact[t] = "applied"
  /\ status[t] # "none" /\ answer[t] \notin {"none", "dropped"} =>
       status[t] \in {answer[t], "undone"}
Records == \A t \in Tasks : RecordOf(t)

(* The loop's index separates the rows that are written from the others;   *)
(* the verdict tells whether a required step failed.                       *)
Before == Unopened \cup {"refused", "snapshot", "install"}
After == {"verify", "settle", "rollback", "applied", "undone", "finish"}

LoopOf(p) ==
  /\ \A k \in 1..MaxSteps : steps[cur[p]][k] # "none" <=> k < idx[p]
  /\ \A k \in spawned[cur[p]] : k < idx[p] \/ (pc[p] = "child" /\ k = idx[p])
  /\ term[p] \in {"none", "failed", "interrupted"}
  /\ term[p] = "none" => NoFailure(cur[p])
  /\ pc[p] = "child" => term[p] = "none" /\ idx[p] \in spawned[cur[p]]

ReturnOf(p) ==
  /\ saved[p] \in {"failed", "interrupted"}
  /\ Written(target[cur[p]])
  /\ artifact[target[cur[p]]] # "none"

ProgressOf(p) ==
  /\ pc[p] \in Before => Blank(cur[p])
  /\ pc[p] \in Before \cup {"idle", "verify"} => term[p] = "none"
  /\ pc[p] \in {"loop", "child"} => LoopOf(p)
  /\ pc[p] \in After => Written(cur[p])
  /\ pc[p] = "verify" \/ term[p] = "succeeded" => NoFailure(cur[p])
  /\ pc[p] \in {"applied", "undone"} => term[p] = "succeeded"
  /\ pc[p] = "rollback" => term[p] \in {"failed", "interrupted"}
  /\ pc[p] \in {"rollback", "finish"} => Offered(cur[p])
  /\ pc[p] = "undone" => artifact[target[cur[p]]] = "applied"
  /\ RollingBack(p) => ReturnOf(p)
Progress == \A p \in Procs : ProgressOf(p)

(* The undo task behind a consumed artifact: whoever still works on it has *)
(* only the good end left.                                                 *)
Backs(u, t) ==
  /\ target[u] = t
  /\ status[u] \in {"running", "succeeded"}
  /\ \A k \in 1..plan[u].n : steps[u][k] \in {"succeeded", "skipped"}
  /\ \A p \in Procs :
       cur[p] = u => pc[p] \in {"undone", "finish"} /\ term[p] = "succeeded"
Backed == \A t \in Tasks : artifact[t] = "applied" => \E u \in Tasks : Backs(u, t)

(* The invariant of the kernel, for any number of processes: inductive.    *)
IInv ==
  /\ Control
  /\ Records
  /\ Progress
  /\ Backed
=============================================================================
