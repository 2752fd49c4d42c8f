------------------------------- MODULE Runner -------------------------------
(***************************************************************************)
(* One command of the kernel (LocalRunner in execution/runner.py, and the  *)
(* kill-switch of core/orchestrator.py above it): started in a process     *)
(* group of its own, waited for until its pipes are closed and it is over, *)
(* and killed, group and all, when its time is up or the owner says so.    *)
(*                                                                         *)
(* The process that is started may start a helper in its group and a stray *)
(* in a session of its own; each may keep the pipes it inherits.  What     *)
(* they do is the commands' affair.  A process that does not end on        *)
(* SIGTERM is deaf, and so is what it starts from then on.                 *)
(***************************************************************************)
EXTENDS FiniteSets

Members == {"leader", "helper", "stray"}
Group == {"leader", "helper"}

VARIABLES
  cmd,      \* runs as root by sudo; detached; under the orchestrator's handlers
  rpc,
  current,  \* _current is this command
  handler,  \* _on_signal is waiting for it
  result,   \* what run came to, and the ExecResult
  \* the processes
  alive, pipes, deaf,
  code,     \* how the leader ended
  \* what has happened
  struck,   \* SIGTERM was sent to its group
  refused   \* or could not be

processVars == <<alive, pipes, deaf, code>>
runVars == <<cmd, rpc, current, handler, result, struck, refused>>
runnerVars == <<runVars, processVars>>

Commands == [root : BOOLEAN, detach : BOOLEAN, guarded : BOOLEAN]
Pending == [how |-> "none", code |-> "none", timedOut |-> FALSE]
Raised == [Pending EXCEPT !.how = "raised"]

RunnerInit ==
  /\ cmd \in Commands /\ rpc = "idle" /\ current = FALSE /\ handler = FALSE
  /\ result = Pending /\ struck = FALSE /\ refused = FALSE
  /\ alive = {} /\ pipes = {} /\ deaf = {} /\ code = "none"

-----------------------------------------------------------------------------
(* The processes.                                                          *)

Forks(p, inherits) ==
  /\ "leader" \in alive /\ p \notin alive /\ p # "leader"
  /\ alive' = alive \cup {p}
  /\ pipes' = pipes \cup IF inherits /\ "leader" \in pipes THEN {p} ELSE {}
  /\ deaf' = deaf \cup IF "leader" \in deaf THEN {p} ELSE {}
  /\ UNCHANGED <<runVars, code>>

LetsGo(p) ==  \* of the pipes
  /\ p \in pipes /\ pipes' = pipes \ {p}
  /\ UNCHANGED <<runVars, alive, deaf, code>>

Dies(ps, c) ==
  /\ alive' = alive \ ps /\ pipes' = pipes \ ps
  /\ code' = IF "leader" \in ps THEN c ELSE code

Exits(p, c) ==
  /\ p \in alive /\ Dies({p}, c) /\ deaf' = deaf \ {p}
  /\ UNCHANGED runVars

-----------------------------------------------------------------------------
(* _kill_group.  Only the absence of the group is forgiven.                *)

(* Mutant: the signal goes to the process and not to its group.            *)
Mut_Killed == Dies({"leader"} \cap alive, "killed") /\ deaf' = deaf \ {"leader"}

Killed == Dies(Group \cap alive, "killed") /\ deaf' = deaf \ Group

Terminated ==
  \E ps \in SUBSET (Group \cap alive), c \in {"ok", "failed", "killed"} :
    Dies(ps, c) /\ deaf' = (deaf \cup (Group \cap alive)) \ ps /\ struck' = TRUE

(* sudo and what runs under it may be out of reach: the exception leaves   *)
(* run, through the handler if it was raised there.                        *)
Refused ==
  /\ cmd.root /\ Group \cap alive # {} /\ refused' = TRUE
  /\ rpc' = "over" /\ result' = Raised /\ handler' = FALSE
  /\ current' = (rpc = "over")  \* only run itself forgets it
  /\ UNCHANGED <<cmd, struck, processVars>>

-----------------------------------------------------------------------------
(* run                                                                     *)

NotStarted ==  \* no sudo, or no such program
  /\ rpc = "idle" /\ rpc' = "over" /\ result' = Raised
  /\ UNCHANGED <<cmd, current, handler, struck, refused, processVars>>

Popen ==
  /\ rpc = "idle" /\ rpc' = "started"
  /\ alive' = {"leader"} /\ pipes' = IF cmd.detach THEN {} ELSE {"leader"}
  /\ UNCHANGED <<cmd, current, handler, result, struck, refused, deaf, code>>

TakesHold ==
  /\ rpc = "started" /\ rpc' = "wait" /\ current' = TRUE
  /\ UNCHANGED <<cmd, handler, result, struck, refused, processVars>>

Waits == {"wait", "grace", "last"}

(* The command is echoed after it was started: not every terminal is there *)
(* to be written to.                                                       *)
EchoFails ==
  /\ rpc = "started" /\ current' = TRUE /\ rpc' = "over" /\ result' = Raised
  /\ UNCHANGED <<cmd, handler, struck, refused, processVars>>

StillOpen == pipes # {} \/ "leader" \in alive  \* communicate goes on

(* timed_out is where it is.  The output is echoed, too.                   *)
Returns ==
  /\ rpc \in Waits /\ ~handler /\ ~StillOpen
  /\ rpc' = "over" /\ current' = FALSE
  /\ \E how \in {"returned", "unshown"} :
       result' = [how |-> how, code |-> code, timedOut |-> rpc # "wait"]
  /\ UNCHANGED <<cmd, handler, struck, refused, processVars>>

TimesOut ==
  /\ rpc = "wait" /\ ~handler /\ StillOpen
  /\ \/ rpc' = "grace" /\ Terminated /\ UNCHANGED <<cmd, current, handler, result, refused>>
     \/ Refused

GraceEnds ==
  /\ rpc = "grace" /\ ~handler /\ StillOpen
  /\ \/ rpc' = "last" /\ Killed
        /\ UNCHANGED <<cmd, current, handler, result, struck, refused>>
     \/ Refused

-----------------------------------------------------------------------------
(* The kill-switch.  A signal before the process is held, or after the     *)
(* leader's end, finds nothing to do; one without the handlers leaves run  *)
(* as an exception, and the command to itself.                             *)

SwitchPulled ==
  /\ ~handler /\ cmd.guarded /\ current /\ "leader" \in alive
  /\ \/ Terminated /\ handler' = TRUE /\ UNCHANGED <<cmd, rpc, current, result, refused>>
     \/ Refused

SwitchReturns ==
  /\ handler /\ "leader" \notin alive /\ handler' = FALSE
  /\ UNCHANGED <<cmd, rpc, current, result, struck, refused, processVars>>

SwitchKills ==  \* after three seconds
  /\ handler /\ "leader" \in alive
  /\ \/ Killed /\ handler' = FALSE
        /\ UNCHANGED <<cmd, rpc, current, result, struck, refused>>
     \/ Refused

Abandoned ==
  /\ rpc \in Waits \cup {"started"} /\ ~cmd.guarded
  /\ rpc' = "over" /\ result' = Raised /\ current' = FALSE
  /\ UNCHANGED <<cmd, handler, struck, refused, processVars>>

RunnerNext ==
  \/ \E p \in Members :
       \/ \E inherits \in BOOLEAN : Forks(p, inherits)
       \/ LetsGo(p)
       \/ \E c \in {"ok", "failed", "killed"} : Exits(p, c)
  \/ NotStarted \/ Popen \/ TakesHold \/ EchoFails \/ Returns \/ TimesOut \/ GraceEnds
  \/ SwitchPulled \/ SwitchReturns \/ SwitchKills \/ Abandoned

RunnerSpec == RunnerInit /\ [][RunnerNext]_runnerVars

-----------------------------------------------------------------------------
RunnerTypeOK ==
  /\ cmd \in Commands /\ rpc \in {"idle", "started", "over"} \cup Waits
  /\ current \in BOOLEAN /\ handler \in BOOLEAN /\ struck \in BOOLEAN /\ refused \in BOOLEAN
  /\ result.how \in {"none", "raised", "returned", "unshown"}
  /\ result.code \in {"none", "ok", "failed", "killed"} /\ result.timedOut \in BOOLEAN
  /\ alive \subseteq Members /\ pipes \subseteq alive /\ deaf \subseteq alive
  /\ code \in {"none", "ok", "failed", "killed"}

(* Process-group cleanup: where run waits without a limit the group is     *)
(* dead, so that only a stray with the pipes can hold it up; the           *)
(* kill-switch does not return before the leader has ended; once the time  *)
(* was up or the switch was pulled, nothing of the group outlives the      *)
(* command but what is deaf; and a command that raises while it runs, to   *)
(* be journaled as one that did not start, was out of reach, or without a  *)
(* switch or a terminal.                                                   *)
GroupIsCleanedUp ==
  /\ rpc = "last" => Group \cap alive = {} /\ pipes \subseteq {"stray"}
  /\ rpc = "wait" /\ struck /\ ~handler => "leader" \notin alive
  /\ rpc = "over" /\ (struck \/ result.timedOut) /\ ~handler /\ ~refused =>
       Group \cap alive \subseteq deaf
  /\ rpc = "over" /\ result.how = "raised" /\ alive # {} => refused \/ ~cmd.guarded \/ current
=============================================================================
