------------------------------- MODULE Brief -------------------------------
(***************************************************************************)
(* `jarvis brief` (brief/engine.py): compose, decide, deliver, ledger.  A  *)
(* timer and the owner may run it at the same time; each run writes the    *)
(* report and the notification before the line of the ledger that says so. *)
(* What the report says is left out, except whether there is anything.     *)
(***************************************************************************)
EXTENDS Naturals, Sequences, FiniteSets

CONSTANTS
  Runs,      \* processes that may run a briefing
  NoRun,
  MaxLines   \* length of ledger.jsonl: bounds a behaviour

ASSUME BriefAssumption == NoRun \notin Runs /\ MaxLines \in Nat

VARIABLES
  news,     \* a source has something: failures, suggestions, unknowns, disk
  latest,   \* the run whose report is in latest.md, NoRun if none is
  ledger,   \* the lines: which run, decided what, delivered
  bpc,
  shown,    \* the notification of the run was shown
  \* what has happened
  crossed,  \* two runs were writing at the same time
  lost      \* runs that died after they began to write latest.md

briefVars == <<news, latest, ledger, bpc, shown, crossed, lost>>

BriefInit ==
  /\ news \in BOOLEAN /\ latest = NoRun /\ ledger = <<>>
  /\ bpc = [r \in Runs |-> "idle"] /\ shown = [r \in Runs |-> FALSE]
  /\ crossed = FALSE /\ lost = {}

Busy(r) == {q \in Runs \ {r} : bpc[q] \in {"report", "text", "notify", "line"}}

(* Composition only reads; decide notifies iff there is anything to say.   *)
Compose(r) ==
  /\ bpc[r] = "idle" /\ Len(ledger) < MaxLines
  /\ bpc' = [bpc EXCEPT ![r] = IF news THEN "report" ELSE "silence"]
  /\ crossed' = (crossed \/ Busy(r) # {}) /\ UNCHANGED <<news, latest, ledger, shown, lost>>

(* write_text empties the file first.                                      *)
EmptyLatest(r) ==
  /\ bpc[r] = "report" /\ latest' = NoRun
  /\ bpc' = [bpc EXCEPT ![r] = "text"]
  /\ UNCHANGED <<news, ledger, shown, crossed, lost>>

WriteLatest(r) ==
  /\ bpc[r] = "text" /\ latest' = r /\ lost' = lost \ {r}
  /\ bpc' = [bpc EXCEPT ![r] = "notify"]
  /\ UNCHANGED <<news, ledger, shown, crossed>>

(* notify-send may be missing, fail or time out; none of it raises.        *)
Notify(r) ==
  /\ bpc[r] = "notify" /\ \E ok \in BOOLEAN : shown' = [shown EXCEPT ![r] = ok]
  /\ bpc' = [bpc EXCEPT ![r] = "line"]
  /\ UNCHANGED <<news, latest, ledger, crossed, lost>>

Line(r, decision, delivered) ==
  /\ ledger' = Append(ledger, [run |-> r, decision |-> decision,
                               delivered |-> delivered])
  /\ bpc' = [bpc EXCEPT ![r] = "idle"] /\ shown' = [shown EXCEPT ![r] = FALSE]
  /\ UNCHANGED <<news, latest, crossed, lost>>

(* Mutant: a notification that fails is recorded as silence.               *)
Mut_RecordNotified(r) ==
  bpc[r] = "line" /\ Line(r, IF shown[r] THEN "notify" ELSE "silence", shown[r])
RecordNotified(r) == bpc[r] = "line" /\ Line(r, "notify", shown[r])
RecordSilence(r) == bpc[r] = "silence" /\ Line(r, "silence", FALSE)

RunDies(r) ==
  /\ bpc[r] # "idle" /\ bpc' = [bpc EXCEPT ![r] = "idle"]
  /\ shown' = [shown EXCEPT ![r] = FALSE]
  /\ lost' = IF bpc[r] \in {"text", "notify", "line"} THEN lost \cup {r} ELSE lost
  /\ UNCHANGED <<news, latest, ledger, crossed>>

NewsChanges == news' = ~news /\ UNCHANGED <<latest, ledger, bpc, shown, crossed, lost>>

BriefNext ==
  \/ \E r \in Runs : \/ Compose(r) \/ EmptyLatest(r) \/ WriteLatest(r) \/ Notify(r)
                     \/ RecordNotified(r) \/ RecordSilence(r) \/ RunDies(r)
  \/ NewsChanges

BriefSpec == BriefInit /\ [][BriefNext]_briefVars

-----------------------------------------------------------------------------
BriefTypeOK ==
  /\ news \in BOOLEAN /\ latest \in Runs \cup {NoRun}
  /\ ledger \in Seq([run : Runs, decision : {"notify", "silence"}, delivered : BOOLEAN])
  /\ bpc \in [Runs -> {"idle", "silence", "report", "text", "notify", "line"}]
  /\ shown \in [Runs -> BOOLEAN] /\ crossed \in BOOLEAN /\ lost \subseteq Runs

(* The lines that say they were notified.                                  *)
Notified == {i \in DOMAIN ledger : ledger[i].decision = "notify"}

(* The report on disk is the last one the ledger says was notified: a      *)
(* silent run leaves it alone, and once it is replaced the line follows,   *)
(* unless two runs overlapped or one died before its line.                 *)
LatestIsLedgered ==
  ~crossed /\ lost = {} /\ (\A r \in Runs : bpc[r] \notin {"text", "notify", "line"}) =>
    IF Notified = {} THEN latest = NoRun
    ELSE \E i \in Notified : (\A j \in Notified : j <= i) /\ latest = ledger[i].run
=============================================================================
