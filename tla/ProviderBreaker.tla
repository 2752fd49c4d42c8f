--------------------------- MODULE ProviderBreaker ---------------------------
(***************************************************************************)
(* The circuit breaker of the AI backends (providers/breaker.py) under its *)
(* two users: `jarvis ask`, which tries one backend after the other        *)
(* (providers/router.py, _ask_flow of cli/app.py), and `jarvis explain`,   *)
(* which tries one (knowledge/ai_answer.py).                               *)
(*                                                                         *)
(* Every invocation reads the state file once, when it starts, and writes  *)
(* all of it back when it records an outcome; invocations may overlap.     *)
(* Time is the age of what was opened: no clock value is compared with     *)
(* anything else.                                                          *)
(***************************************************************************)
EXTENDS Naturals, Sequences, FiniteSets

CONSTANTS
  Procs,      \* the processes that may run an invocation
  Providers,  \* backend names
  NoProvider,
  Threshold,  \* DEFAULT_THRESHOLD
  Cooldown,   \* DEFAULT_COOLDOWN_S, in ticks
  Commands    \* which of "ask", "explain" are used

ASSUME BreakerAssumption ==
  /\ IsFiniteSet(Providers) /\ NoProvider \notin Providers
  /\ Threshold \in Nat \ {0} /\ Cooldown \in Nat \ {0}
  /\ Commands \subseteq {"ask", "explain"}

(* A record opens when its failures reach the threshold; more of them make *)
(* no difference.  The age is that of opened_at, 0 in a closed record.     *)
Records == [failures : 0..Threshold, age : 0..Cooldown]
NoRecord == [failures |-> 0, age |-> 0]
Open(r) == r.failures = Threshold
Clear == [v \in Providers |-> NoRecord]

(* Routing picks the primary, the candidates are probed again after it:    *)
(* each backend at most once, in an order that depends on both probes.     *)
Orders == {s \in UNION {[1..n -> Providers] : n \in 1..Cardinality(Providers)} :
             \A i, j \in DOMAIN s : i # j => s[i] # s[j]}

Labels == {"idle", "allow", "call", "record", "writing"}
NoVerdict == [who |-> NoProvider, good |-> FALSE]

VARIABLES
  \* breaker.state
  file,     \* its records
  torn,     \* it cannot be parsed: truncated and not yet written, or mixed up
  clash,    \* two invocations are writing it over each other
  \* an invocation
  pc, cmd,
  order,    \* its candidates, the primary first
  at, attempt,
  mem,      \* what it read of the file
  probing,  \* its half-open marks
  verdict,  \* the outcome it records
  \* what has happened
  heard,    \* how an invocation's last call of a backend went
  failed,   \* invocations in which a backend failed, up to the threshold
  strikes,  \* the same, in a row, with the age of the last one; while clean
  asked,    \* ask was used
  clean     \* invocations never overlapped, none was killed while it wrote

fileVars == <<file, torn, clash>>
pastVars == <<failed, strikes, asked, clean>>
vars == <<file, torn, clash, pc, cmd, order, at, attempt, mem, probing,
          verdict, heard, failed, strikes, asked, clean>>

Init ==
  /\ file = Clear /\ torn = FALSE /\ clash = FALSE
  /\ pc = [p \in Procs |-> "idle"] /\ cmd = [p \in Procs |-> "none"]
  /\ order = [p \in Procs |-> <<>>]
  /\ at = [p \in Procs |-> 1] /\ attempt = [p \in Procs |-> 1]
  /\ mem = [p \in Procs |-> Clear] /\ probing = [p \in Procs |-> {}]
  /\ verdict = [p \in Procs |-> NoVerdict]
  /\ heard = [p \in Procs |-> [v \in Providers |-> "nothing"]]
  /\ failed = [v \in Providers |-> 0]
  /\ strikes = Clear /\ asked = FALSE /\ clean = TRUE

Go(p, label) == pc' = [pc EXCEPT ![p] = label]
Target(p) == order[p][at[p]]

-----------------------------------------------------------------------------
(* Time.                                                                   *)

Older(r) ==
  IF Open(r) /\ r.age < Cooldown THEN [r EXCEPT !.age = @ + 1] ELSE r

Tick ==
  /\ file' = [v \in Providers |-> Older(file[v])]
  /\ mem' = [p \in Procs |-> [v \in Providers |-> Older(mem[p][v])]]
  /\ strikes' = [v \in Providers |-> Older(strikes[v])]
  /\ UNCHANGED <<torn, clash, pc, cmd, order, at, attempt, probing,
                 verdict, heard, failed, asked, clean>>

-----------------------------------------------------------------------------
(* An invocation.                                                          *)

Overlapping(b) ==
  /\ clean' = (clean /\ ~b)
  /\ strikes' = IF clean' THEN strikes ELSE Clear

(* A backend is routed to and the state file is read; a file that cannot   *)
(* be parsed counts as empty.                                              *)
Start(p, c, s) ==
  /\ pc[p] = "idle"
  /\ c = "explain" => Len(s) = 1
  /\ Go(p, "allow")
  /\ cmd' = [cmd EXCEPT ![p] = c]
  /\ order' = [order EXCEPT ![p] = s]
  /\ mem' = [mem EXCEPT ![p] = IF torn THEN Clear ELSE file]
  /\ asked' = (asked \/ c = "ask")
  /\ Overlapping(\E q \in Procs : pc[q] # "idle")
  /\ UNCHANGED <<fileVars, at, attempt, probing, verdict, heard, failed>>

CooledDown(r) == r.age >= Cooldown

(* ProviderBreaker.allow.                                                  *)
Allows(p, v) ==
  \/ ~Open(mem[p][v])
  \/ CooledDown(mem[p][v]) /\ v \notin probing[p]

(* Mutant: a half-open call leaves no mark.                                *)
Mut_MarkProbe(p, v) == probing

MarkProbe(p, v) ==
  IF Open(mem[p][v]) THEN [probing EXCEPT ![p] = @ \cup {v}] ELSE probing

Call(p) ==
  /\ pc[p] = "allow"
  /\ Allows(p, Target(p))
  /\ probing' = MarkProbe(p, Target(p))
  /\ Go(p, "call")
  /\ UNCHANGED <<fileVars, cmd, order, at, attempt, mem, verdict, heard, pastVars>>

(* The candidate is given up with a failure of this kind; when none is     *)
(* left, the failure is accounted to the primary, unless the last          *)
(* candidate was not called at all.                                        *)
GiveUp(p, kind) ==
  /\ attempt' = [attempt EXCEPT ![p] = 1]
  /\ IF at[p] < Len(order[p])
       THEN /\ at' = [at EXCEPT ![p] = @ + 1]
            /\ Go(p, "allow")
            /\ UNCHANGED verdict
       ELSE /\ verdict' = [verdict EXCEPT ![p] =
                 IF kind = "breaker-open" THEN NoVerdict
                 ELSE [who |-> order[p][1], good |-> FALSE]]
            /\ Go(p, "record")
            /\ UNCHANGED at

(* guarded_complete refuses, or complete_with_failover passes on.          *)
Denied(p) ==
  /\ pc[p] = "allow"
  /\ ~Allows(p, Target(p))
  /\ GiveUp(p, "breaker-open")
  /\ UNCHANGED <<fileVars, cmd, order, mem, probing, heard, pastVars>>

Hear(p, how) == heard' = [heard EXCEPT ![p][Target(p)] = how]

(* The call fails: timed out or not reachable ("transient"), or otherwise. *)
(* `ask` tries the primary once more after a transient failure.            *)
CallFails(p, kind) ==
  /\ pc[p] = "call"
  /\ Hear(p, "bad")
  /\ IF kind = "transient" /\ cmd[p] = "ask" /\ at[p] = 1 /\ attempt[p] = 1
       THEN /\ attempt' = [attempt EXCEPT ![p] = 2]
            /\ Go(p, "allow")
            /\ UNCHANGED <<at, verdict>>
       ELSE GiveUp(p, kind)
  /\ UNCHANGED <<fileVars, cmd, order, mem, probing, pastVars>>

(* The call returns an answer: a usable one, an honest "cannot", or one    *)
(* that fails validation.  A usable plan is accounted to the primary, the  *)
(* rest to the backend that served.                                        *)
CallReturns(p, answer) ==
  /\ pc[p] = "call"
  /\ Hear(p, IF answer = "malformed" THEN "bad" ELSE "good")
  /\ verdict' = [verdict EXCEPT ![p] =
       [who |-> IF answer = "usable" THEN order[p][1] ELSE Target(p),
        good |-> answer # "malformed"]]
  /\ Go(p, "record")
  /\ UNCHANGED <<fileVars, cmd, order, at, attempt, mem, probing, pastVars>>

-----------------------------------------------------------------------------
(* Recording.                                                              *)

(* Mutant: the circuit opens one failure too early.                        *)
Mut_Worse(r) ==
  IF r.failures + 2 >= Threshold THEN [failures |-> Threshold, age |-> 0]
  ELSE [r EXCEPT !.failures = @ + 1]

(* Mutant: the cooldown starts when the circuit opens, not again when a    *)
(* probe fails.                                                            *)
Mut_WorseOnce(r) ==
  IF r.failures + 1 >= Threshold THEN [failures |-> Threshold, age |-> r.age]
  ELSE [r EXCEPT !.failures = @ + 1]

(* record_failure: at the threshold the cooldown starts (again).           *)
Worse(r) ==
  IF r.failures + 1 >= Threshold THEN [failures |-> Threshold, age |-> 0]
  ELSE [r EXCEPT !.failures = @ + 1]

(* The locals of an invocation that is over.                               *)
Reset(p) ==
  /\ cmd' = [cmd EXCEPT ![p] = "none"]
  /\ order' = [order EXCEPT ![p] = <<>>]
  /\ at' = [at EXCEPT ![p] = 1]
  /\ attempt' = [attempt EXCEPT ![p] = 1]
  /\ probing' = [probing EXCEPT ![p] = {}]
  /\ verdict' = [verdict EXCEPT ![p] = NoVerdict]
  /\ heard' = [heard EXCEPT ![p] = [v \in Providers |-> "nothing"]]

(* What each backend did in the invocation.                                *)
Remember(p) ==
  /\ failed' = [v \in Providers |->
       IF heard[p][v] = "bad" /\ failed[v] < Threshold THEN failed[v] + 1
       ELSE failed[v]]
  /\ strikes' = IF ~clean THEN Clear ELSE [v \in Providers |->
       IF heard[p][v] = "bad" THEN
         IF strikes[v].failures + 1 >= Threshold
           THEN [failures |-> Threshold, age |-> 0]
           ELSE [strikes[v] EXCEPT !.failures = @ + 1]
       ELSE IF heard[p][v] = "good" THEN NoRecord ELSE strikes[v]]

Writing(p) == pc[p] = "writing"
NeedsSaving(p) ==
  LET w == verdict[p]
  IN  w # NoVerdict /\ (w.good => mem[p][w.who] # NoRecord)

(* Nothing was called, or a success finds no record to drop.               *)
RecordNothing(p) ==
  /\ pc[p] = "record"
  /\ ~NeedsSaving(p)
  /\ Remember(p)
  /\ Go(p, "idle")
  /\ Reset(p)
  /\ mem' = [mem EXCEPT ![p] = Clear]
  /\ UNCHANGED <<fileVars, asked, clean>>

(* record_success, record_failure up to the truncation of the file.        *)
Record(p) ==
  /\ pc[p] = "record"
  /\ NeedsSaving(p)
  /\ LET w == verdict[p]
     IN mem' = [mem EXCEPT ![p][w.who] = IF w.good THEN NoRecord ELSE Worse(@)]
  /\ Remember(p)
  /\ torn' = TRUE
  /\ clash' = (clash \/ \E q \in Procs : Writing(q))
  /\ Go(p, "writing")
  /\ UNCHANGED <<file, cmd, order, at, attempt, probing, verdict, heard,
                 asked, clean>>

(* The document is written; over another's it may leave what does not      *)
(* parse.                                                                  *)
Write(p) ==
  /\ Writing(p)
  /\ file' = mem[p]
  /\ torn' \in (IF clash THEN BOOLEAN ELSE {FALSE})
  /\ clash' = (clash /\ \E q \in Procs \ {p} : Writing(q))
  /\ Go(p, "idle")
  /\ Reset(p)
  /\ mem' = [mem EXCEPT ![p] = Clear]
  /\ UNCHANGED pastVars

(* Ctrl-C or a kill.                                                       *)
Die(p) ==
  /\ pc[p] # "idle"
  /\ Overlapping(Writing(p))
  /\ clash' = (clash /\ \E q \in Procs \ {p} : Writing(q))
  /\ Go(p, "idle")
  /\ Reset(p)
  /\ mem' = [mem EXCEPT ![p] = Clear]
  /\ UNCHANGED <<file, torn, failed, asked>>

Step(p) ==
  \/ Call(p) \/ Denied(p)
  \/ \E kind \in {"transient", "hard"} : CallFails(p, kind)
  \/ \E answer \in {"usable", "honest", "malformed"} : CallReturns(p, answer)
  \/ RecordNothing(p) \/ Record(p) \/ Write(p)

StartAny(p) == \E c \in Commands, s \in Orders : Start(p, c, s)

Next ==
  \/ Tick
  \/ \E p \in Procs : StartAny(p) \/ Step(p) \/ Die(p)

Spec == Init /\ [][Next]_vars

-----------------------------------------------------------------------------
(* Properties.                                                             *)

TypeOK ==
  /\ file \in [Providers -> Records]
  /\ torn \in BOOLEAN /\ clash \in BOOLEAN
  /\ asked \in BOOLEAN /\ clean \in BOOLEAN
  /\ pc \in [Procs -> Labels]
  /\ cmd \in [Procs -> Commands \cup {"none"}]
  /\ order \in [Procs -> Orders \cup {<<>>}]
  /\ at \in [Procs -> Nat \ {0}]
  /\ attempt \in [Procs -> 1..2]
  /\ mem \in [Procs -> [Providers -> Records]]
  /\ probing \in [Procs -> SUBSET Providers]
  /\ verdict \in [Procs -> [who : Providers \cup {NoProvider}, good : BOOLEAN]]
  /\ heard \in [Procs -> [Providers -> {"nothing", "good", "bad"}]]
  /\ failed \in [Providers -> 0..Threshold]
  /\ strikes \in [Providers -> Records]

(* A circuit is open only for a backend that failed in as many invocations *)
(* as the threshold says: overlapping writers, a file mixed up or cut      *)
(* short, and failures accounted to a backend that was not called never    *)
(* shut out one that works.                                                *)
OpenIsEarned ==
  \A v \in Providers :
    Open(file[v]) \/ (\E p \in Procs : Open(mem[p][v])) => failed[v] = Threshold

(* router.py: "the breaker, not the retry loop, remains the storm guard":  *)
(* only the primary is called a second time in an invocation, after a      *)
(* failure, and not if it is half-open.                                    *)
CallsAgain(p) ==
  pc[p] = "allow" /\ pc'[p] = "call" /\ heard[p][Target(p)] # "nothing"
StormGuard ==
  [][\A p \in Procs : CallsAgain(p) =>
       /\ Target(p) = order[p][1] /\ attempt[p] = 2
       /\ heard[p][Target(p)] = "bad"
       /\ ~Open(mem[p][Target(p)])]_vars

(* breaker.py: "a hung or failing model must not re-impose its full        *)
(* request timeout on every invocation": a backend that failed in as many  *)
(* invocations in a row as the threshold says is not called again before   *)
(* the cooldown is over, while invocations do not overlap and none is      *)
(* killed while it writes the file.                                        *)
LeavesAlone ==
  \A v \in Providers :
    clean /\ Open(strikes[v]) /\ ~CooledDown(strikes[v]) =>
      \A p \in Procs : pc[p] = "allow" /\ pc'[p] = "call" => Target(p) # v
DeadLeftAlone == [][LeavesAlone]_vars

(* explain keeps to that.                                                  *)
ExplainLeavesAlone == [][~asked => LeavesAlone]_vars

-----------------------------------------------------------------------------
(* The inductive invariant.                                                *)

Trying(p) == pc[p] \in {"allow", "call"}
Primary(p) == order[p][1]

(* Where an invocation is in its candidates.                               *)
Placed(p) ==
  /\ pc[p] = "idle" => at[p] = 1 /\ heard[p] = [v \in Providers |-> "nothing"]
  /\ pc[p] # "idle" => order[p] \in Orders
  /\ Trying(p) => at[p] \in 1..Len(order[p])
  /\ verdict[p] # NoVerdict => verdict[p].who \in Providers

(* A candidate not reached was not called; the primary is called again     *)
(* after a failure, and a half-open backend is marked while it is called.  *)
Probed(p) ==
  /\ pc[p] = "idle" => attempt[p] = 1
  /\ Trying(p) =>
       /\ \A i \in at[p]..Len(order[p]) :
            i > at[p] \/ attempt[p] = 1 => heard[p][order[p][i]] = "nothing"
       /\ attempt[p] = 2 => at[p] = 1 /\ heard[p][Primary(p)] = "bad"
       /\ pc[p] = "call" \/ attempt[p] = 2 =>
            (Open(mem[p][Target(p)]) => Target(p) \in probing[p])

(* A failure is accounted to a backend that failed, or that was not called *)
(* because its circuit is open.                                            *)
AtFault(p, v) == heard[p][v] = "bad" \/ Open(mem[p][v])
Blamed(p) ==
  /\ Trying(p) /\ at[p] > 1 => AtFault(p, Primary(p))
  /\ pc[p] = "record" /\ verdict[p] # NoVerdict /\ ~verdict[p].good =>
       AtFault(p, verdict[p].who)

(* No record counts more failures than there were.                         *)
Counted ==
  \A v \in Providers :
    /\ file[v].failures <= failed[v]
    /\ \A p \in Procs : mem[p][v].failures <= failed[v]

Sound(p) == Placed(p) /\ Probed(p) /\ Blamed(p)

(* The parts together: inductive, and implying OpenIsEarned and StormGuard. *)
IInv ==
  /\ TypeOK /\ Counted
  /\ \A p \in Procs : Sound(p)
=============================================================================
