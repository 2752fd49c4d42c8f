------------------------------ MODULE Attention ------------------------------
(***************************************************************************)
(* What the HUD puts in its centre (attention.py, and the parts of         *)
(* controller.py that feed it): one metric at a time, raised when it has   *)
(* been high for some samples, held while it hovers under the threshold,   *)
(* released when it has been low for some samples, is no longer known, or  *)
(* is large on the screen anyway in the mode that was chosen.              *)
(*                                                                         *)
(* A load is one of a few levels, a metric a number, so that both compare  *)
(* as they do in the code.                                                 *)
(***************************************************************************)
EXTENDS Integers, FiniteSets

CONSTANTS
  Metrics, Levels, Unknown,
  Top,                      \* no metric is a larger number, and no load is higher
  Release, Warn, Critical,  \* WARN - MARGIN, WARN_THRESHOLD, ERROR_THRESHOLD
  RaiseSamples, ClearSamples,
  Modes, Central            \* _CENTRAL_METRICS

ASSUME AttentionAssumption ==
  /\ Top \in Nat /\ Metrics \cup Levels \subseteq 0..Top /\ Unknown \notin Levels
  /\ {Release, Warn, Critical} \subseteq Nat
  /\ Release <= Warn /\ Warn <= Critical
  /\ RaiseSamples \in Nat \ {0} /\ ClearSamples \in Nat \ {0}
  /\ Central \in [Modes -> SUBSET Metrics]

VARIABLES
  mode,
  reading,   \* the latest sample: the metrics it reports, each with its level
  streak,
  active,    \* the alert: a metric, and the level it is shown with
  clear,     \* samples the alert has been low for
  polled     \* samples a metric has been high and peripheral for, no mode
             \* change counted

attentionVars == <<mode, reading, streak, active, clear, polled>>

NoAlert == [key |-> 0, level |-> Unknown]
NoReading == [m \in {} |-> Unknown]

AttentionInit ==
  /\ mode \in Modes /\ reading = NoReading
  /\ streak = [m \in Metrics |-> 0] /\ polled = [m \in Metrics |-> 0]
  /\ active = NoAlert /\ clear = 0

-----------------------------------------------------------------------------
Rank(l) == IF l >= Critical THEN 2 ELSE IF l >= Warn THEN 1 ELSE 0  \* classify

Qualifies(r, md, m) ==
  /\ m \in DOMAIN r /\ r[m] # Unknown
  /\ m \notin Central[md] /\ Rank(r[m]) > 0

(* A metric that is not reported is forgotten.                             *)
Streaks(r, md) ==
  [m \in Metrics |-> IF ~Qualifies(r, md, m) THEN 0
                     ELSE IF streak[m] < RaiseSamples THEN streak[m] + 1 ELSE streak[m]]

(* _maybe_raise: the worst of those that have lasted.                      *)
Worse(r, m, n) ==
  \/ Rank(r[m]) > Rank(r[n])
  \/ Rank(r[m]) = Rank(r[n]) /\ (r[m] > r[n] \/ (r[m] = r[n] /\ m >= n))

Raised(r, md, s) ==
  LET due == {m \in Metrics : s[m] >= RaiseSamples /\ Qualifies(r, md, m)}
  IN IF due = {} THEN NoAlert
     ELSE LET worst == CHOOSE m \in due : \A n \in due : Worse(r, m, n)
          IN [key |-> worst, level |-> r[worst]]

(* Mutant: a mode that shows the metric keeps the alert.                   *)
Mut_Gone(r, md) == active.key \notin DOMAIN r \/ r[active.key] = Unknown

(* _prune and _update_active.                                              *)
Gone(r, md) ==
  \/ active.key \notin DOMAIN r
  \/ r[active.key] = Unknown
  \/ active.key \in Central[md]

(* Mutant: one sample too many.                                            *)
Mut_Lasts == clear < ClearSamples
Lasts == clear + 1 < ClearSamples  \* not low for long enough

Update(r, md) ==
  LET s == Streaks(r, md)
  IN /\ streak' = s
     /\ IF active # NoAlert /\ ~Gone(r, md) /\ r[active.key] >= Release
          THEN active' = [active EXCEPT !.level = r[active.key]] /\ clear' = 0
        ELSE IF active # NoAlert /\ ~Gone(r, md) /\ Lasts
          THEN UNCHANGED active /\ clear' = clear + 1
        ELSE active' = Raised(r, md, s) /\ clear' = 0

Poll(r) ==
  /\ reading' = r /\ Update(r, mode) /\ UNCHANGED mode
  /\ polled' = [m \in Metrics |-> IF ~Qualifies(r, mode, m) THEN 0
                                  ELSE IF polled[m] < RaiseSamples THEN polled[m] + 1
                                  ELSE polled[m]]

(* A change of mode evaluates the same sample again.                       *)
SetMode(md) ==
  /\ md # mode /\ mode' = md /\ Update(reading, md) /\ UNCHANGED reading
  /\ polled' = [m \in Metrics |-> IF Qualifies(reading, md, m) THEN polled[m] ELSE 0]

Samples == UNION {[S -> Levels \cup {Unknown}] : S \in SUBSET Metrics}

AttentionNext ==
  \/ \E r \in Samples : Poll(r)
  \/ \E md \in Modes : SetMode(md)

AttentionSpec == AttentionInit /\ [][AttentionNext]_attentionVars

-----------------------------------------------------------------------------
AttentionTypeOK ==
  /\ mode \in Modes /\ reading \in Samples
  /\ streak \in [Metrics -> 0..RaiseSamples] /\ polled \in [Metrics -> 0..RaiseSamples]
  /\ active = NoAlert \/ (active.key \in Metrics /\ active.level \in Levels)
  /\ clear \in 0..(ClearSamples - 1)

(* What the centre shows is a metric that is known, is not shown large     *)
(* elsewhere, and is at the level shown, or has been low for fewer samples *)
(* than would clear it; and nothing peripheral stays high for the samples  *)
(* that raise it while the centre is empty, however modes and sensors come *)
(* and go.                                                                 *)
CentreIsRight ==
  /\ active # NoAlert =>
       /\ active.key \in DOMAIN reading /\ reading[active.key] # Unknown
       /\ active.key \notin Central[mode]
       /\ IF clear = 0 THEN reading[active.key] = active.level
          ELSE reading[active.key] < Release
  /\ (\E m \in Metrics : polled[m] >= RaiseSamples) => active # NoAlert
=============================================================================
