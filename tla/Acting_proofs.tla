--------------------------- MODULE Acting_proofs ----------------------------
(***************************************************************************)
(* What acts on the machine, and how far it may go: standing orders under  *)
(* a halt and a budget, packs of commands that must pass validation,       *)
(* process groups that must not be left behind, and the desktop with its   *)
(* consent, for any playbooks, packs, runs and windows.                    *)
(***************************************************************************)
EXTENDS Charter, Packs, Runner, Desktop, FiniteSetTheorems, TLAPS

-----------------------------------------------------------------------------

(* Charters: who writes the state file, and what the budget lets through.  *)

Stages == {"idle", "loaded", "cleared", "pausing", "running", "ended", "recording"}
Task == [playbook : Playbooks, fired : BOOLEAN]

(* Until two changes overlap there is one writer, who knows the file.      *)
Writing(p) == fpc[p] \in {"pausing", "recording"}
OneWriter ==
  ~raced => /\ \A p, q \in Firings : Writing(p) /\ Writing(q) => p = q
            /\ \A p \in Firings : Writing(p) => opc = "idle" /\ fbuf[p] = status

(* The firings that count, and the ones that may yet become one: a firing  *)
(* is cleared while fewer than the budget count.                           *)
Counted == {i \in DOMAIN tasks : i > aged /\ tasks[i].fired /\ tasks[i].playbook \in Always}
ToCome == {p \in Firings : fpc[p] = "cleared"}
BudgetKept ==
  Len(tasks) <= Window =>
    Cardinality(Counted) + Cardinality(ToCome) <= Budget + Cardinality(Firings) - 1

CharterInv == CharterTypeOK /\ OneWriter /\ HaltHolds /\ BudgetKept

-----------------------------------------------------------------------------
(* Types.                                                                  *)

(* What a firing does to what it remembers.                                *)
LEMMA GoTypes ==
  ASSUME CharterTypeOK, NEW p \in Firings, NEW to \in Stages, NEW end \in BOOLEAN,
         NEW doc \in Contracts \cup {NoContract}, Go(p, to, doc, end)
  PROVE  /\ fpc' \in [Firings -> Stages] /\ fdoc' \in [Firings -> Contracts \cup {NoContract}]
         /\ fbuf' \in [Firings -> Statuses \ {"torn"}] /\ fend' \in [Firings -> BOOLEAN]
<1>1. "missing" \in Statuses \ {"torn"}
  BY DEF Statuses
<1> QED
  BY <1>1 DEF Go, CharterTypeOK, Stages

(* What a firing reads of the state file is a status.                      *)
LEMMA ReadTypes ==
  ASSUME CharterTypeOK, NEW p \in Firings, NEW to \in Stages, Read(p, to)
  PROVE  fpc' \in [Firings -> Stages] /\ fbuf' \in [Firings -> Statuses \ {"torn"}]
  BY DEF Read, CharterTypeOK, Stages

(* Every task of the journal has a playbook.                               *)
LEMMA AppendTypes ==
  ASSUME CharterTypeOK, NEW t \in Task, tasks' = Append(tasks, t), aged' = aged
  PROVE  /\ tasks' \in Seq(Task) /\ aged' \in 0..Len(tasks') /\ Len(tasks') = Len(tasks) + 1
         /\ DOMAIN tasks' = DOMAIN tasks \cup {Len(tasks) + 1}
         /\ \A i \in DOMAIN tasks : tasks'[i] = tasks[i]
         /\ tasks'[Len(tasks) + 1] = t
  BY DEF CharterTypeOK, Task

(* A step of a firing keeps the types.                                     *)
LEMMA FiringTypes ==
  ASSUME CharterTypeOK, NEW p \in Firings,
         \/ Fire(p) \/ NotActive(p) \/ Clear(p) \/ Refuse(p) \/ WritePause(p)
         \/ Begin(p) \/ NoTask(p) \/ DryRun(p) \/ End(p)
         \/ Record(p) \/ WriteRecord(p) \/ Crash(p)
  PROVE  CharterTypeOK'
<1> USE DEF fileVars, worldVars
<1>0. /\ fdoc[p] \in Contracts \cup {NoContract} /\ fbuf[p] \in Statuses \ {"torn"}
      /\ fend[p] \in BOOLEAN /\ {"active", "paused", "torn"} \subseteq Statuses
      /\ Stages = {"idle", "loaded", "cleared", "pausing", "running", "ended", "recording"}
      /\ Task = [playbook : Playbooks, fired : BOOLEAN]
  BY DEF CharterTypeOK, Statuses, Stages, Task
<1>1. CASE Fire(p)
  <2>1. /\ Read(p, "loaded") /\ fdoc' = [fdoc EXCEPT ![p] = contract]
        /\ UNCHANGED <<contract, status, match, tasks, aged, fend, opc, halted, raced>>
    BY <1>1 DEF Fire
  <2>2. fpc' \in [Firings -> Stages] /\ fbuf' \in [Firings -> Statuses \ {"torn"}]
    BY <1>0, <2>1, ReadTypes
  <2> QED
    BY <1>0, <2>1, <2>2 DEF CharterTypeOK
<1>2. CASE Refuse(p) \/ Record(p)
  <2>1. /\ Read(p, "pausing") \/ Read(p, "recording")
        /\ UNCHANGED <<contract, status, match, tasks, aged, fdoc, fend, opc, halted>>
        /\ raced' \in BOOLEAN
    BY <1>2 DEF Refuse, Record, Racing, CharterTypeOK
  <2>2. fpc' \in [Firings -> Stages] /\ fbuf' \in [Firings -> Statuses \ {"torn"}]
    BY <1>0, <2>1, ReadTypes
  <2> QED
    BY <1>0, <2>1, <2>2 DEF CharterTypeOK
<1>3. CASE \/ NotActive(p) \/ Clear(p) \/ WritePause(p) \/ Begin(p) \/ NoTask(p) \/ DryRun(p)
           \/ End(p) \/ WriteRecord(p) \/ Crash(p)
  <2>1. \E to \in Stages, doc \in Contracts \cup {NoContract}, end \in BOOLEAN :
          Go(p, to, doc, end)
    BY <1>0, <1>3 DEF NotActive, Clear, WritePause, Begin, NoTask, DryRun, End, WriteRecord,
           Crash, Drop
  <2>2. /\ fpc' \in [Firings -> Stages] /\ fdoc' \in [Firings -> Contracts \cup {NoContract}]
        /\ fbuf' \in [Firings -> Statuses \ {"torn"}] /\ fend' \in [Firings -> BOOLEAN]
    BY <2>1, GoTypes
  <2>3. /\ UNCHANGED <<contract, match, opc, raced>> /\ halted' \in BOOLEAN
        /\ status' \in {status, fbuf[p], "paused", "torn"}
    BY <1>0, <1>3 DEF NotActive, Clear, WritePause, Begin, NoTask, DryRun, End, WriteRecord,
           AfterFiring, Crash, CharterTypeOK
  <2>4. tasks' \in Seq(Task) /\ aged' \in 0..Len(tasks')
    <3>1. CASE Begin(p)
      <4>1. [playbook |-> match, fired |-> TRUE] \in Task /\ aged' = aged
        BY <1>0, <3>1 DEF Begin, CharterTypeOK
      <4> QED
        BY <3>1, <4>1, AppendTypes DEF Begin
    <3>2. CASE ~Begin(p)
      <4>1. UNCHANGED <<tasks, aged>>
        BY <1>3, <3>2 DEF NotActive, Clear, WritePause, NoTask, DryRun, End, WriteRecord, Crash
      <4> QED
        BY <1>0, <4>1 DEF CharterTypeOK
    <3> QED
      BY <3>1, <3>2
  <2> QED
    BY <1>0, <2>2, <2>3, <2>4 DEF CharterTypeOK
<1> QED
  BY <1>1, <1>2, <1>3

(* So does everything else.                                                *)
LEMMA AroundTypes ==
  ASSUME CharterTypeOK,
         \/ \E doc \in Contracts : Install(doc) \/ Edit(doc)
         \/ \E to \in {"active", "paused", "revoked"} : Ask(to)
         \/ OwnerWrites
         \/ \E b \in Playbooks : OtherTask(b)
         \/ Age
         \/ \E b \in Playbooks \cup {NoPlaybook} : CatalogMoves(b)
  PROVE  CharterTypeOK'
<1> USE DEF fileVars, worldVars
<1>1. CASE \/ \E doc \in Contracts : Install(doc) \/ Edit(doc)
           \/ \E to \in {"active", "paused", "revoked"} : Ask(to)
           \/ \E b \in Playbooks \cup {NoPlaybook} : CatalogMoves(b)
           \/ OwnerWrites
  <2>1. /\ UNCHANGED <<tasks, aged, fpc, fdoc, fbuf, fend>>
        /\ contract' \in Contracts \cup {NoContract} /\ match' \in Playbooks \cup {NoPlaybook}
        /\ opc' \in {"idle", "active", "paused", "revoked"}
        /\ raced' \in BOOLEAN /\ halted' \in BOOLEAN /\ status' \in {status, opc}
        /\ status' = opc => status' = status \/ opc # "idle"
    BY <1>1 DEF Install, Edit, Ask, CatalogMoves, OwnerWrites, Racing, CharterTypeOK
  <2>2. status' \in Statuses
    BY <2>1 DEF CharterTypeOK, Statuses
  <2> QED
    BY <2>1, <2>2 DEF CharterTypeOK
<1>2. ASSUME NEW b \in Playbooks, OtherTask(b) PROVE CharterTypeOK'
  <2>1. [playbook |-> b, fired |-> FALSE] \in Task
    BY DEF Task
  <2>2. tasks' \in Seq(Task) /\ aged' \in 0..Len(tasks')
    BY <1>2, <2>1, AppendTypes DEF OtherTask
  <2> QED
    BY <1>2, <2>2 DEF OtherTask, CharterTypeOK, Task
<1>3. CASE Age
  <2>1. aged' \in 0..Len(tasks)
    BY <1>3 DEF Age, CharterTypeOK
  <2> QED
    BY <1>3, <2>1 DEF Age, CharterTypeOK
<1> QED
  BY <1>1, <1>2, <1>3

(* A step keeps the types.                                                 *)
LEMMA CharterTypes ==
  ASSUME CharterTypeOK, [CharterNext]_charterVars PROVE CharterTypeOK'
<1>1. ASSUME UNCHANGED charterVars PROVE CharterTypeOK'
  BY <1>1 DEF charterVars, CharterTypeOK
<1> QED
  BY <1>1, FiringTypes, AroundTypes DEF CharterNext

-----------------------------------------------------------------------------
(* The state file.                                                         *)

(* A writer that overlaps nobody writes over what it read.                 *)
LEMMA WriterStep ==
  ASSUME CharterTypeOK, OneWriter, HaltHolds, NEW p \in Firings, Writing(p), Drop(p),
         UNCHANGED <<raced, opc>>,
         ~raced => (halted' /\ status' = "paused") \/ status' = "torn"
                     \/ (halted' = halted /\ status' = status)
  PROVE  OneWriter' /\ HaltHolds'
<1>1. fpc' = [fpc EXCEPT ![p] = "idle"] /\ fpc \in [Firings -> Stages]
      /\ fbuf' = [fbuf EXCEPT ![p] = "missing"]
  BY DEF Drop, Go, CharterTypeOK, Stages
<1>2. \A q \in Firings : Writing(q)' => q # p /\ Writing(q)
  BY <1>1 DEF Writing
<1>3. ~raced => \A q \in Firings : ~Writing(q)'
  BY <1>2 DEF OneWriter
<1>4. OneWriter'
  BY <1>3 DEF OneWriter
<1>5. HaltHolds'
  BY DEF HaltHolds
<1> QED
  BY <1>4, <1>5

(* One that begins to write while nobody else does.                        *)
LEMMA ReaderStep ==
  ASSUME CharterTypeOK, OneWriter, HaltHolds, NEW p \in Firings,
         NEW to \in {"pausing", "recording"}, Read(p, to), Racing(p),
         UNCHANGED <<status, opc, halted>>
  PROVE  OneWriter' /\ HaltHolds'
<1>1. /\ fpc' = [fpc EXCEPT ![p] = to] /\ fbuf' = [fbuf EXCEPT ![p] = status]
      /\ fpc \in [Firings -> Stages] /\ fbuf \in [Firings -> Statuses \ {"torn"}]
  BY DEF Read, CharterTypeOK, Stages
<1>2. ~raced' => ~raced /\ opc = "idle" /\ \A q \in Firings \ {p} : ~Writing(q)
  BY CharterAssumption DEF Racing, Writers, Writing
<1>3. \A q \in Firings \ {p} : Writing(q)' = Writing(q)
  BY <1>1 DEF Writing
<1>4. fbuf'[p] = status
  BY <1>1
<1>5. OneWriter'
  BY <1>2, <1>3, <1>4 DEF OneWriter
<1> QED
  BY <1>2, <1>5 DEF HaltHolds

(* And a step of a firing that does not write.                             *)
LEMMA OtherStep ==
  ASSUME OneWriter, HaltHolds, UNCHANGED <<status, opc, halted, raced>>,
         \A q \in Firings : Writing(q)' => Writing(q) /\ fbuf'[q] = fbuf[q]
  PROVE  OneWriter' /\ HaltHolds'
<1>1. OneWriter'
  BY DEF OneWriter
<1> QED
  BY <1>1 DEF HaltHolds

(* Every step of the charter keeps one writer at a time, or knows it.      *)
LEMMA HaltStep ==
  ASSUME CharterTypeOK, OneWriter, HaltHolds, [CharterNext]_charterVars
  PROVE  OneWriter' /\ HaltHolds'
<1> USE DEF fileVars, worldVars
<1>0. fpc \in [Firings -> Stages] /\ fbuf \in [Firings -> Statuses \ {"torn"}]
  BY DEF CharterTypeOK, Stages
<1>1. ASSUME NEW p \in Firings, Fire(p) PROVE OneWriter' /\ HaltHolds'
  <2>1. /\ fpc' = [fpc EXCEPT ![p] = "loaded"] /\ fbuf' = [fbuf EXCEPT ![p] = status]
        /\ UNCHANGED <<status, opc, halted, raced>>
    BY <1>1 DEF Fire, Read
  <2>2. \A q \in Firings : Writing(q)' => Writing(q) /\ fbuf'[q] = fbuf[q]
    BY <1>0, <2>1 DEF Writing
  <2> QED
    BY <2>1, <2>2, OtherStep
<1>2. ASSUME NEW p \in Firings,
             NotActive(p) \/ Clear(p) \/ Begin(p) \/ NoTask(p) \/ DryRun(p) \/ End(p)
      PROVE  OneWriter' /\ HaltHolds'
  <2>1. PICK to \in {"idle", "cleared", "running", "ended"} :
          /\ fpc' = [fpc EXCEPT ![p] = to] /\ fbuf' = [fbuf EXCEPT ![p] = "missing"]
          /\ UNCHANGED <<status, opc, halted, raced>>
    BY <1>2 DEF NotActive, Clear, Begin, NoTask, DryRun, End, Drop, Go
  <2>2. \A q \in Firings : Writing(q)' => Writing(q) /\ fbuf'[q] = fbuf[q]
    BY <1>0, <2>1 DEF Writing
  <2> QED
    BY <2>1, <2>2, OtherStep
<1>3. ASSUME NEW p \in Firings, Refuse(p) \/ Record(p) PROVE OneWriter' /\ HaltHolds'
  <2>1. \E to \in {"pausing", "recording"} : Read(p, to)
    BY <1>3 DEF Refuse, Record
  <2>2. Racing(p) /\ UNCHANGED <<status, opc, halted>>
    BY <1>3 DEF Refuse, Record
  <2> QED
    BY <2>1, <2>2, ReaderStep
<1>4. ASSUME NEW p \in Firings, WritePause(p) PROVE OneWriter' /\ HaltHolds'
  <2>1. Writing(p) /\ Drop(p) /\ UNCHANGED <<raced, opc>> /\ halted' /\ status' = "paused"
    BY <1>4 DEF WritePause, Writing
  <2> QED
    BY <2>1, WriterStep
<1>5. ASSUME NEW p \in Firings, WriteRecord(p) PROVE OneWriter' /\ HaltHolds'
  <2>1. Writing(p) /\ Drop(p) /\ UNCHANGED <<raced, opc>>
    BY <1>5 DEF WriteRecord, Writing
  <2>2. CASE fend[p]
    <3>1. halted' = halted /\ status' = fbuf[p]
      BY <1>5, <2>2 DEF WriteRecord, AfterFiring, CharterTypeOK
    <3>2. ~raced => status' = status
      BY <2>1, <3>1 DEF OneWriter
    <3> QED
      BY <2>1, <3>1, <3>2, WriterStep
  <2>3. CASE ~fend[p]
    <3>1. halted' /\ status' = "paused"
      BY <1>5, <2>3 DEF WriteRecord, AfterFiring
    <3> QED
      BY <2>1, <3>1, WriterStep
  <2> QED
    BY <2>2, <2>3
<1>6. ASSUME NEW p \in Firings, Crash(p) PROVE OneWriter' /\ HaltHolds'
  <2>1. /\ Drop(p) /\ UNCHANGED <<raced, opc, halted>>
        /\ status' = status \/ (status' = "torn" /\ Writing(p))
    BY <1>6 DEF Crash, Writing
  <2>2. CASE Writing(p)
    BY <2>1, <2>2, WriterStep
  <2>3. CASE ~Writing(p)
    <3>1. fpc' = [fpc EXCEPT ![p] = "idle"] /\ fbuf' = [fbuf EXCEPT ![p] = "missing"]
      BY <2>1 DEF Drop, Go
    <3>2. \A q \in Firings : Writing(q)' => Writing(q) /\ fbuf'[q] = fbuf[q]
      BY <1>0, <3>1 DEF Writing
    <3> QED
      BY <2>1, <2>3, <3>2, OtherStep
  <2> QED
    BY <2>2, <2>3
<1>7. CASE \/ \E doc \in Contracts : Install(doc)
           \/ \E to \in {"active", "paused", "revoked"} : Ask(to)
  <2>1. Racing(Owner) /\ UNCHANGED <<status, fpc, fbuf, halted>>
    BY <1>7 DEF Install, Ask
  <2>2. ~raced' => ~raced /\ \A q \in Firings : ~Writing(q)
    BY <2>1, CharterAssumption DEF Racing, Writers, Writing
  <2>3. \A q \in Firings : Writing(q)' = Writing(q)
    BY <2>1 DEF Writing
  <2>4. OneWriter'
    BY <2>2, <2>3 DEF OneWriter
  <2> QED
    BY <2>1, <2>2, <2>4 DEF HaltHolds
<1>8. CASE OwnerWrites
  <2>1. /\ opc # "idle" /\ status' = opc /\ opc' = "idle" /\ halted' = (opc # "active")
        /\ UNCHANGED <<fpc, fbuf, raced>>
    BY <1>8 DEF OwnerWrites
  <2>2. \A q \in Firings : Writing(q)' = Writing(q)
    BY <2>1 DEF Writing
  <2>3. ~raced => \A q \in Firings : ~Writing(q)
    BY <2>1 DEF OneWriter
  <2>4. OneWriter'
    BY <2>1, <2>2, <2>3 DEF OneWriter
  <2> QED
    BY <2>1, <2>4 DEF HaltHolds
<1>9. CASE \/ \E doc \in Contracts : Edit(doc)
           \/ \E b \in Playbooks : OtherTask(b)
           \/ Age
           \/ \E b \in Playbooks \cup {NoPlaybook} : CatalogMoves(b)
           \/ UNCHANGED charterVars
  <2>1. UNCHANGED <<status, fpc, fbuf, opc, halted, raced>>
    BY <1>9 DEF Edit, OtherTask, Age, CatalogMoves, charterVars
  <2>2. \A q \in Firings : Writing(q)' => Writing(q) /\ fbuf'[q] = fbuf[q]
    BY <2>1 DEF Writing
  <2> QED
    BY <2>1, <2>2, OtherStep
<1> QED
  BY <1>1, <1>2, <1>3, <1>4, <1>5, <1>6, <1>7, <1>8, <1>9 DEF CharterNext

-----------------------------------------------------------------------------
(* The budget.                                                             *)

(* What is counted is finite, and so are the firings.                      *)
LEMMA FiniteCounts ==
  ASSUME CharterTypeOK
  PROVE  /\ IsFiniteSet(Counted) /\ Cardinality(Counted) \in Nat
         /\ IsFiniteSet(ToCome) /\ Cardinality(ToCome) \in Nat
         /\ Cardinality(ToCome) <= Cardinality(Firings) /\ Cardinality(Firings) \in Nat
<1>1. tasks \in Seq(Task) /\ Len(tasks) \in Nat /\ DOMAIN tasks = 1..Len(tasks)
  BY DEF CharterTypeOK, Task
<1>2. IsFiniteSet(1..Len(tasks))
  BY <1>1, FS_Interval
<1>3. Counted \subseteq 1..Len(tasks)
  BY <1>1 DEF Counted
<1>4. IsFiniteSet(Counted)
  BY <1>2, <1>3, FS_Subset
<1>5. IsFiniteSet(Firings) /\ ToCome \subseteq Firings
  BY CharterAssumption DEF ToCome
<1>6. IsFiniteSet(ToCome) /\ Cardinality(ToCome) <= Cardinality(Firings)
  BY <1>5, FS_Subset
<1> QED
  BY <1>4, <1>5, <1>6, FS_CardinalityType

(* Fewer of both is no harm.                                               *)
LEMMA BudgetShrinks ==
  ASSUME CharterTypeOK, CharterTypeOK', BudgetKept, Counted' \subseteq Counted,
         ToCome' \subseteq ToCome, Len(tasks) <= Len(tasks')
  PROVE  BudgetKept'
<1>1. /\ IsFiniteSet(Counted) /\ IsFiniteSet(ToCome)
      /\ Cardinality(Counted) \in Nat /\ Cardinality(ToCome) \in Nat
      /\ Cardinality(Firings) \in Nat
  BY FiniteCounts
<1>2. Cardinality(Counted') <= Cardinality(Counted) /\ Cardinality(Counted') \in Nat
  BY <1>1, FS_Subset, FS_CardinalityType
<1>3. Cardinality(ToCome') <= Cardinality(ToCome) /\ Cardinality(ToCome') \in Nat
  BY <1>1, FS_Subset, FS_CardinalityType
<1>4. Len(tasks) \in Nat /\ Len(tasks') \in Nat /\ Window \in Nat /\ Budget \in Nat
  BY CharterAssumption DEF CharterTypeOK
<1>5. ASSUME Len(tasks') <= Window
      PROVE  Cardinality(Counted') + Cardinality(ToCome') <= Budget + Cardinality(Firings) - 1
  <2>1. Cardinality(Counted) + Cardinality(ToCome) <= Budget + Cardinality(Firings) - 1
    BY <1>4, <1>5 DEF BudgetKept
  <2> QED
    BY <1>1, <1>2, <1>3, <1>4, <2>1
<1>6. Counted' = (Counted)' /\ ToCome' = (ToCome)'
  OBVIOUS
<1> QED
  BY <1>5 DEF BudgetKept

(* A charter that is fit has not spent its budget on what all allow.       *)
LEMMA FitCounts ==
  ASSUME CharterTypeOK, NEW doc \in Contracts \cup {NoContract}, ~Unfit(doc),
         Len(tasks) <= Window
  PROVE  Cardinality(Counted) + 1 <= Budget
<1> DEFINE U == {i \in DOMAIN tasks : /\ i > aged /\ i + Window > Len(tasks)
                                      /\ tasks[i].playbook \in doc.allow}
<1>1. Valid(doc) /\ ~(Cardinality(U) >= Budget)
  BY DEF Unfit, Used
<1>2. doc \in Contracts
  <2>1. NoContract.allow = {}
    BY DEF NoContract
  <2> QED
    BY <1>1, <2>1 DEF Valid
<1>3. Always \subseteq doc.allow
  BY <1>1, <1>2 DEF Always
<1>4. tasks \in Seq(Task) /\ Len(tasks) \in Nat /\ DOMAIN tasks = 1..Len(tasks)
      /\ Window \in Nat \ {0} /\ Budget \in Nat
  BY CharterAssumption DEF CharterTypeOK, Task
<1>5. Counted \subseteq U
  BY <1>3, <1>4 DEF Counted
<1>6. IsFiniteSet(U)
  <2>1. U \subseteq 1..Len(tasks)
    BY <1>4
  <2>2. IsFiniteSet(1..Len(tasks))
    BY <1>4, FS_Interval
  <2> QED
    BY <2>1, <2>2, FS_Subset
<1>7. Cardinality(Counted) <= Cardinality(U) /\ Cardinality(U) \in Nat
      /\ Cardinality(Counted) \in Nat
  BY <1>5, <1>6, FS_Subset, FS_CardinalityType
<1> HIDE DEF U
<1> QED
  BY <1>1, <1>4, <1>7

(* A firing that is cleared.                                               *)
LEMMA ClearStep ==
  ASSUME CharterTypeOK, CharterTypeOK', BudgetKept, NEW p \in Firings, Clear(p)
  PROVE  BudgetKept'
<1>1. /\ ~Unfit(fdoc[p]) /\ fdoc[p] \in Contracts \cup {NoContract}
      /\ UNCHANGED <<tasks, aged>>
  BY DEF Clear, worldVars, CharterTypeOK
<1>2. Counted' = Counted
  BY <1>1 DEF Counted
<1>3. /\ Cardinality(Counted) \in Nat /\ Cardinality(Firings) \in Nat
  BY FiniteCounts
<1>4. IsFiniteSet(Firings) /\ ToCome' \subseteq Firings /\ Budget \in Nat
  BY CharterAssumption DEF ToCome
<1>5. Cardinality(ToCome') <= Cardinality(Firings) /\ Cardinality(ToCome') \in Nat
  BY <1>4, FS_Subset, FS_CardinalityType
<1>6. Len(tasks) <= Window => Cardinality(Counted) + 1 <= Budget
  BY <1>1, FitCounts
<1>7. Len(tasks) <= Window =>
        Cardinality(Counted') + Cardinality(ToCome') <= Budget + Cardinality(Firings) - 1
  BY <1>2, <1>3, <1>4, <1>5, <1>6
<1> QED
  BY <1>1, <1>7 DEF BudgetKept

(* One that begins was counted among those to come.                        *)
LEMMA BeginStep ==
  ASSUME CharterTypeOK, CharterTypeOK', BudgetKept, NEW p \in Firings, Begin(p)
  PROVE  BudgetKept'
<1>1. /\ fpc[p] = "cleared" /\ match \in Playbooks /\ UNCHANGED <<match, aged, contract>>
      /\ tasks' = Append(tasks, [playbook |-> match, fired |-> TRUE])
      /\ fpc' = [fpc EXCEPT ![p] = "running"] /\ fpc \in [Firings -> Stages]
  BY DEF Begin, Go, fileVars, CharterTypeOK, Stages
<1>2. /\ Len(tasks') = Len(tasks) + 1 /\ DOMAIN tasks' = DOMAIN tasks \cup {Len(tasks) + 1}
      /\ \A i \in DOMAIN tasks : tasks'[i] = tasks[i]
  <2>1. [playbook |-> match, fired |-> TRUE] \in Task
    BY <1>1 DEF Task
  <2> QED
    BY <1>1, <2>1, AppendTypes
<1>3. Counted' \subseteq Counted \cup {Len(tasks) + 1}
  BY <1>1, <1>2 DEF Counted
<1>4. ToCome' = ToCome \ {p} /\ p \in ToCome
  BY <1>1 DEF ToCome
<1>5. /\ IsFiniteSet(Counted) /\ IsFiniteSet(ToCome)
      /\ Cardinality(Counted) \in Nat /\ Cardinality(ToCome) \in Nat
      /\ Cardinality(Firings) \in Nat
  BY FiniteCounts
<1>6. /\ IsFiniteSet(Counted \cup {Len(tasks) + 1})
      /\ Cardinality(Counted \cup {Len(tasks) + 1}) <= Cardinality(Counted) + 1
  <2>1. Cardinality(Counted \cup {Len(tasks) + 1}) =
          IF Len(tasks) + 1 \in Counted THEN Cardinality(Counted) ELSE Cardinality(Counted) + 1
    BY <1>5, FS_AddElement
  <2>2. IsFiniteSet(Counted \cup {Len(tasks) + 1})
    BY <1>5, FS_AddElement
  <2> QED
    BY <1>5, <2>1, <2>2
<1>7. Cardinality(Counted') <= Cardinality(Counted) + 1 /\ Cardinality(Counted') \in Nat
  <2>1. /\ Cardinality(Counted') <= Cardinality(Counted \cup {Len(tasks) + 1})
        /\ IsFiniteSet(Counted')
    BY <1>3, <1>6, FS_Subset
  <2>2. Cardinality(Counted') \in Nat /\ Cardinality(Counted \cup {Len(tasks) + 1}) \in Nat
    BY <1>6, <2>1, FS_CardinalityType
  <2> QED
    BY <1>5, <1>6, <2>1, <2>2
<1>8. Cardinality(ToCome') = Cardinality(ToCome) - 1
  BY <1>4, <1>5, FS_RemoveElement
<1>9. Len(tasks) \in Nat /\ Window \in Nat /\ Budget \in Nat
  BY CharterAssumption DEF CharterTypeOK
<1>10. ASSUME Len(tasks') <= Window
       PROVE  Cardinality(Counted') + Cardinality(ToCome') <= Budget + Cardinality(Firings) - 1
  <2>1. Cardinality(Counted) + Cardinality(ToCome) <= Budget + Cardinality(Firings) - 1
    BY <1>2, <1>9, <1>10 DEF BudgetKept
  <2> QED
    BY <1>5, <1>7, <1>8, <1>9, <2>1
<1> QED
  BY <1>10 DEF BudgetKept

(* A task that is nobody's firing does not count.                          *)
LEMMA OtherTaskStep ==
  ASSUME CharterTypeOK, CharterTypeOK', BudgetKept, NEW b \in Playbooks, OtherTask(b)
  PROVE  BudgetKept'
<1>1. /\ UNCHANGED <<aged, fpc>>
      /\ tasks' = Append(tasks, [playbook |-> b, fired |-> FALSE])
  BY DEF OtherTask
<1>2. /\ Len(tasks') = Len(tasks) + 1 /\ DOMAIN tasks' = DOMAIN tasks \cup {Len(tasks) + 1}
      /\ \A i \in DOMAIN tasks : tasks'[i] = tasks[i]
      /\ tasks'[Len(tasks) + 1] = [playbook |-> b, fired |-> FALSE]
  <2>1. [playbook |-> b, fired |-> FALSE] \in Task
    BY DEF Task
  <2> QED
    BY <1>1, <2>1, AppendTypes
<1>3. ~tasks'[Len(tasks) + 1].fired
  BY <1>2
<1>4. Counted' \subseteq Counted
  BY <1>1, <1>2, <1>3 DEF Counted
<1>5. ToCome' = ToCome
  BY <1>1 DEF ToCome
<1>6. Len(tasks) <= Len(tasks')
  BY <1>2 DEF CharterTypeOK
<1> QED
  BY <1>4, <1>5, <1>6, BudgetShrinks

(* Every step keeps the count.                                             *)
LEMMA BudgetStep ==
  ASSUME CharterTypeOK, CharterTypeOK', BudgetKept, [CharterNext]_charterVars
  PROVE  BudgetKept'
<1> USE DEF worldVars
<1>0. Len(tasks) \in Nat /\ fpc \in [Firings -> Stages]
  BY DEF CharterTypeOK, Stages
<1>1. ASSUME NEW p \in Firings, Clear(p) PROVE BudgetKept'
  BY <1>1, ClearStep
<1>2. ASSUME NEW p \in Firings, Begin(p) PROVE BudgetKept'
  BY <1>2, BeginStep
<1>3. ASSUME NEW b \in Playbooks, OtherTask(b) PROVE BudgetKept'
  BY <1>3, OtherTaskStep
<1>4. ASSUME NEW p \in Firings,
             \/ Fire(p) \/ NotActive(p) \/ Refuse(p) \/ WritePause(p) \/ NoTask(p)
             \/ DryRun(p) \/ End(p) \/ Record(p) \/ WriteRecord(p) \/ Crash(p)
      PROVE  BudgetKept'
  <2>1. PICK to \in Stages : fpc' = [fpc EXCEPT ![p] = to] /\ to # "cleared"
    BY <1>4 DEF Fire, NotActive, Refuse, WritePause, NoTask, DryRun, End, Record, WriteRecord,
           Crash, Read, Drop, Go, Stages
  <2>2. UNCHANGED <<tasks, aged>>
    BY <1>4 DEF Fire, NotActive, Refuse, WritePause, NoTask, DryRun, End, Record, WriteRecord,
           Crash
  <2>3. ToCome' \subseteq ToCome
    BY <1>0, <2>1 DEF ToCome
  <2>4. Counted' = Counted
    BY <2>2 DEF Counted
  <2> QED
    BY <1>0, <2>2, <2>3, <2>4, BudgetShrinks
<1>5. CASE \/ \E doc \in Contracts : Install(doc) \/ Edit(doc)
           \/ \E to \in {"active", "paused", "revoked"} : Ask(to)
           \/ OwnerWrites
           \/ Age
           \/ \E b \in Playbooks \cup {NoPlaybook} : CatalogMoves(b)
           \/ UNCHANGED charterVars
  <2>1. UNCHANGED <<tasks, fpc>> /\ aged' \in {aged, aged + 1} /\ aged \in Nat
    BY <1>5 DEF Install, Edit, Ask, OwnerWrites, Age, CatalogMoves, charterVars, CharterTypeOK
  <2>2. ToCome' = ToCome
    BY <2>1 DEF ToCome
  <2>3. Counted' \subseteq Counted
    <3>1. DOMAIN tasks \subseteq Nat
      BY DEF CharterTypeOK
    <3> QED
      BY <2>1, <3>1 DEF Counted
  <2> QED
    BY <1>0, <2>1, <2>2, <2>3, BudgetShrinks
<1> QED
  BY <1>1, <1>2, <1>3, <1>4, <1>5 DEF CharterNext

-----------------------------------------------------------------------------
(* The invariant of a charter, its firings and its owner.                  *)
LEMMA CharterInvariance == CharterSpec => []CharterInv
<1>1. ASSUME CharterInit PROVE CharterInv
  <2>1. CharterTypeOK
    <3>1. tasks = <<>> /\ aged = 0 /\ tasks \in Seq([playbook : Playbooks, fired : BOOLEAN])
          /\ Len(tasks) = 0
      BY <1>1 DEF CharterInit
    <3>2. {"missing"} \subseteq Statuses \ {"torn"}
      BY DEF Statuses
    <3>3. fpc \in [Firings -> {"idle", "loaded", "cleared", "pausing", "running", "ended",
                                "recording"}]
      BY <1>1 DEF CharterInit
    <3>4. /\ fdoc \in [Firings -> Contracts \cup {NoContract}]
          /\ fbuf \in [Firings -> Statuses \ {"torn"}] /\ fend \in [Firings -> BOOLEAN]
      BY <1>1, <3>2 DEF CharterInit
    <3>5. aged \in 0..Len(tasks)
      BY <3>1
    <3>6. /\ contract \in Contracts \cup {NoContract} /\ status \in Statuses
          /\ match \in Playbooks \cup {NoPlaybook} /\ opc = "idle"
          /\ halted \in BOOLEAN /\ raced \in BOOLEAN
      BY <1>1, <3>2 DEF CharterInit
    <3> QED
      BY <3>1, <3>3, <3>4, <3>5, <3>6 DEF CharterTypeOK
  <2>2. OneWriter
    BY <1>1 DEF CharterInit, OneWriter, Writing
  <2>3. Counted = {} /\ ToCome = {}
    BY <1>1 DEF CharterInit, Counted, ToCome
  <2>4. BudgetKept
    <3>1. Cardinality(Counted) = 0 /\ Cardinality(ToCome) = 0
      BY <2>3, FS_EmptySet
    <3>2. Cardinality(Firings) \in Nat /\ Budget \in Nat \ {0}
      BY CharterAssumption, FS_CardinalityType
    <3> QED
      BY <3>1, <3>2 DEF BudgetKept
  <2> QED
    BY <1>1, <2>1, <2>2, <2>4 DEF CharterInit, CharterInv, HaltHolds
<1>2. ASSUME CharterInv, [CharterNext]_charterVars PROVE CharterInv'
  <2>1. CharterTypeOK'
    BY <1>2, CharterTypes DEF CharterInv
  <2>2. OneWriter' /\ HaltHolds'
    BY <1>2, HaltStep DEF CharterInv
  <2>3. BudgetKept'
    BY <1>2, <2>1, BudgetStep DEF CharterInv
  <2> QED
    BY <2>1, <2>2, <2>3 DEF CharterInv
<1> QED
  BY <1>1, <1>2, PTL DEF CharterSpec

(* A pause, a revocation or a failure holds until the owner lifts it,      *)
(* however many firings were on their way.                                 *)
THEOREM HaltTheorem == CharterSpec => []HaltHolds
<1>1. CharterInv => HaltHolds
  BY DEF CharterInv
<1> QED
  BY <1>1, CharterInvariance, PTL

(* However many firings are cleared at the same moment, they go beyond the *)
(* budget by one each, and not by more.                                    *)
THEOREM BudgetTheorem == CharterSpec => []BudgetHolds
<1>1. ASSUME CharterInv PROVE BudgetHolds
  <2>1. /\ Cardinality(Counted) \in Nat /\ Cardinality(ToCome) \in Nat
        /\ Cardinality(Firings) \in Nat /\ Budget \in Nat
    BY <1>1, FiniteCounts, CharterAssumption DEF CharterInv
  <2>2. Len(tasks) <= Window => Cardinality(Counted) <= Budget + Cardinality(Firings) - 1
    BY <1>1, <2>1 DEF CharterInv, BudgetKept
  <2> QED
    BY <2>2 DEF BudgetHolds, Counted
<1> QED
  BY <1>1, CharterInvariance, PTL

-----------------------------------------------------------------------------
(* Packs: what the receipt is worth.                                       *)

(* A receipt is only taken of bytes that passed; between its reads the     *)
(* matcher knows the pack as long as nobody writes it.                     *)
Receipted ==
  /\ receipt \in Vetted \cup {NoBytes}
  /\ \A i \in Installers : ipc[i] \in {"write", "fill", "pin", "done"} => idoc[i] \in Vetted
Matched ==
  /\ upc # "idle" => used = NoBytes
  /\ upc \in {"checked", "use"} => ubytes # NoBytes /\ (swapped \/ ubytes = pack)
  /\ upc = "use" => kind = "skill" /\ ubytes \in Vetted
PackInv == PackTypeOK /\ Receipted /\ Matched /\ UsedIsVetted

(* What is vetted is bytes.                                                *)
LEMMA VettedBytes == Vetted \subseteq Bytes /\ NoBytes \notin Vetted
  BY PackAssumption DEF Vetted, SkillVetted, AppVetted

(* An installer's step, whatever its label.                                *)
LEMMA StageKeeps ==
  ASSUME PackInv, NEW i \in Installers,
         NEW to \in {"idle", "shown", "write", "fill", "pin", "done"},
         NEW doc \in Bytes \cup {NoBytes}, Stage(i, to, doc),
         to \in {"write", "fill", "pin", "done"} => doc \in Vetted,
         kind' = kind
  PROVE  /\ ipc' \in [Installers -> {"idle", "shown", "write", "fill", "pin", "done"}]
         /\ idoc' \in [Installers -> Bytes \cup {NoBytes}]
         /\ \A j \in Installers :
              ipc'[j] \in {"write", "fill", "pin", "done"} => idoc'[j] \in Vetted'
<1>1. Vetted' = Vetted
  BY DEF Vetted, SkillVetted, AppVetted
<1>2. /\ ipc' = [ipc EXCEPT ![i] = to] /\ idoc' = [idoc EXCEPT ![i] = doc]
      /\ ipc \in [Installers -> {"idle", "shown", "write", "fill", "pin", "done"}]
      /\ idoc \in [Installers -> Bytes \cup {NoBytes}]
  BY DEF Stage, PackInv, PackTypeOK
<1>3. \A j \in Installers :
        ipc'[j] \in {"write", "fill", "pin", "done"} => idoc'[j] \in Vetted
  BY <1>2 DEF PackInv, Receipted
<1> QED
  BY <1>1, <1>2, <1>3

(* No step of an installer lets bytes pass that were not vetted.           *)
LEMMA InstallerStep ==
  ASSUME PackInv, NEW i \in Installers,
         \/ Show(i) \/ Declined(i) \/ Vet(i) \/ VetFails(i) \/ Truncate(i)
         \/ WritePack(i) \/ Pin(i) \/ Quits(i)
  PROVE  PackInv'
<1> USE PackAssumption DEF matchVars, draftVars, Files
<1>0. /\ kind' = kind /\ Vetted' = Vetted
      /\ UNCHANGED <<source, proposal, fact, unpaired, upc, ubytes, used>>
  BY DEF Show, Declined, Vet, VetFails, Truncate, WritePack, Pin, Quits, Vetted,
         SkillVetted, AppVetted
<1>1. PICK to \in {"idle", "shown", "write", "fill", "pin", "done"},
           doc \in Bytes \cup {NoBytes} :
        /\ Stage(i, to, doc)
        /\ to \in {"write", "fill", "pin", "done"} => doc \in Vetted
        /\ receipt' \in {receipt} \cup (IF to = "done" THEN {doc} ELSE {})
        /\ \/ UNCHANGED <<pack, swapped>>
           \/ \E b \in Bytes \cup {Torn} : WritesPack(b)
  <2>1. /\ idoc[i] \in Bytes \cup {NoBytes}
        /\ ipc[i] \in {"write", "fill", "pin", "done"} => idoc[i] \in Vetted
    BY DEF PackInv, PackTypeOK, Receipted
  <2>2. CASE Show(i) \/ Declined(i) \/ VetFails(i) \/ Quits(i)
    BY <2>2 DEF Show, Declined, VetFails, Quits, Quit
  <2>3. CASE Vet(i)
    BY <2>3, VettedBytes DEF Vet
  <2>4. CASE Truncate(i)
    BY <2>1, <2>4 DEF Truncate
  <2>5. CASE WritePack(i)
    <3>1. idoc[i] \in Vetted /\ idoc[i] \in Bytes
      BY <2>1, <2>5, VettedBytes DEF WritePack
    <3> QED
      BY <2>5, <3>1 DEF WritePack
  <2>6. CASE Pin(i)
    BY <2>1, <2>6 DEF Pin
  <2> QED
    BY <2>2, <2>3, <2>4, <2>5, <2>6
<1>2. /\ ipc' \in [Installers -> {"idle", "shown", "write", "fill", "pin", "done"}]
      /\ idoc' \in [Installers -> Bytes \cup {NoBytes}]
      /\ \A j \in Installers :
           ipc'[j] \in {"write", "fill", "pin", "done"} => idoc'[j] \in Vetted'
  BY <1>0, <1>1, StageKeeps
<1>3. receipt' \in Vetted \cup {NoBytes} /\ receipt' \in Bytes \cup {NoBytes}
  BY <1>1, VettedBytes DEF PackInv, Receipted
<1>4. pack' \in Files /\ swapped' \in BOOLEAN
  BY <1>1 DEF WritesPack, PackInv, PackTypeOK
<1>5. PackTypeOK'
  BY <1>0, <1>2, <1>3, <1>4 DEF PackInv, PackTypeOK
<1>6. UNCHANGED <<pack, swapped>> => Matched' /\ UsedIsVetted'
  BY <1>0 DEF PackInv, Matched, UsedIsVetted
<1>7. ASSUME NEW b \in Bytes \cup {Torn}, WritesPack(b) PROVE Matched' /\ UsedIsVetted'
  <2>1. swapped' = (swapped \/ upc \in {"checked", "use"})
    BY <1>7 DEF WritesPack
  <2>2. Matched'
    BY <1>0, <2>1 DEF PackInv, PackTypeOK, Matched
  <2>3. UsedIsVetted'
    BY <1>0, <2>1 DEF PackInv, PackTypeOK, UsedIsVetted
  <2> QED
    BY <2>2, <2>3
<1>8. Matched' /\ UsedIsVetted'
  BY <1>1, <1>6, <1>7
<1> QED
  BY <1>0, <1>2, <1>3, <1>5, <1>8 DEF PackInv, Receipted

(* Removals, editors and drafts only write what is checked again.          *)
LEMMA HandStep ==
  ASSUME PackInv,
         \/ RemovePack \/ RemoveReceipt \/ DraftSkill \/ DraftFact \/ Prune \/ Export
         \/ \E b \in Bytes : EditPack(b) \/ EditSource(b)
  PROVE  PackInv'
<1> USE PackAssumption DEF matchVars, draftVars, installVars, Files
<1>0. /\ kind' = kind /\ Vetted' = Vetted
      /\ UNCHANGED <<ipc, idoc, upc, ubytes, used>>
  BY DEF RemovePack, RemoveReceipt, DraftSkill, DraftFact, Prune, Export, EditPack,
         EditSource, NewSource, Vetted, SkillVetted, AppVetted
<1>1. receipt' \in {receipt, NoBytes}
  BY DEF RemovePack, RemoveReceipt, DraftSkill, DraftFact, Prune, Export, EditPack,
         EditSource, NewSource
<1>2. UNCHANGED <<pack, swapped>> \/ \E b \in Bytes \cup {NoBytes} : WritesPack(b)
  BY DEF RemovePack, RemoveReceipt, DraftSkill, DraftFact, Prune, Export, EditPack,
         EditSource, NewSource
<1>3. /\ source' \in Bytes /\ proposal' \in Bytes \cup {NoBytes}
      /\ fact' \in BOOLEAN /\ unpaired' \in BOOLEAN
  BY DEF RemovePack, RemoveReceipt, DraftSkill, DraftFact, Prune, Export, EditPack,
         EditSource, NewSource, PackInv, PackTypeOK
<1>4. pack' \in Files /\ swapped' \in BOOLEAN
  BY <1>2 DEF WritesPack, PackInv, PackTypeOK
<1>5. PackTypeOK'
  BY <1>0, <1>1, <1>3, <1>4 DEF PackInv, PackTypeOK
<1>6. Matched' /\ UsedIsVetted'
  BY <1>0, <1>2 DEF WritesPack, PackInv, PackTypeOK, Matched, UsedIsVetted
<1> QED
  BY <1>0, <1>1, <1>5, <1>6 DEF PackInv, Receipted

(* The matcher's reads.                                                    *)
LEMMA MatcherStep ==
  ASSUME PackInv, Look \/ ReadBytes \/ ReceiptOk \/ Use \/ Skip \/ Served
  PROVE  PackInv'
<1> USE PackAssumption DEF matchVars, draftVars, installVars, Files
<1>0. /\ kind' = kind /\ Vetted' = Vetted
      /\ UNCHANGED <<pack, receipt, source, proposal, fact, ipc, idoc, unpaired>>
  BY DEF Look, ReadBytes, ReceiptOk, Use, Skip, Served, Vetted, SkillVetted, AppVetted
<1>1. Receipted'
  BY <1>0 DEF PackInv, Receipted
<1>2. CASE Look \/ ReadBytes
  BY <1>0, <1>1, <1>2 DEF Look, ReadBytes, PackInv, PackTypeOK, Matched, UsedIsVetted
<1>3. CASE ReceiptOk
  <2>1. ubytes \in Vetted
    BY <1>3 DEF ReceiptOk, PackInv, Receipted, Matched
  <2>2. ubytes \in Bytes /\ used = NoBytes
    BY <1>3, <2>1, VettedBytes DEF ReceiptOk, PackInv, Matched
  <2>3. CASE kind = "skill"
    BY <1>0, <1>1, <1>3, <2>1, <2>2, <2>3
       DEF ReceiptOk, PackInv, PackTypeOK, Matched, UsedIsVetted
  <2>4. CASE kind # "skill"
    BY <1>0, <1>1, <1>3, <2>1, <2>2, <2>4
       DEF ReceiptOk, PackInv, PackTypeOK, Matched, UsedIsVetted
  <2> QED
    BY <2>3, <2>4
<1>4. CASE Use
  <2>1. kind = "skill" /\ (swapped \/ pack \in Vetted)
    BY <1>4 DEF Use, PackInv, Matched
  <2> QED
    BY <1>0, <1>1, <1>4, <2>1 DEF Use, PackInv, PackTypeOK, Matched, UsedIsVetted
<1>5. CASE Skip
  <2>1. used = NoBytes
    BY <1>5 DEF Skip, PackInv, Matched
  <2> QED
    BY <1>0, <1>1, <1>5, <2>1 DEF Skip, PackInv, PackTypeOK, Matched, UsedIsVetted
<1>6. CASE Served
  <2>1. upc = "idle"
    BY <1>6 DEF Served, PackInv, PackTypeOK, Matched
  <2> QED
    BY <1>0, <1>1, <1>6, <2>1 DEF Served, PackInv, PackTypeOK, Matched, UsedIsVetted
<1> QED
  BY <1>2, <1>3, <1>4, <1>5, <1>6

(* The invariant of a pack and its receipt.                                *)
LEMMA PackInvariance == PacksSpec => []PackInv
<1>1. PackInit => PackInv
  BY PackAssumption DEF PackInit, PackInv, PackTypeOK, Files, Receipted, Matched, UsedIsVetted
<1>2. PackInv /\ [PacksNext]_packVars => PackInv'
  <2>1. ASSUME PackInv, UNCHANGED packVars PROVE PackInv'
    BY <2>1 DEF packVars, PackInv, PackTypeOK, Receipted, Matched, UsedIsVetted, Vetted,
           SkillVetted, AppVetted
  <2> QED
    BY <2>1, InstallerStep, HandStep, MatcherStep DEF PacksNext
<1> QED
  BY <1>1, <1>2, PTL DEF PacksSpec

(* What extends the matcher passed every check of its kind, however many   *)
(* installers, editors and deaths come between its reads.                  *)
THEOREM PacksTheorem == PacksSpec => []UsedIsVetted
<1>1. PackInv => UsedIsVetted
  BY DEF PackInv
<1> QED
  BY <1>1, PackInvariance, PTL

-----------------------------------------------------------------------------
(* The runner: what a signal leaves behind.                                *)

(* Once its group was struck, what is left of it is deaf: a process that   *)
(* did not end starts only deaf ones.                                      *)
Struck ==
  /\ struck => Group \cap alive \subseteq deaf
  /\ rpc \in {"grace", "last"} \/ result.timedOut => struck
(* Nothing to strike before the command is held.                           *)
Early ==
  /\ rpc = "idle" => alive = {}
  /\ rpc \in {"idle", "started"} => ~struck /\ ~current /\ ~handler
RunnerInv == RunnerTypeOK /\ Struck /\ Early /\ GroupIsCleanedUp

(* What becomes of the processes changes nothing that was promised of a    *)
(* command: a dead leader starts nothing.                                  *)
LEMMA ProcessStep ==
  ASSUME RunnerInv, NEW p \in Members,
         \/ \E inherits \in BOOLEAN : Forks(p, inherits)
         \/ LetsGo(p)
         \/ \E c \in {"ok", "failed", "killed"} : Exits(p, c)
  PROVE  RunnerInv'
<1> USE DEF runVars, Members, Group
<1>1. CASE \E inherits \in BOOLEAN : Forks(p, inherits)
  <2>1. /\ "leader" \in alive /\ p # "leader" /\ alive' = alive \cup {p}
        /\ pipes \subseteq pipes' /\ pipes' \subseteq pipes \cup {p}
        /\ deaf \subseteq deaf' /\ deaf' \subseteq deaf \cup {p}
        /\ "leader" \in deaf => p \in deaf'
        /\ code' = code
        /\ UNCHANGED <<cmd, rpc, current, handler, result, struck, refused>>
    BY <1>1 DEF Forks
  <2>2. RunnerTypeOK'
    BY <2>1 DEF RunnerInv, RunnerTypeOK, Commands
  <2>3. Struck' /\ Early'
    BY <2>1 DEF RunnerInv, Struck, Early
  <2>4. GroupIsCleanedUp'
    BY <2>1, <2>3 DEF RunnerInv, GroupIsCleanedUp, Struck
  <2> QED
    BY <2>2, <2>3, <2>4 DEF RunnerInv
<1>2. CASE LetsGo(p) \/ \E c \in {"ok", "failed", "killed"} : Exits(p, c)
  <2>1. /\ alive' \subseteq alive /\ pipes' \subseteq pipes /\ pipes' \subseteq alive'
        /\ deaf' = deaf \cap alive'
        /\ code' \in {"none", "ok", "failed", "killed"}
        /\ UNCHANGED <<cmd, rpc, current, handler, result, struck, refused>>
    BY <1>2 DEF LetsGo, Exits, Dies, RunnerInv, RunnerTypeOK
  <2>2. RunnerTypeOK'
    BY <2>1 DEF RunnerInv, RunnerTypeOK, Commands
  <2>3. Struck' /\ Early'
    BY <2>1 DEF RunnerInv, Struck, Early
  <2>4. GroupIsCleanedUp'
    BY <2>1 DEF RunnerInv, GroupIsCleanedUp
  <2> QED
    BY <2>2, <2>3, <2>4 DEF RunnerInv
<1> QED
  BY <1>1, <1>2

(* What SIGTERM leaves of the group is deaf.                               *)
LEMMA TerminatedLeaves ==
  ASSUME RunnerInv, Terminated
  PROVE  /\ alive' \subseteq alive /\ pipes' \subseteq alive' /\ deaf' \subseteq alive'
         /\ code' \in {"none", "ok", "failed", "killed"}
         /\ struck' = TRUE /\ Group \cap alive' \subseteq deaf'
  BY DEF Terminated, Dies, Group, Members, RunnerInv, RunnerTypeOK

(* What SIGKILL leaves of the group.                                       *)
LEMMA KilledLeaves ==
  ASSUME RunnerInv, Killed
  PROVE  /\ alive' \subseteq alive /\ pipes' \subseteq alive' /\ deaf' \subseteq alive'
         /\ code' \in {"none", "ok", "failed", "killed"}
         /\ Group \cap alive' = {} /\ pipes' \subseteq {"stray"}
  BY DEF Killed, Dies, Group, Members, RunnerInv, RunnerTypeOK

(* A signal that is refused ends the command with an exception.            *)
LEMMA RefusedStep == ASSUME RunnerInv, Refused PROVE RunnerInv'
<1>1. /\ refused' = TRUE /\ rpc' = "over" /\ result' = Raised /\ handler' = FALSE
      /\ current' \in BOOLEAN /\ UNCHANGED <<cmd, struck, alive, pipes, deaf, code>>
  BY DEF Refused, processVars
<1>2. /\ Raised.how = "raised" /\ Raised.code = "none" /\ Raised.timedOut = FALSE
  BY DEF Raised, Pending
<1>3. RunnerTypeOK'
  BY <1>1, <1>2 DEF RunnerInv, RunnerTypeOK
<1> QED
  BY <1>1, <1>2, <1>3 DEF RunnerInv, Struck, Early, GroupIsCleanedUp

(* Every step of run and of the kill-switch keeps what they promise.       *)
LEMMA RunStep ==
  ASSUME RunnerInv,
         \/ NotStarted \/ Popen \/ TakesHold \/ EchoFails \/ Returns \/ TimesOut \/ GraceEnds
         \/ SwitchPulled \/ SwitchReturns \/ SwitchKills \/ Abandoned
  PROVE  RunnerInv'
<1> USE DEF Waits
<1>0. /\ Raised.how = "raised" /\ Raised.code = "none" /\ Raised.timedOut = FALSE
  BY DEF Raised, Pending
<1>1. CASE NotStarted \/ EchoFails \/ Abandoned
  <2>1. /\ rpc' = "over" /\ result' = Raised /\ current' \in BOOLEAN
        /\ UNCHANGED <<cmd, handler, struck, refused, alive, pipes, deaf, code>>
    BY <1>1 DEF NotStarted, EchoFails, Abandoned, processVars, RunnerInv, RunnerTypeOK
  <2>2. alive = {} \/ current' \/ ~cmd.guarded
    BY <1>1 DEF NotStarted, EchoFails, Abandoned, RunnerInv, Early
  <2>3. RunnerTypeOK'
    BY <1>0, <2>1 DEF RunnerInv, RunnerTypeOK
  <2>4. Struck' /\ Early'
    BY <1>0, <2>1 DEF RunnerInv, Struck, Early
  <2>5. GroupIsCleanedUp'
    BY <1>0, <2>1, <2>2, <2>4 DEF GroupIsCleanedUp, Struck
  <2> QED
    BY <2>3, <2>4, <2>5 DEF RunnerInv
<1>9. CASE TakesHold
  <2>1. /\ rpc = "started" /\ rpc' = "wait" /\ current' = TRUE
        /\ UNCHANGED <<cmd, handler, result, struck, refused, alive, pipes, deaf, code>>
    BY <1>9 DEF TakesHold, processVars
  <2>2. ~struck
    BY <2>1 DEF RunnerInv, Early
  <2>3. RunnerTypeOK'
    BY <2>1 DEF RunnerInv, RunnerTypeOK
  <2>4. Struck' /\ Early'
    BY <2>1 DEF RunnerInv, Struck, Early
  <2>5. GroupIsCleanedUp'
    BY <2>1, <2>2 DEF GroupIsCleanedUp
  <2> QED
    BY <2>3, <2>4, <2>5 DEF RunnerInv
<1>2. CASE Popen
  <2>1. deaf = {}
    BY <1>2 DEF Popen, RunnerInv, RunnerTypeOK, Early
  <2> QED
    BY <1>2, <2>1 DEF Popen, RunnerInv, RunnerTypeOK, Struck, Early, GroupIsCleanedUp,
           Members, Group
<1>3. CASE Returns
  <2>1. PICK how \in {"returned", "unshown"} :
          /\ rpc \in Waits /\ ~handler /\ ~StillOpen /\ rpc' = "over" /\ current' = FALSE
          /\ result' = [how |-> how, code |-> code, timedOut |-> rpc # "wait"]
          /\ UNCHANGED <<cmd, handler, struck, refused, alive, pipes, deaf, code>>
    BY <1>3 DEF Returns, processVars
  <2>2. /\ result'.how = how /\ result'.code = code /\ result'.timedOut = (rpc # "wait")
    BY <2>1
  <2>3. RunnerTypeOK'
    BY <2>1, <2>2 DEF RunnerInv, RunnerTypeOK
  <2>4. Struck' /\ Early'
    BY <2>1, <2>2 DEF RunnerInv, Struck, Early
  <2>5. GroupIsCleanedUp'
    BY <2>1, <2>2, <2>4 DEF GroupIsCleanedUp, Struck
  <2> QED
    BY <2>3, <2>4, <2>5 DEF RunnerInv
<1>4. CASE TimesOut
  <2>1. CASE Refused
    BY <2>1, RefusedStep
  <2>2. CASE /\ rpc' = "grace" /\ Terminated
             /\ UNCHANGED <<cmd, current, handler, result, refused>>
    <3>1. RunnerTypeOK'
      BY <2>2, TerminatedLeaves DEF RunnerInv, RunnerTypeOK
    <3> QED
      BY <2>2, <3>1, TerminatedLeaves DEF RunnerInv, Struck, Early, GroupIsCleanedUp
  <2> QED
    BY <1>4, <2>1, <2>2 DEF TimesOut
<1>5. CASE GraceEnds
  <2>1. CASE Refused
    BY <2>1, RefusedStep
  <2>2. CASE /\ rpc = "grace" /\ rpc' = "last" /\ Killed
             /\ UNCHANGED <<cmd, current, handler, result, struck, refused>>
    <3>1. RunnerTypeOK'
      BY <2>2, KilledLeaves DEF RunnerInv, RunnerTypeOK
    <3> QED
      BY <2>2, <3>1, KilledLeaves DEF RunnerInv, Struck, Early, GroupIsCleanedUp
  <2> QED
    BY <1>5, <2>1, <2>2 DEF GraceEnds
<1>6. CASE SwitchPulled
  <2>1. CASE Refused
    BY <2>1, RefusedStep
  <2>2. CASE /\ current /\ "leader" \in alive /\ Terminated /\ handler' = TRUE
             /\ UNCHANGED <<cmd, rpc, current, result, refused>>
    <3>1. RunnerTypeOK'
      BY <2>2, TerminatedLeaves DEF RunnerInv, RunnerTypeOK
    <3>2. rpc # "last"
      BY <2>2 DEF RunnerInv, GroupIsCleanedUp, Group
    <3> QED
      BY <2>2, <3>1, <3>2, TerminatedLeaves DEF RunnerInv, Struck, Early, GroupIsCleanedUp
  <2> QED
    BY <1>6, <2>1, <2>2 DEF SwitchPulled
<1>7. CASE SwitchReturns
  <2>1. /\ handler /\ "leader" \notin alive /\ handler' = FALSE
        /\ UNCHANGED <<cmd, rpc, current, result, struck, refused, alive, pipes, deaf, code>>
    BY <1>7 DEF SwitchReturns, processVars
  <2>2. RunnerTypeOK'
    <3>1. RunnerTypeOK
      BY DEF RunnerInv
    <3>2. /\ handler' \in BOOLEAN
          /\ UNCHANGED <<cmd, rpc, current, result, struck, refused, alive, pipes, deaf, code>>
      BY <2>1
    <3> QED
      BY <3>1, <3>2 DEF RunnerTypeOK
  <2>3. Struck' /\ Early'
    BY <2>1 DEF RunnerInv, Struck, Early
  <2>4. GroupIsCleanedUp'
    BY <2>1, <2>3 DEF RunnerInv, GroupIsCleanedUp, Struck
  <2> QED
    BY <2>2, <2>3, <2>4 DEF RunnerInv
<1>8. CASE SwitchKills
  <2>1. CASE Refused
    BY <2>1, RefusedStep
  <2>2. CASE /\ Killed /\ handler' = FALSE /\ handler
             /\ UNCHANGED <<cmd, rpc, current, result, struck, refused>>
    <3>1. RunnerTypeOK'
      <4>1. /\ alive' \subseteq alive /\ pipes' \subseteq alive' /\ deaf' \subseteq alive'
            /\ code' \in {"none", "ok", "failed", "killed"}
        BY <2>2, KilledLeaves
      <4>2. RunnerTypeOK
        BY DEF RunnerInv
      <4> QED
        BY <2>2, <4>1, <4>2 DEF RunnerTypeOK
    <3> QED
      BY <2>2, <3>1, KilledLeaves DEF RunnerInv, Struck, Early, GroupIsCleanedUp, Group
  <2> QED
    BY <1>8, <2>1, <2>2 DEF SwitchKills
<1> QED
  BY <1>1, <1>2, <1>3, <1>4, <1>5, <1>6, <1>7, <1>8, <1>9

(* The invariant of a command under way.                                   *)
LEMMA RunnerInvariance == RunnerSpec => []RunnerInv
<1>1. ASSUME RunnerInit PROVE RunnerInv
  <2>1. result.how = "none" /\ result.code = "none" /\ result.timedOut = FALSE
    BY <1>1 DEF RunnerInit, Pending
  <2>2. RunnerTypeOK
    BY <1>1, <2>1 DEF RunnerInit, RunnerTypeOK
  <2> QED
    BY <1>1, <2>1, <2>2 DEF RunnerInit, RunnerInv, Struck, Early, GroupIsCleanedUp
<1>2. RunnerInv /\ [RunnerNext]_runnerVars => RunnerInv'
  <2>1. ASSUME RunnerInv, UNCHANGED runnerVars PROVE RunnerInv'
    BY <2>1 DEF runnerVars, runVars, processVars, RunnerInv, RunnerTypeOK, Struck, Early,
           GroupIsCleanedUp
  <2> QED
    BY <2>1, ProcessStep, RunStep DEF RunnerNext
<1> QED
  BY <1>1, <1>2, PTL DEF RunnerSpec

(* A timeout and the kill-switch reach the whole group of a command,       *)
(* whatever it forks meanwhile, and run does not wait for what is dead.    *)
THEOREM RunnerTheorem == RunnerSpec => []GroupIsCleanedUp
<1>1. RunnerInv => GroupIsCleanedUp
  BY DEF RunnerInv
<1> QED
  BY <1>1, RunnerInvariance, PTL

-----------------------------------------------------------------------------
(* The desktop: the consent an action needs, the windows it reaches and    *)
(* the record it leaves.                                                   *)

(* Where the action is: what it has done, and whether it was approved.     *)
Place ==
  /\ gpc = "idle" => did = {} /\ touched = {} /\ ~asked
  /\ gpc \in {"activate", "first"} => did = {} /\ touched = {} /\ ~asked
  /\ gpc = "activate" => op = "focus"
  /\ gpc = "first" => op = "close"
  /\ gpc = "ask" => ~asked
  /\ gpc \in {"recheck", "edit", "act", "typing"} => asked
  /\ gpc \in {"ask", "act"} =>
       /\ op \in {"open", "type", "key", "screenshot", "close"}
       /\ did = IF op = "close" THEN {"close1"} ELSE {}
       /\ op # "close" => touched = {}
  /\ gpc \in {"recheck", "edit"} => did = {} /\ touched = {}
  /\ gpc \in {"recheck", "typing"} => op \in {"type", "key"}
  /\ gpc = "edit" => op = "type"
  /\ gpc = "typing" => did = {"inject"}
  /\ gpc = "note" => (asked \/ did = {"activate"}) /\ Mech \in did

(* What a mechanism would reach: while a window is to be focused or        *)
(* closed, no other had its title in it at the look; once the focus was    *)
(* checked, what has it bears the title of the target.                     *)
Aimed ==
  /\ op \in {"focus", "close", "type", "key"} => target \in Windows
  /\ op \in {"focus", "close"} /\ gpc \in {"activate", "first", "ask", "act"} =>
       Containing[target] \cap open \subseteq {target} \cup strayed
  /\ gpc = "edit" \/ (gpc = "act" /\ op \in {"type", "key"}) =>
       focused \in Twins(target) \cup {NoWindow} \cup strayed

DInv ==
  /\ DesktopTypeOK /\ Place /\ Aimed
  /\ AskedBeforeActing /\ ReachesTarget /\ ActionIsRecorded

-----------------------------------------------------------------------------
(* What a backend finds is the target, has strayed in, or merely matches.  *)
LEMMA HitsAre ==
  ASSUME DesktopTypeOK, Aimed, op \in {"focus", "close"},
         gpc \in {"activate", "first", "ask", "act"}
  PROVE  /\ Hits \subseteq Windows /\ Hits \subseteq {target} \cup strayed \cup Mistaken
         /\ \A ws \in Closes : ws \subseteq Hits
<1>1. Hits \subseteq Windows
  BY DEF Hits, DesktopTypeOK
<1>2. Containing[target] \cap open \subseteq {target} \cup strayed
  BY DEF Aimed
<1>3. CASE byTitle
  <2>1. Hits = Matching[target] \cap open
    BY <1>3 DEF Hits
  <2>2. op \notin {"type", "key"}
    OBVIOUS
  <2>3. Mistaken = Matching[target] \ Containing[target]
    BY <1>3, <2>2 DEF Mistaken
  <2>4. Hits \subseteq {target} \cup strayed \cup Mistaken
    BY <1>2, <2>1, <2>3
  <2> QED
    BY <1>1, <1>3, <2>4 DEF Closes
<1>4. CASE ~byTitle
  <2>1. Hits \subseteq {target}
    BY <1>4 DEF Hits
  <2> QED
    BY <1>1, <1>4, <2>1 DEF Closes
<1> QED
  BY <1>3, <1>4

(* Nothing is under way on the desktop a command starts from.              *)
LEMMA InitHolds ==
  ASSUME DesktopInit
  PROVE  DInv
<1>1. DesktopTypeOK
  <2>1. record \in [mech : Mechanisms \cup {"none"}, ok : BOOLEAN]
    BY DEF DesktopInit, Unrecorded
  <2> QED
    BY <2>1 DEF DesktopInit, DesktopTypeOK
<1>2. Place
  BY DEF DesktopInit, Place
<1>3. Aimed /\ AskedBeforeActing /\ ReachesTarget /\ ActionIsRecorded
  BY DEF DesktopInit, Aimed, AskedBeforeActing, ReachesTarget, ActionIsRecorded
<1> QED
  BY <1>1, <1>2, <1>3 DEF DInv

(* The other programs: what they bring into play is counted as stray.      *)
LEMMA OthersStep ==
  ASSUME DInv, NEW w \in Windows \cup {NoWindow},
         FocusMoves(w) \/ (w \in Windows /\ (Opens(w) \/ Disappears(w)))
  PROVE  DInv'
<1> USE DEF DInv
<1>1. /\ open' \subseteq Windows /\ focused' \in open' \cup {NoWindow}
      /\ touched' \subseteq Windows /\ strayed' \subseteq Windows
      /\ UNCHANGED <<machine, gpc, op, target, asked, did, record>>
  BY DEF DesktopTypeOK, FocusMoves, Opens, Disappears, Vanish, Strays
<1>2. DesktopTypeOK'
  BY <1>1 DEF DesktopTypeOK, machine
<1>3. Place' /\ AskedBeforeActing' /\ ActionIsRecorded'
  <2>1. gpc # "typing" => touched' = touched
    BY DEF FocusMoves, Opens, Disappears
  <2> QED
    BY <1>1, <2>1 DEF Place, AskedBeforeActing, ActionIsRecorded, Mech
<1>4. Aimed' /\ ReachesTarget'
  <2>1. CASE FocusMoves(w)
    BY <1>1, <2>1 DEF FocusMoves, Strays, Aimed, ReachesTarget, Place, Twins, Mistaken, machine
  <2>2. CASE w \in Windows /\ Opens(w)
    BY <1>1, <2>2 DEF Opens, Strays, Aimed, ReachesTarget, Place, Twins, Mistaken, machine
  <2>3. CASE w \in Windows /\ Disappears(w)
    BY <1>1, <2>3 DEF Disappears, Vanish, Aimed, ReachesTarget, Twins, Mistaken, machine
  <2> QED
    BY <2>1, <2>2, <2>3
<1> QED
  BY <1>2, <1>3, <1>4

(* An action begins: its target is unique, or has the focus.               *)
LEMMA AimStep ==
  ASSUME DInv, NEW o \in Ops, NEW w \in Windows \cup {NoWindow}, Aim(o, w)
  PROVE  DInv'
<1> USE DEF DInv
<1>1. DesktopTypeOK'
  BY DEF Aim, DesktopTypeOK, deskVars, machine, Ops
<1>2. Place' /\ AskedBeforeActing' /\ ReachesTarget' /\ ActionIsRecorded'
  BY DEF Aim, Place, AskedBeforeActing, ReachesTarget, ActionIsRecorded, Ops
<1>3. Aimed'
  BY DesktopAssumption DEF Aim, Aimed, Unique, Twins, deskVars, DesktopTypeOK, Ops
<1> QED
  BY <1>1, <1>2, <1>3

(* The question and the second look.                                       *)
LEMMA AskStep ==
  ASSUME DInv, Approve \/ Deny \/ Recheck \/ RecheckFails
  PROVE  DInv'
<1> USE DEF DInv, Goto, deskVars, machine
<1>1. DesktopTypeOK'
  BY DEF Approve, Deny, Recheck, RecheckFails, DesktopTypeOK
<1>2. Place' /\ AskedBeforeActing' /\ ReachesTarget' /\ ActionIsRecorded'
  BY DEF Approve, Deny, Recheck, RecheckFails, Place, AskedBeforeActing,
         ReachesTarget, ActionIsRecorded, Mistaken, Twins
<1>3. Aimed'
  BY DEF Approve, Deny, Recheck, RecheckFails, Aimed, Place, Twins
<1> QED
  BY <1>1, <1>2, <1>3

(* The steps that reach the desktop.                                       *)
LEMMA ActStep ==
  ASSUME DInv,
         \/ Activate \/ CloseFirst \/ SetText \/ SetTextFails
         \/ Inject \/ InjectEnds \/ RunApp \/ Shoot \/ CloseAgain
  PROVE  DInv'
<1> USE DEF DInv, Goto, deskVars, machine
<1>1. CASE Activate
  <2>1. CASE gpc' = "done"
    BY <1>1, <2>1 DEF Activate, Did, DesktopTypeOK, Place, Aimed, Twins, Mistaken,
                AskedBeforeActing, ReachesTarget, ActionIsRecorded
  <2>2. ASSUME NEW ws, ws \subseteq Hits, focused' \in ws \cup {focused},
               Did("activate", ws, "note"), UNCHANGED <<open, machine, record>>
        PROVE  DInv'
    <3>1. /\ op = "focus" /\ did = {} /\ touched = {} /\ ~asked
          /\ Hits \subseteq Windows /\ Hits \subseteq {target} \cup strayed \cup Mistaken
          /\ Hits \subseteq open
      BY <1>1, HitsAre DEF Activate, Place, Hits
    <3>2. DesktopTypeOK'
      BY <2>2, <3>1 DEF Did, DesktopTypeOK, Mechanisms
    <3>3. Place' /\ AskedBeforeActing' /\ ActionIsRecorded'
      BY <2>2, <3>1 DEF Did, Place, Mech, AskedBeforeActing, ActionIsRecorded
    <3>4. Aimed' /\ ReachesTarget'
      BY <2>2, <3>1 DEF Did, Aimed, ReachesTarget, Mistaken, Twins
    <3> QED
      BY <3>2, <3>3, <3>4
  <2>3. CASE gpc' # "done"
    <3>1. CASE \E w \in Hits : focused' = w /\ Did("activate", {w}, "note")
      <4>1. PICK w \in Hits : focused' = w /\ Did("activate", {w}, "note")
        BY <3>1
      <4> QED
        BY <1>1, <2>2, <2>3, <4>1 DEF Activate
    <3>2. CASE Did("activate", {}, "note") /\ UNCHANGED focused
      BY <1>1, <2>2, <2>3, <3>2 DEF Activate
    <3> QED
      BY <1>1, <2>3, <3>1, <3>2 DEF Activate
  <2> QED
    BY <2>1, <2>3
<1>2. CASE CloseFirst
  <2>1. CASE gpc' = "done"
    BY <1>2, <2>1 DEF CloseFirst, Did, DesktopTypeOK, Place, Aimed, Twins, Mistaken,
                AskedBeforeActing, ReachesTarget, ActionIsRecorded
  <2>2. CASE gpc' # "done"
    <3>1. PICK ws \in Closes : Vanish(ws) /\ Did("close1", ws, "ask")
                              /\ UNCHANGED <<machine, record>>
      BY <1>2, <2>2 DEF CloseFirst
    <3>2. /\ op = "close" /\ did = {} /\ touched = {} /\ ~asked
          /\ ws \subseteq Windows /\ ws \subseteq {target} \cup strayed \cup Mistaken
      BY <1>2, HitsAre DEF CloseFirst, Place
    <3>3. DesktopTypeOK'
      BY <3>1, <3>2 DEF Did, Vanish, DesktopTypeOK, Mechanisms
    <3>4. Place' /\ AskedBeforeActing' /\ ActionIsRecorded'
      BY <3>1, <3>2 DEF Did, Place, AskedBeforeActing, ActionIsRecorded
    <3>5. Aimed' /\ ReachesTarget'
      BY <1>2, <3>1, <3>2 DEF CloseFirst, Did, Vanish, Aimed, ReachesTarget, Mistaken, Twins
    <3> QED
      BY <3>3, <3>4, <3>5
  <2> QED
    BY <2>1, <2>2
<1>3. CASE SetText
  <2>1. focused \in Windows
    BY <1>3 DEF SetText, DesktopTypeOK
  <2>2. DesktopTypeOK'
    BY <1>3, <2>1 DEF SetText, Did, DesktopTypeOK, Mechanisms
  <2>3. Place' /\ AskedBeforeActing' /\ ActionIsRecorded'
    BY <1>3 DEF SetText, Did, Place, Mech, AskedBeforeActing, ActionIsRecorded
  <2>4. Aimed' /\ ReachesTarget'
    BY <1>3 DEF SetText, Did, Aimed, ReachesTarget, Place, Twins, Mistaken
  <2> QED
    BY <2>2, <2>3, <2>4
<1>4. CASE SetTextFails \/ InjectEnds
  <2>1. DesktopTypeOK'
    BY <1>4 DEF SetTextFails, InjectEnds, DesktopTypeOK
  <2>2. Place' /\ AskedBeforeActing' /\ ActionIsRecorded'
    BY <1>4 DEF SetTextFails, InjectEnds, Place, Mech, AskedBeforeActing, ActionIsRecorded
  <2>3. Aimed' /\ ReachesTarget'
    BY <1>4 DEF SetTextFails, InjectEnds, Aimed, ReachesTarget, Place, Twins, Mistaken
  <2> QED
    BY <2>1, <2>2, <2>3
<1>5. CASE Inject
  <2>1. {focused} \ {NoWindow} \subseteq Windows
    BY DEF DesktopTypeOK
  <2>2. DesktopTypeOK'
    BY <1>5, <2>1 DEF Inject, Did, DesktopTypeOK, Mechanisms
  <2>3. Place' /\ AskedBeforeActing' /\ ActionIsRecorded'
    BY <1>5 DEF Inject, Did, Place, AskedBeforeActing, ActionIsRecorded
  <2>4. {focused} \ {NoWindow} \subseteq strayed \cup Mistaken
    BY <1>5 DEF Inject, Aimed, Mistaken
  <2>5. Aimed' /\ ReachesTarget'
    BY <1>5, <2>4 DEF Inject, Did, Aimed, ReachesTarget, Place, Twins, Mistaken
  <2> QED
    BY <2>2, <2>3, <2>5
<1>6. CASE RunApp \/ Shoot
  <2>1. DesktopTypeOK'
    BY <1>6 DEF RunApp, Shoot, Did, DesktopTypeOK, Mechanisms
  <2>2. Place' /\ AskedBeforeActing' /\ ActionIsRecorded'
    BY <1>6 DEF RunApp, Shoot, Did, Place, Mech, AskedBeforeActing, ActionIsRecorded
  <2>3. Aimed' /\ ReachesTarget'
    BY <1>6 DEF RunApp, Shoot, Did, Aimed, ReachesTarget, Place, Twins, Mistaken
  <2> QED
    BY <2>1, <2>2, <2>3
<1>7. CASE CloseAgain
  <2>1. PICK ws \in Closes : Vanish(ws) /\ Did("close2", ws, "note")
                            /\ UNCHANGED <<machine, record>>
    BY <1>7 DEF CloseAgain
  <2>2. /\ op = "close" /\ asked
        /\ ws \subseteq Windows /\ ws \subseteq {target} \cup strayed \cup Mistaken
    BY <1>7, HitsAre DEF CloseAgain, Place
  <2>3. DesktopTypeOK'
    BY <2>1, <2>2 DEF Did, Vanish, DesktopTypeOK, Mechanisms
  <2>4. Place' /\ AskedBeforeActing' /\ ActionIsRecorded'
    BY <2>1, <2>2 DEF Did, Place, Mech, AskedBeforeActing, ActionIsRecorded
  <2>5. Aimed' /\ ReachesTarget'
    BY <2>1, <2>2 DEF Did, Vanish, Aimed, ReachesTarget, Mistaken, Twins
  <2> QED
    BY <2>3, <2>4, <2>5
<1> QED
  BY <1>1, <1>2, <1>3, <1>4, <1>5, <1>6, <1>7

(* The end of an action: its record, a kill, the return.                   *)
LEMMA EndStep ==
  ASSUME DInv, VerifyRaises \/ NothingLeft \/ Note \/ Kill \/ Return
  PROVE  DInv'
<1> USE DEF DInv, deskVars, machine
<1>1. DesktopTypeOK'
  <2>1. \A mech \in Mechanisms \cup {"none"}, ok \in BOOLEAN :
          Writes(mech, ok) => record' \in [mech : Mechanisms \cup {"none"}, ok : BOOLEAN]
    BY DEF Writes
  <2>2. record' \in [mech : Mechanisms \cup {"none"}, ok : BOOLEAN]
    <3>1. CASE NothingLeft
      BY <2>1, <3>1 DEF NothingLeft
    <3>2. CASE Note
      <4>1. Mech \in Mechanisms
        BY <3>2 DEF Note, Place, DesktopTypeOK
      <4> QED
        BY <2>1, <3>2, <4>1 DEF Note
    <3>3. CASE Kill \/ VerifyRaises
      BY <3>3 DEF Kill, VerifyRaises, Goto, DesktopTypeOK
    <3>4. CASE Return
      BY <3>4 DEF Return, Unrecorded
    <3> QED
      BY <3>1, <3>2, <3>3, <3>4
  <2> QED
    BY <2>2 DEF VerifyRaises, Goto, NothingLeft, Note, Kill, Return, DesktopTypeOK
<1>2. Place' /\ AskedBeforeActing'
  BY DEF VerifyRaises, Goto, NothingLeft, Note, Kill, Return, Place, AskedBeforeActing
<1>5. ReachesTarget'
  <2>1. CASE Return
    BY <2>1 DEF Return, ReachesTarget
  <2>2. CASE VerifyRaises \/ NothingLeft \/ Note \/ Kill
    <3>1. UNCHANGED <<op, target, touched, strayed, byTitle>>
      BY <2>2 DEF VerifyRaises, Goto, NothingLeft, Note, Kill
    <3>2. Mistaken' = Mistaken
      BY <3>1 DEF Mistaken, Twins
    <3> QED
      BY <3>1, <3>2 DEF ReachesTarget
  <2> QED
    BY <2>1, <2>2
<1>3. ActionIsRecorded'
  <2>1. CASE Note
    <3>1. record'.mech = Mech /\ did' = did /\ Mech \in did
      BY <2>1 DEF Note, Writes, Place
    <3> QED
      BY <3>1 DEF ActionIsRecorded
  <2>2. CASE VerifyRaises \/ NothingLeft \/ Kill \/ Return
    BY <2>2 DEF VerifyRaises, Goto, NothingLeft, Kill, Return, Place, ActionIsRecorded
  <2> QED
    BY <2>1, <2>2
<1>4. Aimed'
  BY DEF VerifyRaises, Goto, NothingLeft, Note, Kill, Return, Aimed, Twins
<1> QED
  BY <1>1, <1>2, <1>3, <1>4, <1>5

-----------------------------------------------------------------------------
(* The inductive invariant holds in every reachable state.                 *)
THEOREM DesktopInvariance == DesktopSpec => []DInv
<1>1. DInv /\ [DesktopNext]_desktopVars => DInv'
  <2> SUFFICES ASSUME DInv, [DesktopNext]_desktopVars
               PROVE  DInv'
    OBVIOUS
  <2>1. CASE UNCHANGED desktopVars
    BY <2>1 DEF desktopVars, DInv, DesktopTypeOK, Place, Mech, Aimed, Twins,
                AskedBeforeActing, ReachesTarget, Mistaken, ActionIsRecorded
  <2>2. CASE DesktopNext
    BY <2>2, OthersStep, AimStep, AskStep, ActStep, EndStep DEF DesktopNext
  <2> QED
    BY <2>1, <2>2
<1> QED
  BY <1>1, InitHolds, PTL DEF DesktopSpec

(* Nothing but focus and the first call of close acts without consent.     *)
THEOREM DesktopConsent == DesktopSpec => []AskedBeforeActing
<1>1. DInv => AskedBeforeActing
  BY DEF DInv
<1> QED
  BY <1>1, DesktopInvariance, PTL

(* What is focused, closed or typed into is the target, came in after the  *)
(* look, or is one the code cannot tell from it.                           *)
THEOREM DesktopAim == DesktopSpec => []ReachesTarget
<1>1. DInv => ReachesTarget
  BY DEF DInv
<1> QED
  BY <1>1, DesktopInvariance, PTL

(* An action that ended is recorded under what it did.                     *)
THEOREM DesktopRecord == DesktopSpec => []ActionIsRecorded
<1>1. DInv => ActionIsRecorded
  BY DEF DInv
<1> QED
  BY <1>1, DesktopInvariance, PTL
=============================================================================
