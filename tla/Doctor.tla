------------------------------- MODULE Doctor -------------------------------
(***************************************************************************)
(* The integrity of what JARVIS obeys (safety/integrity.py and the doctor  *)
(* and cautious commands of cli/app.py).  The owner writes a baseline, the *)
(* hashes of the files in scope; `jarvis doctor` compares them with the    *)
(* disk.  Both read one file after the other while the disk goes on        *)
(* changing.  A hash is modelled by what it was taken of.                  *)
(***************************************************************************)
EXTENDS FiniteSets

CONSTANTS
  Named,    \* the files default_scope lists: code, gates, the cautious marker
  Globbed,  \* those its directories may hold: charters, skills and receipts
  Beside,   \* other files of the state directory: a charter's .state, app packs
  MayHold,  \* what each of them may hold
  NoFile,
  NoBaseline

Scope == Named \cup Globbed
StateFiles == Scope \cup Beside
(* What a file may hold, or that it is not there.                          *)
Contents == UNION {MayHold[f] \cup {NoFile} : f \in StateFiles}

ASSUME DoctorAssumption ==
  /\ Named \cap Globbed = {} /\ Beside \cap Scope = {}
  /\ DOMAIN MayHold = StateFiles
  /\ \A S \in SUBSET Scope : NoBaseline \notin [S -> Contents]  \* not even of no file

VARIABLES
  disk,
  baseline,
  suspect,   \* verify_integrity of the context store says no
  \* doctor --write-baseline
  wtodo,     \* entries not hashed yet
  whashes,   \* those that are
  \* doctor
  dpc, expected, existing, dtodo, drift, verdict,
  \* what has happened
  moved      \* a file in scope, the baseline or the context store changed
             \* since this doctor began

writerVars == <<baseline, wtodo, whashes>>
doctorVars == <<dpc, expected, existing, dtodo, drift, verdict>>
integrityVars == <<disk, suspect, writerVars, doctorVars, moved>>

There(files) == {f \in files : disk[f] # NoFile}
NoHashes == [f \in {} |-> NoFile]

IntegrityInit ==
  /\ disk \in {d \in [StateFiles -> Contents] :
                 \A f \in StateFiles : d[f] \in MayHold[f] \cup {NoFile}}
  /\ baseline = NoBaseline /\ suspect = FALSE
  /\ wtodo = {} /\ whashes = NoBaseline
  /\ dpc = "idle" /\ expected = NoHashes /\ existing = {} /\ dtodo = {} /\ drift = {}
  /\ verdict = "none" /\ moved = FALSE

-----------------------------------------------------------------------------
(* The owner, an upgrade, a charter or a pack that comes or goes, cautious *)
(* mode, or somebody else.                                                 *)

Change(f, c) ==
  /\ disk[f] # c /\ disk' = [disk EXCEPT ![f] = c] /\ moved' = (moved \/ f \in Scope)
  /\ UNCHANGED <<suspect, writerVars, doctorVars>>

Suspicion ==
  /\ suspect' = ~suspect /\ moved' = TRUE
  /\ UNCHANGED <<disk, writerVars, doctorVars>>

-----------------------------------------------------------------------------
(* write_baseline: entries() lists the directories, then each is hashed if *)
(* it is there; the file is written last.                                  *)

(* Mutant: the globs take in what lies beside the scope.                   *)
Mut_BeginBaseline ==
  /\ whashes = NoBaseline
  /\ wtodo' = Named \cup There(Globbed \cup Beside) /\ whashes' = NoHashes
  /\ UNCHANGED <<disk, suspect, baseline, doctorVars, moved>>

BeginBaseline ==
  /\ whashes = NoBaseline
  /\ wtodo' = Named \cup There(Globbed) /\ whashes' = NoHashes
  /\ UNCHANGED <<disk, suspect, baseline, doctorVars, moved>>

Hash(f) ==
  /\ f \in wtodo /\ wtodo' = wtodo \ {f}
  /\ whashes' = IF disk[f] = NoFile THEN whashes
                ELSE [g \in DOMAIN whashes \cup {f} |->
                        IF g = f THEN disk[f] ELSE whashes[g]]
  /\ UNCHANGED <<disk, suspect, baseline, doctorVars, moved>>

(* Or it goes between is_file and the read, which raises.                  *)
HashRaises(f) ==
  /\ f \in wtodo /\ disk[f] # NoFile
  /\ disk' = [disk EXCEPT ![f] = NoFile] /\ moved' = TRUE
  /\ wtodo' = {} /\ whashes' = NoBaseline
  /\ UNCHANGED <<suspect, baseline, doctorVars>>

WriteBaseline ==
  /\ whashes # NoBaseline /\ wtodo = {}
  /\ baseline' = whashes /\ whashes' = NoBaseline /\ moved' = TRUE
  /\ UNCHANGED <<disk, suspect, wtodo, doctorVars>>

-----------------------------------------------------------------------------
(* verify, and what _cmd_doctor makes of it.                               *)

Ends(v) ==
  /\ dpc' = "idle" /\ verdict' = v
  /\ expected' = NoHashes /\ existing' = {} /\ dtodo' = {} /\ drift' = {}

BeginDoctor ==
  /\ dpc = "idle" /\ moved' = FALSE
  /\ IF baseline = NoBaseline THEN Ends("unknown")
     ELSE /\ dpc' = "verify" /\ verdict' = "none"
          /\ expected' = baseline /\ existing' = There(Scope) /\ dtodo' = There(Scope)
          /\ drift' = {}
  /\ UNCHANGED <<disk, suspect, writerVars>>

(* A file that is gone by now raises, and the command with it.             *)
Gone(f) == dpc = "verify" /\ f \in dtodo /\ f \in DOMAIN expected /\ disk[f] = NoFile

Lost(f) ==
  /\ Gone(f) /\ Ends("none") /\ UNCHANGED <<disk, suspect, writerVars, moved>>

Compare(f) ==
  /\ dpc = "verify" /\ f \in dtodo /\ ~Gone(f) /\ dtodo' = dtodo \ {f}
  /\ drift' = drift \cup (IF f \notin DOMAIN expected THEN {<<f, "added">>}
                          ELSE IF disk[f] # expected[f] THEN {<<f, "changed">>} ELSE {})
  /\ UNCHANGED <<disk, suspect, writerVars, dpc, expected, existing, verdict, moved>>

(* Mutant: what is not there is not compared.                              *)
Mut_Missing == {}
Missing == {<<f, "missing">> : f \in DOMAIN expected \ existing}

Verdict ==
  /\ dpc = "verify" /\ dtodo = {}
  /\ Ends(IF drift \cup Missing = {} /\ ~suspect THEN "clean" ELSE "drift")
  /\ UNCHANGED <<disk, suspect, writerVars, moved>>

IntegrityNext ==
  \/ \E f \in StateFiles : \E c \in MayHold[f] \cup {NoFile} : Change(f, c)
  \/ Suspicion
  \/ BeginBaseline \/ WriteBaseline
  \/ BeginDoctor \/ Verdict
  \/ \E f \in Scope : Hash(f) \/ HashRaises(f) \/ Compare(f) \/ Lost(f)

IntegritySpec == IntegrityInit /\ [][IntegrityNext]_integrityVars

-----------------------------------------------------------------------------
IntegrityTypeOK ==
  /\ \A f \in StateFiles : disk[f] \in MayHold[f] \cup {NoFile}
  /\ wtodo \subseteq Scope /\ dtodo \subseteq existing /\ existing \subseteq Scope
  /\ \A h \in {baseline, whashes} : h = NoBaseline \/ DOMAIN h \subseteq Scope
  /\ dpc \in {"idle", "verify"} /\ verdict \in {"none", "unknown", "clean", "drift"}

(* While the scope is at rest the doctor says clean exactly if its files   *)
(* are those of the baseline, each with the bytes it had when it was       *)
(* hashed, none missing and none more, and the context store is sound,     *)
(* whatever comes and goes beside it (the pause of a charter).  Whatever   *)
(* moves, a doctor that says clean has a baseline to say it of.            *)
DoctorIsRight ==
  /\ verdict \in {"clean", "drift"} => baseline # NoBaseline
  /\ verdict \in {"clean", "drift"} /\ ~moved =>
       (verdict = "clean" <=>
          ~suspect /\ DOMAIN baseline = There(Scope)
            /\ \A f \in There(Scope) : baseline[f] = disk[f])
=============================================================================
