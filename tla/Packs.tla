-------------------------------- MODULE Packs --------------------------------
(***************************************************************************)
(* One pack of the owner's and its receipt: a skill pack                   *)
(* (planner/skills.py, drafted by planner/grow.py) or an app pack          *)
(* (gui/appskill.py).  A pack is two files, written one after the other by *)
(* installers that do not know of each other, edited by hand, removed, and *)
(* read by the matcher in the middle of all that.                          *)
(*                                                                         *)
(* A receipt is modelled by the bytes it was taken of.  Forged receipts    *)
(* are left out: whoever can write one can write the kernel.               *)
(***************************************************************************)
EXTENDS Naturals, FiniteSets

CONSTANTS
  Installers,  \* processes that may install at the same time
  Bytes,       \* contents of a pack
  Schema,      \* those validate_skill or validate_pack accepts
  Passing,     \* those whose eval cases also pass (skill packs)
  NoBytes,     \* no file
  Torn         \* a file that is being written

ASSUME PackAssumption ==
  /\ Passing \subseteq Schema /\ Schema \subseteq Bytes
  /\ NoBytes \notin Bytes /\ Torn \notin Bytes /\ NoBytes # Torn

VARIABLES
  kind,      \* skill or app
  pack, receipt,
  source,    \* the file install reads
  proposal,  \* the drafted skill of this id
  fact,      \* there is a drafted fact of the same id
  \* an installer, and a removal
  ipc, idoc,
  unpaired,  \* a removal has deleted the pack and not yet the receipt
  \* the matcher
  upc,
  ubytes,    \* what it checked
  used,      \* what it made a request match with
  \* what has happened
  swapped    \* the pack was written while the matcher was between two reads

matchVars == <<upc, ubytes, used>>
installVars == <<ipc, idoc>>
draftVars == <<proposal, fact>>
packVars == <<kind, pack, receipt, source, proposal, fact, ipc, idoc,
              unpaired, upc, ubytes, used, swapped>>

PackInit ==
  /\ kind \in {"skill", "app"}
  /\ pack = NoBytes /\ receipt = NoBytes /\ source \in Bytes
  /\ proposal = NoBytes /\ fact = FALSE
  /\ ipc = [i \in Installers |-> "idle"]
  /\ idoc = [i \in Installers |-> NoBytes]
  /\ unpaired = FALSE
  /\ upc = "idle" /\ ubytes = NoBytes /\ used = NoBytes
  /\ swapped = FALSE

(* The schema and, for a skill pack, its eval cases run dry.               *)
SkillVetted == Passing
AppVetted == Schema
Vetted == IF kind = "skill" THEN SkillVetted ELSE AppVetted

-----------------------------------------------------------------------------
(* Installing.                                                             *)

Stage(i, pc, doc) == ipc' = [ipc EXCEPT ![i] = pc] /\ idoc' = [idoc EXCEPT ![i] = doc]
Quit(i) == Stage(i, "idle", NoBytes)

WritesPack(b) ==
  pack' = b /\ swapped' = (swapped \/ upc \in {"checked", "use"})

(* `skill install` prints the file and asks.                               *)
Show(i) ==
  /\ kind = "skill" /\ ipc[i] = "idle" /\ Stage(i, "shown", NoBytes)
  /\ UNCHANGED <<kind, pack, receipt, source, draftVars, unpaired, matchVars, swapped>>

Declined(i) ==
  /\ ipc[i] = "shown" /\ Quit(i)
  /\ UNCHANGED <<kind, pack, receipt, source, draftVars, unpaired, matchVars, swapped>>

(* Then install_skill reads the file again, whatever was shown, and vets   *)
(* what it finds now; the app-skill wizard reads it once and asks nobody.  *)
Vet(i) ==
  /\ \/ kind = "skill" /\ ipc[i] = "shown"
     \/ kind = "app" /\ ipc[i] = "idle"
  /\ source \in Vetted /\ Stage(i, "write", source)
  /\ UNCHANGED <<kind, pack, receipt, source, draftVars, unpaired, matchVars, swapped>>

VetFails(i) ==
  /\ ipc[i] = "shown" /\ source \notin Vetted /\ Quit(i)
  /\ UNCHANGED <<kind, pack, receipt, source, draftVars, unpaired, matchVars, swapped>>

(* write_bytes truncates first; the wizard renames a finished file.        *)
Truncate(i) ==
  /\ kind = "skill" /\ ipc[i] = "write" /\ WritesPack(Torn)
  /\ Stage(i, "fill", idoc[i])
  /\ UNCHANGED <<kind, receipt, source, draftVars, unpaired, matchVars>>

WritePack(i) ==
  /\ ipc[i] = (IF kind = "skill" THEN "fill" ELSE "write")
  /\ WritesPack(idoc[i]) /\ Stage(i, "pin", idoc[i])
  /\ UNCHANGED <<kind, receipt, source, draftVars, unpaired, matchVars>>

Pin(i) ==
  /\ ipc[i] = "pin" /\ receipt' = idoc[i]
  /\ Stage(i, "done", idoc[i])
  /\ UNCHANGED <<kind, pack, source, draftVars, unpaired, matchVars, swapped>>

Quits(i) ==  \* it is over, or killed on the way
  /\ ipc[i] # "idle" /\ Quit(i)
  /\ UNCHANGED <<kind, pack, receipt, source, draftVars, unpaired, matchVars, swapped>>

-----------------------------------------------------------------------------
(* Removing, editing, drafting.                                            *)

RemovePack ==
  /\ ~unpaired /\ pack # NoBytes /\ WritesPack(NoBytes) /\ unpaired' = TRUE
  /\ UNCHANGED <<kind, receipt, source, draftVars, installVars, matchVars>>

RemoveReceipt ==
  /\ unpaired /\ receipt' \in {receipt, NoBytes}  \* or killed before it
  /\ unpaired' = FALSE
  /\ UNCHANGED <<kind, pack, source, draftVars, installVars, matchVars, swapped>>

EditPack(b) ==
  /\ pack # NoBytes /\ b # pack /\ WritesPack(b)
  /\ UNCHANGED <<kind, receipt, source, draftVars, installVars, unpaired, matchVars>>

NewSource(b) ==
  /\ b # source /\ source' = b
  /\ UNCHANGED <<kind, pack, receipt, draftVars, installVars, unpaired, matchVars, swapped>>

EditSource(b) == kind = "skill" /\ NewSource(b)

DraftSkill ==
  /\ kind = "skill" /\ source \in Passing /\ proposal' = source
  /\ UNCHANGED <<kind, pack, receipt, source, fact, installVars, unpaired, matchVars, swapped>>

DraftFact ==
  /\ kind = "skill" /\ ~fact /\ fact' = TRUE
  /\ UNCHANGED <<kind, pack, receipt, source, proposal, installVars, unpaired, matchVars, swapped>>

(* list_proposals gives facts before skills, and the first of an id is     *)
(* pruned and exported.  An exported skill is a file to install.           *)
Prune ==
  /\ fact \/ proposal # NoBytes
  /\ fact' = FALSE /\ proposal' = IF fact THEN proposal ELSE NoBytes
  /\ UNCHANGED <<kind, pack, receipt, source, installVars, unpaired, matchVars, swapped>>

Export == ~fact /\ proposal # NoBytes /\ NewSource(proposal)

-----------------------------------------------------------------------------
(* The matcher: the document, its bytes, the receipt, the document again.  *)

(* installed_skills parses the pack and validates it.                      *)
Look ==
  /\ kind = "skill" /\ upc = "idle" /\ used = NoBytes /\ pack \in Schema
  /\ upc' = "valid"
  /\ UNCHANGED <<kind, pack, receipt, source, draftVars, installVars, unpaired,
                 ubytes, used, swapped>>

(* It reads the bytes to hash, as load_pack does to hash and to parse.     *)
ReadBytes ==
  /\ upc = (IF kind = "skill" THEN "valid" ELSE "idle")
  /\ used = NoBytes /\ pack # NoBytes
  /\ upc' = "checked" /\ ubytes' = pack /\ swapped' = FALSE
  /\ UNCHANGED <<kind, pack, receipt, source, draftVars, installVars, unpaired, used>>

(* Mutant: any receipt will do.                                            *)
Mut_ReceiptOk ==
  /\ upc = "checked" /\ receipt # NoBytes
  /\ IF kind = "skill" THEN upc' = "use" /\ UNCHANGED <<ubytes, used>>
     ELSE upc' = "idle" /\ used' = ubytes /\ ubytes' = NoBytes
  /\ UNCHANGED <<kind, pack, receipt, source, draftVars, installVars, unpaired, swapped>>

ReceiptOk ==
  /\ upc = "checked" /\ receipt = ubytes
  /\ IF kind = "skill" THEN upc' = "use" /\ UNCHANGED <<ubytes, used>>
     ELSE /\ ubytes \in AppVetted  \* on the same bytes
          /\ upc' = "idle" /\ used' = ubytes /\ ubytes' = NoBytes
  /\ UNCHANGED <<kind, pack, receipt, source, draftVars, installVars, unpaired, swapped>>

(* match_skill takes the document from the file as it is by then; json     *)
(* raises on a torn one.                                                   *)
Use ==
  /\ upc = "use" /\ pack \in Bytes
  /\ used' = pack /\ upc' = "idle" /\ ubytes' = NoBytes
  /\ UNCHANGED <<kind, pack, receipt, source, draftVars, installVars, unpaired, swapped>>

Skip ==  \* invalid, drifted, gone or torn: no match
  /\ upc # "idle" /\ upc' = "idle" /\ ubytes' = NoBytes /\ swapped' = FALSE
  /\ UNCHANGED <<kind, pack, receipt, source, draftVars, installVars, unpaired, used>>

Served ==  \* the request is over
  /\ used # NoBytes /\ used' = NoBytes /\ swapped' = FALSE
  /\ UNCHANGED <<kind, pack, receipt, source, draftVars, installVars, unpaired, upc, ubytes>>

PacksNext ==
  \/ \E i \in Installers :
       \/ Show(i) \/ Declined(i) \/ Vet(i) \/ VetFails(i) \/ Truncate(i)
       \/ WritePack(i) \/ Pin(i) \/ Quits(i)
  \/ RemovePack \/ RemoveReceipt
  \/ \E b \in Bytes : EditPack(b) \/ EditSource(b)
  \/ DraftSkill \/ DraftFact \/ Prune \/ Export
  \/ Look \/ ReadBytes \/ ReceiptOk \/ Use \/ Skip \/ Served

PacksSpec == PackInit /\ [][PacksNext]_packVars

-----------------------------------------------------------------------------
Files == Bytes \cup {NoBytes, Torn}
PackTypeOK ==
  /\ kind \in {"skill", "app"} /\ pack \in Files
  /\ receipt \in Bytes \cup {NoBytes} /\ source \in Bytes
  /\ proposal \in Bytes \cup {NoBytes} /\ fact \in BOOLEAN
  /\ ipc \in [Installers -> {"idle", "shown", "write", "fill", "pin", "done"}]
  /\ idoc \in [Installers -> Bytes \cup {NoBytes}]
  /\ unpaired \in BOOLEAN
  /\ upc \in {"idle", "valid", "checked", "use"} /\ ubytes \in Files
  /\ used \in Bytes \cup {NoBytes}
  /\ swapped \in BOOLEAN

(* What extends the matcher has passed every check of its kind, whatever   *)
(* crashed, raced or was edited by hand before: the receipt sees to it.    *)
(* For a skill pack that stops at the last check: a pack that is rewritten *)
(* between it and the next line of match_skill is used as it is.           *)
UsedIsVetted == used \in Vetted \cup {NoBytes} \/ (kind = "skill" /\ swapped)
=============================================================================
