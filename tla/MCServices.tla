----------------------------- MODULE MCServices -----------------------------
(***************************************************************************)
(* The services beside the execution kernel, and the runner under it, one  *)
(* instance of each. They share no state: each has files of its own, and   *)
(* what one does to another (a task in the journal, a pack that matches)   *)
(* is an input of the other module. So a behaviour here is a behaviour of  *)
(* one of them, the others at rest.                                        *)
(***************************************************************************)
EXTENDS Charter, Packs, MemoryStore, ContextLedger, Brief, MCDesktop, Catalog, Doctor,
        Runner

CONSTANTS update, clean, good, other, weak, bad, v1, v2

VARIABLE part  \* the service a behaviour is of

services == <<charterVars, packVars, memoryVars, ledgerVars, briefVars, desktopVars,
              catalogVars, integrityVars, runnerVars>>

-----------------------------------------------------------------------------
(* Instances.                                                              *)

Tiers == update :> 2 @@ clean :> 1
Docs == {[allow |-> {update}, ceiling |-> c] : c \in 1..2}
Holds == "code" :> {good, bad} @@ "pack" :> {good} @@ "pause" :> {good}
KeyNames == "feedback" :> {"k1", "k2"} @@ "preferences" :> {"k1"}

(* Two paths, each absent, with or without its directory, a file or a      *)
(* directory; or two packages, one of them protected and one installed,    *)
(* and a unit.                                                             *)
Starts ==
  {[fs |-> f, pkgs |-> {}, active |-> FALSE, enabled |-> FALSE] :
     f \in [Paths -> {Absent, Nothing(1), File(0), Dir(0)}]}
    \cup [fs : {[p \in Paths |-> Absent]}, pkgs : {{"p"}}, active : BOOLEAN, enabled : BOOLEAN]

-----------------------------------------------------------------------------
ServicesInit ==
  /\ part \in {"charter", "packs", "memory", "ledger", "brief", "desktop", "catalog",
              "doctor", "runner"}
  /\ CharterInit /\ (part # "charter" => match = update)
  /\ PackInit /\ (part # "packs" => kind = "skill" /\ source = weak)
  /\ MemoryInit
  /\ LedgerInit /\ (part # "ledger" => \A s \in Cells : truth[s] = NoValue)
  /\ BriefInit /\ (part # "brief" => ~news)
  /\ DesktopInit /\ (part # "desktop" => open = {} /\ byTitle /\ api /\ injector)
  /\ CatalogInit /\ (part # "catalog" => world = CHOOSE w \in Machines : w.active)
  /\ IntegrityInit /\ (part # "doctor" => There(StateFiles) = {})
  /\ RunnerInit /\ (part # "runner" => cmd = [root |-> FALSE, detach |-> FALSE, guarded |-> TRUE])

ServicesNext ==
  /\ UNCHANGED part
  /\ \/ /\ part = "charter" /\ CharterNext
        /\ UNCHANGED <<packVars, memoryVars, ledgerVars, briefVars, desktopVars, catalogVars,
                       integrityVars, runnerVars>>
     \/ /\ part = "packs" /\ PacksNext
        /\ UNCHANGED <<charterVars, memoryVars, ledgerVars, briefVars, desktopVars, catalogVars,
                       integrityVars, runnerVars>>
     \/ /\ part = "memory" /\ MemoryNext
        /\ UNCHANGED <<charterVars, packVars, ledgerVars, briefVars, desktopVars, catalogVars,
                       integrityVars, runnerVars>>
     \/ /\ part = "ledger" /\ LedgerNext
        /\ UNCHANGED <<charterVars, packVars, memoryVars, briefVars, desktopVars, catalogVars,
                       integrityVars, runnerVars>>
     \/ /\ part = "brief" /\ BriefNext
        /\ UNCHANGED <<charterVars, packVars, memoryVars, ledgerVars, desktopVars, catalogVars,
                       integrityVars, runnerVars>>
     \/ /\ part = "desktop" /\ DesktopNext
        /\ UNCHANGED <<charterVars, packVars, memoryVars, ledgerVars, briefVars, catalogVars,
                       integrityVars, runnerVars>>
     \/ /\ part = "catalog" /\ CatalogNext
        /\ UNCHANGED <<charterVars, packVars, memoryVars, ledgerVars, briefVars, desktopVars,
                       integrityVars, runnerVars>>
     \/ /\ part = "doctor" /\ IntegrityNext
        /\ UNCHANGED <<charterVars, packVars, memoryVars, ledgerVars, briefVars, desktopVars,
                       catalogVars, runnerVars>>
     \/ /\ part = "runner" /\ RunnerNext
        /\ UNCHANGED <<charterVars, packVars, memoryVars, ledgerVars, briefVars, desktopVars,
                       catalogVars, integrityVars>>

ServicesSpec == ServicesInit /\ [][ServicesNext]_<<part, services>>

-----------------------------------------------------------------------------
(* Bounds.                                                                 *)

(* With two firings at once, or beyond one task, the contract in force and *)
(* the catalog stay; one task is not a firing of the charter's playbook.   *)
(* The owner types beside one firing.                                      *)
InForce == contract = [allow |-> {update}, ceiling |-> 2] /\ match = update
FewTasks ==
  /\ Cardinality({p \in Firings : fpc[p] # "idle"}) = 2 => InForce /\ opc = "idle"
  /\ \/ tasks = <<>>
     \/ Len(tasks) = 1 /\ aged = 0
     \/ /\ status \in {"active", "paused"} /\ InForce /\ aged <= 1
        /\ Cardinality({i \in DOMAIN tasks : tasks[i] # [playbook |-> update, fired |-> TRUE]}) <= 1

(* Drafts while nothing else is under way; the matcher beside at most one  *)
(* installer, and a request served with none.                              *)
Installing == {i \in Installers : ipc[i] # "idle"}
FewAtOnce ==
  /\ \/ proposal = NoBytes /\ ~fact
     \/ Installing = {} /\ upc = "idle" /\ used = NoBytes /\ pack = NoBytes
  /\ Cardinality(Installing) = 2 =>
       upc = "idle" /\ ~unpaired /\ {source, pack, receipt} \cap {weak, bad} = {}
  /\ Installing # {} /\ (upc # "idle" \/ unpaired) => source = good
  /\ used = NoBytes \/ Installing = {}
  /\ Installing # {} => pack # bad

(* Two lines in a file; a task that leaves the machine alone has no other  *)
(* beside it.                                                              *)
FewLines ==
  /\ \A p \in Paths : world.fs[p].n <= 2
  /\ Len(journal) = 1 \/ \A i \in DOMAIN journal : journal[i].request.op \notin Quiet

(* At most one other window comes into play under an action.               *)
FewStray == Cardinality(strayed) <= 1

(* The second key of the feedback table has one value, and one row at a    *)
(* time is not what the store was told.                                    *)
FewValues ==
  /\ row[<<"feedback", "k2">>].val # v2
  /\ Cardinality({s \in Cells : row[s].val # truth[s]}) <= 1

Small == (part = "charter" => FewTasks) /\ (part = "packs" => FewAtOnce)
           /\ (part = "desktop" => FewStray) /\ (part = "ledger" => FewValues) /\ (part = "catalog" => FewLines)

(* All of a state that is not at rest.                                     *)
View ==
  <<part, CASE part = "charter" -> charterVars
    [] part = "packs" -> packVars
    [] part = "memory" -> memoryVars
    [] part = "ledger" -> ledgerVars
    [] part = "brief" -> briefVars
    [] part = "desktop" -> desktopVars
    [] part = "catalog" -> catalogVars
    [] part = "doctor" -> integrityVars
    [] part = "runner" -> runnerVars>>

(* What every module holds in its variables is of its type.                *)
ServicesTypeOK ==
  CASE part = "charter" -> CharterTypeOK
    [] part = "packs" -> PackTypeOK
    [] part = "memory" -> MemoryTypeOK
    [] part = "ledger" -> LedgerTypeOK
    [] part = "brief" -> BriefTypeOK
    [] part = "desktop" -> DesktopTypeOK
    [] part = "catalog" -> CatalogTypeOK
    [] part = "doctor" -> IntegrityTypeOK
    [] part = "runner" -> RunnerTypeOK
=============================================================================
