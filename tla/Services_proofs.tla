-------------------------- MODULE Services_proofs --------------------------
(***************************************************************************)
(* The services together, for any constants: a behaviour of all of them is *)
(* one of each, so that what is proved of each holds of the whole.         *)
(***************************************************************************)
EXTENDS MCServices, Acting_proofs, Stores_proofs, Catalog_proofs

(* A step of one of them leaves the others at rest.                        *)
LEMMA PartsBehave ==
  ServicesSpec => /\ CharterSpec /\ PacksSpec /\ MemorySpec /\ LedgerSpec /\ BriefSpec
                  /\ DesktopSpec /\ CatalogSpec /\ IntegritySpec /\ RunnerSpec
<1>1. ServicesInit => /\ CharterInit /\ PackInit /\ MemoryInit /\ LedgerInit /\ BriefInit
                      /\ DesktopInit /\ CatalogInit /\ IntegrityInit /\ RunnerInit
  BY DEF ServicesInit
<1>2. [ServicesNext]_<<part, services>> =>
        /\ [CharterNext]_charterVars /\ [PacksNext]_packVars /\ [MemoryNext]_memoryVars
        /\ [LedgerNext]_ledgerVars /\ [BriefNext]_briefVars /\ [DesktopNext]_desktopVars
        /\ [CatalogNext]_catalogVars /\ [IntegrityNext]_integrityVars /\ [RunnerNext]_runnerVars
  BY DEF ServicesNext, services
<1> QED
  BY <1>1, <1>2, PTL
     DEF ServicesSpec, CharterSpec, PacksSpec, MemorySpec, LedgerSpec, BriefSpec, DesktopSpec,
         CatalogSpec, IntegritySpec, RunnerSpec

(* A behaviour stays one of the service it began as.                       *)
Part == part \in {"charter", "packs", "memory", "ledger", "brief", "desktop", "catalog",
                  "doctor", "runner"}

(* Whichever service moves, its variables are of their types.              *)
THEOREM ServicesTypesTheorem == ServicesSpec => []ServicesTypeOK
<1>1. ServicesInit => Part
  BY DEF ServicesInit, Part
<1>2. Part /\ [ServicesNext]_<<part, services>> => Part'
  BY DEF Part, ServicesNext
<1>3. ServicesSpec => []Part
  BY <1>1, <1>2, PTL DEF ServicesSpec
<1>4. /\ CharterInv => CharterTypeOK
      /\ PackInv => PackTypeOK
      /\ MInv => MemoryTypeOK
      /\ LInv => LedgerTypeOK
      /\ BriefInv => BriefTypeOK
      /\ DInv => DesktopTypeOK
      /\ IntegrityInv => IntegrityTypeOK
      /\ RunnerInv => RunnerTypeOK
  BY IntegrityTypes DEF CharterInv, PackInv, MInv, LInv, BriefInv, DInv, RunnerInv
<1>5. /\ Part /\ CharterTypeOK /\ PackTypeOK /\ MemoryTypeOK /\ LedgerTypeOK /\ BriefTypeOK
      /\ DesktopTypeOK /\ CatalogTypeOK /\ IntegrityTypeOK /\ RunnerTypeOK
      => ServicesTypeOK
  BY DEF Part, ServicesTypeOK
<1> QED
  BY <1>3, <1>4, <1>5, PartsBehave, CharterInvariance, PackInvariance, MemoryInvariance,
     LedgerInvariance, BriefInvariance, DesktopInvariance, CatalogTypesTheorem,
     IntegrityInvariance, RunnerInvariance, PTL

(* What every service promises, it promises beside the others.             *)
THEOREM ServicesTheorem ==
  ServicesSpec => /\ [](HaltHolds /\ BudgetHolds /\ UsedIsVetted /\ MemoryBounded)
                  /\ [](HonestUseVerifies /\ DriftIsReported /\ LatestIsLedgered)
                  /\ [](AskedBeforeActing /\ ReachesTarget /\ ActionIsRecorded)
                  /\ [](DoctorIsRight /\ GroupIsCleanedUp)
                  /\ UndoRestores
  BY PartsBehave, HaltTheorem, BudgetTheorem, PacksTheorem, MemoryBoundTheorem, HonestTheorem,
     DriftTheorem, BriefTheorem, DesktopConsent, DesktopAim, DesktopRecord, DoctorTheorem,
     RunnerTheorem, UndoRestoresTheorem, PTL
=============================================================================
