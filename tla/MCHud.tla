------------------------------- MODULE MCHud -------------------------------
(* HudConsent over one request of each kind, and what the documents of the *)
(* two repositories say of it.                                             *)
EXTENDS HudConsent, Integers, TLC

CONSTANTS tidy, wipe, upgrade, reboot

(* Reversible, irreversible, irreversible at tier 2, reversible at tier 3. *)
ProfileOf ==
  [r \in Requests |->
     [tier |-> CASE r = reboot -> 3 [] r = upgrade -> 2 [] OTHER -> 1,
      undoable |-> r \in {tidy, reboot}]]

(* States that TLC may take for the same: the state on display is read by  *)
(* no step but FinishBoot, which changes nothing else, and of the history  *)
(* the invariants compare only what is left of each promise; what is shown *)
(* beside a prompt matters to PromptMatches alone.                         *)
Left(r) ==
  << IF Profile[r].tier >= 2 THEN consents[r] - executed[r] ELSE 0,
     IF hasty THEN 0 ELSE asked[r] - executed[r],
     IF hasty \/ ~Irreversible(r) THEN 0 ELSE acked[r] + waived[r] - executed[r] >>

GateView ==
  <<policy, confirm.gate, confirm.req, staged, lastDo, proc, ready, timer, sent,
    pending, inbox, outbox, hasty,
    IF hasty THEN <<>> ELSE <<confirm.about, lastPreview, lastPlan, lastPlanReq>>,
    [r \in Requests |-> Left(r)]>>

(* Bound: at most two of the requests in one behaviour.                    *)
TwoRequests ==
  Cardinality({r \in Requests : asked[r] > 0} \cup ({lastPreview} \ {NoRequest})) <= 2

(* bridge/consent.py: "Before sending a mutation the GUI previews it, and  *)
(* if the kernel's own ``undo`` field says the action cannot be taken      *)
(* back, the owner is shown the plan first".  KERNEL_ONLY and a preview     *)
(* that the kernel failed to make are left out of it.                      *)
ShownFirst ==
  \A r \in Requests : Irreversible(r) /\ executed[r] > 0 => acked[r] + waived[r] > 0
=============================================================================
