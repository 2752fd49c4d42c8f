----------------------------- MODULE MCDesktop -----------------------------
(* Three windows, two of one title, which the title of the third matches   *)
(* as a pattern (doc, doc and do[c]), and what gui/service.py says of all. *)
EXTENDS Desktop, TLC

CONSTANTS w1, w2, w3

Titles == w1 :> 1 @@ w2 :> 1 @@ w3 :> 2
Contain == w1 :> {w1, w2} @@ w2 :> {w1, w2} @@ w3 :> {w3}
Match == w1 :> {w1, w2} @@ w2 :> {w1, w2} @@ w3 :> {w1, w2}

(* gui/service.py:3: every mutating action discloses the target before it  *)
(* acts and goes through the approval policy.  Here: no window is closed   *)
(* that the owner was not asked about.                                     *)
CloseIsAsked == op = "close" /\ touched # {} => asked
=============================================================================
