------------------------------ MODULE MCLinkDhcp ------------------------------
(* One unanswered request instead of three. *)
EXTENDS LinkDhcp
=============================================================================
