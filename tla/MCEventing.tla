----------------------------- MODULE MCEventing -----------------------------
(***************************************************************************)
(* Small instances of Eventing.                                            *)
(***************************************************************************)
EXTENDS Eventing

CONSTANTS c1, c2

MCControlPoint == {c1, c2}
=============================================================================
