------------------------------- MODULE MCBoot -------------------------------
(***************************************************************************)
(* Instances of Boot: with and without options; an empty database, one     *)
(* with a document that lacks some fields, and one with every field.       *)
(***************************************************************************)
EXTENDS Boot, TLC

CONSTANTS p1, p2

MCProc == {p1, p2}
ProcSymmetry == Permutations(MCProc)
NoOption == [f \in {} |-> ""]
MCOptions == {NoOption, "listen_address" :> "cli"}
OldDocument == [f \in {"http_port", "name"} |-> "old"]
FullDocument == [f \in Field |-> "old"]
MCDocuments == {NoDocument, OldDocument, FullDocument}
MCIp == {"ip1", "ip2"}
MCText == {"", "default", "cli", "old"} \union MCIp
=============================================================================
