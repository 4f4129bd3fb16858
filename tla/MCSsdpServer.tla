---------------------------- MODULE MCSsdpServer ----------------------------
(***************************************************************************)
(* Small instances of SsdpServer.  The liveness properties rule out a      *)
(* symmetry set.                                                           *)
(***************************************************************************)
EXTENDS SsdpServer

CONSTANTS e1, e2

MCEndpoint == {e1, e2}
=============================================================================
