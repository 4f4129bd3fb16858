----------------------------- MODULE MCDatastore -----------------------------
(***************************************************************************)
(* A small instance of Datastore: an entry of the root menu, and an album  *)
(* whose key is a hash.                                                    *)
(***************************************************************************)
EXTENDS Datastore

MCHash == [k \in {"17"} |-> "42"]
=============================================================================
