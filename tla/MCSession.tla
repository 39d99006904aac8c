------------------------------ MODULE MCSession ------------------------------
(* Session with its quorum for TLC. *)
EXTENDS Session

MCQuorum == Majority(Cardinality(Server))
===============================================================================
