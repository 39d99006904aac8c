------------------------- MODULE MCDeadlineMulticast -------------------------
(***************************************************************************)
(* An instance of DeadlineMulticast for TLC.                                *)
(***************************************************************************)
EXTENDS DeadlineMulticast, TLC

MCTimes == 0..3
===============================================================================
