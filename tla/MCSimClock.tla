------------------------------ MODULE MCSimClock ------------------------------
(***************************************************************************)
(* An instance of SimClock for TLC: clocks that lose or gain up to a whole   *)
(* tick per tick, so that drift crosses the uncertainty within a period.     *)
(***************************************************************************)
EXTENDS SimClock

MCDrifts == {-1000000, -400000, 0, 400000, 1000000}
===============================================================================
