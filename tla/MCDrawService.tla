----------------------------- MODULE MCDrawService -----------------------------
(* Constants of DrawService for TLC.  Ticks: a day has two, and the draw waits  *)
(* one after the close.  Fees: a batch of two or more needs the fee raised once.*)
(* Script units: batches of two or more overrun both starting budgets.          *)
EXTENDS DrawService, TLC

MCFeeNeeded  == [n \in 1 .. 3 |-> IF n = 1 THEN 1 ELSE 2]
MCLeaderUsed == [n \in 1 .. 3 |-> IF n = 1 THEN 20000 ELSE 41000]

\* Calls, settlers and payout keys are interchangeable; with safety properties only.
MCSymmetry == Permutations(Requests) \cup Permutations(Settlers) \cup Permutations(Pubkeys)
=============================================================================
