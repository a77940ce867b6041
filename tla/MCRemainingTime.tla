-------------------------- MODULE MCRemainingTime --------------------------
(* Constants of the TLC runs of RemainingTime: a window of three slots     *)
(* instead of five, percentages around the middle of the gauge, those of   *)
(* a slot without battery and of one charged over its capacity.            *)
EXTENDS RemainingTime

MCPercents == {0, 49, 50, 51, 101}

\* the clock goes on, or is set back
MCGaps == {-3, 2}
=============================================================================
