--------------------------- MODULE MCLowBattery ---------------------------
(* A small instance of LowBattery for TLC: the battery is nearly empty.    *)
EXTENDS LowBattery

MCPercentages == 0 .. 7
=============================================================================
