----------------------------- MODULE MCDockapp -----------------------------
(* A small instance of Dockapp for TLC: a processor with one level, a      *)
(* battery that is nearly empty.                                           *)
EXTENDS Dockapp

MCLevels == {4}
RoundUp == [f \in 0 .. 31 |-> 4]

RootUserspace ==
  {[governor |-> "userspace", offered |-> "first", writable |-> TRUE, sys |-> TRUE]}

NoArg == {LEAVE}

MCGaps == -1 .. 2
MCPercentages == 0 .. 3

\* the right arrow, and a place that is none
MCClicks == {[x |-> 56, y |-> 55]}
=============================================================================
