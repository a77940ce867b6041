---------------------------- MODULE MCEventLoop ----------------------------
(* Constants of the TLC runs of EventLoop.  The unit of frequency is 25 MHz. *)
EXTENDS EventLoop

MCLevels == {4, 10}
RoundUp == [f \in 0 .. 31 |-> IF f <= 4 THEN 4 ELSE 10]

RootUserspace ==
  {[governor |-> "userspace", offered |-> "first", writable |-> TRUE, sys |-> TRUE]}

\* machines whose governor cannot be changed as well: one on which wmlaptop knows
\* it, and one whose files may be written, so that it believes it has the control
ThreeSystems == RootUserspace \cup
  {[governor |-> "ondemand", offered |-> "absent", writable |-> FALSE, sys |-> TRUE],
   [governor |-> "performance", offered |-> "absent", writable |-> TRUE, sys |-> TRUE]}

NoArg == {LEAVE}

\* cycles of half a second up to two, and a clock set back by a second
MCGaps == -1 .. 2

\* each arrow, the auto-freq button, and a place between them
MCClicks ==
  {[x |-> 5, y |-> 55], [x |-> 56, y |-> 55], [x |-> 30, y |-> 40], [x |-> 30, y |-> 55]}
=============================================================================
