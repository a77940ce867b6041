--------------------------- MODULE SlidingWindow ---------------------------
(***************************************************************************)
(* What the estimate of the remaining time promises: it is derived from    *)
(* the newest and the oldest of the last Depth measurements made since the *)
(* window was last emptied, and is 0 ("--:--" on the display) without two  *)
(* measurements that differ.  It is arithmetic of whole numbers; where     *)
(* that gives no time, or one that does not fit, nothing is promised.      *)
(* RemainingTime implements it with an array, an 8-bit index, unsigned     *)
(* arithmetic and the static variables of battery.c.                       *)
(***************************************************************************)
EXTENDS Integers, Sequences

CONSTANTS
  Depth,        \* measurements the window holds, values[5] in the code
  U32, U16,     \* 2^32 and 2^16, what products and estimates have to fit in
  Minute,       \* seconds of a minute
  Percents,     \* percentages a battery may report
  Times         \* the clock, in seconds

VARIABLES
  window,       \* measurements, newest first
  estimate      \* minutes, 0 when unknown

Measurement == [pct : Percents, time : Times]

\* The clock was not set back in the window, the percentage moved in its direction
\* and not beyond 100, and neither the product nor the minutes are too large.
Sensible(seconds, points, left) ==
  /\ seconds >= 0 /\ points > 0 /\ left >= 0
  /\ seconds * left < U32
  /\ ((seconds * left) \div points) \div Minute < U16

\* seconds : points = remaining seconds : (what is left to lose or to gain)
Estimates(w, charging) ==
  LET new     == w[1]
      old     == w[Len(w)]
      seconds == new.time - old.time
      points  == IF charging THEN new.pct - old.pct ELSE old.pct - new.pct
      left    == IF charging THEN 100 - new.pct ELSE new.pct
  IN  IF Len(w) < 2 \/ points = 0 THEN {0}
      ELSE IF Sensible(seconds, points, left)
           THEN {((seconds * left) \div points) \div Minute}
           ELSE 0 .. U16 - 1

Init == window = <<>> /\ estimate = 0

Measure(m, charging) ==
  /\ window' = SubSeq(<<m>> \o window, 1, IF Len(window) < Depth THEN Len(window) + 1 ELSE Depth)
  /\ estimate' \in Estimates(window', charging)

Restart == window' = <<>> /\ estimate' = 0

\* the source or the batteries changed: nothing is shown for the moment
Blank == estimate' = 0 /\ UNCHANGED window

Next == \/ \E m \in Measurement, charging \in BOOLEAN : Measure(m, charging)
        \/ Restart
        \/ Blank

Spec == Init /\ [][Next]_<<window, estimate>>
=============================================================================
