----------------------------- MODULE MCLongRun -----------------------------
(* Constants of the TLC run of LongRun. *)
EXTENDS LongRun

\* a regular processor, one whose levels lie beside the steps so that the probing
\* leaves some out, one with less steps than levels, one with more, and the one of
\* README:147-148, from 300 MHz to 1 GHz
MCChips ==
  {[levels |-> {0, 33, 66, 100}, steps |-> 3],
   [levels |-> {0, 34, 67, 100}, steps |-> 3],
   [levels |-> {0, 20, 45, 70, 100}, steps |-> 2],
   [levels |-> {0, 50, 100}, steps |-> 6],
   [levels |-> {(k * 100) \div 21 : k \in 0 .. 21}, steps |-> 21]}

\* all of it, one level, and an end that is no level
MCRanges == {<<0, 100>>, <<0, 0>>, <<50, 50>>}
=============================================================================
