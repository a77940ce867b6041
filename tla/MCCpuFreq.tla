----------------------------- MODULE MCCpuFreq -----------------------------
(* Constants of the TLC runs of CpuFreq.  The unit is 25 MHz.              *)
EXTENDS CpuFreq

MCLevels == {4, 7, 10}
MCWord == 0 .. 31

RoundUp == [f \in MCWord |-> IF f <= 4 THEN 4 ELSE IF f <= 7 THEN 7 ELSE 10]
RoundDown == [f \in MCWord |-> IF f < 7 THEN 4 ELSE IF f < 10 THEN 7 ELSE 10]

RootSystems ==
  {[governor |-> "userspace", offered |-> "first", writable |-> TRUE, sys |-> TRUE],
   [governor |-> "ondemand", offered |-> "listed", writable |-> TRUE, sys |-> TRUE],
   [governor |-> "performance", offered |-> "first", writable |-> TRUE, sys |-> TRUE]}

AllSystems == {s \in SystemType : s.governor = "userspace" => s.offered # "absent"}

NoArg == {LEAVE}

\* The hypothesis of the theorem OneLevelAtATime holds of these processors.
ASSUME LevelsApart == NoSkip
=============================================================================
