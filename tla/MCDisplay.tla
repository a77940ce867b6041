----------------------------- MODULE MCDisplay -----------------------------
(* Constants of the TLC run of Display. *)
EXTENDS Display

Scene(percentage, minutes, batteries, freq) ==
  [percentage |-> percentage, isCharging |-> minutes = 0, remainingTime |-> minutes,
   batteries |-> batteries, auto_freq_state |-> TRUE,
   actualFreq |-> freq, minFreq |-> 600000, maxFreq |-> 2400000]

Slot(present, percentage) == [present |-> present, percentage |-> percentage]

\* the places where a digit appears or a colour changes; no battery, one, one of
\* two, two, and as many as have a row of their own
MCScenes ==
  {Scene(9, 59, <<Slot(TRUE, 9)>>, 999999),
   Scene(10, 60, <<Slot(TRUE, 19), Slot(TRUE, 0)>>, 1000000),
   Scene(50, 600, <<Slot(TRUE, 100), Slot(FALSE, 50), Slot(TRUE, 4)>>, 2400000),
   Scene(99, 5999, <<Slot(TRUE, 99), Slot(TRUE, 99), Slot(TRUE, 100), Slot(TRUE, 97)>>, 9999000),
   Scene(100, 0, <<>>, 600000)}

\* counters that are new, and some that are about to wrap
MCStarts == {-512, 0, 510}

\* The hypothesis of the theorem WhatFitsCanBeRead holds of these scenes.
ASSUME ScenesFit == \A s \in MCScenes : Fits(s)
=============================================================================
