----------------------------- MODULE MCStartup -----------------------------
(* Constants of the TLC run of Startup. *)
EXTENDS Startup

\* the values of main.h:338-532, except for -q, which the maintainer has turned on
MCDefault ==
  [n \in Settings |->
     CASE n = "cpuUpdate" -> 80 [] n = "batteryUpdate" -> 5000
       [] n = "incrementalStep" -> 100000
       [] n \in {"autoFreq", "paradisiac", "useSysProc", "beQuiet"} -> 1
       [] n = "useApmAcpi" -> 2
       [] n \in {"autoShutdown", "shutdownDelay"} -> 1
       [] n \in {"autoAlarm", "alarmRepeat"} -> 5 [] n = "alarmType" -> 104
       [] OTHER -> 0]

MCLfc == <<2>>

Word(name, value) == [name |-> name, value |-> value]

\* values that count, that look like none, that do not fit and that are refused
MCWords ==
  {Word("maxFreq", 0), Word("maxFreq", 7), Word("XDisplayName", 1),
   Word("autoShutdown", 3), Word("autoShutdown", 255), Word("shutdownDelay", 65535),
   Word("alarmRepeat", 0), Word("alarmRepeat", 256), Word("alarmType", 97),
   Word("skin", 2), Word("skin", 9), Word("paradisiac", 2),
   Word("useApmAcpi", 1), Word("useApmAcpi", 3), Word("useApmAcpi", 4),
   Word("lfc", 1), Word("lfc", 2), Word("lfc", 256), Word("beQuiet", 1), Word("ttyMode", 1),
   Word("play", 1), Word("blink", 0), Word("stop", 0)}

MCMachines ==
  {[acpi |-> a, dir |-> a, apm |-> p, bats |-> b] :
     a \in BOOLEAN, p \in BOOLEAN, b \in {{}, {"BAT0", "BAT1"}}}
  \cup {[acpi |-> TRUE, dir |-> FALSE, apm |-> TRUE, bats |-> {}]}
=============================================================================
