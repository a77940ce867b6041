----------------------------- MODULE Arguments -----------------------------
(***************************************************************************)
(* The command line (setArgs, src/src/main.c) over the compiled defaults   *)
(* of argsConfig.h.  Every option is a word [name, value] for one of the   *)
(* args_* variables.  A variable with the value LEAVE counts as not given, *)
(* so that an option with just that value is not seen, and a number is cut *)
(* to the width of its variable.  File names and displays are numbers,     *)
(* 0 being NULL; a word -d, -v, -h, or one nobody knows, has name "stop".  *)
(***************************************************************************)
EXTENDS Integers, Sequences, SequencesExt

CONSTANTS
  Default,     \* the compiled value of every variable (ARGSDEF_*)
  DefaultLfc,  \* ARGSDEF_LFC: numbers of batteries
  Words,       \* words the user may write
  MaxWords     \* bound: words on the command line

Chars == {"autoShutdown", "autoAlarm", "alarmRepeat", "alarmType"}
Shorts == {"shutdownDelay"}
Numbers == {"cpuUpdate", "batteryUpdate", "incrementalStep", "maxFreq", "minFreq"}
Texts == {"XDisplayName", "useFileMax", "useFileMin", "useFileSet"}
Flags == {"beQuiet", "ttyMode"}

\* the options with a few values, most of them #defined from 1 on
ValuesOf ==
  [skin |-> 0 .. 2, autoFreq |-> 1 .. 2, startingFreq |-> 1 .. 2,
   useSysProc |-> 1 .. 2, paradisiac |-> 1 .. 2, useApmAcpi |-> 1 .. 4,
   alarmType |-> {97, 104, 115, 118}]     \* 'a', 'h', 's', 'v'

Settings == Chars \cup Shorts \cup Numbers \cup Texts \cup Flags \cup DOMAIN ValuesOf

\* ARGSDEF_LEAVE and NULL are 0, AUTOSHUTDOWN_LEAVE and AUTOALARM_LEAVE -1
Unset(name) == IF name \in Chars \cup Shorts THEN -1 ELSE 0

\* the values of a signed variable: 128 for 8 bits, 32768 for 16
SignedInts(half) == -half .. half - 1

ASSUME ArgumentsAssumption ==
  /\ DOMAIN Default = Settings
  /\ \A w \in Words : w.name \in Settings \cup {"lfc", "play", "blink", "stop"} /\ w.value \in Int
  /\ \A n \in {"beQuiet", "ttyMode"} : Default[n] \in {0, 1}
  /\ Default["useApmAcpi"] \in 1 .. 4     \* main.c:593 knows no other
  \* what the assignment of SET_DEFAULT leaves in a char and in a short
  /\ \A n \in Chars : Default[n] \in SignedInts(128)
  /\ \A n \in Shorts : Default[n] \in SignedInts(32768)
  /\ MaxWords \in Nat

VARIABLES
  stage,         \* where main is
  args,          \* args_* : the settings
  blink,         \* ~args_dontBlink100
  lfcArgsVector, \* numbers of the batteries for --lfc
  playAlarm,     \* playAlarmAndExit
  words          \* ghost: the words read so far

argVars == <<args, blink, lfcArgsVector, playAlarm, words>>

----------------------------------------------------------------------------
\* an int stored in a signed variable of 8 or 16 bits
Signed(v, half) == ((v + half) % (2 * half)) - half

\* mutant of Stored: numbers are not cut
StoredUncut(w) == IF w.name \in Flags THEN 1 - Default[w.name] ELSE w.value

\* what a word leaves in its variable
Stored(w) ==
  CASE w.name \in Flags -> 1 - Default[w.name]
    [] w.name = "alarmRepeat" /\ Signed(w.value, 128) = 0 -> 1
    [] w.name \in Chars -> Signed(w.value, 128)
    [] w.name \in Shorts -> Signed(w.value, 32768)
    [] OTHER -> w.value

\* mutant of AlreadySet: EXIT_IF_ALREADY_SET is forgotten
AlreadySetIgnored(name) == FALSE

\* EXIT_IF_ALREADY_SET
AlreadySet(name) == name \in Settings /\ args[name] # Unset(name)

\* ACPI_lfcArgs_add refuses 0 and a number it has
LfcRefused(n) == n % 256 = 0 \/ \E k \in DOMAIN lfcArgsVector : lfcArgsVector[k] = n % 256

\* words that end the program: help, an unknown word, a value that is none
Refused(w) ==
  \/ w.name = "stop"
  \/ w.name = "lfc" /\ LfcRefused(w.value)
  \/ w.name \in DOMAIN ValuesOf /\ w.value \notin ValuesOf[w.name]

----------------------------------------------------------------------------
(* The loop over argv *)

\* exit() at once, or free_and_exit
Leaves(w) ==
  /\ \/ AlreadySet(w.name) /\ stage' = "exit"
     \/ w.name = "play" /\ playAlarm /\ stage' = "exit"
     \/ ~AlreadySet(w.name) /\ Refused(w) /\ stage' = "free"
  /\ words' = Append(words, w)
  /\ UNCHANGED <<args, blink, lfcArgsVector, playAlarm>>

Takes(w) ==
  /\ ~AlreadySet(w.name) /\ ~Refused(w)
  /\ ~(w.name = "play" /\ playAlarm)
  /\ args' = IF w.name \in Settings THEN [args EXCEPT ![w.name] = Stored(w)] ELSE args
  /\ blink' = IF w.name = "blink" THEN w.value # 0 ELSE blink
  /\ playAlarm' = (playAlarm \/ w.name = "play")
  /\ lfcArgsVector' = IF w.name = "lfc" THEN Append(lfcArgsVector, w.value % 256)
                      ELSE lfcArgsVector
  /\ words' = Append(words, w)
  /\ UNCHANGED stage

ReadWord ==
  /\ stage = "args" /\ Len(words) < MaxWords
  /\ \E w \in Words : Leaves(w) \/ Takes(w)

----------------------------------------------------------------------------
(* The end of setArgs *)

\* SET_DEFAULT for every variable
WithDefaults == [n \in Settings |-> IF args[n] = Unset(n) THEN Default[n] ELSE args[n]]

\* the options "--lfc=N" compiled in are added to the list of the user
EndOfLine ==
  /\ stage = "args"
  /\ args' = WithDefaults
  /\ lfcArgsVector' = lfcArgsVector \o DefaultLfc
  /\ stage' = IF \/ ~IsInjective(lfcArgsVector') \/ \E k \in DOMAIN lfcArgsVector' : lfcArgsVector'[k] = 0
                 \/ playAlarm
              THEN "free"
              ELSE IF args'["ttyMode"] = 0 THEN "display" ELSE "battery"
  /\ UNCHANGED <<blink, playAlarm, words>>

ArgumentsInit ==
  /\ stage = "args"
  /\ args = [n \in Settings |-> Unset(n)]
  /\ blink = TRUE
  /\ lfcArgsVector = <<>> /\ playAlarm = FALSE
  /\ words = <<>>

----------------------------------------------------------------------------
(* Properties *)

Accepted == stage \notin {"args", "free", "exit"}

\* the words given for a setting, except those that look like no option at all
Given(name) ==
  {k \in DOMAIN words : words[k].name = name /\ Stored(words[k]) # Unset(name)}

\* main.c:155-240, the options as the help describes them: once the command line
\* is accepted no option stands on it with two values, an option that was given
\* has its value, whatever came before and after it, and all others have the
\* compiled one.
GivenWins ==
  Accepted =>
    \A n \in Settings :
      \/ Given(n) = {} /\ args[n] = Default[n]
      \/ \E k \in Given(n) : Given(n) = {k} /\ args[n] = Stored(words[k])
=============================================================================
