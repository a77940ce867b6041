------------------------------ MODULE LongRun ------------------------------
(***************************************************************************)
(* The frequency control of the LONGRUN build (src/src/longrun_linux.c and *)
(* the #ifdef LONGRUN parts of cpu.c, init.c and event.c).  A Transmeta    *)
(* processor moves by itself inside a range of performance levels (0 to    *)
(* 100 percent); wmlaptop probes the levels once and then sets the upper   *)
(* end of the range.  The devices msr and cpuid can be opened: otherwise   *)
(* the program exits.                                                      *)
(***************************************************************************)
EXTENDS Integers, Sequences

CONSTANTS
  Chips,          \* processors: [levels, steps]
  FirstRanges,    \* ranges the processor may have before
  ArgSteps,       \* args_incrementalStep
  StartingFreqs,  \* args_startingFreq: "leave", "min", "max"
  Percentages,    \* percentages of the battery
  PARADISIAC_ON   \* args_paradisiac

NEVER == 101

\* Up to here, 3.2 GHz in steps of 33 MHz, the floats of the probing loop give the
\* quotient of the integers.
MaxSteps == 96

ASSUME LongRunAssumption ==
  /\ \A c \in Chips : /\ c.levels \subseteq 0 .. 100 /\ {0, 100} \subseteq c.levels
                      /\ c.steps \in 1 .. MaxSteps
  /\ FirstRanges \subseteq (0 .. 127) \X (0 .. 127)
  /\ ArgSteps \subseteq Nat
  /\ StartingFreqs \subseteq {"leave", "min", "max"}
  /\ Percentages \subseteq 0 .. 100 /\ PARADISIAC_ON \in BOOLEAN

VARIABLES
  chip,                       \* constant: the processor
  stage,                      \* "probe", "init", "start", "run"
  i, pct_last,                \* find_longrun_values
  range,                      \* MSR_TMx86_LONGRUN: lower and upper end
  longRunLevels,              \* the table; its length is nLongRunLevels
  actualLevelIdx, setLevelIdx, stepLevelIdx, auto_freq_state,   \* cpuState
  percentage, isCharging,     \* powerState
  pass1done, lastPercentage, saved_autoFreq,   \* cpuSetParadisiac
  click,                      \* ghost: what was clicked since the last battery period
  handedBack                  \* ghost: auto-freq was changed by unplugging, the range was not

probing == <<i, pct_last, longRunLevels>>
cpuState == <<actualLevelIdx, setLevelIdx, stepLevelIdx, auto_freq_state>>
battery == <<percentage, isCharging>>
paradisiac == <<pass1done, lastPercentage, saved_autoFreq>>
ghosts == <<click, handedBack>>
vars == <<chip, stage, probing, range, cpuState, battery, paradisiac, ghosts>>

nLongRunLevels == Len(longRunLevels)
Word16(x) == x % 65536

----------------------------------------------------------------------------
(* find_longrun_values *)

\* the performance asked for in the k-th turn
pctAt(k) == (k * 100) \div chip.steps

\* The processor takes the lowest level that gives the performance asked for.
Status(pct) ==
  CHOOSE l \in chip.levels : l >= pct /\ \A k \in chip.levels : k >= pct => l <= k

\* mutant of NewLevel: every probe makes an entry
NewLevelAlways(ecx) == TRUE

\* the probe has found a level above the last one
NewLevel(ecx) == pct_last < ecx

\* one turn of the probing loop; after a level above the one asked for, the
\* next step is left out
Probe ==
  /\ stage = "probe" /\ i <= chip.steps
  /\ LET pct_in == pctAt(i)
         ecx    == Status(pct_in)
     IN  /\ longRunLevels' = IF NewLevel(ecx) THEN Append(longRunLevels, ecx) ELSE longRunLevels
         /\ i' = i + (IF ecx = 100 THEN 0 ELSE IF ecx > pct_in THEN 2 ELSE 1)
         /\ pct_last' = ecx
         /\ stage' = IF ecx = 100 \/ i' > chip.steps THEN "init" ELSE "probe"
  /\ UNCHANGED <<chip, range, cpuState, battery, paradisiac, ghosts>>

----------------------------------------------------------------------------
(* cpuReadFreq and cpuEchoFreq *)

\* the index of the level the range ends at, unchanged when there is none
ReadIdx(idx) ==
  IF \E k \in DOMAIN longRunLevels : longRunLevels[k] = range[2]
  THEN CHOOSE k \in 0 .. nLongRunLevels - 1 :
         /\ longRunLevels[k + 1] = range[2]
         /\ \A j \in 0 .. k - 1 : longRunLevels[j + 1] # range[2]
  ELSE idx

\* outside the table there may be anything
LevelAt(idx) == IF idx \in 0 .. nLongRunLevels - 1 THEN {longRunLevels[idx + 1]} ELSE 0 .. 127

EchoFreq(idx, auto) ==
  \E level \in LevelAt(idx) : range' = <<IF auto THEN 0 ELSE level, level>>

----------------------------------------------------------------------------
(* The end of longrun_init and of init_cpuState *)

init_cpuState ==
  /\ stage = "init"
  /\ stage' = "start"
  /\ actualLevelIdx' = ReadIdx(actualLevelIdx)
  /\ auto_freq_state' \in BOOLEAN
  /\ \E s \in ArgSteps : stepLevelIdx' = IF s \in 1 .. 9 THEN s ELSE 1
  /\ \E f \in StartingFreqs :
       setLevelIdx' = CASE f = "leave" -> actualLevelIdx'
                        [] f = "min" -> 0
                        [] f = "max" -> nLongRunLevels - 1
  /\ EchoFreq(setLevelIdx', auto_freq_state')
  /\ UNCHANGED <<chip, probing, battery, paradisiac, ghosts>>

----------------------------------------------------------------------------
(* cpuSetFreq with FREQ_NEXT *)

\* an index is compared with the number of levels, and with the lowest level
Refused(direction) ==
  \/ direction = "inc" /\ actualLevelIdx = nLongRunLevels
  \/ direction = "dec" /\ actualLevelIdx = longRunLevels[1]

\* mutant of Moved: below 0 there is the other end
MovedAround(direction) ==
  IF direction = "inc"
  THEN LET to == Word16(setLevelIdx + stepLevelIdx)
       IN  IF to = nLongRunLevels THEN nLongRunLevels - 1 ELSE to
  ELSE LET to == Word16(setLevelIdx - stepLevelIdx) IN IF to > 999 THEN nLongRunLevels - 1 ELSE to

\* The index after a click: equality at the upper end, unsigned at the lower one.
Moved(direction) ==
  IF direction = "inc"
  THEN LET to == Word16(setLevelIdx + stepLevelIdx)
       IN  IF to = nLongRunLevels THEN nLongRunLevels - 1 ELSE to
  ELSE LET to == Word16(setLevelIdx - stepLevelIdx) IN IF to > 999 THEN 0 ELSE to

Arrow(direction) ==
  /\ stage = "run"
  /\ \/ /\ Refused(direction)
        /\ UNCHANGED <<range, cpuState, handedBack>>
     \/ /\ ~Refused(direction)
        /\ setLevelIdx' = Moved(direction)
        /\ EchoFreq(setLevelIdx', auto_freq_state)
        /\ handedBack' = FALSE
        /\ UNCHANGED <<actualLevelIdx, stepLevelIdx, auto_freq_state>>
  /\ click' = direction
  /\ UNCHANGED <<chip, stage, probing, battery, paradisiac>>

\* the button: the range is read back from the processor
ToggleAutoFreq ==
  /\ stage = "run"
  /\ auto_freq_state' = ~auto_freq_state
  /\ range' = <<IF auto_freq_state' THEN 0 ELSE range[2], range[2]>>
  /\ click' = "auto" /\ handedBack' = FALSE
  /\ UNCHANGED <<chip, stage, probing, actualLevelIdx, setLevelIdx, stepLevelIdx, battery, paradisiac>>

----------------------------------------------------------------------------
(* The battery period *)

JustFull == lastPercentage \in {99, NEVER} /\ percentage' = 100 /\ isCharging'
Unplugged == pass1done /\ ~isCharging'

\* mutant of cpuSetParadisiac: auto-freq is switched off after the range is set
ParadisiacTooLate ==
  /\ lastPercentage' = percentage'
  /\ \/ /\ JustFull
        /\ saved_autoFreq' = auto_freq_state /\ auto_freq_state' = FALSE /\ pass1done' = TRUE
        /\ setLevelIdx' = nLongRunLevels - 1
        /\ EchoFreq(setLevelIdx', auto_freq_state)
        /\ handedBack' = FALSE
     \/ /\ ~JustFull
        /\ auto_freq_state' = IF Unplugged THEN saved_autoFreq ELSE auto_freq_state
        /\ pass1done' = (pass1done /\ isCharging')
        /\ handedBack' = (handedBack \/ Unplugged)
        /\ UNCHANGED <<saved_autoFreq, setLevelIdx, range>>

\* On unplugging, auto-freq gets its state back but the range stays as it is.
cpuSetParadisiac ==
  /\ lastPercentage' = percentage'
  /\ \/ /\ JustFull
        /\ saved_autoFreq' = auto_freq_state /\ auto_freq_state' = FALSE /\ pass1done' = TRUE
        /\ setLevelIdx' = nLongRunLevels - 1
        /\ EchoFreq(setLevelIdx', FALSE)
        /\ handedBack' = FALSE
     \/ /\ ~JustFull
        /\ auto_freq_state' = IF Unplugged THEN saved_autoFreq ELSE auto_freq_state
        /\ pass1done' = (pass1done /\ isCharging')
        /\ handedBack' = (handedBack \/ Unplugged)
        /\ UNCHANGED <<saved_autoFreq, setLevelIdx, range>>

NewReading == percentage' \in Percentages /\ isCharging' \in BOOLEAN

\* Before the loop the mode is entered only when the battery is full already.
Start ==
  /\ stage = "start"
  /\ stage' = "run"
  /\ NewReading
  /\ \/ /\ PARADISIAC_ON /\ percentage' = 100 /\ isCharging'
        /\ cpuSetParadisiac
     \/ /\ ~(PARADISIAC_ON /\ percentage' = 100 /\ isCharging')
        /\ UNCHANGED <<range, setLevelIdx, auto_freq_state, paradisiac, handedBack>>
  /\ UNCHANGED <<chip, probing, actualLevelIdx, stepLevelIdx, click>>

\* cpuCheckFreq, the updater and cpuSetParadisiac
Period ==
  /\ stage = "run"
  /\ NewReading
  /\ actualLevelIdx' = ReadIdx(actualLevelIdx)
  /\ \/ /\ PARADISIAC_ON
        /\ cpuSetParadisiac
     \/ /\ ~PARADISIAC_ON
        /\ UNCHANGED <<range, setLevelIdx, auto_freq_state, paradisiac, handedBack>>
  /\ click' = "none"
  /\ UNCHANGED <<chip, stage, probing, stepLevelIdx>>

----------------------------------------------------------------------------

Init ==
  /\ chip \in Chips
  /\ stage = "probe" /\ i = 0 /\ pct_last = -1 /\ longRunLevels = <<>>
  /\ range \in FirstRanges
  /\ actualLevelIdx = 0 /\ setLevelIdx = 0 /\ stepLevelIdx = 0 /\ auto_freq_state = FALSE
  /\ percentage \in Percentages /\ isCharging = FALSE
  /\ pass1done = FALSE /\ lastPercentage = NEVER /\ saved_autoFreq = FALSE
  /\ click = "none" /\ handedBack = FALSE

Progress == Probe \/ init_cpuState \/ Start \/ Period

Next == Progress \/ (\E d \in {"inc", "dec"} : Arrow(d)) \/ ToggleAutoFreq

\* The program runs: the battery period comes again and again.
Spec == Init /\ [][Next]_vars /\ WF_vars(Probe \/ init_cpuState \/ Start) /\ WF_vars(Period)

----------------------------------------------------------------------------
(* Properties *)

\* longrun_linux.c:275-277: what the probing leaves in the table are levels of
\* the processor, each once and in ascending order, from the lowest one on; up to
\* the highest one, unless the step at 100 was left out because the one before
\* it gave more than was asked for; and it is all of them when the processor has
\* exactly the level of every step.
Regular == chip.levels = {pctAt(k) : k \in 0 .. chip.steps}
LastLeftOut == Status(pctAt(chip.steps - 1)) > pctAt(chip.steps - 1)

TableRight ==
  stage # "probe" =>
    /\ \A k \in 1 .. nLongRunLevels : longRunLevels[k] \in chip.levels
    /\ \A k \in 1 .. nLongRunLevels - 1 : longRunLevels[k] < longRunLevels[k + 1]
    /\ longRunLevels[1] = 0
    /\ longRunLevels[nLongRunLevels] = 100 \/ LastLeftOut
    /\ Regular => nLongRunLevels = chip.steps + 1

\* README:146-150: with levels moved one by one, the processor always has the
\* range of the level that was set last, from 0 on when auto-freq is on; the one
\* exception is auto-freq given back by the unplugged adapter: against
\* README:149-150, the range is written only by the next click.
RangeFollows ==
  stage = "run" /\ stepLevelIdx = 1 =>
    /\ setLevelIdx \in 0 .. nLongRunLevels - 1
    /\ range[2] = longRunLevels[setLevelIdx + 1]
    /\ range[1] \in {0, range[2]}
    /\ ~handedBack => range[1] = IF auto_freq_state THEN 0 ELSE range[2]

\* README:146: whoever clicks on < again and again comes down to the lowest
\* level and stays there, although a click is ignored when the level was 0 at
\* the last battery period, whatever has been set since then.
ComesDown ==
  /\ <>[](click # "inc" /\ percentage # 100)
  /\ []<>(click = "dec" /\ stage = "run")
  => <>[](setLevelIdx = 0)

=============================================================================
