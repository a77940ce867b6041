--------------------------- MODULE RemainingTime ---------------------------
(***************************************************************************)
(* The tail of ACPI_Update and APM_Update, setNewBatteryState and          *)
(* estimatedTimeClock (src/src/battery.c): one action per call of the      *)
(* updater, which has just read the percentage and the number of           *)
(* batteries, and reads the adapter if it finds its file.  The clock is    *)
(* time(), which may leap, be set back, or stand still between two calls.  *)
(***************************************************************************)
EXTENDS Integers, Sequences

CONSTANTS
  Depth,        \* values[Depth]
  U32, U16,     \* 2^32 of u_int32, 2^16 of u_int16
  Minute,       \* seconds of a minute
  Percents,     \* percentages a battery may report
  MaxTime,      \* bound of the clock: it stays below 2^32 seconds
  MaxCalls,     \* bound: how often the updater is called
  Gaps,         \* seconds by which time() may differ between two calls
  Counts,       \* numbers of batteries that may be present
  Gauges        \* how the percentage moves, a subset of
                \* "bouncing": up or down by one at will, and anywhere when a
                \* battery is plugged or unplugged
                \* "apart": up only with the adapter, down only without, by one,
                \* and never in a period in which the adapter or a battery is
                \* moved; the file of the adapter is always there

Times == 0 .. MaxTime
NONE == 255     \* valueIndex = ~0
Slots == 0 .. Depth - 1

ASSUME WindowAssumption ==
  /\ Depth \in 2 .. 254 /\ Minute \in Nat \ {0}
  /\ U32 \in Nat /\ U32 > 255 /\ U16 \in Nat \ {0}
  /\ MaxTime \in Nat /\ MaxTime < U32 /\ Gaps \subseteq Int /\ MaxCalls \in Nat
  /\ Percents \subseteq 0 .. 255 /\ 0 \in Percents
  /\ Counts \subseteq 0 .. 255 /\ Gauges \subseteq {"bouncing", "apart"}

VARIABLES
  secondsCounter,
  calls,        \* calls of the updater so far
  percentage, isCharging, batterySum, remainingTime,         \* powerState
  lastPercentage, lastChargingState, lastBatterySum, firstRelevation,
  values, valueIndex, lastIsCharging,                        \* estimatedTimeClock
  gauge,        \* the gauge of this laptop
  adapterRead,  \* the last call of the updater found the file of the adapter
  drawn         \* what the last draw_all of setNewBatteryState showed

reading == <<percentage, isCharging, batterySum>>
lasts == <<lastPercentage, lastChargingState, lastBatterySum>>
measured == <<values, valueIndex, lastIsCharging>>
vars == <<secondsCounter, calls, reading, remainingTime, lasts, firstRelevation, measured, gauge, adapterRead, drawn>>

Byte(n) == n % 256
Word32(n) == n % U32
Word16(n) == n % U16

\* The measurements valueIndex makes valid, newest first
Window(v, i) == IF i = NONE THEN <<>> ELSE [k \in 1 .. i + 1 |-> v[k - 1]]

Promise == INSTANCE SlidingWindow
             WITH window <- Window(values, valueIndex), estimate <- remainingTime

----------------------------------------------------------------------------

\* mutant of Shifted: the loop runs upwards and copies the newest slot everywhere
ShiftedUpwards(m) == [k \in Slots |-> IF k = 0 THEN m ELSE values[0]]

\* the shift loop of estimatedTimeClock and the new measurement
Shifted(m) == [k \in Slots |-> IF k = 0 THEN m ELSE values[k - 1]]

NextIndex ==
  IF Byte(valueIndex + 1) > Depth - 1 THEN Depth - 1 ELSE Byte(valueIndex + 1)

\* diffPercentage between the newest and the oldest valid measurement
DiffPercentage(v, i, charging) ==
  Byte(IF charging THEN v[0].pct - v[i].pct ELSE v[i].pct - v[0].pct)

\* 100 - percentage is an int, and negative above 100%
Left == IF isCharging' THEN 100 - percentage' ELSE percentage'

\* remainingSeconds, an u_int32 product of an u_int32 difference
RemainingSeconds(v, i) ==
  Word32(Word32(v[0].time - v[i].time) * Word32(Left)) \div DiffPercentage(v, i, isCharging')

Unknown(v, i) == i = 0 \/ DiffPercentage(v, i, isCharging') = 0

\* mutant of Remaining: the minutes are not cut to an u_int16
RemainingUncut(v, i) ==
  IF Unknown(v, i) THEN 0 ELSE RemainingSeconds(v, i) \div Minute

Remaining(v, i) ==
  IF Unknown(v, i) THEN 0 ELSE Word16(RemainingSeconds(v, i) \div Minute)

\* mutant of SourceChanged: the adapter is compared with the wrong variable
SourceUnnoticed == lastChargingState # isCharging'

\* The adapter has moved since estimatedTimeClock was last called
SourceChanged == lastIsCharging # isCharging'

estimatedTimeClock ==
  \/ /\ SourceChanged
     /\ lastIsCharging' = isCharging'
     /\ valueIndex' = NONE
     /\ remainingTime' = 0
     /\ UNCHANGED values
  \/ /\ ~SourceChanged
     /\ values' = Shifted([pct |-> percentage', time |-> Word32(secondsCounter')])
     /\ valueIndex' = NextIndex
     /\ remainingTime' = Remaining(values', valueIndex')
     /\ UNCHANGED lastIsCharging

\* setNewBatteryState, where changed says whether the reading differs
SetState(changed) ==
  LET moved == lastChargingState # isCharging' \/ lastBatterySum # batterySum'
      fresh == firstRelevation \/ moved
  IN  \/ /\ ~changed
         /\ firstRelevation' = fresh
         /\ UNCHANGED <<remainingTime, lasts, measured, drawn>>
      \/ /\ changed
         /\ firstRelevation' = FALSE
         /\ \/ fresh /\ remainingTime' = 0 /\ UNCHANGED measured
            \/ ~fresh /\ estimatedTimeClock
         /\ drawn' = reading'
         /\ lastPercentage' = percentage'
         /\ lastChargingState' = isCharging'
         /\ lastBatterySum' = batterySum'

\* mutant of setNewBatteryState: the percentage is compared with the one of the
\* call before, which may not have come so far
NewStateSinceCall ==
  SetState(\/ lastChargingState # isCharging' \/ lastBatterySum # batterySum'
           \/ percentage # percentage')

\* compared with what it has seen when something changed last
setNewBatteryState ==
  SetState(\/ lastChargingState # isCharging' \/ lastBatterySum # batterySum'
           \/ lastPercentage # percentage')

\* ACPI_Update returns early without a file of the adapter
NoAdapterFile ==
  /\ gauge = "bouncing"
  /\ UNCHANGED <<isCharging, remainingTime, lasts, firstRelevation, measured, drawn>>

\* What the battery may report next
Reading ==
  /\ isCharging' \in BOOLEAN
  /\ batterySum' \in Counts
  /\ percentage' \in {p \in Percents : p - percentage \in -1 .. 1 \/ batterySum' # batterySum}
  /\ gauge = "apart" => /\ isCharging' => percentage' >= percentage
                        /\ ~isCharging' => percentage' <= percentage
                        /\ percentage' # percentage =>
                             isCharging' = isCharging /\ batterySum' = batterySum
  /\ UNCHANGED gauge

\* secondsCounter = time(NULL), once per cycle
ClockMoves == \E gap \in Gaps : secondsCounter' = secondsCounter + gap /\ secondsCounter' \in Times

Updater ==
  /\ calls < MaxCalls /\ calls' = calls + 1
  /\ ClockMoves
  /\ Reading
  /\ \/ adapterRead' = TRUE /\ setNewBatteryState
     \/ adapterRead' = FALSE /\ NoAdapterFile

Init ==
  /\ secondsCounter \in Times /\ calls = 0
  /\ percentage \in Percents /\ isCharging \in BOOLEAN /\ batterySum \in Counts
  /\ remainingTime = 0
  /\ lastPercentage = 0 /\ lastChargingState = FALSE /\ lastBatterySum = 0
  /\ firstRelevation = TRUE
  /\ values = [k \in Slots |-> [pct |-> 0, time |-> 0]] /\ valueIndex = NONE
  /\ lastIsCharging = FALSE
  /\ gauge \in Gauges /\ adapterRead = FALSE /\ drawn = lasts

Spec == Init /\ [][Updater]_vars

----------------------------------------------------------------------------
(* Properties *)

\* Every variable keeps its type; the 8-bit index is a slot or the mark ~0.
TypeOK ==
  /\ secondsCounter \in Times /\ calls \in 0 .. MaxCalls
  /\ percentage \in Percents /\ isCharging \in BOOLEAN /\ batterySum \in Counts
  /\ remainingTime \in 0 .. U16 - 1
  /\ lastPercentage \in Percents /\ lastChargingState \in BOOLEAN
  /\ lastBatterySum \in Counts \cup {0} /\ firstRelevation \in BOOLEAN
  /\ values \in [Slots -> [pct : Percents, time : Times]]
  /\ valueIndex \in Slots \cup {NONE} /\ lastIsCharging \in BOOLEAN
  /\ gauge \in Gauges /\ adapterRead \in BOOLEAN
  /\ drawn \in Percents \X BOOLEAN \X (Counts \cup {0})

\* battery.c:630-686: the array, the shift loop and the 8-bit index implement the
\* sliding window.  The arithmetic in u_int8, u_int32 and u_int16 gives the estimate
\* of whole numbers, although the clock may be set back or leap within the window,
\* wherever that estimate exists and fits.
ImplementsWindow == Promise!Spec

\* battery.c:385-387 and 555-597: as soon as the file of the adapter is read again,
\* the display shows the reading, whatever has changed in the calls that
\* returned before setNewBatteryState.
DisplayCatchesUp == adapterRead => drawn = reading

\* What the percentage has moved since measurement k, in the direction it should.
Gain(k) == IF lastIsCharging THEN values[0].pct - values[k].pct ELSE values[k].pct - values[0].pct

\* battery.c:662-663, while neither the adapter nor a battery is moved together
\* with the percentage and the gauge does not bounce: an estimate is never taken from
\* equal percentages, and never from a difference of the wrong sign that the
\* u_int8 would hide; each measurement counts for a percent at least.
RealDifference ==
  gauge = "apart" /\ valueIndex \notin {NONE, 0} =>
    /\ Gain(valueIndex) >= valueIndex
    /\ DiffPercentage(values, valueIndex, lastIsCharging) = Gain(valueIndex)
=============================================================================
