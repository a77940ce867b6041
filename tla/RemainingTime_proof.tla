------------------------ MODULE RemainingTime_proof ------------------------
(***************************************************************************)
(* Theorems about the remaining time: the array with its 8-bit index is a  *)
(* sliding window, the display catches up, and an estimate is taken from a *)
(* difference of the right sign, for every depth, clock and battery.       *)
(***************************************************************************)
EXTENDS RemainingTime, SequenceTheorems, TLAPS

Measurements == [pct : Percents, time : Times]

----------------------------------------------------------------------------
(* Operators *)

LEMMA PercentsAreInt == \A p \in Percents : p \in Int /\ p \in Nat /\ p \in 0 .. 255 /\ 100 - p \in Int
BY WindowAssumption

LEMMA TimesAreNat == \A t \in Times : t \in Nat /\ t < U32
BY WindowAssumption DEF Times

LEMMA IndexStays ==
  ASSUME valueIndex \in Slots \cup {NONE}
  PROVE  /\ NextIndex \in Slots
         /\ valueIndex = NONE => NextIndex = 0
         /\ valueIndex # NONE => NextIndex = IF valueIndex + 1 < Depth THEN valueIndex + 1 ELSE Depth - 1
BY WindowAssumption DEF NextIndex, Byte, Slots, NONE

LEMMA DivisionIsNat == \A n \in Nat, d \in Nat \ {0} : n \div d \in Nat
OBVIOUS

LEMMA ProductIsNat == \A m, n \in Nat : m * n \in Nat
OBVIOUS

LEMMA Words ==
  /\ \A n \in Int : Word32(n) \in Nat /\ Word16(n) \in 0 .. U16 - 1
  /\ \A n \in Nat : (n < U32 => Word32(n) = n) /\ (n < U16 => Word16(n) = n)
<1>1. U32 \in Nat /\ U32 > 0 /\ U16 \in Nat /\ U16 > 0
  BY WindowAssumption
<1>2. \A n \in Int, m \in Nat : m > 0 => n % m \in 0 .. m - 1
  OBVIOUS
<1>3. \A n, m \in Nat : n < m => n % m = n
  OBVIOUS
<1> QED BY <1>1, <1>2, <1>3 DEF Word32, Word16

LEMMA Bytes ==
  /\ \A n \in Int : Byte(n) \in 0 .. 255
  /\ \A n \in 0 .. 255 : Byte(n) = n
  /\ \A n \in -255 .. 255 : Byte(n) = 0 <=> n = 0
BY DEF Byte

LEMMA ByteDifferences ==
  /\ \A a, b \in 0 .. 255 : a - b \in Int /\ a - b \in -255 .. 255
  /\ \A a \in 0 .. 255 : a \in Int /\ a <= 255 /\ 100 - a \in Int /\ 100 - a <= 255
<1>1. \A a, b \in 0 .. 255 : a - b \in Int /\ a - b \in -255 .. 255
  OBVIOUS
<1>2. \A a \in 0 .. 255 : a \in Int /\ a <= 255
  OBVIOUS
<1>3. \A a \in 0 .. 255 : 100 - a \in Int /\ 100 - a <= 255
  OBVIOUS
<1> QED BY <1>1, <1>2, <1>3, Zenon

\* The two measurements an estimate is taken from, as numbers
LEMMA TwoMeasurements ==
  ASSUME NEW v \in [Slots -> Measurements], NEW i \in Slots
  PROVE  /\ v[0].pct \in 0 .. 255 /\ v[i].pct \in 0 .. 255
         /\ v[0].time \in Nat /\ v[i].time \in Nat /\ v[0].time < U32 /\ v[i].time < U32
<1>1. 0 \in Slots
  BY WindowAssumption DEF Slots
<1>2. v[0] \in Measurements /\ v[i] \in Measurements
  BY <1>1
<1>3. v[0].pct \in Percents /\ v[i].pct \in Percents /\ v[0].time \in Times /\ v[i].time \in Times
  BY <1>2 DEF Measurements
<1> QED BY <1>3, PercentsAreInt, TimesAreNat

\* what is left to lose or to gain is an int, negative above 100 percent
LEMMA LeftIsInt ==
  ASSUME percentage' \in Percents
  PROVE  Left \in Int /\ Left <= 255
<1>1. percentage' \in 0 .. 255
  BY PercentsAreInt
<1>2. /\ percentage' \in Int /\ percentage' <= 255
      /\ 100 - percentage' \in Int /\ 100 - percentage' <= 255
  BY <1>1, ByteDifferences, Zenon
<1>3. Left = 100 - percentage' \/ Left = percentage'
  BY DEF Left
<1> QED BY <1>2, <1>3, Zenon

LEMMA SecondsAreNat ==
  ASSUME NEW v \in [Slots -> Measurements], NEW i \in Slots,
         percentage' \in Percents, ~Unknown(v, i)
  PROVE  /\ DiffPercentage(v, i, isCharging') \in 1 .. 255
         /\ RemainingSeconds(v, i) \in Nat
<1> DEFINE diff == DiffPercentage(v, i, isCharging')
           a == Word32(v[0].time - v[i].time)
           b == Word32(Left)
<1>1. diff \in 0 .. 255 /\ diff # 0
  <2>1. v[0].pct - v[i].pct \in Int /\ v[i].pct - v[0].pct \in Int
    <3>1. v[0].pct \in 0 .. 255 /\ v[i].pct \in 0 .. 255
      BY TwoMeasurements
    <3> QED BY <3>1, ByteDifferences, Zenon
  <2>2. diff = Byte(v[0].pct - v[i].pct) \/ diff = Byte(v[i].pct - v[0].pct)
    BY DEF DiffPercentage
  <2>3. diff \in 0 .. 255
    <3> HIDE DEF diff
    <3> QED BY <2>1, <2>2, Bytes
  <2> QED BY <2>3 DEF Unknown
<1>2. a \in Nat /\ b \in Nat
  <2>1. v[0].time - v[i].time \in Int
    BY TwoMeasurements
  <2> QED BY <2>1, LeftIsInt, Words
<1> HIDE DEF diff, a, b
<1>3. Word32(a * b) \in Nat
  <2>1. a * b \in Int
    BY <1>2, ProductIsNat
  <2> QED BY <2>1, Words
<1>4. Word32(a * b) \div diff \in Nat
  <2>1. diff \in Nat \ {0}
    BY <1>1
  <2> QED BY <1>3, <2>1, DivisionIsNat
<1> QED BY <1>1, <1>4 DEF RemainingSeconds, diff, a, b

\* an estimate is what an u_int16 can hold
LEMMA RemainingIsWord ==
  ASSUME NEW v \in [Slots -> Measurements], NEW i \in Slots, percentage' \in Percents
  PROVE  Remaining(v, i) \in 0 .. U16 - 1
<1>1. CASE Unknown(v, i)
  BY <1>1, WindowAssumption DEF Remaining
<1>2. CASE ~Unknown(v, i)
  <2>1. RemainingSeconds(v, i) \in Nat
    BY <1>2, SecondsAreNat
  <2>2. Minute \in Nat \ {0}
    BY WindowAssumption
  <2>3. RemainingSeconds(v, i) \div Minute \in Int
    BY <2>1, <2>2, DivisionIsNat
  <2> QED BY <1>2, <2>3, Words DEF Remaining
<1> QED BY <1>1, <1>2

----------------------------------------------------------------------------
(* The array *)

LEMMA InitTime == Init => TypeOK
<1> SUFFICES ASSUME Init PROVE TypeOK
  OBVIOUS
<1>1. values \in [Slots -> [pct : Percents, time : Times]]
  BY WindowAssumption DEF Init, Times
<1>2. drawn \in Percents \X BOOLEAN \X (Counts \cup {0})
  BY WindowAssumption DEF Init, lasts
<1>3. 0 \in 0 .. U16 - 1 /\ 0 \in Percents /\ FALSE \in BOOLEAN /\ TRUE \in BOOLEAN /\ 0 \in 0 .. MaxCalls
  BY WindowAssumption
<1> QED BY <1>1, <1>2, <1>3, Zenon DEF Init, TypeOK

\* a measurement of the present in front of those of the past
LEMMA ShiftedTyped ==
  ASSUME TypeOK, NEW m \in Measurements, values' = Shifted(m), valueIndex' = NextIndex
  PROVE  values' \in [Slots -> Measurements] /\ valueIndex' \in Slots
<1>1. valueIndex' \in Slots
  BY IndexStays DEF TypeOK
<1>2. \A k \in Slots : k # 0 => k - 1 \in Slots
  BY WindowAssumption DEF Slots
<1>3. \A k \in Slots : (IF k = 0 THEN m ELSE values[k - 1]) \in Measurements
  BY <1>2 DEF TypeOK, Measurements
<1> QED BY <1>1, <1>3 DEF Shifted

----------------------------------------------------------------------------
(* The cases of a call of the updater *)

\* nothing has changed, or the file of the adapter is missing
Kept == UNCHANGED <<remainingTime, lasts, measured, drawn>>

\* setNewBatteryState takes the reading over and draws it
Shown ==
  /\ drawn' = reading' /\ firstRelevation' = FALSE
  /\ lastPercentage' = percentage' /\ lastChargingState' = isCharging'
  /\ lastBatterySum' = batterySum'

Blanked == remainingTime' = 0 /\ UNCHANGED measured

Restarted ==
  lastIsCharging' = isCharging' /\ valueIndex' = NONE /\ remainingTime' = 0 /\ UNCHANGED values

Taken ==
  /\ values' = Shifted([pct |-> percentage', time |-> Word32(secondsCounter')])
  /\ valueIndex' = NextIndex
  /\ remainingTime' = Remaining(values', valueIndex')
  /\ UNCHANGED lastIsCharging

LEMMA ReadingTyped ==
  ASSUME TypeOK, Updater
  PROVE  /\ secondsCounter' \in Times /\ calls' \in 0 .. MaxCalls
         /\ Word32(secondsCounter') = secondsCounter'
         /\ percentage' \in Percents /\ isCharging' \in BOOLEAN /\ batterySum' \in Counts
         /\ gauge' = gauge /\ adapterRead' \in BOOLEAN
<1>1. secondsCounter' \in Times /\ calls' \in 0 .. MaxCalls
  BY WindowAssumption DEF Updater, ClockMoves, TypeOK
<1>4. Word32(secondsCounter') = secondsCounter'
  BY <1>1, TimesAreNat, Words
<1>2. percentage' \in Percents /\ isCharging' \in BOOLEAN /\ batterySum' \in Counts /\ gauge' = gauge
  BY DEF Updater, Reading
<1>3. adapterRead' \in BOOLEAN
  BY DEF Updater
<1> QED BY <1>1, <1>2, <1>3, <1>4

LEMMA StateCases ==
  ASSUME NEW changed \in BOOLEAN, SetState(changed)
  PROVE  Kept \/ (Shown /\ (Blanked \/ Restarted \/ Taken))
BY Zenon DEF SetState, estimatedTimeClock, SourceChanged, Kept, Shown, Blanked, Restarted, Taken

LEMMA UpdaterCases ==
  ASSUME TypeOK, Updater
  PROVE  /\ firstRelevation' \in BOOLEAN
         /\ Kept \/ (Shown /\ (Blanked \/ Restarted \/ Taken))
<1>1. CASE setNewBatteryState
  <2> DEFINE changed == \/ lastChargingState # isCharging' \/ lastBatterySum # batterySum'
                        \/ lastPercentage # percentage'
  <2>1. changed \in BOOLEAN /\ SetState(changed)
    BY <1>1 DEF setNewBatteryState
  <2> HIDE DEF changed
  <2>2. firstRelevation' \in BOOLEAN
    BY <2>1, Zenon DEF SetState, TypeOK
  <2> QED BY <2>1, <2>2, StateCases
<1>2. CASE NoAdapterFile
  BY <1>2 DEF NoAdapterFile, Kept, TypeOK
<1> QED BY <1>1, <1>2 DEF Updater

LEMMA StepTime == TypeOK /\ [Updater]_vars => TypeOK'
<1>1. CASE UNCHANGED vars
  BY <1>1 DEF TypeOK, vars, reading, lasts, measured
<1>2. ASSUME TypeOK, Updater PROVE TypeOK'
  <2> DEFINE Rest == /\ secondsCounter' \in Times /\ calls' \in 0 .. MaxCalls
                     /\ percentage' \in Percents
                     /\ isCharging' \in BOOLEAN /\ batterySum' \in Counts
                     /\ gauge' \in Gauges /\ adapterRead' \in BOOLEAN
                     /\ firstRelevation' \in BOOLEAN
             Past == /\ lastPercentage' \in Percents /\ lastChargingState' \in BOOLEAN
                     /\ lastBatterySum' \in Counts \cup {0}
                     /\ drawn' \in Percents \X BOOLEAN \X (Counts \cup {0})
             Array == /\ remainingTime' \in 0 .. U16 - 1
                      /\ values' \in [Slots -> [pct : Percents, time : Times]]
                      /\ valueIndex' \in Slots \cup {NONE} /\ lastIsCharging' \in BOOLEAN
  <2>1. Rest
    BY <1>2, ReadingTyped, UpdaterCases DEF TypeOK
  <2>2. Kept => Past
    BY <1>2 DEF Kept, lasts, TypeOK
  <2>3. Shown => Past
    BY <2>1 DEF Shown, reading
  <2>4. 0 \in 0 .. U16 - 1
    BY WindowAssumption
  <2>5. Kept \/ Blanked => Array
    BY <1>2, <2>4, Zenon DEF Kept, Blanked, TypeOK, measured
  <2>6. Restarted => Array
    BY <1>2, <2>1, <2>4 DEF Restarted, TypeOK
  <2>7. Taken => Array
    <3> SUFFICES ASSUME Taken PROVE Array
      OBVIOUS
    <3>1. [pct |-> percentage', time |-> Word32(secondsCounter')] \in Measurements
      BY <1>2, ReadingTyped DEF Measurements
    <3>2. values' \in [Slots -> Measurements] /\ valueIndex' \in Slots
      BY <1>2, <3>1, ShiftedTyped DEF Taken
    <3>3. Remaining(values', valueIndex') \in 0 .. U16 - 1
      BY <2>1, <3>2, RemainingIsWord
    <3> QED BY <1>2, <3>2, <3>3, Zenon DEF Taken, TypeOK, Measurements
  <2>8. Past /\ Array
    BY <1>2, <2>2, <2>3, <2>5, <2>6, <2>7, UpdaterCases
  <2> QED BY <2>1, <2>8 DEF TypeOK
<1> QED BY <1>1, <1>2

\* Every variable keeps its type, although the clock may be set back: the 8-bit
\* index stays a slot or the mark ~0, and an estimate fits in its 16 bits.
THEOREM TimeTypes == Spec => []TypeOK
BY InitTime, StepTime, PTL DEF Spec

----------------------------------------------------------------------------
(* The display *)

\* What is drawn is what setNewBatteryState has kept of its last reading.
Showing == drawn = lasts /\ DisplayCatchesUp

\* Once the file of the adapter is read, the reading of this very call is shown.
THEOREM CatchesUp == Spec => []DisplayCatchesUp
<1>1. Init => Showing
  BY DEF Init, Showing, DisplayCatchesUp
<1>2. Showing /\ [Updater]_vars => Showing'
  <2>1. CASE UNCHANGED vars
    BY <2>1 DEF Showing, DisplayCatchesUp, vars, reading, lasts
  <2>2. ASSUME Showing, Updater PROVE Showing'
    <3> DEFINE changed == \/ lastChargingState # isCharging' \/ lastBatterySum # batterySum'
                          \/ lastPercentage # percentage'
    <3>1. CASE setNewBatteryState /\ changed
      <4>1. drawn' = reading' /\ lasts' = reading'
        BY <3>1 DEF setNewBatteryState, SetState, lasts, reading
      <4> QED BY <4>1 DEF Showing, DisplayCatchesUp
    <3>2. CASE setNewBatteryState /\ ~changed
      <4>1. lasts' = lasts /\ drawn' = drawn
        BY <3>2 DEF setNewBatteryState, SetState
      <4>2. reading' = lasts
        BY <3>2 DEF reading, lasts
      <4> QED BY <2>2, <4>1, <4>2 DEF Showing, DisplayCatchesUp
    <3>3. CASE ~adapterRead' /\ NoAdapterFile
      BY <2>2, <3>3 DEF Showing, DisplayCatchesUp, NoAdapterFile
    <3> QED BY <2>2, <3>1, <3>2, <3>3 DEF Updater
  <2> QED BY <2>1, <2>2
<1>3. Showing => DisplayCatchesUp
  BY DEF Showing
<1> QED BY <1>1, <1>2, <1>3, PTL DEF Spec

----------------------------------------------------------------------------
(* The sliding window *)

LEMMA Prefix ==
  ASSUME NEW S, NEW seq \in Seq(S), NEW n \in 1 .. Len(seq)
  PROVE  /\ SubSeq(seq, 1, n) \in Seq(S) /\ Len(SubSeq(seq, 1, n)) = n
         /\ \A k \in 1 .. n : SubSeq(seq, 1, n)[k] = seq[k]
<1>1. n \in Int /\ n >= 1 /\ Len(seq) \in Nat /\ \A k \in 1 .. n : k \in 1 .. Len(seq) /\ seq[k] \in S
  BY LenProperties
<1>2. SubSeq(seq, 1, n) = [k \in 1 .. n |-> seq[k]]
  BY <1>1
<1> QED BY <1>1, <1>2

\* the valid measurements are a sequence, newest first
LEMMA WindowShape ==
  ASSUME NEW v \in [Slots -> Measurements], NEW i \in Slots
  PROVE  /\ Window(v, i) \in Seq(Measurements)
         /\ Len(Window(v, i)) = i + 1
         /\ \A k \in 1 .. i + 1 : Window(v, i)[k] = v[k - 1]
<1>1. i # NONE /\ i \in Nat /\ i < Depth /\ Depth \in Nat
  BY WindowAssumption DEF Slots, NONE
<1>2. Window(v, i) = [k \in 1 .. i + 1 |-> v[k - 1]]
  BY <1>1 DEF Window
<1>3. \A k \in 1 .. i + 1 : k - 1 \in Slots /\ v[k - 1] \in Measurements
  BY <1>1 DEF Slots
<1> QED BY <1>1, <1>2, <1>3

\* the shift loop puts a measurement in front of the window and drops the oldest
LEMMA ShiftMovesWindow ==
  ASSUME TypeOK, NEW m \in Measurements, values' = Shifted(m),
         values' \in [Slots -> Measurements], valueIndex' = NextIndex
  PROVE  LET w == Window(values, valueIndex)
         IN  Window(values', valueIndex')
               = SubSeq(<<m>> \o w, 1, IF Len(w) < Depth THEN Len(w) + 1 ELSE Depth)
<1> DEFINE w == Window(values, valueIndex)
           L == IF Len(w) < Depth THEN Len(w) + 1 ELSE Depth
           n == Window(values', valueIndex')
           s == SubSeq(<<m>> \o w, 1, L)
<1>1. Depth \in Nat /\ Depth >= 2 /\ NextIndex \in Slots
  BY WindowAssumption, IndexStays DEF TypeOK
<1>2. /\ n \in Seq(Measurements) /\ Len(n) = NextIndex + 1
      /\ \A k \in 1 .. NextIndex + 1 : n[k] = values'[k - 1]
  BY <1>1, WindowShape
<1>3. w \in Seq(Measurements) /\ Len(w) \in Nat /\ L = NextIndex + 1 /\ L <= Len(w) + 1
  <2>1. CASE valueIndex = NONE
    <3>1. w = <<>> /\ Len(w) = 0
      BY <2>1, EmptySeq DEF Window
    <3> QED BY <1>1, <2>1, <3>1, IndexStays, EmptySeq DEF TypeOK
  <2>2. CASE valueIndex # NONE
    <3>1. valueIndex \in Slots /\ w \in Seq(Measurements) /\ Len(w) = valueIndex + 1
      BY <2>2, WindowShape DEF TypeOK, Measurements
    <3>2. valueIndex \in Nat /\ valueIndex < Depth
      BY <1>1, <3>1 DEF Slots
    <3> QED BY <1>1, <2>2, <3>1, <3>2, IndexStays
  <2> QED BY <2>1, <2>2
<1>4. \A k \in 1 .. Len(w) : valueIndex \in Slots /\ w[k] = values[k - 1]
  <2>1. CASE valueIndex = NONE
    BY <2>1, EmptySeq DEF Window
  <2>2. CASE valueIndex # NONE
    BY <2>2, WindowShape DEF TypeOK, Measurements
  <2> QED BY <2>1, <2>2
<1>5. <<m>> \in Seq(Measurements) /\ Len(<<m>>) = 1 /\ <<m>>[1] = m
  OBVIOUS
<1> HIDE DEF w, n
<1>6. /\ <<m>> \o w \in Seq(Measurements) /\ Len(<<m>> \o w) = Len(w) + 1
      /\ \A k \in 1 .. Len(w) + 1 : (<<m>> \o w)[k] = IF k <= 1 THEN m ELSE w[k - 1]
  BY <1>3, <1>5, ConcatProperties
<1> HIDE DEF L
<1>7. /\ s \in Seq(Measurements) /\ Len(s) = L
      /\ \A k \in 1 .. L : s[k] = (<<m>> \o w)[k]
  <2>1. L \in Nat /\ L >= 1
    BY <1>1, <1>3 DEF Slots
  <2> QED BY <1>3, <1>6, <2>1, Prefix
<1> HIDE DEF s
<1>8. \A k \in 1 .. L : n[k] = s[k]
  <2> SUFFICES ASSUME NEW k \in 1 .. L PROVE n[k] = s[k]
    OBVIOUS
  <2>1. k - 1 \in Slots /\ n[k] = values'[k - 1] /\ k \in 1 .. Len(w) + 1
    BY <1>1, <1>2, <1>3 DEF Slots
  <2>2. values'[k - 1] = IF k - 1 = 0 THEN m ELSE values[k - 2]
    <3>1. values'[k - 1] = IF k - 1 = 0 THEN m ELSE values[(k - 1) - 1]
      BY <2>1 DEF Shifted
    <3> QED BY <3>1
  <2>3. CASE k = 1
    BY <1>6, <1>7, <2>1, <2>2, <2>3
  <2>4. CASE k # 1
    <3>1. k - 1 \in 1 .. Len(w) /\ k > 1
      BY <1>3, <2>1, <2>4
    <3>2. w[k - 1] = values[k - 2]
      BY <1>4, <3>1
    <3> QED BY <1>6, <1>7, <2>1, <2>2, <2>4, <3>1, <3>2
  <2> QED BY <2>3, <2>4
<1>9. n = s
  BY <1>2, <1>3, <1>7, <1>8, SeqEqual
<1> QED BY <1>9 DEF n, s, L, w

\* where the estimate of whole numbers fits, unsigned arithmetic gives it
LEMMA SensibleIsExact ==
  ASSUME NEW seconds \in Int, NEW points \in 1 .. 255, NEW left \in Int, left <= 255,
         seconds < U32, Promise!Sensible(seconds, points, left)
  PROVE  Word16((Word32(Word32(seconds) * Word32(left)) \div points) \div Minute)
           = ((seconds * left) \div points) \div Minute
<1>1. /\ seconds \in Nat /\ left \in Nat /\ seconds * left < U32
      /\ ((seconds * left) \div points) \div Minute < U16
  BY DEF Promise!Sensible
<1>2. Word32(seconds) = seconds /\ Word32(left) = left
  <2>1. left < U32
    BY WindowAssumption
  <2> QED BY <1>1, <2>1, Words
<1> DEFINE p == seconds * left
<1>3. p \in Nat /\ p < U32
  BY <1>1, ProductIsNat
<1> HIDE DEF p
<1>4. Word32(p) = p
  BY <1>3, Words
<1>5. p \div points \in Nat
  BY <1>3, DivisionIsNat
<1>6. (p \div points) \div Minute \in Nat
  BY <1>5, WindowAssumption, DivisionIsNat
<1>7. Word16((p \div points) \div Minute) = (p \div points) \div Minute
  BY <1>1, <1>6, Words DEF p
<1> QED BY <1>2, <1>4, <1>7, Zenon DEF p

\* the estimate is one the window promises
LEMMA EstimateIsPromised ==
  ASSUME NEW v \in [Slots -> Measurements], NEW i \in Slots,
         v[0].pct = percentage', percentage' \in Percents, isCharging' \in BOOLEAN
  PROVE  Remaining(v, i) \in Promise!Estimates(Window(v, i), isCharging')
<1> DEFINE w == Window(v, i)
           seconds == v[0].time - v[i].time
           points == IF isCharging' THEN v[0].pct - v[i].pct ELSE v[i].pct - v[0].pct
           left == IF isCharging' THEN 100 - v[0].pct ELSE v[0].pct
           Whole == ((seconds * left) \div points) \div Minute
<1>1. i \in Nat /\ 1 \in 1 .. i + 1 /\ i + 1 \in 1 .. i + 1 /\ 1 - 1 = 0 /\ (i + 1) - 1 = i
  BY DEF Slots
<1>2. Len(w) = i + 1 /\ w[1] = v[0] /\ w[Len(w)] = v[i]
  BY <1>1, WindowShape
<1> HIDE DEF w
<1>3. (Len(w) < 2) <=> i = 0
  BY <1>1, <1>2
<1>4. seconds \in Int /\ seconds < U32
  <2>1. v[0].time \in Nat /\ v[i].time \in Nat /\ v[0].time < U32 /\ U32 \in Nat
    BY TwoMeasurements, WindowAssumption
  <2> QED BY <2>1
<1>5. points \in -255 .. 255
  <2>1. v[0].pct - v[i].pct \in -255 .. 255 /\ v[i].pct - v[0].pct \in -255 .. 255
    <3>1. v[0].pct \in 0 .. 255 /\ v[i].pct \in 0 .. 255
      BY TwoMeasurements
    <3> QED BY <3>1, ByteDifferences, Zenon
  <2> QED BY <2>1
<1>6. left = Left /\ left \in Int /\ left <= 255
  BY LeftIsInt DEF Left
<1>7. DiffPercentage(v, i, isCharging') = Byte(points)
  BY DEF DiffPercentage
<1>8. Remaining(v, i) \in 0 .. U16 - 1
  BY RemainingIsWord
<1>9. Promise!Estimates(w, isCharging')
        = IF Len(w) < 2 \/ points = 0 THEN {0}
          ELSE IF Promise!Sensible(seconds, points, left) THEN {Whole} ELSE 0 .. U16 - 1
  BY <1>2, Zenon DEF Promise!Estimates
<1> HIDE DEF points, seconds, left, Whole
<1>10. Unknown(v, i) <=> (Len(w) < 2 \/ points = 0)
  BY <1>3, <1>5, <1>7, Bytes DEF Unknown
<1> DEFINE Promised == Promise!Estimates(w, isCharging')
<1> HIDE DEF Promised
<1>14. /\ Unknown(v, i) => Promised = {0}
       /\ ~Unknown(v, i) /\ Promise!Sensible(seconds, points, left) => Promised = {Whole}
       /\ ~Unknown(v, i) /\ ~Promise!Sensible(seconds, points, left) => Promised = 0 .. U16 - 1
  BY <1>9, <1>10, Zenon DEF Promised
<1>11. CASE Unknown(v, i)
  <2>1. Remaining(v, i) = 0
    BY <1>11, Zenon DEF Remaining
  <2> QED BY <1>11, <1>14, <2>1, Zenon DEF Promised, w
<1>12. CASE ~Unknown(v, i) /\ Promise!Sensible(seconds, points, left)
  <2>1. points \in 1 .. 255 /\ Byte(points) = points
    BY <1>5, <1>12, Bytes DEF Promise!Sensible
  <2>2. RemainingSeconds(v, i) = Word32(Word32(seconds) * Word32(left)) \div points
    BY <1>6, <1>7, <2>1 DEF RemainingSeconds, seconds
  <2>3. Word16((Word32(Word32(seconds) * Word32(left)) \div points) \div Minute) = Whole
    BY <1>4, <1>6, <1>12, <2>1, SensibleIsExact DEF Whole
  <2>4. Remaining(v, i) = Whole
    BY <1>12, <2>2, <2>3, Zenon DEF Remaining
  <2> QED BY <1>12, <1>14, <2>4, Zenon DEF Promised, w
<1>13. CASE ~Unknown(v, i) /\ ~Promise!Sensible(seconds, points, left)
  <2> QED BY <1>8, <1>13, <1>14, Zenon DEF Promised, w
<1> QED BY <1>11, <1>12, <1>13

\* The array with its shift loop, its 8-bit index and its unsigned arithmetic implement
\* the window, and the promised estimate wherever that is a time that fits.
THEOREM WindowImplemented == Spec => ImplementsWindow
<1> DEFINE w == Window(values, valueIndex)
<1>1. Init => Promise!Init
  BY DEF Init, Promise!Init, Window
<1>2. TypeOK /\ [Updater]_vars => [Promise!Next]_<<w, remainingTime>>
  <2>1. CASE UNCHANGED vars
    BY <2>1 DEF vars, measured, Window
  <2>2. ASSUME TypeOK, Updater PROVE [Promise!Next]_<<w, remainingTime>>
    <3>2. CASE Kept
      BY <3>2 DEF Kept, measured, Window
    <3>3. CASE Blanked
      BY <3>3 DEF Blanked, measured, Window, Promise!Next, Promise!Blank
    <3>4. CASE Restarted
      BY <3>4 DEF Restarted, Window, Promise!Next, Promise!Restart
    <3>5. CASE Taken
      <4> DEFINE m == [pct |-> percentage', time |-> Word32(secondsCounter')]
      <4>1. m \in Promise!Measurement /\ m \in Measurements /\ isCharging' \in BOOLEAN
        BY <2>2, ReadingTyped DEF Promise!Measurement, Measurements
      <4>2. values' = Shifted(m) /\ valueIndex' = NextIndex /\ remainingTime' = Remaining(values', valueIndex')
        BY <3>5 DEF Taken
      <4>3. values' \in [Slots -> Measurements] /\ valueIndex' \in Slots
        BY <2>2, <4>2, <4>1, ShiftedTyped
      <4>4. values'[0] = m
        <5>1. 0 \in Slots
          BY WindowAssumption DEF Slots
        <5> QED BY <4>2, <5>1 DEF Shifted
      <4>5. w' = SubSeq(<<m>> \o w, 1, IF Len(w) < Depth THEN Len(w) + 1 ELSE Depth)
        <5> HIDE DEF m
        <5> QED BY <2>2, <4>1, <4>2, <4>3, ShiftMovesWindow
      <4>6. remainingTime' \in Promise!Estimates(w', isCharging')
        BY <2>2, <4>2, <4>3, <4>4, ReadingTyped, EstimateIsPromised
      <4>7. Promise!Measure(m, isCharging')
        BY <4>5, <4>6 DEF Promise!Measure
      <4> QED BY <4>1, <4>7 DEF Promise!Next
    <3> QED BY <2>2, <3>2, <3>3, <3>4, <3>5, UpdaterCases
  <2> QED BY <2>1, <2>2
<1> QED BY <1>1, <1>2, InitTime, StepTime, PTL DEF Spec, ImplementsWindow, Promise!Spec

----------------------------------------------------------------------------
(* The difference an estimate is taken from *)

\* After the first reading the last readings are the present ones.
UpToDate ==
  \/ firstRelevation /\ valueIndex = NONE
  \/ ~firstRelevation /\ lasts = reading

\* Every measurement was one percent further than the one before.
Monotone ==
  gauge = "apart" =>
    /\ UpToDate
    /\ valueIndex # NONE =>
         values[0].pct = percentage /\ \A k \in 0 .. valueIndex : Gain(k) >= k

LEMMA MonotoneSuffices == TypeOK /\ Monotone => RealDifference
<1> SUFFICES ASSUME TypeOK, Monotone, gauge = "apart", valueIndex \notin {NONE, 0}
             PROVE  /\ Gain(valueIndex) >= valueIndex
                    /\ DiffPercentage(values, valueIndex, lastIsCharging) = Gain(valueIndex)
  BY DEF RealDifference
<1>1. valueIndex \in Slots /\ valueIndex \in Nat /\ valueIndex \in 0 .. valueIndex
  BY WindowAssumption DEF TypeOK, Slots
<1>2. values[0].pct \in 0 .. 255 /\ values[valueIndex].pct \in 0 .. 255
  BY <1>1, TwoMeasurements DEF TypeOK, Measurements
<1>3. Gain(valueIndex) >= valueIndex
  BY <1>1 DEF Monotone
<1>4. DiffPercentage(values, valueIndex, lastIsCharging) = Byte(Gain(valueIndex))
  BY DEF DiffPercentage, Gain
<1>5. Gain(valueIndex) \in 0 .. 255
  <2> DEFINE a == values[0].pct
             b == values[valueIndex].pct
             g == Gain(valueIndex)
  <2>1. g = a - b \/ g = b - a
    BY DEF Gain
  <2>2. a \in 0 .. 255 /\ b \in 0 .. 255 /\ g >= valueIndex /\ valueIndex >= 0
    BY <1>1, <1>2, <1>3
  <2> HIDE DEF a, b, g
  <2>3. g \in 0 .. 255
    BY <1>1, <2>1, <2>2
  <2> QED BY <2>3 DEF g
<1> QED BY <1>3, <1>4, <1>5, Bytes

LEMMA StepMonotone ==
  ASSUME TypeOK, Monotone, Updater, gauge = "apart"
  PROVE  Monotone'
<1>1. TypeOK /\ UpToDate
  BY DEF Monotone
<1>2. setNewBatteryState
  BY DEF Updater, NoAdapterFile
<1>3. /\ percentage' = percentage - 1 \/ percentage' = percentage \/ percentage' = percentage + 1
      /\ isCharging' => percentage' >= percentage
      /\ ~isCharging' => percentage' <= percentage
      /\ percentage' # percentage => isCharging' = isCharging /\ batterySum' = batterySum
  <2>1. /\ isCharging' => percentage' >= percentage
        /\ ~isCharging' => percentage' <= percentage
        /\ percentage' # percentage => isCharging' = isCharging /\ batterySum' = batterySum
        /\ percentage' - percentage \in -1 .. 1 \/ batterySum' # batterySum
    BY DEF Updater, Reading
  <2>2. percentage \in Int /\ percentage' \in Int
    BY <1>1, ReadingTyped, PercentsAreInt DEF TypeOK
  <2>3. percentage' = percentage => percentage' - percentage \in -1 .. 1
    BY <2>2
  <2>4. \A a, b \in Int : a - b \in -1 .. 1 => a = b - 1 \/ a = b \/ a = b + 1
    OBVIOUS
  <2>5. percentage' - percentage \in -1 .. 1
    BY <2>1, <2>3
  <2>6. percentage' = percentage - 1 \/ percentage' = percentage \/ percentage' = percentage + 1
    BY <2>2, <2>4, <2>5, Zenon
  <2> QED BY <2>1, <2>6
<1> DEFINE moved == lastChargingState # isCharging' \/ lastBatterySum # batterySum'
           changed == moved \/ lastPercentage # percentage'
<1>5. SetState(changed) /\ changed \in BOOLEAN
  BY <1>2 DEF setNewBatteryState
<1>6. CASE ~changed
  <2>1. UNCHANGED <<lasts, measured>> /\ firstRelevation' = (firstRelevation \/ moved) /\ ~moved
    BY <1>5, <1>6 DEF SetState
  <2>2. reading' = lasts
    BY <1>6 DEF reading, lasts
  <2>3. CASE firstRelevation /\ valueIndex = NONE
    BY <2>1, <2>3 DEF Monotone, UpToDate, measured
  <2>4. CASE ~firstRelevation /\ lasts = reading
    <3>1. reading' = reading /\ lasts' = reading' /\ ~firstRelevation'
      BY <2>1, <2>2, <2>4 DEF lasts
    <3>2. percentage' = percentage /\ UNCHANGED <<values, valueIndex, lastIsCharging>>
      BY <2>1, <3>1 DEF reading, measured
    <3> QED BY <3>1, <3>2 DEF Monotone, UpToDate, Gain
  <2> QED BY <1>1, <2>3, <2>4 DEF UpToDate
<1>7. CASE changed
  <2>1. UpToDate'
    BY <1>5, <1>7 DEF SetState, UpToDate, lasts, reading
  <2>2. CASE (firstRelevation \/ moved) /\ UNCHANGED measured
    <3>1. valueIndex # NONE => percentage' = percentage
      BY <1>1, <1>3, <2>2 DEF UpToDate, lasts, reading
    <3> QED BY <2>1, <2>2, <3>1 DEF Monotone, Gain, measured
  <2>3. CASE ~(firstRelevation \/ moved) /\ estimatedTimeClock /\ SourceChanged
    BY <2>1, <2>3 DEF estimatedTimeClock, Monotone
  <2>4. CASE ~(firstRelevation \/ moved) /\ estimatedTimeClock /\ ~SourceChanged
    <3>1. /\ values' = Shifted([pct |-> percentage', time |-> Word32(secondsCounter')])
          /\ valueIndex' = NextIndex /\ lastIsCharging' = lastIsCharging
          /\ lastIsCharging = isCharging'
      BY <2>4 DEF estimatedTimeClock, SourceChanged
    <3>2. percentage # percentage'
      BY <1>1, <1>7, <2>4 DEF UpToDate, lasts, reading
    <3>3. percentage \in Int /\ percentage' \in Int /\ isCharging' \in BOOLEAN
      BY <1>1, ReadingTyped, PercentsAreInt DEF TypeOK
    <3>4. IF lastIsCharging THEN percentage' = percentage + 1 ELSE percentage' = percentage - 1
      BY <1>3, <3>1, <3>2, <3>3
    <3>5. valueIndex' \in Slots /\ 0 \in Slots /\ values'[0].pct = percentage'
      BY <1>1, <3>1, IndexStays, WindowAssumption DEF Shifted, Slots, TypeOK
    <3>6. \A k \in 0 .. valueIndex' : Gain(k)' >= k
      <4> SUFFICES ASSUME NEW k \in 0 .. valueIndex' PROVE Gain(k)' >= k
        OBVIOUS
      <4>1. Gain(k)' = IF lastIsCharging THEN percentage' - values'[k].pct ELSE values'[k].pct - percentage'
        BY <3>1, <3>5 DEF Gain
      <4>2. CASE k = 0
        BY <3>3, <3>5, <4>1, <4>2
      <4>3. CASE k # 0
        <5>1. k \in Slots /\ values'[k] = values[k - 1]
          <6>1. k \in Slots
            BY <3>5, WindowAssumption DEF Slots
          <6> QED BY <3>1, <4>3, <6>1 DEF Shifted
        <5>2. valueIndex # NONE /\ k - 1 \in 0 .. valueIndex /\ k - 1 \in Slots
          <6>1. valueIndex # NONE
            BY <1>1, <3>1, <4>3, IndexStays DEF TypeOK
          <6>2. valueIndex \in Int /\ Depth \in Int /\ valueIndex' \in Int /\ valueIndex' <= valueIndex + 1
            BY <1>1, <3>1, <6>1, IndexStays, WindowAssumption DEF TypeOK, Slots
          <6>3. k \in Int /\ k >= 1 /\ k <= valueIndex' /\ k < Depth
            BY <3>5, <4>3, <5>1, WindowAssumption DEF Slots
          <6> QED BY <6>1, <6>2, <6>3 DEF Slots
        <5>3. Gain(k - 1) >= k - 1 /\ values[0].pct = percentage
          BY <5>2 DEF Monotone
        <5>4. Gain(k - 1) = IF lastIsCharging THEN percentage - values[k - 1].pct ELSE values[k - 1].pct - percentage
          BY <5>3 DEF Gain
        <5>5. values[k - 1].pct \in Int
          BY <1>1, <5>2, PercentsAreInt DEF TypeOK
        <5> QED BY <3>3, <3>4, <4>1, <5>1, <5>3, <5>4, <5>5
      <4> QED BY <4>2, <4>3
    <3> QED BY <2>1, <3>5, <3>6 DEF Monotone
  <2> QED BY <1>5, <1>7, <2>2, <2>3, <2>4 DEF SetState
<1> QED BY <1>6, <1>7

\* With a gauge that moves with the adapter alone an estimate is never divided by
\* zero, by a difference of the wrong sign or by one below the number of its steps.
THEOREM DifferenceIsReal == Spec => []RealDifference
<1>1. Init => Monotone
  BY DEF Init, Monotone, UpToDate
<1>2. TypeOK /\ Monotone /\ [Updater]_vars => Monotone'
  <2>1. CASE UNCHANGED vars
    BY <2>1 DEF vars, reading, lasts, measured, Monotone, UpToDate, Gain
  <2>2. CASE gauge # "apart" /\ Updater
    BY <2>2 DEF Updater, Reading, Monotone
  <2> QED BY <2>1, <2>2, StepMonotone
<1> QED BY <1>1, <1>2, MonotoneSuffices, InitTime, StepTime, PTL DEF Spec
=============================================================================
