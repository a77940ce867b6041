--------------------------- MODULE Display_proof ---------------------------
(***************************************************************************)
(* Theorems about the display: the load is the true one wherever the       *)
(* counters wrap, as long as the ints of getCpuLoad hold it, and what fits *)
(* into the dockapp can be read from it as it was drawn.                   *)
(***************************************************************************)
EXTENDS Display, FiniteSetTheorems, SequenceTheorems, TLAPS

----------------------------------------------------------------------------
(* The load *)

\* a number outside the ints comes back a whole turn away
LEMMA Turns ==
  /\ \A x \in -Wrap .. Wrap - 1 : Int32(x) = x
  /\ \A x \in Wrap .. 3 * Wrap - 1 : Int32(x) = x - 2 * Wrap
  /\ \A x \in -3 * Wrap .. -Wrap - 1 : Int32(x) = x + 2 * Wrap
<1> DEFINE W == 2 * Wrap
<1>1. W \in Nat \ {0}
  BY DisplayAssumption
<1>2. \A n \in Nat \ {0}, m \in Nat : m < n => m % n = m
  OBVIOUS
<1>3. \A n \in Nat \ {0}, m \in Int : m >= n /\ m < 2 * n => m % n = m - n
  OBVIOUS
<1>4. \A n \in Nat \ {0}, m \in Int : m >= -n /\ m < 0 => m % n = m + n
  OBVIOUS
<1>5. ASSUME NEW x \in -Wrap .. Wrap - 1 PROVE Int32(x) = x
  <2>1. x + Wrap \in Nat /\ x + Wrap < W
    BY DisplayAssumption
  <2>2. (x + Wrap) % W = x + Wrap
    BY <1>1, <1>2, <2>1
  <2> QED BY <2>2, DisplayAssumption DEF Int32
<1>6. ASSUME NEW x \in Wrap .. 3 * Wrap - 1 PROVE Int32(x) = x - 2 * Wrap
  <2>1. x + Wrap \in Int /\ x + Wrap >= W /\ x + Wrap < 2 * W
    BY DisplayAssumption
  <2>2. (x + Wrap) % W = (x + Wrap) - W
    BY <1>1, <1>3, <2>1, Zenon
  <2> QED BY <2>2, DisplayAssumption DEF Int32
<1>7. ASSUME NEW x \in -3 * Wrap .. -Wrap - 1 PROVE Int32(x) = x + 2 * Wrap
  <2>1. x + Wrap \in Int /\ x + Wrap >= -W /\ x + Wrap < 0
    BY DisplayAssumption
  <2>2. (x + Wrap) % W = x + Wrap + W
    BY <1>1, <1>4, <2>1, Zenon
  <2> QED BY <2>2, DisplayAssumption DEF Int32
<1> QED BY <1>5, <1>6, <1>7

LEMMA IntsAreInts == \A x \in Int : Int32(x) \in -Wrap .. Wrap - 1
<1>1. \A n \in Nat \ {0}, m \in Int : m % n \in 0 .. n - 1
  OBVIOUS
<1> TAKE x \in Int
<1>2. (x + Wrap) % (2 * Wrap) \in 0 .. (2 * Wrap) - 1
  <2>1. 2 * Wrap \in Nat \ {0} /\ x + Wrap \in Int
    BY DisplayAssumption
  <2> QED BY <1>1, <2>1, Zenon
<1> QED BY <1>2, DisplayAssumption DEF Int32

\* However a counter has wrapped, getCpuLoad finds how far it has moved.
LEMMA MovedIsTrue ==
  ASSUME NEW last \in -Wrap .. Wrap - 1, NEW d \in 0 .. Wrap - 1
  PROVE  Moved(Int32(last + d), last) = d
<1>1. CASE last + d < Wrap
  <2>1. Int32(last + d) = last + d
    BY <1>1, Turns, DisplayAssumption
  <2>2. Int32(d) = d
    BY Turns, DisplayAssumption
  <2> QED BY <1>1, <2>1, <2>2, DisplayAssumption DEF Moved
<1>2. CASE last + d >= Wrap
  <2>1. Int32(last + d) = last + d - 2 * Wrap
    BY <1>2, Turns, DisplayAssumption
  <2>2. Int32(d - 2 * Wrap) = d
    BY Turns, DisplayAssumption
  <2> QED BY <1>2, <2>1, <2>2, DisplayAssumption DEF Moved
<1> QED BY <1>1, <1>2, DisplayAssumption

\* What the counters have done since the last reading
LoadInv ==
  /\ loadstuff \in -Wrap .. Wrap - 1 /\ idle \in -Wrap .. Wrap - 1
  /\ lastloadstuff \in -Wrap .. Wrap - 1 /\ lastidle \in -Wrap .. Wrap - 1
  /\ busy \in Nat /\ free \in Nat /\ busy + free < 2 * Wrap
  /\ ~FirstReading => /\ loadstuff = Int32(lastloadstuff + busy)
                      /\ idle = Int32(lastidle + free)

\* Adding a few ticks to a counter that may have wrapped is adding them all.
LEMMA TicksAdd ==
  ASSUME NEW last \in -Wrap .. Wrap - 1, NEW d \in Nat, NEW t \in Nat, d + t < 2 * Wrap
  PROVE  Int32(Int32(last + d) + t) = Int32(last + (d + t))
<1>1. CASE last + d + t < Wrap
  BY <1>1, Turns, DisplayAssumption
<1>2. CASE last + d < Wrap /\ last + d + t >= Wrap
  BY <1>2, Turns, DisplayAssumption
<1>3. CASE last + d >= Wrap
  <2>1. Int32(last + d) = last + d - 2 * Wrap
    BY <1>3, Turns, DisplayAssumption
  <2>2. Int32(last + d - 2 * Wrap + t) = last + d - 2 * Wrap + t
    BY <1>3, Turns, DisplayAssumption
  <2>3. Int32(last + (d + t)) = last + (d + t) - 2 * Wrap
    BY <1>3, Turns, DisplayAssumption
  <2> QED BY <2>1, <2>2, <2>3, DisplayAssumption
<1> QED BY <1>1, <1>2, <1>3, DisplayAssumption

LEMMA InitLoad == Init => LoadInv
BY DisplayAssumption DEF Init, LoadInv, FirstReading

LEMMA StepLoad == LoadInv /\ [Next]_vars => LoadInv'
<1> SUFFICES ASSUME LoadInv, [Next]_vars PROVE LoadInv'
  OBVIOUS
<1> USE DEF LoadInv
<1>1. ASSUME NEW opened \in BOOLEAN, manageCpuLoad(opened) PROVE LoadInv'
  <2>1. CASE opened
    <3>1. /\ loadstuff' = loadstuff /\ idle' = idle /\ lastloadstuff' = loadstuff
          /\ lastidle' = idle /\ busy' = 0 /\ free' = 0
      BY <1>1, <2>1 DEF manageCpuLoad, counters
    <3>2. Int32(loadstuff + 0) = loadstuff /\ Int32(idle + 0) = idle
      BY Turns, DisplayAssumption
    <3> QED BY <3>1, <3>2, DisplayAssumption
  <2>2. CASE ~opened
    <3>1. UNCHANGED <<loadstuff, idle, lastloadstuff, lastidle, lastnice, busy, free>>
      BY <1>1, <2>2 DEF manageCpuLoad, counters, lasts, ticks
    <3> QED BY <3>1 DEF FirstReading
  <2> QED BY <2>1, <2>2
<1>2. ASSUME NEW t \in Ticks, Tick(t) PROVE LoadInv'
  <2>1. /\ t \in Nat /\ UNCHANGED <<lastloadstuff, lastidle, lastnice>>
        /\ busy + free + t < 2 * Wrap
    BY <1>2, DisplayAssumption DEF Tick, lasts
  <2>2. FirstReading' <=> FirstReading
    BY <2>1 DEF FirstReading
  <2>3. CASE loadstuff' = Int32(loadstuff + t) /\ busy' = busy + t /\ UNCHANGED <<idle, free>>
    <3>1. Int32(loadstuff + t) \in -Wrap .. Wrap - 1
      BY <2>1, IntsAreInts, DisplayAssumption
    <3>2. ~FirstReading => Int32(loadstuff + t) = Int32(lastloadstuff + (busy + t))
      <4>1. busy + t < 2 * Wrap
        BY <2>1, DisplayAssumption
      <4>2. Int32(Int32(lastloadstuff + busy) + t) = Int32(lastloadstuff + (busy + t))
        BY <2>1, <4>1, TicksAdd, Zenon
      <4> QED BY <4>2
    <3>3. ~FirstReading' => loadstuff' = Int32(lastloadstuff' + busy') /\ idle' = Int32(lastidle' + free')
      BY <2>1, <2>2, <2>3, <3>2
    <3>4. busy' \in Nat /\ free' \in Nat /\ busy' + free' < 2 * Wrap
      BY <2>1, <2>3, DisplayAssumption
    <3> QED BY <2>1, <2>3, <3>1, <3>3, <3>4
  <2>4. CASE idle' = Int32(idle + t) /\ free' = free + t /\ UNCHANGED <<loadstuff, busy>>
    <3>1. Int32(idle + t) \in -Wrap .. Wrap - 1
      BY <2>1, IntsAreInts, DisplayAssumption
    <3>2. ~FirstReading => Int32(idle + t) = Int32(lastidle + (free + t))
      <4>1. free + t < 2 * Wrap
        BY <2>1, DisplayAssumption
      <4>2. Int32(Int32(lastidle + free) + t) = Int32(lastidle + (free + t))
        BY <2>1, <4>1, TicksAdd, Zenon
      <4> QED BY <4>2
    <3>3. ~FirstReading' => loadstuff' = Int32(lastloadstuff' + busy') /\ idle' = Int32(lastidle' + free')
      BY <2>1, <2>2, <2>4, <3>2
    <3>4. busy' \in Nat /\ free' \in Nat /\ busy' + free' < 2 * Wrap
      BY <2>1, <2>4, DisplayAssumption
    <3> QED BY <2>1, <2>4, <3>1, <3>3, <3>4
  <2>5. CASE UNCHANGED <<loadstuff, idle, busy, free>>
    BY <2>1, <2>2, <2>5
  <2> QED BY <1>2, <2>3, <2>4, <2>5 DEF Tick, ticks
<1>3. ASSUME NEW s \in Scenes, Change(s) PROVE LoadInv'
  BY <1>3 DEF Change, counters, lasts, ticks, FirstReading
<1>4. CASE UNCHANGED vars
  BY <1>4 DEF vars, counters, lasts, ticks, FirstReading
<1>5. CASE Redraw
  BY <1>5 DEF Redraw, counters, lasts, ticks, FirstReading
<1> QED BY <1>1, <1>2, <1>3, <1>4, <1>5 DEF Next, Cycle

\* As long as the ints hold them, the differences getCpuLoad computes are the
\* true ones, and so are their sum, the product and the quotient.
LEMMA LoadOfTicks ==
  ASSUME LoadInv, ~FirstReading, busy + free > 0, 100 * busy < Wrap, busy + free < Wrap
  PROVE  LoadNow = (100 * busy) \div (busy + free)
<1>0. busy \in 0 .. Wrap - 1 /\ free \in 0 .. Wrap - 1 /\ Wrap \in Nat
  BY DisplayAssumption DEF LoadInv
<1>1. Moved(loadstuff, lastloadstuff) = busy /\ Moved(idle, lastidle) = free
  BY <1>0, MovedIsTrue DEF LoadInv
<1>2. Int32(busy + free) = busy + free /\ Int32(busy * 100) = 100 * busy
  <2>1. busy + free \in -Wrap .. Wrap - 1 /\ busy * 100 \in -Wrap .. Wrap - 1
    BY <1>0
  <2>2. busy * 100 = 100 * busy
    BY <1>0
  <2> QED BY <2>1, <2>2, Turns
<1>3. Quotient(100 * busy, busy + free) = (100 * busy) \div (busy + free)
  BY <1>0 DEF Quotient, Magnitude
<1>4. (100 * busy) \div (busy + free) \in 0 .. 100
  <2>1. \A x, y \in Nat : x + y > 0 => (100 * x) \div (x + y) \in 0 .. 100
    OBVIOUS
  <2>2. busy \in Nat /\ free \in Nat
    BY DEF LoadInv
  <2> QED BY <2>1, <2>2, Zenon
<1>5. \A x \in 0 .. 100 : x % 256 = x
  OBVIOUS
<1>6. ((100 * busy) \div (busy + free)) % 256 = (100 * busy) \div (busy + free)
  BY <1>4, <1>5, Zenon
<1>7. busy + free # 0
  BY <1>0
<1>8. LoadNow = Quotient(100 * busy, busy + free) % 256
  BY <1>1, <1>2, <1>7, Zenon DEF LoadNow
<1> QED BY <1>3, <1>6, <1>8, Zenon

\* README:42-45: the load is the share of the busy ticks since the last reading,
\* wherever the counters wrapped and however often the file could not be read, as
\* long as an int holds a hundred times the busy ticks and the sum of all.
THEOREM TrueLoad == Spec => LoadIsTrue
<1>1. LoadInv => [busy + free > 0 /\ 100 * busy < Wrap /\ busy + free < Wrap
                  /\ ~FirstReading /\ Cycle /\ lasts' # lasts
                    => cpuLoad' = (100 * busy) \div (busy + free)]_vars
  <2> SUFFICES ASSUME LoadInv, busy + free > 0, 100 * busy < Wrap, busy + free < Wrap,
                      ~FirstReading, Cycle, lasts' # lasts
               PROVE  cpuLoad' = (100 * busy) \div (busy + free)
    OBVIOUS
  <2>1. PICK opened \in BOOLEAN : manageCpuLoad(opened)
    BY DEF Cycle
  <2>2. opened /\ cpuLoad' = LoadNow
    BY <2>1 DEF manageCpuLoad
  <2> QED BY <2>2, LoadOfTicks
<1> QED BY <1>1, InitLoad, StepLoad, PTL DEF Spec, LoadIsTrue

----------------------------------------------------------------------------
(* The picture *)

\* two or three digits show their number
LEMMA TwoDigits ==
  \A n \in 0 .. 99 : /\ n \div 10 \in 0 .. 9 /\ n % 10 \in 0 .. 9
                     /\ 10 * (n \div 10) + (n % 10) = n
OBVIOUS

LEMMA PercentShown ==
  ASSUME NEW p \in 0 .. 100
  PROVE  /\ Digits(Percent(p))
         /\ 100 * Lit(Percent(p)[1]) + Two(Percent(p), 2) = p
<1>1. CASE p = 100
  BY <1>1 DEF Percent, Digits, Lit, Two, BLANK
<1>2. CASE p \in 0 .. 99
  <2>1. p \div 10 \in 0 .. 9 /\ p % 10 \in 0 .. 9 /\ 10 * (p \div 10) + (p % 10) = p
    BY <1>2, TwoDigits
  <2>2. (p \div 10) % 10 = p \div 10
    BY <2>1
  <2> QED BY <1>2, <2>1, <2>2 DEF Percent, Digits, Lit, Two, BLANK
<1> QED BY <1>1, <1>2

LEMMA LoadShown ==
  ASSUME NEW load \in 0 .. 100
  PROVE  /\ Digits(LoadDigits(load))
         /\ 100 * Lit(LoadDigits(load)[1]) + Two(LoadDigits(load), 2) = load
<1>1. CASE load = 100
  BY <1>1 DEF LoadDigits, Digits, Lit, Two, BLANK
<1>2. CASE load \in 0 .. 99
  <2>1. load \div 10 \in 0 .. 9 /\ load % 10 \in 0 .. 9 /\ 10 * (load \div 10) + (load % 10) = load
    BY <1>2, TwoDigits
  <2> QED BY <1>2, <2>1 DEF LoadDigits, Digits, Lit, Two, BLANK
<1> QED BY <1>1, <1>2

LEMMA FreqShown ==
  ASSUME NEW freq \in Nat, freq < 10000000
  PROVE  /\ Digits(FreqDigits(freq))
         /\ 100 * Two(FreqDigits(freq), 1) + Two(FreqDigits(freq), 3) = freq \div 1000
<1>1. /\ freq \div 1000000 \in 0 .. 9
      /\ freq \div 100000 = 10 * (freq \div 1000000) + ((freq \div 100000) % 10)
      /\ freq \div 10000 = 10 * (freq \div 100000) + ((freq \div 10000) % 10)
      /\ freq \div 1000 = 10 * (freq \div 10000) + ((freq \div 1000) % 10)
  BY SMT
<1>2. /\ (freq \div 100000) % 10 \in 0 .. 9 /\ (freq \div 10000) % 10 \in 0 .. 9
      /\ (freq \div 1000) % 10 \in 0 .. 9
  BY SMT
<1> QED BY <1>1, <1>2, SMT DEF FreqDigits, Digits, Lit, Two, BLANK

LEMMA TimeShown ==
  ASSUME NEW minutes \in Nat, minutes < 6000
  PROVE  /\ Digits(TimeString(minutes))
         /\ 60 * Two(TimeString(minutes), 1) + Two(TimeString(minutes), 3) = minutes
<1>1. CASE minutes = 0
  BY <1>1 DEF TimeString, Digits, Lit, Two, BLANK
<1>2. CASE minutes # 0
  <2> DEFINE tens == minutes \div 600
             ones == (minutes \div 60) % 10
             rest == minutes - tens * 600 - ones * 60
  <2>1. tens \in 0 .. 9 /\ ones \in 0 .. 9
    OBVIOUS
  <2>2. minutes \div 60 = 10 * tens + ones
    OBVIOUS
  <2>3. rest = minutes - 60 * (minutes \div 60) /\ rest \in 0 .. 59
    BY <2>2
  <2>4. TimeString(minutes) = <<tens, ones, rest \div 10, rest % 10>>
    BY <1>2 DEF TimeString
  <2>5. minutes = 60 * (10 * tens + ones) + rest
    BY <2>2, <2>3
  <2> HIDE DEF tens, ones, rest
  <2>6. rest \div 10 \in 0 .. 9 /\ rest % 10 \in 0 .. 9 /\ 10 * (rest \div 10) + (rest % 10) = rest
    BY <2>3, TwoDigits
  <2> DEFINE g == TimeString(minutes)
  <2>7. /\ DOMAIN g = 1 .. 4 /\ g[1] = tens /\ g[2] = ones
        /\ g[3] = rest \div 10 /\ g[4] = rest % 10
    BY <2>4
  <2> HIDE DEF g
  <2>8. \A k \in 1 .. 4 : g[k] \in 0 .. 9
    BY <2>1, <2>6, <2>7
  <2>9. Two(g, 1) = 10 * tens + ones /\ Two(g, 3) = rest
    BY <2>1, <2>6, <2>7 DEF Two, Lit, BLANK
  <2>10. Digits(g)
    BY <2>7, <2>8 DEF Digits
  <2> QED BY <2>5, <2>9, <2>10 DEF g
<1> QED BY <1>1, <1>2

\* Up to four present batteries have bars of their own, each as long as the
\* battery is full.
LEMMA BarsApart ==
  ASSUME NEW batteries \in Seq([present : BOOLEAN, percentage : 0 .. 100]),
         Cardinality(PresentSlots(batteries)) <= 4,
         NEW k \in DOMAIN Bars(batteries)
  PROVE  /\ Bars(batteries)[k].lit \in 0 .. 22 /\ Bars(batteries)[k].height > 0
         /\ Bars(batteries)[k].top + Bars(batteries)[k].height <= 23
         /\ \A j \in DOMAIN Bars(batteries) : j < k =>
              Bars(batteries)[j].top + Bars(batteries)[j].height < Bars(batteries)[k].top
<1> DEFINE P == PresentSlots(batteries)
           n == Cardinality(P)
           height == 7 \div n
           upTo(s) == {i \in P : i <= s}
           number(s) == BatteryNumber(batteries, s)
<1>1. /\ P \subseteq 1 .. Len(batteries) /\ Len(batteries) \in Nat
      /\ DOMAIN Bars(batteries) = P /\ k \in P
  BY DEF PresentSlots, Bars
<1>2. IsFiniteSet(P)
  <2>1. IsFiniteSet(1 .. Len(batteries))
    BY <1>1, FS_Interval
  <2> QED BY <1>1, <2>1, FS_Subset, Zenon
<1>3. \A s \in P : /\ upTo(s) \subseteq P /\ s \in upTo(s) /\ s \in Nat
                   /\ number(s) = Cardinality(upTo(s))
  BY <1>1 DEF BatteryNumber
<1>4. \A s \in P : Bars(batteries)[s] =
        [top |-> 15 + (number(s) - 1) * (height + 1), height |-> height,
         lit |-> (22 * batteries[s].percentage) \div 100]
  BY DEF Bars
<1>5. \A s \in P : batteries[s].percentage \in 0 .. 100
  <2>1. \A s \in 1 .. Len(batteries) : batteries[s] \in [present : BOOLEAN, percentage : 0 .. 100]
    BY ElementOfSeq, Zenon
  <2> HIDE DEF P
  <2> QED BY <1>1, <2>1
<1>13. n <= 4
  OBVIOUS
<1> HIDE DEF P, upTo, number
<1>6. \A s \in P : IsFiniteSet(upTo(s)) /\ number(s) \in 1 .. n
  <2> SUFFICES ASSUME NEW s \in P PROVE IsFiniteSet(upTo(s)) /\ number(s) \in 1 .. n
    OBVIOUS
  <2>1. IsFiniteSet(upTo(s)) /\ Cardinality(upTo(s)) <= n
    BY <1>2, <1>3, FS_Subset
  <2>2. Cardinality(upTo(s)) \in Nat /\ n \in Nat
    BY <1>2, <2>1, FS_CardinalityType
  <2>3. Cardinality(upTo(s)) # 0
    BY <1>3, <2>1, FS_EmptySet
  <2> QED BY <1>3, <2>1, <2>2, <2>3
<1>7. \A j \in P : j < k => number(j) < number(k)
  <2> SUFFICES ASSUME NEW j \in P, j < k PROVE number(j) < number(k)
    OBVIOUS
  <2>1. upTo(j) \subseteq upTo(k) /\ k \notin upTo(j) /\ k \in upTo(k)
    BY <1>1, <1>3 DEF upTo
  <2>2. Cardinality(upTo(j)) <= Cardinality(upTo(k)) /\ Cardinality(upTo(j)) # Cardinality(upTo(k))
    BY <1>1, <1>6, <2>1, FS_Subset
  <2> QED BY <1>1, <1>3, <1>6, <2>2
<1>8. n \in {1, 2, 3, 4}
  <2>1. n \in Nat /\ n <= 4
    BY <1>2, <1>13, FS_CardinalityType
  <2>2. number(k) \in 1 .. n
    BY <1>1, <1>6
  <2> QED BY <2>1, <2>2
<1>9. \/ height = 7 /\ n = 1
      \/ height = 3 /\ n = 2
      \/ height = 2 /\ n = 3
      \/ height = 1 /\ n = 4
  <2>1. 7 \div 1 = 7 /\ 7 \div 2 = 3 /\ 7 \div 3 = 2 /\ 7 \div 4 = 1
    OBVIOUS
  <2> HIDE DEF n
  <2> QED BY <1>8, <2>1
<1> HIDE DEF n, height
<1>10. (22 * batteries[k].percentage) \div 100 \in 0 .. 22
  <2>1. \A x \in 0 .. 100 : (22 * x) \div 100 \in 0 .. 22
    OBVIOUS
  <2> QED BY <1>1, <1>5, <2>1, Zenon
<1>11. number(k) \in Int /\ number(k) >= 1 /\ number(k) <= n
  BY <1>1, <1>6, <1>8
<1>12. 15 + (number(k) - 1) * (height + 1) + height <= 23
  BY <1>9, <1>11
<1>14. \A j \in P : j < k =>
         15 + (number(j) - 1) * (height + 1) + height < 15 + (number(k) - 1) * (height + 1)
  <2> SUFFICES ASSUME NEW j \in P, j < k
               PROVE  15 + (number(j) - 1) * (height + 1) + height
                        < 15 + (number(k) - 1) * (height + 1)
    OBVIOUS
  <2>1. number(j) \in Int /\ number(j) + 1 <= number(k)
    BY <1>6, <1>7, <1>8, <1>11
  <2> QED BY <1>9, <1>11, <2>1
<1> QED BY <1>1, <1>4, <1>9, <1>10, <1>12, <1>14

\* What the screen shows of this scene and this load
Shows(load, s) ==
  /\ screen.percentage = Percent(s.percentage) /\ screen.bars = Bars(s.batteries)
  /\ screen.time = TimeString(s.remainingTime) /\ screen.freq = FreqDigits(s.actualFreq)
  /\ screen.load = LoadDigits(load)

\* The screen shows the scene as it was drawn and the load of the last cycle,
\* whichever step drew it last.
PictureInv ==
  /\ scene \in Scenes /\ shown \in Scenes /\ cpuLoad \in 0 .. 255
  /\ lastCpuLoad \in {cpuLoad, 100}
  /\ Shows(cpuLoad, shown)

LEMMA PictureSuffices == ASSUME \A s \in Scenes : Fits(s), PictureInv PROVE CanBeRead
<1>1. /\ screen.percentage = Percent(shown.percentage) /\ screen.bars = Bars(shown.batteries)
      /\ screen.time = TimeString(shown.remainingTime)
      /\ screen.freq = FreqDigits(shown.actualFreq) /\ screen.load = LoadDigits(cpuLoad)
  BY DEF PictureInv, Shows
<1>2. shown \in Scenes /\ cpuLoad \in 0 .. 255
  BY DEF PictureInv
<1>3. /\ Digits(screen.percentage)
      /\ 100 * Lit(screen.percentage[1]) + Two(screen.percentage, 2) = shown.percentage
  <2>1. shown.percentage \in 0 .. 100
    BY <1>2, SMT DEF Fits
  <2> QED BY <1>1, <2>1, PercentShown
<1>4. ASSUME cpuLoad <= 100
      PROVE  Digits(screen.load) /\ 100 * Lit(screen.load[1]) + Two(screen.load, 2) = cpuLoad
  <2>1. cpuLoad \in 0 .. 100
    BY <1>2, <1>4
  <2> QED BY <1>1, <2>1, LoadShown
<1>5. Digits(screen.freq) /\ 100 * Two(screen.freq, 1) + Two(screen.freq, 3) = shown.actualFreq \div 1000
  <2>1. shown.actualFreq \in Nat /\ shown.actualFreq < 10000000
    BY <1>2, SMT DEF Fits
  <2> QED BY <1>1, <2>1, FreqShown, SMT
<1>6. Digits(screen.time) /\ 60 * Two(screen.time, 1) + Two(screen.time, 3) = shown.remainingTime
  <2>1. shown.remainingTime \in Nat /\ shown.remainingTime < 6000
    BY <1>2, SMT DEF Fits
  <2> QED BY <1>1, <2>1, TimeShown
<1>7. \A k \in DOMAIN screen.bars :
        /\ screen.bars[k].lit \in 0 .. 22 /\ screen.bars[k].height > 0
        /\ screen.bars[k].top + screen.bars[k].height <= 23
        /\ \A j \in DOMAIN screen.bars :
             j < k => screen.bars[j].top + screen.bars[j].height < screen.bars[k].top
  <2>1. /\ shown.batteries \in Seq([present : BOOLEAN, percentage : 0 .. 100])
        /\ Cardinality(PresentSlots(shown.batteries)) <= 4
    BY <1>2, SMT DEF Fits
  <2> DEFINE batteries == shown.batteries
  <2>2. screen.bars = Bars(batteries)
    BY <1>1
  <2> HIDE DEF batteries
  <2>3. \A k \in DOMAIN Bars(batteries) :
          /\ Bars(batteries)[k].lit \in 0 .. 22 /\ Bars(batteries)[k].height > 0
          /\ Bars(batteries)[k].top + Bars(batteries)[k].height <= 23
          /\ \A j \in DOMAIN Bars(batteries) : j < k =>
               Bars(batteries)[j].top + Bars(batteries)[j].height < Bars(batteries)[k].top
    BY <2>1, BarsApart DEF batteries
  <2> QED BY <2>2, <2>3
<1> QED BY <1>3, <1>4, <1>5, <1>6, <1>7 DEF CanBeRead

LEMMA LoadTyped == ASSUME LoadInv PROVE LoadNow \in 0 .. 255
<1>1. \A n \in Int : n % 256 \in 0 .. 255
  OBVIOUS
<1>2. \A a, b \in Int : b # 0 => Quotient(a, b) \in Int
  BY DEF Quotient, Magnitude
<1> DEFINE moved == Moved(loadstuff, lastloadstuff)
           loadline == Int32(moved + Moved(idle, lastidle))
<1>3. Int32(moved * 100) \in Int /\ loadline \in Int
  <2>1. \A x \in Int : Int32(x) \in Int
    BY IntsAreInts, DisplayAssumption
  <2>2. moved \in Int /\ Moved(idle, lastidle) \in Int
    BY <2>1, DisplayAssumption DEF LoadInv, Moved
  <2> HIDE DEF moved
  <2> QED BY <2>1, <2>2
<1>4. loadline # 0 => Quotient(Int32(moved * 100), loadline) % 256 \in 0 .. 255
  <2> HIDE DEF moved, loadline
  <2> QED BY <1>1, <1>2, <1>3, Zenon
<1> QED BY <1>4 DEF LoadNow

LEMMA InitPicture == Init => PictureInv
<1> SUFFICES ASSUME Init PROVE PictureInv
  OBVIOUS
<1>1. /\ scene \in Scenes /\ shown = scene /\ cpuLoad = 0 /\ lastCpuLoad = 100
      /\ screen = Picture(0, scene)
  BY DEF Init
<1>2. Shows(cpuLoad, shown)
  BY <1>1 DEF Shows, Picture
<1> QED BY <1>1, <1>2 DEF PictureInv

LEMMA StepPicture == LoadInv /\ PictureInv /\ [Next]_vars => PictureInv'
<1> SUFFICES ASSUME LoadInv, PictureInv, [Next]_vars PROVE PictureInv'
  OBVIOUS
<1>1. ASSUME scene' \in Scenes, UNCHANGED <<shown, screen, cpuLoad, lastCpuLoad>>
      PROVE  PictureInv'
  BY <1>1 DEF PictureInv, Shows
<1>2. ASSUME draw_all(cpuLoad', scene), scene' = scene, cpuLoad' \in 0 .. 255,
             lastCpuLoad' \in {cpuLoad', 100}
      PROVE  PictureInv'
  <2>1. Shows(cpuLoad, shown)'
    BY <1>2 DEF draw_all, Picture, Shows
  <2>2. scene' \in Scenes /\ shown' \in Scenes
    BY <1>2 DEF PictureInv, draw_all
  <2> QED BY <1>2, <2>1, <2>2 DEF PictureInv
<1>3. ASSUME NEW opened \in BOOLEAN, manageCpuLoad(opened) PROVE PictureInv'
  <2>1. cpuLoad' \in 0 .. 255
    BY <1>3, LoadTyped DEF manageCpuLoad
  <2>2. lastCpuLoad' = cpuLoad' /\ scene' = scene
    BY <1>3 DEF manageCpuLoad
  <2>3. CASE Redraws(cpuLoad')
    <3>1. draw_all(cpuLoad', scene)
      BY <1>3, <2>3 DEF manageCpuLoad
    <3> QED BY <1>2, <2>1, <2>2, <3>1
  <2>4. CASE ~Redraws(cpuLoad')
    <3>1. UNCHANGED <<screen, shown>> /\ cpuLoad' = cpuLoad /\ lastCpuLoad = cpuLoad
      BY <1>3, <2>4 DEF manageCpuLoad, Redraws, PictureInv, picture
    <3> QED BY <2>2, <3>1 DEF PictureInv, Shows
  <2> QED BY <2>3, <2>4
<1>4. ASSUME NEW t \in Ticks, Tick(t) PROVE PictureInv'
  BY <1>1, <1>4 DEF Tick, picture, PictureInv
<1>5. ASSUME NEW s \in Scenes, Change(s) PROVE PictureInv'
  BY <1>1, <1>5 DEF Change, picture
<1>6. CASE Redraw
  <2>1. cpuLoad' = cpuLoad /\ lastCpuLoad' = lastCpuLoad /\ scene' = scene
    BY <1>6 DEF Redraw
  <2>2. draw_all(cpuLoad', scene)
    BY <1>6, <2>1 DEF Redraw
  <2> QED BY <1>2, <2>1, <2>2 DEF PictureInv
<1>7. CASE UNCHANGED vars
  BY <1>1, <1>7 DEF vars, picture, PictureInv
<1> QED BY <1>3, <1>4, <1>5, <1>6, <1>7 DEF Next, Cycle

\* draw.c: whatever fits into the dockapp can be read from it as it was drawn, and
\* so can the load of the last cycle, although it is drawn only when it changes.
THEOREM WhatFitsCanBeRead == ASSUME \A s \in Scenes : Fits(s) PROVE Spec => []CanBeRead
BY InitLoad, StepLoad, InitPicture, StepPicture, PictureSuffices, PTL DEF Spec

----------------------------------------------------------------------------
(* --dontblink *)

LightInv == blinkLoad # 100 /\ screen.label = "grey"

\* main.c:160-161: with --dontblink CPULOAD is never lit.
THEOREM NeverLit == ASSUME dontBlink100 PROVE Spec => [](screen.label = "grey")
<1>1. Init => LightInv
  <2> SUFFICES ASSUME Init PROVE LightInv
    OBVIOUS
  <2>1. blinkLoad = 0 /\ screen = Picture(0, scene)
    BY DEF Init
  <2>2. Label(0) = "grey"
    BY DEF Label
  <2> QED BY <2>1, <2>2 DEF LightInv, Picture
<1>2. LightInv /\ [Next]_vars => LightInv'
  <2> SUFFICES ASSUME LightInv, [Next]_vars PROVE LightInv'
    OBVIOUS
  <2>2. ASSUME UNCHANGED <<blinkLoad, screen>> PROVE LightInv'
    BY <2>2 DEF LightInv
  <2>3. ASSUME NEW opened \in BOOLEAN, manageCpuLoad(opened) PROVE LightInv'
    <3>1. draw_all(cpuLoad', scene) \/ UNCHANGED <<blinkLoad, screen>>
      BY <2>3 DEF manageCpuLoad, picture
    <3>2. CASE draw_all(cpuLoad', scene)
      <4>1. Label(cpuLoad') = "grey" /\ BlinkNext(cpuLoad') # 100
        BY DEF Label, BlinkNext, LightInv
      <4> QED BY <3>2, <4>1 DEF draw_all, Picture, LightInv
    <3> QED BY <2>2, <3>1, <3>2
  <2>4. ASSUME Redraw PROVE LightInv'
    <3>1. draw_all(cpuLoad, scene)
      BY <2>4 DEF Redraw
    <3>2. Label(cpuLoad) = "grey" /\ BlinkNext(cpuLoad) # 100
      BY DEF Label, BlinkNext, LightInv
    <3> QED BY <3>1, <3>2 DEF draw_all, Picture, LightInv
  <2>5. (\E t \in Ticks : Tick(t)) \/ (\E s \in Scenes : Change(s)) \/ UNCHANGED vars
          => UNCHANGED <<blinkLoad, screen>>
    BY DEF Tick, Change, vars, picture
  <2> QED BY <2>2, <2>3, <2>4, <2>5 DEF Next, Cycle
<1>3. LightInv => screen.label = "grey"
  BY DEF LightInv
<1> QED BY <1>1, <1>2, <1>3, PTL DEF Spec
=============================================================================
