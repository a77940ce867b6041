------------------------------ MODULE Display ------------------------------
(***************************************************************************)
(* The load of the processor (getCpuLoad and the redrawing in              *)
(* manageCpuLoad, src/src/cpu.c) and the picture of the dockapp (draw_all, *)
(* src/src/draw.c).  A glyph is the number whose picture is copied; the    *)
(* counters of /proc/stat and all that getCpuLoad computes from them are   *)
(* ints, which wrap; of nice the code only asks whether it was 0.          *)
(***************************************************************************)
EXTENDS Integers, Sequences, FiniteSets

CONSTANTS
  Wrap,         \* ints are from -Wrap to Wrap - 1
  Starts,       \* values of the counters when wmlaptop is started
  Ticks,        \* by how much a counter may advance at once
  MaxTicks,     \* by how much both may advance between two readings
  MaxMoves,     \* how often a counter advances
  Scenes,       \* what else is displayed: battery, time and frequency
  dontBlink100  \* args_dontBlink100

BLANK == -1     \* the unlit glyph

ASSUME DisplayAssumption ==
  /\ Wrap \in Nat \ {0} /\ Ticks \subseteq Nat \ {0} /\ Starts \subseteq -Wrap .. Wrap - 1
  /\ MaxTicks \in Nat /\ MaxTicks < 2 * Wrap - 1 /\ MaxMoves \in Nat
  /\ dontBlink100 \in BOOLEAN

VARIABLES
  loadstuff, nice, idle,               \* /proc/stat: user and system, nice # 0, idle
  lastloadstuff, lastnice, lastidle,   \* getCpuLoad
  cpuLoad, lastCpuLoad,                \* manageCpuLoad
  blinkLoad,                           \* lastCpuLoad of draw_cpuload
  scene,                               \* powerState and cpuState
  screen,                              \* the picture
  shown,                               \* ghost: the scene when it was drawn
  busy, free,                          \* ghost: ticks since the last reading
  moves                                \* ghost: for MaxMoves

counters == <<loadstuff, nice, idle>>
lasts == <<lastloadstuff, lastnice, lastidle>>
picture == <<blinkLoad, screen, shown>>
ticks == <<busy, free>>
vars == <<counters, lasts, cpuLoad, lastCpuLoad, scene, picture, ticks, moves>>

----------------------------------------------------------------------------
(* getCpuLoad *)

\* an int
Int32(x) == ((x + Wrap) % (2 * Wrap)) - Wrap

\* mutant of Moved: a counter that has wrapped is taken for one that was reset
MovedForward(now, last) == IF now < last THEN 0 ELSE now - last

\* how far a counter has moved
Moved(now, last) == Int32(now - last)

FirstReading == lastloadstuff = 0 /\ lastidle = 0 /\ ~lastnice

\* the quotient of two ints, towards 0
Magnitude(x) == IF x < 0 THEN -x ELSE x
Quotient(a, b) ==
  IF (a < 0) <=> (b < 0) THEN Magnitude(a) \div Magnitude(b)
  ELSE -(Magnitude(a) \div Magnitude(b))

\* the load in percent, as a u_int8; 0 at first, and 100 when no counter has moved
LoadNow ==
  LET moved == Moved(loadstuff, lastloadstuff)
      loadline == Int32(moved + Moved(idle, lastidle))
  IN  IF FirstReading THEN 0
      ELSE IF loadline # 0 THEN Quotient(Int32(moved * 100), loadline) % 256
      ELSE 100

----------------------------------------------------------------------------
(* draw_all *)

\* <1>, tens and units of a percentage
Percent(p) ==
  <<IF p = 100 THEN 1 ELSE BLANK,
    IF (p \div 10) % 10 = 0 /\ p # 100 THEN BLANK ELSE (p \div 10) % 10,
    p % 10>>

Colour(p) == IF p < 20 THEN "red" ELSE IF p < 50 THEN "yellow" ELSE "green"

PresentSlots(batteries) == {k \in DOMAIN batteries : batteries[k].present}

\* the present batteries are counted up to this slot
BatteryNumber(batteries, slot) == Cardinality({k \in PresentSlots(batteries) : k <= slot})

\* one bar for every present battery: its rows, and how many columns are lit
Bars(batteries) ==
  LET height == 7 \div Cardinality(PresentSlots(batteries))
  IN  [slot \in PresentSlots(batteries) |->
         [top |-> 15 + (BatteryNumber(batteries, slot) - 1) * (height + 1), height |-> height,
          lit |-> (22 * batteries[slot].percentage) \div 100]]

\* hours and minutes, unlit when there is no estimate
TimeString(minutes) ==
  LET tens == minutes \div 600
      ones == (minutes \div 60) % 10
      rest == minutes - tens * 600 - ones * 60
  IN  IF minutes = 0 THEN <<BLANK, BLANK, BLANK, BLANK>>
      ELSE <<tens, ones, rest \div 10, rest % 10>>

\* mutant of LoadDigits: the tens are taken as they are
LoadDigitsPlain(load) ==
  <<IF load = 100 THEN 1 ELSE BLANK, IF load < 10 THEN BLANK ELSE load \div 10, load % 10>>

LoadDigits(load) ==
  <<IF load = 100 THEN 1 ELSE BLANK,
    IF load = 100 THEN 0 ELSE IF load < 10 THEN BLANK ELSE load \div 10,
    load % 10>>

\* CPULOAD is lit in every second picture at full load
Label(load) == IF load = 100 /\ blinkLoad = 100 THEN "lit" ELSE "grey"

\* draw_cpuload's lastCpuLoad after the picture
BlinkNext(load) ==
  IF load # 100 THEN load
  ELSE IF dontBlink100 THEN blinkLoad
  ELSE IF blinkLoad = 100 THEN 101 ELSE 100

\* thousands, hundreds, tens and ones of MHz
FreqDigits(freq) ==
  <<IF freq \div 1000000 = 0 THEN BLANK ELSE freq \div 1000000,
    (freq \div 100000) % 10, (freq \div 10000) % 10, (freq \div 1000) % 10>>

Picture(load, s) ==
  [connector |-> s.isCharging,
   percentage |-> Percent(s.percentage), colour |-> Colour(s.percentage),
   bars |-> Bars(s.batteries), time |-> TimeString(s.remainingTime),
   load |-> LoadDigits(load), label |-> Label(load),
   autofreq |-> s.auto_freq_state,
   left |-> s.actualFreq # s.minFreq, right |-> s.actualFreq # s.maxFreq,
   freq |-> FreqDigits(s.actualFreq)]

draw_all(load, s) ==
  /\ screen' = Picture(load, s)
  /\ blinkLoad' = BlinkNext(load)
  /\ shown' = s

----------------------------------------------------------------------------
(* Actions *)

\* mutant of Redraws: full load is drawn once, like every other load
RedrawsOnce(load) == load # lastCpuLoad

\* what manageCpuLoad asks
Redraws(load) == load # lastCpuLoad \/ load = 100

\* manageCpuLoad; when /proc/stat cannot be opened the load is 100
manageCpuLoad(opened) ==
  /\ cpuLoad' = IF opened THEN LoadNow ELSE 100
  /\ IF opened
     THEN /\ lastloadstuff' = loadstuff /\ lastnice' = nice /\ lastidle' = idle
          /\ busy' = 0 /\ free' = 0
     ELSE UNCHANGED <<lasts, ticks>>
  /\ IF Redraws(cpuLoad') THEN draw_all(cpuLoad', scene) ELSE UNCHANGED picture
  /\ lastCpuLoad' = cpuLoad'
  /\ UNCHANGED <<counters, scene, moves>>

\* the machine works, for somebody or for nobody, or runs a niced process
Tick(t) ==
  /\ moves < MaxMoves /\ busy + free + t <= MaxTicks
  /\ moves' = moves + 1
  /\ \/ loadstuff' = Int32(loadstuff + t) /\ busy' = busy + t /\ UNCHANGED <<nice, idle, free>>
     \/ idle' = Int32(idle + t) /\ free' = free + t /\ UNCHANGED <<loadstuff, nice, busy>>
     \/ nice' = TRUE /\ UNCHANGED <<loadstuff, idle, ticks>>
  /\ UNCHANGED <<lasts, cpuLoad, lastCpuLoad, scene, picture>>

\* cpuReadFreq after a step of auto-freq, the updater that returns early, and the
\* other writers of powerState and cpuState: nothing is drawn yet
Change(s) ==
  /\ scene' = s
  /\ UNCHANGED <<counters, lasts, cpuLoad, lastCpuLoad, picture, ticks, moves>>

\* setNewBatteryState, cpuCheckFreq, an X event: all of it is drawn
Redraw ==
  /\ draw_all(cpuLoad, scene)
  /\ UNCHANGED <<counters, lasts, cpuLoad, lastCpuLoad, scene, ticks, moves>>

Init ==
  /\ loadstuff \in Starts /\ nice \in BOOLEAN /\ idle \in Starts
  /\ lastloadstuff = 0 /\ lastnice = FALSE /\ lastidle = 0
  /\ cpuLoad = 0 /\ lastCpuLoad = 100 /\ blinkLoad = 0
  /\ scene \in Scenes
  /\ screen = Picture(0, scene) /\ shown = scene
  /\ busy = 0 /\ free = 0 /\ moves = 0

Cycle == \E opened \in BOOLEAN : manageCpuLoad(opened)

Next ==
  \/ Cycle
  \/ \E t \in Ticks : Tick(t)
  \/ \E s \in Scenes : Change(s)
  \/ Redraw

\* The load is looked at in every cycle of the main loop.
Spec == Init /\ [][Next]_vars /\ WF_vars(Cycle)

----------------------------------------------------------------------------
(* Properties *)

\* What fits into the dockapp: a percentage up to 100, a time up to 99:59, a
\* frequency below 10 GHz, and as many batteries as have rows of their own.
Fits(s) ==
  /\ s.percentage \in 0 .. 100
  /\ s.remainingTime \in Nat /\ s.remainingTime < 6000
  /\ s.actualFreq \in Nat /\ s.actualFreq < 10000000
  /\ s.batteries \in Seq([present : BOOLEAN, percentage : 0 .. 100])
  /\ Cardinality(PresentSlots(s.batteries)) <= 4

\* The number that two glyphs of a row show, an unlit one being 0.
Lit(glyph) == IF glyph = BLANK THEN 0 ELSE glyph
Two(glyphs, k) == 10 * Lit(glyphs[k]) + Lit(glyphs[k + 1])
Digits(glyphs) == \A k \in DOMAIN glyphs : glyphs[k] \in 0 .. 9 \cup {BLANK}

\* What fits can be read from the dockapp as it was when the picture was drawn,
\* though it may have changed since (cpu.c:123, battery.c:378-387), while the load
\* is the one of the last cycle, which draws it when it changes (cpu.c:79-82);
\* each bar is as long as its battery is full, and no two bars share a row.
CanBeRead ==
  /\ Digits(screen.percentage)
  /\ 100 * Lit(screen.percentage[1]) + Two(screen.percentage, 2) = shown.percentage
  /\ cpuLoad <= 100 =>
       /\ Digits(screen.load)
       /\ 100 * Lit(screen.load[1]) + Two(screen.load, 2) = cpuLoad
  /\ Digits(screen.freq)
  /\ 100 * Two(screen.freq, 1) + Two(screen.freq, 3) = shown.actualFreq \div 1000
  /\ Digits(screen.time)
  /\ 60 * Two(screen.time, 1) + Two(screen.time, 3) = shown.remainingTime
  /\ \A k \in DOMAIN screen.bars :
       /\ screen.bars[k].lit \in 0 .. 22 /\ screen.bars[k].height > 0
       /\ screen.bars[k].top + screen.bars[k].height <= 23
       /\ \A j \in DOMAIN screen.bars :
            j < k => screen.bars[j].top + screen.bars[j].height < screen.bars[k].top

\* README:42-45 takes a load at its maximum to mean that the processor is busy:
\* the load is the share of the busy ticks since the last reading, wherever the
\* counters wrapped in between and however often the file could not be read, as
\* long as the ints of cpu.c:57-60 hold a hundred times the busy ticks
\* (21474836 of them) and the sum of all.
LoadIsTrue ==
  [][busy + free > 0 /\ 100 * busy < Wrap /\ busy + free < Wrap
     /\ ~FirstReading /\ Cycle /\ lasts' # lasts
       => cpuLoad' = (100 * busy) \div (busy + free)]_vars

\* draw.c:206-213: unless --dontblink forbids it, CPULOAD goes on blinking at full
\* load, however often the dockapp is redrawn for other reasons in between.
Blinks ==
  ~dontBlink100 /\ <>[](cpuLoad = 100) =>
    []<>(screen.label = "lit") /\ []<>(screen.label = "grey")
=============================================================================
