# A verification project for wmlaptop

wmlaptop is a Window Maker dockapp that shows the battery and the processor of
a laptop, changes the frequency of the processor (by clicks or by itself), and
calls an alarm or the shutdown when the battery is low.  It is one process
without threads; what makes it hard is that everything it works on moves under
its hands: the kernel rounds or ignores the frequencies it asks for, files of
batteries change between two reads, a child process dies whenever it likes, the
clock is looked at once per cycle, and a dozen `static` variables remember what
each function saw last.

This directory holds TLA+ modules of its core, small instances for TLC, and
proofs that TLAPS checks for every value of the constants.

## 1. Inventory

| part | code | state it keeps | operations |
|---|---|---|---|
| frequency control | `cpu.c` | `cpuState`: minFreq, maxFreq, actualFreq, setFreq, userspace | cpuSetFreq (FREQ_STEP, FREQ_NEXT), cpuEchoFreq, cpuReadFreq |
| its start-up | `init.c` | the same, from options and files | init_cpuState, scalingGovernorHelper |
| auto-freq | `cpu.c` | auto_freq_state, lastFreqChange, lastCpuLoad | manageCpuLoad, getCpuLoad |
| paradisiac mode | `cpu.c` | pass1done, lastPercentage, saved_autoFreq | cpuSetParadisiac |
| event loop | `event.c` | secondsCounter, update_seconds | event_handler |
| mouse regions | `event.c`, `main.c` | the table of regions | AddMouseRegion, CheckMouseRegion |
| ACPI batteries | `battery.c` | `powerState.batteryVector`: present, error, capacity, actualState | ACPI_init, ACPI_maxCapacity, ACPI_Filler, ACPI_Update |
| APM battery | `battery.c` | one such structure | APM_init, APM_Filler, APM_Update |
| remaining time | `battery.c` | values[5], valueIndex, four last-seen variables | setNewBatteryState, estimatedTimeClock |
| low battery | `autoscript.c`, `event.c` | two lastPercentage, flashingLowBatteryCycle, the child, the SIGCHLD handler | checkAutoShutdown, checkAutoAlarm, playAlarm, startFlashingLowBattery, stopFlashingLowBattery |
| choice of ACPI or APM | `init.c` | powerState.type, updater | init_battery |
| battery vector and lfc list | `battery.c` | nBatt, batteryVector, lfcArgsVector | mallocBatteryVector, freeBatteryVector, ACPI_lfcArgs_* |
| command line | `main.c`, `main.h`, `argsConfig.h` | args_* | setArgs |
| LongRun | `longrun_linux.c`, parts of `cpu.c`, `init.c`, `event.c` | table of levels, three indices, the range in the processor | another build of the frequency control |
| display | `draw.c`, `pixmap.c`, `init.c` | pixmaps, last load, what blinks | draw_all, draw_area, init_display |
| cpu load | `cpu.c` | the last counters | getCpuLoad |

How they interact: `main` runs setArgs, init_display, init_battery,
init_cpuState, and then event_handler for ever.  One cycle of event_handler
handles at most one X event (a click may call cpuSetFreq), then once per
battery period calls cpuCheckFreq, the updater (ACPI_Update or APM_Update, which
calls setNewBatteryState and that estimatedTimeClock), checkAutoShutdown,
checkAutoAlarm and cpuSetParadisiac, then always manageCpuLoad, and sleeps.
All share `cpuState` and `powerState`.  Only the alarm is concurrent: the child
that plays it, and the signal that it sends when it dies.

What makes each part correct:

* frequency control: the cached frequency is the true one; limits are kept; a
  click moves to the neighbouring level; the busy loops end.
* auto-freq and event loop: one step per second; the load is followed; a click on
  an arrow wins over auto-freq; the loop keeps coming back to the X events.
* paradisiac mode: it gives back the auto-freq it has taken away.
* batteries: nothing is divided by 0; an unreadable battery is flagged; the
  percentage is the weighted average, however batteries come and go.
* remaining time: it comes from the last measurements on this source, with a
  difference of the right sign, and unsigned arithmetic does not falsify it.
* low battery: no level is crossed in silence; no child, zombie or signal is
  left; the flashing ends with the song or a click.
* the whole loop: the alarm stops everything else, and the battery does not wait;
  an empty battery still calls the shutdown.
* start-up: options win over defaults; the interface asked for is used; every
  battery has a structure of its own, which is freed once.
* LongRun: the table holds levels of the processor; the range is the one asked for.
* display: what was drawn can be read back, and the load is the true one.

`PROJECT.json` lists the hazards at their lines, with the properties that watch
each of them.

## 2. Modules

| module | models | |
|---|---|---|
| `CpuFreq` | cpuSetFreq, cpuEchoFreq, cpuReadFreq, cpuCheckFreq, their loops, init_cpuState, scalingGovernorHelper | the kernel's driver and governors are external |
| `EventLoop` | event_handler, manageCpuLoad, cpuSetParadisiac, CheckMouseRegion | EXTENDS `CpuFreq`: each of its steps is a step of `CpuFreq` or leaves it alone (proved) |
| `SlidingWindow` | what the remaining time promises | abstract |
| `RemainingTime` | setNewBatteryState, estimatedTimeClock | implements `SlidingWindow` |
| `LowBattery` | checkAutoShutdown, checkAutoAlarm, the child, the signal, the flashing | |
| `AcpiBattery` | ACPI_maxCapacity, ACPI_Filler, ACPI_Update | |
| `Dockapp` | event_handler with the low battery checks inside it, the battery and real time | EXTENDS `EventLoop`, INSTANCE of `LowBattery`; implements both (proved) |
| `Arguments` | setArgs over argsConfig.h, the list of --lfc | |
| `Startup` | main up to the loop: init_display, init_battery, ACPI_init, APM_init, the vector, free_and_exit | EXTENDS `Arguments` |
| `LongRun` | the LONGRUN build of the frequency control | |
| `Display` | getCpuLoad, draw_all | |
| `MC*` | values of the constants for TLC | |
| `*_proof` | theorems | |

### CpuFreq

Frequencies are numbers below `U32`; `Levels` are those the processor has, `Snap`
is the level the driver chooses for a request (any monotone choice that keeps
levels: drivers may round up or down).  `hwFreq` is the processor's frequency,
the other variables have the names of `cpuState`.  Between two looks at the
clock, at X and at the battery a call of cpuSetFreq is one step, except for its
FREQ_NEXT loop (`NextTurn`: clamp, write, read back, test) and the loops of its
callers (`CallerTurn`, `Reread`), each turn of which is a step; `caller` and `dir`
say which loop is running.  `leaked` counts the descriptors that the permission
check at `cpu.c:207` opens and never closes; with `CountFds = FALSE` one asks about
a time in which there are enough of them.  `Systems` are the machines: which
governor is active, what the list of governors looks like, whether files may be
written, whether the /sys files are used.  `HelperFlag` and `HelperGovernor` are
what scalingGovernorHelper makes of them, its mistakes included (it compares only
the beginning of the list, and takes an `fopen` for a successful change).
`Daemon` lets another program set the frequency.  A limit or a starting frequency
that the user gives is any member of `ArgMinFreqs`, `ArgMaxFreqs`, `StartingFreqs`.

### EventLoop

`at` is the place in event_handler.  `secondsCounter`, `lastFreqChange` and
`update_seconds` occur only in differences, which are kept as ages: `sinceChange` is
capped at 2 (the code tells 0, 1 and more apart), `sinceUpdate` one above the battery
period.  `Gaps` says by how many seconds the clock may move between two cycles, backwards
too; an age is then negative, down to `-MaxBack`, and one that stood at its cap may be
anything below it (`Aged`).  A click is a place of the dockapp; `CheckMouseRegion` makes
the region of it, the -1 in its u_int8 included. The load is full (100) or not, the only
distinction that manageCpuLoad makes besides redrawing; what draw_all displays is the
question of `Display`.  `Hopeless` names the busy loops that need never end: a caller that
waits for a limit without the right to write, and a caller whose writes the kernel does
not follow.  `stepped` and `manual` are ghosts: auto-freq has written in this second; the
last click was on an arrow.

### Dockapp

One process made of the turns of `EventLoop` and the steps of `LowBattery`: the low
battery checks run inside the battery period, before cpuSetParadisiac, and the
main loop stands still until they are over.  `level` is the real charge, which moves
by one at most once in `MoveTime` seconds (`Tick`), in the sleep of a cycle as in an
alarm; `elapsed` is how far time() has moved since the loop last looked at it, and
`SetBack` moves it back.  `percentage` is the reading, shared by both parts.  `skipped`
remembers that two readings were more than one percent apart: the shutdown is called
on the reading that crosses its level, so this is the way to miss it.

### SlidingWindow and RemainingTime

`SlidingWindow` keeps the last `Depth` measurements as a sequence, newest first, and
estimates from the first and the last; it may be emptied, and the display blanked.
`RemainingTime` has the array, the shift loop, the 8-bit index with its mark ~0, and the
variables of setNewBatteryState, one action per call of the updater; the refinement
mapping makes a sequence of the slots that valueIndex makes valid. A call may return
before setNewBatteryState because the file of the adapter cannot be read (`adapterRead`);
`reading` and `drawn` are ghosts for what was read and what is displayed.  The clock moves
by any of `Gaps` between two calls, backwards too. The arithmetic is the code's: `Byte`
for diffPercentage, `Word32` for the difference of the times and its product with the
percentage, `Word16` for the minutes; `Minute` is 60, `U32` and `U16` are 2^32 and 2^16.
A percentage is any byte, beyond 100 too, and 0 batteries is a count like others.
`SlidingWindow` computes in whole numbers, and where these give no time or one that does
not fit (`Sensible`) it allows any estimate of 16 bits.  `gauge` is the kind of battery:
"bouncing" goes up and down by one at will; "apart" follows the adapter, and does not
change in a period in which something is plugged.

### LowBattery

Every call of the parent that the signal handler may interrupt is a step of its
own: setting flag and handler, `fork` (which may fail), the test of the flag, `kill`,
SIG_DFL.  The child is playing, killed, a zombie or reaped.  `stopFlashingLowBattery`
runs at any moment at which a signal is pending.  `above` is a ghost: since the AC adapter
was last seen plugged in, a check has found a percentage above the shutdown level.  It
makes the properties speak of a discharge without the adapter, which is when
main.c:195-196 promises the shutdown.

### AcpiBattery

A battery's `uevent` file is a record: whether it says "present: no", whether it can be
opened, and the three numbers (or their absence).  ACPI_Filler's read of the state and
ACPI_maxCapacity's read of the information are separate steps, and files change between
any two (`Change`).  A battery that leaves is seen to be gone before another one comes
(`Follows`); the search for tags in the buffer is abstracted to its result, and where the
code reads beyond a missing tag it finds any number of `Garbage`.  `Total` adds what the
batteries have as the partial sums of the loop of ACPI_Update, for any number of
batteries.  `U32 = 4295` stands for 2^32 in units of 10^6 uWh.  The percentage of a single
battery is not kept: it only sizes the bar of that battery (`draw.c:134`), and `Display`
draws bars for any percentages.

### Arguments and Startup

A word of the command line is a record of an option and a value; `Stored` is what remains
of the value in the variable of the option (a char, a short, an enumeration or a flag;
`SignedInts` are the values of a width), and an option counts as given when that is not
the mark LEAVE.  `main` goes through `stage`: words, display, interface, the directory of
batteries (one name of readdir at a time), loop.  A structure is a number; `heap` has
those not yet freed. Any allocation of malloc, and any realloc of the vector, may fail
(`MaxFailures` bounds how many; the realloc of the --lfc list at `battery.c:434` is left
out, because its result is used unchecked and a failure kills the program on the spot),
and ACPI_init then leaves its vector and counters as they are for APM_init.  realloc keeps
what fits; elements it adds have any value.

### LongRun

`chip` is a processor: its levels and the number of steps in which it reports them.
`Probe` is one turn of the loop that finds the table; `range` is the register of the
processor, external as far as the processor moves inside it.  `actualLevelIdx` is read in
the battery period only, which the guards of the arrows do not wait for.  A processor has
up to `MaxSteps` = 96 steps of 33 MHz, 3.2 GHz: up to there the floats of
`longrun_linux.c:312` give the quotient of the integers (with 97 they round one percentage
down to the next); the processor of README:147-148 has 21.

### Display

`screen` is the picture as glyph numbers, bar lengths and colours.  The counters of
/proc/stat and everything getCpuLoad computes from them are ints, from `-Wrap` to `Wrap -
1` (`Int32`, `Wrap` standing for 2^31): the differences, their sum, the product with 100;
the quotient is the one towards 0, and the result a u_int8.  The counters begin at any of
`Starts` and advance by any `Ticks`, `MaxMoves` times, and by `MaxTicks` at most between
two readings, 497 days at 100 Hz; the file may be unreadable in any cycle.  The scene,
which is powerState and cpuState, changes in a step of its own (`Change`), because the
code changes it without drawing: cpuReadFreq at `cpu.c:123` after the drawing at
`cpu.c:79-82`, and ACPI_Update when it returns at `battery.c:387`; `shown` is a ghost for
the scene that was drawn last.  There is a bar for every slot of the battery vector that
holds a battery; `BatteryNumber` counts those up to a slot, as the variable `battery` of
draw_batteryPercentage does.  A drawing may also be asked for by the battery or an X event
(`Redraw`).

## 3. Runs

| run | expects | shows |
|---|---|---|
| `CpuFreq_any` | pass | 3 levels, every machine, limits that are levels and one that is not, 6 descriptors, a driver that rounds down: `Synced`, `MovesOneLevel`, `StaysWithinLimits`, `LoopsEnd` |
| `EventLoop_any` | pass | clicks on each region, three machines, the start loops, a maximum between two levels, a load, a battery around 100%, a clock that also goes back: `OneStepPerSecond`, `FollowsLoad`, `ManualStaysManual`, `KeepsServing`, `LooksAtBattery` |
| `RemainingTime_any` | pass | both gauges, changing batteries, a clock that is set back, numbers that overflow, readings without the adapter: `ImplementsWindow`, `DisplayCatchesUp`, `RealDifference` |
| `LowBattery_auto` | pass | percentages 0..7, alarm at 5, shutdown at 1: `NothingLeft`, `FlashingEnds`, `ClickEndsFlashing`, `ShutdownAsked`, `WarnedFirst` |
| `AcpiBattery_any` | pass | two batteries, one with --lfc, every kind of file: `Divisible`, `Average` |
| `Dockapp_any` | pass | the loop with an alarm of a second and a clock that goes back: `NothingSkipped`, `ShutdownInTime`, `EmptyShutsDown`, `ServesAfterAlarm` |
| `Startup_any` | pass | every command line of three words on every machine, two failing allocations: `GivenWins`, `RightInterface`, `VectorReady`, `FreedOnce`, `StartsOrEnds` |
| `LongRun_any` | pass | regular and irregular processors, the one with 21 steps of README:147-148, every order of clicks, button and adapter: `TableRight`, `RangeFollows`, `ComesDown` |
| `Display_any` | pass | the places where a digit appears, scenes that change undrawn, counters that wrap: `CanBeRead`, `LoadIsTrue`, `Blinks` |
| `CpuFreq_leak` | violation | descriptors run out and the program exits (`cpu.c:207`) |
| `EventLoop_saved` | violation | 100%, 99%, 100% on the adapter loses the user's auto-freq (`cpu.c:385`) |
| `AcpiBattery_overflow` | violation | 45 Wh in uWh times 100 does not fit in 32 bits (`battery.c:378`) |

Bounds and why they are enough.

* `CpuFreq`: three levels have a lower, a middle and an upper one, so that skipping a
  level is possible; in units of 25 MHz the step of 4 and FREQ_NEXT of 2 are the
  defaults, and against gaps of 3 they leave remainders in setFreq.  Six descriptors let
  every loop run to its end before they run out, and run out within reach of every call.
* `EventLoop`: two levels, since a click or a step then has somewhere to go and a limit to
  stop at (levels in between are `CpuFreq`'s question), and optionally a maximum that lies
  between the two; a machine with the userspace governor, one whose governor cannot be
  changed and wmlaptop knows it, and one whose files may be written so that it does not
  know.  Every value of --starting-freq.  Gaps of -1 to 2 seconds are: the clock set back,
  two cycles in a second, one a second, a cycle that jumps over the second auto-freq waits
  for.  A battery period of two seconds puts several cycles into a period.  Percentages 99
  and 100 are those paradisiac mode tells apart.
* `RemainingTime`: a window of three slots has a first, a middle and a last one, and
  `MaxCalls = 7` calls fill it, shift it and empty it again.  The percentages are three
  neighbours around the middle, 0 and 101, the one of a slot without a battery and one beyond
  the full charge; 0 batteries or 1.  The clock, below `MaxTime`, goes on by 2 seconds or is
  set back by 3.  `Minute = 4`, `U32 = 256`, `U16 = 32`: there
  are products below and above 256, minutes below and above 32, and differences that wrap.
* `LowBattery`: percentages 0 to 7 hold both levels with a step above, between and
  below them.  `Dockapp`: 0 to 3 with the shutdown at 1 and the alarm at 2; one level of
  the processor, so that the loop's own turns remain and the frequency does not multiply
  them; `Daemon = TRUE` only makes foreign steps possible between any two others.
* `AcpiBattery`: two batteries with different capacities tell a weighted average from any
  other.
* `Startup`: three words are an option, its repetition, and one in between; values are
  chosen at the widths (-1, 255, 256, 65535), and words of the same kind of variable are
  represented by one.  Two failing allocations reach both interfaces.
* `LongRun`: processors whose levels are the steps, lie beside them, are more or are
  fewer; values of --incremental-step of 0 (the default), 1 and 100000 (a value meant for
  the other build), percentages 98 to 100.
* `Display`: with `Wrap = 512` and counters that begin at -512, 0 or 510, ticks of 1 and 4
  wrap a counter and keep a hundred times the busy ticks below it (up to 5) or bring them
  above it, and ticks of 511 make the product wrap several times and the sum as well.
  Three moves of the counters (`MaxMoves`) put two into one interval and one into the
  next, or all into one interval of several unreadable cycles.  `MaxTicks = 1022` is the
  most that DisplayAssumption allows.

Deadlock is not checked in `CpuFreq`, `AcpiBattery` and `Startup`, where the program may
exit (free_and_exit), nor in `RemainingTime`, whose calls have a bound (`MaxCalls`).

### Fairness

* `CpuFreq`: weak fairness of `Loops`.  The loops neither sleep nor wait for
  anything; the process only has to be scheduled.
* `EventLoop`: weak fairness of the process, and strong fairness of the cycles in which
  time passes, because every one sleeps, and of those in which the next second has come,
  as long as cycles are shorter than two seconds (the default is 80 ms).  X events,
  the load and the battery have none.  `KeepsServing` and `LooksAtBattery` except, by name,
  a program that stays for ever in one of the loops of `Hopeless`; every other one has to come
  back, and a look counts only when it is taken (`Looks`).  `LooksAtBattery` assumes that
  the clock is not set back for ever.
* `LowBattery`: weak fairness of the parent, the killed child's death and the
  delivery of the signal, which the scheduler and the kernel give.  Clicks and the end
  of a song have none: `FlashingEnds` takes the end of the song as its hypothesis, and
  `ClickEndsFlashing` the clicks.
* `Dockapp`: the same, and the song ends by itself, because alarmRepeat is finite; strong
  fairness of `Tick`, because every cycle sleeps.  Clicks, `SetBack` and other programs
  have none.
* `Startup`: weak fairness of the process.  `LongRun`: of the process and the battery
  period; `ComesDown` has the clicks as its hypothesis.  `Display`: of the cycle.
* `AcpiBattery` and `RemainingTime` state safety only.

## 4. Theorems

All of them hold for every value of the constants that the ASSUMEs and the hypotheses named
here allow; the assumptions are evaluated by TLC for the small instances.

* The frequency control (`EventLoop_proof`, first part).  `TypeCorrect`: TypeOK is
  inductive as it stands, from
  WordAssumption (levels and FREQ_NEXT fit in a word), SnapAssumption and
  ConfigAssumption.  `CacheIsTrue` (Synced) needs the strengthening `SyncInv`: inside
  the FREQ_NEXT loop nothing has changed yet (`LoopStart`), otherwise the end of the
  loop, which copies actualFreq to setFreq, would not be justified.  `RequestsInRange`
  adds `SmallStep` (the step does not wrap; `RangeInv` is not invariant without it).
  `LimitsKept` and `OneLevelAtATime` follow from both, the latter with `NoSkip`: no two
  levels are closer together than FREQ_NEXT can tell, which the instances satisfy.
  `LoopsGetOn` is the safe half of LoopsEnd, its measure, and needs neither fairness nor
  NoSkip: where the processor can be steered and stands between limits that are levels,
  a turn of the FREQ_NEXT loop either ends with the processor moved and still inside the
  limits, or has brought the request a whole FREQ_NEXT nearer to a limit it has not
  reached; a turn of the caller's loop ends or begins such a call.  It needs `HasRoom`: a
  call that was admitted did not begin at the limit, which is what the refusal at
  `cpu.c:199` is for.
* The main loop (`EventLoop_proof`, second part).  `ImplementsCpuFreq`: initial states and
  steps of the main loop are those of `CpuFreq` or leave it alone, so that everything
  proved there holds in the whole program.  `AutoFreqPace` (OneStepPerSecond) needs
  `SteppedNow`: whoever has stepped in this second has reset the age of lastFreqChange.
  `ArrowHasPrecedence` (ManualStaysManual) needs `ManualIsOff`: after a click auto-freq is
  off, or the click is still inside cpuSetFreq, which switches it off when it returns.
  `LoopTypes` (LoopTypeOK) is inductive beside `SyncInv`.
* `LowBattery_proof`.  `NoChildLeft` (NothingLeft) from `ChildWatched` (a child exists
  only while the parent flashes, with flag and handler up), `Armed` (they are up before
  the fork) and `SignalUnderWay` (a zombie has its signal pending, and nothing else
  has).  `TypesKept`.  `ShutdownCrossed` (ShutdownAsked) and `WarnedBefore` (WarnedFirst)
  for Jump <= 1, the second for ShutdownAt < AlarmAt as well, from `Followed` (what each check
  has seen last and how far the battery has moved since), `Asked`, `Warned` and `OnceAbove`
  (what has been above the level in this discharge has been above it).
* `AcpiBattery_proof`.  `NeverDividesByZero` (Divisible) from the types of the slots
  and a lemma about Capacity: whatever the file, the result is not 0.  The sums of
  ACPI_Update are those of any number of batteries, so their type, their order and their
  bounds take an induction over the slots.  It is done for a set of numbers
  (`Reaches`, from the least number that is missing in it) in place of a predicate:
  `SumsExist` is the function of the partial sums, `TotalIsSum` says that Total is its last
  value, `TotalCompares` and `TotalBelow` compare sums.  `TypesOfBatteries` (TypeOK)
  follows.  `AverageIsTrue` (Average) needs `Known` (a present battery has the capacity of
  its file) and `ReadSoFar` (in a round without changes, the slots behind `turn` hold
  what their files say), and the hypothesis `Small`: a hundred times all charges, and
  all capacities, fit in 32 bits, and no battery is charged beyond 255 percent of its size.
  Batteries that report uAh satisfy it up to 42 Ah in total; one of 50 Wh
  that reports uWh does not, and `AcpiBattery_overflow` shows what happens then.  TLC
  evaluates `Small` for the files of `AcpiBattery_any`.
* `Dockapp_proof`.  `DockImplementsLowBattery` and `DockImplementsLoop`: the composition
  is a refinement of both its parts.  The second needs `CycleTime`: the seconds of the
  current cycle and of its alarm are all that `elapsed` can hold, so that each cycle's gap
  is one of `Gaps` (TimeAssumption).  From them `DockNoChildLeft` and `DockAutoFreq` carry
  theorems of the parts over.  `ShutdownNotMissed` (ShutdownInTime) needs `Seen`, which ties
  what each check has seen last to the current reading.  `SlowBatteryIsFollowed`
  (NothingSkipped, for a battery that is SlowEnough) needs `BatteryTime`: between two looks
  at the clock the age of the last reading bounds the time that has really gone by, in which
  the level has moved once at most.  `ShutdownCalled`
  puts both together: with such a battery and a clock never set back, `ShutdownAsked`
  holds of the whole dockapp without the hypothesis Jump <= 1 that LowBattery needs.
  `DockTypes` (DockTypeOK) collects the types of both parts and of time.
* `RemainingTime_proof`.  `TimeTypes` (TypeOK) is inductive as it stands: the clock and
  the times of the window are whatever time() gave, and an estimate is an u_int16 because
  the difference it is divided by is not 0. `WindowImplemented` (ImplementsWindow) shows
  step by step that clearing, the first measurement through the mark ~0, and the shift
  loop are the three actions of `SlidingWindow`, and by a lemma about the arithmetic that,
  where the estimate of whole numbers is Sensible, neither the u_int8 difference nor the
  u_int32 product nor the u_int16 minutes change it; where it is not, any 16 bits are
  allowed and 16 bits they are. `CatchesUp` (DisplayCatchesUp) needs `Showing`: what is
  drawn is what setNewBatteryState remembers.  `DifferenceIsReal` (RealDifference) needs
  `Monotone`: with a gauge that moves with the adapter only, the percentages of the window
  go one way, by one at least between two slots.
* `Startup_proof`.  `OptionsAreKept` (GivenWins) from `LineInv`: a variable is either
  untouched and nothing on the line counts for it, or has the value of the one word that
  does; the defaults then fill in the rest.  `InterfaceAsked` (RightInterface) from
  `ChoiceInv`, which says what each number of tries has found out.  `VectorIsReady`
  and `EverythingFreed` (VectorReady, FreedOnce) from `VectorInv`: the entries
  up to nBatt are distinct live structures, and everything on the heap is one of them
  unless an allocation failed.  `StartTypes` (StartupTypeOK) holds for all compiled
  defaults that fit the variables they are assigned to, which ArgumentsAssumption says.
* `Display_proof`.  `TrueLoad` (LoadIsTrue) from `LoadInv`, which ties each counter to its
  last reading and the ticks since then modulo 2 * Wrap; `MovedIsTrue` is the lemma that a
  difference below Wrap survives the wrapping.  The hypotheses are in the property: the
  ints hold a hundred times the busy ticks (21474836 of them, 2.5 days of one busy
  processor at 100 Hz) and the sum.  `WhatFitsCanBeRead` (CanBeRead) from `PictureInv`
  (the screen shows the scene as it was when it was drawn, and the load, which is drawn
  when it changes) and a lemma for each number: digits taken apart by `\div` and `%` make
  up the number again. Its hypothesis `Fits` is what the dockapp has room for: 100%, 99:59
  hours, 9999 MHz, four batteries (`BarsApart`: 7 rows shared by four bars of one row
  each, and no more).  TLC evaluates it for the scenes of `Display_any`.  `NeverLit` is
  what --dontblink promises, about which Blinks says nothing: the label is never lit.
* `LongRun_proof`.  `TableIsRight` (TableRight) from `TableInv`: the table is strictly
  ascending, ends in the level seen last, and when levels lie at the steps the probing has
  found exactly those so far.  It holds for every processor of 1 to `MaxSteps` steps,
  `Quotients` and `ProbedPercent` being the lemmas about the percentages asked for, and
  leaves the table without 100 only where `LastLeftOut` says so.  `RangeIsSet`
  (RangeFollows) from `RangeInv`, where `Following` ties the indices, auto-freq and
  `handedBack` to the range.

Only model-checked:

* liveness (LoopsEnd, FollowsLoad, KeepsServing, LooksAtBattery, FlashingEnds,
  ClickEndsFlashing, EmptyShutsDown, ServesAfterAlarm, StartsOrEnds, ComesDown, Blinks):
  fairness and ENABLED are out of the prover's reach.  `LoopsGetOn` proves what is safe in
  LoopsEnd.

Every invariant and every action property that a passing run checks is the statement of
one of the theorems.

## 5. Disagreements between code and documents

Besides the three runs that expect a violation, the following were met while
modelling; each is a behaviour of the modules, and no run is kept for it.

Frequency:

* `init.c:386-396`: --starting-freq never comes to an end without the userspace governor,
  or with a limit that cpuSetFreq refuses; paradisiac mode waits in the same way
  (`cpu.c:379-383`).  LoopsEnd speaks of the others; KeepsServing and LooksAtBattery are checked
  on such machines, too, and except a program that stays in such a loop (`Hopeless`).
* `init.c:229-234`: userspace is set although another governor is active, when the list
  of governors begins with it and scaling_governor cannot be written (`Init` of CpuFreq
  with such a machine).  Synced therefore speaks of machines with the governor.
* `cpu.c:227`: a step larger than the frequency wraps (`Sub32`), and auto-freq raises
  the frequency when the load falls.  SmallStep is the hypothesis that excludes it.
* `cpu.c:244`: a maximum between two levels keeps the FREQ_NEXT loop busy for ever.
  LoopsEnd therefore speaks of limits that are levels, and Hopeless names this loop.
* `cpu.c:104`: with --cpu-update=2000 two cycles are never one second apart, and
  auto-freq does nothing (`Gaps = {2}`).  The same happens to the loop that waits.
* `cpu.c:375`: an adapter plugged in at 100%, after a reading at 100%, does not enter
  paradisiac mode.
* `cpu.c:183`: cpuCheckFreq redraws when its own last reading differs, so a frequency that
  auto-freq has changed, drawn and changed back between two checks stays on the display.
* `cpu.c:254`: with another program at work a click on < may raise the frequency
  (`Daemon = TRUE`; BUGS warns of cpufreqd).
* `event.c:118-119`: the comment says that the dockapp is redrawn "if a cliccable region was
  clicked", but j is a u_int8 and never -1, so that a click beside the regions redraws it
  as well (`NO_REGION`).

Battery:

* `battery.c:574`: an adapter plugged in and out, or a battery exchanged, between two
  readings leaves measurements of the other direction in the window, against
  README:68-87; `battery.c:664`: diffPercentage may then be 0, for which a comment has
  no explanation.  RealDifference holds for the gauge "apart" and fails without it.
* `battery.c:655`, `battery.c:677-683`: with a clock that is set back within the window the
  difference of the times wraps to almost 2^32, and the estimate is any number; a
  clock that leaps forward by half a day overflows the u_int16 minutes, by 500 days the
  u_int32 product.  `Sensible` names the estimates that are promised.
* `battery.c:319`: error is never cleared; a good battery after a faulty one is ignored.
* `battery.c:259`: a battery whose tags say 0, plugged into an empty slot, keeps the
  capacity 1 of the absent battery and is counted.
* `autoscript.c:23`: the shutdown is called with the adapter plugged in, too, although
  main.c:195-196 says "and AC adapter is not plugged in".  ShutdownAsked, ShutdownInTime
  and EmptyShutsDown demand it for a discharge without the adapter, and say nothing of the
  other case: they hold of the code, and would of a code that follows the text.  And a
  percentage that jumps over N + 1 does not call it at all (`Jump = 2`; BUGS:2-5 knows
  it).
* `event.c:140`: the battery jumps unread when the clock is set back far enough, or when
  the alarm lasts longer than a percent; the shutdown is then missed (`skipped`).
* `event.c:220`: a click may kill a process number whose child the handler has already
  reaped (Press, SongEnds, stopFlashingLowBattery, Kill).

Start-up:

* `main.h:543`: an option whose value is cut to the mark (255 for a char, 65535 for a
  short, 0 for a number) is not seen, and may be repeated (`Stored`, `Unset`).
* `battery.c:131`: when memory runs out, ACPI_init leaves what it has allocated; and
  `battery.c:434-435`: the realloc of the --lfc list is used unchecked (not modelled).
* `main.c:468`, `main.c:477`: the warnings about zero of --cpu-update and
  --battery-update look at args_maxFreq.

LongRun:

* `cpu.c:269`: an arrow is refused on an index that is only read in the battery period,
  so a click may be ignored although there is a level to go to.
* `cpu.c:371`: unplugging gives auto-freq back without writing the range, against
  README:149-150; the next click writes it (`handedBack`).
* `longrun_linux.c:320`: the probing leaves out the step after a level above the one it
  asked for, so that a level may be missing from the table, the highest one as well: TableRight
  excepts it by name (`LastLeftOut`).
* `longrun_linux.c:325`: the table is allocated with `sizeof(u_int8)` for each level, but
  main.h:230 makes it an array of u_int16.  The model has the table as it is meant.
* `cpu.c:297`: a step of 2 to 9 moves the index past the table, and the range is set from
  outside it.  RangeFollows speaks of a step of 1.

Display:

* `cpu.c:60`: the product `(loadstuff-lastloadstuff)*100` overflows when there were more than
  21474836 busy ticks since the last reading, which takes days in which /proc/stat could
  not be opened, or many processors.  LoadIsTrue has this as a hypothesis.
* `cpu.c:123`, `battery.c:387`: a frequency or a percentage may change without being drawn until
  something else is (`Change`); CanBeRead speaks of what was drawn.
* a percentage above 100, which a battery charged over its last full capacity gives
  (`battery.c:378`), is shown without its hundreds.

## 6. Not modelled, and the plan

Done so far, in the order of the plan: the frequency control and its loop, the battery
parts, their composition, start-up, the other build, the display; the theorems above.
What is left would be:

1. RemainingTime and AcpiBattery inside Dockapp in place of its one reading: the readings
   are the only link, and `level` is coarser than a file.
2. Measures for the other loops, as LoopsGetOn is one for the frequency control: the flashing
   of the alarm and the probing of LongRun.

Left out for good: the copying of pixmaps to the windows and init_display beyond its
success (requests to the X server without any state that the program reads back), the
scan of /proc/apm and of the tags in the ACPI files beyond their results, files of the
frequency control that cannot be read at start-up (the program exits), the check of the
processor and the cpuid output in LongRun, console mode (one pass without the loop), the
screen saver, the notes of the songs, the texts of help and version.  FREQ_STEP is never
called in the LongRun build.
