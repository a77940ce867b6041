----------------------------- MODULE EventLoop -----------------------------
(***************************************************************************)
(* The main loop of wmlaptop (event_handler, src/src/event.c) around the   *)
(* frequency control of CpuFreq: X events, the battery period with         *)
(* cpuCheckFreq and cpuSetParadisiac, manageCpuLoad with auto-freq, and    *)
(* the sleep.  Seconds are kept as ages: how long ago lastFreqChange and   *)
(* update_seconds were set, capped where the code stops to tell apart; an  *)
(* age is negative after the clock has been set back.                      *)
(***************************************************************************)
EXTENDS CpuFreq

CONSTANTS
  Gaps,          \* seconds by which time() may differ between two cycles
  MaxBack,       \* bound: how far the clock goes back behind a remembered second
  Clicks,        \* places of the dockapp the user may click on
  BatteryPeriod, \* args_batteryUpdate in seconds
  Percentages,   \* percentages the battery may report
  PARADISIAC_ON  \* args_paradisiac

Loads == {50, 100}    \* getCpuLoad: below full load, full load
NEVER == 101          \* the first value of lastPercentage in cpuSetParadisiac
AGED == 2             \* ages of two seconds and more are all the same

ASSUME LoopAssumption ==
  /\ Gaps \subseteq Int /\ BatteryPeriod \in Nat \ {0} /\ MaxBack \in Nat
  /\ Clicks \subseteq [x : 0 .. 255, y : 0 .. 255]
  /\ Percentages \subseteq 0 .. 100 /\ PARADISIAC_ON \in BOOLEAN

VARIABLES
  at,                     \* where event_handler is
  sinceChange,            \* secondsCounter - lastFreqChange (manageCpuLoad)
  sinceUpdate,            \* secondsCounter - update_seconds
  cpuLoad,                \* lastCpuLoad (manageCpuLoad)
  percentage, isCharging, \* powerState
  pass1done, lastPercentage, saved_autoFreq,   \* cpuSetParadisiac
  stepped,                \* ghost: auto-freq wrote in this second already
  manual                  \* ghost: the user last clicked on an arrow

battery == <<percentage, isCharging>>
paradisiac == <<pass1done, lastPercentage, saved_autoFreq>>
ages == <<sinceChange, sinceUpdate, stepped>>
loopVars == <<at, ages, cpuLoad, battery, paradisiac, manual>>
allVars == <<vars, loopVars>>

Places == {"start", "start_max", "event", "draw", "update", "paradisiac", "max", "load"}

\* mutant of Aged
Uncapped(age, gap, cap) == {age + gap}

\* The age after the clock has moved by gap seconds.  An age at the cap may be
\* any higher one, and be anything below when the clock is set back.
Aged(age, gap, cap) ==
  IF age = cap /\ gap < 0 THEN cap + gap .. cap
  ELSE {IF age + gap < cap THEN age + gap ELSE cap}

----------------------------------------------------------------------------
(* The mouse regions: AddMouseRegion in main, CheckMouseRegion *)

MREGION_AUTOFREQ == 0
MREGION_MINFREQ == 1
MREGION_MAXFREQ == 2
NO_REGION == 255      \* -1 in a u_int8

mouse_region ==
  [i \in 0 .. 2 |->
     CASE i = MREGION_AUTOFREQ -> [left |-> 7, top |-> 36, right |-> 55, bottom |-> 46]
       [] i = MREGION_MINFREQ -> [left |-> 4, top |-> 52, right |-> 7, bottom |-> 59]
       [] i = MREGION_MAXFREQ -> [left |-> 55, top |-> 52, right |-> 58, bottom |-> 59]]

\* the first region that contains the point
CheckMouseRegion(p) ==
  LET Hit(i) == /\ p.x \in mouse_region[i].left .. mouse_region[i].right
                /\ p.y \in mouse_region[i].top .. mouse_region[i].bottom
  IN  IF \A i \in DOMAIN mouse_region : ~Hit(i) THEN NO_REGION
      ELSE CHOOSE i \in DOMAIN mouse_region : Hit(i) /\ \A j \in 0 .. i - 1 : ~Hit(j)

----------------------------------------------------------------------------
(* cpuSetParadisiac *)

\* it was 99%, or unknown, and is 100% with the adapter plugged in
JustFull ==
  lastPercentage \in {99, NEVER} /\ percentage = 100 /\ isCharging

\* The first test: restore auto-freq once the adapter is unplugged.
RestoreAutoFreq ==
  /\ auto_freq_state' = IF pass1done /\ ~isCharging THEN saved_autoFreq ELSE auto_freq_state
  /\ pass1done' = (pass1done /\ isCharging)
  /\ manual' = (manual /\ ~(pass1done /\ ~isCharging))

\* A call that does not raise the frequency
ParadisiacPasses ==
  /\ RestoreAutoFreq
  /\ lastPercentage' = percentage
  /\ UNCHANGED <<saved_autoFreq, setup, request, loop, userspace, leaked, alive>>

\* The while loop is one of CpuFreq's; when it ends, auto-freq is saved and off.
ParadisiacLoop ==
  /\ at \in {"start_max", "max"}
  /\ Loops
  /\ \/ /\ caller' # "none" \/ ~alive'
        /\ UNCHANGED loopVars
     \/ /\ caller' = "none"
        /\ saved_autoFreq' = auto_freq_state
        /\ pass1done' = TRUE /\ lastPercentage' = percentage
        /\ at' = IF at = "max" THEN "load" ELSE "event"
        /\ UNCHANGED <<ages, cpuLoad, battery, manual>>

----------------------------------------------------------------------------
(* The steps of event_handler *)

\* powerState.updater()
NewReading == percentage' \in Percentages /\ isCharging' \in BOOLEAN

\* Before the loop: the first reading, and paradisiac when already full
StartUp ==
  /\ at = "start" /\ Idle
  /\ percentage' \in Percentages /\ isCharging' \in BOOLEAN
  /\ \/ /\ PARADISIAC_ON /\ percentage' = 100 /\ isCharging'
        /\ at' = "start_max"
        /\ EnterParadisiac
     \/ /\ ~(PARADISIAC_ON /\ percentage' = 100 /\ isCharging')
        /\ at' = "event"
        /\ UNCHANGED vars
  /\ UNCHANGED <<ages, cpuLoad, paradisiac, manual>>

\* ButtonPress: the dockapp is drawn wherever it was clicked, since the test
\* for -1 compares an int with the u_int8 of CheckMouseRegion
Click(region) ==
  \/ region = MREGION_AUTOFREQ /\ ToggleAutoFreq /\ manual' = FALSE
  \/ region = MREGION_MINFREQ /\ Arrow("dec") /\ manual' = TRUE
  \/ region = MREGION_MAXFREQ /\ Arrow("inc") /\ manual' = TRUE
  \/ region = NO_REGION /\ UNCHANGED <<vars, manual>>

\* the clock goes on by gap seconds, or is set back
ClockMoves(gap) ==
  /\ sinceChange + gap >= -MaxBack /\ sinceUpdate + gap >= -MaxBack
  /\ sinceChange' \in Aged(sinceChange, gap, AGED)
  /\ sinceUpdate' \in Aged(sinceUpdate, gap, BatteryPeriod + 1)
  /\ stepped' = (stepped /\ gap = 0)

\* time() is read, then at most one X event is handled
EventTurn(gap) ==
  /\ at = "event" /\ Idle
  /\ ClockMoves(gap)
  /\ \/ at' = "update" /\ UNCHANGED <<vars, manual>>        \* no event, or a release
     \/ at' = "draw" /\ UNCHANGED <<vars, manual>>          \* Expose
     \/ at' = "draw" /\ \E p \in Clicks : Click(CheckMouseRegion(p))
  /\ UNCHANGED <<cpuLoad, battery, paradisiac>>

\* the loops of cpuSetFreq for an arrow, and of --starting-freq
WaitingTurn ==
  /\ at \in {"start", "draw"}
  /\ Loops
  /\ UNCHANGED loopVars

\* draw_all, which only looks at the state (Display is about what it draws)
DrawTurn ==
  /\ at = "draw" /\ Idle
  /\ at' = "update"
  /\ UNCHANGED <<vars, ages, cpuLoad, battery, paradisiac, manual>>

\* mutant of Due: equality, which a cycle that is too long skips
DueExactly == sinceUpdate = BatteryPeriod

\* mutant of Due: < instead of <=
DueLate == sinceUpdate > BatteryPeriod

\* update_seconds <= secondsCounter - args_batteryUpdate / 1000, a comparison of
\* signed 64-bit seconds
Due == sinceUpdate >= BatteryPeriod

\* cpuCheckFreq and the updater, once per battery period
UpdateTurn ==
  /\ at = "update" /\ Idle
  /\ \/ /\ ~Due
        /\ at' = "load"
        /\ UNCHANGED <<vars, ages, battery>>
     \/ /\ Due
        /\ CheckFreq
        /\ NewReading
        /\ sinceUpdate' = 0
        /\ at' = IF PARADISIAC_ON THEN "paradisiac" ELSE "load"
        /\ UNCHANGED <<sinceChange, stepped>>
  /\ UNCHANGED <<cpuLoad, paradisiac, manual>>

ParadisiacTurn ==
  /\ at = "paradisiac" /\ Idle
  /\ \/ /\ JustFull
        /\ EnterParadisiac
        /\ at' = "max"
        /\ UNCHANGED <<paradisiac, manual>>
     \/ /\ ~JustFull
        /\ ParadisiacPasses
        /\ at' = "load"
  /\ UNCHANGED <<ages, cpuLoad, battery>>

\* mutant of NothingToScale: the two limits are exchanged
NothingToScaleSwapped(load) ==
  \/ ~auto_freq_state
  \/ load = 100 /\ actualFreq = minFreq
  \/ load # 100 /\ actualFreq = maxFreq

\* manageCpuLoad returns early: auto-freq is off or has reached its limit
NothingToScale(load) ==
  \/ ~auto_freq_state
  \/ load = 100 /\ actualFreq = maxFreq
  \/ load # 100 /\ actualFreq = minFreq

\* mutant of Scaled: lastFreqChange is not set when a step is made
ScaledForgotten(load) ==
  /\ sinceChange = 1
  /\ stepped' = TRUE
  /\ UNCHANGED sinceChange
  /\ AutoStep(IF load = 100 THEN "inc" ELSE "dec")

\* one second after the last change: one step, and the frequency is read
Scaled(load) ==
  /\ sinceChange = 1
  /\ sinceChange' = 0
  /\ \/ /\ AutoStep(IF load = 100 THEN "inc" ELSE "dec")
        /\ stepped' = TRUE
     \/ /\ IF load = 100 THEN actualFreq > maxFreq ELSE actualFreq < minFreq
        /\ CheckFreq
        /\ UNCHANGED stepped

LoadTurn(load) ==
  /\ at = "load" /\ Idle
  /\ cpuLoad' = load
  /\ \/ /\ NothingToScale(load) \/ sinceChange = 0
        /\ UNCHANGED <<vars, sinceChange, stepped>>
     \/ /\ ~NothingToScale(load) /\ sinceChange \notin {0, 1}   \* waits for a second
        /\ sinceChange' = 0
        /\ UNCHANGED <<vars, stepped>>
     \/ /\ ~NothingToScale(load)
        /\ Scaled(load)
  /\ at' = "event"
  /\ UNCHANGED <<sinceUpdate, battery, paradisiac, manual>>

ForeignTurn == Foreign /\ UNCHANGED loopVars

----------------------------------------------------------------------------

LoopInit ==
  /\ Init
  /\ at = "start"
  /\ sinceChange = AGED /\ sinceUpdate = 0 /\ stepped = FALSE
  /\ cpuLoad = 100
  /\ percentage \in Percentages /\ isCharging \in BOOLEAN
  /\ pass1done = FALSE /\ lastPercentage = NEVER /\ saved_autoFreq = FALSE
  /\ manual = FALSE

ProcessTurn ==
  \/ StartUp \/ WaitingTurn
  \/ \E gap \in Gaps : EventTurn(gap)
  \/ DrawTurn \/ UpdateTurn \/ ParadisiacTurn \/ ParadisiacLoop
  \/ \E load \in Loads : LoadTurn(load)

LoopNext == ProcessTurn \/ ForeignTurn

\* The process runs.  Every cycle sleeps for a while, so time passes again and
\* again, and if cycles may be shorter than two seconds (the default is 80 ms),
\* the second is now and then the next one.
LoopSpec ==
  /\ LoopInit /\ [][LoopNext]_allVars
  /\ WF_allVars(ProcessTurn)
  /\ SF_allVars(\E gap \in {g \in Gaps : g > 0} : EventTurn(gap))
  /\ \A gap \in Gaps \cap {1} : SF_allVars(EventTurn(gap))

----------------------------------------------------------------------------
(* Properties *)

\* Every variable of the loop keeps its type.
LoopTypeOK ==
  /\ TypeOK
  /\ at \in Places
  /\ sinceChange \in -MaxBack .. AGED /\ sinceUpdate \in -MaxBack .. BatteryPeriod + 1
  /\ cpuLoad \in Loads
  /\ percentage \in Percentages /\ isCharging \in BOOLEAN
  /\ pass1done \in BOOLEAN /\ lastPercentage \in Percentages \cup {NEVER}
  /\ saved_autoFreq \in BOOLEAN
  /\ stepped \in BOOLEAN /\ manual \in BOOLEAN

\* Auto-freq writes at most one frequency in a second, however many cycles of
\* 80 ms fall into it and whatever the load does between them (cpu.c:99-110).
OneStepPerSecond == [][Idle /\ setFreq' # setFreq => ~stepped]_allVars

\* Once the user has clicked on an arrow auto-freq leaves the frequency alone,
\* until auto-freq is switched on again by the user or by the unplugged adapter.
ManualStaysManual == [][Idle /\ setFreq' # setFreq => ~manual]_allVars

\* README:42-45: with auto-freq on, a processor that can be steered and limits that
\* are levels of its own, a load that stays at its maximum takes the frequency up to
\* the maximum, a lower one takes it down to the minimum.
FollowsLoad ==
  Steerable /\ {minFreq, maxFreq} \subseteq Levels =>
    /\ <>[](auto_freq_state /\ cpuLoad = 100) => <>[](actualFreq >= maxFreq)
    /\ <>[](auto_freq_state /\ cpuLoad # 100) => <>[](actualFreq <= minFreq)

\* The busy loops that nothing need ever end.  A caller that waits for a limit
\* without the right to write (init.c:386-396, cpu.c:379-383), and a caller whose
\* writes the kernel does not follow: the flag is stale (init.c:229-234), or the
\* request stands at a limit that is no level (cpu.c:244).
Hopeless ==
  \/ caller \in {"start_min", "start_max", "paradisiac", "reread"} /\ ~userspace
  \/ /\ caller # "none" /\ userspace
     /\ ~(Controlled /\ {minFreq, maxFreq} \subseteq Levels)

\* event.c:59-80: the loop comes back to the X events again and again.  Clicks,
\* --starting-freq and paradisiac mode do not keep the dockapp from answering,
\* whatever the rounding and the governor, unless it stays in one of the loops of
\* Hopeless for good; a loop that could end does end.
KeepsServing == []<>(at = "event" \/ ~alive) \/ <>[]Hopeless

\* the battery and the frequency are looked at in this step
Looks == at = "update" /\ Due /\ at' # "update"

\* event.c:137-141, event.h:26-28: the battery and the frequency are looked at once
\* per period, again and again, however long the cycles are: a clock that is set
\* back delays it only until the clock has caught up.  Only a program that stays in
\* one of the loops of Hopeless never looks again.
LooksAtBattery ==
  <>[][sinceUpdate' < sinceUpdate => at = "update"]_allVars
    => []<><<Looks>>_allVars \/ <>~alive \/ <>[]Hopeless

\* Parts of the inductive invariants of the proofs.
\* A step made in this second has just reset lastFreqChange.
SteppedNow == stepped => sinceChange = 0

\* The click that switched auto-freq off may still be inside cpuSetFreq.
ManualIsOff == manual => ~auto_freq_state \/ caller = "arrow"

\* What the code says and does not keep.

\* cpu.c:356-362: leaving paradisiac mode gives back the auto-freq the user had,
\* so what was saved on entering is kept as long as the mode lasts.
SavedIsKept == [][pass1done /\ pass1done' => saved_autoFreq' = saved_autoFreq]_allVars
=============================================================================
