------------------------------ MODULE Dockapp ------------------------------
(***************************************************************************)
(* The dockapp as one process: the main loop of EventLoop with the checks  *)
(* of LowBattery inside its battery period (event_handler, src/src/        *)
(* event.c), and real time.  While the alarm flashes the main loop stands  *)
(* still, the battery goes on, and the seconds are only looked at when the *)
(* loop runs again; the clock may be set back at any time.                 *)
(***************************************************************************)
EXTENDS EventLoop

CONSTANTS
  ShutdownAt, AlarmAt,   \* args_autoShutdown, args_autoAlarm
  MaxSleep,              \* seconds a cycle may last, args_cpuUpdate
  MaxSong,               \* seconds the alarm may last, args_alarmRepeat songs
  MoveTime               \* seconds the battery needs for one percent

ASSUME TimeAssumption ==
  /\ ShutdownAt \in Nat /\ AlarmAt \in Nat
  /\ MaxSleep \in Nat \ {0} /\ MaxSong \in Nat /\ MoveTime \in Nat \ {0}
  /\ -MaxBack .. MaxSleep + MaxSong \subseteq Gaps

VARIABLES
  lowAt, lastShutdown, lastAlarm, flashing, handler, child, pending,
  down, rung, highest, above,   \* LowBattery
  level, sinceMove,      \* the charge of the battery, and for how long it has been so
  elapsed,               \* what time() has moved by since it was last read
  slept, played,         \* seconds of this cycle; of this alarm
  setBack,               \* ghost: the clock was set back since the last reading
  skipped                \* ghost: two readings were more than one percent apart

alarm == <<lowAt, lastShutdown, lastAlarm, flashing, handler, child, pending, down, rung,
           highest, above>>
charge == <<level, sinceMove>>
ghosts == <<setBack, skipped>>
time == <<charge, elapsed, slept, played, ghosts>>
dockVars == <<allVars, alarm, time>>

\* Any step of the percentage: what bounds it here is the real battery.
Low == INSTANCE LowBattery WITH at <- lowAt, Jump <- 100

----------------------------------------------------------------------------
(* The process *)

FirstTurn ==
  /\ StartUp /\ Low!FirstReading
  /\ percentage' = level
  /\ UNCHANGED time

\* time() gives what has elapsed; a cycle ends and the next one begins
CycleTurn ==
  /\ lowAt = "loop"
  /\ EventTurn(elapsed)
  /\ elapsed' = 0 /\ slept' = 0
  /\ UNCHANGED <<alarm, charge, played, ghosts>>

\* the battery period: the updater first, then the checks of LowBattery
PeriodTurn ==
  /\ lowAt = "loop"
  /\ UpdateTurn
  /\ \/ /\ Due
        /\ Low!Update /\ percentage' = level
        /\ setBack' = FALSE
        /\ skipped' = (skipped \/ percentage' - percentage \notin -1 .. 1)
     \/ /\ ~Due
        /\ UNCHANGED <<alarm, ghosts>>
  /\ UNCHANGED <<charge, elapsed, slept, played>>

\* the rest of the cycle
OtherTurn ==
  /\ lowAt \in {"start", "loop"}
  /\ \/ WaitingTurn \/ DrawTurn \/ ParadisiacTurn \/ ParadisiacLoop
     \/ \E load \in Loads : LoadTurn(load)
  /\ UNCHANGED <<alarm, time>>

\* checkAutoShutdown and checkAutoAlarm, which keep the main loop waiting
CheckTurn ==
  /\ \/ Low!checkAutoShutdown \/ Low!NoAlarm \/ Low!Ring \/ Low!Fork
     \/ Low!Played \/ Low!Restore \/ Low!FlashOver \/ Low!Kill
  /\ played' = IF lowAt' = "fork" THEN 0 ELSE played
  /\ UNCHANGED <<allVars, charge, elapsed, slept, ghosts>>

\* the user, the child and the signal
OutsideTurn ==
  /\ Low!Press \/ Low!SongEnds \/ Low!KillArrives \/ Low!stopFlashingLowBattery
  /\ UNCHANGED <<allVars, time>>

----------------------------------------------------------------------------
(* Time *)

\* mutant of Moves: the percentage is not bounded
MovesUnbounded ==
  IF sinceMove + 1 >= MoveTime THEN {level - 1, level, level + 1} ELSE {level}

\* the battery gains or loses one percent
Moves == IF sinceMove + 1 >= MoveTime THEN {level - 1, level, level + 1} \cap Percentages
         ELSE {level}

\* A second passes, in the sleep of a cycle or while the alarm is played
Tick ==
  /\ alive
  /\ \/ at = "event" /\ slept < MaxSleep /\ slept' = slept + 1 /\ UNCHANGED played
     \/ /\ child = "playing" \/ lowAt = "play"
        /\ played < MaxSong /\ played' = played + 1 /\ UNCHANGED slept
  /\ elapsed' = elapsed + 1
  /\ level' \in Moves
  /\ sinceMove' = IF level' # level THEN 0
                  ELSE IF sinceMove < MoveTime THEN sinceMove + 1 ELSE sinceMove
  /\ UNCHANGED <<allVars, alarm, ghosts>>

\* Somebody sets the clock back by a second.  Between two calls of time() it does
\* not matter when.
SetBack ==
  /\ at = "event"
  /\ elapsed > -MaxBack
  /\ sinceChange + elapsed > -MaxBack /\ sinceUpdate + elapsed > -MaxBack
  /\ elapsed' = elapsed - 1
  /\ setBack' = TRUE
  /\ UNCHANGED <<allVars, alarm, charge, slept, played, skipped>>

ForeignMoves == ForeignTurn /\ UNCHANGED <<alarm, time>>

----------------------------------------------------------------------------

DockInit ==
  /\ LoopInit /\ Low!Init
  /\ level = percentage /\ sinceMove = MoveTime
  /\ elapsed = 0 /\ slept = 0 /\ played = 0
  /\ setBack = FALSE /\ skipped = FALSE

DockProcess == FirstTurn \/ CycleTurn \/ PeriodTurn \/ OtherTurn \/ CheckTurn

DockNext == DockProcess \/ OutsideTurn \/ Tick \/ SetBack \/ ForeignMoves

\* The process runs, signals arrive, a song has an end, and so have the
\* cycles: every one sleeps, so that time passes again and again.
DockSpec ==
  /\ DockInit /\ [][DockNext]_dockVars
  /\ WF_dockVars(DockProcess) /\ SF_dockVars(Tick)
  /\ WF_dockVars(Low!SongEnds /\ UNCHANGED <<allVars, time>>)
  /\ WF_dockVars(Low!KillArrives /\ UNCHANGED <<allVars, time>>)
  /\ WF_dockVars(Low!stopFlashingLowBattery /\ UNCHANGED <<allVars, time>>)

----------------------------------------------------------------------------
(* Properties *)

\* Every variable of the composition keeps its type.
DockTypeOK ==
  /\ LoopTypeOK /\ Low!TypeOK
  /\ level \in Percentages /\ sinceMove \in 0 .. MoveTime
  /\ elapsed \in -MaxBack .. MaxSleep + MaxSong
  /\ slept \in 0 .. MaxSleep /\ played \in 0 .. MaxSong
  /\ setBack \in BOOLEAN /\ skipped \in BOOLEAN

\* The battery is slower than the longest time between two readings: a period
\* that has nearly passed, or an alarm, and one more cycle.
SlowEnough ==
  MoveTime >= MaxSleep + (IF MaxSong < BatteryPeriod THEN BatteryPeriod - 1 ELSE MaxSong)

\* event.c:140 and autoscript.c:23: with such a battery no percent is ever skipped
\* between two readings, though an alarm keeps the loop from looking at the
\* clock, unless the clock was set back.
NothingSkipped ==
  [][SlowEnough /\ ~setBack /\ lowAt = "loop" /\ lowAt' = "shutdown"
       => percentage' - percentage \in -1 .. 1]_dockVars

\* As long as no percent was skipped, a battery that has fallen to the shutdown
\* level, the AC adapter not being plugged in since it was above (main.c:195-196),
\* has called the shutdown by the time the alarm is considered.
ShutdownInTime == Low!ShutdownAsked \/ skipped

\* main.c:195-196, "enable autoshutdown when battery percentage is at N% (and AC
\* adapter is not plugged in)": a battery that stays at the shutdown level, or
\* under it, after it was above, with the adapter never found plugged in from
\* there on, shuts the laptop down in the end, whatever the alarm, the user and
\* the frequency do, once nobody sets the clock back any more.
ClockGoesOn == <>[][elapsed' < elapsed => at' # "event"]_dockVars

EmptyShutsDown ==
  ClockGoesOn /\ <>[](level <= ShutdownAt) /\ <>(above /\ []~isCharging)
    => <>(down \/ skipped \/ ~alive)

\* The loop also comes back from every alarm, with nobody clicking.
ServesAfterAlarm == []<>((at = "event" /\ lowAt = "loop") \/ ~alive)

\* The composition implements its two parts (their safety).
ImplementsLoop == LoopInit /\ [][LoopNext]_allVars
ImplementsLowBattery == Low!Init /\ [][Low!Next]_(Low!vars)
=============================================================================
