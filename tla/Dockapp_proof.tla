--------------------------- MODULE Dockapp_proof ---------------------------
(***************************************************************************)
(* Theorems about the whole dockapp: main loop and low battery checks are  *)
(* implemented by their composition, and with a battery slower than the    *)
(* longest time between two readings no percent is ever skipped, so that   *)
(* the shutdown is asked for in time.                                      *)
(***************************************************************************)
EXTENDS Dockapp, EventLoop_proof

----------------------------------------------------------------------------
(* Every step is one of the low battery checks *)

\* The main loop leaves the battery alone but for the battery period.
LEMMA StepIsLow ==
  ASSUME [DockNext]_dockVars
  PROVE  [Low!Next]_(Low!vars)
<1> USE DEF Low!Next, Low!Parent
<1>1. CASE UNCHANGED <<alarm, battery>>
  BY <1>1 DEF alarm, battery, Low!vars, Low!reading, Low!processes, Low!history
<1>2. CASE FirstTurn
  BY <1>2 DEF FirstTurn
<1>3. CASE PeriodTurn
  BY <1>1, <1>3 DEF PeriodTurn, UpdateTurn
<1>4. CASE CheckTurn \/ OutsideTurn
  BY <1>4 DEF CheckTurn, OutsideTurn
<1>5. CASE CycleTurn \/ OtherTurn
  BY <1>1, <1>5 DEF CycleTurn, EventTurn, OtherTurn, WaitingTurn, DrawTurn, ParadisiacTurn,
                    ParadisiacLoop, LoadTurn, loopVars
<1>6. CASE Tick \/ SetBack \/ ForeignMoves \/ UNCHANGED dockVars
  BY <1>1, <1>6 DEF Tick, SetBack, ForeignMoves, ForeignTurn, dockVars, allVars, loopVars
<1> QED BY <1>2, <1>3, <1>4, <1>5, <1>6 DEF DockNext, DockProcess

\* The dockapp implements the low battery checks, the battery moving as it likes.
THEOREM DockImplementsLowBattery == DockSpec => ImplementsLowBattery
<1>1. DockInit => Low!Init
  BY DEF DockInit
<1> QED BY <1>1, StepIsLow, PTL DEF DockSpec, ImplementsLowBattery

\* The parent and its child, as in LowBattery_proof.
ChildInv == Low!TypeOK /\ Low!Armed /\ Low!ChildWatched /\ Low!SignalUnderWay

LEMMA InitDockChild == DockInit => ChildInv
BY LoopAssumption
   DEF DockInit, Low!Init, ChildInv, Low!TypeOK, Low!Armed, Low!ChildWatched,
       Low!SignalUnderWay, Low!Places, Low!ChildStates, Low!UNKNOWN

LEMMA StepDockChild == ChildInv /\ [DockNext]_dockVars => ChildInv'
<1> SUFFICES ASSUME ChildInv, [Low!Next]_(Low!vars) PROVE ChildInv'
  BY StepIsLow
<1> USE DEF ChildInv, Low!TypeOK, Low!Armed, Low!ChildWatched, Low!SignalUnderWay, Low!Places,
            Low!ChildStates, Low!reading, Low!processes, Low!history
<1>1. CASE Low!FirstReading \/ Low!Update
  BY <1>1 DEF Low!FirstReading, Low!Update
<1>2. CASE Low!checkAutoShutdown
  BY <1>2 DEF Low!checkAutoShutdown, Low!Crossing
<1>11. CASE Low!NoAlarm
  BY <1>11 DEF Low!NoAlarm
<1>3. CASE Low!Ring
  BY <1>3 DEF Low!Ring
<1>4. CASE Low!Fork
  BY <1>4 DEF Low!Fork
<1>5. CASE Low!Played \/ Low!FlashOver \/ Low!Press
  BY <1>5 DEF Low!Played, Low!FlashOver, Low!Press
<1>6. CASE Low!Restore
  BY <1>6 DEF Low!Restore
<1>7. CASE Low!Kill
  BY <1>7 DEF Low!Kill
<1>8. CASE Low!SongEnds \/ Low!KillArrives
  BY <1>8 DEF Low!SongEnds, Low!KillArrives, Low!Dies
<1>9. CASE Low!stopFlashingLowBattery
  BY <1>9 DEF Low!stopFlashingLowBattery
<1>10. CASE UNCHANGED Low!vars
  BY <1>10 DEF Low!vars
<1> QED BY <1>1, <1>2, <1>3, <1>4, <1>5, <1>6, <1>7, <1>8, <1>9, <1>10, <1>11
       DEF Low!Next, Low!Parent

----------------------------------------------------------------------------
(* What the steps do to the places and to the time *)

LEMMA OtherMoves ==
  ASSUME OtherTurn
  PROVE  /\ UNCHANGED <<alarm, time, percentage, sinceUpdate>>
         /\ lowAt \in {"start", "loop"}
         /\ \/ at' = at
            \/ at = "draw" /\ at' = "update"
            \/ at = "start_max" /\ at' = "event"
            \/ at = "paradisiac" /\ at' = "max"
            \/ at \in {"paradisiac", "max"} /\ at' = "load"
            \/ at = "load" /\ at' = "event"
BY DEF OtherTurn, WaitingTurn, DrawTurn, ParadisiacTurn, ParadisiacLoop, LoadTurn, loopVars,
       ages, battery

LEMMA CheckMoves ==
  ASSUME CheckTurn \/ OutsideTurn
  PROVE  /\ UNCHANGED <<allVars, charge, elapsed, slept, ghosts>>
         /\ UNCHANGED <<at, percentage, sinceUpdate>>
         /\ lowAt' = lowAt \/ (lowAt \notin {"start", "loop"} /\ lowAt' # "start")
         /\ lowAt' \in {"shutdown", "alarm"} => lowAt \in {"shutdown", "alarm"}
         /\ played' = played \/ (lowAt = "alarm" /\ played' = 0)
<1>1. /\ lowAt' = lowAt \/ (lowAt \notin {"start", "loop"} /\ lowAt' # "start")
      /\ lowAt' \in {"shutdown", "alarm"} => lowAt \in {"shutdown", "alarm"}
      /\ lowAt' = "fork" => lowAt \in {"alarm", "fork"}
  BY DEF CheckTurn, OutsideTurn, Low!checkAutoShutdown, Low!NoAlarm, Low!Ring, Low!Fork,
         Low!Played, Low!Restore, Low!FlashOver, Low!Kill, Low!Press, Low!SongEnds,
         Low!KillArrives, Low!Dies, Low!stopFlashingLowBattery
<1>2. UNCHANGED <<allVars, charge, elapsed, slept, ghosts>>
  BY DEF CheckTurn, OutsideTurn, time
<1>3. UNCHANGED <<at, percentage, sinceUpdate>>
  BY <1>2 DEF allVars, loopVars, ages, battery
<1>4. played' = played \/ (lowAt = "alarm" /\ played' = 0)
  <2>1. CASE CheckTurn /\ lowAt' = "fork"
    BY <2>1 DEF CheckTurn, Low!checkAutoShutdown, Low!NoAlarm, Low!Ring, Low!Fork,
                Low!Played, Low!Restore, Low!FlashOver, Low!Kill
  <2> QED BY <2>1 DEF CheckTurn, OutsideTurn, time
<1> QED BY <1>1, <1>2, <1>3, <1>4

----------------------------------------------------------------------------
(* The main loop *)

\* Time passes in the sleep of a cycle and in the one alarm a cycle may have,
\* which keeps the loop at its place.
CycleTime ==
  /\ elapsed \in Int /\ slept \in 0 .. MaxSleep /\ played \in 0 .. MaxSong
  /\ -MaxBack <= elapsed /\ elapsed <= slept + played
  /\ at = "start" => lowAt = "start"
  /\ lowAt = "start" => at = "start"
  /\ lowAt \notin {"start", "loop"} => at \in {"load", "paradisiac"}
  /\ at \notin {"event", "load", "paradisiac", "max"} => elapsed = 0
  /\ at # "event" => slept = 0
  /\ lowAt \in {"shutdown", "alarm"} => elapsed <= 0

LEMMA StepCycleTime ==
  ASSUME ChildInv, CycleTime, [DockNext]_dockVars
  PROVE  CycleTime'
<1> USE LoopAssumption, TimeAssumption DEF CycleTime
<1>1. CASE FirstTurn
  BY <1>1 DEF FirstTurn, StartUp, Low!FirstReading, time, charge
<1>2. CASE CycleTurn
  BY <1>2 DEF CycleTurn, EventTurn, alarm
<1>3. CASE PeriodTurn
  BY <1>3 DEF PeriodTurn, UpdateTurn, Low!Update, alarm
<1>4. CASE OtherTurn
  BY <1>4, OtherMoves DEF alarm, time, charge
<1>5. CASE CheckTurn \/ OutsideTurn
  BY <1>5, CheckMoves
<1>6. CASE Tick
  BY <1>6 DEF Tick, alarm, allVars, loopVars, ChildInv, Low!ChildWatched
<1>7. CASE SetBack
  BY <1>7 DEF SetBack, alarm, allVars, loopVars
<1>8. CASE ForeignMoves \/ UNCHANGED dockVars
  BY <1>8 DEF ForeignMoves, ForeignTurn, alarm, allVars, loopVars, time, charge, dockVars
<1> QED BY <1>1, <1>2, <1>3, <1>4, <1>5, <1>6, <1>7, <1>8 DEF DockNext, DockProcess

\* Every step of the dockapp is a step of its main loop, or none.
LEMMA StepIsLoop ==
  ASSUME CycleTime, [DockNext]_dockVars
  PROVE  [LoopNext]_allVars
<1> USE DEF LoopNext, ProcessTurn
<1>1. CASE FirstTurn
  BY <1>1 DEF FirstTurn
<1>2. CASE CycleTurn
  <2>1. elapsed \in Gaps
    BY LoopAssumption, TimeAssumption DEF CycleTime
  <2> QED BY <1>2, <2>1 DEF CycleTurn
<1>3. CASE PeriodTurn \/ OtherTurn
  BY <1>3 DEF PeriodTurn, OtherTurn
<1>4. CASE CheckTurn \/ OutsideTurn \/ Tick \/ SetBack \/ UNCHANGED dockVars
  BY <1>4 DEF CheckTurn, OutsideTurn, Tick, SetBack, dockVars
<1>5. CASE ForeignMoves
  BY <1>5 DEF ForeignMoves
<1> QED BY <1>1, <1>2, <1>3, <1>4, <1>5 DEF DockNext, DockProcess

DockInv == ChildInv /\ CycleTime

LEMMA InitDock == DockInit => DockInv
BY InitDockChild, LoopAssumption, TimeAssumption
   DEF DockInit, DockInv, CycleTime, LoopInit, Low!Init

LEMMA StepDock == DockInv /\ [DockNext]_dockVars => DockInv'
BY StepDockChild, StepCycleTime DEF DockInv

\* The dockapp implements its main loop: the alarm and real time only delay it.
THEOREM DockImplementsLoop == DockSpec => ImplementsLoop
<1>1. DockInit => LoopInit
  BY DEF DockInit
<1>2. DockInv /\ [DockNext]_dockVars => [LoopNext]_allVars
  BY StepIsLoop DEF DockInv
<1> QED BY InitDock, StepDock, <1>1, <1>2, PTL DEF DockSpec, ImplementsLoop

\* Nor does the dockapp leave a child, a zombie or a signal behind.
THEOREM DockNoChildLeft == DockSpec => []Low!NothingLeft
<1>1. ChildInv => Low!NothingLeft
  BY DEF ChildInv, Low!ChildWatched, Low!SignalUnderWay, Low!NothingLeft
<1> QED BY InitDockChild, StepDockChild, <1>1, PTL DEF DockSpec

----------------------------------------------------------------------------
(* Types *)

\* What the composition adds to its two parts.
TimeTypes ==
  /\ level \in Percentages /\ sinceMove \in 0 .. MoveTime
  /\ setBack \in BOOLEAN /\ skipped \in BOOLEAN

LEMMA StepTimeTypes == TimeTypes /\ [DockNext]_dockVars => TimeTypes'
<1> SUFFICES ASSUME TimeTypes, [DockNext]_dockVars PROVE TimeTypes'
  OBVIOUS
<1> USE DEF TimeTypes, time, charge, ghosts
<1>1. CASE UNCHANGED <<charge, ghosts>>
  BY <1>1
<1>2. CASE PeriodTurn
  BY <1>2 DEF PeriodTurn
<1>3. CASE SetBack
  BY <1>3 DEF SetBack
<1>4. CASE Tick
  <2>1. level' \in Percentages /\ UNCHANGED ghosts
    BY <1>4 DEF Tick, Moves
  <2>2. sinceMove' = IF level' # level THEN 0
                     ELSE IF sinceMove < MoveTime THEN sinceMove + 1 ELSE sinceMove
    BY <1>4 DEF Tick
  <2>3. sinceMove' \in 0 .. MoveTime
    BY <2>2, TimeAssumption
  <2> QED BY <2>1, <2>3
<1>5. CASE FirstTurn \/ CycleTurn \/ OtherTurn \/ ForeignMoves
  BY <1>1, <1>5 DEF FirstTurn, CycleTurn, OtherTurn, ForeignMoves
<1>6. CASE CheckTurn \/ OutsideTurn
  BY <1>1, <1>6, CheckMoves
<1> QED BY <1>1, <1>2, <1>3, <1>4, <1>5, <1>6 DEF DockNext, DockProcess, dockVars

\* Every variable of the composed program keeps its type: elapsed never holds more
\* than a cycle and its alarm, however the clock is set back in between.
THEOREM DockTypes == DockSpec => []DockTypeOK
<1>1. DockInit => TimeTypes
  <2> SUFFICES ASSUME DockInit PROVE TimeTypes
    OBVIOUS
  <2>1. /\ percentage \in Percentages /\ level = percentage /\ sinceMove = MoveTime
        /\ setBack = FALSE /\ skipped = FALSE
    BY DEF DockInit, LoopInit
  <2>2. MoveTime \in 0 .. MoveTime
    BY TimeAssumption
  <2> QED BY <2>1, <2>2 DEF TimeTypes
<1>2. ImplementsLoop => []LoopTypeOK
  <2>1. LoopInit => SyncInv /\ saved_autoFreq \in BOOLEAN /\ LoopTypeOK
    BY InitSync, InitTypes DEF LoopInit
  <2> QED BY <2>1, LoopStep, StepTypes, PTL DEF ImplementsLoop
<1>3. DockInv /\ TimeTypes /\ LoopTypeOK => DockTypeOK
  <2> SUFFICES ASSUME DockInv, TimeTypes, LoopTypeOK PROVE DockTypeOK
    OBVIOUS
  <2>1. elapsed \in -MaxBack .. MaxSleep + MaxSong /\ slept \in 0 .. MaxSleep
        /\ played \in 0 .. MaxSong
    BY LoopAssumption, TimeAssumption DEF DockInv, CycleTime
  <2> QED BY <2>1 DEF DockInv, ChildInv, TimeTypes, DockTypeOK
<1>4. DockSpec => [](DockInv /\ TimeTypes)
  BY InitDock, StepDock, StepTimeTypes, <1>1, PTL DEF DockSpec
<1> QED BY <1>2, <1>3, <1>4, DockImplementsLoop, PTL

----------------------------------------------------------------------------
(* The shutdown *)

\* What checkAutoShutdown has seen, and how far the reading is from it.
Seen ==
  /\ skipped \in BOOLEAN
  /\ lowAt = "start" => lastShutdown = Low!UNKNOWN
  /\ lowAt = "loop" => lastShutdown \in {percentage, Low!UNKNOWN}
  /\ lowAt \notin {"start", "loop", "shutdown"} => lastShutdown = percentage
  /\ lastShutdown = Low!UNKNOWN => highest = 0
  /\ lowAt = "shutdown" /\ lastShutdown # Low!UNKNOWN /\ ~skipped
       => percentage - lastShutdown \in -1 .. 1
  /\ ~skipped => Low!Asked

LEMMA StepSeen ==
  ASSUME ChildInv, Seen, [DockNext]_dockVars
  PROVE  Seen'
<1> USE LoopAssumption, TimeAssumption DEF Seen, ChildInv, Low!TypeOK, Low!UNKNOWN, Low!Asked
<1>1. CASE UNCHANGED <<lowAt, lastShutdown, percentage, highest, skipped, down>>
  BY <1>1
<1>2. CASE FirstTurn
  BY <1>2 DEF FirstTurn, Low!FirstReading, Low!history, time, ghosts
<1>3. CASE PeriodTurn
  <2>1. CASE Due
    <3>1. /\ lowAt = "loop" /\ lowAt' = "shutdown"
          /\ UNCHANGED <<lastShutdown, highest, down>>
          /\ skipped' = (skipped \/ percentage' - percentage \notin -1 .. 1)
      BY <1>3, <2>1 DEF PeriodTurn, Low!Update, Low!history
    <3>2. skipped' \in BOOLEAN /\ (~skipped' => ~skipped /\ percentage' - percentage \in -1 .. 1)
      BY <3>1
    <3> QED BY <3>1, <3>2
  <2>2. CASE ~Due
    BY <1>1, <1>3, <2>2 DEF PeriodTurn, UpdateTurn, battery, alarm, ghosts
  <2> QED BY <2>1, <2>2
<1>4. CASE CheckTurn \/ OutsideTurn
  <2>1. UNCHANGED <<percentage, skipped>>
    BY <1>4, CheckMoves DEF ghosts
  <2>2. CASE Low!checkAutoShutdown
    <3>1. /\ lowAt = "shutdown" /\ lowAt' = "alarm" /\ lastShutdown' = percentage
          /\ highest' = (IF percentage > highest THEN percentage ELSE highest)
          /\ down' = (down \/ Low!Crossing(lastShutdown, ShutdownAt))
      BY <2>2 DEF Low!checkAutoShutdown
    <3>2. ASSUME ~skipped, highest' > ShutdownAt, percentage <= ShutdownAt
          PROVE  down \/ (lastShutdown = ShutdownAt + 1 /\ percentage = ShutdownAt)
      BY <3>1, <3>2
    <3>3. ~skipped => Low!Asked'
      BY <3>1, <3>2 DEF Low!Crossing
    <3> QED BY <2>1, <3>1, <3>3
  <2>3. CASE ~Low!checkAutoShutdown
    <3>1. /\ UNCHANGED <<lastShutdown, highest, down>>
          /\ \/ lowAt' = lowAt
             \/ lowAt \notin {"start", "loop", "shutdown"} /\ lowAt' \notin {"start", "shutdown"}
      BY <1>4, <2>3
         DEF CheckTurn, OutsideTurn, Low!NoAlarm, Low!Ring, Low!Fork, Low!Played, Low!Restore,
             Low!FlashOver, Low!Kill, Low!Press, Low!SongEnds, Low!KillArrives, Low!Dies,
             Low!stopFlashingLowBattery, Low!history
    <3> QED BY <2>1, <3>1
  <2> QED BY <2>2, <2>3
<1>5. CASE CycleTurn
  BY <1>1, <1>5 DEF CycleTurn, EventTurn, alarm, battery, ghosts
<1>6. CASE OtherTurn
  BY <1>1, <1>6, OtherMoves DEF alarm, time, ghosts
<1>7. CASE Tick \/ SetBack \/ ForeignMoves \/ UNCHANGED dockVars
  BY <1>1, <1>7 DEF Tick, SetBack, ForeignMoves, ForeignTurn, dockVars, allVars, loopVars,
                    battery, alarm, time, ghosts
<1> QED BY <1>2, <1>3, <1>4, <1>5, <1>6, <1>7 DEF DockNext, DockProcess

\* As in LowBattery_proof.
LEMMA StepDockAbove == ChildInv /\ Low!OnceAbove /\ [DockNext]_dockVars => Low!OnceAbove'
<1> SUFFICES ASSUME ChildInv, Low!OnceAbove, [Low!Next]_(Low!vars) PROVE Low!OnceAbove'
  BY StepIsLow
<1>1. CASE Low!checkAutoShutdown
  <2>1. /\ above' => above \/ percentage > ShutdownAt
        /\ highest' = IF percentage > highest THEN percentage ELSE highest
    BY <1>1 DEF Low!checkAutoShutdown
  <2>2. percentage \in Nat /\ highest \in Nat /\ ShutdownAt \in Nat
    BY LoopAssumption, TimeAssumption DEF ChildInv, Low!TypeOK
  <2> QED BY <2>1, <2>2 DEF Low!OnceAbove
<1>2. CASE ~Low!checkAutoShutdown
  <2>1. UNCHANGED <<highest, above>>
    BY <1>2 DEF Low!Next, Low!Parent, Low!FirstReading, Low!Update, Low!NoAlarm, Low!Ring,
                Low!Fork, Low!Played, Low!Restore, Low!FlashOver, Low!Kill, Low!Press,
                Low!SongEnds, Low!KillArrives, Low!Dies, Low!stopFlashingLowBattery,
                Low!vars, Low!history
  <2> QED BY <2>1 DEF Low!OnceAbove
<1> QED BY <1>1, <1>2

\* As long as no two readings were more than one percent apart, the shutdown is
\* called when a discharge without the AC adapter crosses its level, whatever the
\* alarm, the frequency and the clock do in between.
THEOREM ShutdownNotMissed == DockSpec => []ShutdownInTime
<1>1. DockInit => Seen
  <2> SUFFICES ASSUME DockInit PROVE Seen
    OBVIOUS
  <2>1. lowAt = "start" /\ lastShutdown = Low!UNKNOWN /\ highest = 0 /\ skipped = FALSE
    BY DEF DockInit, Low!Init
  <2>2. Low!Asked
    BY <2>1, TimeAssumption DEF Low!Asked
  <2> QED BY <2>1, <2>2, Zenon DEF Seen
<1>2. ChildInv /\ Seen /\ [DockNext]_dockVars => Seen'
  BY StepSeen
<1>3. Seen /\ Low!OnceAbove => ShutdownInTime
  BY DEF Seen, Low!Asked, Low!OnceAbove, ShutdownInTime, Low!ShutdownAsked
<1>4. DockInit => Low!OnceAbove
  BY DEF DockInit, Low!Init, Low!OnceAbove
<1> QED BY InitDockChild, StepDockChild, StepDockAbove, <1>1, <1>2, <1>3, <1>4, PTL DEF DockSpec

----------------------------------------------------------------------------
(* No percent is skipped *)

\* One move at most since the last reading, and not before it
MovedOnce ==
  \/ level = percentage
  \/ level \in {percentage - 1, percentage + 1} /\ sinceMove < sinceUpdate + elapsed

\* Unless the clock was set back, sinceUpdate + elapsed is the time since the
\* last reading: what is left of a period and a cycle, or an alarm and a cycle.
BatteryTime ==
  /\ level \in Int /\ sinceMove \in Int /\ sinceUpdate \in Int
  /\ at = "start" => sinceUpdate = 0
  /\ lowAt \notin {"start", "loop"} => sinceUpdate = 0
  /\ ~setBack =>
       /\ elapsed >= 0 /\ sinceUpdate >= 0
       /\ \/ at = "start"
          \/ at \in {"draw", "update"} /\ Due /\ level - percentage \in -1 .. 1
          \/ /\ \/ sinceUpdate < BatteryPeriod /\ elapsed <= slept
                \/ sinceUpdate = 0
             /\ MovedOnce

LEMMA TickBatteryTime ==
  ASSUME SlowEnough, DockInv, BatteryTime, Tick
  PROVE  BatteryTime'
<1>0. /\ level \in Int /\ sinceMove \in Int /\ sinceUpdate \in Int /\ elapsed \in Int
      /\ slept \in 0 .. MaxSleep /\ played \in 0 .. MaxSong /\ elapsed <= slept + played
      /\ MaxSleep \in Nat /\ MaxSong \in Nat /\ MoveTime \in Nat /\ BatteryPeriod \in Nat \ {0}
  BY LoopAssumption, TimeAssumption DEF BatteryTime, DockInv, CycleTime
<1>1. /\ UNCHANGED <<at, lowAt, percentage, sinceUpdate, setBack, skipped>>
      /\ elapsed' = elapsed + 1
  BY DEF Tick, allVars, loopVars, ages, battery, alarm, ghosts
<1>2. /\ at \notin {"start", "draw", "update"}
      /\ \/ slept' = slept + 1 /\ slept < MaxSleep /\ played' = played
         \/ slept' = slept /\ played' = played + 1 /\ played < MaxSong /\ sinceUpdate = 0
  <2>1. CASE at = "event" /\ slept < MaxSleep /\ slept' = slept + 1 /\ UNCHANGED played
    BY <2>1
  <2>2. CASE child = "playing" \/ lowAt = "play"
    <3>1. lowAt \notin {"start", "loop"} /\ at \in {"load", "paradisiac"} /\ sinceUpdate = 0
      BY <2>2 DEF DockInv, ChildInv, Low!ChildWatched, CycleTime, BatteryTime
    <3> QED BY <3>1 DEF Tick
  <2> QED BY <2>1, <2>2 DEF Tick
<1>3. /\ level' \in Int
      /\ level' = level \/ (sinceMove + 1 >= MoveTime /\ level' \in {level - 1, level + 1})
      /\ sinceMove' \in Int
      /\ level' # level => sinceMove' = 0
      /\ level' = level => sinceMove' <= sinceMove + 1
  <2>1. level' \in Moves /\ sinceMove' = (IF level' # level THEN 0
                          ELSE IF sinceMove < MoveTime THEN sinceMove + 1 ELSE sinceMove)
    BY DEF Tick
  <2>2. level' \in {level - 1, level, level + 1} /\ (level' = level \/ sinceMove + 1 >= MoveTime)
    BY <2>1 DEF Moves
  <2>3. level' = level \/ level' = level - 1 \/ level' = level + 1
    BY <2>2
  <2> QED BY <1>0, <2>1, <2>2, <2>3
<1>4. ASSUME ~setBack
      PROVE  \/ sinceUpdate < BatteryPeriod /\ elapsed <= slept
             \/ sinceUpdate = 0
  BY <1>2, <1>4 DEF BatteryTime
<1>5. ASSUME ~setBack PROVE sinceUpdate + elapsed < MoveTime
  <2>1. CASE sinceUpdate < BatteryPeriod /\ elapsed <= slept
    BY <1>0, <1>2, <2>1 DEF SlowEnough
  <2>2. CASE sinceUpdate = 0
    BY <1>0, <1>2, <2>2 DEF SlowEnough
  <2> QED BY <1>4, <1>5, <2>1, <2>2
<1>6. ASSUME ~setBack PROVE MovedOnce'
  <2>1. /\ elapsed >= 0 /\ sinceUpdate >= 0
        /\ level = percentage \/ (level \in {percentage - 1, percentage + 1} /\ sinceMove < sinceUpdate + elapsed)
    BY <1>2, <1>6 DEF BatteryTime, MovedOnce
  <2> QED BY <1>0, <1>1, <1>3, <1>5, <1>6, <2>1 DEF MovedOnce
<1>7. ~setBack' => elapsed' >= 0 /\ sinceUpdate' >= 0
  BY <1>0, <1>1 DEF BatteryTime
<1>8. ~setBack => \/ sinceUpdate' < BatteryPeriod /\ elapsed' <= slept'
                  \/ sinceUpdate' = 0
  BY <1>0, <1>1, <1>2, <1>4
<1> QED BY <1>0, <1>1, <1>2, <1>3, <1>6, <1>7, <1>8 DEF BatteryTime

LEMMA CycleBatteryTime ==
  ASSUME DockInv, BatteryTime, CycleTurn
  PROVE  BatteryTime'
<1>0. /\ level \in Int /\ sinceMove \in Int /\ sinceUpdate \in Int /\ elapsed \in Int
      /\ BatteryPeriod \in Nat \ {0}
  BY LoopAssumption DEF BatteryTime, DockInv, CycleTime
<1>1. /\ UNCHANGED <<lowAt, percentage, level, sinceMove, setBack>>
      /\ elapsed' = 0 /\ lowAt = "loop" /\ at = "event" /\ at' \in {"draw", "update"}
      /\ sinceUpdate' \in Aged(sinceUpdate, elapsed, BatteryPeriod + 1)
  BY DEF CycleTurn, EventTurn, ClockMoves, alarm, charge, battery, ghosts
<1>2. sinceUpdate' \in Int
  BY <1>0, <1>1 DEF Aged
<1>3. ASSUME ~setBack
      PROVE  /\ elapsed >= 0 /\ sinceUpdate >= 0 /\ MovedOnce
             /\ sinceUpdate' = IF sinceUpdate + elapsed < BatteryPeriod + 1
                               THEN sinceUpdate + elapsed ELSE BatteryPeriod + 1
  BY <1>0, <1>1, <1>3 DEF BatteryTime, Aged
<1>4. ASSUME ~setBack, sinceUpdate' >= BatteryPeriod
      PROVE  level' - percentage' \in -1 .. 1
  <2>1. level = percentage \/ level = percentage - 1 \/ level = percentage + 1
    BY <1>3, <1>4 DEF MovedOnce
  <2>2. percentage \in Int
    BY LoopAssumption DEF DockInv, ChildInv, Low!TypeOK
  <2> QED BY <1>0, <1>1, <2>1, <2>2
<1>5. ASSUME ~setBack, sinceUpdate' < BatteryPeriod
      PROVE  sinceUpdate' = sinceUpdate + elapsed /\ MovedOnce' /\ elapsed' <= slept'
  <2>1. sinceUpdate' = sinceUpdate + elapsed /\ sinceUpdate' + elapsed' = sinceUpdate + elapsed
    BY <1>0, <1>1, <1>3, <1>5
  <2>2. slept' = 0
    BY DEF CycleTurn
  <2> QED BY <1>0, <1>1, <1>3, <1>5, <2>1, <2>2 DEF MovedOnce
<1>6. sinceUpdate' >= BatteryPeriod \/ sinceUpdate' < BatteryPeriod
  BY <1>0, <1>2
<1>7. ~setBack => elapsed' >= 0 /\ sinceUpdate' >= 0
  BY <1>0, <1>1, <1>3
<1>8. Due' <=> sinceUpdate' >= BatteryPeriod
  BY DEF Due
<1> QED BY <1>0, <1>1, <1>2, <1>4, <1>5, <1>6, <1>7, <1>8 DEF BatteryTime

\* The reading is the charge of the battery.
LEMMA PeriodBatteryTime ==
  ASSUME DockInv, BatteryTime, PeriodTurn
  PROVE  BatteryTime'
<1>0. at = "update" /\ elapsed = 0 /\ slept = 0 /\ UNCHANGED <<level, sinceMove, elapsed, slept, played>>
  BY DEF PeriodTurn, UpdateTurn, DockInv, CycleTime, charge
<1>1. CASE Due
  <2>1. /\ sinceUpdate' = 0 /\ setBack' = FALSE /\ percentage' = level
        /\ at' \in {"load", "paradisiac"}
    BY <1>1 DEF PeriodTurn, UpdateTurn
  <2> QED BY <1>0, <2>1 DEF BatteryTime, MovedOnce
<1>2. CASE ~Due
  <2>1. UNCHANGED <<sinceUpdate, setBack, percentage, lowAt>> /\ at' = "load" /\ lowAt = "loop"
    BY <1>2 DEF PeriodTurn, UpdateTurn, ages, battery, alarm, ghosts
  <2> QED BY <1>0, <1>2, <2>1 DEF BatteryTime, MovedOnce
<1> QED BY <1>1, <1>2

LEMMA StepBatteryTime ==
  ASSUME SlowEnough, DockInv, BatteryTime, [DockNext]_dockVars
  PROVE  BatteryTime'
<1>1. CASE FirstTurn
  <2>1. /\ UNCHANGED <<level, sinceMove, sinceUpdate, elapsed, slept, played, setBack>>
        /\ percentage' = level /\ at = "start" /\ at' \in {"start_max", "event"} /\ lowAt' = "loop"
    BY <1>1 DEF FirstTurn, StartUp, Low!FirstReading, time, charge, ghosts, ages
  <2> QED BY <2>1, LoopAssumption DEF BatteryTime, MovedOnce, DockInv, CycleTime
<1>2. CASE OtherTurn
  <2>1. UNCHANGED <<level, sinceMove, sinceUpdate, elapsed, slept, played, setBack, percentage, lowAt>>
    BY <1>2, OtherMoves DEF time, charge, ghosts, alarm
  <2>2. \/ at' = at
        \/ at = "draw" /\ at' = "update"
        \/ at \notin {"start", "draw", "update"} /\ at' \notin {"start", "draw", "update"}
    BY <1>2, OtherMoves
  <2> QED BY <2>1, <2>2 DEF BatteryTime, MovedOnce, Due
<1>3. CASE CheckTurn \/ OutsideTurn
  <2>1. /\ UNCHANGED <<level, sinceMove, sinceUpdate, elapsed, slept, setBack, percentage, at>>
        /\ lowAt' = lowAt \/ lowAt \notin {"start", "loop"}
    BY <1>3, CheckMoves DEF charge, ghosts
  <2> QED BY <2>1 DEF BatteryTime, MovedOnce, Due
<1>4. CASE SetBack
  BY <1>4 DEF SetBack, BatteryTime, allVars, loopVars, ages, charge, alarm
<1>5. CASE ForeignMoves \/ UNCHANGED dockVars
  <2>1. UNCHANGED <<level, sinceMove, sinceUpdate, elapsed, slept, setBack, percentage, at, lowAt>>
    BY <1>5 DEF ForeignMoves, ForeignTurn, dockVars, allVars, loopVars, ages, battery, alarm,
                time, charge, ghosts
  <2> QED BY <2>1 DEF BatteryTime, MovedOnce, Due
<1> QED BY <1>1, <1>2, <1>3, <1>4, <1>5, TickBatteryTime, CycleBatteryTime, PeriodBatteryTime
        DEF DockNext, DockProcess

LEMMA InitBatteryTime == DockInit => BatteryTime
<1> SUFFICES ASSUME DockInit PROVE BatteryTime
  OBVIOUS
<1>1. /\ level = percentage /\ percentage \in Percentages /\ sinceMove = MoveTime
      /\ sinceUpdate = 0 /\ elapsed = 0 /\ at = "start" /\ lowAt = "start"
  BY DEF DockInit, LoopInit, Low!Init
<1>2. level \in Int /\ sinceMove \in Int
  BY <1>1, LoopAssumption, TimeAssumption
<1> QED BY <1>1, <1>2 DEF BatteryTime

\* A battery slower than the longest time between two readings is never read a
\* percent too late, unless the clock was set back: not even during an alarm.
THEOREM SlowBatteryIsFollowed == ASSUME SlowEnough PROVE DockSpec => NothingSkipped
<1>1. DockInv /\ BatteryTime /\ [DockNext]_dockVars => BatteryTime'
  BY StepBatteryTime
<1>2. DockInv /\ BatteryTime /\ [DockNext]_dockVars
        => [SlowEnough /\ ~setBack /\ lowAt = "loop" /\ lowAt' = "shutdown"
              => percentage' - percentage \in -1 .. 1]_dockVars
  <2> SUFFICES ASSUME DockInv, BatteryTime, DockNext, ~setBack, lowAt = "loop", lowAt' = "shutdown"
               PROVE  percentage' - percentage \in -1 .. 1
    OBVIOUS
  <2>1. ~FirstTurn /\ ~CycleTurn /\ ~OtherTurn /\ ~Tick /\ ~SetBack /\ ~ForeignMoves
    BY OtherMoves DEF FirstTurn, Low!FirstReading, CycleTurn, Tick, SetBack, ForeignMoves, alarm
  <2>2. PeriodTurn
    BY <2>1, CheckMoves DEF DockNext, DockProcess
  <2>3. /\ at = "update" /\ Due /\ percentage' = level
    BY <2>2 DEF PeriodTurn, UpdateTurn, alarm
  <2>4. level - percentage \in -1 .. 1 \/ MovedOnce
    BY <2>3 DEF BatteryTime
  <2>5. percentage \in Int
    BY LoopAssumption DEF DockInv, ChildInv, Low!TypeOK
  <2>6. level - percentage \in -1 .. 1
    BY <2>4, <2>5 DEF MovedOnce
  <2> QED BY <2>3, <2>6
<1> QED BY InitDock, StepDock, InitBatteryTime, <1>1, <1>2, PTL DEF DockSpec, NothingSkipped

\* So, when nobody sets the clock back, the shutdown is always called at its level.
THEOREM ShutdownCalled ==
  ASSUME SlowEnough
  PROVE  DockSpec /\ []~setBack => []Low!ShutdownAsked
<1>1. DockInit => ~skipped
  BY DEF DockInit
<1>2. /\ ~setBack /\ ~skipped /\ [DockNext]_dockVars
      /\ [SlowEnough /\ ~setBack /\ lowAt = "loop" /\ lowAt' = "shutdown"
            => percentage' - percentage \in -1 .. 1]_dockVars
      => ~skipped'
  <2> SUFFICES ASSUME ~setBack, ~skipped, [DockNext]_dockVars,
                      DockNext /\ lowAt = "loop" /\ lowAt' = "shutdown"
                        => UNCHANGED dockVars \/ percentage' - percentage \in -1 .. 1
               PROVE  ~skipped'
    OBVIOUS
  <2>1. CASE UNCHANGED dockVars
    BY <2>1 DEF dockVars, time, ghosts
  <2>2. CASE PeriodTurn
    <3>1. CASE Due
      BY <2>2, <3>1, <2>1 DEF PeriodTurn, Low!Update, DockNext, DockProcess
    <3> QED BY <2>2, <3>1 DEF PeriodTurn, ghosts
  <2>3. CASE CheckTurn \/ OutsideTurn
    BY <2>3, CheckMoves DEF ghosts
  <2>4. CASE OtherTurn
    BY <2>4, OtherMoves DEF time, ghosts
  <2>5. CASE FirstTurn \/ CycleTurn \/ Tick \/ SetBack \/ ForeignMoves
    BY <2>5 DEF FirstTurn, CycleTurn, Tick, SetBack, ForeignMoves, time, ghosts
  <2> QED BY <2>1, <2>2, <2>3, <2>4, <2>5 DEF DockNext, DockProcess
<1>3. ShutdownInTime /\ ~skipped => Low!ShutdownAsked
  BY DEF ShutdownInTime
<1>4. DockSpec => NothingSkipped
  BY SlowBatteryIsFollowed
<1> QED BY <1>1, <1>2, <1>3, <1>4, ShutdownNotMissed, PTL DEF DockSpec, NothingSkipped

\* In the whole dockapp, too, auto-freq writes once in a second at most and
\* never undoes a click.
THEOREM DockAutoFreq == DockSpec => OneStepPerSecond /\ ManualStaysManual
<1>1. LoopInit => SteppedNow /\ ManualIsOff /\ SyncInv /\ saved_autoFreq \in BOOLEAN
  BY InitSync DEF LoopInit, SteppedNow, ManualIsOff
<1>2. SyncInv /\ SteppedNow /\ [LoopNext]_allVars => [Idle /\ setFreq' # setFreq => ~stepped]_allVars
  BY OnlyScaledWrites DEF SteppedNow, allVars
<1>3. SyncInv /\ ManualIsOff /\ [LoopNext]_allVars => [Idle /\ setFreq' # setFreq => ~manual]_allVars
  BY OnlyScaledWrites DEF ManualIsOff, Idle, allVars
<1> QED BY <1>1, <1>2, <1>3, SteppedStep, ManualStep, LoopStep, DockImplementsLoop, PTL
        DEF ImplementsLoop, OneStepPerSecond, ManualStaysManual
=============================================================================
