-------------------------- MODULE LowBattery_proof --------------------------
(***************************************************************************)
(* Theorems about the low battery checks and the alarm's child, for every  *)
(* level of shutdown and alarm and every battery.                          *)
(***************************************************************************)
EXTENDS LowBattery, TLAPS

ChildInv == TypeOK /\ Armed /\ ChildWatched /\ SignalUnderWay

LEMMA InitChild == Init => ChildInv
BY BatteryAssumption
   DEF Init, ChildInv, TypeOK, Armed, ChildWatched, SignalUnderWay, Places, ChildStates

\* Neither a step of the parent, nor the end of the child, nor the handler
\* between them disturbs the agreement of the parent with its child.
LEMMA StepChild == ChildInv /\ [Next]_vars => ChildInv'
<1> SUFFICES ASSUME ChildInv, [Next]_vars PROVE ChildInv'
  OBVIOUS
<1> USE DEF ChildInv, TypeOK, Armed, ChildWatched, SignalUnderWay, Places, ChildStates,
            reading, processes, history
<1>1. CASE FirstReading \/ Update
  BY <1>1 DEF FirstReading, Update
<1>2. CASE checkAutoShutdown
  BY <1>2 DEF checkAutoShutdown
<1>3. CASE NoAlarm
  BY <1>3 DEF NoAlarm
<1>4. CASE Ring
  BY <1>4 DEF Ring
<1>5. CASE Fork
  BY <1>5 DEF Fork
<1>6. CASE Played \/ FlashOver \/ Press
  BY <1>6 DEF Played, FlashOver, Press
<1>7. CASE Restore
  BY <1>7 DEF Restore
<1>8. CASE Kill
  BY <1>8 DEF Kill
<1>9. CASE SongEnds \/ KillArrives
  BY <1>9 DEF SongEnds, KillArrives, Dies
<1>10. CASE stopFlashingLowBattery
  BY <1>10 DEF stopFlashingLowBattery
<1>11. CASE UNCHANGED vars
  BY <1>11 DEF vars
<1> QED BY <1>1, <1>2, <1>3, <1>4, <1>5, <1>6, <1>7, <1>8, <1>9, <1>10, <1>11 DEF Next, Parent

\* However the alarm ends, and whenever SIGCHLD is delivered, checkAutoAlarm
\* returns to the event loop without child, zombie or signal.
THEOREM NoChildLeft == Spec => []NothingLeft
<1>1. ChildInv => NothingLeft
  BY DEF ChildInv, ChildWatched, SignalUnderWay, NothingLeft
<1> QED BY InitChild, StepChild, <1>1, PTL DEF Spec

\* Type correctness of the low battery checks.
THEOREM TypesKept == Spec => []TypeOK
<1>1. ChildInv => TypeOK
  BY DEF ChildInv
<1> QED BY InitChild, StepChild, <1>1, PTL DEF Spec

----------------------------------------------------------------------------
(* The two levels *)

LevelInv == TypeOK /\ Followed /\ Asked

LEMMA InitLevel == Init => LevelInv /\ Warned
<1> SUFFICES ASSUME Init PROVE LevelInv /\ Warned
  OBVIOUS
<1>1. TypeOK
  BY InitChild DEF ChildInv
<1>2. Followed
  BY DEF Init, Followed
<1>3. Asked /\ Warned
  BY BatteryAssumption DEF Init, Asked, Warned
<1> QED BY <1>1, <1>2, <1>3 DEF LevelInv

\* Steps that neither read the battery nor check it leave the levels alone.
LEMMA OtherSteps ==
  ASSUME LevelInv,
         Fork \/ Played \/ Press \/ FlashOver \/ Kill \/ SongEnds \/ KillArrives
           \/ stopFlashingLowBattery \/ UNCHANGED vars
  PROVE  /\ Followed' /\ Asked' /\ (Warned => Warned')
         /\ down' = down
<1>1. /\ UNCHANGED <<percentage, lastShutdown, lastAlarm, down, rung, highest>>
      /\ \/ at' = at
         \/ /\ at \notin {"start", "loop", "shutdown", "alarm"}
            /\ at' \notin {"start", "loop", "shutdown", "alarm"}
  BY DEF Fork, Played, Press, FlashOver, Kill, SongEnds, KillArrives, Dies,
         stopFlashingLowBattery, vars, reading, processes, history
<1>2. Followed'
  BY <1>1 DEF LevelInv, Followed
<1>3. Asked' /\ (Warned => Warned')
  BY <1>1 DEF LevelInv, Asked, Warned
<1> QED BY <1>1, <1>2, <1>3

LEMMA StepFollowed ==
  ASSUME LevelInv, TypeOK', [Next]_vars
  PROVE  Followed'
<1> USE BatteryAssumption DEF LevelInv, TypeOK, Followed, UNKNOWN, reading, processes, history
<1>1. CASE FirstReading
  <2>1. lastShutdown' = UNKNOWN /\ lastAlarm' = UNKNOWN /\ highest' = 0 /\ at' = "loop"
    BY <1>1 DEF FirstReading
  <2> QED BY <2>1
<1>2. CASE Update
  BY <1>2 DEF Update
<1>3. CASE checkAutoShutdown
  BY <1>3 DEF checkAutoShutdown
<1>4. CASE NoAlarm
  BY <1>4 DEF NoAlarm
<1>5. CASE Ring
  BY <1>5 DEF Ring
<1>6. CASE Restore
  BY <1>6 DEF Restore
<1> QED BY <1>1, <1>2, <1>3, <1>4, <1>5, <1>6, OtherSteps DEF Next, Parent

\* A percentage that moves by one at most cannot pass the shutdown level.
LEMMA StepAsked ==
  ASSUME LevelInv, TypeOK', [Next]_vars, Jump <= 1
  PROVE  Asked'
<1>1. CASE checkAutoShutdown
  <2>1. /\ lastShutdown' = percentage
        /\ highest' = (IF percentage > highest THEN percentage ELSE highest)
        /\ down' = (down \/ Crossing(lastShutdown, ShutdownAt))
        /\ lastShutdown # UNKNOWN => percentage - lastShutdown \in -1 .. 1
        /\ lastShutdown = UNKNOWN => highest = 0
    BY <1>1, BatteryAssumption DEF checkAutoShutdown, LevelInv, Followed
  <2>2. SUFFICES ASSUME highest' > ShutdownAt, percentage <= ShutdownAt
                 PROVE  down \/ (lastShutdown = ShutdownAt + 1 /\ percentage = ShutdownAt)
    BY <2>1 DEF Asked, Crossing
  <2> QED BY <2>1, <2>2, BatteryAssumption DEF LevelInv, TypeOK, Asked, UNKNOWN
<1>2. CASE FirstReading \/ Update \/ NoAlarm \/ Ring \/ Restore
  BY <1>2 DEF FirstReading, Update, NoAlarm, Ring, Restore, LevelInv, Asked, history
<1> QED BY <1>1, <1>2, OtherSteps DEF Next, Parent

LEMMA StepLevel == ChildInv /\ LevelInv /\ Jump <= 1 /\ [Next]_vars => LevelInv'
<1> SUFFICES ASSUME ChildInv, LevelInv, Jump <= 1, [Next]_vars PROVE LevelInv'
  OBVIOUS
<1>1. TypeOK'
  BY StepChild DEF ChildInv
<1> QED BY <1>1, StepFollowed, StepAsked DEF LevelInv

\* Only checkAutoShutdown looks at the level, and what is above goes into highest.
LEMMA StepOnceAbove == ChildInv /\ OnceAbove /\ [Next]_vars => OnceAbove'
<1> SUFFICES ASSUME ChildInv, OnceAbove, [Next]_vars PROVE OnceAbove'
  OBVIOUS
<1>1. CASE checkAutoShutdown
  <2>1. /\ above' => above \/ percentage > ShutdownAt
        /\ highest' = IF percentage > highest THEN percentage ELSE highest
    BY <1>1 DEF checkAutoShutdown
  <2>2. percentage \in Nat /\ highest \in Nat /\ ShutdownAt \in Nat
    BY BatteryAssumption DEF ChildInv, TypeOK
  <2> QED BY <2>1, <2>2 DEF OnceAbove
<1>2. CASE ~checkAutoShutdown
  <2>1. UNCHANGED <<highest, above>>
    BY <1>2 DEF Next, Parent, FirstReading, Update, NoAlarm, Ring, Fork, Played, Restore,
                FlashOver, Kill, Press, SongEnds, KillArrives, Dies, stopFlashingLowBattery,
                vars, history
  <2> QED BY <2>1 DEF OnceAbove
<1> QED BY <1>1, <1>2

\* Where the percentage changes by one at a time, a discharge without the AC
\* adapter that crosses the shutdown level always calls the shutdown.
THEOREM ShutdownCrossed == ASSUME Jump <= 1 PROVE Spec => []ShutdownAsked
<1>1. LevelInv /\ OnceAbove => ShutdownAsked
  BY DEF LevelInv, Followed, Asked, OnceAbove, ShutdownAsked
<1>2. ChildInv /\ LevelInv /\ [Next]_vars => LevelInv'
  BY StepLevel
<1>3. Init => LevelInv /\ OnceAbove
  BY InitLevel DEF Init, OnceAbove
<1> QED BY InitChild, StepChild, StepOnceAbove, <1>1, <1>2, <1>3, PTL DEF Spec

\* Nor can it pass the alarm level.
LEMMA StepWarned ==
  ASSUME LevelInv, Warned, TypeOK', [Next]_vars, Jump <= 1
  PROVE  Warned'
<1> USE BatteryAssumption DEF LevelInv, TypeOK, UNKNOWN, reading, history
<1>1. CASE FirstReading \/ Update
  BY <1>1 DEF FirstReading, Update, Warned
<1>2. CASE checkAutoShutdown
  BY <1>2 DEF checkAutoShutdown, Warned, Followed
<1>3. CASE NoAlarm
  <2>1. /\ lastAlarm' = percentage /\ at' = "loop" /\ at = "alarm"
        /\ UNCHANGED <<lastShutdown, highest, rung>>
        /\ lastShutdown = percentage
        /\ ~Crossing(lastAlarm, AlarmAt)
        /\ lastAlarm # UNKNOWN => percentage - lastAlarm \in -1 .. 1
        /\ lastAlarm = UNKNOWN => highest = percentage
    BY <1>3 DEF NoAlarm, Followed
  <2>2. SUFFICES ASSUME highest > AlarmAt, percentage <= AlarmAt PROVE lastAlarm <= AlarmAt
    BY <2>1 DEF Warned
  <2> QED BY <2>1, <2>2 DEF Crossing
<1>4. CASE Ring
  BY <1>4 DEF Ring, Warned
<1>5. CASE Restore
  BY <1>5 DEF Restore, Warned
<1> QED BY <1>1, <1>2, <1>3, <1>4, <1>5, OtherSteps DEF Next, Parent

\* With the alarm above the shutdown level the user is always warned before
\* the shutdown, if the battery has been above both.
THEOREM WarnedBefore == ASSUME Jump <= 1, ShutdownAt < AlarmAt PROVE Spec => WarnedFirst
<1>1. LevelInv /\ Warned /\ [Next]_vars => [down' # down => rung \/ highest <= AlarmAt]_vars
  <2> SUFFICES ASSUME LevelInv, Warned, Next, down' # down
               PROVE  rung \/ highest <= AlarmAt
    OBVIOUS
  <2>1. checkAutoShutdown
    BY OtherSteps DEF Next, Parent, FirstReading, Update, NoAlarm, Ring, Restore, history
  <2>2. lastShutdown = ShutdownAt + 1 /\ at = "shutdown"
    BY <2>1 DEF checkAutoShutdown, Crossing, LevelInv, TypeOK
  <2> QED BY <2>2, BatteryAssumption DEF Warned, LevelInv, TypeOK
<1>2. ChildInv /\ LevelInv /\ Warned /\ [Next]_vars => (LevelInv /\ Warned)'
  <2> SUFFICES ASSUME ChildInv, LevelInv, Warned, [Next]_vars PROVE LevelInv' /\ Warned'
    OBVIOUS
  <2>1. LevelInv'
    BY StepLevel
  <2> QED BY <2>1, StepWarned DEF LevelInv
<1>3. Init => LevelInv /\ Warned
  BY InitLevel
<1> QED BY InitChild, StepChild, <1>1, <1>2, <1>3, PTL DEF Spec, WarnedFirst
=============================================================================
