----------------------------- MODULE LowBattery -----------------------------
(***************************************************************************)
(* checkAutoShutdown and checkAutoAlarm (src/src/autoscript.c) with        *)
(* startFlashingLowBattery and stopFlashingLowBattery (src/src/event.c):   *)
(* what the battery period does with a new percentage, the child that      *)
(* plays the alarm, and the SIGCHLD handler that may run between any two   *)
(* steps of the parent.                                                    *)
(***************************************************************************)
EXTENDS Integers

CONSTANTS
  ShutdownAt,    \* args_autoShutdown
  AlarmAt,       \* args_autoAlarm
  Percentages,   \* percentages the battery may report
  Jump           \* by how much the percentage may differ between two readings

ASSUME BatteryAssumption ==
  /\ ShutdownAt \in Nat /\ AlarmAt \in Nat /\ Jump \in Nat
  /\ Percentages \subseteq 0 .. 100

UNKNOWN == 255   \* lastPercentage = ~0

VARIABLES
  at,                        \* where the parent is
  percentage, isCharging,    \* powerState
  lastShutdown, lastAlarm,   \* lastPercentage of the two functions
  flashing,                  \* flashingLowBatteryCycle
  handler,                   \* SIGCHLD runs stopFlashingLowBattery
  child,                     \* the process that plays the alarm
  pending,                   \* a SIGCHLD waits to be delivered
  down,                      \* SHUTDOWN_BIN has been called
  rung,                      \* ghost: the alarm has been started
  highest,                   \* ghost: highest percentage checked so far
  above                      \* ghost: since the AC adapter was last seen plugged in, a
                             \* check has found a percentage above the shutdown level

reading == <<percentage, isCharging>>
processes == <<flashing, handler, child, pending>>
history == <<down, rung, highest, above>>
vars == <<at, reading, lastShutdown, lastAlarm, processes, history>>

Places == {"start", "loop", "shutdown", "alarm", "fork", "flash", "click", "play", "restore"}
ChildStates == {"none", "playing", "killed", "zombie"}

----------------------------------------------------------------------------
(* The two checks *)

\* mutant of Crossing: the second reading at n counts
CrossingLate(last, n) == last = n /\ percentage = n

\* the percentage has just fallen from n + 1 to n
Crossing(last, n) == last = n + 1 /\ percentage = n

\* the reading before the first cycle, which nothing checks
FirstReading ==
  /\ at = "start"
  /\ percentage' \in Percentages /\ isCharging' \in BOOLEAN
  /\ at' = "loop"
  /\ UNCHANGED <<lastShutdown, lastAlarm, processes, history>>

\* mutant of Update: the gauge wraps around instead of stopping at its ends
UpdateWraps ==
  /\ at = "loop"
  /\ percentage' \in {(percentage + d) % 256 : d \in -Jump .. Jump}
  /\ isCharging' \in BOOLEAN
  /\ at' = "shutdown"
  /\ UNCHANGED <<lastShutdown, lastAlarm, processes, history>>

\* powerState.updater()
Update ==
  /\ at = "loop"
  /\ percentage' \in {p \in Percentages : p - percentage \in -Jump .. Jump}
  /\ isCharging' \in BOOLEAN
  /\ at' = "shutdown"
  /\ UNCHANGED <<lastShutdown, lastAlarm, processes, history>>

\* mutant of checkAutoShutdown: lastPercentage is set before it is compared
ShutdownSwapped ==
  /\ at = "shutdown"
  /\ down' = (down \/ Crossing(percentage, ShutdownAt))
  /\ lastShutdown' = percentage
  /\ highest' = IF percentage > highest THEN percentage ELSE highest
  /\ above' = (~isCharging /\ (above \/ percentage > ShutdownAt))
  /\ at' = "alarm"
  /\ UNCHANGED <<reading, lastAlarm, processes, rung>>

checkAutoShutdown ==
  /\ at = "shutdown"
  /\ down' = (down \/ Crossing(lastShutdown, ShutdownAt))
  /\ lastShutdown' = percentage
  /\ highest' = IF percentage > highest THEN percentage ELSE highest
  /\ above' = (~isCharging /\ (above \/ percentage > ShutdownAt))
  /\ at' = "alarm"
  /\ UNCHANGED <<reading, lastAlarm, processes, rung>>

NoAlarm ==
  /\ at = "alarm" /\ ~Crossing(lastAlarm, AlarmAt)
  /\ lastAlarm' = percentage
  /\ at' = "loop"
  /\ UNCHANGED <<reading, lastShutdown, processes, history>>

\* mutant of Ring: signal(SIGCHLD, stopFlashingLowBattery) is forgotten
RingUnheard ==
  /\ at = "alarm" /\ Crossing(lastAlarm, AlarmAt)
  /\ flashing' = TRUE
  /\ rung' = TRUE
  /\ at' = "fork"
  /\ UNCHANGED <<reading, lastShutdown, lastAlarm, handler, child, pending, down, highest, above>>

\* the flag and the handler are set before the child exists
Ring ==
  /\ at = "alarm" /\ Crossing(lastAlarm, AlarmAt)
  /\ flashing' = TRUE /\ handler' = TRUE
  /\ rung' = TRUE
  /\ at' = "fork"
  /\ UNCHANGED <<reading, lastShutdown, lastAlarm, child, pending, down, highest, above>>

\* without a child the parent plays the alarm itself
Fork ==
  /\ at = "fork"
  /\ \/ child' = "playing" /\ at' = "flash"
     \/ at' = "play" /\ UNCHANGED child
  /\ UNCHANGED <<reading, lastShutdown, lastAlarm, flashing, handler, pending, history>>

Played ==
  /\ at = "play"
  /\ at' = "restore"
  /\ UNCHANGED <<reading, lastShutdown, lastAlarm, processes, history>>

\* SIG_DFL again, and the end of checkAutoAlarm
Restore ==
  /\ at = "restore"
  /\ handler' = FALSE /\ pending' = FALSE
  /\ lastAlarm' = percentage
  /\ at' = "loop"
  /\ UNCHANGED <<reading, lastShutdown, flashing, child, history>>

----------------------------------------------------------------------------
(* startFlashingLowBattery *)

\* a ButtonPress in a turn of the loop; a turn without one only draws
Press ==
  /\ at = "flash" /\ flashing
  /\ at' = "click"
  /\ UNCHANGED <<reading, lastShutdown, lastAlarm, processes, history>>

\* the test of the loop, and the black background after it
FlashOver ==
  /\ at = "flash" /\ ~flashing
  /\ at' = "restore"
  /\ UNCHANGED <<reading, lastShutdown, lastAlarm, processes, history>>

\* mutant of Kill: a signal the child ignores
KillIgnored ==
  /\ at = "click"
  /\ at' = "flash"
  /\ UNCHANGED <<reading, lastShutdown, lastAlarm, processes, history>>

\* kill(childPid, SIGKILL)
Kill ==
  /\ at = "click"
  /\ child' = IF child = "playing" THEN "killed" ELSE child
  /\ at' = "flash"
  /\ UNCHANGED <<reading, lastShutdown, lastAlarm, flashing, handler, pending, history>>

----------------------------------------------------------------------------
(* The child and the signal *)

\* the kernel: the child is dead, its parent is told if it listens
Dies(from) ==
  /\ child = from
  /\ child' = "zombie"
  /\ pending' = handler
  /\ UNCHANGED <<at, reading, lastShutdown, lastAlarm, flashing, handler, history>>

\* playAlarm returns and the child calls _exit
SongEnds == Dies("playing")

KillArrives == Dies("killed")

\* mutant of stopFlashingLowBattery: it does not wait
StopWithoutWait ==
  /\ pending
  /\ pending' = FALSE /\ flashing' = FALSE
  /\ UNCHANGED <<at, reading, lastShutdown, lastAlarm, handler, child, history>>

\* the handler, between two steps of the parent; wait reaps the child
stopFlashingLowBattery ==
  /\ pending
  /\ pending' = FALSE /\ flashing' = FALSE
  /\ child' = IF child = "zombie" THEN "none" ELSE child
  /\ UNCHANGED <<at, reading, lastShutdown, lastAlarm, handler, history>>

----------------------------------------------------------------------------

Init ==
  /\ at = "start"
  /\ percentage \in Percentages /\ isCharging \in BOOLEAN
  /\ lastShutdown = UNKNOWN /\ lastAlarm = UNKNOWN
  /\ flashing = FALSE /\ handler = FALSE /\ child = "none" /\ pending = FALSE
  /\ down = FALSE /\ rung = FALSE /\ highest = 0 /\ above = FALSE

Parent ==
  \/ FirstReading \/ Update \/ checkAutoShutdown \/ NoAlarm \/ Ring
  \/ Fork \/ Played \/ Restore \/ FlashOver \/ Kill

Next == Parent \/ Press \/ SongEnds \/ KillArrives \/ stopFlashingLowBattery

\* The scheduler runs the parent, and signals arrive; nobody has to click, and
\* a song may be as long as the user likes.
Spec ==
  /\ Init /\ [][Next]_vars
  /\ WF_vars(Parent) /\ WF_vars(KillArrives) /\ WF_vars(stopFlashingLowBattery)

----------------------------------------------------------------------------
(* Properties *)

\* Every variable keeps its type.
TypeOK ==
  /\ at \in Places
  /\ percentage \in Percentages /\ isCharging \in BOOLEAN
  /\ lastShutdown \in Percentages \cup {UNKNOWN}
  /\ lastAlarm \in Percentages \cup {UNKNOWN}
  /\ flashing \in BOOLEAN /\ handler \in BOOLEAN
  /\ child \in ChildStates /\ pending \in BOOLEAN
  /\ down \in BOOLEAN /\ rung \in BOOLEAN
  /\ highest \in Percentages \cup {0} /\ above \in BOOLEAN

\* However the child ends and whenever its signal arrives, checkAutoAlarm leaves
\* no child, no zombie and no signal behind when it returns to the event loop.
NothingLeft == at \in {"loop", "shutdown", "alarm"} => child = "none" /\ ~pending

\* The flashing stops once the song is over (args_alarmRepeat times a list of
\* notes: it ends), even if the child has died before startFlashingLowBattery
\* was entered; and the event loop runs again.
FlashingEnds == []<>(child # "playing") => []<>(at = "loop")

\* A click is enough: while the user keeps clicking on the flashing dockapp, the
\* event loop comes back however long the song is.
ClickEndsFlashing == []<>(at = "click") => []<>(at = "loop")

\* main.c:195-196, the laptop is shut down at N% "and AC adapter is not plugged
\* in": when the percentage changes by one at a time, a discharge without the
\* adapter that crosses the shutdown level has called the shutdown before the
\* alarm is considered.
ShutdownAsked ==
  at = "alarm" /\ above /\ percentage <= ShutdownAt => down

\* and the user has been warned before, if the battery was above both levels.
WarnedFirst == [][down' # down => rung \/ highest <= AlarmAt]_vars

\* Parts of the inductive invariant of the proofs.
\* Where the parent may be while there is a child, or a signal from it.
ChildWatched == child # "none" => at \in {"flash", "click"} /\ handler /\ flashing

\* From the fork on the parent listens, with the flag up.
Armed == at = "fork" => handler /\ flashing

\* A zombie always has its signal under way, and nothing else has.
SignalUnderWay == pending <=> child = "zombie"

\* What each check has last seen, and how far the percentage is from it.
Followed ==
  /\ at \in {"start", "loop", "shutdown"} => lastAlarm = lastShutdown
  /\ at = "start" => lastShutdown = UNKNOWN
  /\ at = "loop" => lastShutdown \in {percentage, UNKNOWN}
  /\ at \notin {"start", "loop", "shutdown"} => lastShutdown = percentage
  /\ at = "shutdown" /\ lastShutdown # UNKNOWN
       => percentage - lastShutdown \in -Jump .. Jump
  /\ at = "alarm" /\ lastAlarm # UNKNOWN => percentage - lastAlarm \in -Jump .. Jump
  /\ at = "alarm" /\ lastAlarm = UNKNOWN => highest = percentage
  /\ lastShutdown = UNKNOWN => highest = 0

\* What has been above in this discharge has been above.
OnceAbove == above => highest > ShutdownAt

\* Below a level that the percentage has been above, the call has been made.
Asked == highest > ShutdownAt /\ lastShutdown <= ShutdownAt => down

Warned ==
  highest > AlarmAt /\ lastShutdown <= AlarmAt /\ (at = "alarm" => lastAlarm <= AlarmAt)
    => rung

=============================================================================
