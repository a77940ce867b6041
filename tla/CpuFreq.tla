------------------------------ MODULE CpuFreq ------------------------------
(***************************************************************************)
(* Frequency control of wmlaptop (src/src/cpu.c, init.c; build without     *)
(* LONGRUN): cpuSetFreq with its two speeds, the loops that call it, and   *)
(* the kernel's cpufreq files it reads and writes.  Frequencies are        *)
(* unsigned integers of the C program, below U32.  A call of cpuSetFreq    *)
(* takes place between two looks at the clock, at X and at the battery;    *)
(* only the FREQ_NEXT loop and the loops around it are several steps.      *)
(***************************************************************************)
EXTENDS Integers

CONSTANTS
  U32,          \* 2^32 of u_int32
  Levels,       \* the frequencies of the processor
  CpuinfoMin,   \* contents of cpuinfo_min_freq
  CpuinfoMax,   \* contents of cpuinfo_max_freq
  Snap,         \* the level the kernel chooses for a request
  FREQ_NEXT_DEFAULT,
  StepFreq,     \* args_incrementalStep
  ArgMinFreqs,  \* values given to --min-freq, LEAVE when absent
  ArgMaxFreqs,  \* values given to --max-freq
  StartingFreqs,\* values given to --starting-freq
  Systems,      \* machines and privileges the program may be started with
  Daemon,       \* TRUE when some other program sets the frequency too
  FdLimit,      \* descriptors the process may still open
  CountFds      \* FALSE: ask about a time in which FdLimit is not reached

LEAVE == 0
Word == 0 .. U32 - 1
Governors == {"userspace", "performance", "ondemand"}
SystemType == [governor : Governors,
               offered : {"first", "listed", "absent", "unreadable"},
               writable : BOOLEAN, sys : BOOLEAN]

ASSUME WordAssumption ==
  /\ U32 \in Nat
  /\ Levels \subseteq Word
  /\ CpuinfoMin \in Levels /\ CpuinfoMax \in Levels
  /\ \A f \in Levels : CpuinfoMin <= f /\ f <= CpuinfoMax
  /\ FREQ_NEXT_DEFAULT \in 1 .. CpuinfoMin
  /\ CpuinfoMax + FREQ_NEXT_DEFAULT < U32
  /\ StepFreq \in 1 .. U32 - 1

\* The kernel picks one level for a request, keeps their order and leaves a
\* level as it is; the driver decides whether it rounds up or down.
ASSUME SnapAssumption ==
  /\ Snap \in [Word -> Levels]
  /\ \A f \in Levels : Snap[f] = f
  /\ \A f, g \in Word : f <= g => Snap[f] <= Snap[g]

ASSUME ConfigAssumption ==
  /\ ArgMinFreqs \subseteq Word /\ ArgMaxFreqs \subseteq Word
  /\ StartingFreqs \subseteq {"leave", "min", "max"}
  /\ Systems \subseteq SystemType
  /\ Daemon \in BOOLEAN
  /\ FdLimit \in Nat
  /\ CountFds \in BOOLEAN

VARIABLES
  governor, writable,       \* scaling_governor; may setFreqFile be opened "w"
  minFreq, maxFreq,         \* cpuState.minFreq, maxFreq
  hwFreq,                   \* the frequency the processor runs at
  userspace, actualFreq, setFreq, auto_freq_state,   \* cpuState
  leaked,                   \* descriptors cpuSetFreq opened and never closed
  caller, dir, lastCpuFreq, \* whose loop runs; the FREQ_NEXT loop inside it
  alive                     \* FALSE after free_and_exit

setup == <<governor, writable, minFreq, maxFreq>>
request == <<setFreq, hwFreq, actualFreq>>
loop == <<caller, dir, lastCpuFreq>>
vars == <<setup, request, loop, userspace, auto_freq_state, leaked, alive>>

Callers == {"none", "arrow", "start_min", "start_max", "paradisiac", "reread"}
Directions == {"inc", "dec"}

----------------------------------------------------------------------------
(* C arithmetic and the files *)

Add32(f, n) == IF f + n < U32 THEN f + n ELSE f + n - U32
Sub32(f, n) == IF n <= f THEN f - n ELSE f + U32 - n

\* mutant of Bump: the wrong limit after an increase
BumpWrongLimit(d, n) ==
  IF d = "inc"
  THEN IF Add32(setFreq, n) > maxFreq THEN minFreq ELSE Add32(setFreq, n)
  ELSE IF Sub32(setFreq, n) < minFreq THEN minFreq ELSE Sub32(setFreq, n)

\* mutant of Bump: no limit at all
BumpUnlimited(d, n) == IF d = "inc" THEN Add32(setFreq, n) ELSE Sub32(setFreq, n)

\* setFreq after one addition or subtraction and its clamp, cpuSetFreq
Bump(d, n) ==
  IF d = "inc"
  THEN IF Add32(setFreq, n) > maxFreq THEN maxFreq ELSE Add32(setFreq, n)
  ELSE IF Sub32(setFreq, n) < minFreq THEN minFreq ELSE Sub32(setFreq, n)

\* What the processor may run at after f was written: the governor obeys,
\* keeps its own frequency, or follows the load; a daemon may intervene.
Settle(f) ==
  CASE Daemon \/ governor = "ondemand" -> Levels
    [] ~Daemon /\ governor = "userspace" -> {Snap[f]}
    [] ~Daemon /\ governor = "performance" -> {hwFreq}

CanOpen == CountFds => leaked < FdLimit
Leak == leaked' = IF CountFds THEN leaked + 1 ELSE leaked

\* free_and_exit: the process is gone, what it held no longer matters
Exit == alive' = FALSE
        /\ UNCHANGED <<setup, request, loop, userspace, auto_freq_state, leaked>>

\* cpuReadFreq, or the exit when the file cannot be opened any more
ReadFreq == CanOpen /\ actualFreq' = hwFreq /\ UNCHANGED <<setFreq, hwFreq>>

\* mutant of EchoAndRead: the frequency is not read back
EchoOnly(f) == setFreq' = f /\ hwFreq' \in Settle(f) /\ UNCHANGED actualFreq

\* mutant of EchoAndRead: the request is taken for the frequency
EchoTrusted(f) == setFreq' = f /\ hwFreq' \in Settle(f) /\ actualFreq' = f

\* cpuEchoFreq with setFreq = f, then cpuReadFreq
EchoAndRead(f) == setFreq' = f /\ hwFreq' \in Settle(f) /\ actualFreq' = hwFreq'

----------------------------------------------------------------------------
(* cpuSetFreq: the conditions in front of its switch *)

\* mutant of Refused: the "required control" is missing
RefusedAtNoLimit(d) == ~userspace

Refused(d) ==
  \/ d = "inc" /\ actualFreq = maxFreq
  \/ d = "dec" /\ actualFreq = minFreq
  \/ ~userspace

Denied(d) == ~Refused(d) /\ ~(writable /\ CanOpen) /\ userspace' = FALSE

\* the fopen of the permission check is never closed
Admitted(d) == ~Refused(d) /\ writable /\ CanOpen /\ Leak

\* cpuSetFreq(d, FREQ_NEXT) up to the loop; "who" runs when it returns
CallNext(d, who, back) ==
  \/ Refused(d) /\ caller' = back /\ UNCHANGED <<userspace, leaked, dir, lastCpuFreq>>
  \/ Denied(d) /\ caller' = back /\ UNCHANGED <<leaked, dir, lastCpuFreq>>
  \/ /\ Admitted(d)
     /\ caller' = who /\ dir' = d /\ lastCpuFreq' = actualFreq
     /\ UNCHANGED userspace

\* who goes on when the FREQ_NEXT loop has ended
ReturnTo == IF caller = "arrow" THEN "none"
            ELSE IF caller = "paradisiac" THEN "reread" ELSE caller

\* One turn of the FREQ_NEXT loop: write, read back, stop when it changed.
\* An arrow click ends with auto-freq switched off, cpuSetParadisiac reads again.
NextTurn ==
  /\ alive /\ dir # "none"
  /\ \/ /\ CanOpen
        /\ \E f \in Settle(Bump(dir, FREQ_NEXT_DEFAULT)) :
             /\ hwFreq' = f /\ actualFreq' = f
             /\ \/ /\ f = lastCpuFreq
                   /\ setFreq' = Bump(dir, FREQ_NEXT_DEFAULT)
                   /\ UNCHANGED <<loop, auto_freq_state>>
                \/ /\ f # lastCpuFreq
                   /\ setFreq' = f /\ dir' = "none"
                   /\ caller' = ReturnTo
                   /\ auto_freq_state' = (auto_freq_state /\ caller # "arrow")
                   /\ UNCHANGED lastCpuFreq
        /\ UNCHANGED <<setup, userspace, leaked, alive>>
     \/ ~CanOpen /\ Exit

----------------------------------------------------------------------------
(* The callers *)

Idle == alive /\ caller = "none"

ToggleAutoFreq ==
  /\ Idle
  /\ auto_freq_state' = ~auto_freq_state
  /\ UNCHANGED <<setup, request, loop, userspace, leaked, alive>>

\* mutant of Arrow: auto-freq stays on when cpuSetFreq returns early
ArrowLeavesAutoOn(d) ==
  /\ Idle
  /\ CallNext(d, "arrow", "none")
  /\ UNCHANGED <<auto_freq_state, setup, request, alive>>

\* ButtonPress on "<" or ">"
Arrow(d) ==
  /\ Idle
  /\ CallNext(d, "arrow", "none")
  /\ auto_freq_state' = (auto_freq_state /\ caller' = "arrow")
  /\ UNCHANGED <<setup, request, alive>>

\* cpuCheckFreq
CheckFreq ==
  /\ Idle
  /\ \/ ReadFreq /\ UNCHANGED <<setup, loop, userspace, auto_freq_state, leaked, alive>>
     \/ ~CanOpen /\ Exit

\* cpuSetFreq(d, FREQ_STEP) and the cpuReadFreq that follows in manageCpuLoad.
\* The process exits when the leaked descriptor was the last one.
AutoStep(d) ==
  /\ Idle /\ auto_freq_state
  /\ IF d = "inc" THEN actualFreq < maxFreq ELSE actualFreq > minFreq
  /\ \/ /\ \/ Refused(d) /\ ReadFreq /\ UNCHANGED <<userspace, leaked>>
           \/ Denied(d) /\ ReadFreq /\ UNCHANGED leaked
           \/ /\ Admitted(d) /\ CanOpen'
              /\ EchoAndRead(Bump(d, StepFreq))
              /\ UNCHANGED userspace
        /\ UNCHANGED <<setup, loop, auto_freq_state, alive>>
     \/ ~CanOpen /\ Exit
     \/ ~Refused(d) /\ writable /\ CountFds /\ leaked + 1 = FdLimit /\ Exit

\* cpuSetParadisiac begins to raise the frequency
EnterParadisiac ==
  /\ Idle
  /\ caller' = "paradisiac"
  /\ UNCHANGED <<setup, request, dir, lastCpuFreq, userspace, auto_freq_state, leaked, alive>>

\* The loops around cpuSetFreq: --starting-freq in init_cpuState, and the
\* one of cpuSetParadisiac, which ends with auto-freq switched off.
StillWanted ==
  CASE caller = "start_min" -> actualFreq # minFreq
    [] caller = "start_max" -> actualFreq # maxFreq
    [] caller = "paradisiac" -> actualFreq < maxFreq

CallerTurn ==
  /\ alive /\ dir = "none" /\ caller \in {"start_min", "start_max", "paradisiac"}
  /\ \/ /\ ~StillWanted
        /\ caller' = "none"
        /\ auto_freq_state' = (auto_freq_state /\ caller # "paradisiac")
        /\ UNCHANGED <<dir, lastCpuFreq, userspace, leaked>>
     \/ /\ StillWanted
        /\ CallNext(IF caller = "start_min" THEN "dec" ELSE "inc", caller,
                    IF caller = "paradisiac" THEN "reread" ELSE caller)
        /\ UNCHANGED auto_freq_state
  /\ UNCHANGED <<setup, request, alive>>

Reread ==
  /\ alive /\ caller = "reread"
  /\ \/ /\ ReadFreq
        /\ caller' = "paradisiac"
        /\ UNCHANGED <<setup, dir, lastCpuFreq, userspace, auto_freq_state, leaked, alive>>
     \/ ~CanOpen /\ Exit

\* The governor follows the load, or a daemon such as cpufreqd acts
Foreign ==
  /\ alive /\ (Daemon \/ governor = "ondemand")
  /\ hwFreq' \in Levels
  /\ UNCHANGED <<setup, setFreq, actualFreq, loop, userspace, auto_freq_state, leaked, alive>>

----------------------------------------------------------------------------
(* init_cpuState *)

\* scalingGovernorHelper: the list of governors is only compared at its
\* start, and a successful fopen counts as a successful change.
HelperFlag(s) ==
  s.sys /\ \/ s.governor = "userspace"
           \/ s.offered = "first"
           \/ s.offered # "unreadable" /\ s.writable

HelperGovernor(s) ==
  IF s.sys /\ s.writable /\ s.offered \in {"first", "listed"}
  THEN "userspace" ELSE s.governor

Init ==
  \E s \in Systems, lo \in ArgMinFreqs, hi \in ArgMaxFreqs, start \in StartingFreqs :
    /\ governor = HelperGovernor(s) /\ writable = s.writable
    /\ userspace = HelperFlag(s)
    /\ minFreq = IF lo = LEAVE \/ lo < CpuinfoMin THEN CpuinfoMin ELSE lo
    /\ maxFreq = IF hi = LEAVE \/ hi > CpuinfoMax THEN CpuinfoMax ELSE hi
    /\ minFreq <= maxFreq               \* otherwise the program exits
    /\ hwFreq \in Levels /\ actualFreq = hwFreq /\ setFreq = actualFreq
    /\ auto_freq_state \in BOOLEAN
    /\ caller = IF start = "min" THEN "start_min"
                ELSE IF start = "max" THEN "start_max" ELSE "none"
    /\ dir = "none" /\ lastCpuFreq = 0
    /\ leaked = 0 /\ alive = TRUE

Loops == NextTurn \/ CallerTurn \/ Reread

Next ==
  \/ ToggleAutoFreq
  \/ \E d \in Directions : Arrow(d)
  \/ CheckFreq
  \/ \E d \in Directions : AutoStep(d)
  \/ EnterParadisiac
  \/ Loops
  \/ Foreign

\* Nothing but the process itself is needed for its loops to go on.
Spec == Init /\ [][Next]_vars /\ WF_vars(Loops)

----------------------------------------------------------------------------
(* Properties *)

\* Every variable keeps its type: no request leaves the 32 bits, no level is
\* invented, at most FdLimit descriptors are open.
TypeOK ==
  /\ governor \in Governors /\ writable \in BOOLEAN
  /\ minFreq \in Word /\ maxFreq \in Word
  /\ hwFreq \in Levels /\ actualFreq \in Levels /\ setFreq \in Word
  /\ userspace \in BOOLEAN /\ auto_freq_state \in BOOLEAN /\ alive \in BOOLEAN
  /\ leaked \in 0 .. FdLimit
  /\ caller \in Callers /\ dir \in Directions \cup {"none"}
  /\ lastCpuFreq \in Levels \cup {0}

\* wmlaptop alone decides on the frequency
Controlled == governor = "userspace" /\ ~Daemon

\* The cached frequency that every guard of cpu.c consults is the one the
\* processor runs at, and it is what the kernel makes of the last request:
\* no path changes the frequency without reading it back.
Synced == Controlled => hwFreq = actualFreq /\ hwFreq = Snap[setFreq]

WithinLimits == minFreq <= hwFreq /\ hwFreq <= maxFreq

\* A processor inside the limits that are levels of its own never leaves
\* them, whatever mixture of clicks, auto-freq steps and loops runs.
StaysWithinLimits ==
  [][Controlled /\ {minFreq, maxFreq} \subseteq Levels /\ WithinLimits => WithinLimits']_vars

\* A FREQ_NEXT call that ends has moved the processor in its direction, to
\* the neighbouring level: no level is skipped, whatever remainder auto-freq
\* steps left in setFreq.
NeighbourOf(d, f, g) ==
  IF d = "inc" THEN f < g /\ \A h \in Levels : ~(f < h /\ h < g)
               ELSE g < f /\ \A h \in Levels : ~(g < h /\ h < f)

MovesOneLevel ==
  [][/\ Controlled /\ minFreq <= lastCpuFreq /\ lastCpuFreq <= maxFreq
     /\ dir # "none" /\ dir' = "none"
     => NeighbourOf(dir, lastCpuFreq, hwFreq')]_vars

\* The kernel obeys, wmlaptop knows it, and it may write its requests
Steerable == Controlled /\ userspace /\ writable

\* The busy loops of cpuSetFreq and of its callers come to an end and give
\* the event loop back (or the process has run out of descriptors), where the
\* processor can be steered and the limits are levels of its own.
LoopsEnd ==
  (Steerable /\ {minFreq, maxFreq} \subseteq Levels /\ caller # "none")
    ~> (caller = "none" \/ ~alive)

\* Hypotheses and the inductive invariant of the proofs.
\* The step of auto-freq is smaller than every frequency, so that neither
\* setFreq - stepFreq nor setFreq + stepFreq wraps.
SmallStep == StepFreq <= CpuinfoMin /\ CpuinfoMax + StepFreq < U32

\* No two levels lie closer together than FREQ_NEXT_DEFAULT can tell.
NoSkip ==
  \A f \in Word, g \in Levels :
    /\ Snap[f] < g /\ f + FREQ_NEXT_DEFAULT \in Word
       => Snap[f + FREQ_NEXT_DEFAULT] <= g
    /\ g < Snap[f] /\ f - FREQ_NEXT_DEFAULT \in Word
       => g <= Snap[f - FREQ_NEXT_DEFAULT]

\* Requests and limits stay among the frequencies of the processor.
RangeInv ==
  /\ CpuinfoMin <= minFreq /\ minFreq <= maxFreq /\ maxFreq <= CpuinfoMax
  /\ CpuinfoMin <= setFreq /\ setFreq <= CpuinfoMax

\* Inside the FREQ_NEXT loop nothing has changed yet, and somebody called it.
LoopStart ==
  dir # "none" => lastCpuFreq = actualFreq /\ caller \notin {"none", "reread"}

SyncInv == TypeOK /\ Synced /\ LoopStart

\* What the code says and does not keep.

\* README:42-45: auto-frequency follows the load for as long as it is turned
\* on; using it does not end the program.
StaysAlive == alive

=============================================================================
