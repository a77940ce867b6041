-------------------------- MODULE EventLoop_proof --------------------------
(***************************************************************************)
(* Theorems about the frequency control and about the main loop that       *)
(* drives it: the types, the pace of auto-freq and the precedence of the   *)
(* user, for every processor, kernel rounding, machine, clock, battery and *)
(* option the assumptions of CpuFreq and EventLoop allow.                  *)
(***************************************************************************)
EXTENDS EventLoop, TLAPS

(***************************************************************************)
(* The frequency control by itself: Spec is the specification of CpuFreq.  *)
(***************************************************************************)

\* One addition or subtraction and its clamp gives a 32-bit number.
LEMMA BumpType ==
  ASSUME TypeOK, NEW d \in Directions, NEW n \in Word
  PROVE  Bump(d, n) \in Word
BY WordAssumption DEF TypeOK, Bump, Add32, Sub32, Word, Directions

\* Whatever is written, the processor runs at one of its levels.
LEMMA SettleType ==
  ASSUME TypeOK, NEW f \in Word
  PROVE  Settle(f) \subseteq Levels
BY SnapAssumption, ConfigAssumption DEF TypeOK, Settle, Governors

\* FREQ_NEXT_DEFAULT and the step of auto-freq are 32-bit numbers.
LEMMA StepsAreWords == FREQ_NEXT_DEFAULT \in Word /\ StepFreq \in Word
BY WordAssumption DEF Word

\* The state init_cpuState leaves is well typed.
LEMMA InitType == Init => TypeOK
<1> SUFFICES ASSUME Init PROVE TypeOK
  OBVIOUS
<1>1. PICK s \in Systems, lo \in ArgMinFreqs, hi \in ArgMaxFreqs, start \in StartingFreqs :
        /\ governor = HelperGovernor(s) /\ writable = s.writable
        /\ userspace = HelperFlag(s)
        /\ minFreq = IF lo = LEAVE \/ lo < CpuinfoMin THEN CpuinfoMin ELSE lo
        /\ maxFreq = IF hi = LEAVE \/ hi > CpuinfoMax THEN CpuinfoMax ELSE hi
        /\ caller = IF start = "min" THEN "start_min"
                    ELSE IF start = "max" THEN "start_max" ELSE "none"
  BY DEF Init
<1>2. s \in SystemType /\ lo \in Word /\ hi \in Word /\ start \in {"leave", "min", "max"}
  BY ConfigAssumption
<1>3. governor \in Governors /\ writable \in BOOLEAN /\ userspace \in BOOLEAN
  <2>1. governor \in Governors
    BY <1>1, <1>2 DEF HelperGovernor, SystemType, Governors
  <2>2. writable \in BOOLEAN
    BY <1>1, <1>2 DEF SystemType
  <2>3. userspace \in BOOLEAN
    BY <1>1, <1>2 DEF HelperFlag, SystemType
  <2> QED BY <2>1, <2>2, <2>3
<1>4. minFreq \in Word /\ maxFreq \in Word
  BY <1>1, <1>2, WordAssumption DEF Word
<1>5. caller \in Callers
  BY <1>1, <1>2 DEF Callers
<1>6. setFreq \in Word /\ hwFreq \in Levels /\ actualFreq \in Levels
  BY WordAssumption DEF Init
<1>7. leaked \in 0 .. FdLimit
  BY ConfigAssumption DEF Init
<1>8. /\ auto_freq_state \in BOOLEAN /\ alive \in BOOLEAN
      /\ dir \in Directions \cup {"none"} /\ lastCpuFreq \in Levels \cup {0}
  BY DEF Init
<1> QED BY <1>3, <1>4, <1>5, <1>6, <1>7, <1>8 DEF TypeOK

\* Entering, or not entering, the FREQ_NEXT loop keeps the types of what it touches.
LEMMA CallType ==
  ASSUME TypeOK, NEW d \in Directions, NEW who \in Callers, NEW back \in Callers,
         CallNext(d, who, back)
  PROVE  /\ caller' \in Callers /\ dir' \in Directions \cup {"none"}
         /\ lastCpuFreq' \in Levels \cup {0}
         /\ userspace' \in BOOLEAN /\ leaked' \in 0 .. FdLimit
<1>1. CASE Refused(d) /\ caller' = back /\ UNCHANGED <<userspace, leaked, dir, lastCpuFreq>>
  BY <1>1 DEF TypeOK
<1>2. CASE Denied(d) /\ caller' = back /\ UNCHANGED <<leaked, dir, lastCpuFreq>>
  BY <1>2 DEF TypeOK, Denied
<1>3. CASE /\ Admitted(d)
           /\ caller' = who /\ dir' = d /\ lastCpuFreq' = actualFreq
           /\ UNCHANGED userspace
  BY <1>3, ConfigAssumption DEF TypeOK, Admitted, CanOpen, Leak
<1> QED BY <1>1, <1>2, <1>3 DEF CallNext

\* Every step keeps the types.
LEMMA StepType == TypeOK /\ [Next]_vars => TypeOK'
<1> SUFFICES ASSUME TypeOK, [Next]_vars PROVE TypeOK'
  OBVIOUS
<1> USE DEF setup, request, loop
<1>0. CASE UNCHANGED vars
  BY <1>0 DEF vars, TypeOK
<1>1. CASE Exit
  BY <1>1 DEF Exit, TypeOK
<1>2. CASE ToggleAutoFreq
  BY <1>2 DEF ToggleAutoFreq, TypeOK
<1>3. ASSUME NEW d \in Directions, Arrow(d) PROVE TypeOK'
  <2>1. CallNext(d, "arrow", "none") /\ UNCHANGED <<setup, request, alive>>
        /\ auto_freq_state' = (auto_freq_state /\ caller' = "arrow")
    BY <1>3 DEF Arrow
  <2>2. auto_freq_state' \in BOOLEAN
    BY <2>1
  <2> QED BY <2>1, <2>2, CallType DEF TypeOK, Callers
<1>4. CASE CheckFreq
  BY <1>4, <1>1 DEF CheckFreq, ReadFreq, TypeOK
<1>5. ASSUME NEW d \in Directions, AutoStep(d) PROVE TypeOK'
  <2>1. CASE ReadFreq /\ UNCHANGED <<setup, loop, auto_freq_state, alive, leaked>>
             /\ userspace' \in BOOLEAN
    BY <2>1 DEF ReadFreq, TypeOK
  <2>2. CASE Admitted(d) /\ EchoAndRead(Bump(d, StepFreq))
             /\ UNCHANGED <<setup, loop, auto_freq_state, alive, userspace>>
    <3>1. Bump(d, StepFreq) \in Word
      BY BumpType, StepsAreWords
    <3>2. setFreq' \in Word /\ hwFreq' \in Levels /\ actualFreq' \in Levels
      BY <2>2, <3>1, SettleType DEF EchoAndRead
    <3>3. leaked' \in 0 .. FdLimit
      BY <2>2, ConfigAssumption DEF Admitted, CanOpen, Leak, TypeOK
    <3> QED BY <2>2, <3>2, <3>3 DEF TypeOK
  <2> QED BY <1>5, <1>1, <2>1, <2>2 DEF AutoStep, Denied, TypeOK
<1>6. CASE EnterParadisiac
  BY <1>6 DEF EnterParadisiac, TypeOK, Callers
<1>7. CASE NextTurn
  <2>1. CASE CanOpen
    <3>1. PICK f \in Settle(Bump(dir, FREQ_NEXT_DEFAULT)) :
            /\ hwFreq' = f /\ actualFreq' = f
            /\ \/ /\ f = lastCpuFreq
                  /\ setFreq' = Bump(dir, FREQ_NEXT_DEFAULT)
                  /\ UNCHANGED <<loop, auto_freq_state>>
               \/ /\ f # lastCpuFreq
                  /\ setFreq' = f /\ dir' = "none"
                  /\ caller' = ReturnTo
                  /\ auto_freq_state' = (auto_freq_state /\ caller # "arrow")
                  /\ UNCHANGED lastCpuFreq
      BY <1>7, <2>1 DEF NextTurn
    <3>2. UNCHANGED <<setup, userspace, leaked, alive>>
      BY <1>7, <2>1 DEF NextTurn
    <3>3. Bump(dir, FREQ_NEXT_DEFAULT) \in Word
      BY <1>7, BumpType, StepsAreWords DEF NextTurn, TypeOK
    <3>4. f \in Levels /\ f \in Word
      BY <3>3, SettleType, WordAssumption
    <3>5. auto_freq_state' \in BOOLEAN
      BY <3>1 DEF TypeOK
    <3>6. caller' \in Callers
      BY <3>1 DEF TypeOK, Callers, ReturnTo
    <3> QED BY <3>1, <3>2, <3>3, <3>4, <3>5, <3>6 DEF TypeOK
  <2>2. CASE ~CanOpen
    BY <1>1, <1>7, <2>2 DEF NextTurn
  <2> QED BY <2>1, <2>2
<1>8. CASE CallerTurn
  <2>1. CASE /\ caller' = "none"
             /\ auto_freq_state' = (auto_freq_state /\ caller # "paradisiac")
             /\ UNCHANGED <<dir, lastCpuFreq, userspace, leaked, setup, request, alive>>
    <3>1. auto_freq_state' \in BOOLEAN
      BY <2>1
    <3> QED BY <2>1, <3>1 DEF TypeOK, Callers
  <2>2. CASE /\ CallNext(IF caller = "start_min" THEN "dec" ELSE "inc", caller,
                         IF caller = "paradisiac" THEN "reread" ELSE caller)
             /\ UNCHANGED <<auto_freq_state, setup, request, alive>>
    <3>1. (IF caller = "start_min" THEN "dec" ELSE "inc") \in Directions
      BY DEF Directions
    <3>2. caller \in Callers /\ (IF caller = "paradisiac" THEN "reread" ELSE caller) \in Callers
      BY DEF TypeOK, Callers
    <3> QED BY <2>2, <3>1, <3>2, CallType DEF TypeOK
  <2> QED BY <1>8, <2>1, <2>2 DEF CallerTurn
<1>9. CASE Reread
  BY <1>9, <1>1 DEF Reread, ReadFreq, TypeOK, Callers
<1>10. CASE Foreign
  BY <1>10 DEF Foreign, TypeOK
<1> QED BY <1>0, <1>2, <1>3, <1>4, <1>5, <1>6, <1>7, <1>8, <1>9, <1>10 DEF Next, Loops

\* Type correctness of the frequency control: whatever the user, the battery,
\* the load, other programs and the kernel do, cpuState stays well typed and the
\* leaked descriptors never exceed the limit.
THEOREM TypeCorrect == Spec => []TypeOK
BY InitType, StepType, PTL DEF Spec

----------------------------------------------------------------------------
(* The cache and the processor agree. *)

\* init_cpuState reads the frequency before it is used.
LEMMA InitSync == Init => SyncInv
BY InitType, SnapAssumption DEF Init, SyncInv, Synced, LoopStart

\* Every step keeps the invariant.
LEMMA StepSync == SyncInv /\ [Next]_vars => SyncInv'
<1> SUFFICES ASSUME SyncInv, [Next]_vars PROVE SyncInv'
  OBVIOUS
<1> USE DEF setup, request, loop
<1>0. TypeOK /\ Synced /\ LoopStart /\ TypeOK'
  BY StepType DEF SyncInv
<1>1. CASE UNCHANGED <<setup, request, dir, lastCpuFreq>> /\ (dir # "none" => caller' = caller)
  BY <1>0, <1>1 DEF SyncInv, Synced, Controlled, LoopStart
<1>2. CASE Exit
  BY <1>1, <1>2 DEF Exit
\* cpuReadFreq outside the FREQ_NEXT loop
<1>3. CASE ReadFreq /\ UNCHANGED setup /\ dir' = "none"
  BY <1>0, <1>3 DEF SyncInv, ReadFreq, Synced, Controlled, LoopStart
<1>4. ASSUME NEW d \in Directions, NEW who \in Callers \ {"none", "reread"}, NEW back \in Callers,
             dir = "none", CallNext(d, who, back), UNCHANGED <<setup, request>>
      PROVE  SyncInv'
  <2>1. LoopStart'
    BY <1>0, <1>4 DEF CallNext, LoopStart
  <2> QED BY <1>0, <1>4, <2>1 DEF SyncInv, Synced, Controlled
<1>5. Idle \/ caller = "reread" => dir = "none"
  BY <1>0 DEF Idle, LoopStart
<1>6. CASE ToggleAutoFreq
  BY <1>1, <1>6 DEF ToggleAutoFreq
<1>7. ASSUME NEW d \in Directions, Arrow(d) PROVE SyncInv'
  BY <1>4, <1>5, <1>7 DEF Arrow, Callers
<1>8. CASE CheckFreq
  BY <1>2, <1>3, <1>5, <1>8 DEF CheckFreq
<1>9. ASSUME NEW d \in Directions, AutoStep(d) PROVE SyncInv'
  <2>1. dir = "none"
    BY <1>5, <1>9 DEF AutoStep
  <2>2. CASE Admitted(d) /\ EchoAndRead(Bump(d, StepFreq)) /\ UNCHANGED <<setup, loop>>
    <3> DEFINE f == Bump(d, StepFreq)
    <3>1. f \in Word
      BY <1>0, BumpType, StepsAreWords
    <3>2. setFreq' = f /\ (Controlled => hwFreq' = Snap[f]) /\ actualFreq' = hwFreq'
      BY <2>2, <3>1 DEF EchoAndRead, Settle, Controlled
    <3> QED BY <1>0, <2>1, <2>2, <3>1, <3>2 DEF SyncInv, Synced, Controlled, LoopStart
  <2> QED BY <1>9, <1>2, <1>3, <2>1, <2>2 DEF AutoStep
<1>10. CASE EnterParadisiac
  BY <1>1, <1>5, <1>10 DEF EnterParadisiac
<1>11. CASE NextTurn
  <2>1. CASE CanOpen
    <3> DEFINE g == Bump(dir, FREQ_NEXT_DEFAULT)
    <3>1. PICK f \in Settle(g) :
            /\ hwFreq' = f /\ actualFreq' = f
            /\ \/ f = lastCpuFreq /\ setFreq' = g /\ UNCHANGED loop
               \/ f # lastCpuFreq /\ setFreq' = f /\ dir' = "none"
      BY <1>11, <2>1 DEF NextTurn
    <3>2. UNCHANGED setup
      BY <1>11, <2>1 DEF NextTurn
    <3>3. dir \in Directions
      BY <1>0, <1>11 DEF NextTurn, TypeOK
    <3>4. g \in Word
      BY <1>0, <3>3, BumpType, StepsAreWords
    <3>5. f \in Levels
      BY <1>0, <3>4, SettleType
    <3>6. Controlled => f = Snap[g]
      BY <3>4 DEF Controlled, Settle
    <3>7. Synced'
      BY <1>0, <3>1, <3>2, <3>5, <3>6, SnapAssumption DEF Synced, Controlled
    <3>8. LoopStart'
      BY <1>0, <3>1 DEF LoopStart
    <3> QED BY <1>0, <3>7, <3>8 DEF SyncInv
  <2>2. CASE ~CanOpen
    BY <1>2, <1>11, <2>2 DEF NextTurn
  <2> QED BY <2>1, <2>2
<1>12. CASE CallerTurn
  <2>1. dir = "none" /\ UNCHANGED <<setup, request>>
    BY <1>12 DEF CallerTurn
  <2>2. CASE caller' = "none" /\ UNCHANGED <<dir, lastCpuFreq>>
    BY <1>1, <2>1, <2>2
  <2>3. CASE CallNext(IF caller = "start_min" THEN "dec" ELSE "inc", caller,
                      IF caller = "paradisiac" THEN "reread" ELSE caller)
    <3>1. /\ (IF caller = "start_min" THEN "dec" ELSE "inc") \in Directions
          /\ caller \in Callers \ {"none", "reread"}
          /\ (IF caller = "paradisiac" THEN "reread" ELSE caller) \in Callers
      BY <1>12 DEF CallerTurn, Directions, Callers
    <3> QED BY <1>4, <2>1, <2>3, <3>1
  <2> QED BY <1>12, <2>2, <2>3 DEF CallerTurn
<1>13. CASE Reread
  BY <1>2, <1>3, <1>5, <1>13 DEF Reread
<1>14. CASE Foreign
  BY <1>0, <1>14 DEF Foreign, SyncInv, Synced, Controlled, LoopStart
<1>15. CASE UNCHANGED vars
  BY <1>1, <1>15 DEF vars
<1> QED BY <1>6, <1>7, <1>8, <1>9, <1>10, <1>11, <1>12, <1>13, <1>14, <1>15 DEF Next, Loops

\* The frequency every guard of cpu.c looks at is the true one, and the result
\* of the last request, in every reachable state.
THEOREM CacheIsTrue == Spec => []Synced
<1>1. SyncInv => Synced
  BY DEF SyncInv
<1> QED BY <1>1, InitSync, StepSync, PTL DEF Spec

----------------------------------------------------------------------------
(* Requests stay in the range of the processor when the auto-freq step is small. *)

\* Clamped arithmetic without wrap, as the branches of the code compute it.
LEMMA BumpRange ==
  ASSUME TypeOK, RangeInv, NEW n \in Word, n <= CpuinfoMin, CpuinfoMax + n < U32
  PROVE  /\ Bump("inc", n) = (IF setFreq + n > maxFreq THEN maxFreq ELSE setFreq + n)
         /\ Bump("dec", n) = (IF setFreq - n < minFreq THEN minFreq ELSE setFreq - n)
         /\ \A d \in Directions : CpuinfoMin <= Bump(d, n) /\ Bump(d, n) <= CpuinfoMax
<1>1. /\ setFreq \in Nat /\ minFreq \in Nat /\ maxFreq \in Nat /\ n \in Nat
      /\ CpuinfoMin \in Nat /\ CpuinfoMax \in Nat /\ U32 \in Nat
  BY WordAssumption DEF TypeOK, Word
<1>2. Add32(setFreq, n) = setFreq + n
  BY <1>1 DEF RangeInv, Add32
<1>3. Sub32(setFreq, n) = setFreq - n
  BY <1>1 DEF RangeInv, Sub32
<1> QED BY <1>1, <1>2, <1>3 DEF Bump, RangeInv, Directions

\* FREQ_NEXT_DEFAULT never wraps; StepFreq does not when SmallStep holds.
LEMMA StepSizes ==
  /\ FREQ_NEXT_DEFAULT \in Word /\ FREQ_NEXT_DEFAULT <= CpuinfoMin
  /\ CpuinfoMax + FREQ_NEXT_DEFAULT < U32
  /\ SmallStep => StepFreq <= CpuinfoMin /\ CpuinfoMax + StepFreq < U32
BY WordAssumption DEF Word, SmallStep

\* The limits init_cpuState computes lie in the range.
LEMMA InitRange == Init => RangeInv
<1> SUFFICES ASSUME Init PROVE RangeInv
  OBVIOUS
<1>1. PICK lo \in ArgMinFreqs, hi \in ArgMaxFreqs :
        /\ minFreq = IF lo = LEAVE \/ lo < CpuinfoMin THEN CpuinfoMin ELSE lo
        /\ maxFreq = IF hi = LEAVE \/ hi > CpuinfoMax THEN CpuinfoMax ELSE hi
  BY DEF Init
<1>2. lo \in Nat /\ hi \in Nat /\ CpuinfoMin \in Nat /\ CpuinfoMax \in Nat
  BY WordAssumption, ConfigAssumption DEF Word
<1>3. minFreq <= maxFreq /\ setFreq \in Levels
  BY DEF Init
<1> QED BY <1>1, <1>2, <1>3, WordAssumption DEF RangeInv

\* Only the two writers of setFreq, FREQ_STEP and a turn of FREQ_NEXT, matter.
LEMMA StepRange ==
  ASSUME SmallStep
  PROVE  TypeOK /\ RangeInv /\ [Next]_vars => RangeInv'
<1> SUFFICES ASSUME TypeOK, RangeInv, [Next]_vars PROVE RangeInv'
  OBVIOUS
<1> USE DEF setup, request, loop
<1>1. CASE UNCHANGED <<setup, setFreq>>
  BY <1>1 DEF RangeInv
<1>2. ASSUME NEW d \in Directions, AutoStep(d) PROVE RangeInv'
  <2>1. CASE setFreq' = Bump(d, StepFreq) /\ UNCHANGED setup
    BY <2>1, BumpRange, StepsAreWords, StepSizes DEF RangeInv
  <2> QED BY <1>1, <1>2, <2>1 DEF AutoStep, EchoAndRead, ReadFreq, Exit
<1>3. CASE NextTurn
  <2> DEFINE g == Bump(dir, FREQ_NEXT_DEFAULT)
  <2>1. dir \in Directions
    BY <1>3 DEF NextTurn, TypeOK
  <2>2. g \in Word /\ CpuinfoMin <= g /\ g <= CpuinfoMax
    BY <2>1, BumpType, BumpRange, StepsAreWords, StepSizes
  <2>3. CASE (setFreq' = g \/ setFreq' \in Settle(g)) /\ UNCHANGED setup
    BY <2>2, <2>3, SettleType, WordAssumption DEF RangeInv
  <2>4. CASE Exit
    BY <1>1, <2>4 DEF Exit
  <2> QED BY <1>3, <2>3, <2>4 DEF NextTurn
<1> QED BY <1>1, <1>2, <1>3
        DEF Next, Loops, ToggleAutoFreq, Arrow, CheckFreq, EnterParadisiac, CallerTurn,
            Reread, Foreign, ReadFreq, Exit, vars

\* With a step of auto-freq below every frequency no request wraps around.
THEOREM RequestsInRange == ASSUME SmallStep PROVE Spec => []RangeInv
BY InitType, StepType, InitRange, StepRange, PTL DEF Spec

----------------------------------------------------------------------------
(* What a step does to the processor. *)

\* The requests themselves when nothing wraps, seen through the kernel's rounding.
LEMMA TurnResult ==
  ASSUME SyncInv, RangeInv, Controlled, NextTurn, ~Exit
  PROVE  /\ dir \in Directions /\ lastCpuFreq = Snap[setFreq] /\ lastCpuFreq = hwFreq
         /\ hwFreq' = Snap[Bump(dir, FREQ_NEXT_DEFAULT)]
         /\ UNCHANGED setup
         /\ dir' = "none" => hwFreq' # lastCpuFreq
<1>1. dir \in Directions /\ lastCpuFreq = Snap[setFreq] /\ lastCpuFreq = hwFreq
  BY DEF NextTurn, SyncInv, TypeOK, Synced, LoopStart
<1>2. hwFreq' \in Settle(Bump(dir, FREQ_NEXT_DEFAULT)) /\ UNCHANGED setup
  BY DEF NextTurn
<1>3. hwFreq' = Snap[Bump(dir, FREQ_NEXT_DEFAULT)]
  BY <1>2 DEF Settle, Controlled
<1>4. dir' = "none" => hwFreq' # lastCpuFreq
  BY <1>1 DEF NextTurn, loop, Directions
<1> QED BY <1>1, <1>2, <1>3, <1>4

\* A call of FREQ_NEXT that ends has gone to the neighbouring level.
LEMMA StepOneLevel ==
  ASSUME NoSkip, SyncInv, RangeInv, Next,
         Controlled, minFreq <= lastCpuFreq, lastCpuFreq <= maxFreq,
         dir # "none", dir' = "none"
  PROVE  NeighbourOf(dir, lastCpuFreq, hwFreq')
<1> DEFINE n == FREQ_NEXT_DEFAULT
           g == Bump(dir, n)
<1>1. caller \notin {"none", "reread"}
  BY DEF SyncInv, LoopStart
<1>2. NextTurn /\ ~Exit
  <2>1. NextTurn
    BY <1>1 DEF Next, Loops, ToggleAutoFreq, Arrow, CheckFreq, AutoStep, EnterParadisiac,
                CallerTurn, Reread, Foreign, Idle, loop
  <2> QED BY <2>1 DEF Exit, loop
<1>3. /\ dir \in Directions /\ lastCpuFreq = Snap[setFreq]
      /\ hwFreq' = Snap[g] /\ hwFreq' # lastCpuFreq
  BY <1>2, TurnResult
<1>4. /\ setFreq \in Word /\ minFreq \in Word /\ maxFreq \in Word /\ n \in Word
      /\ Levels \subseteq Word /\ Word \subseteq Nat /\ lastCpuFreq \in Levels
  BY <1>3, SnapAssumption, WordAssumption, StepsAreWords DEF SyncInv, TypeOK, Word
<1>5. TypeOK /\ g \in Word /\ hwFreq' \in Levels
  BY <1>3, BumpType, StepsAreWords, SnapAssumption DEF SyncInv
<1>6. CASE dir = "inc"
  <2>1. g = IF setFreq + n > maxFreq THEN maxFreq ELSE setFreq + n
    BY <1>5, <1>6, BumpRange, StepSizes
  <2>2. setFreq + n \in Word
    BY <1>4, WordAssumption DEF RangeInv, Word
  <2>3. lastCpuFreq <= Snap[g]
    <3>1. Snap[setFreq] <= Snap[setFreq + n]
      BY <1>4, <2>2, SnapAssumption
    <3>2. Snap[lastCpuFreq] <= Snap[maxFreq]
      BY <1>4, SnapAssumption
    <3>3. Snap[lastCpuFreq] = lastCpuFreq
      BY <1>4, SnapAssumption
    <3> QED BY <1>3, <2>1, <3>1, <3>2, <3>3
  <2>4. ASSUME NEW h \in Levels, lastCpuFreq < h, h < hwFreq' PROVE FALSE
    <3>1. Snap[setFreq + n] <= h
      BY <1>3, <1>4, <2>2, <2>4 DEF NoSkip
    <3>2. g <= setFreq + n
      BY <1>4, <2>1
    <3>3. Snap[g] <= Snap[setFreq + n]
      BY <1>5, <2>2, <3>2, SnapAssumption
    <3>4. Snap[setFreq + n] \in Nat /\ h \in Nat /\ hwFreq' \in Nat
      BY <1>4, <1>5, <2>2, SnapAssumption
    <3>5. hwFreq' <= Snap[setFreq + n]
      BY <1>3, <3>3
    <3> HIDE DEF g
    <3> QED BY <2>4, <3>1, <3>4, <3>5
  <2>5. lastCpuFreq < hwFreq'
    <3>1. lastCpuFreq \in Nat /\ hwFreq' \in Nat
      BY <1>4, <1>5
    <3> HIDE DEF g
    <3> QED BY <1>3, <2>3, <3>1
  <2> QED BY <1>6, <2>4, <2>5 DEF NeighbourOf
<1>7. CASE dir = "dec"
  <2>1. g = IF setFreq - n < minFreq THEN minFreq ELSE setFreq - n
    BY <1>5, <1>7, BumpRange, StepSizes
  <2>2. setFreq - n \in Word
    BY <1>4, WordAssumption, StepSizes DEF RangeInv, Word
  <2>3. Snap[g] <= lastCpuFreq
    <3>1. Snap[setFreq - n] <= Snap[setFreq]
      BY <1>4, <2>2, SnapAssumption
    <3>2. Snap[minFreq] <= Snap[lastCpuFreq]
      BY <1>4, SnapAssumption
    <3>3. Snap[lastCpuFreq] = lastCpuFreq
      BY <1>4, SnapAssumption
    <3> QED BY <1>3, <2>1, <3>1, <3>2, <3>3
  <2>4. ASSUME NEW h \in Levels, hwFreq' < h, h < lastCpuFreq PROVE FALSE
    <3>1. h <= Snap[setFreq - n]
      BY <1>3, <1>4, <2>2, <2>4 DEF NoSkip
    <3>2. setFreq - n <= g
      BY <1>4, <2>1
    <3>3. Snap[setFreq - n] <= Snap[g]
      BY <1>5, <2>2, <3>2, SnapAssumption
    <3>4. Snap[setFreq - n] \in Nat /\ h \in Nat /\ hwFreq' \in Nat
      BY <1>4, <1>5, <2>2, SnapAssumption
    <3>5. Snap[setFreq - n] <= hwFreq'
      BY <1>3, <3>3
    <3> HIDE DEF g
    <3> QED BY <2>4, <3>1, <3>4, <3>5
  <2>5. hwFreq' < lastCpuFreq
    <3>1. lastCpuFreq \in Nat /\ hwFreq' \in Nat
      BY <1>4, <1>5
    <3> HIDE DEF g
    <3> QED BY <1>3, <2>3, <3>1
  <2> QED BY <1>7, <2>4, <2>5 DEF NeighbourOf
<1> QED BY <1>3, <1>6, <1>7 DEF Directions

\* An arrow click moves to the neighbouring level, for every processor whose
\* levels FREQ_NEXT_DEFAULT can tell apart.
THEOREM OneLevelAtATime ==
  ASSUME SmallStep, NoSkip
  PROVE  Spec => MovesOneLevel
<1>1. SyncInv /\ RangeInv /\ [Next]_vars =>
        [/\ Controlled /\ minFreq <= lastCpuFreq /\ lastCpuFreq <= maxFreq
         /\ dir # "none" /\ dir' = "none"
         => NeighbourOf(dir, lastCpuFreq, hwFreq')]_vars
  BY StepOneLevel DEF vars
<1>2. Spec => []SyncInv
  BY InitSync, StepSync, PTL DEF Spec
<1> QED BY <1>1, <1>2, RequestsInRange, PTL DEF Spec, MovesOneLevel

\* minFreq <= maxFreq, and all frequencies are natural numbers.
LEMMA Ordered ==
  SyncInv /\ RangeInv => /\ minFreq \in Nat /\ maxFreq \in Nat /\ minFreq <= maxFreq
                         /\ hwFreq \in Nat /\ hwFreq \in Levels
BY WordAssumption DEF SyncInv, TypeOK, RangeInv, Word

\* Between two limits that are levels the processor stays between them.
LEMMA StepWithinLimits ==
  ASSUME SmallStep, SyncInv, RangeInv, [Next]_vars,
         Controlled, minFreq \in Levels, maxFreq \in Levels, WithinLimits
  PROVE  WithinLimits'
<1> USE DEF setup, request, loop
<1>1. CASE UNCHANGED <<setup, hwFreq>>
  BY <1>1 DEF WithinLimits
<1>2. ASSUME NEW d \in Directions, NEW n \in Word, n <= CpuinfoMin, CpuinfoMax + n < U32,
             hwFreq' = Snap[Bump(d, n)], UNCHANGED setup
      PROVE  WithinLimits'
  <2>1. /\ setFreq \in Word /\ minFreq \in Word /\ maxFreq \in Word
        /\ hwFreq = Snap[setFreq] /\ Word \subseteq Nat
    BY DEF SyncInv, TypeOK, Synced, Word
  <2>2. TypeOK /\ Bump(d, n) \in Word
    BY <1>2, BumpType DEF SyncInv
  <2>3. Snap[minFreq] = minFreq /\ Snap[maxFreq] = maxFreq
    BY SnapAssumption
  <2>4. CASE d = "inc"
    <3>1. Bump(d, n) = IF setFreq + n > maxFreq THEN maxFreq ELSE setFreq + n
      BY <1>2, <2>2, <2>4, BumpRange
    <3>2. Bump(d, n) <= maxFreq /\ (Bump(d, n) = maxFreq \/ setFreq <= Bump(d, n))
      BY <1>2, <2>1, <3>1 DEF Word
    <3>3. hwFreq' <= maxFreq
      BY <1>2, <2>1, <2>2, <2>3, <3>2, SnapAssumption
    <3>4. hwFreq <= hwFreq' \/ hwFreq' = maxFreq
      BY <1>2, <2>1, <2>2, <2>3, <3>2, SnapAssumption
    <3> QED BY <1>2, <3>3, <3>4, Ordered, SnapAssumption, WordAssumption DEF WithinLimits, Word
  <2>5. CASE d = "dec"
    <3>1. Bump(d, n) = IF setFreq - n < minFreq THEN minFreq ELSE setFreq - n
      BY <1>2, <2>2, <2>5, BumpRange
    <3>2. minFreq <= Bump(d, n) /\ (Bump(d, n) = minFreq \/ Bump(d, n) <= setFreq)
      BY <1>2, <2>1, <3>1 DEF Word
    <3>3. minFreq <= hwFreq'
      BY <1>2, <2>1, <2>2, <2>3, <3>2, SnapAssumption
    <3>4. hwFreq' <= hwFreq \/ hwFreq' = minFreq
      BY <1>2, <2>1, <2>2, <2>3, <3>2, SnapAssumption
    <3> QED BY <1>2, <3>3, <3>4, Ordered, SnapAssumption, WordAssumption DEF WithinLimits, Word
  <2> QED BY <2>4, <2>5 DEF Directions
<1>3. ASSUME NEW d \in Directions, AutoStep(d) PROVE WithinLimits'
  <2>1. CASE Admitted(d) /\ EchoAndRead(Bump(d, StepFreq)) /\ UNCHANGED setup
    <3>1. hwFreq' = Snap[Bump(d, StepFreq)]
      BY <2>1 DEF EchoAndRead, Settle, Controlled
    <3> QED BY <1>2, <2>1, <3>1, StepsAreWords, StepSizes
  <2> QED BY <1>1, <1>3, <2>1 DEF AutoStep, ReadFreq, Exit
<1>4. CASE NextTurn
  <2>1. CASE Exit
    BY <1>1, <2>1 DEF Exit
  <2> QED BY <1>2, <1>4, <2>1, TurnResult, StepsAreWords, StepSizes
<1> QED BY <1>1, <1>3, <1>4
        DEF Next, Loops, ToggleAutoFreq, Arrow, CheckFreq, EnterParadisiac, CallerTurn,
            Reread, Foreign, Controlled, ReadFreq, Exit, vars

\* No mixture of clicks, auto-freq steps and loops takes the processor out of
\* limits that are levels of its own.
THEOREM LimitsKept == ASSUME SmallStep PROVE Spec => StaysWithinLimits
<1>1. SyncInv /\ RangeInv /\ [Next]_vars =>
        [Controlled /\ {minFreq, maxFreq} \subseteq Levels /\ WithinLimits
         => WithinLimits']_vars
  BY StepWithinLimits DEF vars
<1>2. Spec => []SyncInv
  BY InitSync, StepSync, PTL DEF Spec
<1> QED BY <1>1, <1>2, RequestsInRange, PTL DEF Spec, StaysWithinLimits

----------------------------------------------------------------------------
(* The loops get on *)

LimitsAreLevels == {minFreq, maxFreq} \subseteq Levels

\* A call of FREQ_NEXT only begins where there is somewhere to go.
HasRoom ==
  /\ dir = "inc" => lastCpuFreq # maxFreq
  /\ dir = "dec" => lastCpuFreq # minFreq

\* What a turn of the FREQ_NEXT loop has achieved: it ends with the processor at another
\* level in the direction asked for, or goes on at the same level with the
\* request a whole FREQ_NEXT_DEFAULT nearer to a limit that it has not reached.
TurnGetsOn ==
  IF dir = "inc"
  THEN \/ dir' = "none" /\ hwFreq < hwFreq' /\ hwFreq' <= maxFreq
       \/ /\ dir' = dir /\ hwFreq' = hwFreq
          /\ setFreq' = setFreq + FREQ_NEXT_DEFAULT /\ setFreq' < maxFreq
  ELSE \/ dir' = "none" /\ hwFreq' < hwFreq /\ minFreq <= hwFreq'
       \/ /\ dir' = dir /\ hwFreq' = hwFreq
          /\ setFreq' = setFreq - FREQ_NEXT_DEFAULT /\ minFreq < setFreq'

\* What a turn of the loops around it has achieved: the loop is over, or a call of
\* FREQ_NEXT has begun, unless the descriptors have run out.
CallGetsOn == caller' = "none" \/ dir' # "none" \/ ~CanOpen

LEMMA StepHasRoom == HasRoom /\ [Next]_vars => HasRoom'
<1> SUFFICES ASSUME HasRoom, [Next]_vars PROVE HasRoom'
  OBVIOUS
<1> USE DEF HasRoom, setup, loop
<1>1. CASE UNCHANGED <<setup, dir, lastCpuFreq>>
  BY <1>1
<1>2. ASSUME NEW d \in Directions, NEW who, NEW back, CallNext(d, who, back), UNCHANGED setup
      PROVE  HasRoom'
  BY <1>2 DEF CallNext, Admitted, Refused, Directions
<1>3. ASSUME NEW d \in Directions, Arrow(d) PROVE HasRoom'
  BY <1>2, <1>3 DEF Arrow
<1>4. CASE CallerTurn
  BY <1>1, <1>2, <1>4 DEF CallerTurn, Directions
<1>5. CASE NextTurn
  BY <1>5 DEF NextTurn, Exit
<1> QED BY <1>1, <1>3, <1>4, <1>5
        DEF Next, Loops, ToggleAutoFreq, CheckFreq, AutoStep, EnterParadisiac, Reread,
            Foreign, ReadFreq, Exit, vars

LEMMA TurnAdvances ==
  ASSUME SyncInv, RangeInv, HasRoom, Controlled, LimitsAreLevels, WithinLimits, NextTurn, alive'
  PROVE  TurnGetsOn
<1> DEFINE n == FREQ_NEXT_DEFAULT
           g == Bump(dir, n)
<1>1. ~Exit
  BY DEF Exit
<1>2. /\ dir \in Directions /\ lastCpuFreq = Snap[setFreq] /\ lastCpuFreq = hwFreq
      /\ hwFreq' = Snap[g]
  BY <1>1, TurnResult
<1>3. /\ TypeOK /\ setFreq \in Word /\ minFreq \in Word /\ maxFreq \in Word /\ n \in Word /\ n > 0
      /\ Word \subseteq Nat /\ hwFreq \in Word /\ hwFreq \in Levels
  BY WordAssumption, StepsAreWords DEF SyncInv, TypeOK, Word
<1>4. g \in Word /\ hwFreq' \in Word
  BY <1>2, <1>3, BumpType, SnapAssumption, WordAssumption
<1>5. Snap[minFreq] = minFreq /\ Snap[maxFreq] = maxFreq
  BY SnapAssumption DEF LimitsAreLevels
<1>6. \/ hwFreq' = lastCpuFreq /\ setFreq' = g /\ dir' = dir
      \/ hwFreq' # lastCpuFreq /\ dir' = "none"
  BY <1>1 DEF NextTurn, loop
<1>7. minFreq <= hwFreq /\ hwFreq <= maxFreq
  BY DEF WithinLimits
<1>8. CASE dir = "inc"
  <2>1. g = IF setFreq + n > maxFreq THEN maxFreq ELSE setFreq + n
    BY <1>3, <1>8, BumpRange, StepSizes
  <2>2. g = maxFreq \/ (g = setFreq + n /\ g < maxFreq)
    BY <1>3, <2>1
  <2> HIDE DEF g
  <2>3. g = maxFreq => hwFreq' = maxFreq /\ hwFreq' # lastCpuFreq
    BY <1>2, <1>5, <1>8 DEF HasRoom
  <2>4. g < maxFreq /\ g = setFreq + n => hwFreq <= hwFreq' /\ hwFreq' <= maxFreq
    <3>1. g <= maxFreq => Snap[g] <= Snap[maxFreq]
      BY <1>3, <1>4, SnapAssumption
    <3>2. setFreq <= g => Snap[setFreq] <= Snap[g]
      BY <1>3, <1>4, SnapAssumption
    <3>3. g < maxFreq /\ g = setFreq + n => g <= maxFreq /\ setFreq <= g
      BY <1>3, <1>4
    <3> QED BY <1>2, <1>5, <3>1, <3>2, <3>3
  <2>5. CASE g = maxFreq
    BY <1>2, <1>3, <1>4, <1>6, <1>7, <1>8, <2>3, <2>5 DEF TurnGetsOn
  <2>6. CASE g = setFreq + n /\ g < maxFreq
    BY <1>2, <1>3, <1>4, <1>6, <1>8, <2>4, <2>6 DEF TurnGetsOn
  <2> QED BY <2>2, <2>5, <2>6
<1>9. CASE dir = "dec"
  <2>1. g = IF setFreq - n < minFreq THEN minFreq ELSE setFreq - n
    BY <1>3, <1>9, BumpRange, StepSizes
  <2>2. g = minFreq \/ (g = setFreq - n /\ minFreq < g)
    BY <1>3, <2>1
  <2> HIDE DEF g
  <2>3. g = minFreq => hwFreq' = minFreq /\ hwFreq' # lastCpuFreq
    BY <1>2, <1>5, <1>9 DEF HasRoom
  <2>4. minFreq < g /\ g = setFreq - n => hwFreq' <= hwFreq /\ minFreq <= hwFreq'
    <3>1. minFreq <= g => Snap[minFreq] <= Snap[g]
      BY <1>3, <1>4, SnapAssumption
    <3>2. g <= setFreq => Snap[g] <= Snap[setFreq]
      BY <1>3, <1>4, SnapAssumption
    <3>3. minFreq < g /\ g = setFreq - n => minFreq <= g /\ g <= setFreq
      BY <1>3, <1>4
    <3> QED BY <1>2, <1>5, <3>1, <3>2, <3>3
  <2>5. CASE g = minFreq
    BY <1>2, <1>3, <1>4, <1>6, <1>7, <1>9, <2>3, <2>5 DEF TurnGetsOn
  <2>6. CASE g = setFreq - n /\ minFreq < g
    BY <1>2, <1>3, <1>4, <1>6, <1>9, <2>4, <2>6 DEF TurnGetsOn
  <2> QED BY <2>2, <2>5, <2>6
<1> QED BY <1>2, <1>8, <1>9 DEF Directions

\* A loop around cpuSetFreq is over or calls it for a direction that is not refused.
LEMMA CallAdvances ==
  ASSUME SyncInv, Steerable, CallerTurn
  PROVE  CallGetsOn
<1>1. actualFreq \in Nat /\ maxFreq \in Nat
  BY WordAssumption DEF SyncInv, TypeOK, Word
<1>2. CASE ~StillWanted /\ caller' = "none"
  BY <1>2 DEF CallGetsOn
<1>3. ASSUME StillWanted,
             CallNext(IF caller = "start_min" THEN "dec" ELSE "inc", caller,
                      IF caller = "paradisiac" THEN "reread" ELSE caller)
      PROVE  CallGetsOn
  <2>1. caller \in {"start_min", "start_max", "paradisiac"}
    BY DEF CallerTurn
  <2>2. ~Refused(IF caller = "start_min" THEN "dec" ELSE "inc")
    <3>1. caller = "start_min" => actualFreq # minFreq
      BY <1>3 DEF StillWanted
    <3>2. caller = "start_max" => actualFreq # maxFreq
      BY <1>3 DEF StillWanted
    <3>3. caller = "paradisiac" => actualFreq # maxFreq
      BY <1>1, <1>3 DEF StillWanted
    <3> QED BY <2>1, <3>1, <3>2, <3>3 DEF Refused, Steerable
  <2> QED BY <1>3, <2>2 DEF CallNext, Denied, Steerable, CallGetsOn
<1> QED BY <1>2, <1>3 DEF CallerTurn

\* The measure behind LoopsEnd: where the processor can be steered, every turn of the
\* FREQ_NEXT loop gets on and every turn of its callers ends or calls it, so a
\* loop has as many calls as there are levels to the limit, and a call as many
\* turns as there are steps of FREQ_NEXT_DEFAULT to it.
THEOREM LoopsGetOn ==
  ASSUME SmallStep
  PROVE  Spec => [][Steerable /\ LimitsAreLevels /\ WithinLimits =>
                      /\ NextTurn /\ alive' => TurnGetsOn
                      /\ CallerTurn => CallGetsOn]_vars
<1>1. Init => HasRoom
  BY DEF Init, HasRoom
<1>2. SyncInv /\ RangeInv /\ HasRoom =>
        [Steerable /\ LimitsAreLevels /\ WithinLimits =>
           /\ NextTurn /\ alive' => TurnGetsOn
           /\ CallerTurn => CallGetsOn]_vars
  BY TurnAdvances, CallAdvances DEF Steerable
<1>3. Spec => []SyncInv
  BY InitSync, StepSync, PTL DEF Spec
<1> QED BY <1>1, <1>2, <1>3, StepHasRoom, RequestsInRange, PTL DEF Spec

(***************************************************************************)
(* The main loop: LoopSpec is the specification of EventLoop.              *)
(***************************************************************************)
\* Every step of the main loop is a step of the frequency control, or none.
LEMMA StepImplements ==
  ASSUME auto_freq_state \in BOOLEAN, saved_autoFreq \in BOOLEAN, [LoopNext]_allVars
  PROVE  [Next]_vars
<1>1. CASE UNCHANGED vars
  BY <1>1
<1>2. CASE StartUp \/ WaitingTurn \/ DrawTurn \/ ParadisiacLoop \/ ForeignTurn
  BY <1>2 DEF StartUp, WaitingTurn, DrawTurn, ParadisiacLoop, ForeignTurn, Next
<1>3. ASSUME NEW gap \in Gaps, EventTurn(gap) PROVE [Next]_vars
  BY <1>3 DEF EventTurn, Click, Next, Directions
<1>4. CASE UpdateTurn
  BY <1>4 DEF UpdateTurn, Next
<1>5. CASE ParadisiacTurn
  <2>1. CASE EnterParadisiac
    BY <2>1 DEF Next
  <2>2. CASE ParadisiacPasses
    <3>1. auto_freq_state' = auto_freq_state \/ auto_freq_state' = ~auto_freq_state
      BY <2>2 DEF ParadisiacPasses, RestoreAutoFreq
    <3>2. CASE auto_freq_state' = auto_freq_state
      BY <2>2, <3>2 DEF ParadisiacPasses, vars
    <3>3. CASE auto_freq_state' = ~auto_freq_state
      BY <1>5, <2>2, <3>3 DEF ParadisiacTurn, ParadisiacPasses, ToggleAutoFreq, Next
    <3> QED BY <3>1, <3>2, <3>3
  <2> QED BY <1>5, <2>1, <2>2 DEF ParadisiacTurn
<1>6. ASSUME NEW load \in Loads, LoadTurn(load) PROVE [Next]_vars
  BY <1>6 DEF LoadTurn, Scaled, Next, Directions
<1> QED BY <1>1, <1>2, <1>3, <1>4, <1>5, <1>6 DEF LoopNext, ProcessTurn, allVars

\* What the proofs about CpuFreq show also holds inside the main loop.
LEMMA LoopStep ==
  SyncInv /\ saved_autoFreq \in BOOLEAN /\ [LoopNext]_allVars
    => (SyncInv /\ saved_autoFreq \in BOOLEAN)' /\ [Next]_vars
<1> SUFFICES ASSUME SyncInv, saved_autoFreq \in BOOLEAN, [LoopNext]_allVars
             PROVE  (SyncInv /\ saved_autoFreq \in BOOLEAN)' /\ [Next]_vars
  OBVIOUS
<1>1. auto_freq_state \in BOOLEAN
  BY DEF SyncInv, TypeOK
<1>2. [Next]_vars
  BY <1>1, StepImplements
<1>3. saved_autoFreq' \in BOOLEAN
  BY <1>1 DEF LoopNext, ProcessTurn, StartUp, WaitingTurn, EventTurn, DrawTurn, UpdateTurn,
              ParadisiacTurn, ParadisiacPasses, ParadisiacLoop, LoadTurn, ForeignTurn,
              paradisiac, loopVars, allVars
<1> QED BY <1>2, <1>3, StepSync

\* The main loop implements the frequency control: every theorem about the
\* safety of CpuFreq is a theorem about the whole program.
THEOREM ImplementsCpuFreq == LoopSpec => Init /\ [][Next]_vars
<1>1. LoopInit => SyncInv /\ saved_autoFreq \in BOOLEAN /\ Init
  BY InitSync DEF LoopInit
<1> QED BY <1>1, LoopStep, PTL DEF LoopSpec

\* While the event loop has control, only manageCpuLoad writes a frequency,
\* and it does so one second after lastFreqChange.
LEMMA OnlyScaledWrites ==
  ASSUME SyncInv, LoopNext, Idle, setFreq' # setFreq
  PROVE  sinceChange = 1 /\ auto_freq_state
<1> USE DEF setup, request, loop, vars
<1>1. ~NextTurn /\ ~Reread /\ ~CallerTurn
  BY DEF Idle, NextTurn, Reread, CallerTurn, SyncInv, LoopStart
<1>2. ~WaitingTurn /\ ~ParadisiacLoop
  BY <1>1 DEF WaitingTurn, ParadisiacLoop, Loops
<1>3. ~StartUp /\ ~DrawTurn /\ ~UpdateTurn /\ ~ParadisiacTurn /\ ~ForeignTurn
  BY DEF StartUp, DrawTurn, UpdateTurn, ParadisiacTurn, ForeignTurn, Foreign, EnterParadisiac,
         ParadisiacPasses, CheckFreq, ReadFreq, Exit
<1>4. \A gap \in Gaps : ~EventTurn(gap)
  BY DEF EventTurn, Click, ToggleAutoFreq, Arrow
<1>5. PICK load \in Loads : LoadTurn(load)
  BY <1>2, <1>3, <1>4 DEF LoopNext, ProcessTurn
<1>6. Scaled(load) /\ ~NothingToScale(load)
  BY <1>5 DEF LoadTurn
<1> QED BY <1>6 DEF Scaled, NothingToScale

\* A step of auto-freq and lastFreqChange go together; only a new second
\* separates them again.
LEMMA SteppedStep == SteppedNow /\ [LoopNext]_allVars => SteppedNow'
<1> SUFFICES ASSUME SteppedNow, [LoopNext]_allVars PROVE SteppedNow'
  OBVIOUS
<1>1. CASE UNCHANGED <<sinceChange, stepped>>
  BY <1>1 DEF SteppedNow
<1>2. ASSUME NEW gap \in Gaps, EventTurn(gap) PROVE SteppedNow'
  <2>1. CASE stepped /\ gap = 0
    BY <1>2, <2>1 DEF EventTurn, ClockMoves, Aged, AGED, SteppedNow
  <2>2. CASE ~(stepped /\ gap = 0)
    BY <1>2, <2>2 DEF EventTurn, ClockMoves, SteppedNow
  <2> QED BY <2>1, <2>2
<1>3. ASSUME NEW load \in Loads, LoadTurn(load) PROVE SteppedNow'
  BY <1>1, <1>3 DEF LoadTurn, Scaled, SteppedNow
<1> QED BY <1>1, <1>2, <1>3
        DEF LoopNext, ProcessTurn, StartUp, WaitingTurn, DrawTurn, UpdateTurn, ParadisiacTurn,
            ParadisiacLoop, ForeignTurn, loopVars, ages, allVars

\* However short the cycles and whatever the clock, the load and the user do,
\* auto-freq writes at most once in a second.
THEOREM AutoFreqPace == LoopSpec => OneStepPerSecond
<1>1. LoopInit => SteppedNow /\ SyncInv /\ saved_autoFreq \in BOOLEAN
  BY InitSync DEF LoopInit, SteppedNow
<1>2. SyncInv /\ SteppedNow /\ [LoopNext]_allVars => [Idle /\ setFreq' # setFreq => ~stepped]_allVars
  BY OnlyScaledWrites DEF SteppedNow, allVars
<1> QED BY <1>1, <1>2, SteppedStep, LoopStep, PTL DEF LoopSpec, OneStepPerSecond

\* Switching auto-freq off by a click holds until it is switched on again.
LEMMA ManualStep == ManualIsOff /\ [LoopNext]_allVars => ManualIsOff'
<1> SUFFICES ASSUME ManualIsOff, [LoopNext]_allVars PROVE ManualIsOff'
  OBVIOUS
<1> USE DEF setup, request, loop, vars
<1>1. CASE UNCHANGED <<manual, auto_freq_state, caller>>
  BY <1>1 DEF ManualIsOff
<1>2. CASE ~auto_freq_state' \/ ~manual'
  BY <1>2 DEF ManualIsOff
<1>3. CASE Loops /\ UNCHANGED manual
  <2>1. CASE NextTurn
    BY <1>1, <1>2, <1>3, <2>1 DEF NextTurn, Exit, ReturnTo, ManualIsOff
  <2>2. CASE CallerTurn \/ Reread
    BY <1>3, <2>2 DEF CallerTurn, Reread, Exit, ManualIsOff
  <2> QED BY <1>3, <2>1, <2>2 DEF Loops
<1>4. ASSUME NEW gap \in Gaps, EventTurn(gap) PROVE ManualIsOff'
  <2>1. ASSUME NEW d \in Directions, Arrow(d) PROVE ManualIsOff'
    BY <2>1 DEF Arrow, ManualIsOff
  <2> QED BY <1>1, <1>2, <1>4, <2>1 DEF EventTurn, Click, Directions
<1>5. CASE WaitingTurn \/ ParadisiacLoop
  BY <1>3, <1>5 DEF WaitingTurn, ParadisiacLoop, loopVars
<1>6. CASE ParadisiacTurn
  <2>1. CASE ParadisiacPasses
    BY <1>1, <1>2, <2>1 DEF ParadisiacPasses, RestoreAutoFreq
  <2>2. CASE EnterParadisiac /\ UNCHANGED manual
    BY <2>2 DEF EnterParadisiac, Idle, ManualIsOff
  <2> QED BY <1>6, <2>1, <2>2 DEF ParadisiacTurn
<1>7. CASE StartUp
  BY <1>1, <1>7 DEF StartUp, EnterParadisiac, Idle, ManualIsOff
<1>8. CASE DrawTurn \/ UpdateTurn
  BY <1>1, <1>8 DEF DrawTurn, UpdateTurn, CheckFreq, Exit
<1>9. ASSUME NEW load \in Loads, LoadTurn(load) PROVE ManualIsOff'
  BY <1>1, <1>9 DEF LoadTurn, Scaled, AutoStep, CheckFreq, Exit
<1>10. CASE ForeignTurn
  BY <1>1, <1>10 DEF ForeignTurn, Foreign, loopVars
<1>11. CASE UNCHANGED allVars
  BY <1>1, <1>11 DEF allVars, loopVars
<1> QED BY <1>4, <1>5, <1>6, <1>7, <1>8, <1>9, <1>10, <1>11 DEF LoopNext, ProcessTurn

\* Auto-freq never undoes a click on an arrow.
THEOREM ArrowHasPrecedence == LoopSpec => ManualStaysManual
<1>1. LoopInit => ManualIsOff /\ SyncInv /\ saved_autoFreq \in BOOLEAN
  BY InitSync DEF LoopInit, ManualIsOff
<1>2. SyncInv /\ ManualIsOff /\ [LoopNext]_allVars => [Idle /\ setFreq' # setFreq => ~manual]_allVars
  BY OnlyScaledWrites DEF ManualIsOff, Idle, allVars
<1> QED BY <1>1, <1>2, ManualStep, LoopStep, PTL DEF LoopSpec, ManualStaysManual

----------------------------------------------------------------------------
(* Types *)

\* an age stays between the two bounds
LEMMA AgeInBounds ==
  \A cap \in Nat : \A age \in -MaxBack .. cap : \A gap \in Int :
    age + gap >= -MaxBack => Aged(age, gap, cap) \subseteq -MaxBack .. cap
BY LoopAssumption DEF Aged

LEMMA InitTypes == LoopInit => LoopTypeOK
<1> SUFFICES ASSUME LoopInit PROVE LoopTypeOK
  OBVIOUS
<1>1. TypeOK
  BY InitSync DEF LoopInit, SyncInv
<1>2. actualFreq \in Levels
  BY <1>1 DEF TypeOK
<1>3. sinceChange \in -MaxBack .. AGED /\ sinceUpdate \in -MaxBack .. BatteryPeriod + 1
  BY LoopAssumption DEF LoopInit, AGED
<1> QED BY <1>1, <1>2, <1>3 DEF LoopInit, LoopTypeOK, Places, Loads

LEMMA StepTypes == SyncInv /\ LoopTypeOK /\ [LoopNext]_allVars => LoopTypeOK'
<1> SUFFICES ASSUME SyncInv, LoopTypeOK, [LoopNext]_allVars PROVE LoopTypeOK'
  OBVIOUS
<1>1. TypeOK /\ TypeOK'
  BY LoopStep DEF SyncInv, LoopTypeOK
<1>2. actualFreq \in Levels /\ actualFreq' \in Levels /\ auto_freq_state \in BOOLEAN
  BY <1>1 DEF TypeOK
<1> USE DEF loopVars, ages, battery, paradisiac, Places
<1>3. CASE StartUp
  BY <1>1, <1>2, <1>3 DEF StartUp, LoopTypeOK
<1>4. CASE WaitingTurn \/ DrawTurn \/ ForeignTurn
  BY <1>1, <1>2, <1>4 DEF WaitingTurn, DrawTurn, ForeignTurn, LoopTypeOK
<1>5. ASSUME NEW gap \in Gaps, EventTurn(gap) PROVE LoopTypeOK'
  <2>1. sinceChange' \in -MaxBack .. AGED
    BY <1>5, AgeInBounds, LoopAssumption DEF EventTurn, ClockMoves, LoopTypeOK, AGED
  <2>2. sinceUpdate' \in -MaxBack .. BatteryPeriod + 1
    <3>1. BatteryPeriod + 1 \in Nat /\ gap \in Int /\ sinceUpdate \in -MaxBack .. BatteryPeriod + 1
      BY LoopAssumption DEF LoopTypeOK
    <3>2. ClockMoves(gap)
      BY <1>5 DEF EventTurn
    <3>3. /\ sinceUpdate + gap >= -MaxBack
          /\ sinceUpdate' \in Aged(sinceUpdate, gap, BatteryPeriod + 1)
      BY <3>2 DEF ClockMoves
    <3> QED BY <3>1, <3>3, AgeInBounds
  <2>3. stepped' \in BOOLEAN /\ at' \in Places /\ manual' \in BOOLEAN
    BY <1>5 DEF EventTurn, ClockMoves, Click, LoopTypeOK
  <2> QED BY <1>1, <1>5, <2>1, <2>2, <2>3 DEF EventTurn, LoopTypeOK
<1>6. CASE UpdateTurn
  BY <1>1, <1>2, <1>6, LoopAssumption DEF UpdateTurn, NewReading, LoopTypeOK
<1>7. CASE ParadisiacTurn
  BY <1>1, <1>2, <1>7 DEF ParadisiacTurn, ParadisiacPasses, RestoreAutoFreq, LoopTypeOK
<1>8. CASE ParadisiacLoop
  BY <1>1, <1>2, <1>8 DEF ParadisiacLoop, LoopTypeOK
<1>9. ASSUME NEW load \in Loads, LoadTurn(load) PROVE LoopTypeOK'
  <2>1. stepped' = stepped \/ stepped' = TRUE
    BY <1>9 DEF LoadTurn, Scaled
  <2>2. stepped' \in BOOLEAN
    BY <2>1 DEF LoopTypeOK
  <2>3. sinceChange' = sinceChange \/ sinceChange' = 0
    BY <1>9 DEF LoadTurn, Scaled
  <2>4. sinceChange' \in -MaxBack .. AGED
    BY <2>3, LoopAssumption DEF LoopTypeOK, AGED
  <2> QED BY <1>1, <1>2, <1>9, <2>2, <2>4 DEF LoadTurn, LoopTypeOK
<1>10. CASE UNCHANGED allVars
  BY <1>1, <1>10 DEF allVars, LoopTypeOK
<1> QED BY <1>3, <1>4, <1>5, <1>6, <1>7, <1>8, <1>9, <1>10 DEF LoopNext, ProcessTurn

\* Every variable of the main loop keeps its type, whatever the clock does.
THEOREM LoopTypes == LoopSpec => []LoopTypeOK
<1>1. LoopInit => SyncInv /\ saved_autoFreq \in BOOLEAN /\ LoopTypeOK
  BY InitSync, InitTypes DEF LoopInit
<1> QED BY <1>1, LoopStep, StepTypes, PTL DEF LoopSpec
=============================================================================
