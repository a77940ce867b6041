--------------------------- MODULE Startup_proof ---------------------------
(***************************************************************************)
(* Theorems about the start: the command line, the interface chosen, and   *)
(* the vector of batteries, for every set of words, machine and number of  *)
(* failing allocations.                                                    *)
(***************************************************************************)
EXTENDS Startup, SequenceTheorems, FiniteSetTheorems, TLAPS

----------------------------------------------------------------------------
(* The command line *)

\* while it is read, the setting n is the one word given for it, or unset
Follows(n) ==
  \/ Given(n) = {} /\ args[n] = Unset(n)
  \/ \E k \in Given(n) : Given(n) = {k} /\ args[n] = Stored(words[k])

LineInv ==
  /\ args = [n \in Settings |-> args[n]] /\ words \in Seq(Words)
  /\ stage = "args" => \A n \in Settings : Follows(n)
  /\ GivenWins

LEMMA InitLine == Init => LineInv
<1> SUFFICES ASSUME Init PROVE LineInv
  OBVIOUS
<1>1. args = [n \in Settings |-> Unset(n)] /\ words = <<>> /\ stage = "args"
  BY DEF Init, ArgumentsInit
<1>2. words \in Seq(Words) /\ \A n : Given(n) = {}
  BY <1>1, EmptySeq DEF Given
<1>3. \A n \in Settings : Follows(n)
  BY <1>1, <1>2 DEF Follows
<1>4. GivenWins
  BY <1>1 DEF GivenWins, Accepted
<1>5. args = [n \in Settings |-> args[n]]
  BY <1>1
<1> QED BY <1>2, <1>3, <1>4, <1>5 DEF LineInv

\* a word more is given for its own setting only
LEMMA GivenGrows ==
  ASSUME NEW w \in Words, NEW n, words \in Seq(Words), words' = Append(words, w)
  PROVE  /\ \A k \in Given(n) : words'[k] = words[k] /\ k \in 1 .. Len(words)
         /\ words'[Len(words) + 1] = w
         /\ Given(n)' = Given(n) \cup (IF w.name = n /\ Stored(w) # Unset(n)
                                       THEN {Len(words) + 1} ELSE {})
<1>1. /\ DOMAIN words = 1 .. Len(words) /\ DOMAIN words' = 1 .. Len(words) + 1
      /\ \A k \in 1 .. Len(words) : words'[k] = words[k]
      /\ words'[Len(words) + 1] = w /\ Len(words) \in Nat
  OBVIOUS
<1>2. \A k \in 1 .. Len(words) + 1 : k \in 1 .. Len(words) \/ k = Len(words) + 1
  BY <1>1
<1> DEFINE G(v, k) == v[k].name = n /\ Stored(v[k]) # Unset(n)
<1>3. Given(n) = {k \in 1 .. Len(words) : G(words, k)}
  BY <1>1 DEF Given
<1>4. Given(n)' = {k \in 1 .. Len(words) + 1 : G(words', k)}
  BY <1>1 DEF Given
<1>5. \A k \in 1 .. Len(words) : G(words', k) <=> G(words, k)
  BY <1>1
<1>6. G(words', Len(words) + 1) <=> (w.name = n /\ Stored(w) # Unset(n))
  BY <1>1
<1>7. /\ Len(words) + 1 \in 1 .. Len(words) + 1
      /\ \A k \in 1 .. Len(words) : k \in 1 .. Len(words) + 1
  BY <1>1
<1> HIDE DEF G
<1> QED BY <1>1, <1>2, <1>3, <1>4, <1>5, <1>6, <1>7

LEMMA StepTakes ==
  ASSUME LineInv, stage = "args", NEW w \in Words, Takes(w)
  PROVE  LineInv'
<1>1. /\ stage' = "args" /\ words' = Append(words, w) /\ words' \in Seq(Words)
      /\ args' = IF w.name \in Settings THEN [args EXCEPT ![w.name] = Stored(w)] ELSE args
      /\ ~AlreadySet(w.name)
  BY AppendProperties DEF Takes, LineInv
<1>2. args' = [n \in Settings |-> args'[n]]
  BY <1>1 DEF LineInv
<1>3. ASSUME NEW n \in Settings PROVE Follows(n)'
  <2>1. Follows(n)
    BY <1>3 DEF LineInv
  <2>2. /\ \A k \in Given(n) : words'[k] = words[k] /\ k \in 1 .. Len(words)
        /\ words'[Len(words) + 1] = w
        /\ Given(n)' = Given(n) \cup (IF w.name = n /\ Stored(w) # Unset(n)
                                      THEN {Len(words) + 1} ELSE {})
    BY <1>1, GivenGrows DEF LineInv
  <2>3. CASE w.name # n
    <3>1. args'[n] = args[n]
      BY <1>1, <1>3, <2>3 DEF LineInv
    <3> QED BY <2>1, <2>2, <2>3, <3>1 DEF Follows
  <2>4. CASE w.name = n
    <3>1. args'[n] = Stored(w)
      BY <1>1, <1>3, <2>4 DEF LineInv
    <3>2. args[n] = Unset(n)
      BY <1>1, <1>3, <2>4 DEF AlreadySet
    <3>3. \A k \in Given(n) : Stored(words[k]) # Unset(n)
      BY DEF Given
    <3>4. Given(n) = {}
      BY <2>1, <3>2, <3>3 DEF Follows
    <3> HIDE DEF Given
    <3>5. CASE Stored(w) = Unset(n)
      BY <2>2, <3>1, <3>4, <3>5 DEF Follows
    <3>6. CASE Stored(w) # Unset(n)
      BY <2>2, <2>4, <3>1, <3>4, <3>6 DEF Follows
    <3> QED BY <3>5, <3>6
  <2> QED BY <2>3, <2>4
<1> QED BY <1>1, <1>2, <1>3 DEF LineInv, GivenWins, Accepted

LEMMA StepEnd ==
  ASSUME LineInv, EndOfLine
  PROVE  LineInv'
<1>1. /\ stage = "args" /\ stage' # "args" /\ words' = words
      /\ args' = [n \in Settings |-> IF args[n] = Unset(n) THEN Default[n] ELSE args[n]]
  BY DEF EndOfLine, argVars, WithDefaults
<1>2. ASSUME NEW n \in Settings
      PROVE  \/ Given(n)' = {} /\ args'[n] = Default[n]
             \/ \E k \in Given(n)' : Given(n)' = {k} /\ args'[n] = Stored(words'[k])
  <2>1. Given(n)' = Given(n)
    BY <1>1 DEF Given
  <2>2. Follows(n)
    BY <1>1, <1>2 DEF LineInv
  <2>3. args'[n] = IF args[n] = Unset(n) THEN Default[n] ELSE args[n]
    BY <1>1, <1>2
  <2>4. \A k \in Given(n) : Stored(words[k]) # Unset(n)
    BY DEF Given
  <2> QED BY <1>1, <2>1, <2>2, <2>3, <2>4 DEF Follows
<1>3. args' = [n \in Settings |-> args'[n]]
  BY <1>1
<1> QED BY <1>1, <1>2, <1>3 DEF LineInv, GivenWins, Accepted

\* after the command line nothing touches the settings
LEMMA StepLine == LineInv /\ [Next]_startVars => LineInv'
<1> SUFFICES ASSUME LineInv, [Next]_startVars PROVE LineInv'
  OBVIOUS
<1>1. CASE ReadLine
  <2>1. PICK w \in Words : Leaves(w) \/ Takes(w)
    BY <1>1 DEF ReadLine, ReadWord
  <2>2. CASE Leaves(w)
    BY <2>2, AppendProperties DEF Leaves, LineInv, GivenWins, Accepted
  <2> QED BY <1>1, <2>1, <2>2, StepTakes DEF ReadLine, ReadWord
<1>2. CASE EndLine
  BY <1>2, StepEnd DEF EndLine
<1>3. CASE UNCHANGED argVars /\ (stage' = stage \/ Accepted \/ ~Accepted') /\ (stage' = "args" => stage = "args")
  BY <1>3 DEF argVars, LineInv, Follows, Given, GivenWins, Accepted
<1>4. CASE init_display \/ APM_init \/ ACPI_init \/ ReadEntry \/ CloseDir \/ Quit \/ free_and_exit
  BY <1>3, <1>4 DEF init_display, APM_init, ACPI_init, ReadEntry, CloseDir, Quit, free_and_exit,
                    NextInterface, Accepted
<1>5. CASE UNCHANGED startVars
  BY <1>3, <1>5 DEF startVars
<1> QED BY <1>1, <1>2, <1>4, <1>5 DEF Next, Progress

\* An option that was given has its value, whatever else is on the command line.
THEOREM OptionsAreKept == Spec => []GivenWins
<1>1. LineInv => GivenWins
  BY DEF LineInv
<1> QED BY <1>1, InitLine, StepLine, PTL DEF Spec

----------------------------------------------------------------------------
(* The interface *)

asked == IF args["useApmAcpi"] \in {1, 3} THEN APM ELSE ACPI
other == IF asked = APM THEN ACPI ELSE APM
only  == args["useApmAcpi"] \in {3, 4}

\* how often init_battery may try
Tries == IF only THEN 1 ELSE 2
Tried(t) == IF t = 1 THEN asked ELSE other

LEMMA OrderOfTries ==
  ASSUME args["useApmAcpi"] \in 1 .. 4
  PROVE  /\ Len(Order) = Tries /\ Order[1] = asked /\ (~only => Order[2] = other)
         /\ asked # other /\ {asked, other} = {APM, ACPI}
<1>1. CASE args["useApmAcpi"] = 1
  BY <1>1 DEF Order, Tries, asked, other, only, APM, ACPI
<1>2. CASE args["useApmAcpi"] = 2
  BY <1>2 DEF Order, Tries, asked, other, only, APM, ACPI
<1>3. CASE args["useApmAcpi"] = 3
  BY <1>3 DEF Order, Tries, asked, other, only, APM, ACPI
<1>4. CASE args["useApmAcpi"] = 4
  BY <1>4 DEF Order, Tries, asked, other, only, APM, ACPI
<1>5. \A x \in 1 .. 4 : x = 1 \/ x = 2 \/ x = 3 \/ x = 4
  OBVIOUS
<1> QED BY <1>1, <1>2, <1>3, <1>4, <1>5, Zenon

\* what is known of the first interface while the second one is tried
FirstFailed == try = 1 \/ (try = 2 /\ ~only /\ ~Works(asked))

\* With enough memory the program gives up an interface only if it does not work.
ChoiceInv ==
  /\ failed \in Nat
  /\ failed = 0 =>
      /\ stage = "args" => try = 1 /\ args["useApmAcpi"] \in 0 .. 4
      /\ stage = "display" => try = 1
      /\ stage \in {"display", "battery", "readdir", "run"} => args["useApmAcpi"] \in 1 .. 4
      /\ stage \in {"battery", "readdir", "run"} => FirstFailed
      /\ stage = "readdir" => type = ACPI /\ Tried(try) = ACPI /\ Works(ACPI)
      /\ stage = "run" => type = Tried(try) /\ Works(type)
      /\ stage \in {"free", "exit"} =>
           \/ try = 1
           \/ FirstFailed /\ type = other
           \/ try = Tries + 1 /\ ~Works(asked) /\ (only \/ ~Works(other))

LEMMA ChoiceSuffices == ChoiceInv => RightInterface
BY DEF ChoiceInv, RightInterface, FirstFailed, Tried, Tries, asked, other, only, APM, ACPI

LEMMA InitChoice == Init => ChoiceInv
<1> SUFFICES ASSUME Init PROVE ChoiceInv
  OBVIOUS
<1>1. stage = "args" /\ try = 1 /\ args["useApmAcpi"] = Unset("useApmAcpi")
  BY DEF Init, ArgumentsInit, Settings, ValuesOf
<1>2. args["useApmAcpi"] = 0
  BY <1>1 DEF Unset, Chars, Shorts
<1>3. failed = 0
  BY DEF Init
<1> QED BY <1>1, <1>2, <1>3 DEF ChoiceInv

LEMMA StepChoice == LineInv /\ ChoiceInv /\ [Next]_startVars => ChoiceInv'
<1>0. ASSUME ChoiceInv, [Next]_startVars PROVE failed' \in Nat /\ (failed' = failed \/ failed' # 0)
  BY <1>0 DEF ChoiceInv, Next, Progress, ReadLine, EndLine, init_display, APM_init, ACPI_init,
              ReadEntry, Malloc, MallocFails, CloseDir, Quit, free_and_exit, FreeFirst, memory, startVars
<1> SUFFICES ASSUME LineInv, ChoiceInv, [Next]_startVars, failed' = 0, failed = 0 PROVE ChoiceInv'
  BY <1>0 DEF ChoiceInv
<1> DEFINE u == "useApmAcpi"
<1>1. CASE ReadLine
  <2>1. stage = "args" /\ try' = try /\ failed = 0 /\ try = 1 /\ args[u] \in 0 .. 4
    BY <1>1 DEF ReadLine, ReadWord, memory, ChoiceInv
  <2>2. PICK w \in Words : Leaves(w) \/ Takes(w)
    BY <1>1 DEF ReadLine, ReadWord
  <2>3. CASE Leaves(w)
    BY <2>1, <2>3 DEF Leaves, ChoiceInv
  <2>4. CASE Takes(w)
    <3>1. stage' = "args"
      BY <2>1, <2>4 DEF Takes
    <3>2. args'[u] \in 0 .. 4
      <4>1. u \in Settings
        BY DEF Settings, ValuesOf
      <4>2. CASE w.name = u
        <5>1. Stored(w) = w.value
          BY <4>2 DEF Stored, Flags, Chars, Shorts
        <5>2. w.value \in 1 .. 4
          BY <2>4, <4>2 DEF Takes, Refused, ValuesOf
        <5>3. args'[u] = w.value
          BY <2>4, <4>1, <4>2, <5>1 DEF Takes, LineInv
        <5> QED BY <5>2, <5>3
      <4>3. CASE w.name # u
        BY <2>1, <2>4, <4>1, <4>3 DEF Takes, LineInv
      <4> QED BY <4>2, <4>3
    <3> QED BY <2>1, <3>1, <3>2 DEF ChoiceInv
  <2> QED BY <2>2, <2>3, <2>4
<1>2. CASE EndLine
  <2>1. stage = "args" /\ try' = try /\ failed = 0 /\ try = 1 /\ args[u] \in 0 .. 4
    BY <1>2 DEF EndLine, EndOfLine, memory, ChoiceInv
  <2>2. args'[u] \in 1 .. 4
    <3>1. u \in Settings /\ Unset(u) = 0
      BY DEF Settings, ValuesOf, Unset, Chars, Shorts
    <3>2. args'[u] = IF args[u] = 0 THEN Default[u] ELSE args[u]
      BY <1>2, <3>1 DEF EndLine, EndOfLine, WithDefaults
    <3> QED BY <2>1, <3>2, ArgumentsAssumption
  <2>3. stage' \in {"free", "display", "battery"}
    BY <1>2 DEF EndLine, EndOfLine
  <2> QED BY <2>1, <2>2, <2>3 DEF ChoiceInv, FirstFailed
<1>3. CASE init_display
  BY <1>3 DEF init_display, argVars, memory, ChoiceInv, FirstFailed
<1>4. ASSUME stage = "battery", UNCHANGED <<args, machine>>, NextInterface, ~Works(Tried(try))
      PROVE  ChoiceInv'
  <2>1. FirstFailed /\ args[u] \in 1 .. 4
    BY <1>4 DEF ChoiceInv
  <2>2. Len(Order) = Tries
    BY <2>1, OrderOfTries
  <2>3. /\ asked' = asked /\ other' = other /\ only' = only /\ Tries' = Tries
        /\ Works(asked)' = Works(asked) /\ Works(other)' = Works(other)
    BY <1>4 DEF asked, other, only, Tries, Works
  <2>4. CASE try < Tries
    BY <1>4, <2>1, <2>2, <2>3, <2>4 DEF NextInterface, ChoiceInv, FirstFailed, Tries, Tried
  <2>5. CASE ~(try < Tries)
    BY <1>4, <2>1, <2>2, <2>3, <2>5 DEF NextInterface, ChoiceInv, FirstFailed, Tries, Tried
  <2> QED BY <2>4, <2>5
<1>12. ASSUME UNCHANGED <<args, machine>>
       PROVE  /\ asked' = asked /\ other' = other /\ only' = only /\ Tries' = Tries
              /\ \A f \in {APM, ACPI} : Works(f)' = Works(f)
  BY <1>12 DEF asked, other, only, Tries, Works
<1>13. stage \in {"battery", "readdir", "run"} =>
         FirstFailed /\ args[u] \in 1 .. 4 /\ Order[try] = Tried(try) /\ Tried(try) \in {APM, ACPI}
  BY OrderOfTries DEF ChoiceInv, FirstFailed, Tried
<1>5. CASE APM_init
  <2>1. stage = "battery" /\ Tried(try) = APM /\ UNCHANGED <<args, machine>>
    BY <1>5, <1>13 DEF APM_init, argVars
  <2>2. CASE ~machine.apm /\ NextInterface
    BY <1>4, <2>1, <2>2 DEF Works
  <2>3. CASE machine.apm /\ type' = APM /\ stage' = "run" /\ try' = try
    BY <1>12, <1>13, <2>1, <2>3 DEF ChoiceInv, FirstFailed, Tried, Works
  <2> QED BY <1>5, <2>2, <2>3 DEF APM_init
<1>6. CASE ACPI_init
  <2>1. stage = "battery" /\ Tried(try) = ACPI /\ UNCHANGED <<args, machine>>
    BY <1>6, <1>13 DEF ACPI_init, argVars
  <2>2. CASE (~machine.acpi \/ ~machine.dir) /\ NextInterface
    BY <1>4, <2>1, <2>2 DEF Works, APM, ACPI
  <2>3. CASE machine.acpi /\ machine.dir /\ type' = ACPI /\ stage' = "readdir" /\ try' = try
    BY <1>12, <1>13, <2>1, <2>3 DEF ChoiceInv, FirstFailed, Tried, Works, APM, ACPI
  <2> QED BY <1>6, <2>2, <2>3 DEF ACPI_init
<1>14. ASSUME UNCHANGED <<args, machine, try, type>>,
              \/ stage' = stage
              \/ stage = "readdir" /\ stage' = "run"
              \/ stage = "run" /\ stage' = "free"
              \/ stage = "free" /\ stage' = "exit"
       PROVE  ChoiceInv'
  <2>1. UNCHANGED <<FirstFailed, Tried(try)>>
    BY <1>12, <1>14 DEF FirstFailed, Tried, asked, other, only, APM, ACPI
  <2>2. stage = "run" => try = 1 \/ (FirstFailed /\ type = other)
    BY DEF ChoiceInv, FirstFailed, Tried
  <2>3. /\ Works(ACPI)' = Works(ACPI) /\ Works(type)' = Works(type)
        /\ Works(asked)' = Works(asked) /\ Works(other)' = Works(other)
    BY <1>14 DEF Works, asked, other
  <2>4. UNCHANGED <<asked, other, only, Tries>>
    BY <1>12, <1>14
  <2>5. CASE stage' = stage
    BY <1>14, <2>1, <2>3, <2>4, <2>5 DEF ChoiceInv
  <2>6. CASE stage' # stage
    BY <1>14, <2>1, <2>2, <2>3, <2>4, <2>6 DEF ChoiceInv
  <2> QED BY <2>5, <2>6
<1>7. CASE ReadEntry
  BY <1>7, <1>14 DEF ReadEntry, MallocFails, argVars, ChoiceInv
<1>8. CASE CloseDir \/ Quit \/ free_and_exit
  BY <1>8, <1>14 DEF CloseDir, Quit, free_and_exit, argVars, power
<1>9. CASE UNCHANGED startVars
  BY <1>9, <1>14 DEF startVars, argVars, power
<1> QED BY <1>1, <1>2, <1>3, <1>5, <1>6, <1>7, <1>8, <1>9 DEF Next, Progress

\* The interface asked for is used if it works, the other one only where the
\* command line allows it, and the program gives up only when none is left.
THEOREM InterfaceAsked == Spec => []RightInterface
BY InitLine, StepLine, InitChoice, StepChoice, ChoiceSuffices, PTL DEF Spec

----------------------------------------------------------------------------
(* The vector of batteries *)

\* a vector of n structures, each its own and allocated
Whole(v, n) ==
  /\ v = [k \in 1 .. n |-> v[k]] /\ Len(v) = n
  /\ \A k \in 1 .. n : v[k].id \in heap
  /\ \A j, k \in 1 .. n : v[j].id = v[k].id => j = k

Lfc == {lfcArgsVector[j] : j \in DOMAIN lfcArgsVector}

\* the first n batteries of ACPI are filled in
Filled(n) ==
  \A k \in 1 .. n : batteryVector[k].filler = ACPI /\ batteryVector[k].useLFC = (k \in Lfc)

VectorInv ==
  /\ machine \in Machines /\ allocated \in Nat /\ nBatt \in Nat /\ failed \in Nat
  /\ heap \subseteq 1 .. allocated /\ ~wrongFree
  /\ batteryVector # NULL => Whole(batteryVector, nBatt)
  /\ failed = 0 => /\ Whole(batteryVector, nBatt)
                   /\ heap = {batteryVector[k].id : k \in 1 .. nBatt}
                   /\ stage \in {"args", "display", "battery"} => nBatt = 0
                   /\ stage = "exit" => nBatt = 0
  /\ stage = "readdir" =>
       /\ type = ACPI /\ Whole(batteryVector, nBatt) /\ Filled(nBatt)
       /\ countBattery = nBatt /\ left \subseteq machine.bats
       /\ Cardinality(machine.bats) = nBatt + Cardinality(left)
  /\ stage = "run" =>
       /\ Whole(batteryVector, nBatt)
       /\ \/ type = APM /\ nBatt = 1 /\ batteryVector[1].filler = APM
          \/ type = ACPI /\ nBatt = Cardinality(machine.bats) /\ Filled(nBatt)

LEMMA VectorSuffices == VectorInv => VectorReady /\ FreedOnce
<1> SUFFICES ASSUME VectorInv PROVE VectorReady /\ FreedOnce
  OBVIOUS
<1>1. VectorReady
  BY DEF VectorInv, VectorReady, Whole, Filled, Lfc, APM, ACPI
<1>2. FreedOnce
  BY DEF VectorInv, FreedOnce
<1> QED BY <1>1, <1>2

LEMMA EmptyVector == NULL = [k \in 1 .. 0 |-> NULL[k]] /\ Len(NULL) = 0 /\ Whole(NULL, 0)
<1>1. NULL = [k \in 1 .. 0 |-> NULL[k]] /\ Len(NULL) = 0
  BY DEF NULL
<1> QED BY <1>1 DEF Whole

LEMMA InitVector == Init => VectorInv
BY EmptyVector DEF Init, ArgumentsInit, VectorInv

\* a structure more at the end of the vector
LEMMA VectorGrows ==
  ASSUME allocated \in Nat, nBatt \in Nat, heap \subseteq 1 .. allocated,
         Whole(batteryVector, nBatt), NEW e, Malloc(e), e.id = allocated + 1
  PROVE  /\ Whole(batteryVector, nBatt)'
         /\ nBatt' = nBatt + 1 /\ allocated' = allocated + 1
         /\ heap' = heap \cup {allocated'} /\ heap' \subseteq 1 .. allocated'
         /\ \A k \in 1 .. nBatt : batteryVector'[k] = batteryVector[k]
         /\ batteryVector'[nBatt + 1] = e
<1>1. /\ nBatt' = nBatt + 1 /\ allocated' = allocated + 1 /\ heap' = heap \cup {allocated'}
      /\ batteryVector' = [Resized(batteryVector, nBatt') EXCEPT ![nBatt'] = e]
  BY DEF Malloc
<1>2. batteryVector' = [k \in 1 .. nBatt + 1 |-> IF k = nBatt + 1 THEN e ELSE batteryVector[k]]
  <2>1. Len(batteryVector) = nBatt
    BY DEF Whole
  <2>2. \A k \in 1 .. nBatt + 1 : k <= nBatt \/ k = nBatt + 1
    OBVIOUS
  <2>3. Resized(batteryVector, nBatt') =
          [k \in 1 .. nBatt + 1 |-> IF k <= nBatt THEN batteryVector[k] ELSE [id |-> 0]]
    BY <1>1, <2>1 DEF Resized
  <2> QED BY <1>1, <2>2, <2>3
<1>3. /\ batteryVector' = [k \in 1 .. nBatt' |-> batteryVector'[k]] /\ Len(batteryVector') = nBatt'
      /\ batteryVector'[nBatt + 1] = e
  BY <1>1, <1>2
<1>4. \A k \in 1 .. nBatt : batteryVector'[k] = batteryVector[k]
  BY <1>2
<1>5. heap' \subseteq 1 .. allocated' /\ allocated' \notin heap
  BY <1>1
<1>6. \A k \in 1 .. nBatt + 1 : k \in 1 .. nBatt \/ k = nBatt + 1
  OBVIOUS
<1>7. \A k \in 1 .. nBatt + 1 : batteryVector'[k].id \in heap'
  BY <1>1, <1>3, <1>4, <1>6 DEF Whole
<1>8. \A j, k \in 1 .. nBatt + 1 : batteryVector'[j].id = batteryVector'[k].id => j = k
  <2>1. \A k \in 1 .. nBatt : batteryVector'[k].id = batteryVector[k].id /\ batteryVector[k].id # allocated'
    BY <1>4, <1>5 DEF Whole
  <2>2. batteryVector'[nBatt + 1].id = allocated'
    BY <1>1, <1>3
  <2>3. \A j, k \in 1 .. nBatt : batteryVector[j].id = batteryVector[k].id => j = k
    BY DEF Whole
  <2> SUFFICES ASSUME NEW j \in 1 .. nBatt + 1, NEW k \in 1 .. nBatt + 1,
                      batteryVector'[j].id = batteryVector'[k].id
               PROVE  j = k
    OBVIOUS
  <2>4. CASE j \in 1 .. nBatt /\ k \in 1 .. nBatt
    BY <2>1, <2>3, <2>4
  <2>5. CASE j = nBatt + 1 \/ k = nBatt + 1
    BY <1>6, <2>1, <2>2, <2>5
  <2> QED BY <1>6, <2>4, <2>5
<1> QED BY <1>1, <1>3, <1>4, <1>5, <1>7, <1>8 DEF Whole

\* the first structure is freed and the others move down
LEMMA VectorShrinks ==
  ASSUME nBatt \in Nat \ {0}, Whole(batteryVector, nBatt), batteryVector' = Shifted,
         nBatt' = nBatt - 1, heap' = heap \ {batteryVector[1].id}
  PROVE  /\ Whole(batteryVector, nBatt)'
         /\ batteryVector[1].id \in heap
         /\ heap = {batteryVector[k].id : k \in 1 .. nBatt} =>
              heap' = {batteryVector'[k].id : k \in 1 .. nBatt'}
<1>1. /\ batteryVector' = [k \in 1 .. nBatt - 1 |-> batteryVector[k + 1]] /\ nBatt - 1 \in Nat
      /\ nBatt' = nBatt - 1
  BY DEF Shifted
<1>2. /\ batteryVector' = [k \in 1 .. nBatt' |-> batteryVector'[k]] /\ Len(batteryVector') = nBatt'
      /\ \A k \in 1 .. nBatt' : batteryVector'[k] = batteryVector[k + 1] /\ k + 1 \in 1 .. nBatt /\ k + 1 # 1
  BY <1>1
<1>3. 1 \in 1 .. nBatt /\ \A k \in 1 .. nBatt : k = 1 \/ (k - 1 \in 1 .. nBatt' /\ (k - 1) + 1 = k)
  BY <1>1
<1>4. \A k \in 1 .. nBatt' : batteryVector'[k].id \in heap'
  <2>1. \A j \in 1 .. nBatt : batteryVector[j].id \in heap /\ (batteryVector[j].id = batteryVector[1].id => j = 1)
    BY <1>3 DEF Whole
  <2> QED BY <1>2, <2>1
<1>5. \A j, k \in 1 .. nBatt' : j + 1 = k + 1 => j = k
  BY <1>1
<1>6. \A j, k \in 1 .. nBatt' : batteryVector'[j].id = batteryVector'[k].id => j = k
  <2> SUFFICES ASSUME NEW j \in 1 .. nBatt', NEW k \in 1 .. nBatt',
                      batteryVector'[j].id = batteryVector'[k].id
               PROVE  j + 1 = k + 1
    BY <1>5
  <2>1. batteryVector[j + 1].id = batteryVector[k + 1].id /\ j + 1 \in 1 .. nBatt /\ k + 1 \in 1 .. nBatt
    BY <1>2
  <2> QED BY <2>1 DEF Whole
<1>7. ASSUME heap = {batteryVector[k].id : k \in 1 .. nBatt}
      PROVE  heap' = {batteryVector'[k].id : k \in 1 .. nBatt'}
  <2>1. ASSUME NEW h \in heap' PROVE h \in {batteryVector'[k].id : k \in 1 .. nBatt'}
    <3>1. PICK k \in 1 .. nBatt : h = batteryVector[k].id /\ k # 1
      BY <1>7, <2>1
    <3>2. k - 1 \in 1 .. nBatt' /\ batteryVector'[k - 1].id = h
      BY <1>2, <1>3, <3>1
    <3> QED BY <3>2
  <2> QED BY <1>4, <2>1
<1> QED BY <1>2, <1>3, <1>4, <1>6, <1>7 DEF Whole

LEMMA StepFree == VectorInv /\ free_and_exit => VectorInv'
<1> SUFFICES ASSUME VectorInv, free_and_exit PROVE VectorInv'
  OBVIOUS
<1>1. stage = "free" /\ UNCHANGED <<machine, allocated>>
  BY DEF free_and_exit
<1>2. CASE batteryVector # NULL /\ nBatt > 0 /\ FreeFirst /\ stage' = stage
  <2>1. nBatt \in Nat \ {0} /\ Whole(batteryVector, nBatt) /\ nBatt' = nBatt - 1 /\ nBatt' \in Nat
    BY <1>2 DEF VectorInv, FreeFirst
  <2>2. CASE /\ batteryVector' = Shifted /\ heap' = heap \ {batteryVector[1].id} /\ failed' = failed
             /\ wrongFree' = (wrongFree \/ batteryVector[1].id \notin heap)
    <3>1. /\ Whole(batteryVector, nBatt)' /\ batteryVector[1].id \in heap
          /\ heap = {batteryVector[k].id : k \in 1 .. nBatt} =>
               heap' = {batteryVector'[k].id : k \in 1 .. nBatt'}
      BY <2>1, <2>2, VectorShrinks
    <3> QED BY <1>1, <1>2, <2>1, <2>2, <3>1 DEF VectorInv
  <2>3. CASE batteryVector' = NULL /\ failed' = failed + 1 /\ UNCHANGED <<heap, wrongFree>>
    BY <1>1, <1>2, <2>1, <2>3 DEF VectorInv
  <2> QED BY <1>2, <2>2, <2>3 DEF FreeFirst
<1>3. CASE /\ batteryVector = NULL \/ nBatt = 0
           /\ batteryVector' = NULL /\ stage' = "exit" /\ UNCHANGED <<nBatt, heap, failed, wrongFree>>
  <2>1. failed = 0 => nBatt = 0 /\ heap = {}
    BY <1>3, EmptyVector DEF VectorInv, Whole
  <2>2. failed = 0 => Whole(batteryVector, nBatt)'
    BY <1>3, <2>1, EmptyVector DEF Whole
  <2> QED BY <1>1, <1>3, <2>1, <2>2 DEF VectorInv
<1> QED BY <1>2, <1>3 DEF free_and_exit

LEMMA StepAPM == VectorInv /\ APM_init => VectorInv'
<1> SUFFICES ASSUME VectorInv, APM_init PROVE VectorInv'
  OBVIOUS
<1>1. stage = "battery" /\ UNCHANGED <<machine, wrongFree>>
  BY DEF APM_init
<1>2. NextInterface => stage' \in {"battery", "free"}
  BY DEF NextInterface
<1>3. CASE NextInterface /\ UNCHANGED <<power, allocated, heap, failed>>
  BY <1>1, <1>2, <1>3 DEF VectorInv, Whole, power
<1>4. CASE /\ type' = APM /\ nBatt' = 1 /\ stage' = "run" /\ failed' = failed
           /\ allocated' = allocated + 1 /\ heap' = heap \cup {allocated'}
           /\ batteryVector' = <<[id |-> allocated', filler |-> APM, counter |-> 0, useLFC |-> FALSE]>>
  <2>1. /\ batteryVector' = [k \in 1 .. 1 |-> batteryVector'[k]] /\ Len(batteryVector') = 1
        /\ batteryVector'[1].id = allocated' /\ batteryVector'[1].filler = APM
    BY <1>4
  <2>2. Whole(batteryVector, nBatt)'
    BY <1>4, <2>1 DEF Whole
  <2>3. failed = 0 => heap' = {batteryVector'[k].id : k \in 1 .. nBatt'}
    <3>1. failed = 0 => heap' = {allocated'}
      BY <1>1, <1>4 DEF VectorInv
    <3> QED BY <1>4, <2>1, <3>1
  <2>4. heap' \subseteq 1 .. allocated' /\ allocated' \in Nat
    BY <1>4 DEF VectorInv
  <2> QED BY <1>1, <1>4, <2>1, <2>2, <2>3, <2>4 DEF VectorInv
<1>5. CASE /\ nBatt' = 0 /\ NextInterface /\ failed' = failed + 1 /\ batteryVector' = NULL
           /\ UNCHANGED <<allocated, heap>>
  BY <1>1, <1>2, <1>5 DEF VectorInv
<1> QED BY <1>3, <1>4, <1>5 DEF APM_init

LEMMA StepACPI == VectorInv /\ ACPI_init => VectorInv'
<1> SUFFICES ASSUME VectorInv, ACPI_init PROVE VectorInv'
  OBVIOUS
<1>1. /\ stage = "battery" /\ UNCHANGED <<machine, allocated, heap, failed, wrongFree>>
      /\ failed = 0 => nBatt = 0 /\ heap = {}
  BY DEF ACPI_init, memory, VectorInv
<1>2. NextInterface => stage' \in {"battery", "free"}
  BY DEF NextInterface
<1>3. CASE NextInterface /\ UNCHANGED power
  BY <1>1, <1>2, <1>3 DEF VectorInv, Whole, power
<1>4. CASE type' = ACPI /\ nBatt' = 0 /\ batteryVector' = NULL
  <2>1. Whole(batteryVector, nBatt)' /\ Filled(nBatt)'
    BY <1>4, EmptyVector DEF Whole, Filled
  <2>2. CASE NextInterface
    BY <1>1, <1>2, <1>4, <2>1, <2>2 DEF VectorInv
  <2>3. CASE stage' = "readdir" /\ left' = machine.bats /\ countBattery' = 0
    <3>1. Cardinality(machine.bats) \in Nat
      BY StartupAssumption, FS_CardinalityType DEF VectorInv
    <3>2. Cardinality(machine.bats) = 0 + Cardinality(machine.bats)
      BY <3>1
    <3> QED BY <1>1, <1>4, <2>1, <2>3, <3>2 DEF VectorInv
  <2> QED BY <1>4, <2>2, <2>3 DEF ACPI_init
<1> QED BY <1>3, <1>4 DEF ACPI_init

LEMMA StepEntry == VectorInv /\ ReadEntry => VectorInv'
<1> SUFFICES ASSUME VectorInv, ReadEntry PROVE VectorInv'
  OBVIOUS
<1>1. PICK name \in left :
        /\ left' = left \ {name} /\ countBattery' = countBattery + 1
        /\ \/ /\ Malloc([id |-> allocated + 1, filler |-> ACPI, counter |-> countBattery', useLFC |-> LfcOf])
              /\ UNCHANGED <<stage, try>>
           \/ MallocFails /\ NextInterface
  BY DEF ReadEntry
<1>2. /\ stage = "readdir" /\ UNCHANGED <<lfcArgsVector, machine, type, wrongFree>>
      /\ type = ACPI /\ Whole(batteryVector, nBatt) /\ Filled(nBatt)
      /\ countBattery = nBatt /\ left \subseteq machine.bats
      /\ Cardinality(machine.bats) = nBatt + Cardinality(left)
  BY DEF ReadEntry, argVars, VectorInv
<1>3. CASE MallocFails /\ NextInterface
  <2>1. /\ stage' \in {"battery", "free"} /\ failed' = failed + 1
        /\ UNCHANGED <<nBatt, allocated, heap>>
    BY <1>3 DEF MallocFails, NextInterface
  <2>2. batteryVector' = NULL \/ batteryVector' = batteryVector
    <3>1. Resized(batteryVector, nBatt) = [k \in 1 .. nBatt |-> batteryVector[k]]
      <4>1. Len(batteryVector) = nBatt /\ \A k \in 1 .. nBatt : k <= nBatt
        BY <1>2 DEF Whole, VectorInv
      <4> QED BY <4>1 DEF Resized
    <3> QED BY <1>2, <1>3, <3>1 DEF MallocFails, Whole
  <2> QED BY <1>2, <2>1, <2>2 DEF VectorInv, Whole
<1>4. CASE /\ Malloc([id |-> allocated + 1, filler |-> ACPI, counter |-> countBattery', useLFC |-> LfcOf])
           /\ UNCHANGED <<stage, try>>
  <2> DEFINE e == [id |-> allocated + 1, filler |-> ACPI, counter |-> countBattery', useLFC |-> LfcOf]
  <2>1. /\ Whole(batteryVector, nBatt)'
        /\ nBatt' = nBatt + 1 /\ allocated' = allocated + 1
        /\ heap' = heap \cup {allocated'} /\ heap' \subseteq 1 .. allocated'
        /\ \A k \in 1 .. nBatt : batteryVector'[k] = batteryVector[k]
        /\ batteryVector'[nBatt + 1] = e
    BY <1>2, <1>4, VectorGrows DEF VectorInv
  <2>2. nBatt' \in Nat /\ allocated' \in Nat /\ nBatt \in Nat /\ failed' = failed
    BY <1>4, <2>1 DEF VectorInv, Malloc
  <2>3. Filled(nBatt)'
    <3>1. Lfc' = Lfc
      BY <1>2 DEF Lfc
    <3>2. LfcOf <=> nBatt + 1 \in Lfc
      BY <1>1, <1>2 DEF LfcOf, Lfc
    <3>3. LfcOf \in BOOLEAN
      BY DEF LfcOf
    <3>4. e.filler = ACPI /\ e.useLFC = (nBatt + 1 \in Lfc)
      BY <3>2, <3>3
    <3> HIDE DEF e
    <3>5. \A k \in 1 .. nBatt + 1 : k \in 1 .. nBatt \/ k = nBatt + 1
      BY <2>2
    <3> SUFFICES ASSUME NEW k \in 1 .. nBatt'
                 PROVE  batteryVector'[k].filler = ACPI /\ batteryVector'[k].useLFC = (k \in Lfc)
      BY <3>1 DEF Filled
    <3>6. CASE k \in 1 .. nBatt
      BY <1>2, <2>1, <3>6 DEF Filled
    <3>7. CASE k = nBatt + 1
      BY <2>1, <3>4, <3>7
    <3> QED BY <2>1, <3>5, <3>6, <3>7
  <2>4. left' \subseteq machine'.bats /\ Cardinality(machine'.bats) = nBatt' + Cardinality(left')
    <3>1. IsFiniteSet(left)
      BY <1>2, StartupAssumption, FS_Subset DEF VectorInv
    <3>2. Cardinality(left') = Cardinality(left) - 1 /\ Cardinality(left) \in Nat
      BY <1>1, <3>1, FS_RemoveElement, FS_CardinalityType
    <3> QED BY <1>1, <1>2, <2>1, <2>2, <3>2
  <2>5. failed = 0 => heap' = {batteryVector'[k].id : k \in 1 .. nBatt'}
    <3>1. ASSUME failed = 0 PROVE heap' = {batteryVector'[k].id : k \in 1 .. nBatt'}
      <4>1. heap = {batteryVector[k].id : k \in 1 .. nBatt}
        BY <3>1 DEF VectorInv
      <4>2. batteryVector'[nBatt + 1].id = allocated' /\ nBatt + 1 \in 1 .. nBatt'
        BY <2>1, <2>2
      <4>3. \A k \in 1 .. nBatt : k \in 1 .. nBatt' /\ batteryVector'[k].id = batteryVector[k].id
        BY <2>1, <2>2
      <4>4. \A k \in 1 .. nBatt' : k \in 1 .. nBatt \/ k = nBatt + 1
        BY <2>1, <2>2
      <4> QED BY <2>1, <4>1, <4>2, <4>3, <4>4
    <3> QED BY <3>1
  <2> QED BY <1>1, <1>2, <1>4, <2>1, <2>2, <2>3, <2>4, <2>5 DEF VectorInv
<1> QED BY <1>1, <1>3, <1>4

LEMMA StepVector == VectorInv /\ [Next]_startVars => VectorInv'
<1> SUFFICES ASSUME VectorInv, [Next]_startVars PROVE VectorInv'
  OBVIOUS
<1>1. ASSUME UNCHANGED <<machine, power, left, countBattery, memory>>,
             \/ stage = "args"
             \/ stage = "display"
             \/ stage = "readdir" /\ left = {} /\ stage' = "run" /\ UNCHANGED lfcArgsVector
             \/ stage = "run" /\ stage' = "free"
             \/ stage' = stage /\ UNCHANGED lfcArgsVector,
             stage = "args" => stage' \in {"args", "free", "exit", "display", "battery"},
             stage = "display" => stage' \in {"display", "free", "battery"},
             stage' = "exit" => stage \in {"args", "exit"}
      PROVE  VectorInv'
  <2>1. UNCHANGED <<machine, type, nBatt, batteryVector, left, countBattery, allocated, heap, failed, wrongFree>>
    BY <1>1 DEF power, memory
  <2>2. \A n : UNCHANGED lfcArgsVector => Filled(n)' = Filled(n)
    BY <2>1 DEF Filled, Lfc
  <2>3. Whole(batteryVector, nBatt)' = Whole(batteryVector, nBatt)
    BY <2>1 DEF Whole
  <2>4. Cardinality({}) = 0 /\ nBatt + 0 = nBatt
    BY FS_EmptySet DEF VectorInv
  <2> QED BY <1>1, <2>1, <2>2, <2>3, <2>4 DEF VectorInv
<1>2. CASE ReadLine
  <2>1. stage = "args" /\ stage' \in {"args", "free", "exit"}
    BY <1>2 DEF ReadLine, ReadWord, Leaves, Takes
  <2> QED BY <1>1, <1>2, <2>1 DEF ReadLine
<1>3. CASE EndLine
  <2>1. stage = "args" /\ stage' \in {"free", "display", "battery"}
    BY <1>3 DEF EndLine, EndOfLine
  <2> QED BY <1>1, <1>3, <2>1 DEF EndLine
<1>4. CASE init_display \/ CloseDir \/ Quit
  BY <1>1, <1>4 DEF init_display, CloseDir, Quit, argVars
<1>5. CASE UNCHANGED startVars
  BY <1>1, <1>5 DEF startVars, argVars
<1> QED BY <1>2, <1>3, <1>4, <1>5, StepFree, StepAPM, StepACPI, StepEntry DEF Next, Progress

\* In the main loop every battery has a structure of its own, filled in for the
\* interface in use, whatever allocation has failed before.
THEOREM VectorIsReady == Spec => []VectorReady
<1>1. VectorInv => VectorReady
  BY VectorSuffices
<1> QED BY <1>1, InitVector, StepVector, PTL DEF Spec

\* free_and_exit frees no structure twice, and none is left if no allocation failed.
THEOREM EverythingFreed == Spec => []FreedOnce
<1>1. VectorInv => FreedOnce
  BY VectorSuffices
<1> QED BY <1>1, InitVector, StepVector, PTL DEF Spec

----------------------------------------------------------------------------
(* Types *)

\* The settings have the width of their variables, and no interface but the
\* four is asked for.
SettingsTyped ==
  /\ DOMAIN args = Settings
  /\ \A n \in Chars : args[n] \in SignedInts(128)
  /\ \A n \in Shorts : args[n] \in SignedInts(32768)
  /\ stage = "args" => args["useApmAcpi"] \in 0 .. 4
  /\ stage \in {"display", "battery", "readdir"} => args["useApmAcpi"] \in 1 .. 4

\* an option stores a number that has been cut to its width
LEMMA StoredTyped ==
  ASSUME NEW w \in Words
  PROVE  /\ w.name \in Chars => Stored(w) \in SignedInts(128)
         /\ w.name \in Shorts => Stored(w) \in SignedInts(32768)
         /\ w.name = "useApmAcpi" => Stored(w) = w.value
<1>1. w.value \in Int
  BY ArgumentsAssumption
<1>2. \A v \in Int, half \in Nat \ {0} : Signed(v, half) \in SignedInts(half)
  BY DEF Signed, SignedInts
<1>3. 1 \in SignedInts(128)
  BY DEF SignedInts
<1>4. CASE w.name \in Chars
  <2>1. w.name \notin Flags /\ w.name \notin Shorts /\ w.name # "useApmAcpi"
    BY <1>4 DEF Chars, Flags, Shorts
  <2>2. Stored(w) = 1 \/ Stored(w) = Signed(w.value, 128)
    BY <1>4, <2>1 DEF Stored
  <2> QED BY <1>1, <1>2, <1>3, <2>1, <2>2
<1>5. CASE w.name \in Shorts
  <2>1. /\ w.name \notin Flags /\ w.name \notin Chars
        /\ w.name # "alarmRepeat" /\ w.name # "useApmAcpi"
    BY <1>5 DEF Chars, Flags, Shorts
  <2>2. Stored(w) = Signed(w.value, 32768)
    BY <1>5, <2>1 DEF Stored
  <2> QED BY <1>1, <1>2, <2>1, <2>2
<1>6. w.name = "useApmAcpi" => Stored(w) = w.value
  BY DEF Stored, Flags, Chars, Shorts
<1> QED BY <1>4, <1>5, <1>6

LEMMA StepSettings == SettingsTyped /\ [Next]_startVars => SettingsTyped'
<1> SUFFICES ASSUME SettingsTyped, [Next]_startVars PROVE SettingsTyped'
  OBVIOUS
<1> DEFINE u == "useApmAcpi"
<1>1. Chars \subseteq Settings /\ Shorts \subseteq Settings /\ u \in Settings
  BY DEF Settings, ValuesOf
<1>2. CASE ReadLine
  <2>1. PICK w \in Words : Leaves(w) \/ Takes(w)
    BY <1>2 DEF ReadLine, ReadWord
  <2>2. CASE Leaves(w)
    BY <2>2 DEF Leaves, SettingsTyped
  <2>3. CASE Takes(w)
    <3>1. stage = "args" /\ stage' = stage
      BY <1>2, <2>3 DEF ReadLine, ReadWord, Takes
    <3>2. args' = IF w.name \in Settings THEN [args EXCEPT ![w.name] = Stored(w)] ELSE args
      BY <2>3 DEF Takes
    <3>3. DOMAIN args' = Settings /\ \A n \in Settings : args'[n] = args[n] \/ (n = w.name /\ args'[n] = Stored(w))
      BY <3>2 DEF SettingsTyped
    <3>4. w.name = u => Stored(w) \in 1 .. 4
      BY <2>3, StoredTyped DEF Takes, Refused, ValuesOf
    <3>5. args'[u] \in 0 .. 4
      BY <1>1, <3>1, <3>3, <3>4 DEF SettingsTyped
    <3>6. /\ \A n \in Chars : args'[n] \in SignedInts(128)
          /\ \A n \in Shorts : args'[n] \in SignedInts(32768)
      BY <1>1, <3>3, StoredTyped DEF SettingsTyped
    <3> QED BY <3>1, <3>3, <3>5, <3>6 DEF SettingsTyped
  <2> QED BY <2>1, <2>2, <2>3
<1>3. CASE EndLine
  <2>1. /\ stage = "args" /\ stage' # "args"
        /\ args' = [n \in Settings |-> IF args[n] = Unset(n) THEN Default[n] ELSE args[n]]
    BY <1>3 DEF EndLine, EndOfLine, WithDefaults
  <2>2. \A n \in Settings : args'[n] = args[n] \/ args'[n] = Default[n]
    BY <2>1
  <2>3. args'[u] \in 1 .. 4
    <3>1. Unset(u) = 0
      BY DEF Unset, Chars, Shorts
    <3>2. args'[u] = IF args[u] = 0 THEN Default[u] ELSE args[u]
      BY <1>1, <2>1, <3>1
    <3> QED BY <2>1, <3>2, ArgumentsAssumption DEF SettingsTyped
  <2>4. /\ \A n \in Chars : args'[n] \in SignedInts(128)
        /\ \A n \in Shorts : args'[n] \in SignedInts(32768)
    BY <1>1, <2>2, ArgumentsAssumption DEF SettingsTyped
  <2> QED BY <2>1, <2>3, <2>4 DEF SettingsTyped
<1>4. ASSUME args' = args, stage' # "args",
             stage' \in {"display", "battery", "readdir"} => stage \in {"display", "battery", "readdir"}
      PROVE  SettingsTyped'
  BY <1>4 DEF SettingsTyped
<1>5. CASE init_display \/ APM_init \/ ACPI_init \/ ReadEntry \/ CloseDir \/ Quit \/ free_and_exit
  BY <1>4, <1>5 DEF init_display, APM_init, ACPI_init, ReadEntry, CloseDir, Quit, free_and_exit,
                    NextInterface, argVars
<1>6. CASE UNCHANGED startVars
  BY <1>6 DEF startVars, argVars, SettingsTyped
<1> QED BY <1>2, <1>3, <1>5, <1>6 DEF Next, Progress

\* The stages, the number of tries and of failures, and what is left to read.
CountersTyped ==
  /\ stage \in {"args", "display", "battery", "readdir", "run", "free", "exit"}
  /\ try \in 1 .. 3 /\ (stage \in {"args", "display"} => try = 1)
  /\ stage \in {"battery", "readdir"} => try \in 1 .. 2
  /\ type \in {0, ACPI, APM} /\ failed \in 0 .. MaxFailures
  /\ left \subseteq machine.bats
  /\ nBatt \in 0 .. Cardinality(machine.bats) + 1

LEMMA InitStartTypes == Init => SettingsTyped /\ CountersTyped
<1> SUFFICES ASSUME Init PROVE SettingsTyped /\ CountersTyped
  OBVIOUS
<1>1. args = [n \in Settings |-> Unset(n)] /\ stage = "args"
  BY DEF Init, ArgumentsInit
<1>2. Chars \subseteq Settings /\ Shorts \subseteq Settings /\ "useApmAcpi" \in Settings
  BY DEF Settings, ValuesOf
<1>3. Unset("useApmAcpi") = 0
  BY DEF Unset, Chars, Shorts
<1>4. SettingsTyped
  <2>1. \A half \in Nat \ {0} : -1 \in SignedInts(half)
    BY DEF SignedInts
  <2> QED BY <1>1, <1>2, <1>3, <2>1 DEF SettingsTyped, Unset
<1>5. Cardinality(machine.bats) \in Nat
  BY StartupAssumption, FS_CardinalityType DEF Init
<1> QED BY <1>1, <1>4, <1>5, StartupAssumption DEF Init, CountersTyped

LEMMA StepCounters ==
  VectorInv /\ VectorInv' /\ SettingsTyped /\ CountersTyped /\ [Next]_startVars => CountersTyped'
<1> SUFFICES ASSUME VectorInv, VectorInv', SettingsTyped, CountersTyped, [Next]_startVars
             PROVE  CountersTyped'
  OBVIOUS
<1>1. /\ MaxFailures \in Nat /\ Cardinality(machine.bats) \in Nat
      /\ \A n \in Nat : n <= Cardinality(machine.bats) + 1 => n \in 0 .. Cardinality(machine.bats) + 1
  BY StartupAssumption, FS_CardinalityType DEF VectorInv
<1>2. /\ nBatt \in 0 .. Cardinality(machine.bats) + 1 /\ failed \in 0 .. MaxFailures
      /\ left \subseteq machine.bats /\ type \in {0, ACPI, APM}
  BY DEF CountersTyped
<1>3. stage \in {"battery", "readdir"} => try \in 1 .. 2 /\ Len(Order) \in 1 .. 2
  BY OrderOfTries DEF SettingsTyped, CountersTyped, Tries
<1>4. ASSUME stage \in {"battery", "readdir"}, NextInterface
      PROVE  try' \in 2 .. 3 /\ (stage' = "free" \/ (stage' = "battery" /\ try' = 2))
  <2>1. try' = try + 1 /\ stage' = IF try < Len(Order) THEN "battery" ELSE "free"
    BY <1>4 DEF NextInterface
  <2>2. try \in {1, 2} /\ Len(Order) \in {1, 2}
    BY <1>3, <1>4
  <2>3. \A t, n \in {1, 2} : t + 1 \in 2 .. 3 /\ (t < n => t + 1 = 2)
    OBVIOUS
  <2>4. CASE try < Len(Order)
    BY <2>1, <2>2, <2>3, <2>4, Zenon
  <2>5. CASE ~(try < Len(Order))
    BY <2>1, <2>2, <2>3, <2>5, Zenon
  <2> QED BY <2>4, <2>5
<1>5. CASE ReadLine \/ EndLine \/ init_display \/ CloseDir \/ Quit
  <2>1. UNCHANGED <<machine, try, type, nBatt, left, failed>>
    BY <1>5 DEF ReadLine, EndLine, init_display, CloseDir, Quit, power, memory
  <2>2. \/ stage = "args" /\ stage' \in {"args", "free", "exit", "display", "battery"}
        \/ stage = "display" /\ stage' \in {"battery", "free"}
        \/ stage' \in {"run", "free"}
    BY <1>5 DEF ReadLine, ReadWord, Leaves, Takes, EndLine, EndOfLine, init_display, CloseDir, Quit
  <2> QED BY <2>1, <2>2 DEF CountersTyped
<1>6. CASE APM_init
  <2>1. stage = "battery" /\ machine' = machine /\ left' = left
    BY <1>6 DEF APM_init
  <2>2. /\ nBatt' \in {nBatt, 0, 1} /\ type' \in {type, APM}
        /\ failed' = failed \/ (failed < MaxFailures /\ failed' = failed + 1)
        /\ NextInterface \/ (stage' = "run" /\ try' = try)
    BY <1>6 DEF APM_init, power
  <2>3. nBatt' \in 0 .. Cardinality(machine.bats) + 1 /\ failed' \in 0 .. MaxFailures
    BY <1>1, <1>2, <2>2
  <2> QED BY <1>2, <1>3, <1>4, <2>1, <2>2, <2>3 DEF CountersTyped
<1>7. CASE ACPI_init
  <2>1. stage = "battery" /\ machine' = machine /\ failed' = failed
    BY <1>7 DEF ACPI_init, memory
  <2>2. /\ nBatt' \in {nBatt, 0} /\ type' \in {type, ACPI} /\ left' \in {left, machine.bats}
        /\ NextInterface \/ (stage' = "readdir" /\ try' = try)
    BY <1>7 DEF ACPI_init, power
  <2>3. nBatt' \in 0 .. Cardinality(machine.bats) + 1
    BY <1>1, <1>2, <2>2
  <2> QED BY <1>2, <1>3, <1>4, <2>1, <2>2, <2>3 DEF CountersTyped
<1>8. CASE ReadEntry
  <2>1. stage = "readdir" /\ machine' = machine /\ type' = type /\ left' \subseteq left
    BY <1>8 DEF ReadEntry
  <2>2. /\ failed' = failed \/ (failed < MaxFailures /\ failed' = failed + 1)
        /\ NextInterface \/ (stage' = stage /\ try' = try)
        /\ nBatt' = nBatt \/ (nBatt' = nBatt + 1 /\ stage' = stage)
    BY <1>8 DEF ReadEntry, Malloc, MallocFails
  <2>3. failed' \in 0 .. MaxFailures
    BY <1>1, <1>2, <2>2
  <2>4. nBatt' \in 0 .. Cardinality(machine.bats) + 1
    <3>1. CASE nBatt' = nBatt
      BY <1>2, <3>1
    <3>2. CASE nBatt' = nBatt + 1 /\ stage' = stage
      <4>1. Cardinality(machine.bats) = nBatt' + Cardinality(left')
        BY <2>1, <3>2 DEF VectorInv
      <4>2. Cardinality(left') \in Nat
        <5>1. IsFiniteSet(machine.bats) /\ left' \subseteq machine.bats
          BY <1>2, <2>1, StartupAssumption DEF VectorInv
        <5> QED BY <5>1, FS_Subset, FS_CardinalityType
      <4>3. nBatt' \in Nat
        BY <1>2, <3>2
      <4> QED BY <1>1, <4>1, <4>2, <4>3
    <3> QED BY <2>2, <3>1, <3>2
  <2> QED BY <1>2, <1>3, <1>4, <2>1, <2>2, <2>3, <2>4 DEF CountersTyped
<1>9. CASE free_and_exit
  <2>1. stage = "free" /\ stage' \in {"free", "exit"} /\ UNCHANGED <<machine, try, type, left>>
    BY <1>9 DEF free_and_exit
  <2>2. /\ nBatt' = nBatt \/ (nBatt > 0 /\ nBatt' = nBatt - 1)
        /\ failed' = failed \/ (failed < MaxFailures /\ failed' = failed + 1)
    BY <1>9 DEF free_and_exit, FreeFirst
  <2>3. nBatt' \in 0 .. Cardinality(machine.bats) + 1 /\ failed' \in 0 .. MaxFailures
    BY <1>1, <1>2, <2>2
  <2> QED BY <1>2, <2>1, <2>3 DEF CountersTyped
<1>10. CASE UNCHANGED startVars
  BY <1>10 DEF startVars, power, memory, CountersTyped
<1> QED BY <1>5, <1>6, <1>7, <1>8, <1>9, <1>10 DEF Next, Progress

\* Every variable of the start keeps its type, the numbers on the command line
\* being cut to the width of their variables.
THEOREM StartTypes == Spec => []StartupTypeOK
<1>1. VectorInv /\ SettingsTyped /\ CountersTyped => StartupTypeOK
  BY DEF VectorInv, SettingsTyped, CountersTyped, StartupTypeOK
<1> QED BY <1>1, InitVector, StepVector, InitStartTypes, StepSettings, StepCounters, PTL DEF Spec
=============================================================================
