--------------------------- MODULE LongRun_proof ---------------------------
(***************************************************************************)
(* Theorems about the LONGRUN build: the probing finds a table of the      *)
(* processor's own levels, and the range follows the level that was set,   *)
(* for every processor, range, step and battery.                           *)
(***************************************************************************)
EXTENDS LongRun, SequenceTheorems, WellFoundedInduction, TLAPS

----------------------------------------------------------------------------
(* The levels *)

LEMMA Smallest ==
  ASSUME NEW T, T \subseteq Nat, T # {}
  PROVE  \E m \in T : \A k \in T : m <= k
<1> DEFINE R == {ss \in Nat \X Nat : ss[1] < ss[2]}
<1>1. IsWellFoundedOn(R, Nat)
  BY NatLessThanWellFounded DEF OpToRel
<1> HIDE DEF R
<1>2. PICK m \in T : \A k \in T : <<k, m>> \notin R
  BY <1>1, WFMin, Zenon
<1>3. \A k \in T : ~(k < m)
  BY <1>2 DEF R
<1> QED BY <1>3

\* a quotient and its remainder
LEMMA Quotients ==
  ASSUME NEW a \in Nat, NEW s \in Nat \ {0}
  PROVE  a \div s \in Nat /\ s * (a \div s) <= a /\ a < s * (a \div s) + s
OBVIOUS

LEMMA Products ==
  ASSUME NEW s \in Nat, NEW a \in Nat, NEW b \in Nat, a <= b
  PROVE  s * a <= s * b
OBVIOUS

\* The quotients of the probing loop grow with every step.
LEMMA ProbedPercent ==
  ASSUME NEW s \in 1 .. MaxSteps
  PROVE  /\ \A k \in 0 .. s : (k * 100) \div s \in 0 .. 100
         /\ \A j, k \in 0 .. s : j < k => (j * 100) \div s < (k * 100) \div s
         /\ (0 * 100) \div s = 0 /\ (s * 100) \div s = 100
<1>0. s \in Nat \ {0} /\ s <= 100
  BY DEF MaxSteps
<1>1. ASSUME NEW j \in 0 .. s, NEW k \in 0 .. s, j < k
      PROVE  (j * 100) \div s < (k * 100) \div s
  <2> DEFINE x == j * 100
             y == k * 100
             p == x \div s
             q == y \div s
  <2>1. x \in Nat /\ y \in Nat /\ x + s <= y
    BY <1>0, <1>1
  <2> HIDE DEF x, y
  <2>2. p \in Nat /\ s * p <= x /\ q \in Nat /\ y < s * q + s
    BY <1>0, <2>1, Quotients
  <2> HIDE DEF p, q
  <2>3. s * p \in Nat /\ s * q \in Nat
    BY <1>0, <2>2
  <2>4. s * p < s * q
    BY <1>0, <2>1, <2>2, <2>3
  <2>5. q <= p => s * q <= s * p
    BY <1>0, <2>2, Products
  <2>6. p < q
    BY <2>2, <2>3, <2>4, <2>5
  <2> QED BY <2>6 DEF p, q, x, y
<1>2. (0 * 100) \div s = 0
  <2>1. \A n \in Nat \ {0} : 0 \div n = 0
    OBVIOUS
  <2> QED BY <1>0, <2>1
<1>3. (s * 100) \div s = 100
  <2> DEFINE q == (s * 100) \div s
  <2>1. q \in Nat /\ s * q <= s * 100 /\ s * 100 < s * q + s
    BY <1>0, Quotients
  <2> HIDE DEF q
  <2>2. q >= 101 => s * 101 <= s * q
    BY <1>0, <2>1, Products
  <2>3. q <= 99 => s * q <= s * 99
    BY <1>0, <2>1, Products
  <2>4. s * 101 = s * 100 + s /\ s * 100 = s * 99 + s /\ s * q \in Nat
    BY <1>0, <2>1
  <2>5. q = 100
    BY <1>0, <2>1, <2>2, <2>3, <2>4
  <2> QED BY <2>5 DEF q
<1>4. ASSUME NEW k \in 0 .. s PROVE (k * 100) \div s \in 0 .. 100
  <2>1. (k * 100) \div s \in Nat
    BY <1>0, Quotients
  <2>2. k = s \/ k < s
    BY <1>0
  <2>3. s \in 0 .. s
    BY <1>0
  <2>4. k = s => (k * 100) \div s = 100
    BY <1>3
  <2>5. k < s => (k * 100) \div s < 100
    BY <1>1, <1>3, <2>3
  <2> HIDE DEF MaxSteps
  <2> QED BY <2>1, <2>2, <2>4, <2>5
<1> QED BY <1>1, <1>2, <1>3, <1>4

LEMMA ChipTyped ==
  ASSUME chip \in Chips
  PROVE  /\ chip.levels \subseteq Nat /\ \A l \in chip.levels : l \in 0 .. 100
         /\ 0 \in chip.levels /\ 100 \in chip.levels /\ chip.steps \in 1 .. MaxSteps
BY LongRunAssumption

\* the lowest level that gives the performance asked for
LEMMA StatusIsLowest ==
  ASSUME chip \in Chips, NEW pct \in 0 .. 100
  PROVE  /\ Status(pct) \in chip.levels /\ Status(pct) \in 0 .. 100 /\ Status(pct) >= pct
         /\ \A k \in chip.levels : k >= pct => Status(pct) <= k
<1> DEFINE T == {l \in chip.levels : l >= pct}
<1>1. T \subseteq Nat /\ 100 \in T
  BY ChipTyped
<1>2. PICK m \in T : \A k \in T : m <= k
  BY <1>1, Smallest, Zenon
<1>3. m \in chip.levels /\ m >= pct /\ \A k \in chip.levels : k >= pct => m <= k
  BY <1>2
<1>4. /\ Status(pct) \in chip.levels /\ Status(pct) >= pct
      /\ \A k \in chip.levels : k >= pct => Status(pct) <= k
  BY <1>3 DEF Status
<1> QED BY <1>4, ChipTyped

LEMMA StatusGrows ==
  ASSUME chip \in Chips, NEW p \in 0 .. 100, NEW q \in 0 .. 100, p <= q
  PROVE  Status(p) <= Status(q)
<1>1. Status(q) \in chip.levels /\ Status(q) \in 0 .. 100 /\ Status(q) >= q
  BY StatusIsLowest
<1>2. \A k \in chip.levels : k >= p => Status(p) <= k
  BY StatusIsLowest
<1> QED BY <1>1, <1>2

LEMMA StatusOfLevel ==
  ASSUME chip \in Chips, NEW pct \in 0 .. 100, pct \in chip.levels
  PROVE  Status(pct) = pct
<1>1. Status(pct) \in 0 .. 100 /\ Status(pct) >= pct
  BY StatusIsLowest
<1>2. \A k \in chip.levels : k >= pct => Status(pct) <= k
  BY StatusIsLowest
<1>3. pct >= pct
  OBVIOUS
<1>4. Status(pct) <= pct
  BY <1>2, <1>3
<1> QED BY <1>1, <1>4

----------------------------------------------------------------------------
(* The probing *)

Table ==
  /\ longRunLevels \in Seq(0 .. 100)
  /\ \A k \in 1 .. nLongRunLevels : longRunLevels[k] \in chip.levels
  /\ \A k \in 1 .. nLongRunLevels - 1 : longRunLevels[k] < longRunLevels[k + 1]

\* the table is never longer than MaxSteps + 1, which 97 stands for
TableInv ==
  /\ chip \in Chips /\ Table
  /\ stage = "probe" =>
       /\ i \in 0 .. chip.steps /\ nLongRunLevels <= i
       /\ i = 0 => pct_last = -1
       /\ i > 0 => /\ nLongRunLevels >= 1 /\ longRunLevels[1] = 0
                   /\ pct_last = longRunLevels[nLongRunLevels]
                   /\ \E j \in 0 .. i - 1 : pct_last = Status(pctAt(j))
       /\ Regular => nLongRunLevels = i /\ (i > 0 => pct_last = pctAt(i - 1))
  /\ stage # "probe" =>
       /\ nLongRunLevels \in 1 .. 97 /\ longRunLevels[1] = 0
       /\ longRunLevels[nLongRunLevels] = 100 \/ LastLeftOut
       /\ Regular => nLongRunLevels = chip.steps + 1

LEMMA TableSuffices == TableInv => TableRight
BY DEF TableInv, TableRight, Table, Regular, pctAt

LEMMA InitTable == Init => TableInv
<1> SUFFICES ASSUME Init PROVE TableInv
  OBVIOUS
<1>1. longRunLevels = <<>> /\ nLongRunLevels = 0 /\ stage = "probe" /\ i = 0 /\ pct_last = -1 /\ chip \in Chips
  BY DEF Init, nLongRunLevels
<1>2. 0 \in 0 .. chip.steps
  BY <1>1, ChipTyped
<1>3. Table
  BY <1>1, EmptySeq DEF Table
<1> QED BY <1>1, <1>2, <1>3 DEF TableInv

LEMMA StepProbe == TableInv /\ Probe => TableInv'
<1> SUFFICES ASSUME TableInv, Probe PROVE TableInv'
  OBVIOUS
<1> DEFINE n == nLongRunLevels
           pct_in == pctAt(i)
           ecx == Status(pct_in)
<1>1. /\ stage = "probe" /\ chip' = chip /\ chip \in Chips
      /\ longRunLevels' = IF pct_last < ecx THEN Append(longRunLevels, ecx) ELSE longRunLevels
      /\ i' = i + (IF ecx = 100 THEN 0 ELSE IF ecx > pct_in THEN 2 ELSE 1)
      /\ pct_last' = ecx
      /\ stage' = IF ecx = 100 \/ i' > chip.steps THEN "init" ELSE "probe"
  BY DEF Probe, NewLevel, pctAt, TableInv
<1>2. /\ chip.steps \in 1 .. MaxSteps /\ i \in 0 .. chip.steps /\ pct_in \in 0 .. 100
      /\ pctAt(0) = 0 /\ pctAt(chip.steps) = 100
      /\ \A j, k \in 0 .. chip.steps : j < k => pctAt(j) < pctAt(k)
      /\ \A k \in 0 .. chip.steps : pctAt(k) \in 0 .. 100
  BY <1>1, ChipTyped, ProbedPercent DEF TableInv, pctAt
<1> HIDE DEF pct_in
<1>3. ecx \in chip.levels /\ ecx \in 0 .. 100 /\ ecx >= pct_in
  BY <1>1, <1>2, StatusIsLowest
<1>4. /\ longRunLevels \in Seq(0 .. 100) /\ n \in Nat /\ n <= i /\ n = Len(longRunLevels)
      /\ i > 0 => n >= 1 /\ longRunLevels[1] = 0 /\ pct_last = longRunLevels[n]
      /\ i = 0 => pct_last = -1 /\ n = 0
  BY <1>1, <1>2, LenProperties DEF TableInv, Table, nLongRunLevels
<1>5. /\ pct_last \in -1 .. 100 /\ pct_last <= ecx
      /\ i = 0 => ecx = 0 /\ pct_last < ecx
  <2>1. CASE i = 0
    <3>1. ecx = Status(0)
      BY <1>2, <2>1 DEF pct_in
    <3>2. Status(0) = 0
      BY <1>1, ChipTyped, StatusOfLevel
    <3> QED BY <1>4, <2>1, <3>1, <3>2
  <2>2. CASE i > 0
    <3>1. PICK j \in 0 .. i - 1 : pct_last = Status(pctAt(j))
      BY <1>1, <2>2 DEF TableInv
    <3>2. j \in 0 .. chip.steps /\ j < i
      BY <1>2, <2>2
    <3>3. pctAt(j) \in 0 .. 100 /\ pctAt(j) <= pct_in
      BY <1>2, <3>2 DEF pct_in
    <3>4. Status(pctAt(j)) <= Status(pct_in) /\ Status(pctAt(j)) \in 0 .. 100
      BY <1>1, <1>2, <3>3, StatusGrows, StatusIsLowest
    <3> QED BY <2>2, <3>1, <3>4
  <2> QED BY <1>2, <2>1, <2>2
<1> HIDE DEF n, ecx
<1>6. /\ nLongRunLevels' = IF pct_last < ecx THEN n + 1 ELSE n
      /\ nLongRunLevels' \in 1 .. i + 1
      /\ longRunLevels'[1] = 0 /\ longRunLevels'[nLongRunLevels'] = ecx
      /\ Table'
  <2>1. CASE pct_last < ecx
    <3>1. /\ longRunLevels' = Append(longRunLevels, ecx) /\ longRunLevels' \in Seq(0 .. 100)
          /\ nLongRunLevels' = n + 1 /\ longRunLevels'[n + 1] = ecx
          /\ \A k \in 1 .. n : longRunLevels'[k] = longRunLevels[k]
      BY <1>1, <1>3, <1>4, <2>1, AppendProperties DEF nLongRunLevels
    <3>2. \A k \in 1 .. n + 1 : k \in 1 .. n \/ k = n + 1
      BY <1>4
    <3>3. longRunLevels'[1] = 0
      <4>1. CASE i = 0
        BY <1>4, <1>5, <3>1, <4>1
      <4>2. CASE i > 0
        BY <1>4, <3>1, <4>2
      <4> QED BY <1>2, <4>1, <4>2
    <3>4. \A k \in 1 .. n + 1 : longRunLevels'[k] \in chip.levels
      BY <1>1, <1>3, <3>1, <3>2 DEF TableInv, Table, n
    <3>5. \A k \in 1 .. n : longRunLevels'[k] < longRunLevels'[k + 1]
      <4> SUFFICES ASSUME NEW k \in 1 .. n PROVE longRunLevels'[k] < longRunLevels'[k + 1]
        OBVIOUS
      <4>1. CASE k = n
        BY <1>2, <1>4, <2>1, <3>1, <4>1
      <4>2. CASE k # n
        <5>1. k \in 1 .. n - 1 /\ k + 1 \in 1 .. n
          BY <1>4, <4>2
        <5>2. longRunLevels[k] < longRunLevels[k + 1]
          BY <5>1 DEF TableInv, Table, n
        <5> QED BY <3>1, <5>1, <5>2
      <4> QED BY <4>1, <4>2
    <3>6. nLongRunLevels' - 1 = n
      BY <1>4, <3>1
    <3>7. Table'
      BY <1>1, <3>1, <3>4, <3>5, <3>6 DEF Table
    <3> QED BY <1>2, <1>4, <2>1, <3>1, <3>3, <3>7
  <2>2. CASE ~(pct_last < ecx)
    <3>1. longRunLevels' = longRunLevels /\ nLongRunLevels' = n
      BY <1>1, <2>2 DEF nLongRunLevels, n
    <3>2. pct_last = ecx /\ i > 0
      BY <1>2, <1>3, <1>5, <2>2
    <3>3. Table'
      BY <1>1, <3>1 DEF TableInv, Table, nLongRunLevels
    <3> QED BY <1>2, <1>4, <2>2, <3>1, <3>2, <3>3
  <2> QED BY <2>1, <2>2
<1>7. ASSUME Regular
      PROVE  /\ ecx = pct_in /\ nLongRunLevels' = i + 1
             /\ i < chip.steps => ecx # 100
  <2>1. pct_in \in chip.levels
    BY <1>2, <1>7 DEF Regular, pct_in
  <2>2. ecx = pct_in
    BY <1>1, <1>2, <2>1, StatusOfLevel DEF ecx
  <2>3. n = i /\ (i > 0 => pct_last = pctAt(i - 1))
    BY <1>1, <1>7 DEF TableInv, n
  <2>4. pct_last < ecx
    <3>1. CASE i = 0
      BY <1>5, <3>1
    <3>2. CASE i > 0
      <4>1. i - 1 \in 0 .. chip.steps /\ i - 1 < i
        BY <1>2, <3>2
      <4> QED BY <1>2, <2>2, <2>3, <3>2, <4>1 DEF pct_in
    <3> QED BY <1>2, <3>1, <3>2
  <2>5. i < chip.steps => ecx < 100
    <3>1. chip.steps \in 0 .. chip.steps
      BY <1>2
    <3> QED BY <1>2, <2>2, <3>1 DEF pct_in
  <2> QED BY <1>2, <1>3, <1>6, <2>2, <2>3, <2>4, <2>5
<1>8. Regular' = Regular /\ chip'.steps = chip.steps /\ chip' \in Chips
      /\ Status(pctAt(i))' = Status(pctAt(i'))
  BY <1>1 DEF Regular, pctAt, Status
<1>9. CASE stage' = "probe"
  <2>1. ecx # 100 /\ (i' = i + 1 \/ i' = i + 2) /\ i' \in 0 .. chip.steps
    BY <1>1, <1>2, <1>9
  <2>2. i \in 0 .. i' - 1 /\ i' # 0 /\ nLongRunLevels' <= i'
    <3>1. i \in Nat /\ nLongRunLevels' \in Int /\ nLongRunLevels' <= i + 1
      BY <1>2, <1>6
    <3>2. i' = i + 1 \/ i' = i + 2
      BY <2>1
    <3>3. \A a \in Nat, b, c \in Int : (b = a + 1 \/ b = a + 2) /\ c <= a + 1 =>
            a \in 0 .. b - 1 /\ b # 0 /\ c <= b
      OBVIOUS
    <3>4. i' \in Int
      BY <3>1, <3>2
    <3> QED BY <3>1, <3>2, <3>3, <3>4
  <2>3. \E j \in 0 .. i' - 1 : pct_last' = Status(pctAt(j))'
    <3>1. \A j : (Status(pctAt(j)))' = Status(pctAt(j))
      BY <1>1 DEF Status, pctAt
    <3>2. pct_last' = Status(pctAt(i))
      BY <1>1 DEF ecx, pct_in
    <3> QED BY <2>2, <3>1, <3>2
  <2>4. Regular => i' = i + 1 /\ pct_last' = pctAt(i' - 1)
    <3>1. Regular => i' = i + 1
      BY <1>1, <1>2, <1>7, <2>1
    <3>2. (i + 1) - 1 = i
      BY <1>2
    <3> QED BY <1>1, <1>7, <3>1, <3>2 DEF pct_in
  <2>5. pctAt(i - 1)' = pctAt(i' - 1)
    BY <1>1 DEF pctAt
  <2>6. Regular' => nLongRunLevels' = i' /\ pct_last' = pctAt(i - 1)'
    BY <1>7, <1>8, <2>4, <2>5
  <2>7. i' \in 0 .. chip'.steps /\ nLongRunLevels' >= 1 /\ pct_last' = longRunLevels'[nLongRunLevels']
    <3>1. i' \in 0 .. chip'.steps
      BY <1>8, <2>1
    <3>2. nLongRunLevels' >= 1
      BY <1>2, <1>6
    <3>3. pct_last' = longRunLevels'[nLongRunLevels']
      BY <1>1, <1>6
    <3> QED BY <3>1, <3>2, <3>3
  <2> QED BY <1>6, <1>8, <1>9, <2>2, <2>3, <2>6, <2>7 DEF TableInv
<1>10. CASE stage' # "probe"
  <2>1. nLongRunLevels' \in 1 .. 97
    <3>1. i \in 0 .. 96
      BY <1>2 DEF MaxSteps
    <3>2. \A a \in 0 .. 96, b \in Int : b >= 1 /\ b <= a + 1 => b \in 1 .. 97
      OBVIOUS
    <3>3. nLongRunLevels' \in Int /\ nLongRunLevels' >= 1 /\ nLongRunLevels' <= i + 1
      BY <1>6
    <3> QED BY <3>1, <3>2, <3>3
  <2>2. Regular' => nLongRunLevels' = chip'.steps + 1
    <3>1. Regular => i = chip.steps
      BY <1>1, <1>2, <1>7, <1>10
    <3> QED BY <1>7, <1>8, <3>1
  <2>3. longRunLevels'[nLongRunLevels'] = 100 \/ LastLeftOut'
    <3>1. CASE ecx = 100
      BY <1>6, <3>1
    <3>2. CASE ecx # 100
      <4>1. i' > chip.steps
        BY <1>1, <1>10, <3>2
      <4>2. i # chip.steps
        BY <1>2, <1>3, <3>2 DEF pct_in
      <4>3. ecx > pct_in /\ i = chip.steps - 1
        BY <1>1, <1>2, <3>2, <4>1, <4>2
      <4>4. LastLeftOut
        BY <4>3, Zenon DEF LastLeftOut, pct_in, ecx
      <4>5. LastLeftOut' <=> LastLeftOut
        BY <1>1 DEF LastLeftOut, Status, pctAt
      <4> QED BY <4>4, <4>5
    <3> QED BY <3>1, <3>2
  <2> QED BY <1>6, <1>8, <1>10, <2>1, <2>2, <2>3 DEF TableInv
<1> QED BY <1>9, <1>10

LEMMA StepTable == TableInv /\ [Next]_vars => TableInv'
<1>1. ASSUME TableInv, UNCHANGED <<chip, probing>>, stage' = stage \/ (stage # "probe" /\ stage' # "probe")
      PROVE  TableInv'
  <2>1. UNCHANGED <<i, pct_last, longRunLevels, nLongRunLevels>> /\ chip' = chip
    BY <1>1 DEF probing, nLongRunLevels
  <2>2. Table' = Table /\ Regular' = Regular /\ (\A j : Status(pctAt(j))' = Status(pctAt(j)))
        /\ \A j : pctAt(j)' = pctAt(j)
    BY <2>1 DEF Table, Regular, pctAt, Status
  <2>3. LastLeftOut' <=> LastLeftOut
    BY <2>1 DEF LastLeftOut, pctAt, Status
  <2> QED BY <1>1, <2>1, <2>2, <2>3 DEF TableInv
<1>2. Next => Probe \/ (/\ UNCHANGED <<chip, probing>>
                        /\ stage' = stage \/ (stage # "probe" /\ stage' # "probe"))
  BY DEF Next, Progress, init_cpuState, Start, Period, Arrow, ToggleAutoFreq
<1> QED BY <1>1, <1>2, StepProbe DEF vars

\* The table holds levels of the processor, in ascending order from the lowest
\* on, and all of them if they lie where the steps are.
THEOREM TableIsRight == Spec => []TableRight
BY InitTable, StepTable, TableSuffices, PTL DEF Spec

----------------------------------------------------------------------------
(* The range *)

\* what RangeFollows says, also while the program starts
Following ==
  /\ setLevelIdx \in 0 .. nLongRunLevels - 1
  /\ range[2] = longRunLevels[setLevelIdx + 1]
  /\ range[1] \in {0, range[2]}
  /\ ~handedBack => range[1] = IF auto_freq_state THEN 0 ELSE range[2]

RangeInv ==
  /\ stage \in {"probe", "init"} => actualLevelIdx = 0 /\ ~handedBack
  /\ auto_freq_state \in BOOLEAN /\ saved_autoFreq \in BOOLEAN /\ handedBack \in BOOLEAN
  /\ stage \in {"probe", "init", "start", "run"}
  /\ stage \in {"start", "run"} /\ stepLevelIdx = 1 => Following

\* cpuReadFreq gives an index of the table, if it has had one
LEMMA ReadIdxInTable ==
  ASSUME TableInv, stage # "probe", NEW idx \in 0 .. nLongRunLevels - 1
  PROVE  ReadIdx(idx) \in 0 .. nLongRunLevels - 1
<1>1. nLongRunLevels \in Nat /\ DOMAIN longRunLevels = 1 .. nLongRunLevels
  BY DEF TableInv, Table, nLongRunLevels
<1>2. ASSUME NEW k \in DOMAIN longRunLevels, longRunLevels[k] = range[2]
      PROVE  ReadIdx(idx) \in 0 .. nLongRunLevels - 1
  <2> DEFINE T == {m \in 0 .. nLongRunLevels - 1 : longRunLevels[m + 1] = range[2]}
  <2>1. T \subseteq Nat /\ k - 1 \in T
    BY <1>1, <1>2
  <2>2. PICK m \in T : \A j \in T : m <= j
    BY <2>1, Smallest, Zenon
  <2>3. \A j \in 0 .. m - 1 : longRunLevels[j + 1] # range[2]
    BY <1>1, <2>2
  <2>4. ReadIdx(idx) = CHOOSE n \in 0 .. nLongRunLevels - 1 :
                         /\ longRunLevels[n + 1] = range[2]
                         /\ \A j \in 0 .. n - 1 : longRunLevels[j + 1] # range[2]
    BY <1>2 DEF ReadIdx
  <2> QED BY <2>2, <2>3, <2>4
<1>3. CASE ~\E k \in DOMAIN longRunLevels : longRunLevels[k] = range[2]
  BY <1>3 DEF ReadIdx
<1> QED BY <1>2, <1>3

\* A click moves the index inside the table, one step at a time.
LEMMA MovedInTable ==
  ASSUME TableInv, stage # "probe", stepLevelIdx = 1,
         setLevelIdx \in 0 .. nLongRunLevels - 1, NEW d \in {"inc", "dec"}
  PROVE  Moved(d) \in 0 .. nLongRunLevels - 1
<1>1. nLongRunLevels \in 1 .. 97
  BY DEF TableInv
<1> QED BY <1>1 DEF Moved, Word16

\* cpuEchoFreq inside the table
LEMMA Echoed ==
  ASSUME TableInv, NEW idx \in 0 .. nLongRunLevels - 1, NEW auto \in BOOLEAN, EchoFreq(idx, auto)
  PROVE  /\ range'[2] = longRunLevels[idx + 1] /\ range'[1] \in {0, range'[2]}
         /\ range'[1] = IF auto THEN 0 ELSE range'[2]
BY DEF EchoFreq, LevelAt

LEMMA InitRange == Init => RangeInv
BY DEF Init, RangeInv

\* on entering the mode and on leaving it
LEMMA ParadisiacKeeps ==
  ASSUME TableInv, RangeInv, stage \in {"start", "run"}, cpuSetParadisiac,
         UNCHANGED <<chip, probing, stepLevelIdx>>
  PROVE  /\ auto_freq_state' \in BOOLEAN /\ saved_autoFreq' \in BOOLEAN /\ handedBack' \in BOOLEAN
         /\ stepLevelIdx = 1 => Following'
<1>1. nLongRunLevels' = nLongRunLevels /\ longRunLevels' = longRunLevels /\ nLongRunLevels \in 1 .. 97
  BY DEF probing, nLongRunLevels, TableInv
<1>2. CASE JustFull
  <2>1. /\ saved_autoFreq' = auto_freq_state /\ auto_freq_state' = FALSE /\ handedBack' = FALSE
        /\ setLevelIdx' = nLongRunLevels - 1 /\ EchoFreq(setLevelIdx', FALSE)
    BY <1>2 DEF cpuSetParadisiac
  <2>2. nLongRunLevels - 1 \in 0 .. nLongRunLevels - 1 /\ FALSE \in BOOLEAN
    BY <1>1
  <2>3. range'[2] = longRunLevels[setLevelIdx' + 1] /\ range'[1] \in {0, range'[2]} /\ range'[1] = range'[2]
    BY <2>1, <2>2, Echoed
  <2> QED BY <1>1, <2>1, <2>2, <2>3 DEF RangeInv, Following
<1>3. CASE ~JustFull
  <2>1. /\ auto_freq_state' = IF Unplugged THEN saved_autoFreq ELSE auto_freq_state
        /\ handedBack' = (handedBack \/ Unplugged)
        /\ UNCHANGED <<saved_autoFreq, setLevelIdx, range>>
    BY <1>3 DEF cpuSetParadisiac
  <2>2. CASE Unplugged
    BY <1>1, <2>1, <2>2 DEF RangeInv, Following
  <2>3. CASE ~Unplugged
    BY <1>1, <2>1, <2>3 DEF RangeInv, Following
  <2> QED BY <2>2, <2>3
<1> QED BY <1>2, <1>3

LEMMA StepRange == TableInv /\ RangeInv /\ [Next]_vars => RangeInv'
<1> SUFFICES ASSUME TableInv, RangeInv, [Next]_vars PROVE RangeInv'
  OBVIOUS
<1>0. TableInv'
  BY StepTable
<1>1. CASE Probe
  BY <1>1 DEF Probe, RangeInv, cpuState, paradisiac, ghosts
<1>2. CASE init_cpuState
  <2>1. /\ stage = "init" /\ stage' = "start" /\ actualLevelIdx' = ReadIdx(actualLevelIdx)
        /\ auto_freq_state' \in BOOLEAN /\ actualLevelIdx = 0
        /\ UNCHANGED <<saved_autoFreq, handedBack, longRunLevels, nLongRunLevels>>
        /\ setLevelIdx' \in {actualLevelIdx', 0, nLongRunLevels - 1}
        /\ EchoFreq(setLevelIdx', auto_freq_state') /\ ~handedBack
    BY <1>2, LongRunAssumption DEF init_cpuState, RangeInv, paradisiac, ghosts, probing, nLongRunLevels
  <2>2. nLongRunLevels \in 1 .. 97 /\ 0 \in 0 .. nLongRunLevels - 1
    BY <2>1 DEF TableInv
  <2>3. actualLevelIdx' \in 0 .. nLongRunLevels - 1
    BY <2>1, <2>2, ReadIdxInTable
  <2>4. setLevelIdx' \in 0 .. nLongRunLevels - 1
    BY <2>1, <2>2, <2>3
  <2>5. Following'
    BY <2>1, <2>4, Echoed DEF Following
  <2> QED BY <2>1, <2>5 DEF RangeInv
<1>3. CASE Start
  <2>1. stage = "start" /\ stage' = "run" /\ UNCHANGED <<chip, probing, stepLevelIdx>>
    BY <1>3 DEF Start
  <2>2. CASE cpuSetParadisiac
    BY <2>1, <2>2, ParadisiacKeeps DEF RangeInv
  <2>3. CASE UNCHANGED <<range, setLevelIdx, auto_freq_state, paradisiac, handedBack>>
    BY <2>1, <2>3 DEF RangeInv, Following, paradisiac, probing, nLongRunLevels
  <2> QED BY <1>3, <2>2, <2>3 DEF Start
<1>4. CASE Period
  <2>1. stage = "run" /\ stage' = "run" /\ UNCHANGED <<chip, probing, stepLevelIdx>>
    BY <1>4 DEF Period
  <2>2. CASE cpuSetParadisiac
    BY <2>1, <2>2, ParadisiacKeeps DEF RangeInv
  <2>3. CASE UNCHANGED <<range, setLevelIdx, auto_freq_state, paradisiac, handedBack>>
    BY <2>1, <2>3 DEF RangeInv, Following, paradisiac, probing, nLongRunLevels
  <2> QED BY <1>4, <2>2, <2>3 DEF Period
<1>5. ASSUME NEW d \in {"inc", "dec"}, Arrow(d) PROVE RangeInv'
  <2>1. stage = "run" /\ stage' = "run" /\ UNCHANGED <<longRunLevels, nLongRunLevels, saved_autoFreq>>
    BY <1>5 DEF Arrow, probing, paradisiac, nLongRunLevels
  <2>2. CASE UNCHANGED <<range, cpuState, handedBack>>
    BY <2>1, <2>2 DEF RangeInv, Following, cpuState
  <2>3. CASE /\ setLevelIdx' = Moved(d) /\ EchoFreq(setLevelIdx', auto_freq_state)
             /\ handedBack' = FALSE /\ UNCHANGED <<actualLevelIdx, stepLevelIdx, auto_freq_state>>
    <3>1. stepLevelIdx = 1 => setLevelIdx' \in 0 .. nLongRunLevels - 1
      BY <2>1, <2>3, MovedInTable DEF RangeInv, Following
    <3>2. stepLevelIdx = 1 => Following'
      BY <2>1, <2>3, <3>1, Echoed DEF RangeInv, Following
    <3> QED BY <2>1, <2>3, <3>2 DEF RangeInv
  <2> QED BY <1>5, <2>2, <2>3 DEF Arrow
<1>6. CASE ToggleAutoFreq
  <2>1. /\ stage = "run" /\ stage' = "run" /\ auto_freq_state' = ~auto_freq_state /\ handedBack' = FALSE
        /\ range' = <<IF auto_freq_state' THEN 0 ELSE range[2], range[2]>>
        /\ UNCHANGED <<longRunLevels, nLongRunLevels, setLevelIdx, stepLevelIdx, saved_autoFreq>>
    BY <1>6 DEF ToggleAutoFreq, probing, paradisiac, nLongRunLevels
  <2>2. /\ range'[1] = (IF auto_freq_state' THEN 0 ELSE range[2]) /\ range'[2] = range[2]
        /\ auto_freq_state' \in BOOLEAN
    BY <2>1
  <2>3. stepLevelIdx = 1 => Following'
    BY <2>1, <2>2 DEF RangeInv, Following
  <2> QED BY <2>1, <2>2, <2>3 DEF RangeInv
<1>7. CASE UNCHANGED vars
  BY <1>7 DEF vars, RangeInv, Following, probing, cpuState, paradisiac, ghosts, nLongRunLevels
<1> QED BY <1>1, <1>2, <1>3, <1>4, <1>5, <1>6, <1>7 DEF Next, Progress

\* With levels moved one by one the processor has the range of the level set last.
THEOREM RangeIsSet == Spec => []RangeFollows
<1>1. RangeInv => RangeFollows
  BY DEF RangeInv, RangeFollows, Following
<1> QED BY <1>1, InitTable, StepTable, InitRange, StepRange, PTL DEF Spec
=============================================================================
