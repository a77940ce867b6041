------------------------- MODULE AcpiBattery_proof -------------------------
(***************************************************************************)
(* Theorems about the batteries of ACPI, whatever their files hold and     *)
(* whenever they change: no capacity becomes 0, and the percentage after a *)
(* round is the weighted average.                                          *)
(***************************************************************************)
EXTENDS AcpiBattery, WellFoundedInduction, TLAPS

\* The types the slots need, and what they need beside
SlotTypes ==
  /\ file \in [Batteries -> Contents]
  /\ present \in [Batteries -> BOOLEAN] /\ error \in [Batteries -> BOOLEAN]
  /\ capacity \in [Batteries -> 0 .. U32 - 1]

SlotInv == SlotTypes /\ Divisible

\* A file gives a capacity that can be divided by, or the error mark.
LEMMA CapacityOfFile ==
  ASSUME NEW b \in Batteries, NEW f \in Contents, NEW old \in 0 .. U32 - 1
  PROVE  Capacity(b, f, old) \in 1 .. U32 - 1
BY FileAssumption DEF Capacity, BROKEN, TAGLESS

LEMMA InitSlots == Init => SlotInv
<1> SUFFICES ASSUME Init PROVE SlotInv
  OBVIOUS
<1>1. \A b \in Batteries : Capacity(b, file[b], 0) \in 1 .. U32 - 1
  BY CapacityOfFile, FileAssumption DEF Init
<1>2. \A b \in Batteries : capacity[b] \in 1 .. U32 - 1
  BY <1>1 DEF Init
<1>3. SlotTypes
  <2>1. capacity \in [Batteries -> 0 .. U32 - 1]
    BY <1>1, FileAssumption DEF Init
  <2>2. \A b \in Batteries : /\ Present(file[b]) \in BOOLEAN
                            /\ Erroneous(FALSE, file[b], capacity[b]) \in BOOLEAN
    BY Zenon DEF Present, Erroneous
  <2>3. present \in [Batteries -> BOOLEAN]
    BY <2>2, Zenon DEF Init
  <2>4. error \in [Batteries -> BOOLEAN]
    BY <2>2, Zenon DEF Init
  <2> QED BY <2>1, <2>3, <2>4 DEF Init, SlotTypes
<1>4. Divisible
  <2> SUFFICES ASSUME NEW b \in Batteries
               PROVE  capacity[b] # 0 /\ (present[b] /\ capacity[b] = BROKEN => error[b])
    BY DEF Divisible
  <2>1. present[b] = Present(file[b])
    BY DEF Init
  <2>2. error[b] = Erroneous(FALSE, file[b], capacity[b])
    BY DEF Init
  <2>3. Present(file[b]) /\ capacity[b] = BROKEN => error[b]
    BY <2>2, Zenon DEF Erroneous
  <2>4. capacity[b] # 0
    BY <1>2, FileAssumption
  <2> QED BY <2>1, <2>3, <2>4, Zenon
<1> QED BY <1>3, <1>4 DEF SlotInv

\* A round of ACPI_Filler keeps the capacities divisible, and the error mark
\* with the error flag, even when the file changes between its two reads.
LEMMA StepSlots == SlotInv /\ [Next]_vars => SlotInv'
<1> SUFFICES ASSUME SlotInv, [Next]_vars PROVE SlotInv'
  OBVIOUS
<1> USE DEF SlotInv, SlotTypes, slots, power
<1>1. CASE ReadState
  <2>1. CASE Absent(turn)
    BY <1>1, <2>1 DEF ReadState, Absent, Divisible
  <2>2. CASE FileGone(turn) \/ StillThere(turn) \/ Plugged(turn)
    BY <1>1, <2>2 DEF ReadState, FileGone, StillThere, Plugged, Divisible
  <2> QED BY <1>1, <2>1, <2>2 DEF ReadState
<1>2. CASE ReadInfo
  <2> DEFINE f == file[turn]
             cap == Capacity(turn, f, capacity[turn])
             wrong == Erroneous(error[turn], f, cap)
  <2>1. turn \in Batteries /\ f \in Contents
    BY <1>2 DEF ReadInfo
  <2>2. cap \in 1 .. U32 - 1
    BY <2>1, CapacityOfFile
  <2>3. /\ present' = [present EXCEPT ![turn] = Present(f)]
        /\ capacity' = [capacity EXCEPT ![turn] = cap]
        /\ error' = [error EXCEPT ![turn] = wrong]
        /\ file' = file
    BY <1>2 DEF ReadInfo
  <2>4. Present(f) \in BOOLEAN /\ wrong \in BOOLEAN
    BY <2>1 DEF Present, Erroneous
  <2>5. cap \in 0 .. U32 - 1 /\ cap # 0
    BY <2>2, FileAssumption
  <2>6. Present(f) /\ cap = BROKEN => wrong
    BY DEF Erroneous
  <2> HIDE DEF f, cap, wrong
  <2>7. SlotTypes'
    BY <2>1, <2>3, <2>4, <2>5
  <2>8. Divisible'
    BY <2>1, <2>3, <2>5, <2>6 DEF Divisible
  <2> QED BY <2>7, <2>8
<1>3. CASE ACPI_Update
  BY <1>3 DEF ACPI_Update, Divisible
<1>4. ASSUME NEW b \in Batteries, Change(b) PROVE SlotInv'
  BY <1>4 DEF Change, Divisible
<1>5. CASE UNCHANGED vars
  BY <1>5 DEF vars, Divisible
<1> QED BY <1>1, <1>2, <1>3, <1>4, <1>5 DEF Next

\* Hot-plugging never makes wmlaptop divide by 0, nor count a battery whose
\* capacity carries the error mark without its error flag.
THEOREM NeverDividesByZero == Spec => []Divisible
<1>1. SlotInv => Divisible
  BY DEF SlotInv
<1> QED BY InitSlots, StepSlots, <1>1, PTL DEF Spec

----------------------------------------------------------------------------
(* Sums *)

LEMMA Smallest ==
  ASSUME NEW T, T \subseteq Nat, T # {}
  PROVE  \E m \in T : \A k \in T : m <= k
<1> DEFINE R == {ss \in Nat \X Nat : ss[1] < ss[2]}
<1>1. IsWellFoundedOn(R, Nat)
  BY NatLessThanWellFounded DEF OpToRel
<1> HIDE DEF R
<1>2. PICK m \in T : \A k \in T : <<k, m>> \notin R
  BY <1>1, WFMin, Zenon
<1>3. \A k \in T : ~(k < m)
  BY <1>2 DEF R
<1> QED BY <1>3

\* Induction, for a set of numbers
LEMMA Reaches ==
  ASSUME NEW n \in Nat, NEW P, 0 \in P, \A k \in 1 .. n : k - 1 \in P => k \in P
  PROVE  \A k \in 0 .. n : k \in P
<1> SUFFICES ASSUME NEW bad \in 0 .. n, bad \notin P PROVE FALSE
  OBVIOUS
<1> DEFINE T == (0 .. n) \ P
<1>1. PICK k \in T : \A j \in T : k <= j
  <2>1. T \subseteq Nat /\ T # {}
    OBVIOUS
  <2> QED BY <2>1, Smallest, Zenon
<1>2. k \in 1 .. n /\ k - 1 \in 0 .. n
  OBVIOUS
<1>3. k - 1 \in P
  BY <1>1, <1>2
<1> QED BY <1>2, <1>3

\* s holds the sums of the first batteries, up to m of them
SumsOf(q, m, s) == s = [n \in 0 .. m |-> IF n = 0 THEN 0 ELSE s[n - 1] + q[n]]

\* The recursive definition in Total has a solution.
LEMMA SumsExist ==
  ASSUME NEW q, NEW m \in Nat
  PROVE  \E s : SumsOf(q, m, s)
<1> DEFINE P == {k \in 0 .. m : \E s : SumsOf(q, k, s)}
<1>1. 0 \in P
  <2> DEFINE s == [n \in 0 .. 0 |-> 0]
  <2>1. SumsOf(q, 0, s)
    BY DEF SumsOf
  <2> QED BY <2>1
<1>2. ASSUME NEW k \in 1 .. m, k - 1 \in P PROVE k \in P
  <2>1. PICK s : SumsOf(q, k - 1, s)
    BY <1>2
  <2> DEFINE t == [n \in 0 .. k |-> IF n = k THEN s[k - 1] + q[k] ELSE s[n]]
  <2>2. ASSUME NEW n \in 0 .. k PROVE t[n] = IF n = 0 THEN 0 ELSE t[n - 1] + q[n]
    BY <2>1 DEF SumsOf
  <2>3. SumsOf(q, k, t)
    BY <2>2 DEF SumsOf
  <2> QED BY <2>3
<1> HIDE DEF P
<1>3. m \in P
  BY <1>1, <1>2, Reaches
<1> QED BY <1>3 DEF P

\* Total is the last of the sums.
LEMMA TotalIsSum ==
  ASSUME NEW q
  PROVE  \E s : /\ Total(q) = s[nBatt] /\ s[0] = 0
                /\ \A k \in Batteries : s[k] = s[k - 1] + q[k]
<1> DEFINE s == CHOOSE s : SumsOf(q, nBatt, s)
<1>1. SumsOf(q, nBatt, s)
  BY SumsExist, FileAssumption, Zenon
<1>2. Total(q) = s[nBatt]
  BY DEF Total, SumsOf
<1> HIDE DEF s
<1>3. s[0] = 0 /\ \A k \in Batteries : s[k] = s[k - 1] + q[k]
  BY <1>1, FileAssumption DEF SumsOf, Batteries
<1> QED BY <1>2, <1>3

LEMMA Products ==
  \A c, x, y \in Int : c * x \in Int /\ c * (x + y) = c * x + c * y
OBVIOUS

\* The sum of a quantity that is never negative is not below any of them.
LEMMA TotalCovers ==
  ASSUME NEW q \in [Batteries -> Nat]
  PROVE  Total(q) \in Nat /\ \A i \in Batteries : q[i] <= Total(q)
<1>1. PICK s : /\ Total(q) = s[nBatt] /\ s[0] = 0
               /\ \A k \in Batteries : s[k] = s[k - 1] + q[k]
  BY TotalIsSum
<1> DEFINE P == {k \in 0 .. nBatt : s[k] \in Nat /\ \A i \in 1 .. k : q[i] <= s[k]}
<1>2. 0 \in P
  BY <1>1, FileAssumption
<1>3. ASSUME NEW k \in 1 .. nBatt, k - 1 \in P PROVE k \in P
  <2>1. s[k - 1] \in Nat /\ q[k] \in Nat /\ s[k] = s[k - 1] + q[k]
    BY <1>1, <1>3 DEF Batteries
  <2>2. ASSUME NEW i \in 1 .. k PROVE q[i] <= s[k]
    <3>1. q[i] \in Nat
      BY FileAssumption DEF Batteries
    <3>2. i = k \/ i \in 1 .. k - 1
      OBVIOUS
    <3> QED BY <1>3, <2>1, <3>1, <3>2
  <2> QED BY <2>1, <2>2, FileAssumption
<1> HIDE DEF P
<1>4. nBatt \in P
  BY <1>2, <1>3, Reaches, FileAssumption
<1> QED BY <1>1, <1>4 DEF P, Batteries

\* What is so for each battery, in proportion, is so for their sums.
LEMMA TotalCompares ==
  ASSUME NEW q \in [Batteries -> Nat], NEW r \in [Batteries -> Nat],
         NEW a \in Nat, NEW b \in Nat, \A i \in Batteries : a * q[i] <= b * r[i]
  PROVE  a * Total(q) <= b * Total(r)
<1>1. PICK s : /\ Total(q) = s[nBatt] /\ s[0] = 0
               /\ \A k \in Batteries : s[k] = s[k - 1] + q[k]
  BY TotalIsSum
<1>2. PICK t : /\ Total(r) = t[nBatt] /\ t[0] = 0
               /\ \A k \in Batteries : t[k] = t[k - 1] + r[k]
  BY TotalIsSum
<1> DEFINE P == {k \in 0 .. nBatt : s[k] \in Nat /\ t[k] \in Nat /\ a * s[k] <= b * t[k]}
<1>3. 0 \in P
  BY <1>1, <1>2, FileAssumption
<1>4. ASSUME NEW k \in 1 .. nBatt, k - 1 \in P PROVE k \in P
  <2>1. /\ s[k - 1] \in Nat /\ q[k] \in Nat /\ s[k] = s[k - 1] + q[k]
        /\ t[k - 1] \in Nat /\ r[k] \in Nat /\ t[k] = t[k - 1] + r[k]
        /\ a * s[k - 1] <= b * t[k - 1] /\ a * q[k] <= b * r[k]
    BY <1>1, <1>2, <1>4 DEF Batteries
  <2>2. /\ a * s[k] = a * s[k - 1] + a * q[k] /\ a * s[k - 1] \in Int /\ a * q[k] \in Int
        /\ b * t[k] = b * t[k - 1] + b * r[k] /\ b * t[k - 1] \in Int /\ b * r[k] \in Int
    BY <2>1, Products
  <2>3. \A x, y, z, w \in Int : x <= z /\ y <= w => x + y <= z + w
    OBVIOUS
  <2>4. a * s[k] <= b * t[k]
    BY <2>1, <2>2, <2>3
  <2> QED BY <2>1, <2>4
<1> HIDE DEF P
<1>5. nBatt \in P
  BY <1>3, <1>4, Reaches, FileAssumption
<1> QED BY <1>1, <1>2, <1>5 DEF P

\* If the n-th part of a bound holds for each battery, the bound holds for all.
LEMMA TotalBelow ==
  ASSUME NEW q \in [Batteries -> Nat], NEW bound \in Nat,
         \A i \in Batteries : nBatt * 100 * q[i] < bound
  PROVE  100 * Total(q) < bound
<1> DEFINE one == [i \in Batteries |-> 1]
<1>1. PICK s : /\ Total(one) = s[nBatt] /\ s[0] = 0
               /\ \A k \in Batteries : s[k] = s[k - 1] + one[k]
  BY TotalIsSum
<1> DEFINE P == {k \in 0 .. nBatt : s[k] = k}
<1>2. 0 \in P
  BY <1>1, FileAssumption
<1>3. ASSUME NEW k \in 1 .. nBatt, k - 1 \in P PROVE k \in P
  BY <1>1, <1>3 DEF Batteries
<1> HIDE DEF P
<1>4. nBatt \in P
  BY <1>2, <1>3, Reaches, FileAssumption
<1>5. Total(one) = nBatt
  BY <1>1, <1>4 DEF P
<1>6. bound # 0 /\ bound - 1 \in Nat
  <2>1. 1 \in Batteries /\ q[1] \in Nat
    BY FileAssumption DEF Batteries
  <2>2. \A x, y \in Nat : x * 100 * y \in Nat
    OBVIOUS
  <2>3. nBatt * 100 * q[1] \in Nat /\ nBatt * 100 * q[1] < bound
    BY <2>1, <2>2, FileAssumption
  <2> QED BY <2>3
<1>7. \A i \in Batteries : (nBatt * 100) * q[i] <= (bound - 1) * one[i]
  BY <1>6, FileAssumption
<1>8. (nBatt * 100) * Total(q) <= (bound - 1) * nBatt
  BY <1>5, <1>6, <1>7, TotalCompares, FileAssumption
<1>9. \A n, x, y \in Nat : n # 0 /\ (n * 100) * x <= y * n => 100 * x <= y
  OBVIOUS
<1> QED BY <1>6, <1>8, <1>9, TotalCovers, FileAssumption

----------------------------------------------------------------------------
(* Types *)

\* an 8-bit percentage
LEMMA PercentTyped ==
  \A now \in Nat, cap \in Nat : cap > 0 => Percent(now, cap) % 256 \in 0 .. 255
<1>1. \A m \in Int : m % 256 \in 0 .. 255
  OBVIOUS
<1>2. \A m \in Nat : Word32(m) \in Nat
  BY FileAssumption DEF Word32
<1>3. \A m, n \in Nat : n > 0 => m \div n \in Nat
  OBVIOUS
<1> QED BY <1>1, <1>2, <1>3 DEF Percent

\* the sums of ACPI_Update
LEMMA SumTyped ==
  ASSUME NEW quantity \in [Batteries -> Nat], present \in [Batteries -> BOOLEAN]
  PROVE  Sum(quantity) \in Nat
<1> DEFINE q == [b \in Batteries |-> IF present[b] THEN quantity[b] ELSE 0]
<1>1. q \in [Batteries -> Nat]
  OBVIOUS
<1> HIDE DEF q
<1>2. Total(q) \in Nat
  BY <1>1, TotalCovers
<1>3. Sum(quantity) = Total(q) % U32
  BY DEF Sum, Word32, q
<1> QED BY <1>2, <1>3, FileAssumption

LEMMA InitTypes == Init => TypeOK
<1> SUFFICES ASSUME Init PROVE TypeOK
  OBVIOUS
<1>1. SlotTypes
  BY InitSlots DEF SlotInv
<1>2. actualState \in [Batteries -> 0 .. U32 - 1]
  BY FileAssumption DEF Init
<1>3. percentage \in 0 .. 255 /\ turn \in 1 .. nBatt + 1 /\ buf = {}
  BY FileAssumption DEF Init, NOTHING
<1>4. isCharging = FALSE /\ alive = TRUE /\ quiet = TRUE
  BY DEF Init
<1> QED BY <1>1, <1>2, <1>3, <1>4 DEF TypeOK, SlotTypes

\* what ACPI_Filler stores fits, and was written in the file or lay in the buffer
LEMMA FillTyped ==
  ASSUME actualState \in [Batteries -> 0 .. U32 - 1], NEW b \in Batteries, NEW f \in Contents,
         NEW wrong, Fill(b, f, wrong)
  PROVE  actualState' \in [Batteries -> 0 .. U32 - 1]
<1>1. \A now \in Charge(f) : now \in 0 .. U32 - 1
  BY FileAssumption DEF Charge, TAGLESS
<1> QED BY <1>1 DEF Fill

LEMMA StepTypes == SlotInv /\ TypeOK /\ [Next]_vars => TypeOK'
<1> SUFFICES ASSUME SlotInv, TypeOK, [Next]_vars PROVE TypeOK'
  OBVIOUS
<1>1. SlotTypes'
  BY StepSlots DEF SlotInv
<1>2. /\ actualState \in [Batteries -> 0 .. U32 - 1] /\ percentage \in 0 .. 255
      /\ turn \in 1 .. nBatt + 1 /\ \A f \in buf : f \in Contents /\ f.is = "battery"
  BY DEF TypeOK
<1>3. isCharging \in BOOLEAN /\ alive \in BOOLEAN /\ quiet \in BOOLEAN
  BY DEF TypeOK
<1> DEFINE Numbers == /\ actualState' \in [Batteries -> 0 .. U32 - 1]
                      /\ turn' \in 1 .. nBatt + 1
                      /\ \A f \in buf' : f \in Contents /\ f.is = "battery"
           Flags == isCharging' \in BOOLEAN /\ alive' \in BOOLEAN /\ quiet' \in BOOLEAN
<1>4. ASSUME percentage' \in 0 .. 255, Numbers, Flags PROVE TypeOK'
  BY <1>1, <1>4, Zenon DEF TypeOK, SlotTypes
<1>5. \A b \in Batteries : b + 1 \in 1 .. nBatt + 1
  BY FileAssumption DEF Batteries
<1>6. CASE ReadState
  <2>1. turn \in Batteries /\ percentage' = percentage /\ isCharging' = isCharging
        /\ quiet' = quiet
    BY <1>6, Zenon DEF ReadState, power
  <2>2. file[turn] \in Contents
    BY <2>1 DEF SlotInv, SlotTypes
  <2>3. ASSUME FileGone(turn) PROVE Numbers /\ alive' = FALSE
    BY <1>2, <2>3 DEF FileGone, slots
  <2>4. ASSUME Absent(turn) PROVE Numbers /\ alive' = alive
    <3>1. 0 \in 0 .. U32 - 1
      BY FileAssumption
    <3> QED BY <1>2, <1>5, <2>1, <2>4, <3>1 DEF Absent
  <2>5. ASSUME StillThere(turn) PROVE Numbers /\ alive' = alive
    <3>1. Fill(turn, file[turn], error[turn]) /\ turn' = turn + 1 /\ buf' = buf
          /\ alive' = alive
      BY <2>5 DEF StillThere
    <3>2. actualState' \in [Batteries -> 0 .. U32 - 1]
      BY <1>2, <2>1, <2>2, <3>1, FillTyped
    <3> QED BY <1>2, <1>5, <2>1, <3>1, <3>2
  <2>6. ASSUME Plugged(turn) PROVE Numbers /\ alive' = alive
    BY <1>2, <2>2, <2>6 DEF Plugged, slots
  <2>7. Numbers /\ alive' \in BOOLEAN
    BY <1>3, <1>6, <2>3, <2>4, <2>5, <2>6, Zenon DEF ReadState
  <2>8. Flags
    BY <1>3, <2>1, <2>7, Zenon
  <2>9. percentage' \in 0 .. 255
    BY <1>2, <2>1
  <2> QED BY <1>4, <2>7, <2>8, <2>9, Zenon
<1>7. CASE ReadInfo
  <2>1. PICK f \in buf : Fill(turn, f, Erroneous(error[turn], file[turn],
                                                 Capacity(turn, file[turn], capacity[turn])))
    BY <1>7 DEF ReadInfo
  <2>2. /\ turn \in Batteries /\ turn' = turn + 1 /\ buf' = NOTHING
        /\ percentage' = percentage
    BY <1>7 DEF ReadInfo, power
  <2>3. isCharging' = isCharging /\ alive' = alive /\ quiet' = quiet
    BY <1>7, Zenon DEF ReadInfo, power
  <2>4. actualState' \in [Batteries -> 0 .. U32 - 1]
    BY <1>2, <2>1, <2>2, FillTyped
  <2>5. Numbers
    BY <1>5, <2>2, <2>4 DEF NOTHING
  <2>6. Flags
    BY <1>3, <2>3, Zenon
  <2> QED BY <1>2, <1>4, <2>2, <2>5, <2>6
<1>8. CASE ACPI_Update
  <2>1. percentage' \in 0 .. 255
    <3>1. Sum(actualState) \in Nat /\ Sum(capacity) \in Nat
      <4>1. capacity \in [Batteries -> Nat] /\ actualState \in [Batteries -> Nat]
        BY <1>2, FileAssumption DEF SlotInv, SlotTypes
      <4>2. present \in [Batteries -> BOOLEAN]
        BY Zenon DEF SlotInv, SlotTypes
      <4> QED BY <4>1, <4>2, SumTyped
    <3>2. percentage' = IF Sum(capacity) > 0
                        THEN Percent(Sum(actualState), Sum(capacity)) % 256 ELSE 0
      BY <1>8, Zenon DEF ACPI_Update
    <3>3. Sum(capacity) > 0 => Percent(Sum(actualState), Sum(capacity)) % 256 \in 0 .. 255
      BY <3>1, PercentTyped, Zenon
    <3> QED BY <3>2, <3>3
  <2>2. turn' = 1 /\ buf' = buf /\ actualState' = actualState
    BY <1>8, Zenon DEF ACPI_Update, slots
  <2>3. isCharging' \in BOOLEAN /\ alive' = alive /\ quiet' = TRUE
    BY <1>8, Zenon DEF ACPI_Update
  <2>4. Numbers
    BY <1>2, <2>2, FileAssumption
  <2>5. Flags
    BY <1>3, <2>3, Zenon
  <2> QED BY <1>4, <2>1, <2>4, <2>5, Zenon
<1>9. ASSUME NEW b \in Batteries, Change(b) PROVE TypeOK'
  <2>1. Numbers /\ percentage' \in 0 .. 255
    BY <1>2, <1>9 DEF Change, slots, power
  <2>2. Flags
    <3>1. isCharging' = isCharging /\ alive' = alive /\ quiet' = FALSE
      BY <1>9, Zenon DEF Change, power
    <3> QED BY <1>3, <3>1, Zenon
  <2> QED BY <1>4, <2>1, <2>2, Zenon
<1>10. CASE UNCHANGED vars
  BY <1>10 DEF vars, slots, power, TypeOK
<1> QED BY <1>6, <1>7, <1>8, <1>9, <1>10 DEF Next

\* Every variable keeps its type: the sums and the percentage made of them too.
THEOREM TypesOfBatteries == Spec => []TypeOK
BY InitSlots, StepSlots, InitTypes, StepTypes, PTL DEF Spec

----------------------------------------------------------------------------
(* What a round has read *)

\* A battery whose file gives a capacity is known with the one --lfc selects.
LEMMA FullOfFile ==
  ASSUME NEW b \in Batteries, NEW f \in Contents, NEW old,
         f.is = "battery", f.design > 0
  PROVE  Capacity(b, f, old) = IF b \in UseLFC /\ f.full > 0 THEN f.full ELSE f.design
BY FileAssumption DEF Capacity, TAGLESS

\* Without an error flag, a charge that can be read is stored as it is.
LEMMA FillReads ==
  ASSUME actualState \in [Batteries -> 0 .. U32 - 1], NEW b \in Batteries, NEW f,
         NEW wrong \in BOOLEAN, Fill(b, f, wrong)
  PROVE  /\ \A other \in Batteries \ {b} : actualState'[other] = actualState[other]
         /\ f.now # TAGLESS /\ ~wrong => actualState'[b] = f.now
<1>1. CASE wrong
  BY <1>1 DEF Fill
<1>2. CASE ~wrong
  <2>1. PICK now \in Charge(f) : actualState' = [actualState EXCEPT ![b] = now]
    BY <1>2 DEF Fill
  <2>2. f.now # TAGLESS => now = f.now
    BY <2>1 DEF Charge
  <2> QED BY <2>1, <2>2
<1> QED BY <1>1, <1>2

ReadInv == SlotInv /\ TypeOK /\ Known /\ ReadSoFar

LEMMA InitRead == Init => Known /\ ReadSoFar
<1> SUFFICES ASSUME Init PROVE Known /\ ReadSoFar
  OBVIOUS
<1>1. Known
  <2> SUFFICES ASSUME NEW b \in Batteries, file[b].is = "battery", file[b].design > 0
               PROVE  capacity[b] = Full(b)
    BY DEF Known, There
  <2>1. file[b] \in Contents /\ capacity[b] = Capacity(b, file[b], 0)
    BY DEF Init
  <2> QED BY <2>1, FullOfFile DEF Full
<1>2. ReadSoFar
  BY DEF Init, ReadSoFar, NOTHING
<1> QED BY <1>1, <1>2

\* What is known stays known, whatever leaves and comes.
LEMMA StepKnown == ReadInv /\ [Next]_vars => Known'
<1> SUFFICES ASSUME ReadInv, [Next]_vars, NEW b \in Batteries,
                    file'[b].is = "battery", present'[b], file'[b].design > 0
             PROVE  capacity'[b] = Full(b)'
  BY DEF Known, There
<1> USE DEF ReadInv, SlotInv, SlotTypes
<1>1. ASSUME file' = file, capacity' = capacity, present[b] PROVE capacity'[b] = Full(b)'
  BY <1>1 DEF Known, There, Full
<1>2. CASE ReadState
  <2>1. file' = file /\ capacity' = capacity
    BY <1>2 DEF ReadState, FileGone, Absent, StillThere, Plugged, slots
  <2>2. present[b]
    <3>1. present' = present \/ (turn \in Batteries /\ present' = [present EXCEPT ![turn] = FALSE])
      BY <1>2, Zenon DEF ReadState, FileGone, Absent, StillThere, Plugged, slots
    <3> QED BY <3>1
  <2> QED BY <1>1, <2>1, <2>2
<1>3. CASE ReadInfo
  <2>1. /\ turn \in Batteries /\ file' = file
        /\ present' = [present EXCEPT ![turn] = Present(file[turn])]
        /\ capacity' = [capacity EXCEPT ![turn] = Capacity(turn, file[turn], capacity[turn])]
    BY <1>3 DEF ReadInfo
  <2>2. CASE b = turn
    <3>1. file[b] \in Contents
      OBVIOUS
    <3>2. capacity'[b] = Capacity(b, file[b], capacity[b])
      BY <2>1, <2>2
    <3> QED BY <2>1, <3>1, <3>2, FullOfFile DEF Full
  <2>3. CASE b # turn
    BY <2>1, <2>3 DEF Known, There, Full
  <2> QED BY <2>2, <2>3
<1>4. CASE ACPI_Update
  BY <1>1, <1>4 DEF ACPI_Update, slots
<1>5. ASSUME NEW c \in Batteries, Change(c) PROVE capacity'[b] = Full(b)'
  <2>1. present' = present /\ capacity' = capacity
    BY <1>5 DEF Change, slots
  <2>2. PICK f \in Contents : Follows(c, f) /\ file' = [file EXCEPT ![c] = f]
    BY <1>5 DEF Change
  <2>3. file[b].is = "battery" /\ file'[b].design = file[b].design /\ file'[b].full = file[b].full
    BY <2>1, <2>2 DEF Follows
  <2> QED BY <2>1, <2>3 DEF Known, There, Full
<1>6. CASE UNCHANGED vars
  BY <1>1, <1>6 DEF vars, slots
<1> QED BY <1>2, <1>3, <1>4, <1>5, <1>6 DEF Next

\* Until a file changes, the batteries before turn are as their files say.
LEMMA StepReadSoFar == ReadInv /\ [Next]_vars => ReadSoFar'
<1> SUFFICES ASSUME ReadInv, [Next]_vars PROVE ReadSoFar'
  OBVIOUS
<1> USE DEF ReadInv
<1>1. /\ turn \in 1 .. nBatt + 1 /\ actualState \in [Batteries -> 0 .. U32 - 1]
      /\ \A f \in buf : f \in Contents /\ f.is = "battery"
  BY DEF TypeOK
<1>2. present \in [Batteries -> BOOLEAN] /\ error \in [Batteries -> BOOLEAN]
  BY Zenon DEF TypeOK
<1>3. buf # NOTHING => turn \in Batteries
  BY DEF ReadSoFar
<1> DEFINE Read(b) == /\ (present[b] <=> b \in There)
                      /\ b \in There /\ Usable(b) => actualState[b] = file[b].now
<1>4. \A b \in 1 .. turn - 1 : b \in Batteries /\ b # turn
  BY <1>1, FileAssumption DEF Batteries
<1>5. quiet => (\A f \in buf : f = file[turn]) /\ \A b \in 1 .. turn - 1 : Read(b)
  BY Zenon DEF ReadSoFar
<1> HIDE DEF Read
<1>6. ASSUME buf' # NOTHING => turn' \in Batteries,
             quiet' => (\A f \in buf' : f = file'[turn']) /\ \A b \in 1 .. turn' - 1 : Read(b)'
      PROVE  ReadSoFar'
  BY <1>6, Zenon DEF ReadSoFar, Read
<1>7. ASSUME NEW b \in Batteries, Read(b), file'[b] = file[b], present'[b] = present[b],
             error'[b] = error[b], actualState'[b] = actualState[b]
      PROVE  Read(b)'
  <2>1. (b \in There') = (b \in There)
    BY <1>7 DEF There
  <2>2. Usable(b)' = Usable(b)
    BY <1>7 DEF Usable
  <2> QED BY <1>7, <2>1, <2>2, Zenon DEF Read
\* a step after which the battery at turn has been read
<1>8. ASSUME turn \in Batteries, turn' = turn + 1, buf' = NOTHING, quiet' = quiet, file' = file,
             \A b \in Batteries \ {turn} : /\ present'[b] = present[b] /\ error'[b] = error[b]
                                           /\ actualState'[b] = actualState[b],
             quiet => \A b \in Batteries : b = turn => Read(b)'
      PROVE  ReadSoFar'
  <2>1. ASSUME quiet, NEW b \in 1 .. turn' - 1 PROVE Read(b)'
    <3>1. b = turn \/ b \in 1 .. turn - 1
      BY <1>1, <1>8
    <3>2. CASE b = turn
      BY <1>8, <2>1, <3>2, Zenon
    <3>3. CASE b \in 1 .. turn - 1
      BY <1>4, <1>5, <1>7, <1>8, <2>1, <3>3
    <3> QED BY <3>1, <3>2, <3>3
  <2> QED BY <1>6, <1>8, <2>1 DEF NOTHING
<1>9. CASE ReadState
  <2>1. turn \in Batteries /\ buf = NOTHING /\ file' = file
    BY <1>9 DEF ReadState
  <2>2. quiet' = quiet
    BY <1>9, Zenon DEF ReadState
  <2>3. ASSUME FileGone(turn) \/ Plugged(turn) PROVE ReadSoFar'
    <3>1. /\ turn' = turn /\ present' = present /\ error' = error
          /\ actualState' = actualState /\ \A f \in buf' : f = file[turn]
      BY <2>1, <2>3 DEF FileGone, Plugged, slots, NOTHING
    <3>2. quiet => \A b \in 1 .. turn' - 1 : Read(b)'
      BY <1>4, <1>5, <1>7, <2>1, <3>1
    <3> QED BY <1>6, <2>1, <2>2, <3>1, <3>2
  <2>4. ASSUME Absent(turn) PROVE ReadSoFar'
    <3>1. /\ file[turn].is = "no" /\ present' = [present EXCEPT ![turn] = FALSE]
          /\ error' = error /\ turn' = turn + 1 /\ buf' = buf
          /\ actualState' = [actualState EXCEPT ![turn] = 0]
      BY <2>4 DEF Absent
    <3>2. ASSUME NEW b \in Batteries, b = turn PROVE Read(b)'
      <4>1. ~present'[b]
        BY <1>2, <3>1, <3>2
      <4>2. b \notin There'
        BY <2>1, <3>1, <3>2 DEF There
      <4> QED BY <4>1, <4>2, Zenon DEF Read
    <3>3. \A b \in Batteries \ {turn} : /\ present'[b] = present[b] /\ error'[b] = error[b]
                                        /\ actualState'[b] = actualState[b]
      BY <1>1, <1>2, <3>1
    <3> QED BY <1>8, <2>1, <2>2, <3>1, <3>2, <3>3
  <2>5. ASSUME StillThere(turn) PROVE ReadSoFar'
    <3>1. /\ file[turn].is = "battery" /\ present[turn] /\ present' = present
          /\ error' = error /\ turn' = turn + 1 /\ buf' = buf
          /\ Fill(turn, file[turn], error[turn])
      BY <2>5 DEF StillThere
    <3>2. error[turn] \in BOOLEAN
      BY <1>2, <2>1
    <3>3. /\ \A b \in Batteries \ {turn} : actualState'[b] = actualState[b]
          /\ file[turn].now # TAGLESS /\ ~error[turn] => actualState'[turn] = file[turn].now
      BY <1>1, <2>1, <3>1, <3>2, FillReads
    <3>4. ASSUME NEW b \in Batteries, b = turn PROVE Read(b)'
      <4>1. present'[b] = TRUE
        BY <1>2, <3>1, <3>4
      <4>2. b \in There'
        BY <2>1, <3>1, <3>4 DEF There
      <4>3. Usable(b)' => actualState'[b] = file'[b].now
        BY <2>1, <3>1, <3>3, <3>4 DEF Usable
      <4> QED BY <4>1, <4>2, <4>3, Zenon DEF Read
    <3> QED BY <1>8, <2>1, <2>2, <3>1, <3>3, <3>4
  <2> QED BY <1>9, <2>3, <2>4, <2>5 DEF ReadState
<1>10. CASE ReadInfo
  <2> DEFINE cap == Capacity(turn, file[turn], capacity[turn])
             wrong == Erroneous(error[turn], file[turn], cap)
  <2>1. /\ turn \in Batteries /\ turn' = turn + 1 /\ buf' = NOTHING /\ file' = file
        /\ present' = [present EXCEPT ![turn] = Present(file[turn])]
        /\ error' = [error EXCEPT ![turn] = wrong]
    BY <1>10 DEF ReadInfo
  <2>2. quiet' = quiet
    BY <1>10, Zenon DEF ReadInfo
  <2>3. PICK f \in buf : Fill(turn, f, wrong)
    BY <1>10 DEF ReadInfo
  <2>4. wrong \in BOOLEAN
    BY <1>2, <2>1 DEF Erroneous
  <2> HIDE DEF cap, wrong
  <2>5. /\ \A b \in Batteries \ {turn} : actualState'[b] = actualState[b]
        /\ f.now # TAGLESS /\ ~wrong => actualState'[turn] = f.now
    BY <1>1, <2>1, <2>3, <2>4, FillReads
  <2>6. ASSUME quiet, NEW b \in Batteries, b = turn PROVE Read(b)'
    <3>1. f = file[turn] /\ f.is = "battery"
      BY <1>1, <1>5, <2>6
    <3>2. present'[b] = TRUE
      BY <1>2, <2>1, <2>6, <3>1 DEF Present
    <3>3. b \in There'
      BY <2>1, <2>6, <3>1 DEF There
    <3>4. error'[b] = wrong
      BY <1>2, <2>1, <2>6
    <3>5. Usable(b)' => actualState'[b] = file'[b].now
      BY <2>1, <2>5, <2>6, <3>1, <3>4 DEF Usable
    <3> QED BY <3>2, <3>3, <3>5, Zenon DEF Read
  <2>7. \A b \in Batteries \ {turn} : /\ present'[b] = present[b] /\ error'[b] = error[b]
                                      /\ actualState'[b] = actualState[b]
    BY <1>2, <2>1, <2>5
  <2> QED BY <1>8, <2>1, <2>2, <2>6, <2>7
<1>11. CASE ACPI_Update
  <2>1. turn = nBatt + 1 /\ turn' = 1 /\ buf' = buf
    BY <1>11 DEF ACPI_Update
  <2>2. buf' = NOTHING
    BY <1>3, <2>1, FileAssumption DEF Batteries
  <2>3. \A b \in 1 .. turn' - 1 : FALSE
    BY <2>1
  <2> QED BY <1>6, <2>2, <2>3 DEF NOTHING
<1>12. ASSUME NEW c \in Batteries, Change(c) PROVE ReadSoFar'
  BY <1>3, <1>6, <1>12 DEF Change
<1>13. CASE UNCHANGED vars
  <2>1. /\ file' = file /\ turn' = turn /\ buf' = buf /\ present' = present
        /\ error' = error /\ actualState' = actualState
    BY <1>13 DEF vars, slots
  <2>2. quiet' = quiet
    BY <1>13, Zenon DEF vars
  <2> QED BY <1>3, <1>4, <1>5, <1>6, <1>7, <2>1, <2>2
<1> QED BY <1>9, <1>10, <1>11, <1>12, <1>13 DEF Next

----------------------------------------------------------------------------
(* The percentage *)

\* After a quiet round of usable batteries, the sums of ACPI_Update are those
\* of the batteries that are there, and nothing is lost in 32 and 8 bits.
LEMMA RoundIsTrue ==
  ASSUME Small(Contents), ReadInv, ACPI_Update, quiet, \A b \in There : Usable(b)
  PROVE  percentage' =
           IF There = {} THEN 0
           ELSE (100 * TrueSum([b \in Batteries |-> file[b].now]))
                  \div TrueSum([b \in Batteries |-> Full(b)])
<1> DEFINE holds == [b \in Batteries |-> IF b \in There THEN Full(b) ELSE 0]
           has == [b \in Batteries |-> IF b \in There THEN file[b].now ELSE 0]
<1>1. \A b \in Batteries : /\ (present[b] <=> b \in There)
                           /\ b \in There => actualState[b] = file[b].now
  <2>1. turn = nBatt + 1
    BY DEF ACPI_Update
  <2>2. \A b \in Batteries : b \in 1 .. turn - 1
    BY <2>1, FileAssumption DEF Batteries
  <2> QED BY <2>2, Zenon DEF ReadInv, ReadSoFar
<1>2. \A b \in There : capacity[b] = Full(b)
  BY <1>1 DEF ReadInv, Known, There, Usable
<1>3. ASSUME NEW b \in There
      PROVE  /\ Full(b) \in Nat /\ Full(b) > 0 /\ file[b].now \in Nat
             /\ nBatt * 100 * Full(b) < U32 /\ nBatt * 100 * file[b].now < U32
             /\ 100 * file[b].now <= 255 * Full(b)
  <2>1. /\ file[b] \in Contents /\ file[b].is = "battery"
        /\ file[b].design > 0 /\ file[b].now # TAGLESS
    BY <1>3 DEF There, Usable, ReadInv, TypeOK
  <2>2. file[b].design \in Int /\ file[b].full \in Int /\ file[b].now \in Nat
    BY <2>1, FileAssumption DEF TAGLESS
  <2>3. Full(b) \in {file[b].design, file[b].full} /\ Full(b) > 0
    BY <2>1 DEF Full
  <2>4. Full(b) \in Nat
    BY <2>2, <2>3
  <2>5. /\ nBatt * 100 * file[b].now < U32
        /\ \A size \in {file[b].design, file[b].full} :
             size > 0 => nBatt * 100 * size < U32 /\ 100 * file[b].now <= 255 * size
    BY <2>1, Zenon DEF Small
  <2> QED BY <2>2, <2>3, <2>4, <2>5, Zenon
<1>4. holds \in [Batteries -> Nat] /\ has \in [Batteries -> Nat]
  BY <1>3
<1>5. \A n \in Nat : n * 100 * 0 = 0
  OBVIOUS
<1>6. \A b \in Batteries : nBatt * 100 * holds[b] < U32 /\ nBatt * 100 * has[b] < U32
  BY <1>3, <1>5, FileAssumption
<1>7. \A b \in Batteries : 100 * has[b] <= 255 * holds[b]
  BY <1>3
<1>8. Sum(capacity) = Word32(Total(holds)) /\ Sum(actualState) = Word32(Total(has))
  <2>1. [b \in Batteries |-> IF present[b] THEN capacity[b] ELSE 0] = holds
    BY <1>1, <1>2
  <2>2. [b \in Batteries |-> IF present[b] THEN actualState[b] ELSE 0] = has
    BY <1>1
  <2> QED BY <2>1, <2>2, Zenon DEF Sum
<1>9. /\ TrueSum([b \in Batteries |-> Full(b)]) = Total(holds)
      /\ TrueSum([b \in Batteries |-> file[b].now]) = Total(has)
  <2>1. [b \in Batteries |-> IF b \in There THEN [c \in Batteries |-> Full(c)][b] ELSE 0] = holds
    OBVIOUS
  <2>2. [b \in Batteries |-> IF b \in There THEN [c \in Batteries |-> file[c].now][b] ELSE 0] = has
    OBVIOUS
  <2> QED BY <2>1, <2>2, Zenon DEF TrueSum
<1>10. There = {} => \A b \in Batteries : 1 * holds[b] <= 0 * holds[b]
  OBVIOUS
<1>11. There # {} => \E b \in Batteries : holds[b] > 0
  BY <1>3 DEF There
<1> HIDE DEF holds, has
<1>12. /\ Total(holds) \in Nat /\ Total(has) \in Nat
       /\ \A b \in Batteries : holds[b] <= Total(holds)
  BY <1>4, TotalCovers
<1>13. 100 * Total(holds) < U32 /\ 100 * Total(has) < U32
  BY <1>4, <1>6, TotalBelow, FileAssumption
<1>14. 100 * Total(has) <= 255 * Total(holds)
  BY <1>4, <1>7, TotalCompares
<1>15. \A n \in Nat : n < U32 => n % U32 = n
  BY FileAssumption
<1>16. /\ Sum(capacity) = Total(holds) /\ Sum(actualState) = Total(has)
       /\ Word32(Total(has) * 100) = 100 * Total(has)
  <2>1. Total(holds) % U32 = Total(holds) /\ Total(has) % U32 = Total(has)
    <3>1. \A n \in Nat : 100 * n < U32 => n < U32
      BY FileAssumption
    <3> QED BY <1>12, <1>13, <1>15, <3>1, Zenon
  <2>2. Total(has) * 100 \in Nat /\ Total(has) * 100 = 100 * Total(has)
    BY <1>12
  <2>3. (Total(has) * 100) % U32 = Total(has) * 100
    BY <1>13, <1>15, <2>2
  <2> QED BY <1>8, <2>1, <2>2, <2>3 DEF Word32
<1>17. percentage' = IF Total(holds) > 0
                     THEN ((100 * Total(has)) \div Total(holds)) % 256 ELSE 0
  BY <1>16, Zenon DEF ACPI_Update, Percent
<1>18. CASE There = {}
  <2>1. 1 * Total(holds) <= 0 * Total(holds)
    BY <1>4, <1>10, <1>18, TotalCompares
  <2>2. Total(holds) = 0
    BY <1>12, <2>1
  <2> QED BY <1>17, <1>18, <2>2
<1>19. CASE There # {}
  <2>1. Total(holds) > 0
    BY <1>4, <1>11, <1>12, <1>19
  <2>2. \A x, y \in Nat : y > 0 /\ x <= 255 * y => (x \div y) % 256 = x \div y
    <3>1. \A x, y \in Nat : y > 0 /\ x <= 255 * y => x \div y \in 0 .. 255
      OBVIOUS
    <3>2. \A z \in 0 .. 255 : z % 256 = z
      OBVIOUS
    <3> QED BY <3>1, <3>2
  <2>3. 100 * Total(has) \in Nat
    BY <1>12
  <2>4. ((100 * Total(has)) \div Total(holds)) % 256 = (100 * Total(has)) \div Total(holds)
    BY <1>12, <1>14, <2>1, <2>2, <2>3
  <2> QED BY <1>9, <1>17, <1>19, <2>1, <2>4
<1> QED BY <1>18, <1>19

\* main.h:156: if the quantities fit in the integers of the code, the percentage
\* after every undisturbed round is the average of the batteries that are there,
\* each weighted with its own capacity, whatever was plugged and unplugged before.
THEOREM AverageIsTrue == ASSUME Small(Contents) PROVE Spec => Average
<1>1. Init => ReadInv
  BY InitSlots, InitTypes, InitRead DEF ReadInv
<1>2. ReadInv /\ [Next]_vars => ReadInv'
  BY StepSlots, StepTypes, StepKnown, StepReadSoFar DEF ReadInv
<1>3. ReadInv /\ ACPI_Update /\ quiet /\ (\A b \in There : Usable(b)) =>
        percentage' =
          IF There = {} THEN 0
          ELSE (100 * TrueSum([b \in Batteries |-> file[b].now]))
                 \div TrueSum([b \in Batteries |-> Full(b)])
  BY RoundIsTrue
<1> QED BY <1>1, <1>2, <1>3, PTL DEF Spec, Average
=============================================================================
