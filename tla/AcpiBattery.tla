---------------------------- MODULE AcpiBattery ----------------------------
(***************************************************************************)
(* The batteries of ACPI (src/src/battery.c): ACPI_maxCapacity,            *)
(* ACPI_Filler and ACPI_Update.  Every read of a file is a step of its     *)
(* own, since batteries are plugged, unplugged and discharged between      *)
(* them.  Quantities are in units in which U32 stands for 2^32.            *)
(***************************************************************************)
EXTENDS Integers

CONSTANTS
  U32,        \* the number of values of a u_int32
  nBatt,      \* powerState.nBatt
  UseLFC,     \* the batteries given with --lfc
  Contents,   \* what the files of a battery may hold
  Garbage     \* what sscanf may leave in actualState without a NOW tag

TAGLESS == -1          \* the file has no such tag
Batteries == 1 .. nBatt
BROKEN == U32 - 1      \* capacity = ~0: the error mark

ASSUME FileAssumption ==
  /\ U32 \in Nat /\ U32 > 1 /\ nBatt \in Nat \ {0} /\ UseLFC \subseteq Batteries
  /\ Garbage \subseteq 0 .. U32 - 1
  /\ Contents \subseteq [is : {"battery", "no", "gone"}, design : -1 .. U32 - 1,
                         full : -1 .. U32 - 1, now : -1 .. U32 - 1]

VARIABLES
  file,                                   \* the uevent file of each battery
  present, error, capacity, actualState,  \* struct battery_str
  percentage, isCharging,                 \* powerState
  turn,                                   \* the battery ACPI_Update is at
  buf,                                    \* what ACPI_Filler has read of it
  alive,
  quiet                                   \* ghost: no file changed in this round

slots == <<present, error, capacity, actualState>>
power == <<percentage, isCharging>>
vars == <<file, slots, power, turn, buf, alive, quiet>>

NOTHING == {}
Word32(n) == n % U32
Percent(now, cap) == Word32(now * 100) \div cap

----------------------------------------------------------------------------
(* The files *)

\* What a file may hold next: the charge moves, the battery leaves; another
\* one comes only after wmlaptop has noticed that the first was gone.
Follows(b, f) ==
  \/ f.is # "battery"
  \/ file[b].is = "battery" /\ f.design = file[b].design /\ f.full = file[b].full
  \/ ~present[b]

Change(b) ==
  /\ alive
  /\ \E f \in Contents \ {file[b]} :
       /\ Follows(b, f)
       /\ file' = [file EXCEPT ![b] = f]
  /\ quiet' = FALSE
  /\ UNCHANGED <<slots, power, turn, buf, alive>>

----------------------------------------------------------------------------
(* ACPI_maxCapacity *)

\* mutant of Capacity: a capacity of 0 is kept
CapacityZero(b, f, old) ==
  LET design == IF f.design > 0 THEN f.design ELSE old
      full == IF f.full > 0 /\ b \in UseLFC THEN f.full ELSE design
  IN  IF f.is = "gone" THEN BROKEN ELSE IF f.is = "no" THEN 1 ELSE full

\* mutant of Capacity: the result of sscanf is used when there was no tag
CapacityUntested(b, f, old) ==
  IF f.is = "no" THEN 1 ELSE IF f.is = "gone" THEN BROKEN ELSE f.design

\* The capacity a file gives to a battery that had the capacity old
Capacity(b, f, old) ==
  LET start == IF f.design = TAGLESS /\ f.full = TAGLESS THEN BROKEN ELSE old
      design == IF f.design > 0 THEN f.design ELSE start
      full == IF f.full > 0 /\ b \in UseLFC THEN f.full ELSE design
  IN  IF f.is = "no" THEN 1
      ELSE IF f.is = "gone" \/ full = 0 THEN BROKEN ELSE full

\* an unreadable file counts as a present battery
Present(f) == f.is # "no"

\* The error flag after ACPI_maxCapacity: it is set, never cleared
Erroneous(before, f, cap) == before \/ (cap = BROKEN /\ Present(f))

----------------------------------------------------------------------------
(* ACPI_Filler *)

\* What sscanf stores for a NOW tag; without one, or beyond the buffer, the
\* code reads whatever is there
Charge(f) == IF f.now = TAGLESS THEN Garbage ELSE {f.now}

\* The end of ACPI_Filler, for a battery with this error flag.  The percentage
\* of the single battery, which divides by the capacity, only sizes its bar on
\* the display (draw.c:134) and is left out.
Fill(b, f, wrong) ==
  \/ wrong /\ UNCHANGED actualState
  \/ ~wrong /\ \E now \in Charge(f) : actualState' = [actualState EXCEPT ![b] = now]

\* the state file cannot be opened: free_and_exit
FileGone(b) ==
  /\ file[b].is = "gone"
  /\ alive' = FALSE
  /\ UNCHANGED <<slots, turn, buf>>

Absent(b) ==
  /\ file[b].is = "no"
  /\ actualState' = [actualState EXCEPT ![b] = 0]
  /\ present' = [present EXCEPT ![b] = FALSE]
  /\ turn' = turn + 1
  /\ UNCHANGED <<error, capacity, buf, alive>>

StillThere(b) ==
  /\ file[b].is = "battery" /\ present[b]
  /\ Fill(b, file[b], error[b])
  /\ turn' = turn + 1
  /\ UNCHANGED <<present, error, capacity, buf, alive>>

\* mutant of Plugged: the information file is not read again
PluggedUnread(b) ==
  /\ file[b].is = "battery" /\ ~present[b]
  /\ present' = [present EXCEPT ![b] = TRUE]
  /\ Fill(b, file[b], error[b])
  /\ turn' = turn + 1
  /\ UNCHANGED <<error, capacity, buf, alive>>

\* a battery has been plugged in: ACPI_maxCapacity comes next
Plugged(b) ==
  /\ file[b].is = "battery" /\ ~present[b]
  /\ buf' = {file[b]}
  /\ UNCHANGED <<slots, turn, alive>>

ReadState ==
  /\ alive /\ turn \in Batteries /\ buf = NOTHING
  /\ FileGone(turn) \/ Absent(turn) \/ StillThere(turn) \/ Plugged(turn)
  /\ UNCHANGED <<file, power, quiet>>

ReadInfo ==
  /\ alive /\ turn \in Batteries
  /\ \E f \in buf :
       LET cap == Capacity(turn, file[turn], capacity[turn])
           wrong == Erroneous(error[turn], file[turn], cap)
       IN  /\ present' = [present EXCEPT ![turn] = Present(file[turn])]
           /\ capacity' = [capacity EXCEPT ![turn] = cap]
           /\ error' = [error EXCEPT ![turn] = wrong]
           /\ Fill(turn, f, wrong)
  /\ buf' = NOTHING /\ turn' = turn + 1
  /\ UNCHANGED <<file, power, alive, quiet>>

----------------------------------------------------------------------------
(* ACPI_Update *)

\* the sum of a quantity of the batteries, one by one as in the loop
Total(q) ==
  LET sum[n \in 0 .. nBatt] == IF n = 0 THEN 0 ELSE sum[n - 1] + q[n]
  IN  sum[nBatt]

Sum(quantity) ==
  Word32(Total([b \in Batteries |-> IF present[b] THEN quantity[b] ELSE 0]))

\* after the last battery: the percentage, and the adapter
ACPI_Update ==
  /\ alive /\ turn = nBatt + 1
  /\ percentage' = IF Sum(capacity) > 0
                   THEN Percent(Sum(actualState), Sum(capacity)) % 256
                   ELSE 0
  /\ isCharging' \in BOOLEAN
  /\ turn' = 1 /\ quiet' = TRUE
  /\ UNCHANGED <<file, slots, buf, alive>>

----------------------------------------------------------------------------

\* ACPI_init has read every information file once
Init ==
  /\ file \in [Batteries -> Contents]
  /\ present = [b \in Batteries |-> Present(file[b])]
  /\ capacity = [b \in Batteries |-> Capacity(b, file[b], 0)]
  /\ error = [b \in Batteries |-> Erroneous(FALSE, file[b], capacity[b])]
  /\ actualState = [b \in Batteries |-> 0]
  /\ percentage = 0 /\ isCharging = FALSE
  /\ turn = 1 /\ buf = NOTHING
  /\ alive = TRUE /\ quiet = TRUE

Next == ReadState \/ ReadInfo \/ ACPI_Update \/ \E b \in Batteries : Change(b)

Spec == Init /\ [][Next]_vars

----------------------------------------------------------------------------
(* Properties *)

\* Every variable keeps its type.
TypeOK ==
  /\ file \in [Batteries -> Contents]
  /\ present \in [Batteries -> BOOLEAN] /\ error \in [Batteries -> BOOLEAN]
  /\ capacity \in [Batteries -> 0 .. U32 - 1]
  /\ actualState \in [Batteries -> 0 .. U32 - 1]
  /\ percentage \in 0 .. 255 /\ isCharging \in BOOLEAN
  /\ turn \in 1 .. nBatt + 1 /\ \A f \in buf : f \in Contents /\ f.is = "battery"
  /\ alive \in BOOLEAN /\ quiet \in BOOLEAN

\* ACPI_Filler divides by the capacity of any battery it has found, however it
\* was plugged and unplugged around the two reads: it is never 0, and the mark
\* of an unreadable battery is used only with the error flag.
Divisible ==
  \A b \in Batteries : /\ capacity[b] # 0
                       /\ present[b] /\ capacity[b] = BROKEN => error[b]

\* The batteries that are there, and their quantities
There == {b \in Batteries : file[b].is = "battery"}
Full(b) == IF b \in UseLFC /\ file[b].full > 0 THEN file[b].full ELSE file[b].design
TrueSum(quantity) == Total([b \in Batteries |-> IF b \in There THEN quantity[b] ELSE 0])

\* A battery whose tags can be read, in a slot without an error
Usable(b) == file[b].design > 0 /\ file[b].now # TAGLESS /\ ~error[b]

\* main.h:156: the percentage is the average of the batteries that are there,
\* each weighted with its own capacity, after every round in which no file
\* changed, whatever was plugged and unplugged in the rounds before.
Average ==
  [][ACPI_Update /\ quiet /\ (\A b \in There : Usable(b)) =>
       percentage' =
         IF There = {} THEN 0
         ELSE (100 * TrueSum([b \in Batteries |-> file[b].now]))
                \div TrueSum([b \in Batteries |-> Full(b)])]_vars

\* The hypothesis of the theorem about Average: a hundred times what all
\* batteries hold fits in a u_int32, and none is charged beyond 255 percent.
Small(files) ==
  \A f \in files : f.is = "battery" /\ f.design > 0 =>
    /\ nBatt * 100 * f.now < U32
    /\ \A size \in {f.design, f.full} :
         size > 0 => nBatt * 100 * size < U32 /\ 100 * f.now <= 255 * size

\* Parts of the inductive invariant of the proofs: the capacity known of a
\* battery is the one in its file;
Known ==
  \A b \in There : present[b] /\ file[b].design > 0 => capacity[b] = Full(b)

\* and what this round has read is what the files hold, until one changes.
ReadSoFar ==
  /\ buf # NOTHING => turn \in Batteries
  /\ quiet =>
       /\ \A f \in buf : f = file[turn]
       /\ \A b \in 1 .. turn - 1 :
            /\ present[b] <=> b \in There
            /\ b \in There /\ Usable(b) => actualState[b] = file[b].now

=============================================================================
