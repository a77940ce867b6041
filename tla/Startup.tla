------------------------------ MODULE Startup ------------------------------
(***************************************************************************)
(* main up to the main loop: the command line of Arguments, the connection *)
(* to the X server, and init_battery (src/src/init.c) with ACPI_init,      *)
(* APM_init and the vector of batteries (src/src/battery.c); and           *)
(* free_and_exit.  Each allocation of the vector and of a structure may    *)
(* fail; that of the list of --lfc, whose failure nobody checks            *)
(* (battery.c:434-435), does not: it would kill the program on the spot.   *)
(***************************************************************************)
EXTENDS Arguments, FiniteSets

CONSTANTS
  Machines,     \* what the kernel offers: [acpi, dir, apm, bats]
  MaxFailures   \* bound: allocations that fail

ACPI == 2    \* SUPPORT_ACPI; 0 stands for an interface not yet chosen
APM == 1     \* SUPPORT_APM

ASSUME StartupAssumption ==
  /\ MaxFailures \in Nat
  /\ \A m \in Machines : /\ m.acpi \in BOOLEAN /\ m.dir \in BOOLEAN /\ m.apm \in BOOLEAN
                         /\ IsFiniteSet(m.bats)

VARIABLES
  machine,        \* constant: the machine the program is started on
  try,            \* how many interfaces init_battery has tried
  type,           \* powerState.type, and with it the updater; 0 before
  nBatt, batteryVector,   \* powerState
  left,           \* names readdir has not returned yet
  countBattery,   \* ACPI_init
  connected,      \* display # NULL
  allocated,      \* number of structures allocated so far
  heap,           \* numbers of the structures not yet freed
  wrongFree,      \* ghost: something was freed that was not allocated
  failed          \* allocations that have failed

power == <<type, nBatt, batteryVector>>
memory == <<allocated, heap, failed, wrongFree>>
startVars == <<stage, argVars, machine, try, power, left, countBattery, connected, memory>>

NULL == <<>>

----------------------------------------------------------------------------
(* mallocBatteryVector and freeBatteryVector *)

\* realloc: the elements that fit are kept, others have any value
Resized(vector, n) == [k \in 1 .. n |-> IF k <= Len(vector) THEN vector[k] ELSE [id |-> 0]]

\* room for one more structure.  A failing realloc leaves no vector at all, a
\* failing malloc makes it small again.
Malloc(battery) ==
  \/ /\ nBatt' = nBatt + 1
     /\ allocated' = allocated + 1 /\ heap' = heap \cup {allocated'}
     /\ batteryVector' = [Resized(batteryVector, nBatt') EXCEPT ![nBatt'] = battery]
     /\ UNCHANGED failed

MallocFails ==
  /\ failed < MaxFailures /\ failed' = failed + 1
  /\ batteryVector' \in {NULL, Resized(batteryVector, nBatt)}
  /\ UNCHANGED <<nBatt, allocated, heap>>

\* mutant of Shifted: the loop stops one element early
ShiftedShort == [k \in 1 .. nBatt - 1 |-> IF k < nBatt - 1 THEN batteryVector[k + 1] ELSE batteryVector[k]]

\* the elements behind the first one move down
Shifted == [k \in 1 .. nBatt - 1 |-> batteryVector[k + 1]]

\* freeBatteryVector(0).  When realloc fails, the element is not freed.
FreeFirst ==
  /\ nBatt' = nBatt - 1
  /\ \/ /\ batteryVector' = Shifted
        /\ heap' = heap \ {batteryVector[1].id}
        /\ wrongFree' = (wrongFree \/ batteryVector[1].id \notin heap)
        /\ UNCHANGED failed
     \/ /\ nBatt' > 0 /\ failed < MaxFailures /\ failed' = failed + 1
        /\ batteryVector' = NULL
        /\ UNCHANGED <<heap, wrongFree>>

----------------------------------------------------------------------------
(* The steps of main *)

ReadLine ==
  /\ ReadWord
  /\ UNCHANGED <<machine, try, power, left, countBattery, connected, memory>>

EndLine ==
  /\ EndOfLine
  /\ UNCHANGED <<machine, try, power, left, countBattery, connected, memory>>

init_display ==
  /\ stage = "display"
  /\ \/ connected' = TRUE /\ stage' = "battery"
     \/ stage' = "free" /\ connected' \in BOOLEAN    \* no display, or no colours
  /\ UNCHANGED <<argVars, machine, try, power, left, countBattery, memory>>

\* mutant of Order: --use-acpi is the same as --acpi
OrderNotOnly == IF args["useApmAcpi"] \in {1, 3} THEN <<APM, ACPI>> ELSE <<ACPI, APM>>

\* the interfaces init_battery tries, one after the other
Order ==
  CASE args["useApmAcpi"] = 1 -> <<APM, ACPI>>
    [] args["useApmAcpi"] = 2 -> <<ACPI, APM>>
    [] args["useApmAcpi"] = 3 -> <<APM>>
    [] args["useApmAcpi"] = 4 -> <<ACPI>>

\* mutant of NextInterface: the same one is tried again
NextInterfaceSame == try' = try /\ stage' = "battery"

\* the interface has failed: the next one, or the end
NextInterface ==
  /\ try' = try + 1
  /\ stage' = IF try < Len(Order) THEN "battery" ELSE "free"

APM_init ==
  /\ stage = "battery" /\ Order[try] = APM
  /\ \/ /\ ~machine.apm
        /\ NextInterface
        /\ UNCHANGED <<power, allocated, heap, failed>>
     \/ /\ machine.apm
        /\ type' = APM
        /\ \/ /\ nBatt' = 1 /\ stage' = "run"
              /\ allocated' = allocated + 1 /\ heap' = heap \cup {allocated'}
              /\ batteryVector' = <<[id |-> allocated', filler |-> APM, counter |-> 0, useLFC |-> FALSE]>>
              /\ UNCHANGED <<failed, try>>
           \/ /\ nBatt' = 0 /\ NextInterface
              /\ failed < MaxFailures /\ failed' = failed + 1
              /\ batteryVector' = NULL
              /\ UNCHANGED <<allocated, heap>>
  /\ UNCHANGED <<argVars, machine, left, countBattery, connected, wrongFree>>

\* ACPI_init up to the loop over the directory
ACPI_init ==
  /\ stage = "battery" /\ Order[try] = ACPI
  /\ \/ /\ ~machine.acpi
        /\ NextInterface
        /\ UNCHANGED <<power, left, countBattery>>
     \/ /\ machine.acpi
        /\ type' = ACPI /\ nBatt' = 0 /\ batteryVector' = NULL
        /\ \/ ~machine.dir /\ NextInterface /\ UNCHANGED <<left, countBattery>>
           \/ /\ machine.dir /\ stage' = "readdir"
              /\ left' = machine.bats /\ countBattery' = 0
              /\ UNCHANGED try
  /\ UNCHANGED <<argVars, machine, connected, memory>>

\* mutant of LfcOf: the index from 0 is looked up
LfcOfIndex == \E k \in DOMAIN lfcArgsVector : lfcArgsVector[k] = countBattery

\* ACPI_lfcArgs_get(countBattery), after the count
LfcOf == \E k \in DOMAIN lfcArgsVector : lfcArgsVector[k] = countBattery'

\* the next BAT*, in an order only the kernel knows
ReadEntry ==
  /\ stage = "readdir"
  /\ \E name \in left :
       /\ left' = left \ {name}
       /\ countBattery' = countBattery + 1
       /\ \/ /\ Malloc([id |-> allocated + 1, filler |-> ACPI, counter |-> countBattery', useLFC |-> LfcOf])
             /\ UNCHANGED <<stage, try>>
          \/ MallocFails /\ NextInterface
  /\ UNCHANGED <<argVars, machine, type, connected, wrongFree>>

CloseDir ==
  /\ stage = "readdir" /\ left = {}
  /\ stage' = "run"
  /\ UNCHANGED <<argVars, machine, try, power, left, countBattery, connected, memory>>

\* one of the many ways to end: a file that cannot be opened, for instance
Quit ==
  /\ stage = "run"
  /\ stage' = "free"
  /\ UNCHANGED <<argVars, machine, try, power, left, countBattery, connected, memory>>

free_and_exit ==
  /\ stage = "free"
  /\ \/ /\ batteryVector # NULL /\ nBatt > 0
        /\ FreeFirst
        /\ UNCHANGED <<stage, connected>>
     \/ /\ batteryVector = NULL \/ nBatt = 0
        /\ batteryVector' = NULL /\ connected' = FALSE
        /\ stage' = "exit"
        /\ UNCHANGED <<nBatt, heap, failed, wrongFree>>
  /\ UNCHANGED <<argVars, machine, try, type, left, countBattery, allocated>>

----------------------------------------------------------------------------

Init ==
  /\ ArgumentsInit
  /\ machine \in Machines /\ try = 1
  /\ type = 0 /\ nBatt = 0 /\ batteryVector = NULL
  /\ left = {} /\ countBattery = 0 /\ connected = FALSE
  /\ allocated = 0 /\ heap = {} /\ wrongFree = FALSE /\ failed = 0

Progress ==
  \/ EndLine \/ init_display \/ APM_init \/ ACPI_init \/ ReadEntry \/ CloseDir \/ free_and_exit

Next == ReadLine \/ Progress \/ Quit

\* main runs; nothing makes it quit once it has come to its loop.
Spec == Init /\ [][Next]_startVars /\ WF_startVars(Progress)

----------------------------------------------------------------------------
(* Properties *)

\* Every variable keeps its type, and the settings the width of theirs.
StartupTypeOK ==
  /\ stage \in {"args", "display", "battery", "readdir", "run", "free", "exit"}
  /\ DOMAIN args = Settings
  /\ \A n \in Chars : args[n] \in SignedInts(128)
  /\ \A n \in Shorts : args[n] \in SignedInts(32768)
  /\ nBatt \in 0 .. Cardinality(machine.bats) + 1
  /\ type \in {0, ACPI, APM} /\ try \in 1 .. 3
  /\ heap \subseteq 1 .. allocated /\ failed \in 0 .. MaxFailures
  /\ left \subseteq machine.bats

\* the interface works on this machine
Works(interface) ==
  IF interface = APM THEN machine.apm ELSE machine.acpi /\ machine.dir

\* main.c:185-188: the interface asked for is used when it works; the other one
\* takes its place, but not for --use-apm and --use-acpi; and unless memory ran
\* out the program ends only if none of those works.
RightInterface ==
  LET asked == IF args["useApmAcpi"] \in {1, 3} THEN APM ELSE ACPI
      other == IF asked = APM THEN ACPI ELSE APM
      only  == args["useApmAcpi"] \in {3, 4}
  IN  failed = 0 =>
        /\ stage = "run" => Works(type) /\ (type = asked \/ (~only /\ ~Works(asked)))
        /\ try > 1 /\ stage \in {"free", "exit"} =>
             ~Works(asked) /\ (only \/ type = other \/ ~Works(other))

\* Whatever failed before: in the main loop every entry of the vector is a
\* structure of its own, still allocated and filled in for the interface in use;
\* with APM there is exactly one (main.h:101-104), with ACPI one for each
\* battery, the one with the number of an option --lfc being marked for it.
VectorReady ==
  stage = "run" =>
    /\ \A k \in 1 .. nBatt :
         /\ batteryVector[k].id \in heap /\ batteryVector[k].filler = type
         /\ \A j \in 1 .. nBatt : batteryVector[j].id = batteryVector[k].id => j = k
    /\ type = APM => nBatt = 1
    /\ type = ACPI =>
         /\ nBatt = Cardinality(machine.bats)
         /\ \A k \in 1 .. nBatt :
              batteryVector[k].useLFC =
                (k \in {lfcArgsVector[j] : j \in DOMAIN lfcArgsVector})

\* main.h:310-311: before exiting free_and_exit frees any allocated memory, each
\* structure once (unless memory ran out before, when ACPI_init gives up without
\* the structures it has made).
FreedOnce ==
  /\ ~wrongFree
  /\ stage = "exit" /\ failed = 0 => heap = {}

\* The program comes to its main loop or ends, whatever the command line says.
StartsOrEnds == <>(stage \in {"run", "exit"})
=============================================================================
