--------------------------- MODULE MCAcpiBattery ---------------------------
(* Small instances of AcpiBattery for TLC: two batteries, the second with  *)
(* --lfc, and the files they may have.                                     *)
EXTENDS AcpiBattery

MCUseLFC == {2}

Battery(design, full, charges) ==
  {[is |-> "battery", design |-> design, full |-> full, now |-> now] : now \in charges}
Other(kind) == [is |-> kind, design |-> TAGLESS, full |-> TAGLESS, now |-> TAGLESS]

\* Batteries of two sizes; tags with 0, without tags, no battery, no file
AnyFile ==
  Battery(4, 3, {1, 3}) \cup Battery(2, 2, {2})
    \cup Battery(0, 0, {TAGLESS}) \cup Battery(TAGLESS, TAGLESS, {1})
    \cup {Other("no"), Other("gone")}

\* 50 Wh, in units of 10^6 uWh
FiftyWh == Battery(50, 50, {10, 40, 45})

NoLFC == {}

\* The hypothesis of the theorem AverageIsTrue holds of these files.
ASSUME FilesAreSmall == Small(AnyFile)
=============================================================================
