---------------------------- MODULE MCHardwareNames ----------------------------
(* Two vendors and two devices, one with a vendor's number.  Databases of up   *)
(* to four vendor and device lines, and of up to three with a line too deep,  *)
(* a vendor line whose number is too long, and the beginning of the classes.  *)
(* Forests made for one root, one allocation failure, cards with a file that  *)
(* cannot be read, one card more than MaxGpus.                                *)
EXTENDS HardwareNames

MCLine(first, t, n, x) == [lead |-> first, tabs |-> t, digits |-> n, id |-> x]

Entries == {MCLine("other", t, 4, x) : t \in {0, 1}, x \in {1, 2}}
Oddities == {MCLine("other", 2, 4, 1), MCLine("other", 0, 5, 2), MCLine("C", 0, 2, 0)}

MCDatabases == BoundedSeq(Entries, 4) \cup BoundedSeq(Entries \cup Oddities, 3)

MCCard(v, d) == [vendor |-> v, device |-> d]
MCCards == {MCCard(1, 1), MCCard(1, 2), MCCard(2, 2), MCCard(0, 1), MCCard(2, 0)}
=============================================================================
