---------------------------- MODULE FileReaders ----------------------------
(***************************************************************************)
(* util_read_line and the number readers of core/sys_utils.c.  A file is   *)
(* the set of what it holds: empty when it cannot be opened or read, when  *)
(* nothing is in it, and, for a reader of numbers, when its line is not a  *)
(* whole number (strtoimax must take all of it).  The kernel hands out a   *)
(* file of sysfs in one piece.  A reader gives a set too: empty when it    *)
(* returns false.                                                          *)
(*                                                                         *)
(* A text is a sequence of pieces: single characters, a blank among them,  *)
(* and runs of characters that nothing in the code tells apart.  Pieces    *)
(* are cut so that one text occurs within another only where pieces begin  *)
(* and end; words may consist of several, as ASUSPRO of "A", "SUS", "PRO". *)
(***************************************************************************)
EXTENDS Integers, Sequences, FiniteSetsExt

CONSTANTS Uint8Max, Int32Max, Uint32Max

ASSUME WidthAssumption == Uint8Max \in Nat /\ Int32Max \in Nat /\ Uint32Max \in Nat

Fitting(file, low, high) == {n \in file : low <= n /\ n <= high}

ReadUint8(file) == Fitting(file, 0, Uint8Max)
ReadUint32(file) == Fitting(file, 0, Uint32Max)
ReadInt32(file) == Fitting(file, -Int32Max - 1, Int32Max)

\* What a local holds that starts as other and is written by a reader that
\* succeeds.
ReadOr(read, other) == IF read = {} THEN other ELSE CHOOSE v \in read : TRUE

\* strstr: the first place of needle in hay, 0 when there is none.
PlaceOf(needle, hay) ==
  LET those == {j \in 1 .. Len(hay) - Len(needle) + 1 :
                  SubSeq(hay, j, j + Len(needle) - 1) = needle}
  IN  IF those = {} THEN 0 ELSE Min(those)
=============================================================================
