----------------------------- MODULE MCStringSet -----------------------------
(* A small instance of StringSet: three keys or four, every way they can     *)
(* collide in a table of 1, 2, 4 or 8 slots, and a SIZE_MAX small enough for *)
(* the size checks to bite.                                                  *)
EXTENDS StringSet, Bitwise

\* 0, the last slots of a table of four and of eight: 3 and 7 share a home in
\* a table of four and part when it grows, and a cluster at 7 wraps to 0.
MCHashFns == [Key -> {0, 3, 7}]
MCRequests == {0, 3, 4, 32}

\* The masks of hashtable.c are remainders for the capacities that occur.
ASSUME MaskIsRemainder ==
  \A h \in 0 .. 127, e \in 0 .. 5 : (h & (2 ^ e - 1)) = h % (2 ^ e)
=============================================================================
