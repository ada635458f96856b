------------------------------- MODULE Bitset -------------------------------
(***************************************************************************)
(* core/bitset.c: a set of the numbers below a capacity, kept in blocks of *)
(* BlockBits bits.  A block is the set of the positions of its set bits.   *)
(***************************************************************************)
EXTENDS Integers, FiniteSets, FiniteSetsExt

CONSTANT BlockBits   (* BITS_PER_BLOCK: 32 *)

ASSUME BlockAssumption == BlockBits \in Nat \ {0}

\* SET_SIZE: a last block that is not full is there too.
Blocks(capacity) == (capacity + BlockBits - 1) \div BlockBits

Bitsets(capacity) ==
  [bits : [0 .. Blocks(capacity) - 1 -> SUBSET (0 .. BlockBits - 1)],
   capacity : {capacity}]

EmptyBitset(capacity) ==
  [bits |-> [b \in 0 .. Blocks(capacity) - 1 |-> {}], capacity |-> capacity]

\* A number at or above the capacity is refused, wherever its block would be.
SetAdd(set, num) ==
  IF num < set.capacity
    THEN [set EXCEPT !.bits[num \div BlockBits] = @ \cup {num % BlockBits}]
    ELSE set

SetRemove(set, num) ==
  IF num < set.capacity
    THEN [set EXCEPT !.bits[num \div BlockBits] = @ \ {num % BlockBits}]
    ELSE set

SetContains(set, num) ==
  num < set.capacity /\ num % BlockBits \in set.bits[num \div BlockBits]

\* At most the blocks the capacity needs are looked at; all bits of each count.
SetCountBits(set, blocks) ==
  LET last == Min({blocks, Blocks(set.capacity)}) - 1
      ones(b) == Cardinality(set.bits[b])
  IN  MapThenSumSet(ones, 0 .. last)

\* BIT: where a number's bit is, whatever the block.
Bit(num) == num % BlockBits
=============================================================================
