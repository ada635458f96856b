------------------------------ MODULE StringSet ------------------------------
(***************************************************************************)
(* core/hashtable.c: a set of strings in an open-addressing hash table      *)
(* with linear probing.  One action is one turn of a loop of the code or    *)
(* the straight line between two loops, so that the probe loops, which the  *)
(* code leaves only at an empty slot or at the key, can fail to end here    *)
(* just as they could there.  The caller is free: it makes any sequence of  *)
(* calls.  malloc, calloc and strdup may fail whenever they are called.     *)
(*                                                                          *)
(* `hash & (capacity - 1)' is written hash % capacity and                   *)
(* `(index + 1) & (capacity - 1)' is written Succ(index, capacity): both    *)
(* are right only while the capacity is a power of two, which               *)
(* CapacityIsPowerOfTwo checks; MCStringSet checks the identity itself.     *)
(***************************************************************************)
EXTENDS Naturals, FiniteSets

CONSTANTS Key,         (* the strings                                      *)
          NoKey,       (* a NULL key: the slot is empty                    *)
          NoCall,      (* no call in progress                              *)
          HashFns,     (* the hash functions to consider; FNV-1a is one    *)
          SizeMaxes,   (* the values of SIZE_MAX to consider               *)
          EntrySize,   (* sizeof(entry_t)                                  *)
          Requests     (* the capacities callers ask for                   *)

Calls == [op : {"create"}, key : {NoCall}] \cup [op : {"add", "contains"}, key : Key]

ASSUME KeyAssumption == NoKey \notin Key
ASSUME CallAssumption == NoCall \notin Calls
ASSUME HashAssumption == HashFns \subseteq [Key -> Nat]
\* A table slot holds at least a pointer, so four or eight bytes.
ASSUME SizeAssumption ==
  /\ SizeMaxes \subseteq Nat
  /\ EntrySize \in Nat
  /\ EntrySize >= 4
  /\ Requests \subseteq Nat

VARIABLES
  hash,        (* hash_key: fixed when the program is built                *)
  SizeMax,     (* SIZE_MAX: fixed as well                                  *)
  live,        (* the caller holds a set                                   *)
  entries,     (* set->entries, a function on 0 .. set->capacity - 1       *)
  capacity,    (* set->capacity                                            *)
  count,       (* set->count                                               *)
  pc,          (* where the call in progress is                            *)
  call,        (* its operation and key, NoCall between calls              *)
  index,       (* the probe position of the loop in progress               *)
  newEntries,  (* new_entries of strset_resize                             *)
  newCapacity, (* new_capacity of strset_resize, res of next_pow2          *)
  i,           (* i of strset_resize; n of next_pow2 while pc = "round"    *)
  oom,         (* the last call was refused by the allocator               *)
  result       (* what the last call returned                              *)

build == <<hash, SizeMax>>
table == <<live, entries, capacity, count>>
loops == <<index, newEntries, newCapacity, i>>
vars  == <<build, table, pc, call, loops, oom, result>>

Slots(c) == 0 .. (c - 1)
EmptyTable(c) == [s \in Slots(c) |-> NoKey]
Occupied(t) == {s \in DOMAIN t : t[s] # NoKey}
Contents(t) == {t[s] : s \in Occupied(t)}

CBool(b) == IF b THEN 1 ELSE 0
Wrap(n)  == n % (SizeMax + 1)       \* size_t arithmetic

\* Variant: the mask of the table being replaced.
HomeStaleMask(k, c) == hash[k] % capacity
\* Variant: no wrap at the end of the array.
SuccNoWrap(s, c) == s + 1

Home(k, c) == hash[k] % c
Succ(s, c) == IF s + 1 = c THEN 0 ELSE s + 1
-----------------------------------------------------------------------------
Init ==
  /\ hash \in HashFns
  /\ SizeMax \in SizeMaxes
  /\ live = FALSE
  /\ entries = EmptyTable(0)
  /\ capacity = 0
  /\ count = 0
  /\ pc = "idle"
  /\ call = NoCall
  /\ index = 0
  /\ newEntries = EmptyTable(0)
  /\ newCapacity = 0
  /\ i = 0
  /\ oom = FALSE
  /\ result = 0

\* Every return statement: the locals of the call die with it.
ReturnAs(value, failed) ==
  /\ pc' = "idle"
  /\ call' = NoCall
  /\ result' = value
  /\ oom' = failed
  /\ index' = 0
  /\ newEntries' = EmptyTable(0)
  /\ newCapacity' = 0
  /\ i' = 0
  /\ UNCHANGED build

Refuse == ReturnAs(0, TRUE) /\ UNCHANGED table

-----------------------------------------------------------------------------
(* strset_create                                                           *)

\* malloc of the header, which may fail, then next_pow2, which answers 0 for
\* a request it cannot round up.
CreateCall(n) ==
  /\ pc = "idle"
  /\ ~live
  /\ call' = [op |-> "create", key |-> NoCall]
  /\ \/ pc' = "nomem"
     \/ n <= SizeMax \div 2 /\ pc' = "round"
  /\ newCapacity' = 1
  /\ i' = n
  /\ UNCHANGED <<build, table, index, newEntries, oom, result>>

\* The paths on which a call gives up: a failed malloc or calloc, a size the
\* code rejects before it asks.
GiveUp ==
  /\ pc \in {"nomem", "alloc", "grow"}
  /\ Refuse

\* Variant: the request is taken as it is.
RoundToRequest ==
  /\ pc = "round"
  /\ newCapacity' = IF newCapacity < i THEN i ELSE newCapacity
  /\ pc' = "alloc"
  /\ UNCHANGED <<build, table, call, index, newEntries, i, oom, result>>

\* One turn of `while (res < n) res <<= 1'.
Round ==
  /\ pc = "round"
  /\ IF newCapacity < i
       THEN newCapacity' = Wrap(2 * newCapacity) /\ pc' = pc
       ELSE pc' = "alloc" /\ UNCHANGED newCapacity
  /\ UNCHANGED <<build, table, call, index, newEntries, i, oom, result>>

\* calloc succeeds only when the product of its arguments is a size_t.
CreateAlloc ==
  /\ pc = "alloc"
  /\ newCapacity * EntrySize <= SizeMax
  /\ live' = TRUE
  /\ entries' = EmptyTable(newCapacity)
  /\ capacity' = newCapacity
  /\ count' = 0
  /\ ReturnAs(1, FALSE)
-----------------------------------------------------------------------------
(* strset_find_index and its two callers                                   *)

StartProbe(k, c) ==
  /\ pc' = "probe"
  /\ index' = Home(k, c)

ContainsCall(k) ==
  /\ pc = "idle"
  /\ live
  /\ call' = [op |-> "contains", key |-> k]
  /\ StartProbe(k, capacity)
  /\ UNCHANGED <<build, table, newEntries, newCapacity, i, oom, result>>

\* Variants: the load after the insertion is not counted; only a full table
\* grows; the size in bytes is not checked.
NeedsResizeLate == Wrap(count * 4) > Wrap(capacity * 3)
NeedsResizeFull == Wrap(count + 1) > Wrap(capacity)
CannotDoubleSlotsOnly == capacity > SizeMax \div 2

\* The load test.  The resize comes before the search, so a key that is
\* already there may still make the table grow, or fail.
NeedsResize == Wrap((count + 1) * 4) > Wrap(capacity * 3)

CannotDouble ==
  \/ capacity > SizeMax \div 2
  \/ Wrap(capacity * 2) > SizeMax \div EntrySize

AddCall(k) ==
  /\ pc = "idle"
  /\ live
  /\ call' = [op |-> "add", key |-> k]
  /\ IF ~NeedsResize
       THEN StartProbe(k, capacity) /\ UNCHANGED newCapacity
       ELSE /\ pc' = IF CannotDouble THEN "nomem" ELSE "grow"
            /\ newCapacity' = Wrap(capacity * 2)
            /\ UNCHANGED index
  /\ UNCHANGED <<build, table, newEntries, i, oom, result>>

Advance ==
  /\ pc = "probe"
  /\ entries[index] \notin {NoKey, call.key}
  /\ index' = Succ(index, capacity)
  /\ UNCHANGED <<build, table, pc, call, newEntries, newCapacity, i, oom, result>>

\* Variant: adding a key that is there already reports an insertion.
FoundIsSuccess ==
  /\ pc = "probe"
  /\ entries[index] = call.key
  /\ ReturnAs(1, FALSE)
  /\ UNCHANGED table

Found ==
  /\ pc = "probe"
  /\ entries[index] = call.key
  /\ ReturnAs(CBool(call.op = "contains"), FALSE)
  /\ UNCHANGED table

Absent ==
  /\ pc = "probe"
  /\ entries[index] = NoKey
  /\ call.op = "contains"
  /\ ReturnAs(0, FALSE)
  /\ UNCHANGED table

Insert ==
  /\ pc = "probe"
  /\ entries[index] = NoKey
  /\ call.op = "add"
  /\ entries' = [entries EXCEPT ![index] = call.key]
  /\ count' = count + 1
  /\ ReturnAs(1, FALSE)
  /\ UNCHANGED <<live, capacity>>

\* strdup fails at the slot that was found.
InsertFails ==
  /\ pc = "probe"
  /\ entries[index] = NoKey
  /\ call.op = "add"
  /\ Refuse
-----------------------------------------------------------------------------
(* strset_resize                                                           *)

GrowAlloc ==
  /\ pc = "grow"
  /\ newEntries' = EmptyTable(newCapacity)
  /\ i' = 0
  /\ pc' = "rehash"
  /\ UNCHANGED <<build, table, call, index, newCapacity, oom, result>>

\* The head of the for loop: skip an empty slot, or start to place its key.
RehashSlot ==
  /\ pc = "rehash"
  /\ i < capacity
  /\ IF entries[i] = NoKey
       THEN i' = i + 1 /\ UNCHANGED <<pc, index>>
       ELSE /\ pc' = "place"
            /\ index' = Home(entries[i], newCapacity)
            /\ UNCHANGED i
  /\ UNCHANGED <<build, table, call, newEntries, newCapacity, oom, result>>

\* The inner loop looks only for an empty slot: the keys are distinct.
PlaceAdvance ==
  /\ pc = "place"
  /\ newEntries[index] # NoKey
  /\ index' = Succ(index, newCapacity)
  /\ UNCHANGED <<build, table, pc, call, newEntries, newCapacity, i, oom, result>>

\* Variant: the key goes to its home slot whoever is there.
PlaceAtHome ==
  /\ pc = "place"
  /\ newEntries' = [newEntries EXCEPT ![index] = entries[i]]
  /\ i' = i + 1
  /\ pc' = "rehash"
  /\ UNCHANGED <<build, table, call, index, newCapacity, oom, result>>

Place ==
  /\ pc = "place"
  /\ newEntries[index] = NoKey
  /\ newEntries' = [newEntries EXCEPT ![index] = entries[i]]
  /\ i' = i + 1
  /\ pc' = "rehash"
  /\ UNCHANGED <<build, table, call, index, newCapacity, oom, result>>

\* The old array is freed, the new one installed, and strset_add goes on to
\* search it.
SwapTables ==
  /\ pc = "rehash"
  /\ i = capacity
  /\ entries' = newEntries
  /\ capacity' = newCapacity
  /\ newEntries' = EmptyTable(0)
  /\ newCapacity' = 0
  /\ i' = 0
  /\ StartProbe(call.key, newCapacity)
  /\ UNCHANGED <<build, live, count, call, oom, result>>
-----------------------------------------------------------------------------
\* strset_add, strset_contains and strset_get_count on a NULL set.
NullCall ==
  /\ pc = "idle"
  /\ ~live
  /\ result' = 0
  /\ oom' = FALSE
  /\ UNCHANGED <<build, table, pc, call, loops>>

GetCount ==
  /\ pc = "idle"
  /\ live
  /\ result' = count
  /\ oom' = FALSE
  /\ UNCHANGED <<build, table, pc, call, loops>>

Destroy ==
  /\ pc = "idle"
  /\ live
  /\ live' = FALSE
  /\ entries' = EmptyTable(0)
  /\ capacity' = 0
  /\ count' = 0
  /\ UNCHANGED <<build, pc, call, loops, oom, result>>

\* The steps of the library, once it has been called.
Step ==
  \/ GiveUp \/ Round \/ CreateAlloc
  \/ Advance \/ Found \/ Absent \/ Insert \/ InsertFails
  \/ GrowAlloc \/ RehashSlot \/ PlaceAdvance \/ Place \/ SwapTables

\* The caller's choices.
Caller ==
  \/ \E n \in Requests : CreateCall(n)
  \/ \E k \in Key : ContainsCall(k) \/ AddCall(k)
  \/ NullCall
  \/ GetCount
  \/ Destroy

Next == Step \/ Caller

Spec == Init /\ [][Next]_vars

\* The library is straight-line code run by the caller's thread: a step that
\* can be taken is taken.  The caller owes nothing.
FairSpec == Spec /\ WF_vars(Step)
-----------------------------------------------------------------------------
Table(c) == [Slots(c) -> Key \cup {NoKey}]

\* The variables hold what their C types and the code's own loop bounds allow:
\* every array access the next step makes is inside its array.
TypeOK ==
  /\ hash \in HashFns
  /\ SizeMax \in SizeMaxes
  /\ live \in BOOLEAN
  /\ capacity \in Nat
  /\ live <=> capacity # 0
  /\ entries \in Table(capacity)
  /\ count \in Nat
  /\ newCapacity \in Nat
  /\ newEntries \in Table(IF pc \in {"rehash", "place"} THEN newCapacity ELSE 0)
  /\ i \in Nat
  /\ index \in Nat
  /\ oom \in BOOLEAN
  /\ result \in Nat
  /\ call \in Calls \cup {NoCall}
  /\ \/ pc = "idle" /\ call = NoCall
     \/ pc = "nomem" /\ call # NoCall
     \/ pc \in {"round", "alloc"} /\ ~live /\ call # NoCall
          /\ call.op = "create" /\ newCapacity # 0
     \/ pc = "probe" /\ live /\ call # NoCall /\ call.op # "create"
          /\ index < capacity
     \/ pc \in {"grow", "rehash", "place"} /\ live /\ call # NoCall
          /\ call.op = "add" /\ newCapacity = 2 * capacity
  /\ pc = "rehash" => i <= capacity
  /\ pc = "place" => i < capacity /\ entries[i] # NoKey /\ index < newCapacity

\* The slots a probe that started at h has passed when it stands at s.
Arc(h, s, c) ==
  IF h <= s THEN h .. (s - 1) ELSE (h .. (c - 1)) \cup (0 .. (s - 1))

\* Every key is in one slot, and no slot between its home and that slot is
\* empty: a search for it from any caller ends there.
Sound(t, c) ==
  /\ \A s, r \in Occupied(t) : t[s] = t[r] => s = r
  /\ \A s \in Occupied(t) : \A r \in Arc(Home(t[s], c), s, c) : t[r] # NoKey

\* Both the table in use and the one a resize is filling are sound after every
\* step, whatever the hash function, the order of the keys and the failures
\* (strset_add, strset_resize).
TableIsSound ==
  /\ Sound(entries, capacity)
  /\ pc \in {"rehash", "place"} => Sound(newEntries, newCapacity)

\* set->count is the number of keys in the table, a quarter of the table stays
\* empty (the load test of strset_add, and the growth it triggers, which may
\* fail), so that every probe has a slot to stop at.
LoadIsBounded ==
  /\ count = Cardinality(Occupied(entries))
  /\ count * 4 <= capacity * 3

\* While strset_resize runs, the new table holds the keys of the slots it has
\* visited and no others: none is lost when the old array is freed.
RehashKeepsKeys ==
  pc \in {"rehash", "place"} =>
    Contents(newEntries) = {entries[s] : s \in {r \in Occupied(entries) : r < i}}

\* Neither side of the load test wraps, and the array's size in bytes is a
\* size_t: create and resize have refused what would not fit.
SizesFit ==
  live => /\ (count + 1) * 4 <= SizeMax
          /\ capacity * 3 <= SizeMax
          /\ capacity * EntrySize <= SizeMax

\* The capacity is a power of two, as the masks of strset_find_index and
\* strset_resize assume (an exponent is below the number it gives, and the
\* array fits in SizeMax).
CapacityIsPowerOfTwo ==
  live => \E e \in 0 .. (SizeMax \div EntrySize) : capacity = 2 ^ e

\* What the arithmetic of the file takes for granted of a capacity.
CapacityIsSound == SizesFit /\ CapacityIsPowerOfTwo

\* The table is a set: each call returns what StringSetSpec says, and the
\* contents change at the return of an insertion and at no other step; a
\* resize, and a call that failed, leave them alone.
Abs == INSTANCE StringSetSpec WITH members <- Contents(entries)
ImplementsSet == Abs!AbsSpec

\* Every call returns (the loops of next_pow2, strset_resize and
\* strset_find_index all end).
CallReturns == pc # "idle" ~> pc = "idle"
=============================================================================
