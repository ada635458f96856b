-------------------------- MODULE StringSet_proofs --------------------------
(***************************************************************************)
(* Proofs about StringSet.tla, for every set of keys, every hash function,  *)
(* every SIZE_MAX and every request.                                        *)
(*                                                                          *)
(* First the types.  Then the load: LoadIsBounded is not inductive, since   *)
(* an insertion adds its key long after the load test and a resize may come *)
(* in between.  RoomToInsert carries the answer of the test to the          *)
(* insertion, PlacedCount and GrowFits carry the count and the size of the  *)
(* table across the resize.                                                 *)
(*                                                                          *)
(* Then that the table never hides a key, and that what a caller sees of it *)
(* is the set of StringSetSpec.tla.  TableIsSound speaks of whole tables    *)
(* and a probe sees a slot at a time: PassedOver and PassedFull say what it *)
(* has seen.  From them and the circular order of the slots it follows that *)
(* a search that has come to an empty slot has proved its key absent        *)
(* (AbsentAtEmptySlot), and that a key put there can be found from its      *)
(* home.  The refinement reads the members off the table in use at every    *)
(* step, in the middle of a resize too.                                     *)
(***************************************************************************)
EXTENDS StringSet, Facts, FiniteSetTheorems, TLAPS

-----------------------------------------------------------------------------
(* Arithmetic and the helpers of the model                                 *)

LEMMA ModRange ==
  ASSUME NEW a \in Nat, NEW c \in Nat \ {0}
  PROVE  a % c \in 0 .. (c - 1)
  OBVIOUS

LEMMA ModSmall ==
  ASSUME NEW a \in Nat, NEW c \in Nat, a < c
  PROVE  a % c = a
  OBVIOUS

LEMMA HomeInTable ==
  ASSUME hash \in HashFns, NEW k \in Key, NEW c \in Nat \ {0}
  PROVE  Home(k, c) \in Slots(c)
  BY HashAssumption, ModRange DEF Home, Slots

LEMMA SuccInTable ==
  ASSUME NEW c \in Nat, NEW s \in Slots(c)
  PROVE  Succ(s, c) \in Slots(c)
  BY DEF Succ, Slots

LEMMA EmptyTableType ==
  ASSUME NEW c \in Nat
  PROVE  EmptyTable(c) \in Table(c)
  BY DEF EmptyTable, Table

LEMMA WrapSmall ==
  ASSUME SizeMax \in Nat, NEW n \in Nat, n <= SizeMax
  PROVE  Wrap(n) = n
  BY ModSmall DEF Wrap

LEMMA WrapType ==
  ASSUME SizeMax \in Nat, NEW n \in Nat
  PROVE  Wrap(n) \in Nat
  BY ModRange DEF Wrap
-----------------------------------------------------------------------------
(* Type correctness                                                        *)

\* What next_pow2 rounds up fits twice into a size_t, so doubling does not
\* wrap to 0.
RoundFits == pc = "round" => i <= SizeMax \div 2

Typed == TypeOK /\ RoundFits

LEMMA TypeInit == Init => Typed
<1> SUFFICES ASSUME Init PROVE Typed
  OBVIOUS
<1>1. entries \in Table(0) /\ newEntries \in Table(0)
  BY EmptyTableType DEF Init
<1> QED
  BY <1>1 DEF Init, Typed, TypeOK, RoundFits

\* A return keeps the types if it leaves the table well typed.
LEMMA TypeReturn ==
  ASSUME Typed, NEW v \in Nat, NEW f \in BOOLEAN, ReturnAs(v, f),
         live' \in BOOLEAN, capacity' \in Nat, live' <=> capacity' # 0,
         entries' \in Table(capacity'), count' \in Nat
  PROVE  Typed'
<1>1. newEntries' \in Table(0)
  BY EmptyTableType DEF ReturnAs
<1> QED
  BY <1>1 DEF ReturnAs, Typed, TypeOK, RoundFits, build, Table, Slots

LEMMA TypeNext == Typed /\ [Next]_vars => Typed'
<1> SUFFICES ASSUME Typed, [Next]_vars PROVE Typed'
  OBVIOUS
<1> USE DEF Typed, TypeOK, RoundFits, build, table, loops, Slots, Table, Calls
<1>0. SizeMax \in Nat
  BY SizeAssumption
<1>1. ASSUME NEW n \in Requests, CreateCall(n) PROVE Typed'
  BY <1>1, SizeAssumption, CallAssumption DEF CreateCall, Calls
<1>2. CASE GiveUp
  BY <1>2, TypeReturn DEF GiveUp, Refuse
<1>3. CASE Round
  <2>1. CASE newCapacity < i
    <3>1. 2 * newCapacity <= SizeMax
      BY <1>0, <1>3, <2>1 DEF Round
    <3>2. newCapacity' = 2 * newCapacity
      BY <1>0, <1>3, <2>1, <3>1, WrapSmall DEF Round
    <3> QED
      BY <1>3, <2>1, <3>2 DEF Round
  <2>2. CASE ~(newCapacity < i)
    BY <1>3, <2>2 DEF Round
  <2> QED
    BY <2>1, <2>2
<1>4. CASE CreateAlloc
  <2>1. EmptyTable(newCapacity) \in Table(newCapacity)
    BY EmptyTableType
  <2> QED
    BY <1>4, <2>1, TypeReturn DEF CreateAlloc
<1>5. ASSUME NEW k \in Key, ContainsCall(k) PROVE Typed'
  <2>1. Home(k, capacity) \in Slots(capacity)
    BY <1>5, HomeInTable DEF ContainsCall
  <2> QED
    BY <1>5, <2>1, CallAssumption DEF ContainsCall, StartProbe, Calls
<1>6. ASSUME NEW k \in Key, AddCall(k) PROVE Typed'
  <2>1. Home(k, capacity) \in Slots(capacity)
    BY <1>6, HomeInTable DEF AddCall
  <2>2. CASE ~NeedsResize
    BY <1>6, <2>1, <2>2, CallAssumption DEF AddCall, StartProbe, Calls
  <2>3. CASE NeedsResize
    <3>1. Wrap(capacity * 2) \in Nat
      <4>1. capacity * 2 \in Nat
        OBVIOUS
      <4> HIDE DEF Typed, TypeOK, RoundFits
      <4> QED
        BY <1>0, <4>1, WrapType
    <3>2. ~CannotDouble => Wrap(capacity * 2) = 2 * capacity
      BY <1>0, WrapSmall DEF CannotDouble
    <3>3. call' \in Calls /\ call' # NoCall /\ call'.op = "add"
      BY <1>6, CallAssumption DEF AddCall
    <3>4. /\ newCapacity' \in Nat /\ pc' \in {"nomem", "grow"}
          /\ pc' = "grow" => newCapacity' = 2 * capacity
          /\ live /\ pc = "idle"
          /\ UNCHANGED <<build, table, newEntries, i, index, oom, result>>
      BY <1>6, <2>3, <3>1, <3>2 DEF AddCall
    <3> QED
      BY <3>3, <3>4
  <2> QED
    BY <2>2, <2>3
<1>7. CASE Advance
  BY <1>7, SuccInTable DEF Advance
<1>8. CASE Found
  BY <1>8, TypeReturn DEF Found, CBool
<1>9. CASE Absent
  BY <1>9, TypeReturn DEF Absent
<1>10. CASE Insert
  <2>1. entries' \in Table(capacity)
    BY <1>10 DEF Insert
  <2>2. ReturnAs(1, FALSE)
    BY <1>10, Zenon DEF Insert
  <2>3. live' \in BOOLEAN /\ capacity' = capacity /\ count' \in Nat
    BY <1>10 DEF Insert
  <2>4. live' <=> capacity' # 0
    BY <1>10 DEF Insert
  <2> QED
    BY <2>1, <2>2, <2>3, <2>4, TypeReturn
<1>11. CASE InsertFails
  BY <1>11, TypeReturn DEF InsertFails, Refuse
<1>12. CASE GrowAlloc
  BY <1>12, EmptyTableType DEF GrowAlloc
<1>13. CASE RehashSlot
  <2>1. CASE entries[i] = NoKey
    BY <1>13, <2>1 DEF RehashSlot
  <2>2. CASE entries[i] # NoKey
    <3>1. Home(entries[i], newCapacity) \in Slots(newCapacity)
      BY <1>13, <2>2, HomeInTable DEF RehashSlot
    <3> QED
      BY <1>13, <2>2, <3>1 DEF RehashSlot
  <2> QED
    BY <2>1, <2>2
<1>14. CASE PlaceAdvance
  BY <1>14, SuccInTable DEF PlaceAdvance
<1>15. CASE Place
  <2>1. newEntries' \in Table(newCapacity)
    BY <1>15 DEF Place
  <2> QED
    BY <1>15, <2>1 DEF Place
<1>16. CASE SwapTables
  <2>1. Home(call.key, newCapacity) \in Slots(newCapacity)
    BY <1>16, HomeInTable DEF SwapTables, Calls
  <2>2. entries' \in Table(capacity') /\ newEntries' \in Table(0)
    BY <1>16, EmptyTableType DEF SwapTables
  <2>3. pc' = "probe" /\ capacity' \in Nat /\ capacity' # 0 /\ index' < capacity'
    BY <1>16, <2>1 DEF SwapTables, StartProbe
  <2>4. live' /\ call' = call /\ call # NoCall /\ call.op = "add"
    BY <1>16 DEF SwapTables
  <2> QED
    BY <1>16, <2>1, <2>2, <2>3, <2>4 DEF SwapTables, StartProbe
<1>17. CASE NullCall
  BY <1>17 DEF NullCall
<1>18. CASE GetCount
  BY <1>18 DEF GetCount
<1>19. CASE Destroy
  BY <1>19, EmptyTableType DEF Destroy
<1>20. CASE UNCHANGED vars
  BY <1>20 DEF vars
<1> QED
  BY <1>1, <1>2, <1>3, <1>4, <1>5, <1>6, <1>7, <1>8, <1>9, <1>10, <1>11, <1>12,
     <1>13, <1>14, <1>15, <1>16, <1>17, <1>18, <1>19, <1>20 DEF Next, Step, Caller

\* Every access the code makes to the slots of a table is inside its array,
\* and each variable keeps its range (strset_create, strset_find_index,
\* strset_add, strset_resize).
THEOREM TypeCorrect == Spec => []TypeOK
<1>1. Spec => []Typed
  BY TypeInit, TypeNext, PTL DEF Spec
<1> QED
  BY <1>1, PTL DEF Typed
-----------------------------------------------------------------------------
(* Counting the keys of a table                                            *)

LEMMA OccupiedIsFinite ==
  ASSUME NEW c \in Nat, NEW t \in Table(c), NEW S \in SUBSET Occupied(t)
  PROVE  IsFiniteSet(S) /\ Cardinality(S) \in Nat
<1>1. IsFiniteSet(Slots(c))
  BY FS_Interval DEF Slots
<1>2. S \in SUBSET Slots(c)
  BY DEF Occupied, Table
<1>3. IsFiniteSet(S)
  BY <1>1, <1>2, FS_Subset
<1> QED
  BY <1>3, FS_CardinalityType

\* A key put in an empty slot is one key more, and leaves the others alone.
Put(t, s, k) == [t EXCEPT ![s] = k]

LEMMA PutKey ==
  ASSUME NEW c \in Nat, NEW t \in Table(c), NEW s \in Slots(c), NEW k \in Key,
         t[s] = NoKey
  PROVE  /\ Put(t, s, k) \in Table(c)
         /\ Occupied(Put(t, s, k)) = Occupied(t) \cup {s}
         /\ Contents(Put(t, s, k)) = Contents(t) \cup {k}
         /\ Cardinality(Occupied(Put(t, s, k))) = Cardinality(Occupied(t)) + 1
<1> DEFINE u == Put(t, s, k)
<1>1. u \in Table(c)
  BY DEF Table, Put
<1>2. DOMAIN t = Slots(c) /\ DOMAIN u = Slots(c)
  BY DEF Table, Put
<1>3. Occupied(u) = Occupied(t) \cup {s} /\ s \notin Occupied(t)
  BY <1>2, KeyAssumption DEF Occupied, Table, Put
<1>4. \A r \in Occupied(t) : u[r] = t[r]
  BY <1>2, <1>3 DEF Occupied, Put
<1>5. u[s] = k
  BY <1>2 DEF Put
<1> HIDE DEF u
<1>6. Contents(u) = Contents(t) \cup {k}
  BY <1>3, <1>4, <1>5 DEF Contents
<1>7. IsFiniteSet(Occupied(t))
  BY OccupiedIsFinite
<1>8. Cardinality(Occupied(u)) = Cardinality(Occupied(t)) + 1
  BY <1>3, <1>7, FS_AddElement
<1> QED
  BY <1>1, <1>3, <1>6, <1>8 DEF u

LEMMA EmptyTableIsEmpty ==
  ASSUME NEW c \in Nat
  PROVE  /\ Occupied(EmptyTable(c)) = {}
         /\ Contents(EmptyTable(c)) = {}
         /\ Cardinality(Occupied(EmptyTable(c))) = 0
  BY FS_EmptySet DEF EmptyTable, Occupied, Contents

\* a <= b \div c in integers, as the size checks of the code are written.
LEMMA DivBound ==
  ASSUME NEW a \in Nat, NEW b \in Nat, NEW c \in Nat \ {0}, a <= b \div c
  PROVE  a * c <= b
  OBVIOUS

LEMMA QuotientBound ==
  ASSUME NEW a \in Nat, NEW b \in Nat, NEW c \in Nat \ {0}, a * c <= b
  PROVE  a <= b \div c
  OBVIOUS

LEMMA TimesBound ==
  ASSUME NEW a \in Nat, NEW b \in Nat, b >= 4
  PROVE  a * 4 <= a * b
<1>1. a * b = a * 4 + a * (b - 4)
  OBVIOUS
<1>2. a * (b - 4) \in Nat
  OBVIOUS
<1> QED
  BY <1>1, <1>2
-----------------------------------------------------------------------------
(* The invariant                                                           *)

\* The array in use is a size_t in bytes.
SizeHeld == live => capacity * EntrySize <= SizeMax

\* So is the one a resize is about to allocate, or has.
GrowFits ==
  pc \in {"grow", "rehash", "place"} => newCapacity * EntrySize <= SizeMax

\* What the load test found still holds when the slot has been found.
RoomToInsert ==
  pc = "probe" /\ call # NoCall /\ call.op = "add" => (count + 1) * 4 <= capacity * 3

\* The part of the old table a resize has visited.
Visited == {s \in Occupied(entries) : s < i}

PlacedCount ==
  pc \in {"rehash", "place"} =>
    Cardinality(Occupied(newEntries)) = Cardinality(Visited)

Load == SizeHeld /\ GrowFits /\ LoadIsBounded /\ RoomToInsert /\ PlacedCount

\* The load bound and the size of the array leave no room for the load test to
\* wrap: 4 * (count + 1) <= 4 * capacity <= EntrySize * capacity.
LEMMA TestDoesNotWrap ==
  ASSUME Typed, SizeHeld, LoadIsBounded, live
  PROVE  (count + 1) * 4 <= SizeMax /\ capacity * 3 <= SizeMax
<1> USE DEF Typed, TypeOK
<1>1. capacity * 4 <= capacity * EntrySize
  BY SizeAssumption, TimesBound
<1>2. SizeMax \in Nat /\ capacity \in Nat \ {0} /\ capacity * EntrySize \in Nat
  BY SizeAssumption
<1>3. capacity * 4 <= SizeMax
  BY <1>1, <1>2 DEF SizeHeld
<1>4. count + 1 <= capacity
  BY <1>2 DEF LoadIsBounded
<1> QED
  BY <1>2, <1>3, <1>4

LEMMA LoadInit == Init => Load
<1> SUFFICES ASSUME Init PROVE Load
  OBVIOUS
<1> QED
  BY EmptyTableIsEmpty DEF Init, Load, SizeHeld, GrowFits, LoadIsBounded,
     RoomToInsert, PlacedCount

\* The steps that leave the table and the resize in progress alone.
LEMMA LoadUnchanged ==
  ASSUME Typed, Load, UNCHANGED <<SizeMax, table>>,
         pc' \in {"idle", "nomem", "round", "alloc"}
  PROVE  Load'
  BY DEF Load, SizeHeld, GrowFits, LoadIsBounded, RoomToInsert, PlacedCount, table

LEMMA LoadNext == Typed /\ Load /\ [Next]_vars => Load'
<1> SUFFICES ASSUME Typed, Load, [Next]_vars PROVE Load'
  OBVIOUS
<1>0. /\ SizeMax \in Nat /\ capacity \in Nat /\ count \in Nat /\ newCapacity \in Nat
      /\ EntrySize \in Nat \ {0} /\ i \in Nat
      /\ entries \in Table(capacity)
  BY SizeAssumption DEF Typed, TypeOK
<1>1. ASSUME NEW n \in Requests, CreateCall(n) PROVE Load'
  BY <1>1, LoadUnchanged DEF CreateCall, build
<1>2. CASE GiveUp
  BY <1>2, LoadUnchanged DEF GiveUp, Refuse, ReturnAs, build
<1>3. CASE Round
  BY <1>3, LoadUnchanged DEF Round, build
<1>4. CASE CreateAlloc
  <2>1. Cardinality(Occupied(entries')) = 0
    BY <1>0, <1>4, EmptyTableIsEmpty DEF CreateAlloc
  <2> QED
    BY <1>0, <1>4, <2>1 DEF CreateAlloc, ReturnAs, build, Load, SizeHeld, GrowFits,
       LoadIsBounded, RoomToInsert, PlacedCount
<1>5. ASSUME NEW k \in Key, ContainsCall(k) PROVE Load'
  BY <1>5 DEF ContainsCall, StartProbe, build, table, Load, SizeHeld, GrowFits,
     LoadIsBounded, RoomToInsert, PlacedCount
<1>6. ASSUME NEW k \in Key, AddCall(k) PROVE Load'
  <2>1. (count + 1) * 4 <= SizeMax /\ capacity * 3 <= SizeMax
    BY <1>6, TestDoesNotWrap DEF AddCall, Load
  <2>2. CASE ~NeedsResize
    <3>1. Wrap((count + 1) * 4) = (count + 1) * 4 /\ Wrap(capacity * 3) = capacity * 3
      BY <1>0, <2>1, WrapSmall
    <3>2. (count + 1) * 4 <= capacity * 3
      BY <1>0, <2>2, <3>1 DEF NeedsResize
    <3> QED
      BY <1>6, <2>2, <3>2 DEF AddCall, StartProbe, build, table, Load, SizeHeld,
         GrowFits, LoadIsBounded, RoomToInsert, PlacedCount
  <2>3. CASE NeedsResize /\ CannotDouble
    BY <1>6, <2>3, LoadUnchanged DEF AddCall, build
  <2>4. CASE NeedsResize /\ ~CannotDouble
    <3>1. newCapacity' = Wrap(capacity * 2) /\ newCapacity' <= SizeMax \div EntrySize
      BY <1>0, <1>6, <2>4, WrapType DEF AddCall, CannotDouble
    <3>2. newCapacity' * EntrySize <= SizeMax
      BY <1>0, <3>1, WrapType, DivBound
    <3> QED
      BY <1>6, <2>4, <3>2 DEF AddCall, build, table, Load, SizeHeld, GrowFits,
         LoadIsBounded, RoomToInsert, PlacedCount
  <2> QED
    BY <2>2, <2>3, <2>4
<1>7. CASE Advance
  BY <1>7 DEF Advance, build, table, Load, SizeHeld, GrowFits, LoadIsBounded,
     RoomToInsert, PlacedCount
<1>8. CASE Found
  BY <1>8, LoadUnchanged DEF Found, ReturnAs, build
<1>9. CASE Absent
  BY <1>9, LoadUnchanged DEF Absent, ReturnAs, build
<1>10. CASE Insert
  <2>1. index \in Slots(capacity) /\ call.key \in Key /\ call # NoCall
    BY <1>10 DEF Insert, Typed, TypeOK, Calls, Slots
  <2>2. Cardinality(Occupied(entries')) = Cardinality(Occupied(entries)) + 1
    <3>1. entries[index] = NoKey /\ entries' = Put(entries, index, call.key)
      BY <1>10 DEF Insert, Put
    <3> QED
      BY <1>0, <2>1, <3>1, PutKey
  <2>3. (count + 1) * 4 <= capacity * 3
    BY <1>10, <2>1 DEF Insert, Load, RoomToInsert
  <2>4. LoadIsBounded'
    BY <1>0, <1>10, <2>2, <2>3 DEF Insert, Load, LoadIsBounded
  <2> QED
    BY <1>10, <2>4 DEF Insert, ReturnAs, build, Load, SizeHeld, GrowFits,
       RoomToInsert, PlacedCount
<1>11. CASE InsertFails
  BY <1>11, LoadUnchanged DEF InsertFails, Refuse, ReturnAs, build
<1>12. CASE GrowAlloc
  <2>1. Cardinality(Occupied(newEntries')) = 0
    BY <1>0, <1>12, EmptyTableIsEmpty DEF GrowAlloc
  <2>2. Visited' = {}
    BY <1>0, <1>12 DEF GrowAlloc, table, Visited, Occupied, Table, Slots
  <2> QED
    BY <1>12, <2>1, <2>2, FS_EmptySet DEF GrowAlloc, build, table, Load, SizeHeld,
       GrowFits, LoadIsBounded, RoomToInsert, PlacedCount
<1>13. CASE RehashSlot
  <2>1. Visited' = Visited
    <3>1. CASE entries[i] = NoKey
      BY <1>0, <1>13, <3>1 DEF RehashSlot, table, Visited, Occupied, Table, Slots
    <3>2. CASE entries[i] # NoKey
      BY <1>13, <3>2 DEF RehashSlot, table, Visited
    <3> QED
      BY <3>1, <3>2
  <2> QED
    BY <1>13, <2>1 DEF RehashSlot, build, table, Load, SizeHeld, GrowFits,
       LoadIsBounded, RoomToInsert, PlacedCount
<1>14. CASE PlaceAdvance
  BY <1>14 DEF PlaceAdvance, build, table, Load, SizeHeld, GrowFits, LoadIsBounded,
     RoomToInsert, PlacedCount, Visited
<1>15. CASE Place
  <2>1. /\ index \in Slots(newCapacity) /\ entries[i] \in Key
        /\ newEntries \in Table(newCapacity)
        /\ i \in Occupied(entries)
    BY <1>0, <1>15 DEF Place, Typed, TypeOK, Table, Slots, Occupied
  <2>2. Cardinality(Occupied(newEntries')) = Cardinality(Occupied(newEntries)) + 1
    <3>1. /\ newEntries[index] = NoKey
          /\ newEntries' = Put(newEntries, index, entries[i])
      BY <1>15 DEF Place, Put
    <3> QED
      BY <1>0, <2>1, <3>1, PutKey
  <2>3. Visited' = Visited \cup {i} /\ i \notin Visited
    BY <1>0, <1>15, <2>1 DEF Place, table, Visited, Occupied, Table, Slots
  <2>4. IsFiniteSet(Visited) /\ Cardinality(Visited) \in Nat
    BY <1>0, OccupiedIsFinite DEF Visited
  <2>5. Cardinality(Visited') = Cardinality(Visited) + 1
    BY <2>3, <2>4, FS_AddElement
  <2>6. PlacedCount'
    BY <1>15, <2>2, <2>5 DEF Place, Load, PlacedCount
  <2> QED
    BY <1>15, <2>6 DEF Place, build, table, Load, SizeHeld, GrowFits, LoadIsBounded,
       RoomToInsert
<1>16. CASE SwapTables
  <2>1. newCapacity = 2 * capacity /\ capacity # 0
    BY <1>16 DEF SwapTables, Typed, TypeOK
  <2>2. Visited = Occupied(entries)
    BY <1>0, <1>16 DEF SwapTables, Visited, Occupied, Table, Slots
  <2>3. Cardinality(Occupied(entries')) = count
    BY <1>16, <2>2 DEF SwapTables, Load, PlacedCount, LoadIsBounded
  <2>4. count * 4 <= capacity * 3
    BY DEF Load, LoadIsBounded
  <2>5. (count + 1) * 4 <= newCapacity * 3
    BY <1>0, <2>1, <2>4
  <2>6. LoadIsBounded' /\ RoomToInsert'
    BY <1>0, <1>16, <2>3, <2>5 DEF SwapTables, LoadIsBounded, RoomToInsert
  <2> QED
    BY <1>16, <2>6 DEF SwapTables, StartProbe, build, Load, SizeHeld, GrowFits,
       PlacedCount
<1>17. CASE NullCall
  BY <1>17, LoadUnchanged DEF NullCall, build
<1>18. CASE GetCount
  BY <1>18, LoadUnchanged DEF GetCount, build
<1>19. CASE Destroy
  BY <1>19, EmptyTableIsEmpty DEF Destroy, build, Load, SizeHeld, GrowFits,
     LoadIsBounded, RoomToInsert, PlacedCount
<1>20. CASE UNCHANGED vars
  BY <1>20 DEF vars, build, table, loops, Load, SizeHeld, GrowFits, LoadIsBounded,
     RoomToInsert, PlacedCount, Visited
<1> QED
  BY <1>1, <1>2, <1>3, <1>4, <1>5, <1>6, <1>7, <1>8, <1>9, <1>10, <1>11, <1>12,
     <1>13, <1>14, <1>15, <1>16, <1>17, <1>18, <1>19, <1>20 DEF Next, Step, Caller

LEMMA LoadAlways == Spec => [](Typed /\ Load)
<1>1. Init => Typed /\ Load
  BY TypeInit, LoadInit
<1>2. Typed /\ Load /\ [Next]_vars => (Typed /\ Load)'
  BY TypeNext, LoadNext
<1> QED
  BY <1>1, <1>2, PTL DEF Spec

\* set->count is the number of keys and a quarter of the slots stays empty,
\* across resizes and whatever fails (strset_add, strset_resize).
THEOREM LoadStaysBounded == Spec => []LoadIsBounded
  BY LoadAlways, PTL DEF Load

\* No product or sum the code computes of count and capacity exceeds SIZE_MAX
\* (the load test of strset_add, the checks of strset_create and
\* strset_resize).
THEOREM SizesAlwaysFit == Spec => []SizesFit
<1>1. Typed /\ Load => SizesFit
  BY TestDoesNotWrap DEF Load, SizesFit, SizeHeld
<1> QED
  BY <1>1, LoadAlways, PTL
-----------------------------------------------------------------------------
(* The capacity                                                            *)

Power(c) == \E e \in Nat : c = 2 ^ e

\* next_pow2 doubles from 1 without wrapping, and a resize doubles.
Powers ==
  /\ live => Power(capacity)
  /\ pc \in {"round", "alloc"} => Power(newCapacity)

LEMMA PowerDoubles ==
  ASSUME NEW c, Power(c)
  PROVE  Power(2 * c)
<1>1. PICK e \in Nat : c = 2 ^ e
  BY DEF Power
<1>2. 2 * c = 2 ^ (e + 1) /\ e + 1 \in Nat
  BY <1>1, NextPowerOfTwo
<1> QED
  BY <1>2 DEF Power

LEMMA PowersInit == Init => Powers
  BY DEF Init, Powers

LEMMA PowersNext == Typed /\ Powers /\ [Next]_vars => Powers'
<1> SUFFICES ASSUME Typed, Powers, [Next]_vars PROVE Powers'
  OBVIOUS
<1>0. SizeMax \in Nat
  BY SizeAssumption DEF Typed, TypeOK
<1>1. ASSUME NEW n \in Requests, CreateCall(n) PROVE Powers'
  <2>1. Power(1)
    <3>1. 2 ^ 0 = 1 /\ 0 \in Nat
      OBVIOUS
    <3> QED
      BY <3>1 DEF Power
  <2> QED
    BY <1>1, <2>1 DEF CreateCall, Powers, table
<1>2. CASE GiveUp
  BY <1>2 DEF GiveUp, Refuse, ReturnAs, Powers, table
<1>3. CASE Round
  <2>1. CASE newCapacity < i
    <3>1. 2 * newCapacity <= SizeMax /\ 2 * newCapacity \in Nat
      BY <1>0, <1>3, <2>1 DEF Round, Typed, TypeOK, RoundFits
    <3>2. newCapacity' = 2 * newCapacity
      BY <1>0, <1>3, <2>1, <3>1, WrapSmall DEF Round
    <3>3. Power(2 * newCapacity)
      BY <1>3, PowerDoubles DEF Round, Powers
    <3> QED
      BY <1>3, <3>2, <3>3 DEF Round, Powers, table
  <2>2. CASE ~(newCapacity < i)
    BY <1>3, <2>2 DEF Round, Powers, table
  <2> QED
    BY <2>1, <2>2
<1>4. CASE CreateAlloc
  BY <1>4 DEF CreateAlloc, ReturnAs, Powers
<1>5. CASE SwapTables
  <2>1. live /\ newCapacity = 2 * capacity
    BY <1>5 DEF SwapTables, Typed, TypeOK
  <2>2. Power(newCapacity)
    BY <2>1, PowerDoubles DEF Powers
  <2> QED
    BY <1>5, <2>2 DEF SwapTables, StartProbe, Powers
<1>6. CASE Advance \/ Found \/ Absent \/ Insert \/ InsertFails
  BY <1>6 DEF Advance, Found, Absent, Insert, InsertFails, Refuse, ReturnAs, Powers, table
<1>7. CASE GrowAlloc \/ RehashSlot \/ PlaceAdvance \/ Place
  BY <1>7 DEF GrowAlloc, RehashSlot, PlaceAdvance, Place, Powers, table
<1>8. ASSUME NEW k \in Key, ContainsCall(k) \/ AddCall(k) PROVE Powers'
  BY <1>8 DEF ContainsCall, AddCall, StartProbe, Powers, table
<1>9. CASE NullCall \/ GetCount \/ Destroy \/ UNCHANGED vars
  BY <1>9 DEF NullCall, GetCount, Destroy, Powers, table, loops, vars
<1> QED
  BY <1>1, <1>2, <1>3, <1>4, <1>5, <1>6, <1>7, <1>8, <1>9 DEF Next, Step, Caller

\* The masks `hash & (capacity - 1)' of strset_find_index and strset_resize
\* are the remainders the model takes for them: next_pow2 does not wrap to 0,
\* and only doubling follows it.
THEOREM CapacityStaysPower == Spec => []CapacityIsPowerOfTwo
<1>1. Init => Powers
  BY PowersInit
<1>2. Typed /\ Powers /\ [Next]_vars => Powers'
  BY PowersNext
<1>3. Typed /\ Load /\ Powers => CapacityIsPowerOfTwo
  <2> SUFFICES ASSUME Typed, Load, Powers, live
               PROVE  \E e \in 0 .. (SizeMax \div EntrySize) : capacity = 2 ^ e
    BY DEF CapacityIsPowerOfTwo
  <2>1. PICK e \in Nat : capacity = 2 ^ e
    BY DEF Powers, Power
  <2>2. e < capacity
    BY <2>1, PowerExceeds
  <2>3. capacity <= SizeMax \div EntrySize
    <3>1. capacity * EntrySize <= SizeMax /\ capacity \in Nat /\ SizeMax \in Nat
      BY SizeAssumption DEF Load, SizeHeld, Typed, TypeOK
    <3> QED
      BY <3>1, SizeAssumption, QuotientBound
  <2>4. SizeMax \div EntrySize \in Int
    BY SizeAssumption DEF Typed, TypeOK
  <2>5. capacity \in Nat
    BY DEF Typed, TypeOK
  <2> QED
    BY <2>1, <2>2, <2>3, <2>4, <2>5
<1> QED
  BY <1>1, <1>2, <1>3, LoadAlways, PTL DEF Spec

\* Every capacity that strset_create and strset_resize let through is one the
\* masks, the load test and the allocations are right for.
THEOREM CapacityStaysSound == Spec => []CapacityIsSound
<1>1. SizesFit /\ CapacityIsPowerOfTwo => CapacityIsSound
  BY DEF CapacityIsSound
<1> QED
  BY <1>1, SizesAlwaysFit, CapacityStaysPower, PTL
-----------------------------------------------------------------------------
(* The circular order of the slots                                         *)

LEMMA ArcInTable ==
  ASSUME NEW c \in Nat, NEW h \in Slots(c), NEW s \in Slots(c)
  PROVE  Arc(h, s, c) \subseteq Slots(c)
  BY DEF Arc, Slots

LEMMA ArcStart ==
  ASSUME NEW c \in Nat, NEW h \in Slots(c)
  PROVE  Arc(h, h, c) = {}
  BY DEF Arc, Slots

LEMMA ArcGrows ==
  ASSUME NEW c \in Nat, NEW h \in Slots(c), NEW s \in Slots(c)
  PROVE  Arc(h, Succ(s, c), c) \subseteq Arc(h, s, c) \cup {s}
  BY DEF Arc, Slots, Succ

\* Of two slots one comes first on the way round from h.
LEMMA ArcTotal ==
  ASSUME NEW c \in Nat, NEW h \in Slots(c), NEW s \in Slots(c), NEW r \in Slots(c),
         s # r
  PROVE  r \in Arc(h, s, c) \/ s \in Arc(h, r, c)
  BY DEF Arc, Slots
-----------------------------------------------------------------------------
(* Sound tables                                                            *)

\* A search that passed no empty slot and not its key, and stands at an empty
\* slot, is for a key that is not there (strset_find_index, strset_add).
LEMMA AbsentAtEmptySlot ==
  ASSUME hash \in HashFns, NEW c \in Nat \ {0}, NEW t \in Table(c), Sound(t, c),
         NEW k \in Key, NEW s \in Slots(c), t[s] = NoKey,
         \A r \in Arc(Home(k, c), s, c) : t[r] \notin {NoKey, k}
  PROVE  k \notin Contents(t)
<1> SUFFICES ASSUME NEW r \in Occupied(t), t[r] = k
             PROVE  FALSE
  BY DEF Contents
<1>1. r \in Slots(c) /\ r # s
  BY KeyAssumption DEF Occupied, Table
<1>2. Home(k, c) \in Slots(c)
  BY HomeInTable
<1>3. CASE r \in Arc(Home(k, c), s, c)
  BY <1>3
<1>4. CASE s \in Arc(Home(k, c), r, c)
  BY <1>4 DEF Sound
<1> QED
  BY <1>1, <1>2, <1>3, <1>4, ArcTotal

LEMMA EmptyTableSound ==
  ASSUME NEW c \in Nat
  PROVE  Sound(EmptyTable(c), c)
  BY EmptyTableIsEmpty DEF Sound

\* A new key at the end of a full way from its home leaves the table sound.
LEMMA PutSound ==
  ASSUME NEW c \in Nat, NEW t \in Table(c), Sound(t, c),
         NEW k \in Key, k \notin Contents(t), NEW s \in Slots(c), t[s] = NoKey,
         \A r \in Arc(Home(k, c), s, c) : t[r] # NoKey
  PROVE  Sound(Put(t, s, k), c)
<1> DEFINE u == Put(t, s, k)
<1>1. Occupied(u) = Occupied(t) \cup {s}
  BY PutKey
<1>2. u[s] = k /\ \A r \in Occupied(t) : u[r] = t[r]
  BY DEF Put, Occupied, Table
<1>3. \A r : t[r] # NoKey => u[r] # NoKey
  BY KeyAssumption DEF Put, Table
<1> HIDE DEF u
<1>4. \A r \in Occupied(t) : t[r] # k
  BY DEF Contents
<1>5. ASSUME NEW p \in Occupied(u), NEW r \in Occupied(u), u[p] = u[r]
      PROVE  p = r
  BY <1>1, <1>2, <1>4, <1>5 DEF Sound
<1>6. ASSUME NEW p \in Occupied(u), NEW r \in Arc(Home(u[p], c), p, c)
      PROVE  u[r] # NoKey
  <2>1. CASE p \in Occupied(t)
    BY <1>2, <1>3, <1>6, <2>1 DEF Sound
  <2>2. CASE p = s
    BY <1>2, <1>3, <1>6, <2>2
  <2> QED
    BY <1>1, <2>1, <2>2
<1>7. Sound(u, c)
  BY <1>5, <1>6 DEF Sound
<1> QED
  BY <1>7 DEF u
-----------------------------------------------------------------------------
(* The invariant                                                           *)

\* The search has passed only other keys.
PassedOver ==
  pc = "probe" =>
    \A r \in Arc(Home(call.key, capacity), index, capacity) :
      entries[r] \notin {NoKey, call.key}

\* The placement of entries[i] has passed only full slots.
PassedFull ==
  pc = "place" =>
    \A r \in Arc(Home(entries[i], newCapacity), index, newCapacity) :
      newEntries[r] # NoKey

Lookup == TableIsSound /\ RehashKeepsKeys /\ PassedOver /\ PassedFull

LEMMA LookupInit == Init => Lookup
<1> SUFFICES ASSUME Init PROVE Lookup
  OBVIOUS
<1> QED
  BY EmptyTableSound DEF Init, Lookup, TableIsSound, RehashKeepsKeys, PassedOver,
     PassedFull

\* The steps that leave the tables alone and end or refuse a call.
LEMMA LookupUnchanged ==
  ASSUME Lookup, UNCHANGED <<hash, entries, capacity>>,
         pc' \in {"idle", "nomem", "round", "alloc", "grow"}
  PROVE  Lookup'
  BY DEF Lookup, TableIsSound, RehashKeepsKeys, PassedOver, PassedFull, Sound, Home

\* The steps that start a search of a sound table.
LEMMA LookupStart ==
  ASSUME UNCHANGED hash, Typed', pc' = "probe",
         index' = Home(call.key, capacity)', Sound(entries', capacity')
  PROVE  Lookup'
<1>1. Home(call.key, capacity)' \in Slots(capacity')
  BY DEF Typed, TypeOK, Slots
<1>2. Arc(Home(call.key, capacity)', index', capacity') = {}
  BY <1>1, ArcStart DEF Typed, TypeOK
<1> QED
  BY <1>2 DEF Lookup, TableIsSound, RehashKeepsKeys, PassedOver, PassedFull, Sound,
     Home

LEMMA LookupNext == Typed /\ Typed' /\ Lookup /\ [Next]_vars => Lookup'
<1> SUFFICES ASSUME Typed, Typed', Lookup, [Next]_vars PROVE Lookup'
  OBVIOUS
<1>0. /\ capacity \in Nat /\ newCapacity \in Nat /\ i \in Nat
      /\ hash \in HashFns /\ entries \in Table(capacity)
      /\ Sound(entries, capacity)
  BY DEF Typed, TypeOK, Lookup, TableIsSound
<1>1. ASSUME NEW n \in Requests, CreateCall(n) PROVE Lookup'
  BY <1>1, LookupUnchanged DEF CreateCall, build, table
<1>2. CASE GiveUp
  BY <1>2, LookupUnchanged DEF GiveUp, Refuse, ReturnAs, build, table
<1>3. CASE Round
  BY <1>3, LookupUnchanged DEF Round, build, table
<1>4. CASE CreateAlloc
  <2>1. Sound(entries', capacity')
    BY <1>0, <1>4, EmptyTableSound DEF CreateAlloc
  <2> QED
    BY <1>4, <2>1 DEF CreateAlloc, ReturnAs, build, Lookup, TableIsSound,
       RehashKeepsKeys, PassedOver, PassedFull, Sound, Home
<1>5. ASSUME NEW k \in Key, ContainsCall(k) PROVE Lookup'
  <2>1. index' = Home(call.key, capacity)' /\ pc' = "probe" /\ UNCHANGED hash
    BY <1>5 DEF ContainsCall, StartProbe, build, table, Home
  <2>2. Sound(entries', capacity')
    BY <1>0, <1>5 DEF ContainsCall, table
  <2> QED
    BY <2>1, <2>2, LookupStart
<1>6. ASSUME NEW k \in Key, AddCall(k) PROVE Lookup'
  <2>1. CASE ~NeedsResize
    <3>1. index' = Home(call.key, capacity)' /\ pc' = "probe" /\ UNCHANGED hash
      BY <1>6, <2>1 DEF AddCall, StartProbe, build, table, Home
    <3>2. Sound(entries', capacity')
      BY <1>0, <1>6 DEF AddCall, table
    <3> QED
      BY <3>1, <3>2, LookupStart
  <2>2. CASE NeedsResize
    BY <1>6, <2>2, LookupUnchanged DEF AddCall, build, table
  <2> QED
    BY <2>1, <2>2
<1>7. CASE Advance
  <2>1. /\ call.key \in Key /\ capacity # 0 /\ index \in Slots(capacity)
        /\ entries[index] \notin {NoKey, call.key}
        /\ index' = Succ(index, capacity)
    BY <1>7 DEF Advance, Typed, TypeOK, Calls, Slots
  <2>2. Home(call.key, capacity) \in Slots(capacity)
    BY <1>0, <2>1, HomeInTable
  <2>3. \A r \in Arc(Home(call.key, capacity), index', capacity) :
          entries[r] \notin {NoKey, call.key}
    BY <1>0, <1>7, <2>1, <2>2, ArcGrows DEF Advance, Lookup, PassedOver
  <2> QED
    BY <1>7, <2>3 DEF Advance, build, table, Lookup, TableIsSound, RehashKeepsKeys,
       PassedOver, PassedFull, Sound, Home
<1>8. CASE Found
  BY <1>8, LookupUnchanged DEF Found, ReturnAs, build, table
<1>9. CASE Absent
  BY <1>9, LookupUnchanged DEF Absent, ReturnAs, build, table
<1>10. CASE Insert
  <2>1. /\ call.key \in Key /\ capacity # 0 /\ index \in Slots(capacity)
        /\ entries[index] = NoKey
        /\ entries' = Put(entries, index, call.key)
    BY <1>10 DEF Insert, Typed, TypeOK, Calls, Slots, Put
  <2>2. \A r \in Arc(Home(call.key, capacity), index, capacity) :
          entries[r] \notin {NoKey, call.key}
    BY <1>10 DEF Insert, Lookup, PassedOver
  <2>3. call.key \notin Contents(entries)
    BY <1>0, <2>1, <2>2, AbsentAtEmptySlot
  <2>4. Sound(entries', capacity)
    BY <1>0, <2>1, <2>2, <2>3, PutSound
  <2> QED
    BY <1>10, <2>4 DEF Insert, ReturnAs, build, Lookup, TableIsSound,
       RehashKeepsKeys, PassedOver, PassedFull, Sound, Home
<1>11. CASE InsertFails
  BY <1>11, LookupUnchanged DEF InsertFails, Refuse, ReturnAs, build, table
<1>12. CASE GrowAlloc
  <2>1. Sound(newEntries', newCapacity) /\ Contents(newEntries') = {}
    BY <1>0, <1>12, EmptyTableSound, EmptyTableIsEmpty DEF GrowAlloc
  <2>2. Visited' = {}
    BY <1>0, <1>12 DEF GrowAlloc, table, Visited, Occupied, Table, Slots
  <2> QED
    BY <1>12, <2>1, <2>2 DEF GrowAlloc, build, table, Lookup, TableIsSound,
       RehashKeepsKeys, PassedOver, PassedFull, Sound, Home, Visited
<1>13. CASE RehashSlot
  <2>1. CASE entries[i] = NoKey
    <3>1. Visited' = Visited
      BY <1>0, <1>13, <2>1 DEF RehashSlot, table, Visited, Occupied, Table, Slots
    <3> QED
      BY <1>13, <2>1, <3>1 DEF RehashSlot, build, table, Lookup, TableIsSound,
         RehashKeepsKeys, PassedOver, PassedFull, Sound, Home, Visited
  <2>2. CASE entries[i] # NoKey
    <3>1. Home(entries[i], newCapacity) \in Slots(newCapacity)
      BY <1>0, <1>13, <2>2, HomeInTable DEF RehashSlot, Typed, TypeOK, Table, Slots
    <3>2. Arc(Home(entries[i], newCapacity), index', newCapacity) = {}
      BY <1>0, <1>13, <2>2, <3>1, ArcStart DEF RehashSlot
    <3> QED
      BY <1>13, <2>2, <3>2 DEF RehashSlot, build, table, Lookup, TableIsSound,
         RehashKeepsKeys, PassedOver, PassedFull, Sound, Home
  <2> QED
    BY <2>1, <2>2
<1>14. CASE PlaceAdvance
  <2>1. /\ entries[i] \in Key /\ newCapacity # 0 /\ index \in Slots(newCapacity)
        /\ newEntries[index] # NoKey
        /\ index' = Succ(index, newCapacity)
    BY <1>0, <1>14 DEF PlaceAdvance, Typed, TypeOK, Table, Slots
  <2>2. Home(entries[i], newCapacity) \in Slots(newCapacity)
    BY <1>0, <2>1, HomeInTable
  <2>3. \A r \in Arc(Home(entries[i], newCapacity), index', newCapacity) :
          newEntries[r] # NoKey
    BY <1>0, <1>14, <2>1, <2>2, ArcGrows DEF PlaceAdvance, Lookup, PassedFull
  <2> QED
    BY <1>14, <2>3 DEF PlaceAdvance, build, table, Lookup, TableIsSound,
       RehashKeepsKeys, PassedOver, PassedFull, Sound, Home
<1>15. CASE Place
  <2>1. /\ entries[i] \in Key /\ index \in Slots(newCapacity)
        /\ newEntries \in Table(newCapacity) /\ Sound(newEntries, newCapacity)
        /\ newEntries[index] = NoKey /\ i \in Occupied(entries)
        /\ newEntries' = Put(newEntries, index, entries[i])
    BY <1>0, <1>15 DEF Place, Typed, TypeOK, Table, Slots, Put, Occupied, Lookup,
       TableIsSound
  <2>2. Contents(newEntries) = {entries[s] : s \in Visited}
    BY <1>15 DEF Place, Lookup, RehashKeepsKeys, Visited
  <2>3. entries[i] \notin Contents(newEntries)
    BY <1>0, <2>1, <2>2 DEF Sound, Visited, Occupied, Table, Slots
  <2>4. \A r \in Arc(Home(entries[i], newCapacity), index, newCapacity) :
          newEntries[r] # NoKey
    BY <1>15 DEF Place, Lookup, PassedFull
  <2>5. Sound(newEntries', newCapacity)
    BY <1>0, <2>1, <2>3, <2>4, PutSound
  <2>6. Contents(newEntries') = Contents(newEntries) \cup {entries[i]}
    BY <1>0, <2>1, PutKey
  <2>7. Visited' = Visited \cup {i}
    BY <1>0, <1>15, <2>1 DEF Place, table, Visited, Occupied, Table, Slots
  <2>8. Contents(newEntries') = {entries[s] : s \in Visited'}
    BY <2>2, <2>6, <2>7
  <2>9. TableIsSound'
    BY <1>15, <2>5 DEF Place, build, table, Lookup, TableIsSound, Sound, Home
  <2>10. RehashKeepsKeys'
    BY <1>15, <2>8 DEF Place, table, RehashKeepsKeys, Visited
  <2> QED
    BY <1>15, <2>9, <2>10 DEF Place, Lookup, PassedOver, PassedFull
<1>16. CASE SwapTables
  <2>1. index' = Home(call.key, capacity)' /\ pc' = "probe" /\ UNCHANGED hash
    BY <1>16 DEF SwapTables, StartProbe, build, Home
  <2>2. Sound(entries', capacity')
    BY <1>16 DEF SwapTables, Lookup, TableIsSound
  <2> QED
    BY <2>1, <2>2, LookupStart
<1>17. CASE NullCall
  BY <1>17, LookupUnchanged DEF NullCall, build, table
<1>18. CASE GetCount
  BY <1>18, LookupUnchanged DEF GetCount, build, table
<1>19. CASE Destroy
  <2>1. Sound(entries', capacity')
    BY <1>19, EmptyTableSound DEF Destroy
  <2> QED
    BY <1>19, <2>1 DEF Destroy, build, Lookup, TableIsSound, RehashKeepsKeys,
       PassedOver, PassedFull, Sound, Home
<1>20. CASE UNCHANGED vars
  BY <1>20 DEF vars, build, table, loops, Lookup, TableIsSound, RehashKeepsKeys,
     PassedOver, PassedFull, Sound, Home
<1> QED
  BY <1>1, <1>2, <1>3, <1>4, <1>5, <1>6, <1>7, <1>8, <1>9, <1>10, <1>11, <1>12,
     <1>13, <1>14, <1>15, <1>16, <1>17, <1>18, <1>19, <1>20 DEF Next, Step, Caller

LEMMA LookupAlways == Spec => [](Typed /\ Lookup)
<1>1. Init => Typed /\ Lookup
  BY TypeInit, LookupInit
<1>2. Typed /\ Lookup /\ [Next]_vars => (Typed /\ Lookup)'
  BY TypeNext, LookupNext
<1> QED
  BY <1>1, <1>2, PTL DEF Spec

\* No key is twice in the table and none is cut off from its home by an empty
\* slot: in the table in use and in the one a resize is filling (strset_add,
\* strset_resize).
THEOREM TableStaysSound == Spec => []TableIsSound
  BY LookupAlways, PTL DEF Lookup

\* A resize loses no key and invents none (strset_resize).
THEOREM RehashLosesNothing == Spec => []RehashKeepsKeys
  BY LookupAlways, PTL DEF Lookup
-----------------------------------------------------------------------------
\* A call in progress is one its caller could make: strset_create without a
\* set, the others with one; and strset_contains asks for no memory.
CallFits ==
  /\ call # NoCall => (live <=> call.op # "create")
  /\ pc = "nomem" => call.op # "contains"

LEMMA CallFitsInit == Init => CallFits
  BY DEF Init, CallFits

LEMMA CallFitsNext == Typed /\ CallFits /\ [Next]_vars => CallFits'
<1> SUFFICES ASSUME Typed, CallFits, [Next]_vars PROVE CallFits'
  OBVIOUS
<1> USE DEF Typed, TypeOK, CallFits
<1>1. ASSUME NEW n \in Requests, CreateCall(n) PROVE CallFits'
  BY <1>1 DEF CreateCall, table
<1>2. ASSUME NEW k \in Key, ContainsCall(k) PROVE CallFits'
  BY <1>2 DEF ContainsCall, StartProbe, table
<1>3. ASSUME NEW k \in Key, AddCall(k) PROVE CallFits'
  BY <1>3 DEF AddCall, StartProbe, table
<1>4. CASE GiveUp \/ CreateAlloc \/ Found \/ Absent \/ Insert \/ InsertFails
  BY <1>4 DEF GiveUp, CreateAlloc, Found, Absent, Insert, InsertFails, Refuse, ReturnAs
<1>5. CASE Round \/ Advance \/ GrowAlloc \/ RehashSlot \/ PlaceAdvance \/ Place
  BY <1>5 DEF Round, Advance, GrowAlloc, RehashSlot, PlaceAdvance, Place, table
<1>6. CASE SwapTables
  BY <1>6 DEF SwapTables, StartProbe
<1>7. CASE NullCall \/ GetCount \/ Destroy \/ UNCHANGED vars
  BY <1>7 DEF NullCall, GetCount, Destroy, vars, table
<1> QED
  BY <1>1, <1>2, <1>3, <1>4, <1>5, <1>6, <1>7 DEF Next, Step, Caller

IInv == Typed /\ Load /\ Lookup /\ CallFits

LEMMA IInvAlways == Spec => []IInv
<1>1. Init => IInv
  BY TypeInit, LoadInit, LookupInit, CallFitsInit DEF IInv
<1>2. IInv /\ [Next]_vars => IInv'
  BY TypeNext, LoadNext, LookupNext, CallFitsNext DEF IInv
<1> QED
  BY <1>1, <1>2, PTL DEF Spec
-----------------------------------------------------------------------------
\* No key is in two slots, so there are as many keys as full slots.
LEMMA AsManyKeysAsSlots ==
  ASSUME NEW c \in Nat, NEW t \in Table(c), Sound(t, c)
  PROVE  Cardinality(Contents(t)) = Cardinality(Occupied(t))
<1> DEFINE f == [s \in Occupied(t) |-> t[s]]
<1>1. f \in Surjection(Occupied(t), Contents(t))
  BY DEF Surjection, Contents
<1>2. f \in Injection(Occupied(t), Contents(t))
  BY <1>1 DEF Injection, IsInjective, Surjection, Contents, Sound
<1>3. IsFiniteSet(Occupied(t))
  BY OccupiedIsFinite
<1> HIDE DEF f
<1> QED
  BY <1>1, <1>2, <1>3, FS_Surjection

\* The set's specification and the table's count alike: each has the
\* Cardinality of FiniteSets under a name of its own.
LEMMA SameCardinality == \A S : Abs!Cardinality(S) = Cardinality(S)
  BY DEF Cardinality, Abs!Cardinality

LEMMA NoTableNoMembers == IInv /\ ~live => Contents(entries) = {}
  BY DEF IInv, Typed, TypeOK, Table, Slots, Contents, Occupied

\* At the slot where a search ends it knows whether its key is there.
LEMMA SearchIsRight ==
  ASSUME IInv, pc = "probe"
  PROVE  /\ entries[index] = call.key => call.key \in Contents(entries)
         /\ entries[index] = NoKey => call.key \notin Contents(entries)
<1>1. /\ hash \in HashFns /\ capacity \in Nat \ {0} /\ entries \in Table(capacity)
      /\ Sound(entries, capacity) /\ call.key \in Key /\ index \in Slots(capacity)
  BY DEF IInv, Typed, TypeOK, Calls, Slots, Lookup, TableIsSound
<1>2. entries[index] = call.key => index \in Occupied(entries)
  BY <1>1, KeyAssumption DEF Occupied, Table
<1>3. entries[index] = call.key => call.key \in Contents(entries)
  BY <1>2 DEF Contents
<1>4. \A r \in Arc(Home(call.key, capacity), index, capacity) :
        entries[r] \notin {NoKey, call.key}
  BY DEF IInv, Lookup, PassedOver
<1> QED
  BY <1>1, <1>3, <1>4, AbsentAtEmptySlot
-----------------------------------------------------------------------------
(* The refinement                                                          *)

LEMMA ImplInit == Init => Abs!AbsInit
  BY EmptyTableIsEmpty DEF Init, Abs!AbsInit

LEMMA ImplNext == IInv /\ IInv' /\ [Next]_vars => [Abs!AbsNext]_(Abs!absVars)
<1> SUFFICES ASSUME IInv, IInv', [Next]_vars
             PROVE  Abs!AbsNext \/ UNCHANGED Abs!absVars
  OBVIOUS
<1> DEFINE stutter == UNCHANGED <<live, Contents(entries), call, oom, result>>
<1>a. stutter => UNCHANGED Abs!absVars
  BY DEF Abs!absVars
<1>b. /\ capacity \in Nat /\ entries \in Table(capacity) /\ live \in BOOLEAN
      /\ call # NoCall => call \in Calls
      /\ call # NoCall => (live <=> call.op # "create")
  BY DEF IInv, Typed, TypeOK, CallFits
<1>1. ASSUME NEW n \in Requests, CreateCall(n) PROVE Abs!AbsNext
  <2> DEFINE c == [op |-> "create", key |-> NoCall]
  <2>1. c \in Abs!Calls
    BY DEF Abs!Calls
  <2>2. call = NoCall
    BY <1>1 DEF CreateCall, IInv, Typed, TypeOK
  <2>3. Abs!Invoke(c)
    BY <1>1, <2>2, <1>b DEF CreateCall, table, Abs!Invoke
  <2> QED
    BY <2>1, <2>3 DEF Abs!AbsNext
<1>2. ASSUME NEW k \in Key, ContainsCall(k) PROVE Abs!AbsNext
  <2> DEFINE c == [op |-> "contains", key |-> k]
  <2>1. c \in Abs!Calls
    BY DEF Abs!Calls
  <2>2. call = NoCall
    BY <1>2 DEF ContainsCall, IInv, Typed, TypeOK
  <2>3. Abs!Invoke(c)
    BY <1>2, <2>2, <1>b DEF ContainsCall, table, Abs!Invoke
  <2> QED
    BY <2>1, <2>3 DEF Abs!AbsNext
<1>3. ASSUME NEW k \in Key, AddCall(k) PROVE Abs!AbsNext
  <2> DEFINE c == [op |-> "add", key |-> k]
  <2>1. c \in Abs!Calls
    BY DEF Abs!Calls
  <2>2. call = NoCall
    BY <1>3 DEF AddCall, IInv, Typed, TypeOK
  <2>3. Abs!Invoke(c)
    BY <1>3, <2>2, <1>b DEF AddCall, table, Abs!Invoke
  <2> QED
    BY <2>1, <2>3 DEF Abs!AbsNext
<1>4. ASSUME Refuse, call # NoCall, call.op # "contains" PROVE Abs!AbsNext
  <2>1. /\ call' = NoCall /\ result' = 0 /\ oom' = TRUE
        /\ live' = live /\ entries' = entries
    BY <1>4 DEF Refuse, ReturnAs, table
  <2>2. CASE call.op = "create"
    <3>1. Contents(entries) = {} /\ live' = FALSE
      BY <1>b, <1>4, <2>1, <2>2, NoTableNoMembers
    <3>2. Abs!ReturnCreate
      BY <1>4, <2>1, <2>2, <3>1 DEF Abs!ReturnCreate, Abs!CBool
    <3> QED
      BY <3>2 DEF Abs!AbsNext
  <2>3. CASE call.op = "add"
    <3>1. Abs!ReturnAdd
      BY <1>4, <2>1, <2>3 DEF Abs!ReturnAdd, Abs!AddTo, Abs!CBool
    <3> QED
      BY <3>1 DEF Abs!AbsNext
  <2> QED
    BY <1>b, <1>4, <2>2, <2>3 DEF Calls
<1>5. CASE GiveUp
  <2>1. Refuse /\ call # NoCall /\ call.op # "contains"
    BY <1>5 DEF GiveUp, IInv, Typed, TypeOK, CallFits
  <2> QED
    BY <1>4, <2>1
<1>6. CASE CreateAlloc
  <2>1. call # NoCall /\ call.op = "create"
    BY <1>6 DEF CreateAlloc, IInv, Typed, TypeOK
  <2>2. /\ call' = NoCall /\ result' = 1 /\ oom' = FALSE /\ live' = TRUE
        /\ Contents(entries') = {}
    BY <1>6, EmptyTableIsEmpty DEF CreateAlloc, ReturnAs, IInv, Typed, TypeOK
  <2>3. Abs!ReturnCreate
    BY <2>1, <2>2 DEF Abs!ReturnCreate, Abs!CBool
  <2> QED
    BY <2>3 DEF Abs!AbsNext
<1>7. CASE Found
  <2>1. /\ call # NoCall /\ call.op \in {"add", "contains"}
        /\ call.key \in Contents(entries)
    BY <1>7, SearchIsRight DEF Found, IInv, Typed, TypeOK, Calls
  <2>2. /\ call' = NoCall /\ oom' = FALSE /\ live' = live /\ entries' = entries
        /\ result' = CBool(call.op = "contains")
    BY <1>7 DEF Found, ReturnAs, table
  <2>3. call.op = "contains" => Abs!ReturnContains
    BY <2>1, <2>2 DEF Abs!ReturnContains, Abs!CBool, CBool
  <2>4. call.op = "add" => Abs!ReturnAdd
    BY <2>1, <2>2 DEF Abs!ReturnAdd, Abs!AddTo, Abs!CBool, CBool
  <2> QED
    BY <2>1, <2>3, <2>4 DEF Abs!AbsNext
<1>8. CASE Absent
  <2>1. /\ call # NoCall /\ call.op = "contains"
        /\ call.key \notin Contents(entries)
    BY <1>8, SearchIsRight DEF Absent, IInv, Typed, TypeOK
  <2>2. /\ call' = NoCall /\ oom' = FALSE /\ live' = live /\ entries' = entries
        /\ result' = 0
    BY <1>8 DEF Absent, ReturnAs, table
  <2>3. Abs!ReturnContains
    BY <2>1, <2>2 DEF Abs!ReturnContains, Abs!CBool
  <2> QED
    BY <2>3 DEF Abs!AbsNext
<1>9. CASE Insert
  <2>1. /\ call # NoCall /\ call.op = "add" /\ call.key \in Key
        /\ index \in Slots(capacity)
        /\ call.key \notin Contents(entries)
    BY <1>9, SearchIsRight DEF Insert, IInv, Typed, TypeOK, Calls, Slots
  <2>2. entries[index] = NoKey /\ entries' = Put(entries, index, call.key)
    BY <1>9 DEF Insert, Put
  <2>3. Contents(entries') = Contents(entries) \cup {call.key}
    BY <1>b, <2>1, <2>2, PutKey
  <2>4. call' = NoCall /\ oom' = FALSE /\ live' = live /\ result' = 1
    BY <1>9 DEF Insert, ReturnAs
  <2>5. Abs!ReturnAdd
    BY <2>1, <2>3, <2>4 DEF Abs!ReturnAdd, Abs!AddTo, Abs!CBool
  <2> QED
    BY <2>5 DEF Abs!AbsNext
<1>10. CASE InsertFails
  <2>1. Refuse /\ call # NoCall /\ call.op # "contains"
    BY <1>10 DEF InsertFails, IInv, Typed, TypeOK
  <2> QED
    BY <1>4, <2>1
<1>11. CASE Round \/ Advance \/ GrowAlloc \/ RehashSlot \/ PlaceAdvance \/ Place
  <2>1. stutter
    BY <1>11 DEF Round, Advance, GrowAlloc, RehashSlot, PlaceAdvance, Place, table
  <2> QED
    BY <1>a, <2>1
<1>12. CASE SwapTables
  <2>1. Visited = Occupied(entries)
    BY <1>b, <1>12 DEF SwapTables, Visited, Occupied, Table, Slots
  <2>2. Contents(newEntries) = Contents(entries)
    BY <1>12, <2>1 DEF SwapTables, IInv, Lookup, RehashKeepsKeys, Visited, Contents
  <2>3. stutter
    BY <1>12, <2>2 DEF SwapTables
  <2> QED
    BY <1>a, <2>3
<1>13. CASE NullCall
  <2>1. call = NoCall
    BY <1>13 DEF NullCall, IInv, Typed, TypeOK
  <2>2. Abs!OnNull
    BY <1>13, <2>1 DEF NullCall, table, Abs!OnNull
  <2> QED
    BY <2>2 DEF Abs!AbsNext
<1>14. CASE GetCount
  <2>1. call = NoCall
    BY <1>14 DEF GetCount, IInv, Typed, TypeOK
  <2>2. count = Cardinality(Contents(entries))
    BY <1>b, AsManyKeysAsSlots DEF IInv, Load, LoadIsBounded, Lookup, TableIsSound
  <2>3. /\ live /\ UNCHANGED <<live, entries, call>>
        /\ result' = count /\ oom' = FALSE
    BY <1>14 DEF GetCount, table
  <2>4. Abs!Count
    BY <2>1, <2>2, <2>3, SameCardinality DEF Abs!Count
  <2> QED
    BY <2>4 DEF Abs!AbsNext
<1>15. CASE Destroy
  <2>1. call = NoCall
    BY <1>15 DEF Destroy, IInv, Typed, TypeOK
  <2>2. Abs!Destroy
    BY <1>15, <2>1, EmptyTableIsEmpty DEF Destroy, Abs!Destroy
  <2> QED
    BY <2>2 DEF Abs!AbsNext
<1>16. CASE UNCHANGED vars
  <2>1. stutter
    BY <1>16 DEF vars, table
  <2> QED
    BY <1>a, <2>1
<1> QED
  BY <1>1, <1>2, <1>3, <1>5, <1>6, <1>7, <1>8, <1>9, <1>10, <1>11, <1>12, <1>13,
     <1>14, <1>15, <1>16 DEF Next, Step, Caller

\* The hash table is a set: every behaviour of hashtable.c, with any hash
\* function and any failures of the allocator, is one of StringSetSpec.
THEOREM TableImplementsSet == Spec => ImplementsSet
<1>1. IInv /\ IInv' /\ [Next]_vars => [Abs!AbsNext]_(Abs!absVars)
  BY ImplNext
<1> QED
  BY <1>1, ImplInit, IInvAlways, PTL DEF Spec, ImplementsSet, Abs!AbsSpec
=============================================================================
