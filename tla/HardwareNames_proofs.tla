------------------------- MODULE HardwareNames_proofs -------------------------
(***************************************************************************)
(* Proofs about the ID parser, its trees and their two clients, for every   *)
(* database, every list of queries and every pattern of failing allocations.*)
(*                                                                         *)
(* The inductive invariant has these parts:                                 *)
(*   Shape     the types, and that no class has been passed;                *)
(*   Forest    below each root hangs a chain of pointers, which holds the   *)
(*             devices of that vendor line in the order of the file;        *)
(*   Branch    devices are given to the last vendor line, or to none;       *)
(*   Asked     what is stored was asked for, and each answer is recorded;   *)
(*   Complete  what was asked for and has been passed is stored, unless     *)
(*             memory was short;                                            *)
(*   Client    where the caller is, and what it has by then.                *)
(***************************************************************************)
EXTENDS HardwareNames, Facts, FiniteSetTheorems, SequenceTheorems, TLAPS

Tops == {roots[j] : j \in DOMAIN roots} \cup lost
Children == DOMAIN heap \ Tops
ChildrenOf(r) == {p \in Children : SectionOf(p) = r}
Pair(p) == [vendor |-> db[SectionOf(p)].id, device |-> db[p].id]
Node == [id : Nat, first : Nat, last : Nat, next : Nat]
Asks == IF queries = Full THEN {} ELSE DOMAIN queries

\* s is the list that begins at r.first: all that belongs to r, in order.
Chain(r, s) ==
  /\ s \in Seq(ChildrenOf(r))
  /\ \A p \in ChildrenOf(r) : \E j \in DOMAIN s : s[j] = p
  /\ \A j, k \in DOMAIN s : j < k => s[j] < s[k]
  /\ heap[r].first = IF s = <<>> THEN Null ELSE s[1]
  /\ heap[r].last = IF s = <<>> THEN Null ELSE s[Len(s)]
  /\ \A j \in DOMAIN s : heap[s[j]].next = IF j = Len(s) THEN Null ELSE s[j + 1]

Shape ==
  /\ db \in Seq(LineOfIds)
  /\ queries \in Seq(Cards) \cup {Full}
  /\ phase \in {"idle", "lines", "parsed", "failed"}
  /\ pos \in 1 .. Len(db) + 1
  /\ branch \in Nat
  /\ resolved \subseteq Asks
  /\ remaining \in Nat
  /\ heap \in [DOMAIN heap -> Node]
  /\ roots \in Seq(Nat)
  /\ room \in Nat
  /\ failures \in Nat
  /\ \A q \in 1 .. pos - 1 : ~IsClass(db[q])

Forest ==
  /\ DOMAIN heap \subseteq 1 .. pos - 1
  /\ Tops \subseteq DOMAIN heap
  /\ Len(roots) <= room
  /\ \A p \in DOMAIN heap : heap[p].id = db[p].id
  /\ \A j, k \in DOMAIN roots : j < k => roots[j] < roots[k]
  /\ \A j \in DOMAIN roots : roots[j] \notin lost
  /\ \A r \in Tops : IsVendor(db[r]) /\ \E s : Chain(r, s)
  /\ \A p \in Children : IsDevice(db[p]) /\ SectionOf(p) \in Tops

Branch ==
  phase = "lines" => branch = Null \/ (branch \in Tops /\ branch = SectionOf(pos))

Asked ==
  queries # Full =>
    /\ phase # "failed" => remaining = Cardinality(Unresolved)
    /\ phase = "lines" => remaining > 0
    /\ \A r \in Tops : \E q \in DOMAIN queries : queries[q].vendor = db[r].id
    /\ \A p \in Children :
         /\ \E q \in DOMAIN queries : queries[q] = Pair(p)
         /\ \A q \in DOMAIN queries : queries[q] = Pair(p) => q \in resolved
         /\ \A p2 \in Children : Pair(p) = Pair(p2) => p = p2

\* The first line of its vendor, and under that one the first of its device.
IsFirstVendor(p) ==
  IsVendor(db[p]) /\ \A q \in 1 .. p - 1 : IsVendor(db[q]) => db[q].id # db[p].id
IsFirstDevice(p) ==
  /\ IsDevice(db[p])
  /\ SectionOf(p) # Null /\ IsFirstVendor(SectionOf(p))
  /\ \A q \in 1 .. p - 1 :
       IsDevice(db[q]) /\ SectionOf(q) = SectionOf(p) => db[q].id # db[p].id

Roots == {roots[j] : j \in DOMAIN roots}

VendorAsked(v) == queries = Full \/ \E q \in DOMAIN queries : queries[q].vendor = v
PairAsked(x) == queries = Full \/ \E q \in DOMAIN queries : queries[q] = x

\* An answered query has been passed at its vendor, and at its device if any.
Answered ==
  \A q \in resolved :
    /\ \E r \in 1 .. pos - 1 : IsVendor(db[r]) /\ db[r].id = queries[q].vendor
    /\ \A p \in Body : IsFirstDevice(p) /\ Pair(p) = queries[q] => p < pos

Stored ==
  failures = 0 /\ pc = "parse" =>
    /\ lost = {}
    /\ phase = "lines" => (SectionOf(pos) \in Roots => branch = SectionOf(pos))
    /\ \A p \in 1 .. pos - 1 :
         /\ IsFirstVendor(p) /\ VendorAsked(db[p].id) => p \in Roots
         /\ IsFirstDevice(p) /\ PairAsked(Pair(p)) => p \in DOMAIN heap

Ended ==
  phase = "parsed" => (\A p \in Body : p < pos) \/ (queries # Full /\ Unresolved = {})

Complete == Answered /\ Stored /\ Ended

Names == [vendor : DOMAIN db \cup {Null}, device : DOMAIN db \cup {Null},
          part : Nat, raw : Nat]

Client ==
  /\ pc \in {"cards", "ask", "parse", "print", "cleanup", "done"}
  /\ pc \in {"cards", "ask"} => phase = "idle"
  /\ pc = "parse" => phase # "idle"
  /\ phase = "lines" => pc = "parse" /\ room # 0
  /\ phase \in {"idle", "failed"} =>
       /\ pos = 1 /\ heap = NoForest /\ roots = <<>> /\ lost = {} /\ resolved = {}
       /\ room = 0
  /\ phase = "idle" => remaining = 0 /\ queries = <<>> /\ branch = Null
  /\ phase \in {"idle", "lines"} => names = <<>>
  /\ pc = "done" => roots = <<>>
  /\ list \in Seq(Cards)
  /\ names \in Seq(Names)
  /\ client \in {"gpu", "arm"}
  /\ client = "gpu" =>
       /\ pc = "ask" => list # <<>>
       /\ pc = "cards" => printed = <<>>
       /\ pc \in {"parse", "print"} => queries = Kept
       /\ pc = "parse" => names = <<>>
       /\ pc \in {"print", "cleanup", "done"} => Len(names) = Len(Kept)
       /\ pc \in {"cleanup", "done"} => printed = FormatDuplicates(names)
  /\ client = "arm" =>
       /\ pc \notin {"cards", "print"}
       /\ pc # "ask" => queries = Full
       /\ pc = "ask" => list = <<>>
       /\ Len(names) = Len(list)

IInv ==
  /\ Shape /\ Forest /\ Branch /\ Asked /\ Complete /\ Client
  /\ NamesAreTrue /\ NamesAreComplete
-----------------------------------------------------------------------------
(* The lines                                                               *)

LEMMA LineTypes ==
  ASSUME db \in Seq(LineOfIds), NEW p \in DOMAIN db
  PROVE  /\ p \in Nat /\ 1 <= p /\ p <= Len(db) /\ p # Null
         /\ db[p].lead \in {"#", "C", "other"} /\ db[p].tabs \in Nat
         /\ db[p].digits \in Nat /\ db[p].id \in Nat
         /\ ~ (IsVendor(db[p]) /\ IsDevice(db[p]))
         /\ IsVendor(db[p]) \/ IsDevice(db[p]) => ~IsClass(db[p])
         /\ ~IsClass(db[p]) => IsVendor(db[p]) \/ IsDevice(db[p]) \/ IsSkipped(db[p])
<1>1. db[p] \in LineOfIds
  OBVIOUS
<1>2. p \in Nat /\ 1 <= p /\ p <= Len(db) /\ p # Null
  BY DEF Null
<1> QED
  BY <1>1, <1>2 DEF LineOfIds, IsVendor, IsDevice, IsClass, IsSkipped

LEMMA BodyLines ==
  ASSUME db \in Seq(LineOfIds)
  PROVE  /\ Body \subseteq DOMAIN db /\ DOMAIN db = 1 .. Len(db) /\ Len(db) \in Nat
         /\ \A p \in Body : \A q \in 1 .. p : q \in Body
  BY DEF Body

\* The section of a line is the last vendor line before it.
LEMMA SectionIs ==
  ASSUME db \in Seq(LineOfIds), NEW p \in Nat
  PROVE  /\ SectionOf(p) \in Nat
         /\ SectionOf(p) = Null => \A q \in Body : q < p => ~IsVendor(db[q])
         /\ SectionOf(p) # Null =>
              /\ SectionOf(p) \in Body /\ SectionOf(p) < p /\ IsVendor(db[SectionOf(p)])
              /\ \A q \in Body : q < p /\ IsVendor(db[q]) => q <= SectionOf(p)
<1> DEFINE above == {q \in Body : q < p /\ IsVendor(db[q])}
<1>1. SectionOf(p) = IF above = {} THEN Null ELSE Max(above)
  BY DEF SectionOf
<1>2. CASE above = {}
  BY <1>1, <1>2 DEF Null
<1>3. CASE above # {}
  <2>1. above \subseteq 0 .. p /\ above \subseteq Body /\ Body \subseteq 1 .. Len(db)
    BY BodyLines
  <2>2. Max(above) \in above /\ \A q \in above : q <= Max(above)
    <3> HIDE DEF above
    <3> QED
      BY <1>3, <2>1, MaxIsGreatest
  <2>3. SectionOf(p) = Max(above)
    BY <1>1, <1>3
  <2>4. SectionOf(p) \in above /\ \A q \in above : q <= SectionOf(p)
    BY <2>2, <2>3
  <2>5. SectionOf(p) \in Nat /\ SectionOf(p) # Null
    BY <2>1, <2>4 DEF Null
  <2> QED
    BY <2>4, <2>5
<1> QED
  BY <1>2, <1>3

LEMMA SectionUnique ==
  ASSUME db \in Seq(LineOfIds), NEW p \in Nat, NEW r \in Body, r < p, IsVendor(db[r]),
         \A q \in Body : q < p /\ IsVendor(db[q]) => q <= r
  PROVE  SectionOf(p) = r
<1>1. SectionOf(p) # Null
  BY SectionIs
<1>2. /\ SectionOf(p) \in Body /\ SectionOf(p) < p /\ IsVendor(db[SectionOf(p)])
      /\ r <= SectionOf(p)
  BY <1>1, SectionIs
<1>3. SectionOf(p) <= r
  BY <1>2
<1>4. r \in Nat /\ SectionOf(p) \in Nat
  BY BodyLines, SectionIs
<1> QED
  BY <1>2, <1>3, <1>4

\* When one more line has been read.
LEMMA NextSection ==
  ASSUME Shape, Reading, ~IsClass(Line)
  PROVE  /\ pos \in Body /\ pos \in DOMAIN db /\ pos # Null /\ pos + 1 \in Nat
         /\ 1 .. pos \subseteq Body
         /\ SectionOf(pos + 1) = IF IsVendor(Line) THEN pos ELSE SectionOf(pos)
<1>1. /\ db \in Seq(LineOfIds) /\ pos \in 1 .. Len(db) /\ ~IsClass(db[pos])
      /\ \A q \in 1 .. pos - 1 : ~IsClass(db[q])
  BY DEF Shape, Reading, Line
<1>2. 1 .. pos \subseteq Body /\ pos \in DOMAIN db /\ pos \in Body
  <2>1. \A q \in 1 .. pos : q \in 1 .. pos - 1 \/ q = pos
    BY <1>1
  <2>2. DOMAIN db = 1 .. Len(db)
    BY <1>1
  <2> QED
    BY <1>1, <2>1, <2>2 DEF Body
<1>3. Body \subseteq Nat /\ pos \in Nat
  BY <1>1, BodyLines
<1>4. CASE IsVendor(Line)
  <2>1. \A q \in Body : q < pos + 1 /\ IsVendor(db[q]) => q <= pos
    BY <1>3
  <2> QED
    BY <1>1, <1>2, <1>3, <1>4, <2>1, SectionUnique DEF Line, Null
<1>5. CASE ~IsVendor(Line)
  <2>1. \A q \in Body : q < pos + 1 /\ IsVendor(db[q]) => q < pos
    BY <1>3, <1>5 DEF Line
  <2>2. CASE SectionOf(pos) = Null
    <3>1. \A q \in Body : q < pos + 1 => ~IsVendor(db[q])
      BY <1>1, <1>3, <2>1, <2>2, SectionIs
    <3>2. SectionOf(pos + 1) = Null
      <4>1. pos + 1 \in Nat
        BY <1>3
      <4> QED
        BY <1>1, <3>1, <4>1, SectionIs
    <3> QED
      BY <1>1, <1>2, <1>3, <1>5, <2>2, <3>2 DEF Null
  <2>3. CASE SectionOf(pos) # Null
    <3>1. /\ SectionOf(pos) \in Body /\ SectionOf(pos) < pos
          /\ IsVendor(db[SectionOf(pos)])
          /\ \A q \in Body : q < pos /\ IsVendor(db[q]) => q <= SectionOf(pos)
      BY <1>1, <1>3, <2>3, SectionIs
    <3>2. SectionOf(pos) < pos + 1 /\ pos + 1 \in Nat
      <4>1. SectionOf(pos) \in Nat /\ pos \in Nat
        BY <1>3, <3>1
      <4> QED
        BY <3>1, <4>1
    <3>3. \A q \in Body : q < pos + 1 /\ IsVendor(db[q]) => q <= SectionOf(pos)
      BY <2>1, <3>1
    <3>4. SectionOf(pos + 1) = SectionOf(pos)
      BY <1>1, <3>1, <3>2, <3>3, SectionUnique
    <3> QED
      BY <1>1, <1>2, <1>3, <1>5, <3>4 DEF Null
  <2> QED
    BY <2>2, <2>3
<1> QED
  BY <1>4, <1>5

\* What is said of the lines alone does not change while they are read.
LEMMA Steady ==
  ASSUME db' = db
  PROVE  /\ Body' = Body
         /\ \A p : (SectionOf(p))' = SectionOf(p)
         /\ \A p : (Pair(p))' = Pair(p)
         /\ \A p : (IsFirstVendor(p))' <=> IsFirstVendor(p)
         /\ \A p : (IsFirstDevice(p))' <=> IsFirstDevice(p)
<1>1. Body' = Body
  BY DEF Body
<1>2. \A p : (SectionOf(p))' = SectionOf(p)
  BY <1>1 DEF SectionOf
<1>3. \A p : (Pair(p))' = Pair(p)
  BY <1>2 DEF Pair
<1>4. \A p : (IsFirstVendor(p))' <=> IsFirstVendor(p)
  BY DEF IsFirstVendor
<1>5. \A p : (IsFirstDevice(p))' <=> IsFirstDevice(p)
  BY <1>2, <1>4 DEF IsFirstDevice
<1> QED
  BY <1>1, <1>2, <1>3, <1>4, <1>5
-----------------------------------------------------------------------------
(* The chains                                                              *)

LEMMA IncreasingIsShort ==
  ASSUME NEW N \in Nat, NEW s \in Seq(1 .. N), \A j, k \in DOMAIN s : j < k => s[j] < s[k]
  PROVE  Len(s) <= N
<1> DEFINE Low == {j \in 1 .. Len(s) : s[j] < j}
<1>0. Len(s) \in Nat /\ DOMAIN s = 1 .. Len(s) /\ \A j \in 1 .. Len(s) : s[j] \in 1 .. N
  OBVIOUS
<1>1. Low = {}
  <2> SUFFICES ASSUME Low # {} PROVE FALSE
    OBVIOUS
  <2>1. PICK j \in Low : \A k \in Low : j <= k
    <3>1. Low \subseteq Nat
      OBVIOUS
    <3> HIDE DEF Low
    <3> QED
      BY <3>1, LeastNatural
  <2>2. j \in 1 .. Len(s) /\ s[j] < j
    OBVIOUS
  <2>3. j # 1
    BY <1>0, <2>2
  <2>4. j - 1 \in 1 .. Len(s) /\ j - 1 < j /\ ~ (j <= j - 1)
    BY <1>0, <2>2, <2>3
  <2>5. s[j - 1] >= j - 1
    <3>1. ~ (s[j - 1] < j - 1) /\ s[j - 1] \in Int /\ j - 1 \in Int
      BY <1>0, <2>1, <2>4
    <3> QED
      BY <3>1
  <2>6. s[j - 1] < s[j]
    BY <1>0, <2>2, <2>4
  <2>7. s[j] \in 1 .. N /\ s[j - 1] \in 1 .. N
    BY <1>0, <2>2, <2>4
  <2> QED
    BY <1>0, <2>2, <2>5, <2>6, <2>7
<1>2. CASE Len(s) = 0
  BY <1>2
<1>3. CASE Len(s) # 0
  <2>1. Len(s) \in 1 .. Len(s)
    BY <1>0, <1>3
  <2>2. ~ (s[Len(s)] < Len(s))
    BY <1>1, <2>1
  <2>3. s[Len(s)] \in 1 .. N
    BY <1>0, <2>1
  <2> QED
    BY <1>0, <2>2, <2>3
<1> QED
  BY <1>2, <1>3

\* The pointers lead from the first child to the last, and end there.
LEMMA KidsAre ==
  ASSUME NEW r, NEW s, Chain(r, s), DOMAIN heap \subseteq 1 .. Len(db), Len(db) \in Nat
  PROVE  Kids(r) = s
<1> DEFINE D == 0 .. Len(db)
           after(t) == IF t = <<>> THEN heap[r].first ELSE heap[t[Len(t)]].next
           K == CHOOSE walk : walk = [n \in 0 .. Len(db) |->
                  IF n = 0 THEN <<>>
                  ELSE IF after(walk[n - 1]) = Null THEN walk[n - 1]
                  ELSE Append(walk[n - 1], after(walk[n - 1]))]
           most(n) == IF n <= Len(s) THEN n ELSE Len(s)
           f == [n \in 0 .. Len(db) |-> SubSeq(s, 1, most(n))]
<1>1. /\ s \in Seq(1 .. Len(db)) /\ Len(s) \in Nat /\ DOMAIN s = 1 .. Len(s)
      /\ \A j \in 1 .. Len(s) : s[j] # Null
  <2>1. ChildrenOf(r) \subseteq 1 .. Len(db)
    BY DEF ChildrenOf, Children
  <2>2. s \in Seq(ChildrenOf(r))
    BY DEF Chain
  <2>3. s \in Seq(1 .. Len(db))
    BY <2>1, <2>2, SeqMonotonic
  <2> QED
    BY <2>3 DEF Null
<1>2. Len(s) <= Len(db)
  BY <1>1, IncreasingIsShort DEF Chain
<1>3. ASSUME NEW m \in 0 .. Len(s)
      PROVE  /\ SubSeq(s, 1, m) \in Seq(1 .. Len(db))
             /\ after(SubSeq(s, 1, m)) = IF m = Len(s) THEN Null ELSE s[m + 1]
             /\ m < Len(s) => Append(SubSeq(s, 1, m), s[m + 1]) = SubSeq(s, 1, m + 1)
  <2>0. m \in Nat /\ m <= Len(s) /\ \A i \in 1 .. m : i \in 1 .. Len(s)
    BY <1>1
  <2>1. /\ SubSeq(s, 1, m) \in Seq(1 .. Len(db))
        /\ Len(SubSeq(s, 1, m)) = m
        /\ \A i \in 1 .. m : SubSeq(s, 1, m)[i] = s[i]
    BY <1>1, <2>0
  <2>2. ASSUME m = 0
        PROVE  after(SubSeq(s, 1, m)) = IF m = Len(s) THEN Null ELSE s[m + 1]
    <3>1. SubSeq(s, 1, m) = <<>>
      BY <2>1, <2>2
    <3>2. after(SubSeq(s, 1, m)) = heap[r].first
      BY <3>1
    <3>3. heap[r].first = IF s = <<>> THEN Null ELSE s[1]
      BY DEF Chain
    <3>4. s = <<>> <=> m = Len(s)
      BY <1>1, <2>2
    <3> QED
      BY <2>2, <3>2, <3>3, <3>4
  <2>3. ASSUME m # 0
        PROVE  after(SubSeq(s, 1, m)) = IF m = Len(s) THEN Null ELSE s[m + 1]
    <3>1. SubSeq(s, 1, m) # <<>> /\ m \in 1 .. m /\ m \in 1 .. Len(s)
      BY <2>0, <2>1, <2>3
    <3>2. after(SubSeq(s, 1, m)) = heap[s[m]].next
      BY <2>1, <3>1
    <3>3. heap[s[m]].next = IF m = Len(s) THEN Null ELSE s[m + 1]
      BY <1>1, <3>1 DEF Chain
    <3> QED
      BY <3>2, <3>3
  <2>4. ASSUME m < Len(s) PROVE Append(SubSeq(s, 1, m), s[m + 1]) = SubSeq(s, 1, m + 1)
    <3> DEFINE u == Append(SubSeq(s, 1, m), s[m + 1])
               v == SubSeq(s, 1, m + 1)
    <3>1. m + 1 \in 1 .. Len(s) /\ s[m + 1] \in 1 .. Len(db)
      BY <1>1, <2>0, <2>4
    <3>2. u \in Seq(1 .. Len(db)) /\ Len(u) = m + 1
      BY <2>1, <3>1
    <3>3. v \in Seq(1 .. Len(db)) /\ Len(v) = m + 1
      BY <1>1, <3>1
    <3>4. \A i \in 1 .. m + 1 : u[i] = v[i]
      <4> TAKE i \in 1 .. m + 1
      <4>1. v[i] = s[i]
        BY <1>1, <3>1
      <4>2. CASE i = m + 1
        BY <2>0, <2>1, <3>1, <4>1, <4>2
      <4>3. CASE i # m + 1
        <5>1. i \in 1 .. m
          BY <2>0, <4>3
        <5> QED
          BY <2>1, <3>1, <4>1, <5>1
      <4> QED
        BY <4>2, <4>3
    <3> HIDE DEF u, v
    <3>5. u = v
      BY <3>2, <3>3, <3>4, SeqEqual
    <3> QED
      BY <3>5 DEF u, v
  <2> HIDE DEF after
  <2> QED
    BY <2>1, <2>2, <2>3, <2>4
<1>4. \A n \in 1 .. Len(db) : f[n] = IF after(f[n - 1]) = Null THEN f[n - 1]
                                     ELSE Append(f[n - 1], after(f[n - 1]))
  <2> HIDE DEF after
  <2> TAKE n \in 1 .. Len(db)
  <2>0. \A k \in 0 .. Len(db) : f[k] = SubSeq(s, 1, most(k))
    OBVIOUS
  <2>1. n - 1 \in 0 .. Len(db) /\ n \in 0 .. Len(db) /\ n - 1 \in Nat /\ (n - 1) + 1 = n
    OBVIOUS
  <2> HIDE DEF f
  <2>2. CASE n - 1 < Len(s)
    <3>0. most(n - 1) = n - 1 /\ most(n) = n
      <4>1. n - 1 <= Len(s) /\ n <= Len(s)
        BY <1>1, <2>1, <2>2
      <4> QED
        BY <4>1
    <3>1. f[n - 1] = SubSeq(s, 1, n - 1) /\ f[n] = SubSeq(s, 1, n)
      BY <2>0, <2>1, <3>0
    <3>2. n - 1 \in 0 .. Len(s) /\ n - 1 # Len(s) /\ n \in 1 .. Len(s)
      BY <1>1, <2>1, <2>2
    <3>3. after(SubSeq(s, 1, n - 1)) = s[n]
      BY <1>3, <2>1, <3>2
    <3>4. Append(SubSeq(s, 1, n - 1), s[n]) = SubSeq(s, 1, n)
      BY <1>3, <2>1, <2>2, <3>2
    <3>5. s[n] # Null
      BY <1>1, <3>2
    <3> QED
      BY <3>1, <3>3, <3>4, <3>5
  <2>3. CASE ~ (n - 1 < Len(s))
    <3>0. most(n - 1) = Len(s) /\ most(n) = Len(s)
      <4>1. (n - 1 <= Len(s) => n - 1 = Len(s)) /\ ~ (n <= Len(s))
        BY <1>1, <2>1, <2>3
      <4> QED
        BY <4>1
    <3>1. f[n - 1] = SubSeq(s, 1, Len(s)) /\ f[n] = SubSeq(s, 1, Len(s))
      BY <2>0, <2>1, <3>0
    <3>2. after(SubSeq(s, 1, Len(s))) = Null
      <4>1. Len(s) \in 0 .. Len(s)
        BY <1>1
      <4> QED
        BY <1>3, <4>1
    <3> QED
      BY <3>1, <3>2
  <2> QED
    BY <2>2, <2>3
<1>5. f[0] = <<>> /\ f[Len(db)] = s
  <2>1. 0 \in 0 .. Len(db) /\ Len(db) \in 0 .. Len(db) /\ most(0) = 0 /\ most(Len(db)) = Len(s)
    BY <1>1, <1>2
  <2>2. SubSeq(s, 1, 0) = <<>>
    BY SubSeqEmpty
  <2>3. SubSeq(s, 1, Len(s)) = s
    BY <1>1, SubSeqFull
  <2> HIDE DEF most
  <2> QED
    BY <2>1, <2>2, <2>3
<1>6. f = [n \in 0 .. Len(db) |->
             IF n = 0 THEN <<>>
             ELSE IF after(f[n - 1]) = Null THEN f[n - 1]
             ELSE Append(f[n - 1], after(f[n - 1]))]
  <2>1. f = [n \in 0 .. Len(db) |-> f[n]]
    OBVIOUS
  <2>2. \A n \in 0 .. Len(db) : n = 0 \/ n \in 1 .. Len(db)
    OBVIOUS
  <2> HIDE DEF f, after
  <2>3. \A n \in 0 .. Len(db) :
          f[n] = IF n = 0 THEN <<>>
                 ELSE IF after(f[n - 1]) = Null THEN f[n - 1]
                 ELSE Append(f[n - 1], after(f[n - 1]))
    BY <1>4, <1>5, <2>2
  <2> QED
    BY <2>1, <2>3
<1> HIDE DEF f, after
<1>7. K = [n \in 0 .. Len(db) |->
             IF n = 0 THEN <<>>
             ELSE IF after(K[n - 1]) = Null THEN K[n - 1]
             ELSE Append(K[n - 1], after(K[n - 1]))]
  BY <1>6
<1> HIDE DEF K
<1>8. /\ K[0] = <<>>
      /\ \A n \in 1 .. Len(db) : K[n] = IF after(K[n - 1]) = Null THEN K[n - 1]
                                       ELSE Append(K[n - 1], after(K[n - 1]))
  <2>1. 0 \in 0 .. Len(db) /\ \A n \in 1 .. Len(db) : n \in 0 .. Len(db) /\ n # 0
    OBVIOUS
  <2> QED
    BY <1>7, <2>1
<1> DEFINE Differs == {n \in 0 .. Len(db) : K[n] # f[n]}
<1>9. Differs = {}
  <2> SUFFICES ASSUME Differs # {} PROVE FALSE
    OBVIOUS
  <2>1. PICK n \in Differs : \A m \in Differs : n <= m
    <3>1. Differs \subseteq Nat
      OBVIOUS
    <3> HIDE DEF Differs
    <3> QED
      BY <3>1, LeastNatural
  <2>2. n \in 0 .. Len(db) /\ K[n] # f[n]
    OBVIOUS
  <2>3. n # 0
    BY <1>5, <1>8, <2>2
  <2>4. n \in 1 .. Len(db) /\ n - 1 \in 0 .. Len(db) /\ ~ (n <= n - 1)
    BY <2>2, <2>3
  <2>5. K[n - 1] = f[n - 1]
    BY <2>1, <2>4
  <2> QED
    BY <1>4, <1>8, <2>2, <2>4, <2>5
<1>10. K[Len(db)] = s
  <2>1. Len(db) \in 0 .. Len(db)
    OBVIOUS
  <2> QED
    BY <1>5, <1>9, <2>1
<1>11. Kids(r) = K[Len(db)]
  BY DEF Kids, K, after
<1> QED
  BY <1>10, <1>11
LEMMA ForestTypes ==
  ASSUME Shape, Forest
  PROVE  /\ db \in Seq(LineOfIds) /\ Len(db) \in Nat /\ DOMAIN db = 1 .. Len(db)
         /\ DOMAIN heap \subseteq 1 .. Len(db) /\ DOMAIN heap \subseteq DOMAIN db
         /\ Null \notin DOMAIN heap /\ Tops \subseteq DOMAIN heap
         /\ \A p \in DOMAIN heap : p \in Body /\ p \in Nat /\ p < pos
         /\ \A p \in DOMAIN heap : db[p].id \in Nat /\ heap[p].id = db[p].id
<1>1. /\ db \in Seq(LineOfIds) /\ pos \in 1 .. Len(db) + 1 /\ DOMAIN heap \subseteq 1 .. pos - 1
      /\ \A q \in 1 .. pos - 1 : ~IsClass(db[q])
  BY DEF Shape, Forest
<1>2. Len(db) \in Nat /\ DOMAIN db = 1 .. Len(db)
  BY <1>1
<1>3. \A p \in 1 .. pos - 1 : p \in Nat /\ p < pos /\ p \in 1 .. Len(db) /\ p \in Body
  <2> TAKE p \in 1 .. pos - 1
  <2>1. p \in Nat /\ p < pos /\ p \in 1 .. Len(db) /\ \A q \in 1 .. p : q \in 1 .. pos - 1
    BY <1>1, <1>2
  <2> QED
    BY <1>1, <1>2, <2>1 DEF Body
<1>4. \A p \in DOMAIN heap : db[p].id \in Nat /\ heap[p].id = db[p].id
  BY <1>1, <1>2, <1>3, LineTypes DEF Forest
<1> QED
  BY <1>1, <1>2, <1>3, <1>4 DEF Null, Forest

LEMMA KidsAreChained ==
  ASSUME Shape, Forest, NEW r \in Tops
  PROVE  Chain(r, Kids(r))
<1>1. PICK s : Chain(r, s)
  BY DEF Forest
<1>2. DOMAIN heap \subseteq 1 .. Len(db) /\ Len(db) \in Nat
  BY ForestTypes
<1> QED
  BY <1>1, <1>2, KidsAre

\* The children of a root, as a set.
LEMMA KidsRange ==
  ASSUME Shape, Forest, NEW r \in Tops
  PROVE  /\ Len(Kids(r)) \in Nat /\ DOMAIN Kids(r) = 1 .. Len(Kids(r))
         /\ {Kids(r)[j] : j \in DOMAIN Kids(r)} = ChildrenOf(r)
         /\ \A j \in DOMAIN Kids(r) : Kids(r)[j] \in ChildrenOf(r)
         /\ \A p \in ChildrenOf(r) : \E j \in DOMAIN Kids(r) : Kids(r)[j] = p
<1>1. /\ Kids(r) \in Seq(ChildrenOf(r))
      /\ \A p \in ChildrenOf(r) : \E j \in DOMAIN Kids(r) : Kids(r)[j] = p
  BY KidsAreChained DEF Chain
<1>2. \A j \in DOMAIN Kids(r) : Kids(r)[j] \in ChildrenOf(r)
  BY <1>1
<1> QED
  BY <1>1, <1>2

\* What hangs from some of the roots.
LEMMA ReachableIs ==
  ASSUME Shape, Forest, NEW rs \in SUBSET Tops
  PROVE  Reachable(rs) = rs \cup {p \in Children : SectionOf(p) \in rs}
<1>1. \A r \in rs : {Kids(r)[j] : j \in DOMAIN Kids(r)} = ChildrenOf(r)
  BY KidsRange
<1>2. Reachable(rs) = UNION {{r} \cup ChildrenOf(r) : r \in rs}
  BY <1>1 DEF Reachable
<1> QED
  BY <1>2 DEF ChildrenOf

\* tree_find_root finds the first root with the number.
LEMMA FindRootIs ==
  ASSUME Shape, Forest, NEW v
  PROVE  /\ FindRoot(v) = Null => \A r \in Roots : db[r].id # v
         /\ FindRoot(v) # Null =>
              /\ FindRoot(v) \in Roots /\ db[FindRoot(v)].id = v
              /\ \A r \in Roots : db[r].id = v => FindRoot(v) <= r
<1> DEFINE those == {j \in DOMAIN roots : heap[roots[j]].id = v}
<1>1. /\ roots \in Seq(Nat) /\ Roots \subseteq DOMAIN heap
      /\ \A j, k \in DOMAIN roots : j < k => roots[j] < roots[k]
  BY DEF Shape, Forest, Roots, Tops
<1>2. /\ \A j \in DOMAIN roots : roots[j] \in Roots
      /\ \A r \in Roots : heap[r].id = db[r].id /\ r # Null /\ r \in Nat
  BY <1>1, ForestTypes DEF Roots
<1>3. FindRoot(v) = IF those = {} THEN Null ELSE roots[Min(those)]
  BY DEF FindRoot
<1>4. CASE those = {}
  <2>1. \A r \in Roots : db[r].id # v
    BY <1>2, <1>4 DEF Roots
  <2> QED
    BY <1>3, <1>4, <2>1
<1>5. CASE those # {}
  <2>1. those \subseteq Nat
    BY <1>1
  <2>2. PICK m : m = Min(those)
    OBVIOUS
  <2>3. m \in those /\ \A j \in those : m <= j
    <3> HIDE DEF those
    <3> QED
      BY <1>5, <2>1, <2>2, MinIsLeast
  <2>4. m \in DOMAIN roots /\ db[roots[m]].id = v /\ roots[m] \in Roots /\ roots[m] # Null
    BY <1>2, <2>3
  <2>5. ASSUME NEW r \in Roots, db[r].id = v PROVE roots[m] <= r
    <3>1. PICK k \in DOMAIN roots : r = roots[k]
      BY DEF Roots
    <3>2. k \in those
      BY <1>2, <2>5, <3>1
    <3>3. m <= k /\ m \in Nat /\ k \in Nat
      BY <2>1, <2>3, <3>2
    <3>4. m = k \/ m < k
      BY <3>3
    <3>5. roots[m] \in Nat /\ roots[k] \in Nat
      BY <1>2, <2>4, <3>1
    <3> QED
      BY <1>1, <2>4, <3>1, <3>4, <3>5
  <2> HIDE DEF those
  <2> QED
    BY <1>3, <1>5, <2>2, <2>4, <2>5
<1> QED
  BY <1>4, <1>5

\* tree_find finds the root itself, or else its first child with the number.
LEMMA FindIs ==
  ASSUME Shape, Forest, NEW r \in Tops, NEW d
  PROVE  /\ db[r].id = d => Find(r, d) = r
         /\ db[r].id # d /\ Find(r, d) = Null => \A p \in ChildrenOf(r) : db[p].id # d
         /\ db[r].id # d /\ Find(r, d) # Null =>
              /\ Find(r, d) \in ChildrenOf(r) /\ db[Find(r, d)].id = d
              /\ \A p \in ChildrenOf(r) : db[p].id = d => Find(r, d) <= p
<1> DEFINE those == {j \in DOMAIN Kids(r) : heap[Kids(r)[j]].id = d}
<1>1. /\ r # Null /\ heap[r].id = db[r].id
      /\ ChildrenOf(r) \subseteq DOMAIN heap
      /\ \A p \in ChildrenOf(r) : heap[p].id = db[p].id /\ p # Null /\ p \in Nat
  BY ForestTypes DEF ChildrenOf, Children
<1>2. /\ \A j \in DOMAIN Kids(r) : Kids(r)[j] \in ChildrenOf(r)
      /\ \A p \in ChildrenOf(r) : \E j \in DOMAIN Kids(r) : Kids(r)[j] = p
      /\ DOMAIN Kids(r) \subseteq Nat
  BY KidsRange
<1>3. \A j, k \in DOMAIN Kids(r) : j < k => Kids(r)[j] < Kids(r)[k]
  BY KidsAreChained DEF Chain
<1>4. CASE db[r].id = d
  BY <1>1, <1>4 DEF Find
<1>5. CASE db[r].id # d
  <2>1. Find(r, d) = IF those = {} THEN Null ELSE Kids(r)[Min(those)]
    BY <1>1, <1>5 DEF Find
  <2>2. CASE those = {}
    <3>1. \A p \in ChildrenOf(r) : db[p].id # d
      BY <1>1, <1>2, <2>2
    <3> QED
      BY <1>5, <2>1, <2>2, <3>1
  <2>3. CASE those # {}
    <3>1. those \subseteq Nat
      BY <1>2
    <3>2. PICK m : m = Min(those)
      OBVIOUS
    <3>3. m \in those /\ \A j \in those : m <= j
      <4> HIDE DEF those
      <4> QED
        BY <2>3, <3>1, <3>2, MinIsLeast
    <3>4. PICK c : c = Kids(r)[m]
      OBVIOUS
    <3>5. m \in DOMAIN Kids(r) /\ c \in ChildrenOf(r) /\ db[c].id = d /\ c # Null
      BY <1>1, <1>2, <3>3, <3>4
    <3>6. ASSUME NEW p \in ChildrenOf(r), db[p].id = d PROVE c <= p
      <4>1. PICK k \in DOMAIN Kids(r) : Kids(r)[k] = p
        BY <1>2
      <4>2. k \in those
        BY <1>1, <3>6, <4>1
      <4>3. m <= k /\ m \in Nat /\ k \in Nat
        BY <3>1, <3>3, <4>2
      <4>4. m = k \/ m < k
        BY <4>3
      <4>5. c \in Nat /\ p \in Nat
        BY <1>1, <3>5
      <4> QED
        BY <1>3, <3>4, <3>5, <4>1, <4>4, <4>5
    <3>7. Find(r, d) = c
      BY <2>1, <2>3, <3>2, <3>4
    <3> HIDE DEF those
    <3> QED
      BY <1>5, <3>5, <3>6, <3>7
  <2> QED
    BY <2>2, <2>3
<1> QED
  BY <1>4, <1>5
-----------------------------------------------------------------------------
(* The forest grows                                                        *)

LEMMA OneMore ==
  ASSUME NEW S, NEW s \in Seq(S), NEW e \in S, NEW t, t = Append(s, e)
  PROVE  /\ t \in Seq(S) /\ t # s /\ t # <<>>
         /\ Len(s) \in Nat /\ Len(t) = Len(s) + 1 /\ Len(t) \in DOMAIN t
         /\ DOMAIN s = 1 .. Len(s)
         /\ t[Len(t)] = e
         /\ \A j \in DOMAIN s : t[j] = s[j] /\ j \in DOMAIN t /\ j < Len(t)
         /\ \A j \in DOMAIN t : j \in DOMAIN s \/ j = Len(t)
         /\ \A j, k \in DOMAIN t : j < k => j \in DOMAIN s
<1>1. /\ t \in Seq(S) /\ t # <<>> /\ Len(t) = Len(s) + 1 /\ t[Len(s) + 1] = e
      /\ \A j \in 1 .. Len(s) : t[j] = s[j]
  BY AppendProperties
<1>2. /\ Len(s) \in Nat /\ DOMAIN s = 1 .. Len(s) /\ DOMAIN t = 1 .. Len(t)
  BY <1>1
<1>3. \A j \in DOMAIN s : t[j] = s[j] /\ j \in DOMAIN t /\ j < Len(t)
  BY <1>1, <1>2
<1>4. /\ \A j \in DOMAIN t : j \in DOMAIN s \/ j = Len(t)
      /\ \A j, k \in DOMAIN t : j < k => j \in DOMAIN s
      /\ Len(t) \in DOMAIN t
  BY <1>1, <1>2
<1>5. t[Len(t)] = e
  BY <1>1
<1>6. t # s
  <2>1. \A n \in Nat : n # n + 1
    OBVIOUS
  <2>2. Len(t) # Len(s)
    BY <1>1, <1>2, <2>1, Zenon
  <2> QED
    BY <2>2
<1> QED
  BY <1>1, <1>2, <1>3, <1>4, <1>5, <1>6

LEMMA ChainSame ==
  ASSUME NEW r, NEW s, Chain(r, s), (ChildrenOf(r))' = ChildrenOf(r),
         heap'[r].first = heap[r].first, heap'[r].last = heap[r].last,
         \A p \in ChildrenOf(r) : heap'[p].next = heap[p].next
  PROVE  (Chain(r, s))'
<1>1. \A j \in DOMAIN s : s[j] \in ChildrenOf(r)
  BY DEF Chain
<1> QED
  BY <1>1 DEF Chain

LEMMA NewNodeIs ==
  ASSUME Shape, Reading
  PROVE  /\ NewNode(pos) \in Node
         /\ NewNode(pos).id = Line.id /\ NewNode(pos).first = Null
         /\ NewNode(pos).last = Null /\ NewNode(pos).next = Null
         /\ Line.id \in Nat /\ pos \in DOMAIN db /\ pos \in Nat
<1>1. db \in Seq(LineOfIds) /\ pos \in DOMAIN db
  BY DEF Shape, Reading
<1>2. db[pos].id \in Nat /\ pos \in Nat
  BY <1>1, LineTypes
<1> QED
  BY <1>1, <1>2 DEF NewNode, Node, Null, Line

\* tree_create_node_n and tree_add_to_forest.
LEMMA ForestRoot ==
  ASSUME Shape, Forest, Reading, IsVendor(Line),
         heap' = With(heap, pos, NewNode(pos)), db' = db, pos' = pos + 1,
         \/ /\ roots' = Append(roots, pos) /\ lost' = lost
            /\ room' = IF Len(roots) = room THEN 2 * room ELSE room
            /\ room \in Nat /\ room # 0
         \/ roots' = roots /\ lost' = lost \cup {pos} /\ room' = room
  PROVE  /\ Forest' /\ heap' \in [DOMAIN heap' -> Node] /\ roots' \in Seq(Nat)
         /\ Tops' = Tops \cup {pos} /\ Children' = Children
         /\ Roots' = IF roots' = roots THEN Roots ELSE Roots \cup {pos}
         /\ DOMAIN heap' = DOMAIN heap \cup {pos}
<1>1. /\ pos \in Nat /\ pos \in DOMAIN db /\ pos \notin DOMAIN heap /\ pos \notin Tops
      /\ DOMAIN heap \subseteq 1 .. pos - 1 /\ 1 .. pos - 1 \subseteq Nat
      /\ \A p \in DOMAIN heap : p < pos /\ p \in Nat
  <2>1. pos \in Nat /\ pos \in DOMAIN db /\ \A p \in 1 .. pos - 1 : p < pos /\ p \in Nat
    BY NewNodeIs
  <2>2. DOMAIN heap \subseteq 1 .. pos - 1 /\ Tops \subseteq DOMAIN heap
    BY DEF Forest
  <2> QED
    BY <2>1, <2>2
<1>2. /\ DOMAIN heap' = DOMAIN heap \cup {pos}
      /\ heap'[pos] = NewNode(pos)
      /\ \A p \in DOMAIN heap : heap'[p] = heap[p]
      /\ heap' \in [DOMAIN heap' -> Node]
  <2>1. heap \in [DOMAIN heap -> Node] /\ NewNode(pos) \in Node
    BY NewNodeIs DEF Shape
  <2> HIDE DEF Node
  <2> QED
    BY <1>1, <2>1 DEF With
<1>3. /\ roots' \in Seq(Nat) /\ Len(roots') <= room' /\ Tops' = Tops \cup {pos}
      /\ Roots' = IF roots' = roots THEN Roots ELSE Roots \cup {pos}
      /\ \A j, k \in DOMAIN roots' : j < k => roots'[j] < roots'[k]
      /\ \A j \in DOMAIN roots' : roots'[j] \notin lost'
  <2>1. /\ roots \in Seq(Nat) /\ room \in Nat /\ Len(roots) <= room
        /\ Len(roots) \in Nat /\ DOMAIN roots = 1 .. Len(roots)
        /\ \A j, k \in DOMAIN roots : j < k => roots[j] < roots[k]
        /\ \A j \in DOMAIN roots : roots[j] \notin lost /\ roots[j] < pos /\ roots[j] # pos
        /\ pos \notin lost
    <3>1. \A j \in DOMAIN roots : roots[j] \in Tops
      BY DEF Tops
    <3>2. \A j \in DOMAIN roots : roots[j] \in DOMAIN heap
      BY <3>1 DEF Forest
    <3>3. \A j \in DOMAIN roots : roots[j] < pos /\ roots[j] # pos
      BY <1>1, <3>2
    <3>4. /\ roots \in Seq(Nat) /\ room \in Nat /\ Len(roots) <= room
          /\ \A j, k \in DOMAIN roots : j < k => roots[j] < roots[k]
          /\ \A j \in DOMAIN roots : roots[j] \notin lost
      BY DEF Shape, Forest
    <3>5. pos \notin lost
      BY <1>1 DEF Tops
    <3> QED
      BY <3>3, <3>4, <3>5
  <2>2. CASE /\ roots' = Append(roots, pos) /\ lost' = lost
             /\ room' = IF Len(roots) = room THEN 2 * room ELSE room
             /\ room \in Nat /\ room # 0
    <3>1. /\ roots' \in Seq(Nat) /\ roots' # roots /\ Len(roots') = Len(roots) + 1
          /\ \A j \in DOMAIN roots : roots'[j] = roots[j]
          /\ roots'[Len(roots')] = pos
          /\ \A j \in DOMAIN roots' : j \in DOMAIN roots \/ j = Len(roots')
          /\ \A j, k \in DOMAIN roots' : j < k => j \in DOMAIN roots
          /\ {roots'[j] : j \in DOMAIN roots'} = {roots[j] : j \in DOMAIN roots} \cup {pos}
      <4>1. roots \in Seq(Nat) /\ pos \in Nat /\ roots' = Append(roots, pos)
        BY <1>1, <2>1, <2>2
      <4>2. /\ roots' \in Seq(Nat) /\ roots' # roots /\ Len(roots') = Len(roots) + 1
            /\ roots'[Len(roots')] = pos
        BY <4>1, OneMore
      <4>3. /\ \A j \in DOMAIN roots : roots'[j] = roots[j]
            /\ \A j \in DOMAIN roots' : j \in DOMAIN roots \/ j = Len(roots')
        BY <4>1, OneMore
      <4>4. \A j, k \in DOMAIN roots' : j < k => j \in DOMAIN roots
        BY <4>1, OneMore
      <4>5. {roots'[j] : j \in DOMAIN roots'} = {roots[j] : j \in DOMAIN roots} \cup {pos}
        <5>1. /\ Len(roots') \in DOMAIN roots'
              /\ \A j \in DOMAIN roots : j \in DOMAIN roots'
          BY <4>1, OneMore
        <5> QED
          BY <4>2, <4>3, <5>1
      <4> QED
        BY <4>2, <4>3, <4>4, <4>5, Zenon
    <3>2. lost' = lost
      BY <2>2
    <3>6. Tops' = Tops \cup {pos} /\ Roots' = Roots \cup {pos}
      BY <3>1, <3>2 DEF Tops, Roots
    <3>7. Len(roots') <= room'
      <4>1. /\ Len(roots) \in Nat /\ room \in Nat /\ Len(roots) <= room /\ room # 0
            /\ Len(roots') = Len(roots) + 1
            /\ room' = IF Len(roots) = room THEN 2 * room ELSE room
        BY <2>1, <2>2, <3>1
      <4> QED
        BY <4>1
    <3>8. \A j, k \in DOMAIN roots' : j < k => roots'[j] < roots'[k]
      <4> SUFFICES ASSUME NEW j \in DOMAIN roots', NEW k \in DOMAIN roots', j < k
                   PROVE  roots'[j] < roots'[k]
        OBVIOUS
      <4>1. j \in DOMAIN roots
        BY <3>1
      <4>2. CASE k \in DOMAIN roots
        BY <2>1, <3>1, <4>1, <4>2
      <4>3. CASE k = Len(roots')
        BY <2>1, <3>1, <4>1, <4>3
      <4> QED
        BY <3>1, <4>2, <4>3
    <3>9. \A j \in DOMAIN roots' : roots'[j] \notin lost'
      BY <2>1, <3>1, <3>2
    <3> QED
      BY <3>1, <3>6, <3>7, <3>8, <3>9
  <2>3. CASE roots' = roots /\ lost' = lost \cup {pos} /\ room' = room
    <3>1. Tops' = Tops \cup {pos} /\ Roots' = Roots
      BY <2>3 DEF Tops, Roots
    <3>2. \A j \in DOMAIN roots' : roots'[j] \notin lost'
      BY <2>1, <2>3
    <3> QED
      BY <2>1, <2>3, <3>1, <3>2
  <2> QED
    BY <2>2, <2>3
<1>4. Children' = Children
  BY <1>1, <1>2, <1>3 DEF Children
<1>5. \A p : (SectionOf(p))' = SectionOf(p)
  BY Steady
<1>6. \A r : (ChildrenOf(r))' = ChildrenOf(r)
  BY <1>4, <1>5 DEF ChildrenOf
<1>7. /\ \A r \in Tops : IsVendor(db[r]) /\ r \in DOMAIN heap
      /\ \A p \in Children : /\ IsDevice(db[p]) /\ SectionOf(p) \in Tops
                             /\ p \in DOMAIN heap
  BY DEF Forest, Children
<1>8. ASSUME NEW r \in Tops PROVE \E s : (Chain(r, s))'
  <2>1. PICK s : Chain(r, s)
    BY DEF Forest
  <2>2. heap'[r] = heap[r] /\ \A p \in ChildrenOf(r) : heap'[p] = heap[p]
    BY <1>2, <1>7 DEF ChildrenOf
  <2>3. (Chain(r, s))'
    BY <1>6, <2>1, <2>2, ChainSame
  <2> QED
    BY <2>3
<1>9. ASSUME NEW r, r = pos PROVE (Chain(r, <<>>))'
  <2>1. (ChildrenOf(r))' = {}
    BY <1>1, <1>6, <1>7, <1>9 DEF ChildrenOf
  <2>2. heap'[r].first = Null /\ heap'[r].last = Null
    <3>1. NewNode(pos).first = Null /\ NewNode(pos).last = Null
      BY NewNodeIs
    <3> QED
      BY <1>2, <1>9, <3>1
  <2>3. <<>> \in Seq({}) /\ DOMAIN <<>> = {}
    OBVIOUS
  <2> QED
    BY <2>1, <2>2, <2>3 DEF Chain
<1>10. \A r \in Tops' : (IsVendor(db[r]) /\ \E s : Chain(r, s))'
  <2> TAKE r \in Tops'
  <2>1. CASE r \in Tops
    BY <1>7, <1>8, <2>1
  <2>2. CASE r = pos
    BY <1>9, <2>2 DEF Line
  <2> QED
    BY <1>3, <2>1, <2>2
<1>11. \A p \in DOMAIN heap' : heap'[p].id = db'[p].id
  <2>1. heap'[pos].id = db[pos].id
    BY <1>2, NewNodeIs DEF Line
  <2>2. \A p \in DOMAIN heap : heap[p].id = db[p].id
    BY DEF Forest
  <2> QED
    BY <1>2, <2>1, <2>2
<1>12. DOMAIN heap' \subseteq 1 .. pos' - 1
  <2>1. \A p \in 1 .. pos - 1 : p \in 1 .. pos
    BY <1>1
  <2>2. pos \in 1 .. pos /\ pos' - 1 = pos
    BY <1>1 DEF Reading, Shape
  <2> QED
    BY <1>1, <1>2, <2>1, <2>2
<1>13. Tops' \subseteq DOMAIN heap'
  BY <1>2, <1>3, <1>7
<1>14. \A p \in Children' : (IsDevice(db[p]) /\ SectionOf(p) \in Tops)'
  BY <1>3, <1>4, <1>5, <1>7
<1>15. Forest'
  BY <1>3, <1>10, <1>11, <1>12, <1>13, <1>14 DEF Forest
<1> QED
  BY <1>2, <1>3, <1>4, <1>15

\* tree_add_child_n changes the parent and its last child, and no other node.
LEMMA AddChildIs ==
  ASSUME heap \in [DOMAIN heap -> Node], NEW b \in DOMAIN heap, NEW c \in Nat,
         c \notin DOMAIN heap, NewNode(c) \in Node,
         heap[b].last # Null => heap[b].last \in DOMAIN heap /\ heap[b].last # b,
         heap' = AddChild(heap, b, c)
  PROVE  /\ DOMAIN heap' = DOMAIN heap \cup {c} /\ heap' \in [DOMAIN heap' -> Node]
         /\ heap'[c] = NewNode(c)
         /\ heap'[b].id = heap[b].id /\ heap'[b].next = heap[b].next /\ heap'[b].last = c
         /\ heap'[b].first = IF heap[b].last = Null THEN c ELSE heap[b].first
         /\ heap[b].last # Null =>
              /\ heap'[heap[b].last].next = c
              /\ heap'[heap[b].last].id = heap[heap[b].last].id
         /\ \A a \in DOMAIN heap : a # b /\ a # heap[b].last => heap'[a] = heap[a]
<1> DEFINE last == heap[b].last
           h1 == With(heap, c, NewNode(c))
<1>1. /\ DOMAIN h1 = DOMAIN heap \cup {c} /\ h1[c] = NewNode(c)
      /\ \A a \in DOMAIN heap : h1[a] = heap[a] /\ a # c
      /\ h1 \in [DOMAIN heap \cup {c} -> Node]
  <2> HIDE DEF Node
  <2> QED
    BY DEF With
<1>2. \A a \in DOMAIN h1 : h1[a] \in [id : Nat, first : Nat, last : Nat, next : Nat]
  BY <1>1 DEF Node
<1>3. b \in DOMAIN h1 /\ c \in DOMAIN h1 /\ b # c
  BY <1>1
<1>4. CASE last = Null
  <2> DEFINE h2 == [h1 EXCEPT ![b].first = c]
  <2>1. heap' = [h2 EXCEPT ![b].last = c]
    BY <1>4 DEF AddChild
  <2> HIDE DEF h1
  <2>2. /\ DOMAIN h2 = DOMAIN h1 /\ \A a \in DOMAIN h1 : a # b => h2[a] = h1[a]
        /\ h2[b] = [h1[b] EXCEPT !.first = c]
    BY <1>3
  <2> HIDE DEF h2
  <2>3. /\ DOMAIN heap' = DOMAIN h1 /\ \A a \in DOMAIN h1 : a # b => heap'[a] = h1[a]
        /\ heap'[b] = [h2[b] EXCEPT !.last = c]
    BY <1>3, <2>1, <2>2
  <2>4. heap'[b] = [[h1[b] EXCEPT !.first = c] EXCEPT !.last = c]
    BY <2>2, <2>3
  <2>5. h1[b] \in [id : Nat, first : Nat, last : Nat, next : Nat] /\ h1[b] = heap[b]
    BY <1>1, <1>2, <1>3
  <2>6. /\ heap'[b].id = heap[b].id /\ heap'[b].next = heap[b].next /\ heap'[b].last = c
        /\ heap'[b].first = c /\ heap'[b] \in [id : Nat, first : Nat, last : Nat, next : Nat]
    BY <2>4, <2>5
  <2>7. \A a \in DOMAIN h1 : heap'[a] \in Node
    BY <1>2, <2>3, <2>6 DEF Node
  <2>8. heap' = [a \in DOMAIN heap' |-> heap'[a]]
    BY <2>1
  <2>9. heap' \in [DOMAIN heap' -> Node]
    BY <2>3, <2>7, <2>8
  <2> QED
    BY <1>1, <1>3, <1>4, <2>3, <2>6, <2>9
<1>5. CASE last # Null
  <2> DEFINE h2 == [h1 EXCEPT ![last].next = c]
  <2>0. last \in DOMAIN heap /\ last \in DOMAIN h1 /\ last # b /\ last # c
    BY <1>1, <1>5
  <2>1. heap' = [h2 EXCEPT ![b].last = c]
    BY <1>5 DEF AddChild
  <2> HIDE DEF h1
  <2>2. /\ DOMAIN h2 = DOMAIN h1 /\ \A a \in DOMAIN h1 : a # last => h2[a] = h1[a]
        /\ h2[last] = [h1[last] EXCEPT !.next = c]
    BY <2>0
  <2> HIDE DEF h2
  <2>3. /\ DOMAIN heap' = DOMAIN h1 /\ \A a \in DOMAIN h1 : a # b => heap'[a] = h2[a]
        /\ heap'[b] = [h2[b] EXCEPT !.last = c]
    BY <1>3, <2>1, <2>2
  <2>4. heap'[b] = [h1[b] EXCEPT !.last = c] /\ heap'[last] = [h1[last] EXCEPT !.next = c]
    BY <1>3, <2>0, <2>2, <2>3
  <2>5. /\ h1[b] \in [id : Nat, first : Nat, last : Nat, next : Nat] /\ h1[b] = heap[b]
        /\ h1[last] \in [id : Nat, first : Nat, last : Nat, next : Nat]
        /\ h1[last] = heap[last]
    BY <1>1, <1>2, <1>3, <2>0
  <2>6. /\ heap'[b].id = heap[b].id /\ heap'[b].next = heap[b].next /\ heap'[b].last = c
        /\ heap'[b].first = heap[b].first
        /\ heap'[b] \in [id : Nat, first : Nat, last : Nat, next : Nat]
    BY <2>4, <2>5
  <2>7. /\ heap'[last].id = heap[last].id /\ heap'[last].next = c
        /\ heap'[last].last = heap[last].last /\ heap'[last].first = heap[last].first
        /\ heap'[last] \in [id : Nat, first : Nat, last : Nat, next : Nat]
    BY <2>4, <2>5
  <2>8. \A a \in DOMAIN h1 : a # b /\ a # last => heap'[a] = h1[a]
    BY <2>2, <2>3
  <2>9. \A a \in DOMAIN h1 : heap'[a] \in Node
    BY <1>2, <2>6, <2>7, <2>8 DEF Node
  <2>10. heap' = [a \in DOMAIN heap' |-> heap'[a]]
    BY <2>1
  <2>11. heap' \in [DOMAIN heap' -> Node]
    BY <2>3, <2>9, <2>10
  <2>12. heap'[c] = NewNode(c) /\ \A a \in DOMAIN heap : a # b /\ a # last => heap'[a] = heap[a]
    BY <1>1, <1>3, <2>0, <2>8
  <2> QED
    BY <1>1, <1>5, <2>3, <2>6, <2>7, <2>11, <2>12
<1> QED
  BY <1>4, <1>5

\* The chain of the parent is one longer.
LEMMA ChainGrows ==
  ASSUME Shape, Forest, NEW b \in Tops, NEW s, Chain(b, s), NEW c \in Nat,
         c \notin DOMAIN heap, \A p \in DOMAIN heap : p < c /\ p # c,
         NewNode(c) \in Node, NewNode(c).next = Null,
         heap' = AddChild(heap, b, c), (ChildrenOf(b))' = ChildrenOf(b) \cup {c}
  PROVE  (Chain(b, Append(s, c)))'
<1> DEFINE t == Append(s, c)
           last == heap[b].last
<1>1. /\ s \in Seq(ChildrenOf(b)) /\ Len(s) \in Nat /\ DOMAIN s = 1 .. Len(s)
      /\ \A p \in ChildrenOf(b) : \E j \in DOMAIN s : s[j] = p
      /\ \A j, k \in DOMAIN s : j < k => s[j] < s[k]
      /\ heap[b].first = IF s = <<>> THEN Null ELSE s[1]
      /\ last = IF s = <<>> THEN Null ELSE s[Len(s)]
      /\ \A j \in DOMAIN s : heap[s[j]].next = IF j = Len(s) THEN Null ELSE s[j + 1]
  BY DEF Chain
<1>2. /\ b \in DOMAIN heap /\ b \notin ChildrenOf(b) /\ ChildrenOf(b) \subseteq DOMAIN heap
      /\ Null \notin DOMAIN heap /\ DOMAIN heap \subseteq Nat
      /\ heap \in [DOMAIN heap -> Node]
  BY ForestTypes DEF ChildrenOf, Children, Shape
<1>3. \A j \in DOMAIN s : /\ s[j] \in ChildrenOf(b) /\ s[j] \in DOMAIN heap /\ s[j] # Null
                          /\ s[j] # b /\ s[j] < c /\ s[j] # c
  BY <1>1, <1>2
<1>4. s # <<>> => Len(s) \in DOMAIN s
  BY <1>1
<1>5. last # Null => last \in DOMAIN heap /\ last # b /\ s # <<>> /\ last = s[Len(s)]
  BY <1>1, <1>3, <1>4
<1>6. s # <<>> => last # Null
  BY <1>1, <1>3, <1>4
<1>7. /\ heap'[c] = NewNode(c)
      /\ heap'[b].last = c
      /\ heap'[b].first = IF last = Null THEN c ELSE heap[b].first
      /\ last # Null => heap'[last].next = c
      /\ \A a \in DOMAIN heap : a # b /\ a # last => heap'[a] = heap[a]
  <2>1. heap \in [DOMAIN heap -> Node] /\ b \in DOMAIN heap
    BY <1>2
  <2>2. last # Null => last \in DOMAIN heap /\ last # b
    BY <1>5
  <2> QED
    BY <2>1, <2>2, AddChildIs
<1>8. /\ t \in Seq(ChildrenOf(b) \cup {c}) /\ t # <<>>
      /\ Len(t) = Len(s) + 1 /\ t[Len(t)] = c
      /\ \A j \in DOMAIN s : t[j] = s[j] /\ j \in DOMAIN t /\ j < Len(t)
      /\ \A j \in DOMAIN t : j \in DOMAIN s \/ j = Len(t)
      /\ \A j, k \in DOMAIN t : j < k => j \in DOMAIN s
      /\ Len(t) \in DOMAIN t
  <2>1. s \in Seq(ChildrenOf(b) \cup {c})
    BY <1>1, SeqMonotonic
  <2> QED
    BY <2>1, OneMore
<1> HIDE DEF t
<1>9. \A p \in ChildrenOf(b) \cup {c} : \E j \in DOMAIN t : t[j] = p
  BY <1>1, <1>8
<1>10. \A j, k \in DOMAIN t : j < k => t[j] < t[k]
  <2> SUFFICES ASSUME NEW j \in DOMAIN t, NEW k \in DOMAIN t, j < k PROVE t[j] < t[k]
    OBVIOUS
  <2>1. j \in DOMAIN s /\ t[j] = s[j]
    BY <1>8
  <2>2. CASE k \in DOMAIN s
    BY <1>1, <1>8, <2>1, <2>2
  <2>3. CASE k = Len(t)
    BY <1>3, <1>8, <2>1, <2>3
  <2> QED
    BY <1>8, <2>2, <2>3
<1>11. heap'[b].first = t[1]
  <2>1. CASE s = <<>>
    <3>1. Len(t) = 1 /\ last = Null
      BY <1>1, <1>8, <2>1
    <3> QED
      BY <1>7, <1>8, <3>1
  <2>2. CASE s # <<>>
    <3>1. 1 \in DOMAIN s
      BY <1>1, <2>2
    <3>2. t[1] = s[1] /\ heap[b].first = s[1] /\ last # Null
      BY <1>1, <1>6, <1>8, <2>2, <3>1
    <3> QED
      BY <1>7, <3>2
  <2> QED
    BY <2>1, <2>2
<1>12. \A j \in DOMAIN t : heap'[t[j]].next = IF j = Len(t) THEN Null ELSE t[j + 1]
  <2> TAKE j \in DOMAIN t
  <2>1. CASE j = Len(t)
    BY <1>7, <1>8, <2>1
  <2>2. CASE j # Len(t)
    <3>1. j \in DOMAIN s /\ t[j] = s[j]
      BY <1>8, <2>2
    <3>2. CASE j = Len(s)
      <4>1. s # <<>> /\ s[j] = last
        BY <1>1, <3>1, <3>2
      <4>2. heap'[s[j]].next = c /\ t[j + 1] = c
        BY <1>6, <1>7, <1>8, <3>2, <4>1
      <4> QED
        BY <2>2, <3>1, <4>2
    <3>3. CASE j # Len(s)
      <4>1. j + 1 \in DOMAIN s /\ Len(s) \in DOMAIN s /\ j < Len(s) /\ s # <<>>
        BY <1>1, <3>1, <3>3
      <4>2. s[j] < s[Len(s)]
        BY <1>1, <3>1, <4>1
      <4>3. s[j] \in Nat /\ s[Len(s)] \in Nat
        BY <1>2, <1>3, <3>1, <4>1
      <4>4. s[j] # last /\ s[j] # b
        BY <1>1, <1>3, <3>1, <4>1, <4>2, <4>3
      <4>5. heap'[s[j]] = heap[s[j]]
        BY <1>3, <1>7, <3>1, <4>4
      <4>6. heap[s[j]].next = s[j + 1] /\ t[j + 1] = s[j + 1]
        BY <1>1, <1>8, <3>1, <3>3, <4>1
      <4> QED
        BY <2>2, <3>1, <4>5, <4>6
    <3> QED
      BY <3>2, <3>3
  <2> QED
    BY <2>1, <2>2
<1>13. ASSUME NEW u, u = t PROVE (Chain(b, u))'
  BY <1>7, <1>8, <1>9, <1>10, <1>11, <1>12, <1>13 DEF Chain
<1> QED
  BY <1>13 DEF t

LEMMA ForestChild ==
  ASSUME Shape, Forest, Branch, phase = "lines", Reading, IsDevice(Line), branch # Null,
         heap' = AddChild(heap, branch, pos), db' = db, pos' = pos + 1,
         roots' = roots, lost' = lost, room' = room
  PROVE  /\ Forest' /\ heap' \in [DOMAIN heap' -> Node]
         /\ Tops' = Tops /\ Roots' = Roots
         /\ Children' = Children \cup {pos} /\ pos \notin DOMAIN heap
         /\ DOMAIN heap' = DOMAIN heap \cup {pos}
<1>1. /\ pos \in Nat /\ pos \in DOMAIN db /\ pos \notin DOMAIN heap
      /\ DOMAIN heap \subseteq 1 .. pos - 1 /\ 1 .. pos - 1 \subseteq Nat
      /\ \A p \in DOMAIN heap : p < pos /\ p # pos
  <2>1. pos \in Nat /\ pos \in DOMAIN db /\ \A p \in 1 .. pos - 1 : p < pos /\ p # pos /\ p \in Nat
    BY NewNodeIs
  <2>2. DOMAIN heap \subseteq 1 .. pos - 1
    BY DEF Forest
  <2> QED
    BY <2>1, <2>2
<1>2. branch \in Tops /\ branch = SectionOf(pos) /\ branch \in DOMAIN heap
  BY DEF Branch, Forest
<1>3. PICK s : Chain(branch, s)
  BY <1>2 DEF Forest
<1>4. NewNode(pos) \in Node /\ NewNode(pos).next = Null /\ NewNode(pos).id = db[pos].id
  BY NewNodeIs DEF Line
<1>5. /\ heap \in [DOMAIN heap -> Node] /\ Tops \subseteq DOMAIN heap
      /\ \A p \in Children : IsDevice(db[p]) /\ SectionOf(p) \in Tops /\ p \in DOMAIN heap
      /\ \A p \in DOMAIN heap : heap[p].id = db[p].id
  BY DEF Shape, Forest, Children
<1>6. heap[branch].last # Null =>
        heap[branch].last \in ChildrenOf(branch) /\ heap[branch].last \in Children
  <2>1. /\ s \in Seq(ChildrenOf(branch))
        /\ heap[branch].last = IF s = <<>> THEN Null ELSE s[Len(s)]
    BY <1>3 DEF Chain
  <2>2. s # <<>> => s[Len(s)] \in ChildrenOf(branch)
    BY <2>1
  <2> QED
    BY <2>1, <2>2 DEF ChildrenOf
<1>7. /\ DOMAIN heap' = DOMAIN heap \cup {pos} /\ heap' \in [DOMAIN heap' -> Node]
      /\ heap'[pos] = NewNode(pos)
      /\ heap'[branch].id = heap[branch].id
      /\ heap[branch].last # Null => heap'[heap[branch].last].id = heap[heap[branch].last].id
      /\ \A a \in DOMAIN heap : a # branch /\ a # heap[branch].last => heap'[a] = heap[a]
  <2>1. heap[branch].last # Null =>
          heap[branch].last \in DOMAIN heap /\ heap[branch].last # branch
    BY <1>2, <1>6 DEF Children
  <2>2. pos \in Nat /\ pos \notin DOMAIN heap /\ branch \in DOMAIN heap
    BY <1>1, <1>2
  <2>3. heap \in [DOMAIN heap -> Node] /\ NewNode(pos) \in Node
    BY <1>4, <1>5
  <2> QED
    BY <2>1, <2>2, <2>3, AddChildIs
<1>8. Tops' = Tops /\ Roots' = Roots
  BY DEF Tops, Roots
<1>9. Children' = Children \cup {pos}
  <2>1. pos \notin Tops
    BY <1>1, <1>5
  <2> QED
    BY <1>7, <1>8, <2>1 DEF Children
<1>10. \A p : (SectionOf(p))' = SectionOf(p)
  BY Steady
<1>11. ASSUME NEW r \in Tops PROVE \E u : (Chain(r, u))'
  <2>1. CASE r = branch
    <3>1. ASSUME NEW c, c = pos PROVE (Chain(r, Append(s, c)))'
      <4>0. SectionOf(c) = r
        BY <1>2, <2>1, <3>1
      <4>1. (ChildrenOf(r))' = ChildrenOf(r) \cup {c}
        BY <1>9, <1>10, <3>1, <4>0 DEF ChildrenOf
      <4>2. /\ Chain(r, s) /\ c \in Nat /\ c \notin DOMAIN heap
            /\ \A p \in DOMAIN heap : p < c /\ p # c
            /\ NewNode(c) \in Node /\ NewNode(c).next = Null
            /\ heap' = AddChild(heap, r, c)
        BY <1>1, <1>3, <1>4, <2>1, <3>1
      <4> QED
        BY <4>1, <4>2, ChainGrows
    <3> QED
      BY <3>1
  <2>2. CASE r # branch
    <3>1. PICK u : Chain(r, u)
      BY DEF Forest
    <3>2. (ChildrenOf(r))' = ChildrenOf(r)
      BY <1>2, <1>9, <1>10, <2>2 DEF ChildrenOf
    <3>3. \A p \in ChildrenOf(r) : p \in DOMAIN heap /\ p # branch /\ p # heap[branch].last
      <4>1. \A p \in ChildrenOf(r) : p \in Children /\ SectionOf(p) = r
        BY DEF ChildrenOf
      <4>2. heap[branch].last # Null => SectionOf(heap[branch].last) = branch
        BY <1>6 DEF ChildrenOf
      <4>3. Null \notin DOMAIN heap
        BY ForestTypes
      <4> QED
        BY <1>2, <1>5, <2>2, <4>1, <4>2, <4>3 DEF Children
    <3>4. r # heap[branch].last /\ r \in DOMAIN heap
      <4>1. Null \notin DOMAIN heap
        BY ForestTypes
      <4> QED
        BY <1>5, <1>6, <4>1 DEF Children
    <3>5. heap'[r] = heap[r] /\ \A p \in ChildrenOf(r) : heap'[p] = heap[p]
      BY <1>7, <2>2, <3>3, <3>4
    <3>6. (Chain(r, u))'
      BY <3>1, <3>2, <3>5, ChainSame
    <3> QED
      BY <3>6
  <2> QED
    BY <2>1, <2>2
<1>12. \A r \in Tops' : (IsVendor(db[r]) /\ \E u : Chain(r, u))'
  BY <1>8, <1>11 DEF Forest
<1>13. \A p \in DOMAIN heap' : heap'[p].id = db'[p].id
  <2> TAKE p \in DOMAIN heap'
  <2>1. CASE p = pos
    BY <1>4, <1>7, <2>1
  <2>2. CASE p \in DOMAIN heap
    <3>1. heap'[p].id = heap[p].id
      <4>1. Null \notin DOMAIN heap
        BY ForestTypes
      <4> QED
        BY <1>7, <2>2, <4>1
    <3> QED
      BY <1>5, <2>2, <3>1
  <2> QED
    BY <1>7, <2>1, <2>2
<1>14. DOMAIN heap' \subseteq 1 .. pos' - 1 /\ Tops' \subseteq DOMAIN heap'
  <2>1. \A p \in 1 .. pos - 1 : p \in 1 .. pos
    BY <1>1
  <2>2. pos \in 1 .. pos /\ pos' - 1 = pos
    BY <1>1 DEF Reading, Shape
  <2> QED
    BY <1>1, <1>5, <1>7, <1>8, <2>1, <2>2
<1>15. \A p \in Children' : (IsDevice(db[p]) /\ SectionOf(p) \in Tops)'
  <2> TAKE p \in Children'
  <2>1. IsDevice(db[p]) /\ SectionOf(p) \in Tops
    BY <1>2, <1>5, <1>9 DEF Line
  <2> QED
    BY <1>8, <1>10, <2>1
<1>16. Len(roots') <= room' /\ (\A j, k \in DOMAIN roots : j < k => roots[j] < roots[k])'
       /\ (\A j \in DOMAIN roots : roots[j] \notin lost)'
  BY DEF Forest
<1>17. Forest'
  BY <1>12, <1>13, <1>14, <1>15, <1>16 DEF Forest
<1> QED
  BY <1>1, <1>7, <1>8, <1>9, <1>17
-----------------------------------------------------------------------------
(* A line is read                                                          *)

\* What the turns of the loop have in common.
Advance ==
  /\ phase = "lines" /\ pc = "parse" /\ pc' = pc /\ Reading /\ ~IsClass(Line)
  /\ db' = db /\ queries' = queries /\ pos' = pos + 1
  /\ failures' = 0 => failures = 0 /\ lost' = lost
  /\ Roots \subseteq Roots' /\ Tops \subseteq Tops' /\ DOMAIN heap \subseteq DOMAIN heap'
  /\ IF IsVendor(Line)
       THEN /\ branch' = Null \/ (branch' = pos /\ pos \in Tops')
            /\ failures' = 0 /\ VendorIsWanted(Line.id) => pos \in Roots' /\ branch' = pos
            /\ ~VendorIsWanted(Line.id) => Roots' = Roots
       ELSE branch' = branch /\ Roots' = Roots
  /\ /\ failures' = 0 /\ IsDevice(Line) /\ branch # Null
     /\ DeviceIsWanted(heap[branch].id, Line.id)
     => pos \in DOMAIN heap'
  /\ \A q \in resolved' :
       \/ q \in resolved
       \/ /\ IsDevice(Line) /\ branch # Null
          /\ queries[q].vendor = heap[branch].id /\ queries[q].device = Line.id

\* No query about a vendor is answered before its first line.
LEMMA FirstVendorIsWanted ==
  ASSUME Shape, Complete, Reading, IsFirstVendor(pos), VendorAsked(Line.id)
  PROVE  VendorIsWanted(Line.id)
<1>1. CASE queries = Full
  BY <1>1 DEF VendorIsWanted
<1>2. CASE queries # Full
  <2>1. PICK q \in DOMAIN queries : queries[q].vendor = Line.id
    BY <1>2 DEF VendorAsked
  <2>2. q \notin resolved
    <3>1. ASSUME q \in resolved PROVE FALSE
      <4>1. PICK r \in 1 .. pos - 1 : IsVendor(db[r]) /\ db[r].id = queries[q].vendor
        BY <3>1 DEF Complete, Answered
      <4>2. db[r].id # db[pos].id
        BY <4>1 DEF IsFirstVendor
      <4> QED
        BY <2>1, <4>1, <4>2 DEF Line
    <3> QED
      BY <3>1
  <2> QED
    BY <1>2, <2>1, <2>2 DEF VendorIsWanted, Unresolved
<1> QED
  BY <1>1, <1>2

\* The first line of a device finds its vendor's root open.
LEMMA FirstDeviceIsWanted ==
  ASSUME Shape, Forest, Branch, Complete, pc = "parse", phase = "lines", failures = 0,
         Reading, ~IsClass(Line), IsFirstDevice(pos), PairAsked(Pair(pos))
  PROVE  /\ branch = SectionOf(pos) /\ branch # Null
         /\ DeviceIsWanted(heap[branch].id, Line.id)
<1> DEFINE S == SectionOf(pos)
<1>1. /\ db \in Seq(LineOfIds) /\ pos \in Nat /\ pos \in Body /\ Body \subseteq Nat
      /\ \A q \in 1 .. pos - 1 : q \in Nat
  <2>1. db \in Seq(LineOfIds)
    BY DEF Shape
  <2>2. pos \in Body
    BY NextSection
  <2> QED
    BY <2>1, <2>2, BodyLines
<1>2. /\ S # Null /\ IsFirstVendor(S) /\ S \in Body /\ S < pos /\ S \in Nat
  BY <1>1, SectionIs DEF IsFirstDevice
<1>3. S \in 1 .. pos - 1
  BY <1>1, <1>2 DEF Null
<1>4. VendorAsked(db[S].id)
  <2>1. Pair(pos) = [vendor |-> db[S].id, device |-> db[pos].id]
    BY DEF Pair
  <2>2. Pair(pos).vendor = db[S].id
    BY <2>1
  <2> HIDE DEF S
  <2> QED
    BY <2>2 DEF VendorAsked, PairAsked
<1>5. S \in Roots
  BY <1>2, <1>3, <1>4 DEF Complete, Stored
<1>6. branch = S
  BY <1>5 DEF Complete, Stored
<1>7. heap[branch].id = db[S].id
  <2>1. S \in DOMAIN heap
    BY <1>5 DEF Forest, Tops, Roots
  <2> QED
    BY <1>6, <2>1 DEF Forest
<1>8. DeviceIsWanted(heap[branch].id, Line.id)
  <2>1. CASE queries = Full
    BY <2>1 DEF DeviceIsWanted
  <2>2. CASE queries # Full
    <3>1. PICK q \in DOMAIN queries : queries[q] = Pair(pos)
      BY <2>2 DEF PairAsked
    <3>2. queries[q].vendor = heap[branch].id /\ queries[q].device = Line.id
      BY <1>7, <3>1 DEF Pair, Line
    <3>3. q \notin resolved
      <4>1. ASSUME q \in resolved PROVE FALSE
        <5>1. pos < pos
          BY <1>1, <3>1, <4>1 DEF Complete, Answered
        <5> QED
          BY <1>1, <5>1
      <4> QED
        BY <4>1
    <3> QED
      BY <2>2, <3>1, <3>2, <3>3 DEF DeviceIsWanted, Answers, Unresolved
  <2> QED
    BY <2>1, <2>2
<1> QED
  BY <1>2, <1>6, <1>8

\* The section of the line that comes next.
LEMMA SectionMoves ==
  ASSUME db' = db, pos' = pos + 1
  PROVE  (SectionOf(pos))' = SectionOf(pos + 1)
<1>1. Body' = Body
  BY Steady
<1> QED
  BY <1>1 DEF SectionOf

LEMMA AdvanceBranch ==
  ASSUME Shape, Forest, Branch, Advance
  PROVE  Branch'
<1>1. (SectionOf(pos))' = IF IsVendor(Line) THEN pos ELSE SectionOf(pos)
  BY SectionMoves, NextSection DEF Advance
<1>2. CASE IsVendor(Line)
  BY <1>1, <1>2 DEF Advance, Branch
<1>3. CASE ~IsVendor(Line)
  BY <1>1, <1>3 DEF Advance, Branch
<1> QED
  BY <1>2, <1>3

LEMMA AdvanceStored ==
  ASSUME Shape, Forest, Branch, Complete, Advance
  PROVE  Stored'
<1> SUFFICES ASSUME failures' = 0
             PROVE  /\ lost' = {}
                    /\ (phase = "lines" => (SectionOf(pos) \in Roots => branch = SectionOf(pos)))'
                    /\ \A p \in 1 .. pos' - 1 :
                         /\ (IsFirstVendor(p) /\ VendorAsked(db[p].id) => p \in Roots)'
                         /\ (IsFirstDevice(p) /\ PairAsked(Pair(p)) => p \in DOMAIN heap)'
  BY DEF Stored
<1>1. /\ phase = "lines" /\ pc = "parse" /\ Reading /\ ~IsClass(Line)
      /\ db' = db /\ queries' = queries /\ pos' = pos + 1
      /\ failures = 0 /\ lost' = lost
      /\ Roots \subseteq Roots' /\ DOMAIN heap \subseteq DOMAIN heap'
  BY DEF Advance
<1>2. /\ lost = {}
      /\ SectionOf(pos) \in Roots => branch = SectionOf(pos)
      /\ \A p \in 1 .. pos - 1 :
           /\ IsFirstVendor(p) /\ VendorAsked(db[p].id) => p \in Roots
           /\ IsFirstDevice(p) /\ PairAsked(Pair(p)) => p \in DOMAIN heap
  BY <1>1 DEF Complete, Stored
<1>3. /\ \A p : (SectionOf(p))' = SectionOf(p) /\ (Pair(p))' = Pair(p)
      /\ \A p : (IsFirstVendor(p))' <=> IsFirstVendor(p)
      /\ \A p : (IsFirstDevice(p))' <=> IsFirstDevice(p)
  BY <1>1, Steady
<1>4. /\ \A v : (VendorAsked(v))' <=> VendorAsked(v)
      /\ \A x : (PairAsked(x))' <=> PairAsked(x)
  BY <1>1 DEF VendorAsked, PairAsked
<1>5. (SectionOf(pos) \in Roots => branch = SectionOf(pos))'
  <2>1. (SectionOf(pos))' = IF IsVendor(Line) THEN pos ELSE SectionOf(pos)
    BY <1>1, SectionMoves, NextSection
  <2>2. CASE IsVendor(Line)
    <3>1. pos \notin Roots
      <4>1. pos \in Nat /\ Roots \subseteq DOMAIN heap /\ DOMAIN heap \subseteq 1 .. pos - 1
        BY <1>1, NewNodeIs DEF Forest, Tops, Roots
      <4> QED
        BY <4>1
    <3>2. pos \in Roots' => branch' = pos
      BY <2>2, <3>1 DEF Advance
    <3> QED
      BY <2>1, <2>2, <3>2
  <2>3. CASE ~IsVendor(Line)
    BY <1>2, <2>1, <2>3 DEF Advance
  <2> QED
    BY <2>2, <2>3
<1>6. \A p \in 1 .. pos' - 1 : p \in 1 .. pos - 1 \/ p = pos
  BY <1>1, NewNodeIs
<1>7. IsFirstVendor(pos) /\ VendorAsked(db[pos].id) => pos \in Roots'
  <2> SUFFICES ASSUME IsFirstVendor(pos), VendorAsked(db[pos].id) PROVE pos \in Roots'
    OBVIOUS
  <2>1. IsVendor(Line)
    BY DEF IsFirstVendor, Line
  <2>2. VendorIsWanted(Line.id)
    BY <1>1, FirstVendorIsWanted DEF Line
  <2> QED
    BY <2>1, <2>2 DEF Advance
<1>8. IsFirstDevice(pos) /\ PairAsked(Pair(pos)) => pos \in DOMAIN heap'
  <2> SUFFICES ASSUME IsFirstDevice(pos), PairAsked(Pair(pos)) PROVE pos \in DOMAIN heap'
    OBVIOUS
  <2>1. IsDevice(Line)
    BY DEF IsFirstDevice, Line
  <2>2. branch # Null /\ DeviceIsWanted(heap[branch].id, Line.id)
    BY <1>1, FirstDeviceIsWanted
  <2> QED
    BY <2>1, <2>2 DEF Advance
<1>9. ASSUME NEW p \in 1 .. pos' - 1
      PROVE  /\ (IsFirstVendor(p) /\ VendorAsked(db[p].id) => p \in Roots)'
             /\ (IsFirstDevice(p) /\ PairAsked(Pair(p)) => p \in DOMAIN heap)'
  <2>1. (VendorAsked(db[p].id))' <=> VendorAsked(db[p].id)
    BY <1>1 DEF VendorAsked
  <2>2. (PairAsked(Pair(p)))' <=> PairAsked(Pair(p))
    BY <1>1, <1>3 DEF PairAsked
  <2>3. CASE p \in 1 .. pos - 1
    BY <1>1, <1>2, <1>3, <2>1, <2>2, <2>3
  <2>4. CASE p = pos
    BY <1>1, <1>3, <1>7, <1>8, <2>1, <2>2, <2>4
  <2> QED
    BY <1>6, <2>3, <2>4
<1> QED
  BY <1>1, <1>2, <1>5, <1>9

\* A device line that answers a query is the first of its kind, or the first
\* has been passed.
LEMMA AnswerIsNotEarly ==
  ASSUME Shape, Forest, Branch, phase = "lines", Reading, IsDevice(Line), branch # Null,
         NEW p \in Body, IsFirstDevice(p),
         db[SectionOf(p)].id = heap[branch].id, db[p].id = Line.id
  PROVE  p < pos + 1
<1> SUFFICES ASSUME ~ (p < pos + 1) PROVE FALSE
  OBVIOUS
<1>1. /\ db \in Seq(LineOfIds) /\ p \in Nat /\ pos \in Nat /\ pos < p /\ pos \in 1 .. p - 1
      /\ Body \subseteq Nat
  <2>1. db \in Seq(LineOfIds) /\ pos \in 1 .. Len(db)
    BY DEF Shape, Reading
  <2>2. Body \subseteq 1 .. Len(db) /\ Len(db) \in Nat
    BY <2>1, BodyLines
  <2>3. p \in Nat /\ pos \in Nat /\ 1 <= pos
    BY <2>1, <2>2
  <2> QED
    BY <2>1, <2>2, <2>3
<1>2. /\ branch \in Tops /\ branch = SectionOf(pos) /\ heap[branch].id = db[branch].id
      /\ branch \in Body /\ branch < pos /\ branch \in Nat /\ IsVendor(db[branch])
  <2>1. branch \in Tops /\ branch = SectionOf(pos)
    BY DEF Branch
  <2>2. branch \in DOMAIN heap /\ IsVendor(db[branch])
    BY <2>1 DEF Forest
  <2> QED
    BY <2>1, <2>2, ForestTypes
<1> DEFINE S == SectionOf(p)
<1>3. S # Null /\ S \in Nat /\ branch <= S /\ S < p /\ IsFirstVendor(S)
  <2>1. S # Null /\ IsFirstVendor(S)
    BY DEF IsFirstDevice
  <2>2. branch < p
    BY <1>1, <1>2
  <2> QED
    BY <1>1, <1>2, <2>1, <2>2, SectionIs
<1>4. ~ (branch \in 1 .. S - 1)
  BY <1>2, <1>3 DEF IsFirstVendor
<1>5. S = branch
  <2>1. 1 <= branch
    BY <1>2 DEF Null
  <2> HIDE DEF S
  <2> QED
    BY <1>2, <1>3, <1>4, <2>1
<1> QED
  BY <1>1, <1>2, <1>5 DEF IsFirstDevice, Line

LEMMA AdvanceAnswered ==
  ASSUME Shape, Forest, Branch, Complete, Advance
  PROVE  Answered'
<1>1. /\ phase = "lines" /\ Reading /\ db' = db /\ queries' = queries /\ pos' = pos + 1
      /\ pos \in Nat
  BY NewNodeIs DEF Advance
<1>2. /\ Body' = Body
      /\ \A p : (IsFirstDevice(p))' <=> IsFirstDevice(p)
      /\ \A p : (Pair(p))' = Pair(p)
  BY <1>1, Steady
<1>3. ASSUME NEW q \in resolved'
      PROVE  /\ \E r \in 1 .. pos' - 1 : IsVendor(db[r]) /\ db[r].id = queries[q].vendor
             /\ \A p \in Body : IsFirstDevice(p) /\ Pair(p) = queries[q] => p < pos'
  <2>1. CASE q \in resolved
    <3>1. PICK r \in 1 .. pos - 1 : IsVendor(db[r]) /\ db[r].id = queries[q].vendor
      BY <2>1 DEF Complete, Answered
    <3>2. r \in 1 .. pos' - 1
      BY <1>1
    <3>3. \A p \in Body : IsFirstDevice(p) /\ Pair(p) = queries[q] => p < pos'
      <4>1. \A p \in Body : IsFirstDevice(p) /\ Pair(p) = queries[q] => p < pos
        BY <2>1 DEF Complete, Answered
      <4>2. Body \subseteq Nat
        BY BodyLines DEF Shape
      <4> QED
        BY <1>1, <4>1, <4>2
    <3> QED
      BY <3>1, <3>2, <3>3
  <2>2. CASE q \notin resolved
    <3>1. /\ IsDevice(Line) /\ branch # Null
          /\ queries[q].vendor = heap[branch].id /\ queries[q].device = Line.id
      BY <2>2 DEF Advance
    <3>2. branch \in DOMAIN heap /\ IsVendor(db[branch]) /\ heap[branch].id = db[branch].id
      BY <1>1, <3>1 DEF Branch, Forest
    <3>3. branch \in 1 .. pos' - 1
      BY <1>1, <3>2 DEF Forest
    <3>4. ASSUME NEW p \in Body, IsFirstDevice(p), Pair(p) = queries[q] PROVE p < pos + 1
      <4>1. db[SectionOf(p)].id = heap[branch].id /\ db[p].id = Line.id
        BY <3>1, <3>4 DEF Pair
      <4> QED
        BY <1>1, <3>1, <3>4, <4>1, AnswerIsNotEarly
    <3> QED
      BY <1>1, <3>1, <3>2, <3>3, <3>4
  <2> QED
    BY <2>1, <2>2
<1> QED
  BY <1>1, <1>2, <1>3 DEF Answered

LEMMA ShapeMoves ==
  ASSUME Shape, Advance, heap' \in [DOMAIN heap' -> Node], roots' \in Seq(Nat),
         room' \in Nat, failures' \in Nat, branch' \in Nat, resolved' \subseteq Asks,
         remaining' \in Nat, phase' \in {"lines", "parsed"}
  PROVE  Shape'
<1>1. /\ db' = db /\ queries' = queries /\ pos' = pos + 1 /\ Reading /\ ~IsClass(Line)
  BY DEF Advance
<1>2. pos' \in 1 .. Len(db) + 1
  <2>1. db \in Seq(LineOfIds) /\ pos \in 1 .. Len(db) + 1
    BY DEF Shape
  <2>2. Len(db) \in Nat
    BY <2>1
  <2>3. pos \in Nat /\ 1 <= pos
    BY <2>1, <2>2
  <2>4. pos <= Len(db) /\ pos' = pos + 1
    BY <1>1 DEF Reading
  <2> QED
    BY <2>2, <2>3, <2>4
<1>3. \A q \in 1 .. pos' - 1 : ~IsClass(db[q])
  <2>1. pos \in Nat /\ \A q \in 1 .. pos - 1 : ~IsClass(db[q])
    BY DEF Shape
  <2>2. \A q \in 1 .. pos' - 1 : q \in 1 .. pos - 1 \/ q = pos
    BY <1>1, <2>1
  <2> QED
    BY <1>1, <2>1, <2>2 DEF Line
<1>4. Asks' = Asks
  BY <1>1 DEF Asks
<1> QED
  BY <1>1, <1>2, <1>3, <1>4 DEF Shape

LEMMA ForestStays ==
  ASSUME Shape, Forest, Reading, db' = db, pos' = pos + 1, heap' = heap, roots' = roots,
         lost' = lost, room' = room
  PROVE  /\ Forest' /\ Tops' = Tops /\ Children' = Children /\ Roots' = Roots
         /\ heap' \in [DOMAIN heap' -> Node]
<1>1. Tops' = Tops /\ Roots' = Roots
  BY DEF Tops, Roots
<1>2. Children' = Children
  BY <1>1 DEF Children
<1>3. \A p : (SectionOf(p))' = SectionOf(p)
  BY Steady
<1>4. \A r : (ChildrenOf(r))' = ChildrenOf(r)
  BY <1>2, <1>3 DEF ChildrenOf
<1>5. ASSUME NEW r \in Tops PROVE \E s : (Chain(r, s))'
  <2>1. PICK s : Chain(r, s)
    BY DEF Forest
  <2>2. (Chain(r, s))'
    BY <1>4, <2>1, ChainSame
  <2> QED
    BY <2>2
<1>6. \A r \in Tops' : (IsVendor(db[r]) /\ \E u : Chain(r, u))'
  BY <1>1, <1>5 DEF Forest
<1>7. \A p \in Children' : (IsDevice(db[p]) /\ SectionOf(p) \in Tops)'
  BY <1>1, <1>2, <1>3 DEF Forest
<1>8. DOMAIN heap' \subseteq 1 .. pos' - 1
  <2>1. \A p \in 1 .. pos - 1 : p \in 1 .. pos' - 1
    BY DEF Shape
  <2> QED
    BY <2>1 DEF Forest
<1>9. Forest'
  BY <1>1, <1>6, <1>7, <1>8 DEF Forest
<1> QED
  BY <1>1, <1>2, <1>9 DEF Shape

\* Asked, when no query is answered and no device is stored.
LEMMA AskedStays ==
  ASSUME Asked, db' = db, queries' = queries, resolved' = resolved,
         remaining' = remaining, phase = "lines", Children' = Children,
         queries # Full =>
           \A r \in Tops' : r \in Tops \/ \E q \in DOMAIN queries : queries[q].vendor = db[r].id
  PROVE  Asked'
<1> SUFFICES ASSUME queries # Full
             PROVE  /\ remaining' = Cardinality(Unresolved')
                    /\ remaining' > 0
                    /\ \A r \in Tops' : \E q \in DOMAIN queries' : queries'[q].vendor = db'[r].id
                    /\ \A p \in Children' :
                         (/\ \E q \in DOMAIN queries : queries[q] = Pair(p)
                          /\ \A q \in DOMAIN queries : queries[q] = Pair(p) => q \in resolved
                          /\ \A p2 \in Children : Pair(p) = Pair(p2) => p = p2)'
  BY DEF Asked
<1>1. \A p : (Pair(p))' = Pair(p)
  BY Steady
<1>2. Unresolved' = Unresolved
  BY DEF Unresolved
<1>3. remaining = Cardinality(Unresolved) /\ remaining > 0
  BY DEF Asked
<1>4. \A r \in Tops' : \E q \in DOMAIN queries' : queries'[q].vendor = db'[r].id
  BY DEF Asked
<1>5. ASSUME NEW p \in Children
      PROVE  (/\ \E q \in DOMAIN queries : queries[q] = Pair(p)
              /\ \A q \in DOMAIN queries : queries[q] = Pair(p) => q \in resolved
              /\ \A p2 \in Children : Pair(p) = Pair(p2) => p = p2)'
  <2>1. /\ \E q \in DOMAIN queries : queries[q] = Pair(p)
        /\ \A q \in DOMAIN queries : queries[q] = Pair(p) => q \in resolved
        /\ \A p2 \in Children : Pair(p) = Pair(p2) => p = p2
    BY DEF Asked
  <2> QED
    BY <1>1, <2>1
<1> QED
  BY <1>2, <1>3, <1>4, <1>5

\* What is left when a line has been read, whatever it was.
LEMMA AdvanceKeeps ==
  ASSUME IInv, Advance, Shape', Forest', Asked', Ended', UNCHANGED hwVars,
         phase' \in {"lines", "parsed"}, room' \in Nat, room' # 0
  PROVE  IInv'
<1>1. Branch'
  BY AdvanceBranch DEF IInv
<1>2. Complete'
  BY AdvanceAnswered, AdvanceStored DEF IInv, Complete
<1>3. /\ phase = "lines" /\ pc = "parse" /\ pc' = pc /\ db' = db /\ queries' = queries
      /\ list' = list /\ names' = names /\ client' = client /\ printed' = printed
      /\ names = <<>>
  BY DEF Advance, hwVars, IInv, Client
<1>4. Client'
  <2>1. Kept' = Kept
    BY <1>3 DEF Kept
  <2>2. Names' = Names
    BY <1>3 DEF Names
  <2> QED
    BY <1>3, <2>1, <2>2 DEF IInv, Client
<1>5. NamesAreTrue' /\ NamesAreComplete'
  BY <1>3 DEF NamesAreTrue, NamesAreComplete
<1> QED
  BY <1>1, <1>2, <1>4, <1>5 DEF IInv
-----------------------------------------------------------------------------
(* Each kind of line                                                       *)

\* What holds at the top of every turn.
LEMMA TurnFacts ==
  ASSUME IInv, ParseLine, Reading
  PROVE  /\ Shape /\ Forest /\ Branch /\ Asked /\ Complete /\ Client
         /\ pc = "parse" /\ pc' = pc /\ phase = "lines" /\ UNCHANGED hwVars
         /\ pos \in Nat /\ pos \in DOMAIN db /\ room \in Nat /\ room # 0 /\ branch \in Nat
         /\ failures \in Nat /\ remaining \in Nat /\ ~AllAnswered(remaining)
         /\ roots \in Seq(Nat) /\ resolved \subseteq Asks
<1>1. Shape /\ Forest /\ Branch /\ Asked /\ Complete /\ Client
  BY DEF IInv
<1>2. phase = "lines" /\ pc = "parse" /\ pc' = pc /\ UNCHANGED hwVars
  BY DEF ParseLine, Reading
<1>3. ~AllAnswered(remaining)
  <2>1. queries # Full => remaining > 0 /\ remaining \in Nat
    BY <1>1, <1>2 DEF Asked, Shape
  <2> QED
    BY <2>1 DEF AllAnswered
<1> QED
  BY <1>1, <1>2, <1>3, NewNodeIs DEF Shape, Client

LEMMA SkipLineKeeps ==
  ASSUME IInv, ParseLine, SkipLine
  PROVE  IInv'
<1>1. /\ Reading /\ ~IsClass(Line) /\ IsSkipped(Line) /\ pos' = pos + 1
      /\ db' = db /\ queries' = queries /\ phase' = phase /\ branch' = branch
      /\ resolved' = resolved /\ remaining' = remaining /\ failures' = failures
      /\ heap' = heap /\ roots' = roots /\ room' = room /\ lost' = lost
  BY DEF SkipLine, forest
<1>2. ~IsVendor(Line) /\ ~IsDevice(Line)
  BY <1>1 DEF IsVendor, IsDevice
<1>3. /\ Forest' /\ Tops' = Tops /\ Children' = Children /\ Roots' = Roots
      /\ heap' \in [DOMAIN heap' -> Node]
  BY <1>1, TurnFacts, ForestStays
<1>4. Advance
  BY <1>1, <1>2, <1>3, TurnFacts DEF Advance
<1>5. Shape'
  BY <1>1, <1>3, <1>4, TurnFacts, ShapeMoves
<1>6. Asked'
  BY <1>1, <1>3, TurnFacts, AskedStays
<1>7. Ended'
  BY <1>1, TurnFacts DEF Ended
<1> QED
  BY <1>1, <1>3, <1>4, <1>5, <1>6, <1>7, TurnFacts, AdvanceKeeps

LEMMA UnwantedVendorKeeps ==
  ASSUME IInv, ParseLine, UnwantedVendor
  PROVE  IInv'
<1>1. /\ Reading /\ IsVendor(Line) /\ ~VendorIsWanted(Line.id) /\ pos' = pos + 1
      /\ db' = db /\ queries' = queries /\ branch' = Null
      /\ resolved' = resolved /\ remaining' = remaining /\ failures' = failures
      /\ heap' = heap /\ roots' = roots /\ room' = room /\ lost' = lost
      /\ phase' = IF AllAnswered(remaining) THEN "parsed" ELSE phase
  BY DEF UnwantedVendor, Continue, forest
<1>2. ~IsClass(Line) /\ ~IsDevice(Line) /\ phase' = "lines" /\ Null \in Nat
  BY <1>1, TurnFacts DEF IsVendor, IsDevice, Null
<1>3. /\ Forest' /\ Tops' = Tops /\ Children' = Children /\ Roots' = Roots
      /\ heap' \in [DOMAIN heap' -> Node]
  BY <1>1, TurnFacts, ForestStays
<1>4. Advance
  BY <1>1, <1>2, <1>3, TurnFacts DEF Advance
<1>5. Shape'
  BY <1>1, <1>2, <1>3, <1>4, TurnFacts, ShapeMoves
<1>6. Asked'
  BY <1>1, <1>3, TurnFacts, AskedStays
<1>7. Ended'
  BY <1>2 DEF Ended
<1> QED
  BY <1>1, <1>2, <1>3, <1>4, <1>5, <1>6, <1>7, TurnFacts, AdvanceKeeps

LEMMA VendorFailsKeeps ==
  ASSUME IInv, ParseLine, VendorFails
  PROVE  IInv'
<1>1. /\ Reading /\ IsVendor(Line) /\ VendorIsWanted(Line.id) /\ pos' = pos + 1
      /\ db' = db /\ queries' = queries /\ branch' = Null
      /\ resolved' = resolved /\ remaining' = remaining /\ failures' = failures + 1
      /\ heap' = heap /\ roots' = roots /\ room' = room /\ lost' = lost
      /\ phase' = IF AllAnswered(remaining) THEN "parsed" ELSE phase
  BY DEF VendorFails, Continue, forest, Fail
<1>2. ~IsClass(Line) /\ ~IsDevice(Line) /\ phase' = "lines" /\ Null \in Nat
  BY <1>1, TurnFacts DEF IsVendor, IsDevice, Null
<1>3. /\ Forest' /\ Tops' = Tops /\ Children' = Children /\ Roots' = Roots
      /\ heap' \in [DOMAIN heap' -> Node]
  BY <1>1, TurnFacts, ForestStays
<1>4. failures' \in Nat /\ failures' # 0
  BY <1>1, TurnFacts
<1>5. Advance
  BY <1>1, <1>2, <1>3, <1>4, TurnFacts DEF Advance
<1>6. Shape'
  BY <1>1, <1>2, <1>3, <1>4, <1>5, TurnFacts, ShapeMoves
<1>7. Asked'
  BY <1>1, <1>3, TurnFacts, AskedStays
<1>8. Ended'
  BY <1>2 DEF Ended
<1> QED
  BY <1>1, <1>2, <1>3, <1>5, <1>6, <1>7, <1>8, TurnFacts, AdvanceKeeps

LEMMA UnwantedDeviceKeeps ==
  ASSUME IInv, ParseLine, UnwantedDevice
  PROVE  IInv'
<1>1. /\ Reading /\ IsDevice(Line) /\ pos' = pos + 1
      /\ branch # Null => ~DeviceIsWanted(heap[branch].id, Line.id)
      /\ db' = db /\ queries' = queries /\ branch' = branch
      /\ resolved' = resolved /\ remaining' = remaining /\ failures' = failures
      /\ heap' = heap /\ roots' = roots /\ room' = room /\ lost' = lost
      /\ phase' = IF AllAnswered(remaining) THEN "parsed" ELSE phase
  BY DEF UnwantedDevice, Continue, forest
<1>2. ~IsClass(Line) /\ ~IsVendor(Line) /\ phase' = "lines"
  <2>1. ~IsVendor(Line)
    BY <1>1, TurnFacts, LineTypes DEF Line, Shape
  <2> QED
    BY <1>1, <2>1, TurnFacts DEF IsDevice
<1>3. /\ Forest' /\ Tops' = Tops /\ Children' = Children /\ Roots' = Roots
      /\ heap' \in [DOMAIN heap' -> Node]
  BY <1>1, TurnFacts, ForestStays
<1>4. Advance
  BY <1>1, <1>2, <1>3, TurnFacts DEF Advance
<1>5. Shape'
  BY <1>1, <1>2, <1>3, <1>4, TurnFacts, ShapeMoves
<1>6. Asked'
  BY <1>1, <1>3, TurnFacts, AskedStays
<1>7. Ended'
  BY <1>2 DEF Ended
<1> QED
  BY <1>1, <1>2, <1>3, <1>4, <1>5, <1>6, <1>7, TurnFacts, AdvanceKeeps

LEMMA WantedVendorKeeps ==
  ASSUME IInv, ParseLine, WantedVendor
  PROVE  IInv'
<1>1. /\ Reading /\ IsVendor(Line) /\ VendorIsWanted(Line.id) /\ pos' = pos + 1
      /\ db' = db /\ queries' = queries /\ branch' = pos
      /\ resolved' = resolved /\ remaining' = remaining
      /\ heap' = With(heap, pos, NewNode(pos))
      /\ phase' = IF AllAnswered(remaining) THEN "parsed" ELSE phase
      /\ \/ /\ roots' = Append(roots, pos)
            /\ room' = IF Len(roots) = room THEN 2 * room ELSE room
            /\ lost' = lost /\ failures' = failures
         \/ /\ failures' = failures + 1 /\ lost' = lost \cup {pos}
            /\ roots' = roots /\ room' = room
  BY DEF WantedVendor, Continue, Fail
<1>2. ~IsClass(Line) /\ ~IsDevice(Line) /\ phase' = "lines"
  BY <1>1, TurnFacts DEF IsVendor, IsDevice
<1>3. /\ Forest' /\ heap' \in [DOMAIN heap' -> Node] /\ roots' \in Seq(Nat)
      /\ Tops' = Tops \cup {pos} /\ Children' = Children
      /\ Roots' = IF roots' = roots THEN Roots ELSE Roots \cup {pos}
      /\ DOMAIN heap' = DOMAIN heap \cup {pos}
  BY <1>1, TurnFacts, ForestRoot
<1>4. room' \in Nat /\ room' # 0 /\ failures' \in Nat
  BY <1>1, TurnFacts
<1>5. failures' = 0 => failures = 0 /\ lost' = lost /\ pos \in Roots'
  <2>1. roots' = Append(roots, pos) => roots' # roots
    BY TurnFacts, OneMore
  <2> QED
    BY <1>1, <1>3, <2>1, TurnFacts
<1>6. Advance
  BY <1>1, <1>2, <1>3, <1>5, TurnFacts DEF Advance
<1>7. Shape'
  BY <1>1, <1>2, <1>3, <1>4, <1>6, TurnFacts, ShapeMoves
<1>8. Asked'
  <2>1. queries # Full => \E q \in DOMAIN queries : queries[q].vendor = Line.id
    BY <1>1 DEF VendorIsWanted, Unresolved
  <2>2. queries # Full => \A r \in Tops' :
          r \in Tops \/ \E q \in DOMAIN queries : queries[q].vendor = db[r].id
    BY <1>3, <2>1 DEF Line
  <2> QED
    BY <1>1, <1>3, <2>2, TurnFacts, AskedStays
<1>9. Ended'
  BY <1>2 DEF Ended
<1> QED
  BY <1>1, <1>2, <1>3, <1>4, <1>6, <1>7, <1>8, <1>9, TurnFacts, AdvanceKeeps

\* The classes begin, or the file ends: every line has been passed that counts.
LEMMA EndOfIdsKeeps ==
  ASSUME IInv, ParseLine, EndOfIds
  PROVE  IInv'
<1>1. /\ phase = "lines" /\ phase' = "parsed" /\ pc = "parse" /\ pc' = pc
      /\ IF pos <= Len(db) THEN IsClass(Line) ELSE TRUE
      /\ db' = db /\ queries' = queries /\ pos' = pos /\ branch' = branch
      /\ resolved' = resolved /\ remaining' = remaining /\ failures' = failures
      /\ heap' = heap /\ roots' = roots /\ room' = room /\ lost' = lost
      /\ list' = list /\ names' = names /\ client' = client /\ printed' = printed
  BY DEF EndOfIds, forest, parsing, ParseLine, hwVars
<1>2. Shape'
  <2>1. Asks' = Asks
    BY <1>1 DEF Asks
  <2> QED
    BY <1>1, <2>1 DEF Shape, IInv
<1>3. /\ Tops' = Tops /\ Roots' = Roots
      /\ \A p : (SectionOf(p))' = SectionOf(p)
      /\ \A p : (Pair(p))' = Pair(p)
      /\ \A p : (IsFirstVendor(p))' <=> IsFirstVendor(p)
      /\ \A p : (IsFirstDevice(p))' <=> IsFirstDevice(p)
      /\ Body' = Body
  BY <1>1, Steady DEF Tops, Roots
<1>4. Children' = Children
  BY <1>1, <1>3 DEF Children
<1>5. \A r : (ChildrenOf(r))' = ChildrenOf(r)
  BY <1>3, <1>4 DEF ChildrenOf
<1>6. Forest'
  <2>1. ASSUME NEW r \in Tops PROVE \E s : (Chain(r, s))'
    <3>1. PICK s : Chain(r, s)
      BY DEF IInv, Forest
    <3>2. (Chain(r, s))'
      BY <1>1, <1>5, <3>1, ChainSame
    <3> QED
      BY <3>2
  <2>2. \A r \in Tops' : (IsVendor(db[r]) /\ \E u : Chain(r, u))'
    BY <1>1, <1>3, <2>1 DEF Forest, IInv
  <2>3. \A p \in Children' : (IsDevice(db[p]) /\ SectionOf(p) \in Tops)'
    BY <1>1, <1>3, <1>4 DEF Forest, IInv
  <2> QED
    BY <1>1, <1>3, <2>2, <2>3 DEF Forest, IInv
<1>7. Asked'
  <2>1. \A r \in Tops' : r \in Tops
    BY <1>3
  <2> QED
    BY <1>1, <1>4, <2>1, AskedStays DEF IInv
<1>8. Answered'
  BY <1>1, <1>3 DEF Answered, Complete, IInv
<1>9. Stored'
  <2>1. \A v : (VendorAsked(v))' <=> VendorAsked(v)
    BY <1>1 DEF VendorAsked
  <2>2. \A x : (PairAsked(x))' <=> PairAsked(x)
    BY <1>1 DEF PairAsked
  <2>3. \A p : (VendorAsked(db[p].id))' <=> VendorAsked(db[p].id)
    BY <1>1 DEF VendorAsked
  <2>4. \A p : (PairAsked(Pair(p)))' <=> PairAsked(Pair(p))
    BY <1>1, <1>3 DEF PairAsked
  <2> QED
    BY <1>1, <1>3, <2>3, <2>4 DEF Stored, Complete, IInv
<1>10. Ended'
  <2>1. ASSUME NEW p \in Body PROVE p < pos
    <3>1. /\ db \in Seq(LineOfIds) /\ pos \in 1 .. Len(db) + 1
      BY DEF IInv, Shape
    <3>2. p \in 1 .. Len(db) /\ Len(db) \in Nat /\ \A q \in 1 .. p : q \in Body
      BY <3>1, BodyLines
    <3>3. CASE pos <= Len(db)
      <4>1. ~ (pos \in 1 .. p)
        <5>1. ASSUME pos \in 1 .. p PROVE FALSE
          <6>1. pos \in Body /\ pos \in 1 .. pos
            BY <3>1, <3>2, <5>1
          <6>2. ~IsClass(db[pos])
            BY <6>1 DEF Body
          <6> QED
            BY <1>1, <3>3, <6>2 DEF Line
        <5> QED
          BY <5>1
      <4> QED
        BY <3>1, <3>2, <4>1
    <3>4. CASE ~ (pos <= Len(db))
      BY <3>1, <3>2, <3>4
    <3> QED
      BY <3>3, <3>4
  <2> QED
    BY <1>1, <1>3, <2>1 DEF Ended
<1>11. Branch'
  BY <1>1 DEF Branch
<1>12. Client'
  <2>1. Kept' = Kept
    BY <1>1 DEF Kept
  <2>2. Names' = Names
    BY <1>1 DEF Names
  <2> QED
    BY <1>1, <2>1, <2>2 DEF IInv, Client
<1>13. NamesAreTrue' /\ NamesAreComplete'
  <2>1. names = <<>>
    BY <1>1 DEF IInv, Client
  <2> QED
    BY <1>1, <2>1 DEF NamesAreTrue, NamesAreComplete
<1> QED
  BY <1>2, <1>6, <1>7, <1>8, <1>9, <1>10, <1>11, <1>12, <1>13 DEF IInv, Complete

\* A device answers the queries that name it, and no others.
LEMMA AnswersAre ==
  ASSUME Shape, queries # Full, NEW v, NEW d
  PROVE  /\ Answers(v, d) \subseteq Unresolved /\ Unresolved \subseteq DOMAIN queries
         /\ IsFiniteSet(Unresolved) /\ Cardinality(Unresolved) \in Nat
         /\ Cardinality(Answers(v, d)) \in Nat
         /\ Cardinality(Answers(v, d)) <= Cardinality(Unresolved)
         /\ Cardinality(Unresolved \ Answers(v, d)) =
              Cardinality(Unresolved) - Cardinality(Answers(v, d))
         /\ \A q \in DOMAIN queries :
              queries[q] = [vendor |-> queries[q].vendor, device |-> queries[q].device]
<1> DEFINE U == Unresolved
           A == Answers(v, d)
<1>1. queries \in Seq(Cards)
  BY DEF Shape
<1>2. A \subseteq U /\ U \subseteq DOMAIN queries
  BY DEF Answers, Unresolved
<1>3. IsFiniteSet(DOMAIN queries)
  <2>1. DOMAIN queries = 1 .. Len(queries) /\ 1 \in Int /\ Len(queries) \in Int
    BY <1>1
  <2> QED
    BY <2>1, FS_Interval
<1>4. \A q \in DOMAIN queries :
        queries[q] = [vendor |-> queries[q].vendor, device |-> queries[q].device]
  <2>1. \A q \in DOMAIN queries : queries[q] \in [vendor : Nat, device : Nat]
    BY <1>1, CardAssumption
  <2> QED
    BY <2>1
<1> HIDE DEF U, A
<1>5. IsFiniteSet(U)
  BY <1>2, <1>3, FS_Subset
<1>6. IsFiniteSet(A) /\ Cardinality(A) <= Cardinality(U)
  BY <1>2, <1>5, FS_Subset
<1>7. IsFiniteSet(U \ A)
  BY <1>5, FS_Subset
<1>8. Cardinality(A) \in Nat /\ Cardinality(U) \in Nat /\ Cardinality(U \ A) \in Nat
  BY <1>5, <1>6, <1>7, FS_CardinalityType
<1>9. Cardinality(U) = Cardinality(U \ A) + Cardinality(A)
  <2>1. (U \ A) \cup A = U /\ (U \ A) \cap A = {}
    BY <1>2
  <2>2. Cardinality((U \ A) \cup A) =
          Cardinality(U \ A) + Cardinality(A) - Cardinality((U \ A) \cap A)
    BY <1>6, <1>7, FS_Union
  <2>3. Cardinality((U \ A) \cap A) = 0
    BY <2>1, FS_EmptySet
  <2> QED
    BY <1>8, <2>1, <2>2, <2>3
<1>10. Cardinality(U \ A) = Cardinality(U) - Cardinality(A)
  BY <1>8, <1>9
<1> QED
  BY <1>2, <1>4, <1>5, <1>6, <1>8, <1>10 DEF U, A

LEMMA WantedDeviceKeeps ==
  ASSUME IInv, ParseLine, WantedDevice
  PROVE  IInv'
<1> DEFINE v == heap[branch].id
           ans == IF queries = Full THEN {} ELSE Answers(v, Line.id)
<1>1. /\ Reading /\ IsDevice(Line) /\ branch # Null /\ DeviceIsWanted(v, Line.id)
      /\ resolved' = resolved \cup ans
      /\ remaining' = IF Cardinality(ans) < remaining THEN remaining - Cardinality(ans) ELSE 0
      /\ pos' = pos + 1 /\ db' = db /\ queries' = queries
      /\ phase' = IF AllAnswered(remaining') THEN "parsed" ELSE phase
      /\ \/ heap' = AddChild(heap, branch, pos) /\ failures' = failures
         \/ failures' = failures + 1 /\ heap' = heap
      /\ branch' = branch /\ roots' = roots /\ room' = room /\ lost' = lost
  BY DEF WantedDevice, Continue, Fail
<1>2. ~IsClass(Line) /\ ~IsVendor(Line) /\ phase' \in {"lines", "parsed"}
  <2>1. ~IsVendor(Line)
    BY <1>1, TurnFacts, LineTypes DEF Line, Shape
  <2> QED
    BY <1>1, <2>1, TurnFacts DEF IsDevice
<1>3. /\ Forest' /\ heap' \in [DOMAIN heap' -> Node] /\ Tops' = Tops /\ Roots' = Roots
      /\ pos \notin DOMAIN heap
      /\ \/ Children' = Children \cup {pos} /\ DOMAIN heap' = DOMAIN heap \cup {pos}
         \/ Children' = Children /\ failures' = failures + 1 /\ heap' = heap
  <2>1. CASE heap' = AddChild(heap, branch, pos)
    BY <1>1, <2>1, TurnFacts, ForestChild
  <2>2. CASE failures' = failures + 1 /\ heap' = heap
    <3>1. pos \notin DOMAIN heap
      BY <1>1, TurnFacts, ForestTypes
    <3> QED
      BY <1>1, <2>2, <3>1, TurnFacts, ForestStays
  <2> QED
    BY <1>1, <2>1, <2>2
<1>4. failures' \in Nat /\ (failures' = 0 => failures = 0)
  BY <1>1, TurnFacts
<1>5. ans \subseteq Asks
  BY <1>1, TurnFacts, AnswersAre DEF Asks
<1>6. Cardinality(ans) \in Nat
  <2>1. CASE queries = Full
    BY <2>1, FS_EmptySet
  <2>2. CASE queries # Full
    BY <1>1, <2>2, TurnFacts, AnswersAre
  <2> QED
    BY <2>1, <2>2
<1>7. remaining' \in Nat
  BY <1>1, <1>6, TurnFacts
<1>8. Advance
  <2>1. \A q \in resolved' :
          q \in resolved \/ (queries[q].vendor = v /\ queries[q].device = Line.id)
    BY <1>1 DEF Answers
  <2>2. failures' = 0 => pos \in DOMAIN heap'
    BY <1>1, <1>3, TurnFacts
  <2>3. DOMAIN heap \subseteq DOMAIN heap'
    BY <1>3
  <2> QED
    BY <1>1, <1>2, <1>3, <1>4, <2>1, <2>2, <2>3, TurnFacts DEF Advance
<1>9. Shape'
  BY <1>1, <1>2, <1>3, <1>4, <1>5, <1>7, <1>8, TurnFacts, ShapeMoves
<1>10. queries # Full => remaining' = Cardinality(Unresolved')
  <2> SUFFICES ASSUME queries # Full PROVE remaining' = Cardinality(Unresolved')
    OBVIOUS
  <2>1. Unresolved' = Unresolved \ ans
    BY <1>1 DEF Unresolved
  <2>2. remaining = Cardinality(Unresolved)
    BY <1>1, TurnFacts DEF Asked
  <2>3. /\ Cardinality(ans) \in Nat /\ remaining \in Nat /\ Cardinality(ans) <= remaining
        /\ Cardinality(Unresolved \ ans) = remaining - Cardinality(ans)
    BY <1>1, <2>2, TurnFacts, AnswersAre
  <2>4. remaining' = remaining - Cardinality(ans)
    BY <1>1, <2>3
  <2> QED
    BY <2>1, <2>3, <2>4
<1>11. queries # Full /\ phase' = "lines" => remaining' > 0
  BY <1>1, <1>7 DEF AllAnswered
<1>12. Asked'
  <2> SUFFICES ASSUME queries # Full
               PROVE  /\ \A r \in Tops : \E q \in DOMAIN queries : queries[q].vendor = db[r].id
                      /\ \A p \in Children' :
                           /\ \E q \in DOMAIN queries : queries[q] = Pair(p)
                           /\ \A q \in DOMAIN queries : queries[q] = Pair(p) => q \in resolved'
                           /\ \A p2 \in Children' : Pair(p) = Pair(p2) => p = p2
    <3>1. \A p : (Pair(p))' = Pair(p)
      BY <1>1, Steady
    <3> QED
      BY <1>1, <1>3, <1>10, <1>11, <3>1 DEF Asked
  <2>1. /\ \A r \in Tops : \E q \in DOMAIN queries : queries[q].vendor = db[r].id
        /\ \A p \in Children :
             /\ \E q \in DOMAIN queries : queries[q] = Pair(p)
             /\ \A q \in DOMAIN queries : queries[q] = Pair(p) => q \in resolved
             /\ \A p2 \in Children : Pair(p) = Pair(p2) => p = p2
    BY <1>1, TurnFacts DEF Asked
  <2>2. Pair(pos) = [vendor |-> v, device |-> Line.id]
    <3>1. branch \in DOMAIN heap /\ branch = SectionOf(pos)
      BY <1>1, TurnFacts DEF Branch, Forest
    <3>2. v = db[branch].id
      BY <1>1, <3>1, TurnFacts DEF Forest
    <3> QED
      BY <3>1, <3>2 DEF Pair, Line
  <2>3. ASSUME NEW q \in DOMAIN queries, queries[q] = Pair(pos) PROVE q \in resolved'
    <3>1. queries[q].vendor = v /\ queries[q].device = Line.id
      BY <2>2, <2>3
    <3> QED
      BY <1>1, <3>1 DEF Answers, Unresolved
  <2>4. PICK q \in DOMAIN queries : q \notin resolved /\ queries[q] = Pair(pos)
    <3>1. PICK q \in Answers(v, Line.id) : TRUE
      BY <1>1 DEF DeviceIsWanted
    <3>2. /\ q \in DOMAIN queries /\ q \notin resolved
          /\ queries[q].vendor = v /\ queries[q].device = Line.id
      BY <3>1 DEF Answers, Unresolved
    <3>3. queries[q] = [vendor |-> queries[q].vendor, device |-> queries[q].device]
      BY <1>1, <3>2, TurnFacts, AnswersAre
    <3>4. queries[q] = Pair(pos)
      BY <2>2, <3>2, <3>3
    <3> QED
      BY <3>2, <3>4
  <2>5. \A p \in Children : Pair(p) # Pair(pos)
    BY <2>1, <2>4
  <2>6. resolved \subseteq resolved'
    BY <1>1
  <2>7. \A p \in Children' : p \in Children \/ p = pos
    BY <1>3
  <2> HIDE DEF v, ans
  <2>8. ASSUME NEW p \in Children'
        PROVE  /\ \E k \in DOMAIN queries : queries[k] = Pair(p)
               /\ \A k \in DOMAIN queries : queries[k] = Pair(p) => k \in resolved'
               /\ \A p2 \in Children' : Pair(p) = Pair(p2) => p = p2
    <3>1. CASE p \in Children
      BY <2>1, <2>5, <2>6, <2>7, <3>1
    <3>2. CASE p = pos
      BY <2>3, <2>4, <2>5, <2>7, <3>2
    <3> QED
      BY <2>7, <3>1, <3>2
  <2> QED
    BY <2>1, <2>8
<1>13. Ended'
  <2>1. CASE phase' # "parsed"
    BY <2>1 DEF Ended
  <2>2. CASE phase' = "parsed"
    <3>1. queries # Full /\ remaining' = 0
      BY <1>1, <2>2, TurnFacts DEF AllAnswered
    <3>2. Unresolved' = {}
      <4>1. Unresolved' = Unresolved \ ans
        BY <1>1 DEF Unresolved
      <4>2. IsFiniteSet(Unresolved)
        BY <1>1, <3>1, TurnFacts, AnswersAre
      <4>3. IsFiniteSet(Unresolved')
        BY <4>1, <4>2, FS_Subset
      <4> QED
        BY <1>10, <3>1, <4>3, FS_EmptySet
    <3> QED
      BY <1>1, <3>1, <3>2 DEF Ended
  <2> QED
    BY <2>1, <2>2
<1> QED
  BY <1>1, <1>2, <1>8, <1>9, <1>3, <1>12, <1>13, TurnFacts, AdvanceKeeps

LEMMA ParseLineKeeps ==
  ASSUME IInv, ParseLine
  PROVE  IInv'
<1>1. ParserStep
  BY DEF ParseLine
<1> QED
  BY <1>1, SkipLineKeeps, EndOfIdsKeeps, UnwantedVendorKeeps, WantedVendorKeeps,
     VendorFailsKeeps, UnwantedDeviceKeeps, WantedDeviceKeeps DEF ParserStep
-----------------------------------------------------------------------------
(* The names                                                               *)

\* The first of some lines.
LEMMA FirstOfIs ==
  ASSUME NEW lines, lines \subseteq Body, db \in Seq(LineOfIds)
  PROVE  /\ lines = {} => FirstOf(lines) = Null
         /\ lines # {} =>
              /\ FirstOf(lines) \in lines /\ FirstOf(lines) # Null /\ FirstOf(lines) \in Nat
              /\ \A p \in lines : p \in Nat /\ FirstOf(lines) <= p
<1>1. lines \subseteq Nat /\ \A p \in lines : p # Null
  BY BodyLines DEF Null
<1>2. CASE lines # {}
  BY <1>1, <1>2, MinIsLeast DEF FirstOf
<1> QED
  BY <1>1, <1>2 DEF FirstOf

\* A vendor that was asked for is found at its first line.
LEMMA VendorFound ==
  ASSUME IInv, phase = "parsed", pc = "parse", failures = 0,
         NEW x \in Cards, PairAsked(x)
  PROVE  /\ FindRoot(x.vendor) = VendorIn(x.vendor)
         /\ VendorIn(x.vendor) # Null =>
              /\ VendorIn(x.vendor) \in Roots /\ IsFirstVendor(VendorIn(x.vendor))
              /\ db[VendorIn(x.vendor)].id = x.vendor
<1> DEFINE v == x.vendor
           Vs == {p \in Body : IsVendor(db[p]) /\ db[p].id = v}
           m == FirstOf(Vs)
           F == FindRoot(v)
<1>1. /\ Shape /\ Forest /\ db \in Seq(LineOfIds) /\ Body \subseteq Nat /\ pos \in Nat
  BY BodyLines DEF IInv, Shape
<1>2. VendorIn(v) = m
  BY DEF VendorIn
<1>3. ASSUME NEW r \in Roots, db[r].id = v PROVE r \in Vs
  <2>1. r \in DOMAIN heap /\ IsVendor(db[r])
    BY <1>1 DEF Forest, Tops, Roots
  <2>2. r \in Body
    BY <1>1, <2>1, ForestTypes
  <2> QED
    BY <1>3, <2>1, <2>2
<1>4. F # Null => F \in Roots /\ db[F].id = v /\ \A r \in Roots : db[r].id = v => F <= r
  BY <1>1, FindRootIs
<1>5. F = Null => \A r \in Roots : db[r].id # v
  BY <1>1, FindRootIs
<1>6. CASE Vs = {}
  <2>1. F = Null
    BY <1>3, <1>4, <1>6
  <2>2. m = Null
    BY <1>1, <1>6, FirstOfIs
  <2> QED
    BY <1>2, <2>1, <2>2
<1>7. CASE Vs # {}
  <2>1. m \in Vs /\ m # Null /\ m \in Nat /\ \A p \in Vs : p \in Nat /\ m <= p
    <3>1. Vs \subseteq Body
      OBVIOUS
    <3> HIDE DEF Vs
    <3> QED
      BY <1>1, <1>7, <3>1, FirstOfIs
  <2>2. m \in Body /\ IsVendor(db[m]) /\ db[m].id = v
    BY <2>1
  <2>3. ASSUME NEW q \in 1 .. m - 1, IsVendor(db[q]) PROVE db[q].id # db[m].id
    <3>1. q \in Body /\ q < m
      BY <1>1, <2>1, <2>2, BodyLines
    <3>2. ~ (m <= q)
      BY <2>1, <3>1
    <3> QED
      BY <2>1, <2>2, <2>3, <3>1, <3>2
  <2>4. IsFirstVendor(m)
    BY <2>2, <2>3 DEF IsFirstVendor
  <2>5. m < pos
    <3>1. CASE \A p \in Body : p < pos
      BY <2>2, <3>1
    <3>2. CASE queries # Full /\ Unresolved = {}
      <4>1. PICK q \in DOMAIN queries : queries[q] = x
        BY <3>2 DEF PairAsked
      <4>2. q \in resolved
        BY <3>2, <4>1 DEF Unresolved
      <4>3. PICK r \in 1 .. pos - 1 : IsVendor(db[r]) /\ db[r].id = queries[q].vendor
        BY <4>2 DEF IInv, Complete, Answered
      <4>4. r \in Vs
        <5>1. 1 .. pos - 1 \subseteq Body
          <6>1. /\ pos \in 1 .. Len(db) + 1 /\ Len(db) \in Nat /\ DOMAIN db = 1 .. Len(db)
                /\ \A q1 \in 1 .. pos - 1 : ~IsClass(db[q1])
            BY <1>1 DEF Shape
          <6>2. \A q2 \in 1 .. pos - 1 : q2 \in DOMAIN db /\ \A q1 \in 1 .. q2 : q1 \in 1 .. pos - 1
            BY <6>1
          <6> QED
            BY <6>1, <6>2 DEF Body
        <5> QED
          BY <4>1, <4>3, <5>1
      <4>5. m <= r /\ r < pos /\ r \in Nat
        BY <1>1, <2>1, <4>3, <4>4
      <4> QED
        BY <1>1, <2>1, <4>5
    <3> QED
      BY <3>1, <3>2 DEF IInv, Complete, Ended
  <2>6. m \in 1 .. pos - 1
    BY <1>1, <2>1, <2>5 DEF Null
  <2>7. VendorAsked(db[m].id)
    BY <2>2 DEF PairAsked, VendorAsked
  <2>8. m \in Roots
    BY <2>4, <2>6, <2>7 DEF IInv, Complete, Stored
  <2>9. F # Null /\ F <= m /\ F \in Vs
    BY <1>3, <1>4, <1>5, <2>2, <2>8
  <2>10. F = m
    <3>1. m <= F /\ F \in Nat
      BY <2>1, <2>9
    <3> HIDE DEF F, m
    <3> QED
      BY <2>1, <2>9, <3>1
  <2> QED
    BY <1>2, <2>2, <2>4, <2>8, <2>10
<1> QED
  BY <1>6, <1>7

\* So is a device under it.
LEMMA DeviceFound ==
  ASSUME IInv, phase = "parsed", pc = "parse", failures = 0,
         NEW x \in Cards, PairAsked(x)
  PROVE  Find(FindRoot(x.vendor), x.device) = DeviceIn(x.vendor, x.device)
<1> DEFINE v == x.vendor
           d == x.device
           m == VendorIn(v)
           Ds == {p \in Body : IsDevice(db[p]) /\ db[p].id = d /\ SectionOf(p) = m}
           F == Find(m, d)
           k == FirstOf(Ds)
<1>1. /\ Shape /\ Forest /\ db \in Seq(LineOfIds) /\ Body \subseteq Nat /\ pos \in Nat
      /\ x = [vendor |-> v, device |-> d]
  <2>1. x \in [vendor : Nat, device : Nat]
    BY CardAssumption
  <2> QED
    BY <2>1, BodyLines DEF IInv, Shape
<1>2. FindRoot(v) = m
  BY VendorFound
<1>3. m # Null => m \in Roots /\ m \in Tops /\ IsFirstVendor(m) /\ db[m].id = v
  BY VendorFound DEF Roots, Tops
<1>4. CASE m = Null
  BY <1>2, <1>4 DEF Find, DeviceIn
<1>5. CASE m # Null /\ v = d
  BY <1>1, <1>2, <1>3, <1>5, FindIs DEF DeviceIn
<1>6. CASE m # Null /\ v # d
  <2>1. DeviceIn(v, d) = k
    BY <1>6 DEF DeviceIn
  <2>2. ASSUME NEW p \in ChildrenOf(m), db[p].id = d PROVE p \in Ds
    <3>1. p \in DOMAIN heap /\ IsDevice(db[p]) /\ SectionOf(p) = m
      BY <1>1 DEF ChildrenOf, Children, Forest
    <3>2. p \in Body
      BY <1>1, <3>1, ForestTypes
    <3> QED
      BY <2>2, <3>1, <3>2
  <2>3. F # Null => /\ F \in ChildrenOf(m) /\ db[F].id = d
                    /\ \A p \in ChildrenOf(m) : db[p].id = d => F <= p
    BY <1>1, <1>3, <1>6, FindIs
  <2>4. F = Null => \A p \in ChildrenOf(m) : db[p].id # d
    BY <1>1, <1>3, <1>6, FindIs
  <2>5. CASE Ds = {}
    <3>1. F = Null
      BY <2>2, <2>3, <2>5
    <3>2. k = Null
      BY <1>1, <2>5, FirstOfIs
    <3> QED
      BY <1>2, <2>1, <3>1, <3>2
  <2>6. CASE Ds # {}
    <3>1. k \in Ds /\ k # Null /\ k \in Nat /\ \A p \in Ds : p \in Nat /\ k <= p
      <4>1. Ds \subseteq Body
        OBVIOUS
      <4> HIDE DEF Ds
      <4> QED
        BY <1>1, <2>6, <4>1, FirstOfIs
    <3>2. k \in Body /\ IsDevice(db[k]) /\ db[k].id = d /\ SectionOf(k) = m
      BY <3>1
    <3>3. ASSUME NEW q \in 1 .. k - 1, IsDevice(db[q]), SectionOf(q) = SectionOf(k)
          PROVE  db[q].id # db[k].id
      <4>1. q \in 1 .. k /\ q < k /\ ~ (k <= q)
        BY <3>1
      <4>2. q \in Body
        BY <1>1, <3>2, <4>1, BodyLines
      <4> QED
        BY <3>1, <3>2, <3>3, <4>1, <4>2
    <3>4. IsFirstDevice(k)
      BY <1>3, <1>6, <3>2, <3>3 DEF IsFirstDevice
    <3>5. Pair(k) = x
      BY <1>1, <1>3, <1>6, <3>2 DEF Pair
    <3>6. k < pos
      <4>1. CASE \A p \in Body : p < pos
        BY <3>2, <4>1
      <4>2. CASE queries # Full /\ Unresolved = {}
        <5>1. PICK q \in DOMAIN queries : queries[q] = x
          BY <4>2 DEF PairAsked
        <5>2. q \in resolved
          BY <4>2, <5>1 DEF Unresolved
        <5> QED
          BY <3>2, <3>4, <3>5, <5>1, <5>2 DEF IInv, Complete, Answered
      <4> QED
        BY <4>1, <4>2 DEF IInv, Complete, Ended
    <3>7. k \in 1 .. pos - 1
      BY <1>1, <3>1, <3>6 DEF Null
    <3>8. k \in DOMAIN heap
      BY <3>4, <3>5, <3>7 DEF IInv, Complete, Stored
    <3>9. k \in ChildrenOf(m)
      <4>1. k \notin Tops
        <5>1. ~IsVendor(db[k])
          BY <1>1, <3>2, <3>8, LineTypes, ForestTypes
        <5> QED
          BY <1>1, <5>1 DEF Forest
      <4> QED
        BY <3>2, <3>8, <4>1 DEF ChildrenOf, Children
    <3>10. F # Null /\ F <= k /\ F \in Ds
      BY <2>2, <2>3, <2>4, <3>2, <3>9
    <3>11. F = k
      <4>1. k <= F /\ F \in Nat
        BY <3>1, <3>10
      <4> HIDE DEF F, k
      <4> QED
        BY <3>1, <3>10, <4>1
    <3> QED
      BY <1>2, <2>1, <3>11
  <2> QED
    BY <2>5, <2>6
<1> QED
  BY <1>4, <1>5, <1>6

\* The name of a card is true, and complete when memory was never short.
LEMMA NameOfIs ==
  ASSUME IInv, phase \in {"parsed", "failed"}, NEW x \in Cards, NEW n, n = NameOf(x)
  PROVE  /\ n \in Names
         /\ n.part = x.device
         /\ n.vendor # Null => IsVendor(db[n.vendor]) /\ db[n.vendor].id = x.vendor
         /\ n.device # Null => /\ db[n.device].id = x.device
                               /\ n.device = n.vendor \/ SectionOf(n.device) = n.vendor
         /\ failures = 0 /\ phase = "parsed" /\ pc = "parse" /\ PairAsked(x) =>
              n.vendor = VendorIn(x.vendor) /\ n.device = DeviceIn(x.vendor, x.device)
<1> DEFINE v == IF phase = "failed" THEN Null ELSE FindRoot(x.vendor)
           d == IF phase = "failed" THEN Null ELSE Find(v, x.device)
<1>1. /\ Shape /\ Forest /\ x.vendor \in Nat /\ x.device \in Nat
  <2>1. x \in [vendor : Nat, device : Nat]
    BY CardAssumption
  <2> QED
    BY <2>1 DEF IInv
<1>2. n = [vendor |-> v, device |-> d, part |-> x.device,
           raw |-> IF client = "arm" /\ v = Null THEN x.vendor ELSE 0]
  BY DEF NameOf
<1>3. v # Null => v \in Tops /\ v \in DOMAIN db /\ IsVendor(db[v]) /\ db[v].id = x.vendor
  <2>1. v # Null => v \in Roots /\ db[v].id = x.vendor
    BY <1>1, FindRootIs
  <2>2. Roots \subseteq Tops /\ Tops \subseteq DOMAIN heap
    BY <1>1 DEF Roots, Tops, Forest
  <2> HIDE DEF v
  <2> QED
    BY <1>1, <2>1, <2>2, ForestTypes DEF Forest
<1>4. d # Null => d \in DOMAIN db /\ db[d].id = x.device /\ (d = v \/ SectionOf(d) = v)
  <2>1. v = Null => d = Null
    BY DEF Find
  <2>2. d # Null => d = Find(v, x.device)
    OBVIOUS
  <2> HIDE DEF v, d
  <2>3. CASE v # Null /\ d # Null /\ db[v].id = x.device
    BY <1>1, <1>3, <2>2, <2>3, FindIs
  <2>4. CASE v # Null /\ d # Null /\ db[v].id # x.device
    <3>1. d \in ChildrenOf(v) /\ db[d].id = x.device
      BY <1>1, <1>3, <2>2, <2>4, FindIs
    <3>2. d \in DOMAIN heap /\ SectionOf(d) = v
      BY <3>1 DEF ChildrenOf, Children
    <3> QED
      BY <1>1, <3>1, <3>2, ForestTypes
  <2> QED
    BY <2>1, <2>3, <2>4
<1>5. failures = 0 /\ phase = "parsed" /\ pc = "parse" /\ PairAsked(x) =>
        v = VendorIn(x.vendor) /\ d = DeviceIn(x.vendor, x.device)
  BY VendorFound, DeviceFound
<1> HIDE DEF v, d
<1>6. n \in Names
  BY <1>1, <1>2, <1>3, <1>4 DEF Names
<1> QED
  BY <1>2, <1>3, <1>4, <1>5, <1>6
-----------------------------------------------------------------------------
(* Equal names are counted together                                        *)

\* The function behind FormatDuplicates.
Entries(S) == [name : S, count : Nat]
Repeats(s, n) == \E k \in 1 .. n - 1 : s[k] = s[n]
Counted(s, n) ==
  [name |-> s[n], count |-> 1 + Cardinality({k \in n + 1 .. Len(s) : s[k] = s[n]})]
IsShown(s, f) ==
  /\ f[0] = <<>>
  /\ \A n \in 1 .. Len(s) :
       f[n] = IF Repeats(s, n) THEN f[n - 1] ELSE Append(f[n - 1], Counted(s, n))

LEMMA ShownExists ==
  ASSUME NEW S, NEW s \in Seq(S)
  PROVE  \E f \in [0 .. Len(s) -> Seq(Entries(S))] :
           FormatDuplicates(s) = f[Len(s)] /\ IsShown(s, f)
<1>0. PICK N \in Nat : N = Len(s)
  OBVIOUS
<1> DEFINE Shown == Seq(Entries(S))
           Seen(n) == Repeats(s, n)
           E(n) == Counted(s, n)
           Is(g) == g = [n \in 0 .. N |-> IF n = 0 THEN <<>>
                          ELSE IF Seen(n) THEN g[n - 1] ELSE Append(g[n - 1], E(n))]
<1>1. N \in Nat /\ DOMAIN s = 1 .. N /\ <<>> \in Shown
  BY <1>0
<1>2. \A n \in 1 .. N : E(n) \in Entries(S)
  <2> TAKE n \in 1 .. N
  <2>1. /\ n + 1 \in Int /\ N \in Int
        /\ {k \in n + 1 .. N : s[k] = s[n]} \in SUBSET (n + 1 .. N)
    BY <1>1
  <2>2. Cardinality({k \in n + 1 .. N : s[k] = s[n]}) \in Nat
    BY <2>1, FS_Interval, FS_Subset, FS_CardinalityType
  <2>3. s[n] \in S
    BY <1>1
  <2> QED
    BY <1>0, <2>2, <2>3 DEF Counted, Entries
<1>3. PICK turn \in [Shown \X (1 .. N) -> Shown] :
        \A d \in Shown, n \in 1 .. N :
          turn[<<d, n>>] = IF Seen(n) THEN d ELSE Append(d, E(n))
  <2> DEFINE step == [x \in Shown \X (1 .. N) |->
                        IF Seen(x[2]) THEN x[1] ELSE Append(x[1], E(x[2]))]
  <2>1. ASSUME NEW d \in Shown, NEW n \in 1 .. N
        PROVE  (IF Seen(n) THEN d ELSE Append(d, E(n))) \in Shown
    <3> HIDE DEF E, Seen
    <3>1. E(n) \in Entries(S)
      BY <1>2
    <3>2. Append(d, E(n)) \in Shown
      BY <3>1
    <3> QED
      BY <3>2
  <2> HIDE DEF E, Seen, Shown
  <2>2. step \in [Shown \X (1 .. N) -> Shown]
    BY <2>1
  <2>3. \A d \in Shown, n \in 1 .. N :
          step[<<d, n>>] = IF Seen(n) THEN d ELSE Append(d, E(n))
    OBVIOUS
  <2> HIDE DEF step
  <2> QED
    BY <2>2, <2>3
<1>4. PICK f \in [0 .. N -> Shown] :
        f[0] = <<>> /\ \A n \in 1 .. N : f[n] = turn[<<f[n - 1], n>>]
  <2>1. turn \in [Shown \X (1 .. N) -> Shown] /\ <<>> \in Shown /\ N \in Nat
    BY <1>1
  <2> HIDE DEF Shown
  <2>2. PICK f : IsRecursion(f, Shown, <<>>, N, turn)
    BY <2>1, RecursionExists
  <2> QED
    BY <2>2 DEF IsRecursion
<1>5. \A n \in 1 .. N : n - 1 \in 0 .. N
  BY <1>1
<1>6. \A n \in 1 .. N : f[n] = IF Seen(n) THEN f[n - 1] ELSE Append(f[n - 1], E(n))
  <2> HIDE DEF Seen, E, Shown
  <2> QED
    BY <1>3, <1>4, <1>5
<1>7. Is(f)
  <2>1. \A n \in 0 .. N : n = 0 \/ n \in 1 .. N
    BY <1>1
  <2> HIDE DEF Seen, E, Shown
  <2> QED
    BY <1>4, <1>6, <2>1
<1>8. \A g : Is(g) => g = f
  <2> SUFFICES ASSUME NEW g, Is(g) PROVE g = f
    OBVIOUS
  <2> DEFINE Differs == {n \in 0 .. N : g[n] # f[n]}
  <2>1. Differs = {}
    <3> SUFFICES ASSUME Differs # {} PROVE FALSE
      OBVIOUS
    <3>1. PICK n \in Differs : \A k \in Differs : n <= k
      <4>1. Differs \subseteq Nat
        OBVIOUS
      <4> HIDE DEF Differs
      <4> QED
        BY <4>1, LeastNatural
    <3>2. n \in 0 .. N /\ g[n] # f[n] /\ n \in Nat
      OBVIOUS
    <3>3. CASE n = 0
      <4>1. g[0] = <<>>
        BY <1>1
      <4> QED
        BY <1>4, <3>2, <3>3, <4>1
    <3>4. CASE n # 0
      <4>1. n - 1 \in 0 .. N /\ ~ (n <= n - 1) /\ n \in 1 .. N
        BY <1>1, <3>2, <3>4
      <4>2. g[n - 1] = f[n - 1]
        BY <3>1, <4>1
      <4> HIDE DEF Seen, E, Shown, Differs
      <4>3. g[n] = IF Seen(n) THEN g[n - 1] ELSE Append(g[n - 1], E(n))
        BY <3>2, <3>4
      <4> QED
        BY <1>6, <3>2, <4>1, <4>2, <4>3
    <3> QED
      BY <3>3, <3>4
  <2>2. \A n \in 0 .. N : g[n] = f[n]
    BY <2>1
  <2>3. /\ g = [n \in 0 .. N |-> g[n]] /\ f = [n \in 0 .. N |-> f[n]]
    <3> HIDE DEF Seen, E, Shown
    <3> QED
      BY <1>4
  <2> HIDE DEF Is, Differs, Shown
  <2>4. [n \in 0 .. N |-> g[n]] = [n \in 0 .. N |-> f[n]]
    BY <2>2
  <2> QED
    BY <2>3, <2>4
<1>9. FormatDuplicates(s) = (CHOOSE g : Is(g))[N]
  BY <1>0 DEF FormatDuplicates, Repeats, Counted
<1>10. (CHOOSE g : Is(g)) = f
  <2> HIDE DEF Is
  <2> QED
    BY <1>7, <1>8
<1>11. IsShown(s, f)
  BY <1>0, <1>4, <1>6 DEF IsShown
<1>12. FormatDuplicates(s) = f[Len(s)]
  BY <1>0, <1>9, <1>10
<1>13. f \in [0 .. Len(s) -> Seq(Entries(S))]
  BY <1>0
<1> QED
  BY <1>11, <1>12, <1>13

\* One entry for each name, with the number of times it comes.
LEMMA FormatDuplicatesIs ==
  ASSUME NEW S, NEW s \in Seq(S), NEW t, t = FormatDuplicates(s)
  PROVE  /\ s = <<>> => t = <<>>
         /\ \A k \in DOMAIN s : \E j \in DOMAIN t : t[j].name = s[k]
         /\ \A j, k \in DOMAIN t : t[j].name = t[k].name => j = k
         /\ \A j \in DOMAIN t :
              t[j].count = Cardinality({k \in DOMAIN s : s[k] = t[j].name})
<1>0. PICK f \in [0 .. Len(s) -> Seq(Entries(S))] :
        FormatDuplicates(s) = f[Len(s)] /\ IsShown(s, f)
  BY ShownExists
<1>1. /\ f[0] = <<>>
      /\ \A n \in 1 .. Len(s) :
           f[n] = IF Repeats(s, n) THEN f[n - 1] ELSE Append(f[n - 1], Counted(s, n))
  BY <1>0 DEF IsShown
<1> DEFINE N == Len(s)
           Times(x) == Cardinality({k \in DOMAIN s : s[k] = x})
           Good(n) ==
             /\ \A k \in 1 .. n : \E j \in DOMAIN f[n] : f[n][j].name = s[k]
             /\ \A j \in DOMAIN f[n] : \E k \in 1 .. n : s[k] = f[n][j].name
             /\ \A j, k \in DOMAIN f[n] : f[n][j].name = f[n][k].name => j = k
             /\ \A j \in DOMAIN f[n] : f[n][j].count = Times(f[n][j].name)
           Bad == {n \in 0 .. N : ~Good(n)}
<1>2. N \in Nat /\ DOMAIN s = 1 .. N /\ \A n \in 0 .. N : n \in Nat
  OBVIOUS
<1> HIDE DEF Times
<1>3. Good(0)
  <2>1. DOMAIN f[0] = {} /\ 1 .. 0 = {}
    BY <1>1
  <2> QED
    BY <2>1
<1>4. ASSUME NEW n \in 1 .. N, Good(n - 1) PROVE Good(n)
  <2>1. n \in Nat /\ n - 1 \in 0 .. N /\ f[n - 1] \in Seq(Entries(S))
    BY <1>2
  <2>2. /\ \A k \in 1 .. n : k \in 1 .. n - 1 \/ k = n
        /\ \A k \in 1 .. n - 1 : k \in 1 .. n
        /\ n \in 1 .. n
    BY <2>1
  <2>3. CASE Repeats(s, n)
    <3>1. f[n] = f[n - 1]
      BY <1>1, <2>3
    <3>2. \E j \in DOMAIN f[n - 1] : f[n - 1][j].name = s[n]
      BY <1>4, <2>3 DEF Repeats
    <3>3. \A k \in 1 .. n : \E j \in DOMAIN f[n] : f[n][j].name = s[k]
      BY <1>4, <2>2, <3>1, <3>2
    <3>4. \A j \in DOMAIN f[n] : \E k \in 1 .. n : s[k] = f[n][j].name
      BY <1>4, <2>2, <3>1
    <3> QED
      BY <1>4, <3>1, <3>3, <3>4
  <2>4. CASE ~Repeats(s, n)
    <3> DEFINE e == Counted(s, n)
               g == f[n - 1]
    <3>1. f[n] = Append(g, e)
      BY <1>1, <2>4
    <3>2. e.count = Times(s[n])
      <4> DEFINE T == {k \in n + 1 .. N : s[k] = s[n]}
      <4>1. {k \in DOMAIN s : s[k] = s[n]} = T \cup {n}
        <5>1. \A k \in DOMAIN s : k \in 1 .. n - 1 \/ k = n \/ k \in n + 1 .. N
          BY <1>2, <2>1
        <5>2. n \in DOMAIN s /\ \A k \in n + 1 .. N : k \in DOMAIN s
          BY <1>2, <2>1
        <5> QED
          BY <2>4, <5>1, <5>2 DEF Repeats
      <4>2. IsFiniteSet(T) /\ n \notin T
        <5>1. T \in SUBSET (n + 1 .. N) /\ n + 1 \in Int /\ N \in Int /\ n \notin n + 1 .. N
          BY <1>2, <2>1
        <5> HIDE DEF T
        <5> QED
          BY <5>1, FS_Interval, FS_Subset
      <4> HIDE DEF T
      <4>3. Cardinality(T \cup {n}) = Cardinality(T) + 1 /\ Cardinality(T) \in Nat
        BY <4>2, FS_AddElement, FS_CardinalityType
      <4>4. e.count = 1 + Cardinality(T)
        BY DEF T, Counted
      <4> QED
        <5>1. Times(s[n]) = Cardinality(T \cup {n})
          BY <4>1 DEF Times
        <5> HIDE DEF e
        <5> QED
          BY <4>3, <4>4, <5>1
    <3>3. e.name = s[n]
      BY DEF Counted
    <3> HIDE DEF e
    <3>4. /\ Len(g) \in Nat /\ DOMAIN g = 1 .. Len(g)
          /\ DOMAIN f[n] = 1 .. Len(g) + 1
          /\ f[n][Len(g) + 1] = e
          /\ \A j \in DOMAIN g : f[n][j] = g[j] /\ j \in DOMAIN f[n]
          /\ \A j \in DOMAIN f[n] : j \in DOMAIN g \/ j = Len(g) + 1
          /\ Len(g) + 1 \in DOMAIN f[n]
      <4> HIDE DEF g
      <4>1. Len(g) \in Nat /\ DOMAIN g = 1 .. Len(g)
        BY <2>1 DEF g
      <4>2. /\ DOMAIN f[n] = 1 .. Len(g) + 1 /\ f[n][Len(g) + 1] = e
            /\ \A j \in DOMAIN g : f[n][j] = g[j]
        BY <2>1, <3>1, <4>1 DEF g
      <4> QED
        BY <4>1, <4>2
    <3> HIDE DEF g
    <3>5. /\ \A k \in 1 .. n - 1 : \E j \in DOMAIN g : g[j].name = s[k]
          /\ \A j \in DOMAIN g : \E k \in 1 .. n - 1 : s[k] = g[j].name
          /\ \A j, k \in DOMAIN g : g[j].name = g[k].name => j = k
          /\ \A j \in DOMAIN g : g[j].count = Times(g[j].name)
      BY <1>4 DEF g
    <3>6. \A j \in DOMAIN g : g[j].name # s[n]
      BY <2>4, <3>5 DEF Repeats
    <3>7. \A k \in 1 .. n : \E j \in DOMAIN f[n] : f[n][j].name = s[k]
      <4> TAKE k \in 1 .. n
      <4>1. CASE k \in 1 .. n - 1
        <5>1. PICK j \in DOMAIN g : g[j].name = s[k]
          BY <3>5, <4>1
        <5>2. j \in DOMAIN f[n] /\ f[n][j].name = s[k]
          BY <3>4, <5>1
        <5> QED
          BY <5>2
      <4>2. CASE k = n
        BY <3>3, <3>4, <4>2
      <4> QED
        BY <2>2, <4>1, <4>2
    <3>8. \A j \in DOMAIN f[n] : \E k \in 1 .. n : s[k] = f[n][j].name
      <4> SUFFICES ASSUME NEW j \in DOMAIN f[n] PROVE \E k \in 1 .. n : s[k] = f[n][j].name
        OBVIOUS
      <4>1. CASE j \in DOMAIN g
        BY <2>2, <3>4, <3>5, <4>1
      <4>2. CASE j = Len(g) + 1
        BY <2>2, <3>3, <3>4, <4>2
      <4>3. j \in DOMAIN g \/ j = Len(g) + 1
        BY <3>4
      <4> QED
        BY <4>1, <4>2, <4>3
    <3>9. \A j, k \in DOMAIN f[n] : f[n][j].name = f[n][k].name => j = k
      <4> TAKE j, k \in DOMAIN f[n]
      <4>1. (j \in DOMAIN g \/ j = Len(g) + 1) /\ (k \in DOMAIN g \/ k = Len(g) + 1)
        BY <3>4
      <4>2. CASE j \in DOMAIN g /\ k \in DOMAIN g
        BY <3>4, <3>5, <4>2
      <4>3. CASE j = Len(g) + 1 /\ k \in DOMAIN g
        BY <3>3, <3>4, <3>6, <4>3
      <4>4. CASE j \in DOMAIN g /\ k = Len(g) + 1
        BY <3>3, <3>4, <3>6, <4>4
      <4> QED
        BY <4>1, <4>2, <4>3, <4>4
    <3>10. \A j \in DOMAIN f[n] : f[n][j].count = Times(f[n][j].name)
      BY <3>2, <3>3, <3>4, <3>5
    <3> QED
      BY <3>7, <3>8, <3>9, <3>10
  <2> QED
    BY <2>3, <2>4
<1>5. Bad = {}
  <2> SUFFICES ASSUME Bad # {} PROVE FALSE
    OBVIOUS
  <2>1. PICK n \in Bad : \A k \in Bad : n <= k
    <3>1. Bad \subseteq Nat
      BY <1>2
    <3> HIDE DEF Bad
    <3> QED
      BY <3>1, LeastNatural
  <2> HIDE DEF Good
  <2>2. n # 0
    BY <1>3
  <2>3. n \in 1 .. N /\ n - 1 \in 0 .. N /\ ~ (n <= n - 1)
    BY <1>2, <2>2
  <2>4. Good(n - 1)
    BY <2>1, <2>3
  <2> QED
    BY <1>4, <2>3, <2>4
<1>6. Good(N)
  <2>1. N \in 0 .. N
    BY <1>2
  <2> HIDE DEF Good
  <2> QED
    BY <1>5, <2>1
<1>7. s = <<>> => t = <<>>
  <2>1. s = <<>> => Len(s) = 0
    OBVIOUS
  <2> QED
    BY <1>0, <1>1, <2>1
<1>8. t = f[N] /\ DOMAIN s = 1 .. N
  BY <1>0
<1>9. \A k \in DOMAIN s : \E j \in DOMAIN t : t[j].name = s[k]
  <2>1. \A k \in 1 .. N : \E j \in DOMAIN f[N] : f[N][j].name = s[k]
    BY <1>6
  <2> HIDE DEF N
  <2> QED
    BY <1>8, <2>1
<1>10. /\ \A j, k \in DOMAIN t : t[j].name = t[k].name => j = k
       /\ \A j \in DOMAIN t : t[j].count = Times(t[j].name)
  <2>1. /\ \A j, k \in DOMAIN f[N] : f[N][j].name = f[N][k].name => j = k
        /\ \A j \in DOMAIN f[N] : f[N][j].count = Times(f[N][j].name)
    BY <1>6
  <2> HIDE DEF N
  <2> QED
    BY <1>8, <2>1
<1> QED
  BY <1>7, <1>9, <1>10 DEF Times
-----------------------------------------------------------------------------
(* The caller                                                              *)

LEMMA KeptIs ==
  ASSUME list \in Seq(Cards)
  PROVE  /\ Kept \in Seq(Cards) /\ Kept # Full /\ DOMAIN Kept = 1 .. Len(Kept)
         /\ Len(Kept) \in Nat
         /\ \A j \in DOMAIN Kept : j \in DOMAIN list /\ Kept[j] = list[j] /\ Kept[j] \in Cards
         /\ list = <<>> <=> Kept = <<>>
<1> DEFINE m == IF Len(list) < MaxGpus THEN Len(list) ELSE MaxGpus
<1>1. Len(list) \in Nat /\ m \in 0 .. Len(list) /\ (m = 0 <=> Len(list) = 0)
  BY CardAssumption
<1>2. Kept = SubSeq(list, 1, m)
  BY DEF Kept
<1> HIDE DEF m
<1>3. /\ Kept \in Seq(Cards) /\ Len(Kept) = m /\ DOMAIN Kept = 1 .. m
      /\ \A j \in 1 .. m : Kept[j] = list[j]
  BY <1>1, <1>2
<1>4. \A j \in 1 .. m : j \in DOMAIN list /\ list[j] \in Cards
  BY <1>1
<1>5. list = <<>> <=> Kept = <<>>
  <2>1. list = <<>> <=> Len(list) = 0
    OBVIOUS
  <2>2. Kept = <<>> <=> Len(Kept) = 0
    BY <1>3
  <2> QED
    BY <1>1, <1>3, <2>1, <2>2
<1> QED
  BY <1>1, <1>3, <1>4, <1>5, CardAssumption

\* What is said of the parser holds as long as the parser rests.
LEMMA ParserRests ==
  ASSUME IInv, UNCHANGED <<db, queries, phase, parsing, forest>>, failures' \in Nat,
         failures' = 0 => failures = 0, pc' = "parse" => pc = "parse"
  PROVE  Shape' /\ Forest' /\ Branch' /\ Asked' /\ Complete'
<1>1. /\ db' = db /\ queries' = queries /\ phase' = phase /\ pos' = pos /\ branch' = branch
      /\ resolved' = resolved /\ remaining' = remaining
      /\ heap' = heap /\ roots' = roots /\ room' = room /\ lost' = lost
  BY DEF parsing, forest
<1>2. /\ Tops' = Tops /\ Roots' = Roots /\ Asks' = Asks /\ Unresolved' = Unresolved
      /\ \A p : (SectionOf(p))' = SectionOf(p)
      /\ \A p : (Pair(p))' = Pair(p)
      /\ \A p : (IsFirstVendor(p))' <=> IsFirstVendor(p)
      /\ \A p : (IsFirstDevice(p))' <=> IsFirstDevice(p)
      /\ Body' = Body
  BY <1>1, Steady DEF Tops, Roots, Asks, Unresolved
<1>3. Children' = Children
  BY <1>1, <1>2 DEF Children
<1>4. \A r : (ChildrenOf(r))' = ChildrenOf(r)
  BY <1>2, <1>3 DEF ChildrenOf
<1>5. Shape'
  BY <1>1, <1>2 DEF Shape, IInv
<1>6. Forest'
  <2>1. ASSUME NEW r \in Tops PROVE \E s : (Chain(r, s))'
    <3>1. PICK s : Chain(r, s)
      BY DEF IInv, Forest
    <3>2. (Chain(r, s))'
      BY <1>1, <1>4, <3>1, ChainSame
    <3> QED
      BY <3>2
  <2>2. \A r \in Tops' : (IsVendor(db[r]) /\ \E u : Chain(r, u))'
    BY <1>1, <1>2, <2>1 DEF Forest, IInv
  <2>3. \A p \in Children' : (IsDevice(db[p]) /\ SectionOf(p) \in Tops)'
    BY <1>1, <1>2, <1>3 DEF Forest, IInv
  <2> QED
    BY <1>1, <1>2, <2>2, <2>3 DEF Forest, IInv
<1>7. Branch'
  <2>1. (SectionOf(pos))' = SectionOf(pos)
    BY <1>1, <1>2 DEF SectionOf
  <2> QED
    BY <1>1, <1>2, <2>1 DEF Branch, IInv
<1>8. Asked'
  BY <1>1, <1>2, <1>3 DEF Asked, IInv
<1>9. Answered' /\ Ended'
  BY <1>1, <1>2 DEF Answered, Ended, Complete, IInv
<1>10. Stored'
  <2>1. \A p : (VendorAsked(db[p].id))' <=> VendorAsked(db[p].id)
    BY <1>1 DEF VendorAsked
  <2>2. \A p : (PairAsked(Pair(p)))' <=> PairAsked(Pair(p))
    BY <1>1, <1>2 DEF PairAsked
  <2>3. (SectionOf(pos))' = SectionOf(pos)
    BY <1>1, <1>2 DEF SectionOf
  <2> QED
    BY <1>1, <1>2, <2>1, <2>2, <2>3 DEF Stored, Complete, IInv
<1> QED
  BY <1>5, <1>6, <1>7, <1>8, <1>9, <1>10 DEF Complete

\* What a full reading finds depends on the database alone.
LEMMA FullReadingStays ==
  ASSUME db' = db
  PROVE  /\ \A v : (VendorIn(v))' = VendorIn(v)
         /\ \A v, d : (DeviceIn(v, d))' = DeviceIn(v, d)
<1>1. \A v : (VendorIn(v))' = VendorIn(v)
  BY Steady DEF VendorIn
<1>2. Body' = Body /\ \A p : (SectionOf(p))' = SectionOf(p)
  BY Steady
<1>3. ASSUME NEW v, NEW d PROVE (DeviceIn(v, d))' = DeviceIn(v, d)
  <2> DEFINE Lines == {p \in Body : IsDevice(db[p]) /\ db[p].id = d /\ SectionOf(p) = VendorIn(v)}
  <2>1. Lines' = Lines
    BY <1>1, <1>2
  <2>2. DeviceIn(v, d) =
          IF v = d \/ VendorIn(v) = Null THEN VendorIn(v) ELSE FirstOf(Lines)
    BY DEF DeviceIn
  <2>3. (DeviceIn(v, d))' =
          IF v = d \/ (VendorIn(v))' = Null THEN (VendorIn(v))' ELSE FirstOf(Lines')
    BY DEF DeviceIn
  <2> HIDE DEF Lines
  <2> QED
    BY <1>1, <2>1, <2>2, <2>3
<1> QED
  BY <1>1, <1>3

\* The names already found stay true and complete.
LEMMA NamesStay ==
  ASSUME IInv, db' = db, names' = names, phase' = phase, failures' = 0 => failures = 0,
         list' = list
  PROVE  NamesAreTrue' /\ NamesAreComplete'
<1>1. \A p : (SectionOf(p))' = SectionOf(p)
  BY Steady
<1> QED
  BY <1>1, FullReadingStays DEF NamesAreTrue, NamesAreComplete, IInv

\* No node, no root.
LEMMA EmptyForest ==
  ASSUME heap' = NoForest, roots' = <<>>, lost' = {}, room' \in Nat
  PROVE  /\ Forest' /\ Tops' = {} /\ Roots' = {} /\ Children' = {}
         /\ heap' \in [DOMAIN heap' -> Node] /\ roots' \in Seq(Nat)
<1>1. DOMAIN heap' = {} /\ heap' \in [DOMAIN heap' -> Node]
  BY DEF NoForest
<1>2. Tops' = {} /\ Roots' = {}
  BY DEF Tops, Roots
<1>3. Children' = {}
  BY <1>1 DEF Children
<1>4. Forest'
  BY <1>1, <1>2, <1>3 DEF Forest
<1> QED
  BY <1>1, <1>2, <1>3, <1>4

LEMMA InitInvariant == Init => IInv
<1> SUFFICES ASSUME Init PROVE IInv
  OBVIOUS
<1>1. /\ db = <<>> /\ queries = <<>> /\ phase = "idle" /\ pos = 1 /\ branch = Null
      /\ resolved = {} /\ remaining = 0 /\ heap = NoForest /\ roots = <<>> /\ room = 0
      /\ lost = {} /\ failures = 0 /\ client \in {"gpu", "arm"}
      /\ pc = (IF client = "gpu" THEN "cards" ELSE "ask")
      /\ list = <<>> /\ names = <<>> /\ printed = <<>>
  BY DEF Init, IdsInit
<1>2. DOMAIN heap = {} /\ heap \in [DOMAIN heap -> Node]
  BY <1>1 DEF NoForest
<1>3. Tops = {} /\ Roots = {}
  BY <1>1 DEF Tops, Roots
<1>4. Children = {}
  BY <1>2 DEF Children
<1>5. queries # Full /\ queries \in Seq(Cards) /\ Unresolved = {}
  <2>1. queries \in Seq(Cards)
    BY <1>1
  <2>2. queries # Full
    BY <2>1, CardAssumption
  <2> QED
    BY <1>1, <2>1, <2>2 DEF Unresolved
<1>6. Shape
  BY <1>1, <1>2, <1>5 DEF Shape, Null
<1>7. Forest
  BY <1>1, <1>2, <1>3, <1>4 DEF Forest
<1>8. Branch /\ Answered /\ Stored /\ Ended
  BY <1>1 DEF Branch, Answered, Stored, Ended
<1>9. Asked
  BY <1>1, <1>3, <1>4, <1>5, FS_EmptySet DEF Asked
<1>10. Client
  BY <1>1 DEF Client
<1>11. NamesAreTrue /\ NamesAreComplete
  BY <1>1 DEF NamesAreTrue, NamesAreComplete
<1> QED
  BY <1>6, <1>7, <1>8, <1>9, <1>10, <1>11 DEF IInv, Complete

LEMMA ReadCardKeeps ==
  ASSUME IInv, NEW c \in Cards, ReadCard(c)
  PROVE  IInv'
<1>1. /\ pc = "cards" /\ UNCHANGED <<db, queries, phase, parsing, forest>>
      /\ pc' = pc /\ db' = db /\ queries' = queries /\ phase' = phase /\ pos' = pos
      /\ client' = client /\ names' = names /\ printed' = printed
      /\ list' = <<c>> \o list \/ list' = list
      /\ failures' = failures \/ failures' = failures + 1
  BY DEF ReadCard, parsing, forest, Fail
<1>2. /\ failures \in Nat /\ failures' \in Nat /\ (failures' = 0 => failures = 0)
      /\ phase = "idle" /\ names = <<>> /\ client = "gpu" /\ list \in Seq(Cards)
  BY <1>1 DEF IInv, Shape, Client
<1>3. Shape' /\ Forest' /\ Branch' /\ Asked' /\ Complete'
  BY <1>1, <1>2, ParserRests
<1>4. list' \in Seq(Cards)
  <2>1. <<c>> \in Seq(Cards)
    OBVIOUS
  <2>2. <<c>> \o list \in Seq(Cards)
    BY <1>2, <2>1, ConcatProperties
  <2> QED
    BY <1>1, <1>2, <2>2
<1>5. Client'
  <2>1. Names' = Names
    BY <1>1 DEF Names
  <2>2. /\ heap' = heap /\ roots' = roots /\ lost' = lost /\ room' = room
        /\ resolved' = resolved /\ remaining' = remaining /\ branch' = branch
    BY <1>1 DEF parsing, forest
  <2> QED
    BY <1>1, <1>2, <1>4, <2>1, <2>2 DEF IInv, Client
<1>6. NamesAreTrue' /\ NamesAreComplete'
  BY <1>1, <1>2 DEF NamesAreTrue, NamesAreComplete
<1> QED
  BY <1>3, <1>5, <1>6 DEF IInv

LEMMA EndOfCardsKeeps ==
  ASSUME IInv, EndOfCards
  PROVE  IInv'
<1>1. /\ pc = "cards" /\ UNCHANGED <<db, queries, phase, parsing, forest>>
      /\ pc' = IF list = <<>> THEN "cleanup" ELSE "ask"
      /\ db' = db /\ queries' = queries /\ phase' = phase /\ pos' = pos
      /\ heap' = heap /\ roots' = roots /\ lost' = lost /\ room' = room
      /\ resolved' = resolved /\ remaining' = remaining /\ branch' = branch
      /\ client' = client /\ names' = names /\ printed' = printed /\ list' = list
      /\ failures' = failures
  BY DEF EndOfCards, idsVars, hwVars, parsing, forest
<1>2. /\ failures \in Nat /\ phase = "idle" /\ names = <<>> /\ printed = <<>>
      /\ client = "gpu" /\ list \in Seq(Cards)
  BY <1>1 DEF IInv, Shape, Client
<1>3. Shape' /\ Forest' /\ Branch' /\ Asked' /\ Complete'
  <2>1. pc' # "parse"
    BY <1>1
  <2> QED
    BY <1>1, <1>2, <2>1, ParserRests
<1>4. Client'
  <2>1. Names' = Names /\ Kept' = Kept
    BY <1>1 DEF Names, Kept
  <2>2. list = <<>> => Len(names) = Len(Kept)
    BY <1>2, KeptIs
  <2>3. printed = FormatDuplicates(names)
    <3>1. names \in Seq(Names) /\ names = <<>>
      BY <1>2
    <3>2. FormatDuplicates(names) = <<>>
      BY <3>1, FormatDuplicatesIs
    <3> QED
      BY <1>2, <3>2
  <2> QED
    BY <1>1, <1>2, <2>1, <2>2, <2>3 DEF IInv, Client
<1>5. NamesAreTrue' /\ NamesAreComplete'
  BY <1>1, <1>2 DEF NamesAreTrue, NamesAreComplete
<1> QED
  BY <1>3, <1>4, <1>5 DEF IInv

\* The call of the parser, by either client.
LEMMA AskKeeps ==
  ASSUME IInv, pc = "ask", pc' = "parse", UNCHANGED hwVars,
         NEW qs, Parse(qs) \/ NoDatabase(qs),
         client = "gpu" => qs = Kept, client = "arm" => qs = Full
  PROVE  IInv'
<1>1. /\ phase = "idle" /\ queries' = qs /\ pos' = pos /\ branch' = branch
      /\ resolved' = resolved /\ heap' = heap /\ roots' = roots /\ lost' = lost
      /\ client' = client /\ names' = names /\ printed' = printed /\ list' = list
      /\ \/ /\ phase' = "lines" /\ room' = Capacity
            /\ remaining' = (IF qs = Full THEN 0 ELSE Len(qs)) /\ failures' = failures
            /\ db' \in Databases
         \/ /\ phase' = "failed" /\ room' = room /\ remaining' = remaining
            /\ failures' = failures + 1 /\ db' \in Databases
         \/ /\ phase' = "failed" /\ room' = room /\ remaining' = remaining
            /\ failures' = failures /\ db' = db
  BY DEF Parse, NoDatabase, Fail, parsing, forest, hwVars
<1>2. /\ pos = 1 /\ branch = Null /\ resolved = {} /\ heap = NoForest /\ roots = <<>>
      /\ lost = {} /\ room = 0 /\ remaining = 0 /\ names = <<>> /\ failures \in Nat
      /\ list \in Seq(Cards) /\ client \in {"gpu", "arm"} /\ db \in Seq(LineOfIds)
      /\ client = "gpu" => list # <<>>
      /\ client = "arm" => list = <<>>
  BY <1>1 DEF IInv, Shape, Client
<1>3. client = "gpu" => /\ qs \in Seq(Cards) /\ qs # Full /\ qs # <<>>
                        /\ DOMAIN qs = 1 .. Len(qs) /\ Len(qs) \in Nat
  BY <1>2, KeptIs
<1>4. qs # Full => Len(qs) > 0
  <2> SUFFICES ASSUME qs # Full PROVE Len(qs) > 0
    OBVIOUS
  <2>1. qs \in Seq(Cards) /\ qs # <<>>
    BY <1>2, <1>3
  <2> QED
    BY <2>1
<1>5. db' \in Seq(LineOfIds) /\ failures' \in Nat /\ remaining' \in Nat
      /\ room' \in Nat /\ (phase' = "lines" => room' # 0)
      /\ qs \in Seq(Cards) \cup {Full}
  BY <1>1, <1>2, <1>3, DatabaseAssumption, CapacityAssumption
<1>6. /\ Forest' /\ Tops' = {} /\ Roots' = {} /\ Children' = {}
      /\ heap' \in [DOMAIN heap' -> Node] /\ roots' \in Seq(Nat)
  BY <1>1, <1>2, <1>5, EmptyForest
<1>7. Shape'
  <2>1. pos' \in 1 .. Len(db') + 1 /\ 1 .. pos' - 1 = {}
    BY <1>1, <1>2, <1>5
  <2> QED
    BY <1>1, <1>2, <1>5, <1>6, <2>1 DEF Shape, Null
<1>8. Branch'
  BY <1>1, <1>2 DEF Branch
<1>9. Asked'
  <2> SUFFICES ASSUME queries' # Full
               PROVE  /\ phase' # "failed" => remaining' = Cardinality(Unresolved')
                      /\ phase' = "lines" => remaining' > 0
    BY <1>6 DEF Asked
  <2>1. Unresolved' = 1 .. Len(qs) /\ Len(qs) \in Nat
    BY <1>1, <1>2, <1>3 DEF Unresolved
  <2>2. Cardinality(1 .. Len(qs)) = Len(qs)
    <3>1. 1 \in Int /\ Len(qs) \in Int
      BY <2>1
    <3>2. Cardinality(1 .. Len(qs)) = IF 1 > Len(qs) THEN 0 ELSE Len(qs) - 1 + 1
      BY <3>1, FS_Interval
    <3> QED
      BY <2>1, <3>2
  <2> QED
    BY <1>1, <1>4, <2>1, <2>2
<1>10. Answered' /\ Ended'
  BY <1>1, <1>2 DEF Answered, Ended
<1>11. Stored'
  <2>1. \A p \in 1 .. pos' - 1 : FALSE
    BY <1>1, <1>2
  <2> QED
    BY <1>1, <1>2, <1>6, <2>1 DEF Stored
<1>12. Client'
  <2>1. Kept' = Kept
    BY <1>1 DEF Kept
  <2>2. names' \in Seq(Names')
    BY <1>1, <1>2
  <2>3. phase' # "idle" /\ pc' = "parse"
    BY <1>1
  <2>4. Len(names) = Len(list) \/ client = "gpu"
    BY <1>2
  <2> QED
    BY <1>1, <1>2, <1>5, <2>1, <2>2, <2>3, <2>4 DEF Client
<1>13. NamesAreTrue' /\ NamesAreComplete'
  BY <1>1, <1>2 DEF NamesAreTrue, NamesAreComplete
<1> QED
  BY <1>6, <1>7, <1>8, <1>9, <1>10, <1>11, <1>12, <1>13 DEF IInv, Complete

\* A card whose name is looked up was asked for.
LEMMA LookupFacts ==
  ASSUME IInv, pc = "parse", phase \in {"parsed", "failed"}
  PROVE  /\ list \in Seq(Cards)
         /\ client = "gpu" => queries = Kept /\ \A j \in DOMAIN Kept : PairAsked(Kept[j])
         /\ client = "arm" => \A x : PairAsked(x)
<1>1. list \in Seq(Cards) /\ (client = "gpu" => queries = Kept)
      /\ (client = "arm" => queries = Full)
  BY DEF IInv, Client
<1>2. client = "gpu" => \A j \in DOMAIN Kept : PairAsked(Kept[j])
  BY <1>1 DEF PairAsked
<1> QED
  BY <1>1, <1>2 DEF PairAsked

LEMMA LookupGpusKeeps ==
  ASSUME IInv, LookupGpus
  PROVE  IInv'
<1>1. /\ pc = "parse" /\ client = "gpu" /\ phase \in {"parsed", "failed"}
      /\ names' = [j \in DOMAIN Kept |-> NameOf(Kept[j])]
      /\ pc' = "print"
      /\ UNCHANGED <<db, queries, phase, parsing, forest>>
      /\ db' = db /\ queries' = queries /\ phase' = phase /\ pos' = pos
      /\ heap' = heap /\ roots' = roots /\ lost' = lost /\ room' = room
      /\ resolved' = resolved /\ remaining' = remaining /\ branch' = branch
      /\ client' = client /\ printed' = printed /\ list' = list
      /\ failures' = failures
  BY DEF LookupGpus, idsVars, parsing, forest
<1>2. Shape' /\ Forest' /\ Branch' /\ Asked' /\ Complete'
  <2>1. pc' # "parse" /\ failures' \in Nat
    BY <1>1 DEF IInv, Shape
  <2> QED
    BY <1>1, <2>1, ParserRests
<1>3. list \in Seq(Cards) /\ queries = Kept
  BY <1>1, LookupFacts
<1>4. /\ DOMAIN Kept = 1 .. Len(Kept) /\ Len(Kept) \in Nat
      /\ \A j \in DOMAIN Kept : Kept[j] = list[j] /\ Kept[j] \in Cards /\ PairAsked(Kept[j])
  BY <1>1, <1>3, KeptIs, LookupFacts
<1>5. \A j \in DOMAIN Kept : names'[j] = NameOf(Kept[j]) /\ NameOf(Kept[j]) \in Names
  BY <1>1, <1>4, NameOfIs
<1>6. names' \in Seq(Names) /\ Len(names') = Len(Kept) /\ DOMAIN names' = DOMAIN Kept
  <2>1. names' \in [1 .. Len(Kept) -> Names]
    BY <1>1, <1>4, <1>5
  <2> HIDE DEF Kept
  <2> QED
    BY <1>4, <2>1
<1>7. Client'
  <2>1. Names' = Names /\ Kept' = Kept
    BY <1>1 DEF Names, Kept
  <2> QED
    BY <1>1, <1>3, <1>6, <2>1 DEF IInv, Client
<1>8. NamesAreTrue'
  <2> SUFFICES ASSUME NEW j \in DOMAIN Kept
               PROVE  LET x == list[j]
                          n == names'[j]
                      IN  /\ n.part = x.device
                          /\ n.vendor # Null => IsVendor(db[n.vendor]) /\ db[n.vendor].id = x.vendor
                          /\ n.device # Null =>
                               /\ db[n.device].id = x.device
                               /\ n.device = n.vendor \/ SectionOf(n.device) = n.vendor
    <3>1. \A p : (SectionOf(p))' = SectionOf(p)
      BY <1>1, Steady
    <3> QED
      BY <1>1, <1>6, <3>1 DEF NamesAreTrue
  <2> QED
    BY <1>1, <1>4, <1>5, NameOfIs
<1>9. NamesAreComplete'
  <2> SUFFICES ASSUME failures = 0, phase = "parsed", NEW j \in DOMAIN Kept
               PROVE  /\ names'[j].vendor = VendorIn(list[j].vendor)
                      /\ names'[j].device = DeviceIn(list[j].vendor, list[j].device)
    <3>1. /\ \A v : (VendorIn(v))' = VendorIn(v)
          /\ \A v, d : (DeviceIn(v, d))' = DeviceIn(v, d)
      BY <1>1, FullReadingStays
    <3> QED
      BY <1>1, <1>6, <3>1 DEF NamesAreComplete
  <2> QED
    BY <1>1, <1>4, <1>5, NameOfIs
<1> QED
  BY <1>2, <1>7, <1>8, <1>9 DEF IInv

LEMMA LookupArmKeeps ==
  ASSUME IInv, NEW c \in Cards, LookupArm(c)
  PROVE  IInv'
<1>1. /\ pc = "parse" /\ client = "arm" /\ phase \in {"parsed", "failed"}
      /\ list' = Append(list, c) /\ names' = Append(names, NameOf(c))
      /\ pc' = pc
      /\ UNCHANGED <<db, queries, phase, parsing, forest>>
      /\ db' = db /\ queries' = queries /\ phase' = phase /\ pos' = pos
      /\ heap' = heap /\ roots' = roots /\ lost' = lost /\ room' = room
      /\ resolved' = resolved /\ remaining' = remaining /\ branch' = branch
      /\ client' = client /\ printed' = printed
      /\ failures' = failures
  BY DEF LookupArm, idsVars, parsing, forest
<1>2. Shape' /\ Forest' /\ Branch' /\ Asked' /\ Complete'
  <2>1. (pc' = "parse" => pc = "parse") /\ failures' \in Nat
    BY <1>1 DEF IInv, Shape
  <2> QED
    BY <1>1, <2>1, ParserRests
<1>3. /\ list \in Seq(Cards) /\ names \in Seq(Names) /\ Len(names) = Len(list)
      /\ PairAsked(c) /\ NameOf(c) \in Names
  BY <1>1, LookupFacts, NameOfIs DEF IInv, Client
<1>4. /\ list' \in Seq(Cards) /\ names' \in Seq(Names) /\ Len(names') = Len(list')
      /\ list'[Len(list')] = c /\ names'[Len(list')] = NameOf(c)
      /\ \A j \in DOMAIN names' : j \in DOMAIN names \/ j = Len(list')
      /\ \A j \in DOMAIN names : j \in DOMAIN list /\ list'[j] = list[j] /\ names'[j] = names[j]
  <2>1. /\ names' \in Seq(Names) /\ Len(names') = Len(names) + 1
        /\ names'[Len(names')] = NameOf(c)
        /\ \A j \in DOMAIN names' : j \in DOMAIN names \/ j = Len(names')
        /\ \A j \in DOMAIN names : names'[j] = names[j]
        /\ DOMAIN names = 1 .. Len(names)
    BY <1>1, <1>3, OneMore
  <2>2. /\ list' \in Seq(Cards) /\ Len(list') = Len(list) + 1
        /\ list'[Len(list')] = c
        /\ \A j \in DOMAIN list : list'[j] = list[j]
        /\ DOMAIN list = 1 .. Len(list)
    BY <1>1, <1>3, OneMore
  <2> QED
    BY <1>3, <2>1, <2>2
<1>5. Client'
  <2>1. Names' = Names
    BY <1>1 DEF Names
  <2> QED
    BY <1>1, <1>4, <2>1 DEF IInv, Client
<1>6. NamesAreTrue'
  <2>1. \A p : (SectionOf(p))' = SectionOf(p)
    BY <1>1, Steady
  <2> DEFINE True(x, n) ==
               /\ n.part = x.device
               /\ n.vendor # Null => IsVendor(db[n.vendor]) /\ db[n.vendor].id = x.vendor
               /\ n.device # Null => /\ db[n.device].id = x.device
                                     /\ n.device = n.vendor \/ SectionOf(n.device) = n.vendor
  <2>2. \A j \in DOMAIN names : True(list[j], names[j])
    BY DEF IInv, NamesAreTrue
  <2>3. True(c, NameOf(c))
    BY <1>1, NameOfIs
  <2>4. ASSUME \A j \in DOMAIN names' : True(list'[j], names'[j]) PROVE NamesAreTrue'
    BY <1>1, <2>1, <2>4 DEF NamesAreTrue
  <2> HIDE DEF True
  <2>5. \A j \in DOMAIN names' : True(list'[j], names'[j])
    BY <1>4, <2>2, <2>3
  <2> QED
    BY <2>4, <2>5
<1>7. NamesAreComplete'
  <2> SUFFICES ASSUME failures = 0, phase = "parsed"
               PROVE  \A j \in DOMAIN names' :
                        /\ names'[j].vendor = VendorIn(list'[j].vendor)
                        /\ names'[j].device = DeviceIn(list'[j].vendor, list'[j].device)
    <3>1. /\ \A v : (VendorIn(v))' = VendorIn(v)
          /\ \A v, d : (DeviceIn(v, d))' = DeviceIn(v, d)
      BY <1>1, FullReadingStays
    <3> QED
      BY <1>1, <3>1 DEF NamesAreComplete
  <2>1. \A j \in DOMAIN names : /\ names[j].vendor = VendorIn(list[j].vendor)
                                /\ names[j].device = DeviceIn(list[j].vendor, list[j].device)
    BY DEF IInv, NamesAreComplete
  <2>2. /\ NameOf(c).vendor = VendorIn(c.vendor)
        /\ NameOf(c).device = DeviceIn(c.vendor, c.device)
    BY <1>1, <1>3, NameOfIs
  <2> QED
    BY <1>4, <2>1, <2>2
<1> QED
  BY <1>2, <1>5, <1>6, <1>7 DEF IInv

LEMMA EndOfArmKeeps ==
  ASSUME IInv, EndOfArm
  PROVE  IInv'
<1>1. /\ pc = "parse" /\ client = "arm" /\ phase \in {"parsed", "failed"} /\ pc' = "cleanup"
      /\ UNCHANGED <<db, queries, phase, parsing, forest>>
      /\ db' = db /\ queries' = queries /\ phase' = phase /\ pos' = pos
      /\ heap' = heap /\ roots' = roots /\ lost' = lost /\ room' = room
      /\ resolved' = resolved /\ remaining' = remaining /\ branch' = branch
      /\ client' = client /\ names' = names /\ printed' = printed /\ list' = list
      /\ failures' = failures
  BY DEF EndOfArm, idsVars, hwVars, parsing, forest
<1>2. Shape' /\ Forest' /\ Branch' /\ Asked' /\ Complete'
  <2>1. pc' # "parse" /\ failures' \in Nat
    BY <1>1 DEF IInv, Shape
  <2> QED
    BY <1>1, <2>1, ParserRests
<1>3. Client'
  <2>1. Names' = Names
    BY <1>1 DEF Names
  <2> QED
    BY <1>1, <2>1 DEF IInv, Client
<1> QED
  BY <1>1, <1>2, <1>3, NamesStay DEF IInv

LEMMA PrintNamesKeeps ==
  ASSUME IInv, PrintNames
  PROVE  IInv'
<1>1. /\ pc = "print" /\ pc' = "cleanup" /\ printed' = FormatDuplicates(names)
      /\ UNCHANGED <<db, queries, phase, parsing, forest>>
      /\ db' = db /\ queries' = queries /\ phase' = phase /\ pos' = pos
      /\ heap' = heap /\ roots' = roots /\ lost' = lost /\ room' = room
      /\ resolved' = resolved /\ remaining' = remaining /\ branch' = branch
      /\ client' = client /\ names' = names /\ list' = list
      /\ failures' = failures
  BY DEF PrintNames, idsVars, parsing, forest
<1>2. Shape' /\ Forest' /\ Branch' /\ Asked' /\ Complete'
  <2>1. pc' # "parse" /\ failures' \in Nat
    BY <1>1 DEF IInv, Shape
  <2> QED
    BY <1>1, <2>1, ParserRests
<1>3. Client'
  <2>1. Names' = Names /\ Kept' = Kept
    BY <1>1 DEF Names, Kept
  <2> QED
    BY <1>1, <2>1 DEF IInv, Client
<1> QED
  BY <1>1, <1>2, <1>3, NamesStay DEF IInv

\* What tree_destroy_forest leaves is a forest too: the lost roots, and all that
\* hangs from them.
LEMMA DestroyLeaves ==
  ASSUME Shape, Forest, Destroy, db' = db, pos' = pos
  PROVE  /\ Forest' /\ heap' \in [DOMAIN heap' -> Node] /\ roots' = <<>> /\ room' = 0
         /\ Tops' \subseteq Tops /\ Children' \subseteq Children
         /\ \A p \in DOMAIN heap' : p \in lost' \/ SectionOf(p) \in lost'
<1> DEFINE gone == Roots \cup {p \in Children : SectionOf(p) \in Roots}
<1>1. /\ heap' = [a \in DOMAIN heap \ gone |-> heap[a]]
      /\ roots' = <<>> /\ room' = 0 /\ lost' = lost
  <2>1. Roots \in SUBSET Tops
    BY DEF Roots, Tops
  <2>2. Reachable(Roots) = gone
    BY <2>1, ReachableIs
  <2> HIDE DEF gone
  <2> QED
    BY <2>2 DEF Destroy, Roots
<1>2. DOMAIN heap' = DOMAIN heap \ gone /\ \A a \in DOMAIN heap' : heap'[a] = heap[a]
  BY <1>1
<1>3. Tops' = lost /\ lost \subseteq Tops /\ Tops = Roots \cup lost
      /\ Roots \cap lost = {}
  BY <1>1 DEF Tops, Roots, Forest
<1>4. Tops \subseteq DOMAIN heap /\ heap \in [DOMAIN heap -> Node]
  BY DEF Forest, Shape
<1>5. heap' \in [DOMAIN heap' -> Node]
  <2>1. \A a \in DOMAIN heap \ gone : heap[a] \in Node
    BY <1>4
  <2> HIDE DEF gone
  <2> QED
    BY <1>1, <2>1
<1>6. lost \subseteq DOMAIN heap'
  BY <1>2, <1>3, <1>4 DEF Children
<1>7. Children' = {p \in Children : SectionOf(p) \in lost}
  <2>1. \A p \in Children : SectionOf(p) \in Tops
    BY DEF Forest
  <2>2. \A p : p \in Children' <=> p \in DOMAIN heap' /\ p \notin lost
    BY <1>3 DEF Children
  <2>3. \A p : p \in DOMAIN heap' <=> p \in DOMAIN heap /\ p \notin gone
    BY <1>2
  <2>4. \A p : p \in Children <=> p \in DOMAIN heap /\ p \notin Roots /\ p \notin lost
    BY <1>3 DEF Children
  <2> QED
    BY <1>3, <2>1, <2>2, <2>3, <2>4
<1>8. \A p : (SectionOf(p))' = SectionOf(p)
  BY Steady
<1>9. ASSUME NEW r \in lost PROVE \E s : (Chain(r, s))'
  <2>1. PICK s : Chain(r, s)
    BY <1>3 DEF Forest
  <2>2. (ChildrenOf(r))' = ChildrenOf(r)
    BY <1>7, <1>8 DEF ChildrenOf
  <2>3. \A p \in ChildrenOf(r) : p \in DOMAIN heap'
    BY <2>2 DEF ChildrenOf, Children
  <2>4. (Chain(r, s))'
    BY <1>2, <1>6, <2>1, <2>2, <2>3, ChainSame
  <2> QED
    BY <2>4
<1>10. Forest'
  <2>1. \A r \in Tops' : (IsVendor(db[r]) /\ \E s : Chain(r, s))'
    BY <1>3, <1>9 DEF Forest
  <2>2. \A p \in Children' : (IsDevice(db[p]) /\ SectionOf(p) \in Tops)'
    BY <1>3, <1>7, <1>8 DEF Forest
  <2>3. \A p \in DOMAIN heap' : heap'[p].id = db'[p].id /\ p \in 1 .. pos' - 1
    BY <1>2 DEF Forest
  <2>4. Tops' \subseteq DOMAIN heap'
    BY <1>3, <1>6
  <2> QED
    BY <1>1, <2>1, <2>2, <2>3, <2>4 DEF Forest
<1>11. \A p \in DOMAIN heap' : p \in lost' \/ SectionOf(p) \in lost'
  <2> TAKE p \in DOMAIN heap'
  <2>1. p \in Tops' \/ p \in Children'
    BY DEF Children
  <2> QED
    BY <1>1, <1>3, <1>7, <2>1
<1> QED
  BY <1>1, <1>3, <1>5, <1>7, <1>10, <1>11

LEMMA CleanupKeeps ==
  ASSUME IInv, Cleanup
  PROVE  IInv'
<1>1. /\ pc = "cleanup" /\ pc' = "done"
      /\ IF phase = "parsed" THEN Destroy
         ELSE heap' = heap /\ roots' = roots /\ room' = room /\ lost' = lost
      /\ db' = db /\ queries' = queries /\ phase' = phase /\ pos' = pos
      /\ UNCHANGED parsing
      /\ resolved' = resolved /\ remaining' = remaining /\ branch' = branch
      /\ client' = client /\ names' = names /\ printed' = printed /\ list' = list
      /\ failures' = failures
  BY DEF Cleanup, hwVars, parsing, forest
<1>2. /\ Shape /\ Forest /\ Asked /\ Complete /\ Client /\ failures' \in Nat
      /\ phase # "lines"
  BY <1>1 DEF IInv, Shape, Client
<1>3. Names' = Names /\ Kept' = Kept
  BY <1>1 DEF Names, Kept
<1>4. CASE phase # "parsed"
  <2>1. Shape' /\ Forest' /\ Branch' /\ Asked' /\ Complete'
    <3>1. UNCHANGED <<db, queries, phase, parsing, forest>> /\ pc' # "parse"
      BY <1>1, <1>4 DEF forest
    <3> QED
      BY <1>1, <1>2, <3>1, ParserRests
  <2>2. roots = <<>>
    BY <1>2, <1>4 DEF Client, Shape
  <2>3. Client'
    BY <1>1, <1>2, <1>3, <1>4, <2>2 DEF Client
  <2> QED
    BY <1>1, <2>1, <2>3, NamesStay DEF IInv
<1>5. CASE phase = "parsed"
  <2>1. /\ Forest' /\ heap' \in [DOMAIN heap' -> Node] /\ roots' = <<>> /\ room' = 0
        /\ Tops' \subseteq Tops /\ Children' \subseteq Children
    BY <1>1, <1>2, <1>5, DestroyLeaves
  <2>2. Shape'
    <3>1. Asks' = Asks
      BY <1>1 DEF Asks
    <3>2. roots' \in Seq(Nat) /\ room' \in Nat
      BY <2>1
    <3> QED
      BY <1>1, <1>2, <2>1, <3>1, <3>2 DEF Shape
  <2>3. Branch' /\ Stored'
    BY <1>1, <1>5 DEF Branch, Stored
  <2>4. Asked'
    <3>1. \A p : (Pair(p))' = Pair(p)
      BY <1>1, Steady
    <3>2. Unresolved' = Unresolved
      BY <1>1 DEF Unresolved
    <3> SUFFICES ASSUME queries # Full
                 PROVE  /\ \A r \in Tops' : \E q \in DOMAIN queries : queries[q].vendor = db[r].id
                        /\ \A p \in Children' :
                             /\ \E q \in DOMAIN queries : queries[q] = Pair(p)
                             /\ \A q \in DOMAIN queries : queries[q] = Pair(p) => q \in resolved
                             /\ \A p2 \in Children' : Pair(p) = Pair(p2) => p = p2
      BY <1>1, <1>2, <3>1, <3>2 DEF Asked
    <3> QED
      BY <1>2, <2>1 DEF Asked
  <2>5. Answered' /\ Ended'
    <3>1. /\ Body' = Body /\ Unresolved' = Unresolved
          /\ \A p : (Pair(p))' = Pair(p)
          /\ \A p : (IsFirstDevice(p))' <=> IsFirstDevice(p)
      BY <1>1, Steady DEF Unresolved
    <3> QED
      BY <1>1, <1>2, <3>1 DEF Answered, Ended, Complete
  <2>6. Client'
    BY <1>1, <1>2, <1>3, <1>5, <2>1 DEF Client
  <2> QED
    BY <1>1, <2>1, <2>2, <2>3, <2>4, <2>5, <2>6, NamesStay DEF IInv, Complete
<1> QED
  BY <1>4, <1>5

LEMMA NextInvariant == IInv /\ [Next]_vars => IInv'
<1> SUFFICES ASSUME IInv, [Next]_vars PROVE IInv'
  OBVIOUS
<1>1. ASSUME NEW c \in Cards, ReadCard(c) \/ LookupArm(c) PROVE IInv'
  BY <1>1, ReadCardKeeps, LookupArmKeeps
<1>2. CASE EndOfCards
  BY <1>2, EndOfCardsKeeps
<1>3. CASE AskGpu
  <2>1. /\ pc = "ask" /\ pc' = "parse" /\ client = "gpu" /\ UNCHANGED hwVars
        /\ Parse(Kept) \/ NoDatabase(Kept)
    BY <1>3 DEF AskGpu
  <2> QED
    BY <2>1, AskKeeps
<1>4. CASE AskArm
  <2>1. pc = "ask" /\ pc' = "parse" /\ client = "arm" /\ UNCHANGED hwVars /\ Parse(Full)
    BY <1>4 DEF AskArm
  <2> QED
    BY <2>1, AskKeeps
<1>5. CASE ParseLine
  BY <1>5, ParseLineKeeps
<1>6. CASE LookupGpus \/ EndOfArm \/ PrintNames \/ Cleanup
  BY <1>6, LookupGpusKeeps, EndOfArmKeeps, PrintNamesKeeps, CleanupKeeps
<1>7. CASE UNCHANGED vars
  <2>1. /\ UNCHANGED <<db, queries, phase, parsing, forest>> /\ pc' = pc
        /\ db' = db /\ queries' = queries /\ phase' = phase /\ pos' = pos
        /\ heap' = heap /\ roots' = roots /\ lost' = lost /\ room' = room
        /\ resolved' = resolved /\ remaining' = remaining /\ branch' = branch
        /\ client' = client /\ names' = names /\ printed' = printed /\ list' = list
        /\ failures' = failures
    BY <1>7 DEF vars, idsVars, hwVars, parsing, forest
  <2>2. Shape' /\ Forest' /\ Branch' /\ Asked' /\ Complete'
    <3>1. failures' \in Nat
      BY <2>1 DEF IInv, Shape
    <3> QED
      BY <2>1, <3>1, ParserRests
  <2>3. Client'
    <3>1. Names' = Names /\ Kept' = Kept
      BY <2>1 DEF Names, Kept
    <3> QED
      BY <2>1, <3>1 DEF IInv, Client
  <2> QED
    BY <2>1, <2>2, <2>3, NamesStay DEF IInv
<1> QED
  BY <1>1, <1>2, <1>3, <1>4, <1>5, <1>6, <1>7 DEF Next
-----------------------------------------------------------------------------
(* What the runs check                                                     *)

LEMMA InvariantHolds == Spec => []IInv
<1> QED
  BY InitInvariant, NextInvariant, PTL DEF Spec

LEMMA TypesFollow == IInv => TypeOK
<1> SUFFICES ASSUME IInv PROVE TypeOK
  OBVIOUS
<1>1. Shape /\ Forest /\ Branch /\ Asked /\ Client
  BY DEF IInv
<1>2. DOMAIN heap \subseteq DOMAIN db
  BY <1>1, ForestTypes
<1>3. phase = "lines" => branch \in DOMAIN heap \cup {Null}
  BY <1>1 DEF Branch, Forest
<1>4. IdsTypeOK
  BY <1>1, <1>2, <1>3 DEF IdsTypeOK, Shape, Forest, Asked
<1> QED
  BY <1>1, <1>4 DEF TypeOK, Client, Names

LEMMA SoundnessFollows == IInv => ForestIsSound
<1> SUFFICES ASSUME IInv PROVE ForestIsSound
  OBVIOUS
<1>1. Shape /\ Forest
  BY DEF IInv
<1>2. \A j, k \in DOMAIN roots : j < k => roots[j] < roots[k]
  BY <1>1 DEF Forest
<1>3. DOMAIN heap = Reachable(Tops)
  <2>1. Reachable(Tops) = Tops \cup {p \in Children : SectionOf(p) \in Tops}
    BY <1>1, ReachableIs
  <2>2. /\ Tops \subseteq DOMAIN heap /\ \A p \in Children : SectionOf(p) \in Tops
    BY <1>1 DEF Forest
  <2> QED
    BY <2>1, <2>2 DEF Children
<1>4. ASSUME NEW r \in Tops
      PROVE  /\ heap[r].last = IF Kids(r) = <<>> THEN Null ELSE Kids(r)[Len(Kids(r))]
             /\ \A j, k \in DOMAIN Kids(r) : j < k => Kids(r)[j] < Kids(r)[k]
             /\ \A j \in DOMAIN Kids(r) : SectionOf(Kids(r)[j]) = r
  <2>1. Chain(r, Kids(r)) /\ \A j \in DOMAIN Kids(r) : Kids(r)[j] \in ChildrenOf(r)
    BY <1>1, KidsAreChained, KidsRange
  <2> QED
    BY <2>1 DEF Chain, ChildrenOf
<1> QED
  BY <1>2, <1>3, <1>4 DEF ForestIsSound, Tops

LEMMA WantedFollows == IInv => OnlyWantedStored
<1> SUFFICES ASSUME IInv, queries # Full
             PROVE  /\ \A p \in Children : \E q \in DOMAIN queries : queries[q] = Pair(p)
                    /\ \A p, q \in Children : Pair(p) = Pair(q) => p = q
                    /\ \A p \in DOMAIN heap \ Children :
                         \E q \in DOMAIN queries : queries[q].vendor = db[p].id
  <2>1. {p \in DOMAIN heap : p \notin {roots[j] : j \in DOMAIN roots} \cup lost} = Children
    BY DEF Children, Tops
  <2> QED
    BY <2>1 DEF OnlyWantedStored, Pair
<1>1. Asked
  BY DEF IInv
<1>2. \A p \in DOMAIN heap \ Children : p \in Tops
  BY DEF Children
<1> QED
  BY <1>1, <1>2 DEF Asked

\* Every step of the parser and of its clients keeps the variables well formed,
\* and counts the unanswered queries right (util_parse_ids_span).
THEOREM TypeCorrect == Spec => []TypeOK
<1> QED
  BY InvariantHolds, TypesFollow, PTL

\* However the lines come and whichever allocation fails, the trees are sound
\* at every line (binary_trees.c), and a filtered reading stores nothing that
\* was not asked for, and nothing twice (util_parse_ids_file_filtered).
THEOREM ForestIsAlwaysRight == Spec => []ForestIsRight
<1>1. IInv => ForestIsRight
  BY SoundnessFollows, WantedFollows DEF ForestIsRight
<1> QED
  BY <1>1, InvariantHolds, PTL

\* Whatever allocations failed, a name that is shown is that of the numbers read; a
\* device with its vendor's number may have the vendor's own line (hw_gpu_lookup_names,
\* hw_arm_lookup_name).
THEOREM NamesAreAlwaysTrue == Spec => []NamesAreTrue
<1>1. IInv => NamesAreTrue
  BY DEF IInv
<1> QED
  BY <1>1, InvariantHolds, PTL

\* When memory was never short, the filter and the early stop cost no name: each
\* is the one a reading of the whole database gives.
THEOREM NamesAreAlwaysComplete == Spec => []NamesAreComplete
<1>1. IInv => NamesAreComplete
  BY DEF IInv
<1> QED
  BY <1>1, InvariantHolds, PTL

\* The cards that are shown add up to those found, up to MAX_GPUS, each under
\* one entry (util_format_duplicate_hardware).
THEOREM CardsAreAlwaysCounted == Spec => []CardsAreCounted
<1>1. ASSUME IInv PROVE CardsAreCounted
  <2> SUFFICES ASSUME client = "gpu", pc \in {"cleanup", "done"}
               PROVE  /\ Len(names) = Len(Kept)
                      /\ \A k \in DOMAIN names : \E j \in DOMAIN printed : printed[j].name = names[k]
                      /\ \A j, k \in DOMAIN printed : printed[j].name = printed[k].name => j = k
                      /\ \A j \in DOMAIN printed :
                           printed[j].count = Cardinality({k \in DOMAIN names : names[k] = printed[j].name})
    BY DEF CardsAreCounted
  <2>1. /\ names \in Seq(Names) /\ Len(names) = Len(Kept)
        /\ printed = FormatDuplicates(names)
    BY <1>1 DEF IInv, Client
  <2> QED
    BY <2>1, FormatDuplicatesIs
<1> QED
  BY <1>1, InvariantHolds, PTL

\* In the end tree_destroy_forest has freed every node, but for the roots that
\* tree_add_to_forest dropped and what hangs from them.
THEOREM ForestIsAlwaysFreed == Spec => []ForestIsFreed
<1>1. ASSUME IInv PROVE ForestIsFreed
  <2> SUFFICES ASSUME pc = "done", NEW p \in DOMAIN heap
               PROVE  p \in lost \/ SectionOf(p) \in lost
    BY DEF ForestIsFreed
  <2>1. roots = <<>>
    BY <1>1 DEF IInv, Client
  <2>2. Tops = lost
    BY <2>1 DEF Tops
  <2>3. p \in Tops \/ p \in Children
    BY DEF Children
  <2> QED
    BY <1>1, <2>2, <2>3 DEF IInv, Forest
<1> QED
  BY <1>1, InvariantHolds, PTL
=============================================================================
