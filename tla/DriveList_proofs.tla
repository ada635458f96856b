-------------------------- MODULE DriveList_proofs --------------------------
(***************************************************************************)
(* Proofs about DriveList.tla, for every set of file systems, any number    *)
(* of mounts, both platforms, and whatever the string set cannot allocate.  *)
(*                                                                          *)
(* StableDrivesShown and OneLinePerDevice speak of what has been printed;   *)
(* neither is inductive.  Order carries the ids along the way from the      *)
(* kernel's table through what is unread and what is in hand to what is     *)
(* printed.  Remembered ties the string set, and the call in progress, to   *)
(* the lines.  Settled says of every mount that counts where it is: unread, *)
(* in hand, or answered for by a line that is not of a later mount.         *)
(***************************************************************************)
EXTENDS DriveList, SequenceTheorems, TLAPS

Before == {"start", "fetch", "create"}
InHand == {"statvfs", "contains", "seen", "add", "print"}
-----------------------------------------------------------------------------
(* The inductive invariant                                                 *)

Shape ==
  /\ os \in {"linux", "macos"}
  /\ mounts \in Seq(Entry) /\ todo \in Seq(Entry) /\ shown \in Seq(Entry)
  /\ nextId \in 1 .. MaxMounts + 1
  /\ Len(mounts) < nextId
  /\ n \in 0 .. MaxMounts
  /\ os = "macos" => Len(todo) <= n
  /\ entry \in {NoEntry} \cup Entry
  /\ pc \in InHand => entry \in Entry
  /\ initial \cup failed \subseteq 1 .. nextId - 1
  /\ lost \subseteq Name
  /\ pc \in Before \cup InHand \cup {"next", "cleanup", "done"}

Increasing(s) == \A j, k \in DOMAIN s : j < k => s[j].id < s[k].id

\* The ids on the way: printed, in hand, unread, still to come.
Order ==
  /\ Increasing(mounts) /\ Increasing(todo)
  /\ \A j \in DOMAIN mounts : mounts[j].id < nextId
  /\ \A j \in DOMAIN todo : todo[j].id < nextId
  /\ entry.id < nextId
  /\ \A k \in DOMAIN todo : entry.id < todo[k].id
  /\ \A k \in DOMAIN shown : shown[k].id <= entry.id

\* Nothing has been printed before the set is created, and the array is empty
\* before it is filled.
Untouched ==
  /\ pc \in Before => shown = <<>> /\ entry = NoEntry
  /\ pc \in {"start", "fetch"} => todo = <<>>
  /\ pc = "start" => initial = {}
  /\ pc = "fetch" => os = "macos"
  /\ pc \in {"cleanup", "done"} => initial = {} \/ todo = <<>>

\* The call in progress is the one that belongs to the statement.
CallMatches ==
  /\ ~live => members = {}
  /\ pc \in Before => ~live
  /\ call # NoCall =>
       \/ pc = "next" /\ call = [op |-> "create", key |-> NoCall] /\ ~live /\ shown = <<>>
       \/ pc = "seen" /\ call = [op |-> "contains", key |-> entry.fs.fsname] /\ live
       \/ pc = "print" /\ call = [op |-> "add", key |-> entry.fs.fsname] /\ live

\* The set has the devices printed, and the one about to be, apart from those it could not
\* remember; and strset_contains has told the truth of it.
Remembered ==
  /\ \A d \in members : ShownOf(d) # {} \/ (pc = "print" /\ d = entry.fs.fsname)
  /\ pc # "done" => \A j \in DOMAIN shown : shown[j].fs.fsname \in members \cup lost
  /\ pc = "seen" /\ call = NoCall => (result = 1 <=> entry.fs.fsname \in members)
  /\ pc \in {"add", "print"} => entry.fs.fsname \in lost \/ ShownOf(entry.fs.fsname) = {}
  /\ pc = "print" /\ call = NoCall => entry.fs.fsname \in members \cup lost

\* A mount answered for: by a line of its device that is not of a later mount.
Answered(m) == \E l \in ShownOf(m.fs.fsname) : shown[l].id <= m.id

\* A mount that must be shown, if no mount of its device comes before it.
Counts(m) == m.id \in initial \ failed /\ Eligible(m.fs)

Settled ==
  /\ pc = "fetch" => \A j \in DOMAIN mounts : mounts[j].id \in initial => j <= n
  /\ pc # "fetch" =>
       \A j \in DOMAIN mounts :
         Counts(mounts[j]) =>
           \/ \E k \in DOMAIN todo : todo[k] = mounts[j]
           \/ pc \in InHand /\ entry = mounts[j]
           \/ Answered(mounts[j])

IInv == Shape /\ Order /\ Untouched /\ CallMatches /\ Remembered /\ Settled /\ ShownOnce
-----------------------------------------------------------------------------
(* Sequences of mounts                                                     *)

LEMMA RemoveAtProperties ==
  ASSUME NEW S, NEW s \in Seq(S), NEW i \in 1 .. Len(s)
  PROVE  /\ RemoveAt(s, i) \in Seq(S)
         /\ Len(RemoveAt(s, i)) = Len(s) - 1
         /\ \A j \in 1 .. Len(s) - 1 : RemoveAt(s, i)[j] = IF j < i THEN s[j] ELSE s[j + 1]
<1> DEFINE front == SubSeq(s, 1, i - 1)
           back == SubSeq(s, i + 1, Len(s))
<1>1. Len(s) \in Nat /\ \A j \in 1 .. Len(s) : s[j] \in S
  BY LenProperties, ElementOfSeq
<1>2. /\ front \in Seq(S)
      /\ Len(front) = i - 1
      /\ \A j \in 1 .. i - 1 : front[j] = s[j]
  <2>1. \A j \in 1 .. i - 1 : s[j] \in S
    BY <1>1
  <2>2. /\ front \in Seq(S)
        /\ Len(front) = IF 1 <= i - 1 THEN (i - 1) - 1 + 1 ELSE 0
        /\ \A j \in 1 .. (i - 1) - 1 + 1 : front[j] = s[1 + j - 1]
    BY <2>1, SubSeqProperties
  <2> HIDE DEF front
  <2>3. QED
    BY <2>2
<1>3. /\ back \in Seq(S)
      /\ Len(back) = Len(s) - i
      /\ \A j \in 1 .. Len(s) - i : back[j] = s[i + j]
  <2>1. \A j \in i + 1 .. Len(s) : s[j] \in S
    BY <1>1
  <2>2. /\ back \in Seq(S)
        /\ Len(back) = IF i + 1 <= Len(s) THEN Len(s) - (i + 1) + 1 ELSE 0
        /\ \A j \in 1 .. Len(s) - (i + 1) + 1 : back[j] = s[(i + 1) + j - 1]
    BY <1>1, <2>1, SubSeqProperties
  <2> HIDE DEF back
  <2>3. QED
    BY <1>1, <2>2
<1>4. RemoveAt(s, i) = front \o back
  BY DEF RemoveAt
<1> HIDE DEF front, back
<1>5. /\ front \o back \in Seq(S)
      /\ Len(front \o back) = Len(s) - 1
      /\ \A j \in 1 .. Len(s) - 1 :
           (front \o back)[j] = IF j <= i - 1 THEN front[j] ELSE back[j - (i - 1)]
  <2>1. /\ front \o back \in Seq(S)
        /\ Len(front \o back) = Len(front) + Len(back)
        /\ \A j \in 1 .. Len(front) + Len(back) :
             (front \o back)[j] = IF j <= Len(front) THEN front[j] ELSE back[j - Len(front)]
    BY <1>2, <1>3, ConcatProperties
  <2>2. Len(front) + Len(back) = Len(s) - 1
    BY <1>1, <1>2, <1>3
  <2>3. QED
    BY <1>2, <2>1, <2>2
<1>6. ASSUME NEW j \in 1 .. Len(s) - 1
      PROVE  (front \o back)[j] = IF j < i THEN s[j] ELSE s[j + 1]
  <2>1. CASE j < i
    BY <1>1, <1>2, <1>5, <2>1
  <2>2. CASE ~(j < i)
    <3>1. j - (i - 1) \in 1 .. Len(s) - i
      BY <1>1, <2>2
    <3>2. back[j - (i - 1)] = s[i + (j - (i - 1))]
      BY <1>3, <3>1
    <3>3. i + (j - (i - 1)) = j + 1
      OBVIOUS
    <3>4. ~(j <= i - 1)
      BY <2>2
    <3>5. QED
      BY <1>5, <2>2, <3>2, <3>3, <3>4
  <2>3. QED
    BY <2>1, <2>2
<1>7. QED
  BY <1>4, <1>5, <1>6

LEMMA EntriesProperties ==
  ASSUME NEW s \in Seq(Entry)
  PROVE  /\ Len(s) \in Nat
         /\ DOMAIN s = 1 .. Len(s)
         /\ \A j \in DOMAIN s : s[j] \in Entry
<1>1. Len(s) \in Nat /\ DOMAIN s = 1 .. Len(s)
  BY LenProperties
<1>2. QED
  BY <1>1, ElementOfSeq

LEMMA EntryProperties ==
  ASSUME NEW e \in Entry
  PROVE  e.id \in 1 .. MaxMounts /\ e.id \in Nat /\ e.fs \in Filesystem /\ e.fs.fsname \in Name
  BY MountAssumption DEF Entry, Name

\* What is left after one mount is gone: the others, once each, in order.
LEMMA RemoveKeepsOthers ==
  ASSUME NEW s \in Seq(Entry), Increasing(s), NEW i \in DOMAIN s
  PROVE  LET r == RemoveAt(s, i) IN
         /\ r \in Seq(Entry)
         /\ Len(r) = Len(s) - 1
         /\ Increasing(r)
         /\ \A j \in DOMAIN r : \E k \in DOMAIN s : k \in {j, j + 1} /\ r[j] = s[k] /\ s[k] # s[i]
         /\ \A k \in DOMAIN s : s[k] # s[i] => \E j \in DOMAIN r : r[j] = s[k]
<1> DEFINE r == RemoveAt(s, i)
<1>1. /\ Len(s) \in Nat
      /\ DOMAIN s = 1 .. Len(s)
      /\ \A j \in DOMAIN s : s[j] \in Entry /\ s[j].id \in Int
  BY EntriesProperties, EntryProperties
<1>2. /\ r \in Seq(Entry)
      /\ Len(r) = Len(s) - 1
      /\ \A j \in 1 .. Len(s) - 1 : r[j] = IF j < i THEN s[j] ELSE s[j + 1]
  BY <1>1, RemoveAtProperties
<1> HIDE DEF r
<1>3. DOMAIN r = 1 .. Len(s) - 1
  BY <1>2, LenProperties
<1>4. Increasing(r)
  <2> SUFFICES ASSUME NEW j \in DOMAIN r, NEW k \in DOMAIN r, j < k
               PROVE  r[j].id < r[k].id
    BY DEF Increasing
  <2>1. PICK a \in DOMAIN s : a = (IF j < i THEN j ELSE j + 1) /\ r[j] = s[a]
    BY <1>1, <1>2, <1>3
  <2>2. PICK b \in DOMAIN s : b = (IF k < i THEN k ELSE k + 1) /\ r[k] = s[b]
    BY <1>1, <1>2, <1>3
  <2>3. a < b
    BY <1>1, <1>3, <2>1, <2>2
  <2>4. QED
    BY <2>1, <2>2, <2>3 DEF Increasing
<1>5. ASSUME NEW k \in DOMAIN s, k # i
      PROVE  s[k] # s[i]
  <2>1. k < i \/ i < k
    BY <1>1, <1>5
  <2>2. s[k].id < s[i].id \/ s[i].id < s[k].id
    BY <2>1 DEF Increasing
  <2>3. s[k].id \in Int /\ s[i].id \in Int
    BY <1>1
  <2>4. s[k].id # s[i].id
    BY <2>2, <2>3
  <2>5. QED
    BY <2>4
<1>6. ASSUME NEW j \in DOMAIN r
      PROVE  \E k \in DOMAIN s : k \in {j, j + 1} /\ r[j] = s[k] /\ s[k] # s[i]
  <2> DEFINE k == IF j < i THEN j ELSE j + 1
  <2>1. k \in DOMAIN s /\ k # i /\ k \in {j, j + 1} /\ r[j] = s[k]
    BY <1>1, <1>2, <1>3
  <2>2. QED
    BY <1>5, <2>1
<1>7. ASSUME NEW k \in DOMAIN s, s[k] # s[i]
      PROVE  \E j \in DOMAIN r : r[j] = s[k]
  <2> DEFINE j == IF k < i THEN k ELSE k - 1
  <2>1. k # i
    BY <1>7
  <2>2. j \in DOMAIN r /\ r[j] = s[k]
    BY <1>1, <1>2, <1>3, <2>1
  <2>3. QED
    BY <2>2
<1>8. QED
  BY <1>2, <1>4, <1>6, <1>7 DEF r
LEMMA PrefixProperties ==
  ASSUME NEW s \in Seq(Entry), NEW k \in 0 .. Len(s)
  PROVE  /\ SubSeq(s, 1, k) \in Seq(Entry)
         /\ Len(SubSeq(s, 1, k)) = k
         /\ \A j \in 1 .. k : SubSeq(s, 1, k)[j] = s[j]
<1>1. \A j \in 1 .. k : s[j] \in Entry
  BY EntriesProperties
<1>2. /\ SubSeq(s, 1, k) \in Seq(Entry)
      /\ Len(SubSeq(s, 1, k)) = IF 1 <= k THEN k - 1 + 1 ELSE 0
      /\ \A j \in 1 .. k - 1 + 1 : SubSeq(s, 1, k)[j] = s[1 + j - 1]
  BY <1>1, EntriesProperties, SubSeqProperties
<1> DEFINE t == SubSeq(s, 1, k)
<1> HIDE DEF t
<1>3. QED
  BY <1>2, EntriesProperties

LEMMA FirstAndRest ==
  ASSUME NEW s \in Seq(Entry), s # <<>>
  PROVE  /\ 1 \in DOMAIN s /\ Head(s) = s[1] /\ Head(s) \in Entry
         /\ Tail(s) \in Seq(Entry)
         /\ Len(Tail(s)) = Len(s) - 1
         /\ \A j \in DOMAIN Tail(s) : j + 1 \in DOMAIN s /\ Tail(s)[j] = s[j + 1]
         /\ \A j \in DOMAIN s : j # 1 => j - 1 \in DOMAIN Tail(s) /\ Tail(s)[j - 1] = s[j]
<1>1. Len(s) \in Nat \ {0} /\ DOMAIN s = 1 .. Len(s)
  BY EntriesProperties, EmptySeq
<1>2. /\ Head(s) \in Entry
      /\ Tail(s) \in Seq(Entry)
      /\ Len(Tail(s)) = Len(s) - 1
      /\ \A i \in 1 .. Len(Tail(s)) : Tail(s)[i] = s[i + 1]
  BY HeadTailProperties
<1>3. DOMAIN Tail(s) = 1 .. Len(s) - 1
  BY <1>2, EntriesProperties
<1>4. Head(s) = s[1]
  OBVIOUS
<1> DEFINE t == Tail(s)
<1> HIDE DEF t
<1>5. /\ \A j \in DOMAIN t : j + 1 \in DOMAIN s /\ t[j] = s[j + 1]
      /\ \A j \in DOMAIN s : j # 1 => j - 1 \in DOMAIN t /\ t[j - 1] = s[j]
  BY <1>1, <1>2, <1>3 DEF t
<1>6. QED
  BY <1>1, <1>2, <1>4, <1>5 DEF t

LEMMA OneMore ==
  ASSUME NEW s \in Seq(Entry), NEW e \in Entry
  PROVE  /\ Append(s, e) \in Seq(Entry)
         /\ Len(Append(s, e)) = Len(s) + 1
         /\ DOMAIN Append(s, e) = DOMAIN s \cup {Len(s) + 1}
         /\ \A j \in DOMAIN s : j < Len(s) + 1 /\ Append(s, e)[j] = s[j]
         /\ Append(s, e)[Len(s) + 1] = e
<1>1. Len(s) \in Nat /\ DOMAIN s = 1 .. Len(s)
  BY EntriesProperties
<1>2. /\ Append(s, e) \in Seq(Entry)
      /\ Len(Append(s, e)) = Len(s) + 1
      /\ \A i \in 1 .. Len(s) : Append(s, e)[i] = s[i]
      /\ Append(s, e)[Len(s) + 1] = e
  BY AppendProperties
<1>3. DOMAIN Append(s, e) = 1 .. Len(s) + 1
  BY <1>2, EntriesProperties
<1>4. 1 .. Len(s) + 1 = (1 .. Len(s)) \cup {Len(s) + 1}
  BY <1>1
<1>5. QED
  BY <1>1, <1>2, <1>3, <1>4

\* A call is never mistaken for the absence of one.
LEMMA CallsAreCalls ==
  ASSUME NEW op \in {"create", "add", "contains"}, NEW k \in Name \cup {NoCall}
  PROVE  [op |-> op, key |-> k] # NoCall
  BY CallAssumption DEF Set!Calls

LEMMA KnownIds ==
  ASSUME IInv
  PROVE  Ids(mounts) \subseteq 1 .. nextId - 1
<1>1. \A j \in DOMAIN mounts : mounts[j].id \in 1 .. MaxMounts /\ mounts[j].id < nextId
  BY EntriesProperties, EntryProperties DEF IInv, Shape, Order
<1>2. QED
  BY <1>1 DEF Ids, IInv, Shape
-----------------------------------------------------------------------------
(* The first state, and one lemma for each action                           *)

LEMMA InitStep == Init => IInv
<1> SUFFICES ASSUME Init PROVE IInv
  OBVIOUS
<1>1. PICK fss \in BoundedSeq(Filesystem, MaxMounts) :
        /\ mounts = [j \in DOMAIN fss |-> [id |-> j, fs |-> fss[j]]]
        /\ nextId = Len(fss) + 1
  BY DEF Init
<1>2. PICK k \in 0 .. MaxMounts : fss \in [1 .. k -> Filesystem]
  BY DEF BoundedSeq, SeqOf
<1>3. k \in Nat /\ k <= MaxMounts /\ Len(fss) = k /\ DOMAIN fss = 1 .. k
  BY <1>2, MountAssumption
<1>4. \A j \in 1 .. k : [id |-> j, fs |-> fss[j]] \in Entry
  BY <1>2, <1>3, MountAssumption DEF Entry
<1>5. mounts \in [1 .. k -> Entry] /\ \A j \in 1 .. k : mounts[j].id = j
  BY <1>1, <1>3, <1>4
<1>6. mounts \in Seq(Entry) /\ Len(mounts) = k /\ DOMAIN mounts = 1 .. k
  BY <1>3, <1>5
<1>7. <<>> \in Seq(Entry) /\ Len(<<>>) = 0 /\ DOMAIN <<>> = {}
  BY EmptySeq, EntriesProperties
<1>8. Shape
  BY <1>1, <1>3, <1>6, <1>7, MountAssumption DEF Init, Shape, Before, InHand
<1>9. Order
  BY <1>1, <1>3, <1>5, <1>6, <1>7 DEF Init, Order, Increasing, NoEntry
<1>10. Untouched
  BY DEF Init, Untouched, Before
<1>11. CallMatches
  BY DEF Init, Set!AbsInit, CallMatches, Before
<1>12. Remembered
  BY <1>7 DEF Init, Set!AbsInit, Remembered, ShownOf
<1>13. Settled
  BY DEF Init, Settled, Counts
<1>14. ShownOnce
  BY <1>7 DEF Init, ShownOnce, ShownOf
<1>15. QED
  BY <1>8, <1>9, <1>10, <1>11, <1>12, <1>13, <1>14 DEF IInv

LEMMA MountStep == ASSUME IInv, NEW fs \in Filesystem, Mount(fs) PROVE IInv'
<1> DEFINE m == [id |-> nextId, fs |-> fs]
<1>1. /\ m \in Entry /\ m.id = nextId
      /\ nextId \in Nat /\ nextId \in 1 .. MaxMounts /\ nextId' = nextId + 1
      /\ mounts \in Seq(Entry) /\ todo \in Seq(Entry)
      /\ mounts' = Append(mounts, m)
      /\ todo' = todo \/ (os = "linux" /\ todo' = Append(todo, m))
      /\ UNCHANGED <<os, pc, n, entry, initial, failed, shown, lost, setVars>>
  BY MountAssumption DEF Mount, IInv, Shape, Entry
<1> HIDE DEF m
<1>2. /\ Len(mounts') = Len(mounts) + 1
      /\ DOMAIN mounts' = DOMAIN mounts \cup {Len(mounts) + 1}
      /\ \A j \in DOMAIN mounts : j < Len(mounts) + 1 /\ mounts'[j] = mounts[j]
      /\ mounts'[Len(mounts) + 1] = m
      /\ mounts' \in Seq(Entry)
  BY <1>1, OneMore
<1>3. /\ todo' \in Seq(Entry)
      /\ \A k \in DOMAIN todo : k \in DOMAIN todo' /\ todo'[k] = todo[k]
      /\ \A k \in DOMAIN todo' \ DOMAIN todo : todo'[k] = m /\ k = Len(todo) + 1
      /\ os = "macos" => todo' = todo
      /\ todo = <<>> /\ pc \in {"start", "cleanup", "done"} => todo' = <<>>
  BY <1>1, OneMore DEF Mount
<1>4. todo' # todo => pc \notin {"start", "cleanup", "done"}
  BY DEF Mount
<1>5. /\ \A j \in DOMAIN mounts : j \in Nat /\ mounts[j].id \in Nat
      /\ \A k \in DOMAIN todo : k \in Nat /\ todo[k].id \in Nat /\ k < Len(todo) + 1
      /\ Len(mounts) \in Nat /\ Len(todo) \in Nat
  BY <1>1, EntriesProperties, EntryProperties
<1>6. Shape'
  <2>1. initial \cup failed \subseteq 1 .. nextId' - 1
    BY <1>1 DEF IInv, Shape
  <2>2. nextId' \in 1 .. MaxMounts + 1 /\ Len(mounts') < nextId'
    BY <1>1, <1>2, <1>5, MountAssumption DEF IInv, Shape
  <2>3. QED
    BY <1>1, <1>2, <1>3, <2>1, <2>2 DEF IInv, Shape
<1>7. Order'
  <2>1. Increasing(mounts)'
    BY <1>1, <1>2, <1>5 DEF IInv, Order, Increasing
  <2>2. Increasing(todo)'
    BY <1>1, <1>3, <1>5 DEF IInv, Order, Increasing
  <2>3. entry.id \in Nat /\ entry.id < nextId
    BY EntryProperties DEF IInv, Shape, Order, NoEntry
  <2>4. ASSUME NEW j \in DOMAIN mounts'
        PROVE  mounts'[j].id < nextId'
    <3>1. CASE j \in DOMAIN mounts
      <4>1. mounts'[j] = mounts[j] /\ mounts[j].id \in Nat
        BY <1>2, <1>5, <3>1
      <4>2. mounts[j].id < nextId
        BY <3>1 DEF IInv, Order
      <4>3. QED
        BY <1>1, <4>1, <4>2
    <3>2. CASE j = Len(mounts) + 1
      BY <1>1, <1>2, <3>2
    <3>3. QED
      BY <1>2, <3>1, <3>2
  <2>5. ASSUME NEW k \in DOMAIN todo'
        PROVE  todo'[k].id < nextId' /\ entry.id < todo'[k].id
    <3>1. CASE k \in DOMAIN todo
      <4>1. todo'[k] = todo[k] /\ todo[k].id \in Nat
        BY <1>3, <1>5, <3>1
      <4>2. todo[k].id < nextId /\ entry.id < todo[k].id
        BY <3>1 DEF IInv, Order
      <4>3. QED
        BY <1>1, <2>3, <4>1, <4>2
    <3>2. CASE k \notin DOMAIN todo
      <4>1. todo'[k] = m
        BY <1>3, <3>2
      <4>2. QED
        BY <1>1, <2>3, <4>1
    <3>3. QED
      BY <3>1, <3>2
  <2>6. \A k \in DOMAIN shown' : shown'[k].id =< entry'.id
    BY <1>1 DEF IInv, Order
  <2>7. entry'.id < nextId' /\ entry' = entry
    BY <1>1, <2>3
  <2>8. QED
    BY <2>1, <2>2, <2>4, <2>5, <2>6, <2>7 DEF Order
<1>8. Untouched'
  BY <1>1, <1>4 DEF IInv, Untouched, Before, Mount
<1>9. CallMatches' /\ Remembered' /\ ShownOnce'
  BY <1>1 DEF IInv, CallMatches, Remembered, ShownOnce, ShownOf, setVars
<1>10. Settled'
  <2>1. m.id \notin initial
    BY <1>1 DEF IInv, Shape
  <2>2. CASE pc = "fetch"
    BY <1>1, <1>2, <2>1, <2>2 DEF IInv, Settled
  <2>3. CASE pc # "fetch"
    <3> SUFFICES ASSUME NEW j \in DOMAIN mounts', Counts(mounts'[j])
                 PROVE  \/ \E k \in DOMAIN todo' : todo'[k] = mounts'[j]
                        \/ pc \in InHand /\ entry = mounts'[j]
                        \/ Answered(mounts'[j])
      BY <1>1, <2>3 DEF Settled, Counts, Eligible, Answered, ShownOf
    <3>1. j \in DOMAIN mounts /\ mounts'[j] = mounts[j]
      BY <1>2, <2>1 DEF Counts
    <3>2. \/ \E k \in DOMAIN todo : todo[k] = mounts[j]
          \/ pc \in InHand /\ entry = mounts[j]
          \/ Answered(mounts[j])
      BY <2>3, <3>1 DEF IInv, Settled
    <3>3. QED
      BY <1>3, <3>1, <3>2
  <2>4. QED
    BY <2>2, <2>3
<1>11. QED
  BY <1>6, <1>7, <1>8, <1>9, <1>10 DEF IInv

LEMMA UnmountStep == ASSUME IInv, NEW i \in DOMAIN mounts, Unmount(i) PROVE IInv'
<1>1. /\ mounts \in Seq(Entry) /\ todo \in Seq(Entry) /\ nextId \in Nat
      /\ Increasing(mounts) /\ Increasing(todo)
      /\ UNCHANGED <<os, nextId, pc, n, entry, initial, failed, shown, lost, setVars>>
  BY MountAssumption DEF Unmount, IInv, Shape, Order
<1>2. /\ mounts' \in Seq(Entry) /\ Len(mounts') = Len(mounts) - 1 /\ Increasing(mounts')
      /\ \A j \in DOMAIN mounts' : \E k \in DOMAIN mounts :
           k \in {j, j + 1} /\ mounts'[j] = mounts[k] /\ mounts[k] # mounts[i]
  <2>1. mounts' = RemoveAt(mounts, i)
    BY DEF Unmount
  <2>2. QED
    BY <1>1, <2>1, RemoveKeepsOthers
<1>3. /\ todo' \in Seq(Entry) /\ Len(todo') <= Len(todo) /\ Increasing(todo')
      /\ \A j \in DOMAIN todo' : \E k \in DOMAIN todo : todo'[j] = todo[k]
      /\ \A k \in DOMAIN todo : todo[k] # mounts[i] => \E j \in DOMAIN todo' : todo'[j] = todo[k]
      /\ todo = <<>> => todo' = <<>>
  <2>1. Len(todo) \in Nat
    BY <1>1, EntriesProperties
  <2>2. CASE UNCHANGED todo
    BY <1>1, <2>1, <2>2
  <2>3. ASSUME NEW k \in DOMAIN todo, todo[k] = mounts[i], todo' = RemoveAt(todo, k)
        PROVE  /\ todo' \in Seq(Entry) /\ Len(todo') <= Len(todo) /\ Increasing(todo')
               /\ \A j \in DOMAIN todo' : \E l \in DOMAIN todo : todo'[j] = todo[l]
               /\ \A l \in DOMAIN todo :
                    todo[l] # mounts[i] => \E j \in DOMAIN todo' : todo'[j] = todo[l]
               /\ todo # <<>>
    <3>1. todo # <<>>
      BY <2>3
    <3>2. /\ todo' \in Seq(Entry) /\ Len(todo') = Len(todo) - 1 /\ Increasing(todo')
          /\ \A j \in DOMAIN todo' : \E l \in DOMAIN todo : todo'[j] = todo[l]
          /\ \A l \in DOMAIN todo :
               todo[l] # todo[k] => \E j \in DOMAIN todo' : todo'[j] = todo[l]
      BY <1>1, <2>3, RemoveKeepsOthers
    <3>3. QED
      BY <2>1, <2>3, <3>1, <3>2
  <2>4. QED
    BY <2>2, <2>3 DEF Unmount
<1>4. Shape'
  <2>1. Len(mounts) \in Nat /\ Len(todo) \in Nat /\ Len(todo') \in Nat
    BY <1>1, <1>3, EntriesProperties
  <2>2. Len(mounts') < nextId
    BY <1>1, <1>2, <2>1 DEF IInv, Shape
  <2>3. os = "macos" => Len(todo') <= n
    BY <1>3, <2>1, MountAssumption DEF IInv, Shape
  <2>4. QED
    BY <1>1, <1>2, <1>3, <2>2, <2>3 DEF IInv, Shape
<1>5. Order'
  <2>1. /\ \A j \in DOMAIN mounts' : mounts'[j].id < nextId
        /\ \A j \in DOMAIN todo' : todo'[j].id < nextId /\ entry.id < todo'[j].id
    BY <1>2, <1>3 DEF IInv, Order
  <2>2. QED
    BY <1>1, <1>2, <1>3, <2>1 DEF IInv, Order, Increasing
<1>6. Untouched'
  BY <1>1, <1>3 DEF IInv, Untouched
<1>7. CallMatches' /\ Remembered' /\ ShownOnce'
  BY <1>1 DEF IInv, CallMatches, Remembered, ShownOnce, ShownOf, setVars
<1>8. Settled'
  <2>1. CASE pc = "fetch"
    <3> SUFFICES ASSUME NEW j \in DOMAIN mounts', mounts'[j].id \in initial
                 PROVE  j <= n
      BY <1>1, <2>1 DEF Settled
    <3>1. PICK k \in DOMAIN mounts : k \in {j, j + 1} /\ mounts'[j] = mounts[k]
      BY <1>2
    <3>2. k <= n /\ n \in Nat /\ j \in Nat
      BY <1>1, <1>2, <2>1, <3>1, EntriesProperties, MountAssumption DEF IInv, Shape, Settled
    <3>3. QED
      BY <3>1, <3>2
  <2>2. CASE pc # "fetch"
    <3> SUFFICES ASSUME NEW j \in DOMAIN mounts', Counts(mounts'[j])
                 PROVE  \/ \E k \in DOMAIN todo' : todo'[k] = mounts'[j]
                        \/ pc \in InHand /\ entry = mounts'[j]
                        \/ Answered(mounts'[j])
      BY <1>1, <2>2 DEF Settled, Counts, Eligible, Answered, ShownOf
    <3>1. PICK k \in DOMAIN mounts : mounts'[j] = mounts[k] /\ mounts[k] # mounts[i]
      BY <1>2
    <3>2. \/ \E l \in DOMAIN todo : todo[l] = mounts[k]
          \/ pc \in InHand /\ entry = mounts[k]
          \/ Answered(mounts[k])
      BY <2>2, <3>1 DEF IInv, Settled
    <3>3. QED
      BY <1>3, <3>1, <3>2
  <2>3. QED
    BY <2>1, <2>2
<1>9. QED
  BY <1>4, <1>5, <1>6, <1>7, <1>8 DEF IInv

LEMMA OpenMountsStep == ASSUME IInv, OpenMounts PROVE IInv'
<1>1. Shape'
  BY KnownIds DEF IInv, Shape, Before, InHand, OpenMounts, Goto, kernel
<1>2. Order'
  <2>1. \A j \in DOMAIN mounts : mounts[j].id \in 1 .. MaxMounts
    BY EntriesProperties, EntryProperties DEF IInv, Shape
  <2>2. entry = NoEntry /\ shown = <<>>
    BY DEF IInv, Untouched, Before, OpenMounts
  <2>3. entry.id = 0
    BY <2>2 DEF NoEntry
  <2>4. QED
    BY <2>1, <2>2, <2>3, MountAssumption DEF IInv, Order, OpenMounts, Goto, kernel
<1>3. Untouched'
  BY DEF IInv, Untouched, Before, OpenMounts, Goto
<1>4. CallMatches'
  BY DEF IInv, CallMatches, Before, OpenMounts, setVars
<1>5. Remembered'
  BY DEF IInv, Remembered, ShownOf, OpenMounts, Goto, setVars
<1>6. Settled'
  BY DEF IInv, Settled, Counts, Answered, ShownOf, Eligible, InHand, OpenMounts, Goto,
         kernel
<1>7. ShownOnce'
  BY DEF IInv, ShownOnce, ShownOf, OpenMounts
<1>8. QED
  BY <1>1, <1>2, <1>3, <1>4, <1>5, <1>6, <1>7 DEF IInv

LEMMA CountMountsStep == ASSUME IInv, CountMounts PROVE IInv'
<1>1. Shape'
  <2>1. Len(mounts) \in 0 .. MaxMounts
    BY EntriesProperties, MountAssumption DEF IInv, Shape
  <2>2. QED
    BY <2>1, KnownIds, MountAssumption
    DEF IInv, Shape, Untouched, Before, InHand, CountMounts, Goto, kernel
<1>2. Order'
  BY DEF IInv, Order, CountMounts, Goto, kernel
<1>3. Untouched'
  BY DEF IInv, Untouched, Before, CountMounts, Goto
<1>4. CallMatches'
  BY DEF IInv, CallMatches, Before, CountMounts, setVars
<1>5. Remembered'
  BY DEF IInv, Remembered, ShownOf, CountMounts, Goto, setVars
<1>6. Settled'
  BY DEF IInv, Settled, Counts, Answered, ShownOf, Eligible, InHand, CountMounts, Goto,
         kernel
<1>7. ShownOnce'
  BY DEF IInv, ShownOnce, ShownOf, CountMounts
<1>8. QED
  BY <1>1, <1>2, <1>3, <1>4, <1>5, <1>6, <1>7 DEF IInv

LEMMA FetchMountsStep == ASSUME IInv, FetchMounts PROVE IInv'
<1>1. Shape'
  <2> DEFINE k == IF n < Len(mounts) THEN n ELSE Len(mounts)
  <2>1. k \in 0 .. Len(mounts) /\ k <= n
    BY EntriesProperties, MountAssumption DEF IInv, Shape
  <2>2. /\ SubSeq(mounts, 1, k) \in Seq(Entry)
        /\ Len(SubSeq(mounts, 1, k)) = k
        /\ DOMAIN SubSeq(mounts, 1, k) = 1 .. k
        /\ \A j \in 1 .. k : j \in DOMAIN mounts /\ SubSeq(mounts, 1, k)[j] = mounts[j]
    BY <2>1, PrefixProperties, EntriesProperties DEF IInv, Shape
  <2>3. QED
    BY <2>1, <2>2 DEF IInv, Shape, Before, InHand, FetchMounts, Goto, kernel
<1>2. Order'
  <2> DEFINE k == IF n < Len(mounts) THEN n ELSE Len(mounts)
  <2>1. k \in 0 .. Len(mounts) /\ k <= n
    BY EntriesProperties, MountAssumption DEF IInv, Shape
  <2>2. /\ SubSeq(mounts, 1, k) \in Seq(Entry)
        /\ Len(SubSeq(mounts, 1, k)) = k
        /\ DOMAIN SubSeq(mounts, 1, k) = 1 .. k
        /\ \A j \in 1 .. k : j \in DOMAIN mounts /\ SubSeq(mounts, 1, k)[j] = mounts[j]
    BY <2>1, PrefixProperties, EntriesProperties DEF IInv, Shape
  <2>3. \A j \in DOMAIN mounts : mounts[j].id \in 1 .. MaxMounts
    BY EntriesProperties, EntryProperties DEF IInv, Shape
  <2>4. entry.id = 0 /\ shown = <<>>
    BY DEF IInv, Untouched, Before, NoEntry, FetchMounts
  <2>5. CASE todo' = SubSeq(mounts, 1, k)
    <3>1. UNCHANGED <<mounts, nextId, entry, shown>>
      BY DEF FetchMounts, Goto, kernel
    <3>2. Increasing(todo)'
      BY <2>2, <2>5 DEF Increasing, IInv, Order
    <3>3. \A j \in DOMAIN todo' : todo'[j].id < nextId /\ 0 < todo'[j].id
      BY <2>2, <2>3, <2>5, MountAssumption DEF IInv, Order
    <3>4. QED
      BY <2>4, <3>1, <3>2, <3>3 DEF IInv, Order, Increasing
  <2>6. CASE UNCHANGED todo
    BY <2>6 DEF IInv, Order, Increasing, FetchMounts, Goto, kernel
  <2>7. QED
    BY <2>5, <2>6 DEF FetchMounts
<1>3. Untouched'
  BY DEF IInv, Untouched, Before, FetchMounts, Goto
<1>4. CallMatches'
  BY DEF IInv, CallMatches, Before, FetchMounts, setVars
<1>5. Remembered'
  BY DEF IInv, Remembered, ShownOf, FetchMounts, Goto, setVars
<1>6. Settled'
  <2> DEFINE k == IF n < Len(mounts) THEN n ELSE Len(mounts)
  <2>1. k \in 0 .. Len(mounts) /\ k <= n
    BY EntriesProperties, MountAssumption DEF IInv, Shape
  <2>2. /\ SubSeq(mounts, 1, k) \in Seq(Entry)
        /\ Len(SubSeq(mounts, 1, k)) = k
        /\ DOMAIN SubSeq(mounts, 1, k) = 1 .. k
        /\ \A j \in 1 .. k : j \in DOMAIN mounts /\ SubSeq(mounts, 1, k)[j] = mounts[j]
    BY <2>1, PrefixProperties, EntriesProperties DEF IInv, Shape
  <2>3. CASE todo' = SubSeq(mounts, 1, k) /\ UNCHANGED initial
    <3> SUFFICES ASSUME NEW j \in DOMAIN mounts, mounts[j].id \in initial
                 PROVE  \E i \in DOMAIN todo' : todo'[i] = mounts[j]
      BY <2>3 DEF IInv, Settled, Counts, FetchMounts, Goto, kernel
    <3>1. j \in 1 .. Len(mounts) /\ j <= n
      BY EntriesProperties DEF IInv, Shape, Settled, FetchMounts
    <3>2. j \in 1 .. k
      BY <3>1, EntriesProperties DEF IInv, Shape
    <3>3. QED
      BY <2>2, <2>3, <3>2
  <2>4. CASE initial' = {}
    BY <2>4 DEF Settled, Counts, FetchMounts, Goto
  <2>5. QED
    BY <2>3, <2>4 DEF FetchMounts
<1>7. ShownOnce'
  BY DEF IInv, ShownOnce, ShownOf, FetchMounts
<1>8. QED
  BY <1>1, <1>2, <1>3, <1>4, <1>5, <1>6, <1>7 DEF IInv

LEMMA CreateSetStep == ASSUME IInv, CreateSet PROVE IInv'
<1>1. Shape'
  BY DEF IInv, Shape, InHand, CreateSet, Goto, Locals, kernel
<1>2. Order'
  BY DEF IInv, Order, CreateSet, Goto, Locals, kernel
<1>3. Untouched'
  BY DEF Untouched, Before, CreateSet, Goto
<1>4. CallMatches'
  BY DEF IInv, CallMatches, Untouched, Before, CreateSet, Goto, Locals, Set!Invoke
<1>5. Remembered'
  BY DEF IInv, Remembered, ShownOf, CreateSet, Goto, Locals, Set!Invoke
<1>6. Settled'
  BY DEF IInv, Settled, Counts, Answered, ShownOf, Eligible, InHand, CreateSet, Goto,
         Locals, kernel
<1>7. ShownOnce'
  BY DEF IInv, ShownOnce, ShownOf, CreateSet, Locals
<1>8. QED
  BY <1>1, <1>2, <1>3, <1>4, <1>5, <1>6, <1>7 DEF IInv

LEMMA SetReturnsStep == ASSUME IInv, SetReturns PROVE IInv'
<1>1. Shape'
  <2>1. call # NoCall
    BY DEF SetReturns, Set!ReturnCreate, Set!ReturnAdd, Set!ReturnContains
  <2>2. call.op = "add" => call.key \in Name
    BY <2>1, EntryProperties DEF IInv, Shape, CallMatches, InHand
  <2>3. QED
    BY <2>2 DEF IInv, Shape, Before, InHand, SetReturns, Goto, kernel
<1>2. Order'
  BY DEF IInv, Order, SetReturns, Goto, kernel
<1>3. Untouched'
  BY DEF IInv, Untouched, SetReturns, Goto
<1>4. CallMatches'
  BY DEF IInv, CallMatches, Before, SetReturns, Goto, Set!ReturnCreate, Set!ReturnAdd,
         Set!ReturnContains
<1>5. Remembered'
  <2>1. UNCHANGED <<pc, entry, shown>> /\ call # NoCall /\ call' = NoCall
    BY DEF SetReturns, Set!ReturnCreate, Set!ReturnAdd, Set!ReturnContains, Goto
  <2>2. CASE pc = "next" /\ call.op = "create" /\ shown = <<>>
    <3>1. members' = {}
      BY <2>2 DEF SetReturns, Set!ReturnCreate, Set!ReturnAdd, Set!ReturnContains
    <3>2. QED
      BY <2>1, <2>2, <3>1 DEF Remembered
  <2>3. CASE pc = "seen" /\ call.op = "contains" /\ call.key = entry.fs.fsname
    <3>1. /\ UNCHANGED <<members, lost>>
          /\ result' = Set!CBool(entry.fs.fsname \in members)
      BY <2>3 DEF SetReturns, Set!ReturnCreate, Set!ReturnAdd, Set!ReturnContains
    <3>2. result' = 1 <=> entry.fs.fsname \in members
      BY <3>1 DEF Set!CBool
    <3>3. QED
      BY <2>1, <2>3, <3>1, <3>2 DEF IInv, Remembered, ShownOf
  <2>4. CASE pc = "print" /\ call.op = "add" /\ call.key = entry.fs.fsname
    <3>1. /\ members' = IF oom' THEN members ELSE members \cup {entry.fs.fsname}
          /\ lost' = IF oom' THEN lost \cup {entry.fs.fsname} ELSE lost
      BY <2>4 DEF SetReturns, Set!ReturnCreate, Set!ReturnAdd, Set!ReturnContains, Set!AddTo
    <3>2. QED
      BY <2>1, <2>4, <3>1 DEF IInv, Remembered, ShownOf
  <2>5. QED
    BY <2>1, <2>2, <2>3, <2>4 DEF IInv, CallMatches
<1>6. Settled'
  BY DEF IInv, Settled, Counts, Answered, ShownOf, Eligible, SetReturns, Goto, kernel
<1>7. ShownOnce'
  BY DEF IInv, ShownOnce, ShownOf, SetReturns
<1>8. QED
  BY <1>1, <1>2, <1>3, <1>4, <1>5, <1>6, <1>7 DEF IInv

LEMMA NextEntryStep == ASSUME IInv, NextEntry PROVE IInv'
<1>1. Shape'
  BY DEF IInv, Shape, InHand, NextEntry, Goto, kernel
<1>2. Order'
  <2>1. todo \in Seq(Entry) /\ todo # <<>> /\ nextId \in Nat
    BY MountAssumption DEF NextEntry, IInv, Shape
  <2>2. /\ 1 \in DOMAIN todo /\ entry' = todo[1]
        /\ \A j \in DOMAIN todo' : j + 1 \in DOMAIN todo /\ todo'[j] = todo[j + 1] /\ j \in Nat /\ 1 < j + 1
    BY <2>1, FirstAndRest, EntriesProperties DEF NextEntry
  <2>3. Increasing(todo)'
    BY <2>2 DEF IInv, Order, Increasing
  <2>4. \A j \in DOMAIN todo' : todo'[j].id < nextId /\ entry'.id < todo'[j].id
    BY <2>2 DEF IInv, Order, Increasing
  <2>5. entry'.id < nextId /\ entry.id < entry'.id
    BY <2>2 DEF IInv, Order
  <2>6. \A k \in DOMAIN shown : shown[k].id <= entry'.id
    <3>1. entry.id \in Nat /\ entry'.id \in Nat
      BY <2>1, <2>2, EntriesProperties, EntryProperties DEF IInv, Shape, NoEntry
    <3>2. \A k \in DOMAIN shown : shown[k].id \in Nat /\ shown[k].id <= entry.id
      BY EntriesProperties, EntryProperties DEF IInv, Shape, Order
    <3>3. QED
      BY <2>5, <3>1, <3>2
  <2>7. QED
    BY <2>3, <2>4, <2>5, <2>6 DEF IInv, Order, Increasing, NextEntry, Goto, kernel
<1>3. Untouched'
  BY DEF Untouched, Before, NextEntry, Goto
<1>4. CallMatches'
  BY DEF IInv, CallMatches, Before, NextEntry, Goto, setVars
<1>5. Remembered'
  BY DEF IInv, Remembered, ShownOf, NextEntry, Goto, setVars
<1>6. Settled'
  <2>1. pc = "next" /\ pc' # "fetch" /\ UNCHANGED <<os, mounts, initial, failed, shown>>
    BY DEF NextEntry, Goto, kernel
  <2>2. todo \in Seq(Entry) /\ todo # <<>> /\ entry' = Head(todo) /\ todo' = Tail(todo)
    BY DEF NextEntry, IInv, Shape
  <2> SUFFICES ASSUME NEW j \in DOMAIN mounts, Counts(mounts[j])
               PROVE  \/ \E k \in DOMAIN todo' : todo'[k] = mounts[j]
                      \/ pc' \in InHand /\ entry' = mounts[j]
                      \/ Answered(mounts[j])
    BY <2>1 DEF Settled, Counts, Answered, ShownOf, Eligible
  <2>3. CASE Answered(mounts[j])
    BY <2>3
  <2>4. CASE \E k \in DOMAIN todo : todo[k] = mounts[j]
    <3>1. PICK k \in DOMAIN todo : todo[k] = mounts[j]
      BY <2>4
    <3>2. CASE k = 1
      <4>1. entry' = mounts[j]
        BY <2>2, <3>1, <3>2, FirstAndRest
      <4>2. Eligible(Head(todo).fs)
        BY <2>2, <4>1 DEF Counts
      <4>3. QED
        BY <4>1, <4>2 DEF NextEntry, Goto, InHand
    <3>3. CASE k # 1
      <4>1. k - 1 \in DOMAIN todo' /\ todo'[k - 1] = mounts[j]
        BY <2>2, <3>1, <3>3, FirstAndRest
      <4>2. QED
        BY <4>1
    <3>4. QED
      BY <3>2, <3>3
  <2>5. QED
    BY <2>1, <2>3, <2>4 DEF IInv, Settled, InHand
<1>7. ShownOnce'
  BY DEF IInv, ShownOnce, ShownOf, NextEntry
<1>8. QED
  BY <1>1, <1>2, <1>3, <1>4, <1>5, <1>6, <1>7 DEF IInv

LEMMA EndOfMountsStep == ASSUME IInv, EndOfMounts PROVE IInv'
<1>1. Shape'
  BY DEF IInv, Shape, InHand, EndOfMounts, Goto, Locals, kernel
<1>2. Order'
  BY DEF IInv, Order, EndOfMounts, Goto, Locals, kernel
<1>3. Untouched'
  BY DEF Untouched, Before, EndOfMounts, Goto, Locals
<1>4. CallMatches'
  BY DEF IInv, CallMatches, Before, EndOfMounts, Goto, setVars
<1>5. Remembered'
  BY DEF IInv, Remembered, ShownOf, EndOfMounts, Goto, Locals, setVars
<1>6. Settled'
  BY DEF IInv, Settled, Counts, Answered, ShownOf, Eligible, InHand, EndOfMounts, Goto,
         Locals, kernel
<1>7. ShownOnce'
  BY DEF IInv, ShownOnce, ShownOf, EndOfMounts, Locals
<1>8. QED
  BY <1>1, <1>2, <1>3, <1>4, <1>5, <1>6, <1>7 DEF IInv

LEMMA StatvfsStep == ASSUME IInv, Statvfs PROVE IInv'
<1>1. Shape'
  <2>1. entry.id \in 1 .. nextId - 1
    BY EntryProperties, MountAssumption DEF IInv, Shape, Order, InHand, Statvfs
  <2>2. QED
    BY <2>1 DEF IInv, Shape, Before, InHand, Statvfs, Goto, kernel
<1>2. Order'
  BY DEF IInv, Order, Statvfs, Goto, kernel
<1>3. Untouched'
  BY DEF Untouched, Before, Statvfs, Goto
<1>4. CallMatches'
  BY DEF IInv, CallMatches, Before, Statvfs, Goto, setVars
<1>5. Remembered'
  BY DEF IInv, Remembered, ShownOf, Statvfs, Goto, setVars
<1>6. Settled'
  BY DEF IInv, Settled, Counts, Answered, ShownOf, Eligible, InHand, Statvfs, Goto, kernel
<1>7. ShownOnce'
  BY DEF IInv, ShownOnce, ShownOf, Statvfs
<1>8. QED
  BY <1>1, <1>2, <1>3, <1>4, <1>5, <1>6, <1>7 DEF IInv

LEMMA CallContainsStep == ASSUME IInv, CallContains PROVE IInv'
<1>1. Shape'
  BY DEF IInv, Shape, InHand, CallContains, Goto, Locals, kernel
<1>2. Order'
  BY DEF IInv, Order, CallContains, Goto, Locals, kernel
<1>3. Untouched'
  BY DEF Untouched, Before, CallContains, Goto
<1>4. CallMatches'
  BY DEF IInv, CallMatches, Before, CallContains, Goto, Locals, Set!Invoke, Set!OnNull
<1>5. Remembered'
  <2>1. UNCHANGED <<members, shown, lost, entry>> /\ pc = "contains" /\ pc' = "seen"
    BY DEF CallContains, Goto, Locals, Set!Invoke, Set!OnNull
  <2>2. call' = NoCall => (result' = 1 <=> entry.fs.fsname \in members)
    <3>1. CASE live
      <4>1. entry.fs.fsname \in Name
        BY <2>1, EntryProperties DEF IInv, Shape, InHand
      <4>2. call' = [op |-> "contains", key |-> entry.fs.fsname]
        BY <3>1 DEF CallContains, Set!Invoke
      <4>3. QED
        BY <4>1, <4>2, CallsAreCalls
    <3>2. CASE ~live
      BY <3>2 DEF CallContains, Set!OnNull, IInv, CallMatches
    <3>3. QED
      BY <3>1, <3>2
  <2>3. QED
    BY <2>1, <2>2 DEF IInv, Remembered, ShownOf
<1>6. Settled'
  BY DEF IInv, Settled, Counts, Answered, ShownOf, Eligible, InHand, CallContains, Goto,
         Locals, kernel
<1>7. ShownOnce'
  BY DEF IInv, ShownOnce, ShownOf, CallContains, Locals
<1>8. QED
  BY <1>1, <1>2, <1>3, <1>4, <1>5, <1>6, <1>7 DEF IInv

LEMMA BranchStep == ASSUME IInv, Branch PROVE IInv'
<1>1. Shape'
  BY DEF IInv, Shape, InHand, Branch, Goto, Locals, kernel
<1>2. Order'
  BY DEF IInv, Order, Branch, Goto, Locals, kernel
<1>3. Untouched'
  BY DEF Untouched, Before, Branch, Goto
<1>4. CallMatches'
  BY DEF IInv, CallMatches, Before, Branch, Goto, setVars
<1>5. Remembered'
  BY DEF IInv, Remembered, ShownOf, Branch, Goto, Locals, setVars
<1>6. Settled'
  <2>1. UNCHANGED <<os, mounts, todo, entry, initial, failed, shown>> /\ pc = "seen" /\ pc' # "fetch"
    BY DEF Branch, Goto, Locals, kernel
  <2>2. CASE result = 1
    <3>1. Answered(entry)
      <4>1. entry.fs.fsname \in members
        BY <2>2 DEF Branch, IInv, Remembered
      <4>2. PICK l \in ShownOf(entry.fs.fsname) : TRUE
        BY <2>1, <4>1 DEF IInv, Remembered
      <4>3. shown[l].id <= entry.id
        BY <4>2 DEF IInv, Order, ShownOf
      <4>4. QED
        BY <4>2, <4>3 DEF Answered
    <3>2. QED
      BY <2>1, <3>1 DEF IInv, Settled, Counts, Answered, ShownOf, Eligible
  <2>3. CASE result # 1
    BY <2>1, <2>3 DEF Branch, Goto, IInv, Settled, Counts, Answered, ShownOf, Eligible, InHand
  <2>4. QED
    BY <2>2, <2>3
<1>7. ShownOnce'
  BY DEF IInv, ShownOnce, ShownOf, Branch, Locals
<1>8. QED
  BY <1>1, <1>2, <1>3, <1>4, <1>5, <1>6, <1>7 DEF IInv

LEMMA CallAddStep == ASSUME IInv, CallAdd PROVE IInv'
<1>1. Shape'
  BY EntryProperties DEF IInv, Shape, Before, InHand, CallAdd, Goto, kernel
<1>2. Order'
  BY DEF IInv, Order, CallAdd, Goto, kernel
<1>3. Untouched'
  BY DEF Untouched, Before, CallAdd, Goto
<1>4. CallMatches'
  BY DEF IInv, CallMatches, Before, CallAdd, Goto, Set!Invoke, Set!OnNull
<1>5. Remembered'
  <2>1. UNCHANGED <<members, shown, entry>> /\ pc = "add" /\ pc' = "print"
    BY DEF CallAdd, Goto, Set!Invoke, Set!OnNull
  <2>2. entry.fs.fsname \in Name
    BY <2>1, EntryProperties DEF IInv, Shape, InHand
  <2>3. CASE live
    <3>1. call' = [op |-> "add", key |-> entry.fs.fsname] /\ UNCHANGED lost
      BY <2>3 DEF CallAdd, Set!Invoke
    <3>2. call' # NoCall
      BY <2>2, <3>1, CallsAreCalls
    <3>3. QED
      BY <2>1, <3>1, <3>2 DEF IInv, Remembered, ShownOf
  <2>4. CASE ~live
    <3>1. lost' = lost \cup {entry.fs.fsname}
      BY <2>4 DEF CallAdd
    <3>2. QED
      BY <2>1, <3>1 DEF IInv, Remembered, ShownOf
  <2>5. QED
    BY <2>3, <2>4
<1>6. Settled'
  BY DEF IInv, Settled, Counts, Answered, ShownOf, Eligible, InHand, CallAdd, Goto, kernel
<1>7. ShownOnce'
  BY DEF IInv, ShownOnce, ShownOf, CallAdd
<1>8. QED
  BY <1>1, <1>2, <1>3, <1>4, <1>5, <1>6, <1>7 DEF IInv

LEMMA PrintDiskStep == ASSUME IInv, PrintDisk PROVE IInv'
<1>1. Shape'
  BY DEF IInv, Shape, Before, PrintDisk, Goto, kernel
<1>2. Order'
  <2>1. shown \in Seq(Entry) /\ entry \in Entry /\ shown' = Append(shown, entry)
    BY DEF PrintDisk, IInv, Shape, InHand
  <2>2. /\ DOMAIN shown' = DOMAIN shown \cup {Len(shown) + 1}
        /\ \A k \in DOMAIN shown : shown'[k] = shown[k]
        /\ shown'[Len(shown) + 1] = entry
    BY <2>1, OneMore
  <2>3. \A k \in DOMAIN shown' : shown'[k].id <= entry.id
    BY <2>1, <2>2, EntryProperties DEF IInv, Order
  <2>4. QED
    BY <2>3 DEF IInv, Order, Increasing, PrintDisk, Goto, kernel
<1>3. Untouched'
  BY DEF Untouched, Before, PrintDisk, Goto
<1>4. CallMatches'
  BY DEF IInv, CallMatches, Before, PrintDisk, Goto, setVars
<1>5. Remembered'
  BY DEF IInv, Remembered, ShownOf, PrintDisk, Goto, setVars
<1>6. Settled'
  <2>1. shown \in Seq(Entry) /\ entry \in Entry /\ shown' = Append(shown, entry)
    BY DEF PrintDisk, IInv, Shape, InHand
  <2>2. /\ DOMAIN shown' = DOMAIN shown \cup {Len(shown) + 1}
        /\ \A k \in DOMAIN shown : shown'[k] = shown[k]
        /\ shown'[Len(shown) + 1] = entry
    BY <2>1, OneMore
  <2>3. pc = "print" /\ pc' = "next" /\ UNCHANGED <<os, mounts, todo, initial, failed>>
    BY DEF PrintDisk, Goto, kernel
  <2>4. Answered(entry)'
    <3>1. Len(shown) + 1 \in ShownOf(entry.fs.fsname)'
      BY <2>2 DEF ShownOf, PrintDisk
    <3>2. entry.id <= entry.id
      BY <2>1, EntryProperties
    <3>3. QED
      BY <2>2, <3>1, <3>2 DEF Answered, PrintDisk
  <2> SUFFICES ASSUME NEW j \in DOMAIN mounts, Counts(mounts[j])
               PROVE  \/ \E k \in DOMAIN todo : todo[k] = mounts[j]
                      \/ Answered(mounts[j])'
    BY <2>3 DEF Settled, Counts, Eligible, Answered, ShownOf
  <2>5. \/ \E k \in DOMAIN todo : todo[k] = mounts[j]
        \/ entry = mounts[j]
        \/ Answered(mounts[j])
    BY <2>3 DEF IInv, Settled
  <2>6. entry = mounts[j] => Answered(mounts[j])'
    BY <2>2, <2>4, <2>3 DEF Answered, ShownOf, PrintDisk
  <2>7. Answered(mounts[j]) => Answered(mounts[j])'
    BY <2>2, <2>3 DEF Answered, ShownOf
  <2>8. QED
    BY <2>5, <2>6, <2>7
<1>7. ShownOnce'
  BY DEF IInv, ShownOnce, ShownOf, Remembered, PrintDisk
<1>8. QED
  BY <1>1, <1>2, <1>3, <1>4, <1>5, <1>6, <1>7 DEF IInv

LEMMA CleanupStep == ASSUME IInv, Cleanup PROVE IInv'
<1>1. Shape'
  BY DEF IInv, Shape, InHand, Cleanup, Goto, Locals, kernel
<1>2. Order'
  BY DEF IInv, Order, Cleanup, Goto, Locals, kernel
<1>3. Untouched'
  BY DEF IInv, Untouched, Before, Cleanup, Goto, Locals
<1>4. CallMatches'
  BY DEF IInv, CallMatches, Cleanup, setVars, Set!Destroy
<1>5. Remembered'
  BY DEF IInv, Remembered, ShownOf, Cleanup, Goto, Locals, setVars, Set!Destroy
<1>6. Settled'
  BY DEF IInv, Settled, Counts, Answered, ShownOf, Eligible, InHand, Cleanup, Goto,
         Locals, kernel
<1>7. ShownOnce'
  BY DEF IInv, ShownOnce, ShownOf, Cleanup, Locals
<1>8. QED
  BY <1>1, <1>2, <1>3, <1>4, <1>5, <1>6, <1>7 DEF IInv
-----------------------------------------------------------------------------
(* The invariant, and what follows from it                                 *)

LEMMA StutterStep == ASSUME IInv, UNCHANGED vars PROVE IInv'
  BY DEF IInv, Shape, Order, Increasing, Untouched, CallMatches, Remembered, Settled,
         Counts,
         Answered, Eligible, ShownOnce, ShownOf, vars, kernel, setVars

LEMMA IInvIsInductive == Spec => []IInv
<1>1. ASSUME IInv, [Next]_vars
      PROVE  IInv'
  <2>1. CASE Program
    BY <1>1, <2>1, OpenMountsStep, CountMountsStep, FetchMountsStep, CreateSetStep,
       SetReturnsStep, NextEntryStep, EndOfMountsStep, StatvfsStep, CallContainsStep,
       BranchStep, CallAddStep, PrintDiskStep, CleanupStep
    DEF Program
  <2>2. CASE Kernel
    BY <1>1, <2>2, MountStep, UnmountStep DEF Kernel
  <2>3. CASE Finished
    BY <1>1, <2>3, StutterStep DEF Finished
  <2>4. CASE UNCHANGED vars
    BY <1>1, <2>4, StutterStep
  <2>5. QED
    BY <1>1, <2>1, <2>2, <2>3, <2>4 DEF Next
<1>2. QED
  BY <1>1, InitStep, PTL DEF Spec

\* The variables are well formed, the array of macOS is never read past its
\* end, and entries are met in the order of their mounts (hw_get_drives_info).
THEOREM TypeCorrect == Spec => []TypeOK
<1>1. IInv => TypeOK
  <2> SUFFICES ASSUME IInv PROVE TypeOK
    OBVIOUS
  <2>1. initial \cup failed \subseteq 1 .. MaxMounts
    BY MountAssumption DEF IInv, Shape
  <2>2. \A s \in {mounts, todo} : \A j, k \in DOMAIN s : j < k => s[j].id < s[k].id
    BY DEF IInv, Order, Increasing
  <2>3. QED
    BY <2>1, <2>2 DEF IInv, Shape, TypeOK, Before, InHand
<1>2. QED
  BY <1>1, IInvIsInductive, PTL

\* A drive that stays mounted is shown, whatever is mounted or unmounted beside
\* it and whatever the string set cannot allocate (hw_get_drives_info).
THEOREM MountedDrivesAreShown == Spec => []StableDrivesShown
<1>1. IInv => StableDrivesShown
  <2> SUFFICES ASSUME IInv, pc = "done", NEW j \in DOMAIN mounts, Counts(mounts[j])
               PROVE  ShownOf(mounts[j].fs.fsname) # {}
    BY DEF StableDrivesShown, Counts
  <2>1. todo = <<>>
    BY DEF IInv, Untouched, Counts
  <2>2. ~\E k \in DOMAIN todo : todo[k] = mounts[j]
    BY <2>1
  <2>3. Answered(mounts[j])
    BY <2>2 DEF IInv, Settled, InHand
  <2>4. QED
    BY <2>3 DEF Answered
<1>2. QED
  BY <1>1, IInvIsInductive, PTL

\* A device that the string set could remember has one line, and it is the line of its
\* first mount (hw_get_drives_info).
THEOREM DevicesHaveOneLine == Spec => []OneLinePerDevice
<1>1. IInv => FirstMountWins
  <2> SUFFICES ASSUME IInv, NEW k \in DOMAIN shown, NEW j \in DOMAIN mounts,
                      Counts(mounts[j]), mounts[j].id < shown[k].id
               PROVE  Answered(mounts[j])
    BY DEF FirstMountWins, Counts, Answered
  <2>1. /\ mounts[j].id \in Nat /\ shown[k].id \in Nat /\ entry.id \in Nat
        /\ \A i \in DOMAIN todo : todo[i].id \in Nat
    BY EntriesProperties, EntryProperties DEF IInv, Shape, NoEntry
  <2>2. shown[k].id <= entry.id /\ \A i \in DOMAIN todo : entry.id < todo[i].id
    BY DEF IInv, Order
  <2>3. mounts[j].id < entry.id /\ \A i \in DOMAIN todo : mounts[j].id < todo[i].id
    BY <2>1, <2>2
  <2>4. entry # mounts[j] /\ \A i \in DOMAIN todo : todo[i] # mounts[j]
    BY <2>1, <2>3
  <2>5. pc # "fetch"
    BY EntriesProperties DEF IInv, Untouched, Before
  <2>6. QED
    BY <2>4, <2>5 DEF IInv, Settled
<1>2. IInv => OneLinePerDevice
  BY <1>1 DEF IInv, OneLinePerDevice
<1>3. QED
  BY <1>2, IInvIsInductive, PTL
=============================================================================
