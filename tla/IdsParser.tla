------------------------------ MODULE IdsParser ------------------------------
(***************************************************************************)
(* util_parse_ids_span (core/sys_utils.c) over the trees of                 *)
(* core/binary_trees.c: a database of hardware names is read line by line   *)
(* into a forest, a root per vendor with its devices as a linked list of    *)
(* children.  With a list of queries only what answers one of them is kept  *)
(* and the reading stops when all have been answered.                       *)
(*                                                                         *)
(* The heap is modelled: a node is known by the line it was made from, which*)
(* stands for its name as well, and malloc may fail.                       *)
(***************************************************************************)
EXTENDS Integers, Sequences, FiniteSets, FiniteSetsExt

CONSTANTS
  Databases,   (* what the file may hold: sequences of lines, see below      *)
  Full,        (* `queries' is NULL: everything is wanted                    *)
  Capacity,    (* the number of roots the forest is made for                 *)
  MaxFailures  (* how many allocations may fail in a behaviour               *)

\* A line is what the parser looks at: its first character ("C" stands for a
\* "C" before a space), its tabs, the length of its hexadecimal token (in
\* full), and the number that token is.
LineOfIds == [lead : {"#", "C", "other"}, tabs : Nat, digits : Nat, id : Nat]

ASSUME DatabaseAssumption == Databases \subseteq Seq(LineOfIds)

ASSUME CapacityAssumption == Capacity \in Nat \ {0}

VARIABLES
  db,        (* the database                                                 *)
  queries,   (* Full, or a sequence of [vendor, device] records              *)
  phase,     (* "idle", "lines", "parsed", "failed"                          *)
  pos,       (* the next line                                                *)
  branch,    (* the root that takes the devices, or Null                     *)
  resolved,  (* the queries whose `found' flag is set                        *)
  remaining, (* the number of queries still to be answered                   *)
  heap,      (* the nodes that are allocated                                 *)
  roots,     (* ids_forest->roots                                            *)
  room,      (* ids_forest->capacity                                         *)
  lost,      (* history: roots that could not be put in the forest           *)
  failures   (* how many allocations have failed                             *)

forest    == <<heap, roots, room, lost>>
parsing   == <<pos, branch, resolved, remaining>>
idsVars   == <<db, queries, phase, parsing, forest, failures>>

Null == 0
NoForest == [a \in {} |-> Null]

CanFail == failures < MaxFailures
Fail == CanFail /\ failures' = failures + 1
-----------------------------------------------------------------------------
(* Lines                                                                   *)

\* util_parse_ids_hex takes one to four digits and no more.
HasId(l) == l.digits \in 1 .. 4

\* "C <class>" begins the classes, in which nothing is a vendor.
IsClass(l) == l.lead = "C"

\* Comments, entries two tabs deep or more, lines with no number.
IsSkipped(l) == l.lead = "#" \/ l.tabs > 1 \/ ~HasId(l)

IsVendor(l) == ~IsClass(l) /\ ~IsSkipped(l) /\ l.tabs = 0
IsDevice(l) == ~IsClass(l) /\ ~IsSkipped(l) /\ l.tabs = 1

-----------------------------------------------------------------------------
(* Which lines are wanted                                                  *)

Unresolved == IF queries = Full THEN {} ELSE DOMAIN queries \ resolved

VendorIsWanted(v) ==
  queries = Full \/ \E q \in Unresolved : queries[q].vendor = v

\* Variant: queries that have been answered count again.
AnswersAgain(v, d) ==
  {q \in IF queries = Full THEN {} ELSE DOMAIN queries : queries[q].vendor = v /\ queries[q].device = d}

\* The queries a device line answers, duplicates included.
Answers(v, d) ==
  {q \in Unresolved : queries[q].vendor = v /\ queries[q].device = d}

DeviceIsWanted(v, d) == queries = Full \/ Answers(v, d) # {}
-----------------------------------------------------------------------------
(* The tree                                                                *)

NewNode(line) == [id |-> db[line].id, first |-> Null, last |-> Null, next |-> Null]
With(h, line, node) == [a \in DOMAIN h \cup {line} |-> IF a = line THEN node ELSE h[a]]

\* Variant: the parent's last child stays what it was.
AddChildKeepsLast(h, parent, line) ==
  LET last == h[parent].last
      h1   == With(h, line, NewNode(line))
  IN  IF last = Null
        THEN [h1 EXCEPT ![parent].first = line, ![parent].last = line]
        ELSE [h1 EXCEPT ![last].next = line]

\* tree_add_child_n: the new node goes after the last child.
AddChild(h, parent, line) ==
  LET last == h[parent].last
      h1   == With(h, line, NewNode(line))
      h2   == IF last = Null THEN [h1 EXCEPT ![parent].first = line]
                             ELSE [h1 EXCEPT ![last].next = line]
  IN  [h2 EXCEPT ![parent].last = line]

\* The children of a root, first to last: where the pointers lead.
Kids(root) ==
  LET after(s) == IF s = <<>> THEN heap[root].first ELSE heap[s[Len(s)]].next
      walk[n \in 0 .. Len(db)] ==
        IF n = 0 THEN <<>>
        ELSE IF after(walk[n - 1]) = Null THEN walk[n - 1]
        ELSE Append(walk[n - 1], after(walk[n - 1]))
  IN  walk[Len(db)]

\* tree_find_root: the first root with this number.
FindRoot(v) ==
  LET those == {j \in DOMAIN roots : heap[roots[j]].id = v}
  IN  IF those = {} THEN Null ELSE roots[Min(those)]

\* tree_find: the root itself, else its first child with this number.
Find(root, d) ==
  IF root = Null THEN Null
  ELSE IF heap[root].id = d THEN root
  ELSE LET kids  == Kids(root)
           those == {j \in DOMAIN kids : heap[kids[j]].id = d}
       IN  IF those = {} THEN Null ELSE kids[Min(those)]
-----------------------------------------------------------------------------
IdsInit ==
  /\ db = <<>>
  /\ queries = <<>>
  /\ phase = "idle"
  /\ pos = 1
  /\ branch = Null
  /\ resolved = {}
  /\ remaining = 0
  /\ heap = NoForest
  /\ roots = <<>>
  /\ room = 0
  /\ lost = {}
  /\ failures = 0

\* The call, on a database that is there: the flags and the forest are
\* allocated.
Parse(qs) ==
  /\ phase = "idle"
  /\ db' \in Databases
  /\ queries' = qs
  /\ \/ /\ phase' = "lines"
        /\ room' = Capacity
        /\ remaining' = IF qs = Full THEN 0 ELSE Len(qs)
        /\ UNCHANGED failures
     \/ Fail /\ phase' = "failed" /\ UNCHANGED <<room, remaining>>
  /\ UNCHANGED <<pos, branch, resolved, heap, roots, lost>>

\* There is no file, or it cannot be opened or mapped.
NoDatabase(qs) ==
  /\ phase = "idle"
  /\ queries' = qs
  /\ phase' = "failed"
  /\ UNCHANGED <<db, parsing, forest, failures>>

Reading == phase = "lines" /\ pos <= Len(db)
Line    == db[pos]

\* Variant: the reading stops when one query is left.
AllAnsweredEarly(n) == queries # Full /\ n <= 1

AllAnswered(n) == queries # Full /\ n = 0

\* The end of a turn of the loop, with n queries left.
Continue(n) ==
  /\ pos' = pos + 1
  /\ phase' = IF AllAnswered(n) THEN "parsed" ELSE phase
  /\ UNCHANGED <<db, queries>>

SkipLine ==
  /\ Reading
  /\ ~IsClass(Line) /\ IsSkipped(Line)
  /\ pos' = pos + 1
  /\ UNCHANGED <<db, queries, phase, branch, resolved, remaining, forest, failures>>

\* The classes begin, or the database ends.
EndOfIds ==
  /\ phase = "lines"
  /\ IF pos <= Len(db) THEN IsClass(Line) ELSE TRUE
  /\ phase' = "parsed"
  /\ UNCHANGED <<db, queries, parsing, forest, failures>>

\* Variant: a vendor nobody asked for leaves the branch as it is.
UnwantedVendorKeepsBranch ==
  /\ Reading /\ IsVendor(Line) /\ ~VendorIsWanted(Line.id)
  /\ Continue(remaining)
  /\ UNCHANGED <<branch, resolved, remaining, forest, failures>>

UnwantedVendor ==
  /\ Reading /\ IsVendor(Line) /\ ~VendorIsWanted(Line.id)
  /\ branch' = Null
  /\ Continue(remaining)
  /\ UNCHANGED <<resolved, remaining, forest, failures>>

\* tree_create_node_n and tree_add_to_forest, which doubles a full array and
\* otherwise gives up without a word: the branch is then in no forest.
WantedVendor ==
  /\ Reading /\ IsVendor(Line) /\ VendorIsWanted(Line.id)
  /\ branch' = pos
  /\ heap' = With(heap, pos, NewNode(pos))
  /\ \/ /\ roots' = Append(roots, pos)
        /\ room' = IF Len(roots) = room THEN 2 * room ELSE room
        /\ UNCHANGED <<lost, failures>>
     \/ /\ Len(roots) = room
        /\ Fail
        /\ lost' = lost \cup {pos}
        /\ UNCHANGED <<roots, room>>
  /\ Continue(remaining)
  /\ UNCHANGED <<resolved, remaining>>

VendorFails ==
  /\ Reading /\ IsVendor(Line) /\ VendorIsWanted(Line.id)
  /\ Fail
  /\ branch' = Null
  /\ Continue(remaining)
  /\ UNCHANGED <<resolved, remaining, forest>>

\* A device with no vendor above it, or one nobody asked for.
UnwantedDevice ==
  /\ Reading /\ IsDevice(Line)
  /\ IF branch = Null THEN TRUE ELSE ~DeviceIsWanted(heap[branch].id, Line.id)
  /\ Continue(remaining)
  /\ UNCHANGED <<branch, resolved, remaining, forest, failures>>

\* The queries are marked as answered before the node is made, and stay so
\* when it cannot be made.
WantedDevice ==
  /\ Reading /\ IsDevice(Line)
  /\ branch # Null
  /\ LET v   == heap[branch].id
         ans == IF queries = Full THEN {} ELSE Answers(v, Line.id)
     IN  /\ DeviceIsWanted(v, Line.id)
         /\ resolved' = resolved \cup ans
         /\ remaining' = IF Cardinality(ans) < remaining THEN remaining - Cardinality(ans) ELSE 0
         /\ Continue(remaining')
  /\ \/ heap' = AddChild(heap, branch, pos) /\ UNCHANGED failures
     \/ Fail /\ UNCHANGED heap
  /\ UNCHANGED <<branch, roots, room, lost>>

Reachable(rs) == UNION {{r} \cup {Kids(r)[j] : j \in DOMAIN Kids(r)} : r \in rs}

\* Variant: only the roots are freed.
DestroyRootsOnly ==
  /\ heap' = [a \in DOMAIN heap \ {roots[j] : j \in DOMAIN roots} |-> heap[a]]
  /\ roots' = <<>>
  /\ room' = 0
  /\ UNCHANGED lost

\* tree_destroy_forest: every root with all that hangs from it.
Destroy ==
  /\ heap' = [a \in DOMAIN heap \ Reachable({roots[j] : j \in DOMAIN roots}) |-> heap[a]]
  /\ roots' = <<>>
  /\ room' = 0
  /\ UNCHANGED lost

ParserStep ==
  \/ SkipLine \/ EndOfIds \/ UnwantedVendor \/ WantedVendor \/ VendorFails
  \/ UnwantedDevice \/ WantedDevice
-----------------------------------------------------------------------------
\* The lines before the classes: those a full reading looks at.
Body == {p \in DOMAIN db : \A q \in 1 .. p : ~IsClass(db[q])}

\* The vendor line a device line belongs to.
SectionOf(p) ==
  LET above == {q \in Body : q < p /\ IsVendor(db[q])}
  IN  IF above = {} THEN Null ELSE Max(above)

\* What a reader of the whole database finds: the first line of the vendor,
\* and under it the first line of the device; but a device numbered like its
\* vendor is the vendor itself to tree_find.
FirstOf(lines) == IF lines = {} THEN Null ELSE Min(lines)
VendorIn(v) == FirstOf({p \in Body : IsVendor(db[p]) /\ db[p].id = v})
DeviceIn(v, d) ==
  IF v = d \/ VendorIn(v) = Null THEN VendorIn(v)
  ELSE FirstOf({p \in Body : IsDevice(db[p]) /\ db[p].id = d /\ SectionOf(p) = VendorIn(v)})

\* The variables are well formed, and the number of queries left is that of
\* the flags that are not set.
IdsTypeOK ==
  /\ phase \in {"idle", "lines", "parsed", "failed"}
  /\ pos \in 1 .. Len(db) + 1
  /\ DOMAIN heap \subseteq DOMAIN db
  /\ phase = "lines" => branch \in DOMAIN heap \cup {Null}
  /\ Len(roots) <= room
  /\ queries # Full /\ phase # "failed" =>
       /\ remaining = Cardinality(Unresolved)
       /\ phase = "lines" => remaining > 0

\* The heap is a forest at every step: each node is a root, kept or lost, or
\* the child of exactly one, in the order of the lines, and last_child is the
\* end of the list that first_child begins (tree_add_child_n).
ForestIsSound ==
  LET tops == {roots[j] : j \in DOMAIN roots} \cup lost IN
  /\ \A j, k \in DOMAIN roots : j < k => roots[j] < roots[k]
  /\ DOMAIN heap = Reachable(tops)
  /\ \A r \in tops :
       LET kids == Kids(r) IN
       /\ heap[r].last = IF kids = <<>> THEN Null ELSE kids[Len(kids)]
       /\ \A j, k \in DOMAIN kids : j < k => kids[j] < kids[k]
       /\ \A j \in DOMAIN kids : SectionOf(kids[j]) = r

\* A filtered forest holds vendors and devices somebody asked for, each device
\* once under all names it was asked by (sys_utils.h: "unrelated devices are
\* not stored").
OnlyWantedStored ==
  queries # Full =>
    LET kid(p)  == p \notin {roots[j] : j \in DOMAIN roots} \cup lost
        pair(p) == [vendor |-> db[SectionOf(p)].id, device |-> db[p].id]
        kids    == {p \in DOMAIN heap : kid(p)}
    IN  /\ \A p \in kids : \E q \in DOMAIN queries : queries[q] = pair(p)
        /\ \A p, q \in kids : pair(p) = pair(q) => p = q
        /\ \A p \in DOMAIN heap \ kids : \E q \in DOMAIN queries : queries[q].vendor = db[p].id

\* At every line of the file the forest is well built and holds nothing that was
\* not asked for (util_parse_ids_span over binary_trees.c).
ForestIsRight == ForestIsSound /\ OnlyWantedStored
=============================================================================
