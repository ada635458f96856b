---------------------------- MODULE StringSetSpec ----------------------------
(***************************************************************************)
(* What include/hashtable.h promises of a string set, with no table in     *)
(* sight: a set of keys, calls that are answered one at a time, and an     *)
(* allocator that may fail.  StringSet.tla is shown to implement it, and   *)
(* DriveList.tla uses it in place of the table.                            *)
(***************************************************************************)
EXTENDS Naturals, FiniteSets

CONSTANTS Key,     (* the strings a caller may hand in                      *)
          NoCall   (* no call of the set is in progress                     *)

VARIABLES live,     (* strset_create has returned a set                     *)
          members,  (* the strings in the set                               *)
          call,     (* the call in progress, or NoCall                      *)
          oom,      (* the last call failed for want of memory              *)
          result    (* what the last call returned; false is 0, true is 1   *)

absVars == <<live, members, call, oom, result>>

CBool(b) == IF b THEN 1 ELSE 0

Calls == [op : {"create", "add", "contains"}, key : Key \cup {NoCall}]

AbsInit ==
  /\ live = FALSE
  /\ members = {}
  /\ call = NoCall
  /\ oom = FALSE
  /\ result = 0

\* A caller enters strset_create while it has no set, the others once it has.
Invoke(c) ==
  /\ call = NoCall
  /\ live = (c.op # "create")
  /\ call' = c
  /\ UNCHANGED <<live, members, oom, result>>

\* "Pointer to set or NULL on allocation failure."
ReturnCreate ==
  /\ call # NoCall
  /\ call.op = "create"
  /\ call' = NoCall
  /\ oom' \in BOOLEAN
  /\ live' = ~oom'
  /\ members' = {}
  /\ result' = CBool(~oom')

\* "true if inserted, false if already exists or memory error": a failure
\* leaves the contents alone.
AddTo(k, fault) ==
  /\ members' = IF fault THEN members ELSE members \cup {k}
  /\ result' = CBool(~fault /\ k \notin members)

ReturnAdd ==
  /\ call # NoCall
  /\ call.op = "add"
  /\ call' = NoCall
  /\ oom' \in BOOLEAN
  /\ AddTo(call.key, oom')
  /\ UNCHANGED live

\* "true if key exists, false otherwise."
ReturnContains ==
  /\ call # NoCall
  /\ call.op = "contains"
  /\ call' = NoCall
  /\ oom' = FALSE
  /\ result' = CBool(call.key \in members)
  /\ UNCHANGED <<live, members>>

\* "Retrieves the total number of items currently in the set."
Count ==
  /\ call = NoCall
  /\ live
  /\ result' = Cardinality(members)
  /\ oom' = FALSE
  /\ UNCHANGED <<live, members, call>>

\* A call on a NULL set answers false, or 0.
OnNull ==
  /\ call = NoCall
  /\ ~live
  /\ result' = 0
  /\ oom' = FALSE
  /\ UNCHANGED <<live, members, call>>

Destroy ==
  /\ call = NoCall
  /\ live
  /\ live' = FALSE
  /\ members' = {}
  /\ UNCHANGED <<call, oom, result>>

AbsNext ==
  \/ \E c \in Calls : Invoke(c)
  \/ ReturnCreate
  \/ ReturnAdd
  \/ ReturnContains
  \/ Count
  \/ OnNull
  \/ Destroy

AbsSpec == AbsInit /\ [][AbsNext]_absVars
=============================================================================
