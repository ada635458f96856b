-------------------------- MODULE CaptureLine_proofs --------------------------
(***************************************************************************)
(* Proofs about CaptureLine.tla, for any commands, any set of standard      *)
(* descriptors to start with, any size of buffer and pipe, and any system   *)
(* call that fails.                                                         *)
(***************************************************************************)
EXTENDS CaptureLine, Facts, FiniteSetTheorems, TLAPS

-----------------------------------------------------------------------------
(* Descriptor tables and the set-up                                        *)

LEMMA LowestFreeIs ==
  ASSUME NEW t, \E f \in Fds : t[f] = Closed
  PROVE  /\ LowestFree(t) \in Fds
         /\ t[LowestFree(t)] = Closed
         /\ \A f \in Fds : t[f] = Closed => LowestFree(t) <= f
<1> DEFINE S == {f \in Fds : t[f] = Closed}
<1>1. S \subseteq 0 .. 5 /\ S # {}
  BY DEF Fds
<1>2. \E x \in S : \A y \in S : x <= y
  <2> HIDE DEF S
  <2>1. CASE 0 \in S
    BY <1>1, <2>1
  <2>2. CASE 0 \notin S /\ 1 \in S
    BY <1>1, <2>2
  <2>3. CASE 0 \notin S /\ 1 \notin S /\ 2 \in S
    BY <1>1, <2>3
  <2>4. CASE 0 \notin S /\ 1 \notin S /\ 2 \notin S /\ 3 \in S
    BY <1>1, <2>4
  <2>5. CASE 0 \notin S /\ 1 \notin S /\ 2 \notin S /\ 3 \notin S /\ 4 \in S
    BY <1>1, <2>5
  <2>6. CASE 0 \notin S /\ 1 \notin S /\ 2 \notin S /\ 3 \notin S /\ 4 \notin S
    <3>1. \A x \in S : x = 5
      BY <1>1, <2>6
    <3>2. PICK x \in S : TRUE
      BY <1>1
    <3> QED
      BY <3>1, <3>2
  <2> QED
    BY <1>1, <2>1, <2>2, <2>3, <2>4, <2>5, <2>6
<1>3. Min(S) \in S /\ \A y \in S : Min(S) <= y
  BY <1>2 DEF Min
<1> QED
  BY <1>3 DEF LowestFree

\* The number of operations, and which is which.
LEMMA SetupLength ==
  /\ os = "linux" => Len(Setup) = 7
  /\ os = "macos" => Len(Setup) = 5
  BY DEF Setup, LinuxSetup, MacSetup

LEMMA SetupOps ==
  /\ os = "linux" =>
       /\ Setup[1] = <<"close", "rd">>
       /\ Setup[2] = <<"open">>
       /\ Setup[3] = <<"dup2", "null", 0>>
       /\ Setup[4] = <<"dup2", "null", 2>>
       /\ Setup[5] = <<"close", "null">>
       /\ Setup[6] = <<"dup2", "wr", 1>>
       /\ Setup[7] = <<"close", "wr">>
  /\ os = "macos" =>
       /\ Setup[1] = <<"openat", 0>>
       /\ Setup[2] = <<"openat", 2>>
       /\ Setup[3] = <<"close", "rd">>
       /\ Setup[4] = <<"dup2", "wr", 1>>
       /\ Setup[5] = <<"close", "wr">>
  BY DEF Setup, LinuxSetup, MacSetup

-----------------------------------------------------------------------------
(* Types                                                                   *)

Contents == {Closed, "user", "null", "R", "W"}
MaybeFd  == Fds \cup {NoFd}
ChildRecord ==
  [fds : [Fds -> Contents], rd : MaybeFd, wr : MaybeFd, null : MaybeFd, step : 1 .. 8]

\* The set-up of a child that is at step n of the operations.
Steps == IF os = "linux" THEN 1 .. 8 ELSE 1 .. 6

Typed ==
  /\ os \in {"linux", "macos"}
  /\ command \in Commands \cup {Missing}
  /\ std \subseteq {0, 1, 2}
  /\ child \in ChildRecord
  /\ child.step \in Steps
  /\ life \in {"none", "setup", "running", "zombie", "gone"}
  /\ status \in {"none", "ok", "failed", "signalled"}
  /\ status = "none" <=> life \in {"none", "setup", "running"}
  /\ writes \in Nat
  /\ life = "setup" => child.rd \in Fds /\ child.wr \in Fds /\ child.rd # child.wr
  /\ life = "setup" /\ os = "linux" /\ child.step = 2 => child.fds[child.rd] = Closed
  /\ life = "running" => command # Missing /\ child.step = IF os = "linux" THEN 8 ELSE 6
  /\ life \in {"zombie", "gone"} => child.fds = NoFiles

LEMMA ChildMoves ==
  ASSUME Typed, NEW op, ChildDoes(op)
  PROVE  /\ child.step \in (IF os = "linux" THEN 1 .. 7 ELSE 1 .. 5)
         /\ os = "linux" =>
              /\ op = "close" => child.step \in {1, 5, 7}
              /\ op = "open" => child.step = 2
              /\ op = "dup2" => child.step \in {3, 4, 6}
              /\ op # "openat"
         /\ os = "macos" =>
              /\ op = "close" => child.step \in {3, 5}
              /\ op = "dup2" => child.step = 4
              /\ op = "openat" => child.step \in {1, 2}
              /\ op # "open"
<1>1. child.step \in Steps /\ child.step \in Int
  BY DEF Typed, Steps
<1>2. child.step <= Len(Setup) /\ Setup[child.step][1] = op
  BY DEF ChildDoes, SetupOp
<1>3. CASE os = "linux"
  <2>0. Len(Setup) = 7 /\ child.step \in 1 .. 8
    BY <1>1, <1>3, SetupLength DEF Steps
  <2>1. child.step \in 1 .. 7
    BY <1>2, <2>0
  <2> QED
    BY <1>2, <1>3, <2>1, SetupOps
<1>4. CASE os = "macos"
  <2>0. Len(Setup) = 5 /\ child.step \in 1 .. 6
    BY <1>1, <1>4, SetupLength DEF Steps
  <2>1. child.step \in 1 .. 5
    BY <1>2, <2>0
  <2> QED
    BY <1>2, <1>4, <2>1, SetupOps
<1> QED
  BY <1>3, <1>4 DEF Typed

\* What each operation of the set-up does to the descriptors of the child.
LEMMA CloseMoves ==
  ASSUME Typed, ChildClose
  PROVE  \E f \in MaybeFd :
           /\ child' = [child EXCEPT !.fds = CloseFd(child.fds, f), !.step = child.step + 1]
           /\ os = "linux" => \/ child.step = 1 /\ f = child.rd
                              \/ child.step = 5 /\ f = child.null
                              \/ child.step = 7 /\ f = child.wr
           /\ os = "macos" => \/ child.step = 3 /\ f = child.rd
                              \/ child.step = 5 /\ f = child.wr
<1> DEFINE f == child[Setup[child.step][2]]
<1>1. ChildDoes("close")
  BY DEF ChildClose
<1>2. child' = [child EXCEPT !.fds = CloseFd(child.fds, f), !.step = child.step + 1]
  BY DEF ChildClose, NextOp, Local, SetupOp
<1>3. os = "linux" => \/ child.step = 1 /\ f = child.rd
                      \/ child.step = 5 /\ f = child.null
                      \/ child.step = 7 /\ f = child.wr
  BY <1>1, ChildMoves, SetupOps
<1>4. os = "macos" => \/ child.step = 3 /\ f = child.rd
                      \/ child.step = 5 /\ f = child.wr
  BY <1>1, ChildMoves, SetupOps
<1>5. f \in MaybeFd
  BY <1>3, <1>4 DEF Typed, ChildRecord
<1> QED
  BY <1>2, <1>3, <1>4, <1>5

LEMMA Dup2Moves ==
  ASSUME Typed, ChildDup2
  PROVE  \E src \in MaybeFd, to \in {0, 1, 2} :
           /\ child' = [child EXCEPT
                !.fds = IF src = NoFd THEN child.fds
                        ELSE [child.fds EXCEPT ![to] = child.fds[src]],
                !.step = child.step + 1]
           /\ os = "linux" => \/ child.step = 3 /\ src = child.null /\ to = 0
                              \/ child.step = 4 /\ src = child.null /\ to = 2
                              \/ child.step = 6 /\ src = child.wr /\ to = 1
           /\ os = "macos" => child.step = 4 /\ src = child.wr /\ to = 1
<1> DEFINE src == child[Setup[child.step][2]]
           to  == Setup[child.step][3]
<1>1. ChildDoes("dup2")
  BY DEF ChildDup2
<1>2. child' = [child EXCEPT
                !.fds = IF src = NoFd THEN child.fds
                        ELSE [child.fds EXCEPT ![to] = child.fds[src]],
                !.step = child.step + 1]
  BY DEF ChildDup2, NextOp, Local, SetupOp
<1>3. os = "linux" => \/ child.step = 3 /\ src = child.null /\ to = 0
                      \/ child.step = 4 /\ src = child.null /\ to = 2
                      \/ child.step = 6 /\ src = child.wr /\ to = 1
  BY <1>1, ChildMoves, SetupOps
<1>4. os = "macos" => child.step = 4 /\ src = child.wr /\ to = 1
  BY <1>1, ChildMoves, SetupOps
<1>5. src \in MaybeFd /\ to \in {0, 1, 2}
  BY <1>3, <1>4 DEF Typed, ChildRecord
<1> HIDE DEF src, to
<1> QED
  BY <1>2, <1>3, <1>4, <1>5

LEMMA OpenMoves ==
  ASSUME Typed, ChildOpenNull
  PROVE  /\ os = "linux" /\ child.step = 2
         /\ child' \in ChildRecord /\ child'.step = 3
         /\ child'.rd = child.rd /\ child'.wr = child.wr
         /\ \/ \E f \in Fds : /\ child.fds[f] = Closed
                              /\ child'.fds = [child.fds EXCEPT ![f] = "null"]
                              /\ child'.null = f
                              /\ UNCHANGED fault
            \/ /\ child'.fds = child.fds /\ child'.null = child.null
               /\ fault' = fault \cup {"null"}
<1>1. os = "linux" /\ child.step = 2 /\ life = "setup" /\ child.step + 1 = 3
  <2>1. ChildDoes("open")
    BY DEF ChildOpenNull
  <2> QED
    BY <2>1, ChildMoves DEF Typed, ChildDoes
<1>2. LowestFree(child.fds) \in Fds /\ child.fds[LowestFree(child.fds)] = Closed
  BY <1>1, LowestFreeIs DEF Typed
<1>3. ASSUME NextOp(child.fds), fault' = fault \cup {"null"}
      PROVE  /\ child' \in ChildRecord /\ child'.step = 3
             /\ child'.rd = child.rd /\ child'.wr = child.wr
             /\ child'.fds = child.fds /\ child'.null = child.null
  <2>1. child \in ChildRecord /\ child.fds \in [Fds -> Contents] /\ 3 \in 1 .. 8
    BY DEF Typed, ChildRecord
  <2>2. child' = [child EXCEPT !.fds = child.fds, !.step = 3]
    BY <1>1, <1>3 DEF NextOp
  <2> QED
    BY <2>1, <2>2 DEF ChildRecord
<1>4. ASSUME NEW f \in Fds, child' = [child EXCEPT !.fds[f] = "null", !.null = f, !.step = @ + 1]
      PROVE  /\ child' \in ChildRecord /\ child'.step = 3
             /\ child'.rd = child.rd /\ child'.wr = child.wr
             /\ child'.fds = [child.fds EXCEPT ![f] = "null"]
             /\ child'.null = f
  <2> DEFINE t == [child.fds EXCEPT ![f] = "null"]
  <2>1. t \in [Fds -> Contents] /\ f \in MaybeFd
    BY DEF Typed, ChildRecord, Contents, MaybeFd
  <2>2. child' = [child EXCEPT !.fds = t, !.null = f, !.step = 3]
    BY <1>1, <1>4
  <2>3. child \in ChildRecord
    BY DEF Typed
  <2> HIDE DEF t
  <2>4. /\ child' \in ChildRecord /\ child'.step = 3
        /\ child'.rd = child.rd /\ child'.wr = child.wr
        /\ child'.fds = t /\ child'.null = f
    <3>1. child' = [fds |-> t, rd |-> child.rd, wr |-> child.wr, null |-> f, step |-> 3]
      BY <2>2, <2>3 DEF ChildRecord
    <3>2. child.rd \in MaybeFd /\ child.wr \in MaybeFd /\ 3 \in 1 .. 8
      BY <2>3 DEF ChildRecord
    <3> QED
      BY <2>1, <3>1, <3>2 DEF ChildRecord
  <2> QED
    BY <2>4 DEF t
<1> QED
  BY <1>1, <1>2, <1>3, <1>4 DEF ChildOpenNull

LEMMA OpenAtMoves ==
  ASSUME Typed, ChildOpenAt
  PROVE  \E f \in {0, 2} :
           /\ os = "macos"
           /\ \/ child.step = 1 /\ f = 0
              \/ child.step = 2 /\ f = 2
           /\ child' = [child EXCEPT !.fds = [child.fds EXCEPT ![f] = "null"],
                                     !.step = child.step + 1]
<1>1. ChildDoes("openat")
  BY DEF ChildOpenAt
<1>2. /\ os = "macos"
      /\ \/ child.step = 1 /\ Setup[child.step][2] = 0
         \/ child.step = 2 /\ Setup[child.step][2] = 2
  BY <1>1, ChildMoves, SetupOps DEF Typed
<1> QED
  BY <1>2 DEF ChildOpenAt, NextOp, SetupOp

LEMMA TypedInit == Init => Typed
<1> SUFFICES ASSUME Init PROVE Typed
  OBVIOUS
<1>1. child \in ChildRecord /\ child.step = 1 /\ 1 \in Steps
  BY DEF Init, NoChild, NoFiles, ChildRecord, Contents, MaybeFd, Steps
<1>2. std \subseteq {0, 1, 2}
  BY InheritedAssumption DEF Init
<1> QED
  BY <1>1, <1>2 DEF Init, Typed

\* The steps of the set-up: the child's table changes, and it moves on.
LEMMA TypedSetup ==
  ASSUME Typed, ChildClose \/ ChildDup2 \/ ChildOpenNull \/ ChildOpenAt
 PROVE  Typed'
<1>0. child \in ChildRecord
  BY DEF Typed
<1>1. /\ life = "setup" /\ child.step <= Len(Setup)
      /\ UNCHANGED <<os, command, std, life, writes, status>>
  BY DEF ChildClose, ChildDup2, ChildOpenNull, ChildOpenAt, ChildDoes, world
<1>2. child.step + 1 \in Steps
  <2>1. child.step \in Int /\ child.step >= 1
    BY DEF Typed, Steps
  <2> QED
    <3>1. Len(Setup) = IF os = "linux" THEN 7 ELSE 5
      BY SetupLength DEF Typed
    <3> QED
      BY <1>1, <2>1, <3>1 DEF Typed, Steps
<1>3. ASSUME child' \in ChildRecord, child'.step = child.step + 1,
             child'.rd = child.rd, child'.wr = child.wr,
             os = "linux" /\ child.step = 1 => child'.fds[child.rd] = Closed
      PROVE  Typed'
  <2>1. os' = "linux" /\ child'.step = 2 => child.step = 1
    BY <1>3 DEF Typed, ChildRecord
  <2> QED
    BY <1>1, <1>2, <1>3, <2>1 DEF Typed, Steps
<1>4. 1 .. 8 \subseteq Int /\ child.step + 1 \in 1 .. 8
  BY <1>2 DEF Steps
<1>5. CASE ChildClose
  <2>1. PICK f \in MaybeFd :
           /\ child' = [child EXCEPT !.fds = CloseFd(child.fds, f), !.step = child.step + 1]
           /\ os = "linux" => \/ child.step = 1 /\ f = child.rd
                              \/ child.step = 5 /\ f = child.null
                              \/ child.step = 7 /\ f = child.wr
    BY <1>5, CloseMoves
  <2>2. CloseFd(child.fds, f) \in [Fds -> Contents]
    BY DEF CloseFd, Typed, ChildRecord, Contents
  <2>3. f = child.rd => CloseFd(child.fds, f)[f] = Closed
    BY <1>1 DEF CloseFd, Typed, ChildRecord, NoFd, Fds
  <2> QED
    <3>1. /\ child' \in ChildRecord /\ child'.step = child.step + 1
          /\ child'.fds = CloseFd(child.fds, f)
          /\ child'.rd = child.rd /\ child'.wr = child.wr
      BY <1>4, <2>1, <2>2, <1>0 DEF ChildRecord
    <3>2. os = "linux" /\ child.step = 1 => child'.fds[child.rd] = Closed
      BY <2>1, <2>3, <3>1
    <3> QED
      BY <1>3, <3>1, <3>2
<1>6. CASE ChildDup2
  <2>1. PICK src \in MaybeFd, to \in {0, 1, 2} :
           /\ child' = [child EXCEPT
                !.fds = IF src = NoFd THEN child.fds
                        ELSE [child.fds EXCEPT ![to] = child.fds[src]],
                !.step = child.step + 1]
           /\ os = "linux" => \/ child.step = 3 /\ src = child.null /\ to = 0
                              \/ child.step = 4 /\ src = child.null /\ to = 2
                              \/ child.step = 6 /\ src = child.wr /\ to = 1
    BY <1>6, Dup2Moves
  <2>2. (IF src = NoFd THEN child.fds ELSE [child.fds EXCEPT ![to] = child.fds[src]])
          \in [Fds -> Contents]
    BY DEF Typed, ChildRecord, MaybeFd
  <2> QED
    <3>1. /\ child' \in ChildRecord /\ child'.step = child.step + 1
          /\ child'.rd = child.rd /\ child'.wr = child.wr
      BY <1>4, <2>1, <2>2, <1>0 DEF ChildRecord
    <3>2. ~(os = "linux" /\ child.step = 1)
      BY <2>1
    <3> QED
      BY <1>3, <3>1, <3>2
<1>7. CASE ChildOpenNull
  <2>1. os = "linux" /\ child.step = 2 /\ 3 \in 1 .. 8
    BY <1>7, OpenMoves
  <2>2. child' \in ChildRecord /\ child'.step = 3 /\ child'.rd = child.rd /\ child'.wr = child.wr
    BY <1>7, OpenMoves
  <2> QED
    BY <1>3, <2>1, <2>2
<1>8. CASE ChildOpenAt
  <2>1. PICK f \in {0, 2} :
           /\ os = "macos"
           /\ child' = [child EXCEPT !.fds = [child.fds EXCEPT ![f] = "null"],
                                     !.step = child.step + 1]
    BY <1>8, OpenAtMoves
  <2> QED
    <3>1. [child.fds EXCEPT ![f] = "null"] \in [Fds -> Contents]
      BY DEF Typed, ChildRecord, Contents
    <3>2. /\ child' \in ChildRecord /\ child'.step = child.step + 1
          /\ child'.rd = child.rd /\ child'.wr = child.wr
      BY <1>4, <2>1, <3>1, <1>0 DEF ChildRecord
    <3>3. ~(os = "linux" /\ child.step = 1)
      BY <2>1
    <3> QED
      BY <1>3, <3>2, <3>3
<1> QED
  BY <1>5, <1>6, <1>7, <1>8

\* The child ends: ChildEnds, and the failures of posix_spawn.
LEMMA TypedEnds ==
  ASSUME Typed, UNCHANGED <<os, command, std, writes>>,
         life' \in {"zombie", "gone"}, status' \in {"ok", "failed", "signalled"},
         child' = [child EXCEPT !.fds = NoFiles]
  PROVE  Typed'
  BY DEF Typed, ChildRecord, NoFiles, Contents, Steps

-----------------------------------------------------------------------------
(* What the program holds                                                  *)

Labels ==
  {"pipe", "fork", "spawn", "closeW", "fdopen", "fgets", "fclose", "wait", "cleanup", "done"}

\* The descriptors the program has opened, at each of its statements.
Locals ==
  /\ rd \in MaybeFd /\ wr \in MaybeFd /\ stream \in MaybeFd
  /\ pc \in {"pipe", "wait", "done"} => rd = NoFd /\ wr = NoFd /\ stream = NoFd
  /\ pc \in {"fork", "spawn", "closeW"} => rd \in Fds /\ wr \in Fds /\ rd < wr /\ stream = NoFd
  /\ pc = "fdopen" => rd \in Fds /\ wr = NoFd /\ stream = NoFd
  /\ pc \in {"fgets", "fclose"} => rd = NoFd /\ wr = NoFd /\ stream \in Fds
  /\ pc = "cleanup" => stream = NoFd /\ (rd # NoFd => rd # wr)

\* Its table is the one it started with and those.
TableWith(open, r, w, s) ==
  [f \in Fds |-> IF f \in {r, s} THEN "R" ELSE IF f = w THEN "W"
                 ELSE IF f \in open THEN "user" ELSE Closed]

Held ==
  /\ pc \in Labels
  /\ std \subseteq {0, 1, 2}
  /\ Locals
  /\ std \cap {rd, wr, stream} = {}
  /\ fds = TableWith(std, rd, wr, stream)

LEMMA HeldInit == Init => Held
<1> SUFFICES ASSUME Init PROVE Held
  OBVIOUS
<1>1. std \subseteq {0, 1, 2}
  BY InheritedAssumption DEF Init
<1>2. fds = TableWith(std, rd, wr, stream)
  BY DEF Init, TableWith, StartFiles, NoFd, Fds
<1> QED
  BY <1>1, <1>2 DEF Init, Held, Labels, Locals, MaybeFd, NoFd

LEMMA OthersLeaveProgram ==
  Child \/ Command \/ HolderExits \/ Finished \/ UNCHANGED vars => UNCHANGED <<world, parent>>
  BY DEF Child, ChildClose, ChildDup2, ChildOpenNull, ChildOpenAt, ChildDoes, ChildGivesUp, Exec,
     ExecFails, Command, CommandWrites, WriteFails, CommandExits, HolderExits, Finished, vars

LEMMA HeldNext == Held /\ [Next]_vars => Held'
<1> SUFFICES ASSUME Held, [Next]_vars PROVE Held'
  OBVIOUS
<1>0. NoFd \notin Fds /\ NoFd \notin {0, 1, 2} /\ {0, 1, 2} \subseteq Fds /\ Fds \subseteq Int
  BY DEF NoFd, Fds
<1>1. CASE UNCHANGED <<world, parent>>
  BY <1>1 DEF Held, Locals, world, parent
<1>2. CASE MakePipe
  <2>1. CASE fds' = fds /\ rd' = rd /\ wr' = wr /\ pc' = "cleanup"
    BY <1>2, <2>1 DEF MakePipe, Held, Labels, Locals, world
  <2>2. ASSUME fds' = [fds EXCEPT ![LowestFree(fds)] = "R",
                          ![LowestFree([fds EXCEPT ![LowestFree(fds)] = "R"])] = "W"],
               rd' = LowestFree(fds), wr' = LowestFree([fds EXCEPT ![LowestFree(fds)] = "R"]),
               pc' = "fork"
        PROVE  Held'
    <3> DEFINE r == LowestFree(fds)
               t == [fds EXCEPT ![r] = "R"]
               w == LowestFree(t)
    <3>1. /\ fds = TableWith(std, NoFd, NoFd, NoFd) /\ DOMAIN fds = Fds
          /\ \A f \in Fds : fds[f] = IF f \in std THEN "user" ELSE Closed
      BY <1>0, <1>2 DEF MakePipe, Held, Locals, TableWith
    <3>2. fds[3] = Closed /\ fds[4] = Closed /\ 3 \in Fds /\ 4 \in Fds
      BY <3>1 DEF Fds, Held
    <3>3. r \in Fds /\ fds[r] = Closed /\ \A f \in Fds : fds[f] = Closed => r <= f
      <4> HIDE DEF r
      <4>1. \E f \in Fds : fds[f] = Closed
        BY <3>2
      <4> QED
        BY <4>1, LowestFreeIs DEF r
    <3> HIDE DEF r
    <3>4. t[r] = "R" /\ \A f \in Fds \ {r} : t[f] = fds[f]
      BY <3>1, <3>3
    <3> HIDE DEF t
    <3>5. \E f \in Fds : t[f] = Closed
      BY <3>2, <3>4
    <3>6. w \in Fds /\ t[w] = Closed
      BY <3>5, LowestFreeIs
    <3> HIDE DEF w
    <3>7. w # r /\ fds[w] = Closed /\ r < w
      <4>1. w # r /\ fds[w] = Closed
        BY <3>4, <3>6 DEF Closed
      <4>2. r <= w /\ r \in Int /\ w \in Int
        BY <1>0, <3>3, <3>6, <4>1
      <4> QED
        BY <4>1, <4>2
    <3>8. r \notin std /\ w \notin std
      BY <3>1, <3>3, <3>6, <3>7 DEF Closed
    <3>9. fds' = [fds EXCEPT ![r] = "R", ![w] = "W"] /\ rd' = r /\ wr' = w
      BY <2>2 DEF r, t, w
    <3>10. UNCHANGED <<std, stream>> /\ stream = NoFd
      BY <1>2 DEF MakePipe, world, Held, Locals
    <3>11. fds' = TableWith(std, r, w, NoFd)
      BY <1>0, <3>1, <3>3, <3>6, <3>7, <3>9 DEF TableWith
    <3>12. rd' = r /\ wr' = w /\ stream' = NoFd /\ pc' = "fork" /\ std' = std
      BY <2>2, <3>9, <3>10
    <3>13. Locals'
      BY <3>3, <3>6, <3>7, <3>12 DEF Locals, MaybeFd
    <3>14. std' \cap {rd', wr', stream'} = {} /\ fds' = TableWith(std', rd', wr', stream')
      BY <1>0, <3>8, <3>11, <3>12 DEF Held
    <3> QED
      BY <3>12, <3>13, <3>14 DEF Held, Labels
  <2> QED
    BY <1>2, <2>1, <2>2 DEF MakePipe, Fails
<1>3. CASE Fork \/ Spawned \/ SpawnFails \/ Fgets \/ FgetsEnd \/ Wait
  <2>1. /\ UNCHANGED <<std, fds, rd, wr, stream>>
        /\ \/ pc = "fork" /\ pc' \in {"closeW", "spawn", "cleanup"}
           \/ pc = "spawn" /\ pc' \in {"closeW", "cleanup"}
           \/ pc = "fgets" /\ pc' \in {"fgets", "fclose"}
           \/ pc = "wait" /\ pc' = "cleanup"
    <3>1. CASE Fork \/ Spawned
      BY <3>1 DEF Fork, Spawned, Fails, world
    <3>2. CASE SpawnFails
      BY <3>2 DEF SpawnFails, Fails, world
    <3>3. CASE Fgets \/ FgetsEnd \/ Wait
      BY <3>3 DEF Fgets, FgetsEnd, Wait, world
    <3> QED
      BY <1>3, <3>1, <3>2, <3>3
  <2>2. Locals
    BY DEF Held
  <2>3. Locals'
    <3>1. CASE pc = "fork" \/ pc = "spawn"
      <4>0. rd \in Fds /\ wr \in Fds /\ rd < wr
        BY <2>2, <3>1 DEF Locals
      <4>1. rd # wr
        BY <1>0, <4>0
      <4> QED
        BY <2>1, <2>2, <3>1, <4>1 DEF Locals
    <3>2. CASE pc = "fgets" \/ pc = "wait"
      BY <2>1, <2>2, <3>2 DEF Locals
    <3> QED
      BY <2>1, <3>1, <3>2
  <2> QED
    BY <2>1, <2>3 DEF Held, Labels
<1>4. CASE CloseWriteEnd
  <2>1. /\ rd \in Fds /\ wr \in Fds /\ rd # wr /\ stream = NoFd /\ wr \notin std
        /\ fds = TableWith(std, rd, wr, NoFd) /\ pc' = "fdopen"
        /\ fds' = [fds EXCEPT ![wr] = Closed] /\ wr' = NoFd /\ rd' = rd /\ stream' = stream
        /\ std' = std
    <3>1. rd \in Fds /\ wr \in Fds /\ rd < wr /\ stream = NoFd
      BY <1>4 DEF CloseWriteEnd, Held, Locals
    <3>2. rd # wr /\ wr # NoFd
      BY <1>0, <3>1
    <3> QED
      BY <1>4, <3>1, <3>2 DEF CloseWriteEnd, Held, CloseFd, world
  <2>2. fds' = TableWith(std, rd, NoFd, NoFd)
    BY <1>0, <2>1 DEF TableWith
  <2> QED
    BY <1>0, <2>1, <2>2 DEF Held, Labels, Locals, MaybeFd
<1>5. CASE Fdopen
  <2>1. /\ rd \in Fds /\ wr = NoFd /\ stream = NoFd /\ rd \notin std
        /\ fds = TableWith(std, rd, NoFd, NoFd)
        /\ rd' = NoFd /\ wr' = wr /\ std' = std
        /\ \/ stream' = rd /\ pc' = "fgets" /\ fds' = fds
           \/ stream' = stream /\ pc' = "wait" /\ fds' = [fds EXCEPT ![rd] = Closed]
    BY <1>0, <1>5 DEF Fdopen, Fails, Held, Locals, CloseFd, world
  <2>2. fds = TableWith(std, NoFd, NoFd, rd)
    BY <2>1 DEF TableWith
  <2>3. [fds EXCEPT ![rd] = Closed] = TableWith(std, NoFd, NoFd, NoFd)
    BY <1>0, <2>1 DEF TableWith
  <2> QED
    BY <1>0, <2>1, <2>2, <2>3 DEF Held, Labels, Locals, MaybeFd
<1>6. CASE Fclose
  <2>1. /\ rd = NoFd /\ wr = NoFd /\ stream \in Fds /\ stream \notin std
        /\ fds = TableWith(std, NoFd, NoFd, stream) /\ pc' = "wait"
        /\ fds' = [fds EXCEPT ![stream] = Closed] /\ stream' = NoFd /\ rd' = rd /\ wr' = wr
        /\ std' = std
    BY <1>0, <1>6 DEF Fclose, Held, Locals, CloseFd, world
  <2>2. fds' = TableWith(std, NoFd, NoFd, NoFd)
    BY <1>0, <2>1 DEF TableWith
  <2> QED
    BY <1>0, <2>1, <2>2 DEF Held, Labels, Locals, MaybeFd
<1>7. CASE Cleanup
  <2>1. /\ rd \in MaybeFd /\ wr \in MaybeFd /\ stream = NoFd /\ rd \notin std /\ wr \notin std
        /\ fds = TableWith(std, rd, wr, NoFd) /\ pc' = "done"
        /\ fds' = CloseFd(CloseFd(fds, rd), wr) /\ rd' = NoFd /\ wr' = NoFd
        /\ rd # NoFd => rd # wr
        /\ UNCHANGED <<std, stream>>
    BY <1>7 DEF Cleanup, Held, Locals, world
  <2>2. CloseFd(fds, rd) = TableWith(std, NoFd, wr, NoFd)
    BY <1>0, <2>1 DEF TableWith, CloseFd, MaybeFd
  <2>3. CloseFd(TableWith(std, NoFd, wr, NoFd), wr) = TableWith(std, NoFd, NoFd, NoFd)
    BY <1>0, <2>1 DEF TableWith, CloseFd, MaybeFd
  <2> QED
    BY <1>0, <2>1, <2>2, <2>3 DEF Held, Labels, Locals, MaybeFd
<1> QED
  BY <1>1, <1>2, <1>3, <1>4, <1>5, <1>6, <1>7, OthersLeaveProgram DEF Next, Program
-----------------------------------------------------------------------------
(* The child's life, seen from the program                                 *)

Lives ==
  /\ pc \in {"pipe", "fork"} => life = "none"
  /\ pc = "spawn" => os = "macos" /\ life # "none"
  /\ pc \in {"closeW", "fdopen", "fgets", "fclose", "wait"} => life # "none"
  /\ os = "macos" /\ pc # "spawn" => life # "setup"
  /\ pc \in {"cleanup", "done"} => life \in {"none", "gone"}
  /\ sigchld # "ignored" /\ life = "gone" => pc \in {"cleanup", "done"}

LEMMA LivesInit == Init => Lives
  BY DEF Init, Lives

LEMMA LivesNext == Lives /\ Typed /\ [Next]_vars => Lives'
<1> SUFFICES ASSUME Lives, Typed, [Next]_vars PROVE Lives'
  OBVIOUS
<1>1. CASE UNCHANGED <<world, parent>> /\ UNCHANGED life
  BY <1>1 DEF Lives, world, parent
<1>2. ASSUME UNCHANGED <<world, parent>>, life \in {"setup", "running"},
             life' \in {"running", "zombie", "gone"}, life' = "gone" => sigchld = "ignored"
      PROVE  Lives'
  BY <1>2 DEF Lives, world, parent
<1>3. CASE Child \/ Command \/ HolderExits \/ Finished \/ UNCHANGED vars
  <2>1. UNCHANGED <<world, parent>>
    BY <1>3, OthersLeaveProgram
  <2>2. \/ UNCHANGED life
        \/ /\ life \in {"setup", "running"} /\ life' \in {"running", "zombie", "gone"}
           /\ life' = "gone" => sigchld = "ignored"
    <3>1. CASE Child
      BY <3>1 DEF Child, ChildClose, ChildDup2, ChildOpenNull, ChildOpenAt, ChildDoes,
         ChildGivesUp, Exec, ExecFails, ChildEnds
    <3>2. CASE Command
      BY <3>2 DEF Command, CommandWrites, WriteFails, CommandExits, ChildEnds, Writing
    <3> QED
      BY <1>3, <3>1, <3>2 DEF HolderExits, Finished, vars, kid
  <2> QED
    BY <1>1, <1>2, <2>1, <2>2
<1>4. CASE MakePipe \/ Fork \/ Spawned \/ SpawnFails
  BY <1>4 DEF MakePipe, Fork, Spawned, SpawnFails, Fails, Lives, Typed, world, kid
<1>5. CASE CloseWriteEnd \/ Fdopen \/ Fgets \/ FgetsEnd \/ Fclose \/ Wait \/ Cleanup
  BY <1>5 DEF CloseWriteEnd, Fdopen, Fgets, FgetsEnd, Fclose, Wait, Cleanup, Fails, Lives,
     world, kid
<1> QED
  BY <1>3, <1>4, <1>5 DEF Next, Program

LEMMA TypedNext == Typed /\ Held /\ Lives /\ [Next]_vars => Typed'
<1> SUFFICES ASSUME Typed, Held, Lives, [Next]_vars PROVE Typed'
  OBVIOUS
<1>1. ASSUME UNCHANGED <<os, command, std, kid>>
      PROVE  Typed'
  BY <1>1 DEF Typed, kid, Steps
<1>2. CASE ChildClose \/ ChildDup2 \/ ChildOpenNull \/ ChildOpenAt
  BY <1>2, TypedSetup
<1>3. CASE ChildGivesUp \/ ExecFails
  BY <1>3, TypedEnds DEF ChildGivesUp, ExecFails, ChildEnds, world
<1>4. CASE Exec
  <2>1. child.step = IF os = "linux" THEN 8 ELSE 6
    <3>1. child.step \in Int
      BY DEF Typed, Steps
    <3>2. Len(Setup) = IF os = "linux" THEN 7 ELSE 5
      BY SetupLength DEF Typed
    <3> QED
      BY <1>4, <3>1, <3>2 DEF Exec, Typed, Steps
  <2> QED
    BY <1>4, <2>1 DEF Exec, world, Typed, Steps
<1>5. CASE CommandWrites
  BY <1>5 DEF CommandWrites, world, Typed, Steps
<1>6. CASE WriteFails
  <2>1. CASE ChildEnds("signalled") \/ ChildEnds("failed")
    BY <1>6, <2>1, TypedEnds DEF WriteFails, ChildEnds, world
  <2>2. CASE writes' = writes + 1 /\ UNCHANGED <<life, child, status>>
    BY <1>6, <2>2 DEF WriteFails, world, Typed, Steps
  <2> QED
    BY <1>6, <2>1, <2>2 DEF WriteFails
<1>7. CASE CommandExits
  <2>1. command.status \in {"ok", "failed"}
    BY <1>7, CommandAssumption DEF CommandExits, Typed
  <2> QED
    BY <1>7, <2>1, TypedEnds DEF CommandExits, ChildEnds, world
<1>8. ASSUME Fork, life' = "setup", child' = [NoChild EXCEPT !.fds = fds, !.rd = rd, !.wr = wr]
      PROVE  Typed'
  <2>1. rd \in Fds /\ wr \in Fds /\ rd # wr
    <3>1. rd \in Fds /\ wr \in Fds /\ rd < wr
      BY <1>8 DEF Fork, Held, Locals
    <3> QED
      BY <3>1 DEF Fds
  <2>2. fds \in [Fds -> Contents]
    BY DEF Held, TableWith, Contents
  <2>3. child' = [fds |-> fds, rd |-> rd, wr |-> wr, null |-> NoFd, step |-> 1]
    BY <1>8 DEF NoChild
  <2>4. child' \in ChildRecord
    BY <2>1, <2>2, <2>3 DEF ChildRecord, MaybeFd
  <2>5. 1 \in Steps /\ Steps' = Steps
    BY <1>8 DEF Fork, Steps, world
  <2>6. UNCHANGED <<os, command, std, writes, status>> /\ life = "none" /\ status = "none"
    BY <1>8 DEF Fork, world, Lives, Typed
  <2>7. child'.rd = rd /\ child'.wr = wr /\ child'.step = 1
    BY <2>3
  <2> QED
    BY <1>8, <2>1, <2>4, <2>5, <2>6, <2>7 DEF Typed
<1>9. CASE SpawnFails
  BY <1>9, TypedEnds DEF SpawnFails, world
<1>10. CASE Wait
  BY <1>10 DEF Wait, world, Typed, Steps
<1>11. CASE MakePipe \/ Spawned \/ CloseWriteEnd \/ Fdopen \/ Fgets \/ FgetsEnd \/ Fclose
            \/ Cleanup \/ HolderExits \/ Finished \/ UNCHANGED vars
            \/ (Fork /\ UNCHANGED <<life, child>>)
  BY <1>1, <1>11 DEF MakePipe, Spawned, CloseWriteEnd, Fdopen, Fgets, FgetsEnd, Fclose,
     Cleanup, HolderExits, Finished, Fork, vars, kid, world
<1>12. CASE Fork
  BY <1>8, <1>11, <1>12 DEF Fork
<1> QED
  BY <1>2, <1>3, <1>4, <1>5, <1>6, <1>7, <1>9, <1>10, <1>11, <1>12
     DEF Next, Program, Child, Command
-----------------------------------------------------------------------------
(* The pipe and the buffer                                                 *)

Sizes ==
  /\ pipe \in Texts /\ Len(pipe) <= PipeCap
  /\ out \in Seq({"text"}) /\ Len(out) < BufSize
  /\ pc \notin {"fclose", "wait", "cleanup", "done"} => Len(out) + 2 <= BufSize
  /\ result \in {-1, 0, 1}

LEMMA SizesInit == Init => Sizes
  BY SizeAssumption DEF Init, Sizes, Texts

LEMMA ChunkType ==
  ASSUME Typed, life = "running", writes < Len(command.out)
  PROVE  Chunk \in Texts
<1>1. command.out \in Seq(Texts)
  BY CommandAssumption DEF Typed
<1>2. writes + 1 \in 1 .. Len(command.out)
  BY <1>1 DEF Typed
<1> QED
  BY <1>1, <1>2 DEF Chunk

LEMMA SizesNext == Sizes /\ Typed /\ [Next]_vars => Sizes'
<1> SUFFICES ASSUME Sizes, Typed, [Next]_vars PROVE Sizes'
  OBVIOUS
<1>1. CASE UNCHANGED <<pipe, out, result>> /\ (pc' = pc \/ pc \notin {"fclose", "wait", "cleanup", "done"})
  BY <1>1, SizeAssumption DEF Sizes, Texts
<1>2. CASE CommandWrites
  <2>1. UNCHANGED <<pc, out, result>>
    BY <1>2 DEF CommandWrites, parent
  <2>2. pipe' \in Texts /\ Len(pipe') <= PipeCap
    <3>1. CASE UNCHANGED pipe
      BY <3>1 DEF Sizes
    <3>2. CASE pipe' = pipe \o Chunk /\ Len(pipe) + Len(Chunk) <= PipeCap
      <4>1. Chunk \in Texts
        BY <1>2, ChunkType DEF CommandWrites, Writing
      <4> HIDE DEF Chunk
      <4> QED
        BY <3>2, <4>1 DEF Sizes, Texts
    <3> QED
      BY <1>2, <3>1, <3>2 DEF CommandWrites
  <2> QED
    BY <2>1, <2>2 DEF Sizes
<1>3. CASE Child \/ WriteFails \/ CommandExits \/ HolderExits \/ Finished \/ UNCHANGED vars
  <2>1. UNCHANGED <<pc, out, result>>
    BY <1>3, OthersLeaveProgram DEF Command, parent
  <2>2. UNCHANGED pipe
    BY <1>3 DEF Child, ChildClose, ChildDup2, ChildOpenNull, ChildOpenAt, ChildDoes, ChildGivesUp,
       Exec, ExecFails, WriteFails, CommandExits, HolderExits, Finished, vars
  <2> QED
    BY <1>1, <2>1, <2>2
<1>4. CASE MakePipe \/ Fork \/ Spawned \/ SpawnFails \/ CloseWriteEnd \/ Fdopen \/ FgetsEnd
  BY <1>1, <1>4 DEF MakePipe, Fork, Spawned, SpawnFails, CloseWriteEnd, Fdopen, FgetsEnd
<1>5. CASE Fgets
  <2>1. /\ pipe \in Texts /\ pipe # <<>> /\ pipe' = Tail(pipe) /\ pc = "fgets" /\ result' = result
        /\ out' = IF Head(pipe) = "nl" THEN out ELSE Append(out, "text")
        /\ pc' = IF Head(pipe) = "nl" \/ Len(out) + 2 = BufSize THEN "fclose" ELSE pc
        /\ out \in Seq({"text"}) /\ Len(out) \in Nat
    BY <1>5 DEF Fgets, Sizes
  <2>2. pipe' \in Texts /\ Len(pipe') <= PipeCap
    <3>1. Tail(pipe) \in Texts /\ Len(Tail(pipe)) = Len(pipe) - 1 /\ Len(pipe) \in Nat
      BY <2>1 DEF Texts
    <3> QED
      BY <2>1, <3>1, SizeAssumption DEF Sizes
  <2>3. out' \in Seq({"text"}) /\ Len(out') \in {Len(out), Len(out) + 1}
    BY <2>1
  <2>4. Len(out) + 2 <= BufSize
    BY <2>1 DEF Sizes
  <2>5. Len(out') < BufSize
    BY <2>1, <2>3, <2>4, SizeAssumption
  <2>6. pc' # "fclose" => Len(out') + 2 <= BufSize
    BY <2>1, <2>3, <2>4, SizeAssumption
  <2>7. pc' \in {"fgets", "fclose"}
    BY <2>1
  <2> QED
    BY <2>1, <2>2, <2>3, <2>5, <2>6, <2>7 DEF Sizes
<1>6. CASE Fclose \/ Wait \/ Cleanup
  BY <1>6, SizeAssumption DEF Fclose, Wait, Cleanup, Sizes, Texts
<1> QED
  BY <1>2, <1>3, <1>4, <1>5, <1>6 DEF Next, Program, Command

IInv == Typed /\ Held /\ Lives /\ Sizes

LEMMA InvInit == Init => IInv
  BY TypedInit, HeldInit, LivesInit, SizesInit DEF IInv

LEMMA InvNext == IInv /\ [Next]_vars => IInv'
  BY TypedNext, HeldNext, LivesNext, SizesNext DEF IInv

LEMMA InvAlways == Spec => []IInv
  BY InvInit, InvNext, PTL DEF Spec

\* capture_line never uses a descriptor number that has gone to something
\* else, whichever of 0, 1 and 2 it was started with (linux-common/capture.c,
\* macos/capture.c), and what it reads fits the buffer.
THEOREM TypeCorrect == Spec => []TypeOK
<1>1. IInv => TypeOK
  <2> SUFFICES ASSUME IInv PROVE TypeOK
    OBVIOUS
  <2>1. fds \in [Fds -> {Closed, "user", "R", "W"}]
    BY DEF IInv, Held, TableWith
  <2>2. child.fds \in [Fds -> Contents] /\ {child.rd, child.wr, child.null} \subseteq MaybeFd
    BY DEF IInv, Typed, ChildRecord
  <2>3. {rd, wr, stream} \subseteq MaybeFd
    BY DEF IInv, Held, Locals
  <2>4. child.step \in 1 .. Len(Setup) + 1
    <3>1. Len(Setup) = IF os = "linux" THEN 7 ELSE 5
      BY SetupLength DEF IInv, Typed
    <3> QED
      BY <3>1 DEF IInv, Typed, Steps
  <2>5. NoFd \notin Fds
    BY DEF NoFd, Fds
  <2>6. /\ rd # NoFd => fds[rd] = "R"
        /\ stream # NoFd => fds[stream] = "R"
        /\ rd = NoFd \/ rd # stream
    BY <2>3, <2>5 DEF IInv, Held, TableWith, Locals, Labels, MaybeFd
  <2>7. wr # NoFd => fds[wr] = "W"
    <3>1. ASSUME wr # NoFd PROVE wr \in Fds /\ wr # rd /\ wr # stream
      <4>1. wr \in Fds /\ pc \in {"fork", "spawn", "closeW", "cleanup"} /\ stream = NoFd
        BY <2>3, <3>1 DEF IInv, Held, Locals, Labels, MaybeFd
      <4>2. CASE pc = "cleanup"
        BY <2>5, <4>1, <4>2 DEF IInv, Held, Locals
      <4>3. CASE pc # "cleanup"
        <5>1. rd < wr /\ rd \in Fds
          BY <4>1, <4>3 DEF IInv, Held, Locals
        <5> QED
          BY <2>5, <4>1, <5>1 DEF Fds
      <4> QED
        BY <4>2, <4>3
    <3> QED
      BY <3>1 DEF IInv, Held, TableWith
  <2> QED
    BY <2>1, <2>2, <2>3, <2>4, <2>6, <2>7 DEF IInv, Typed, Sizes, TypeOK, Contents, MaybeFd
<1> QED
  BY <1>1, InvAlways, PTL

\* Whichever system call fails, a call that has returned has closed what it
\* opened and waited for its child.
THEOREM EverythingIsReleased == Spec => []ReleasesEverything
<1>1. IInv => ReleasesEverything
  <2> SUFFICES ASSUME IInv, pc = "done" PROVE fds = StartFiles /\ life \in {"none", "gone"}
    BY DEF ReleasesEverything
  <2>1. rd = NoFd /\ wr = NoFd /\ stream = NoFd /\ NoFd \notin Fds
    BY DEF IInv, Held, Locals, NoFd, Fds
  <2>2. fds = StartFiles
    BY <2>1 DEF IInv, Held, TableWith, StartFiles
  <2> QED
    BY <2>2 DEF IInv, Lives
<1> QED
  BY <1>1, InvAlways, PTL
-----------------------------------------------------------------------------
(* What the command is started with                                        *)

\* The set-up, operation by operation: what becomes of the child's table.
LinuxStep(t) ==
  \/ child.step = 1 /\ t = [child.fds EXCEPT ![child.rd] = Closed]
  \/ child.step \in {3, 4, 5} /\ child.null = NoFd /\ t = child.fds
  \/ child.step = 3 /\ child.null \in Fds /\ t = [child.fds EXCEPT ![0] = child.fds[child.null]]
  \/ child.step = 4 /\ child.null \in Fds /\ t = [child.fds EXCEPT ![2] = child.fds[child.null]]
  \/ child.step = 5 /\ child.null \in Fds /\ t = [child.fds EXCEPT ![child.null] = Closed]
  \/ child.step = 6 /\ t = [child.fds EXCEPT ![1] = child.fds[child.wr]]
  \/ child.step = 7 /\ t = [child.fds EXCEPT ![child.wr] = Closed]

MacStep(t) ==
  \/ child.step = 1 /\ t = [child.fds EXCEPT ![0] = "null"]
  \/ child.step = 2 /\ t = [child.fds EXCEPT ![2] = "null"]
  \/ child.step = 3 /\ t = [child.fds EXCEPT ![child.rd] = Closed]
  \/ child.step = 4 /\ t = [child.fds EXCEPT ![1] = child.fds[child.wr]]
  \/ child.step = 5 /\ t = [child.fds EXCEPT ![child.wr] = Closed]

LEMMA SetupMoves ==
  ASSUME Typed, ChildClose \/ ChildDup2 \/ ChildOpenAt
  PROVE  /\ life = "setup" /\ child.fds \in [Fds -> Contents]
         /\ child.rd \in Fds /\ child.wr \in Fds /\ child.rd # child.wr /\ child.null \in MaybeFd
         /\ child'.rd = child.rd /\ child'.wr = child.wr /\ child'.null = child.null
         /\ child'.step = child.step + 1 /\ child.step \in 1 .. 7
         /\ os = "linux" => LinuxStep(child'.fds)
         /\ os = "macos" => MacStep(child'.fds)
         /\ UNCHANGED <<world, parent, pipe, holder, life, writes, status, fault>>
<1>1. /\ life = "setup" /\ UNCHANGED <<world, parent, pipe, holder, life, writes, status, fault>>
      /\ child \in ChildRecord
      /\ child.fds \in [Fds -> Contents]
      /\ child.rd \in Fds /\ child.wr \in Fds /\ child.rd # child.wr /\ child.null \in MaybeFd
  BY DEF ChildClose, ChildDup2, ChildOpenAt, ChildDoes, Typed, ChildRecord
<1>2. child.rd # NoFd /\ child.wr # NoFd /\ (child.null # NoFd => child.null \in Fds)
  BY <1>1 DEF NoFd, Fds, MaybeFd
<1>3. CASE ChildClose
  <2>1. PICK f \in MaybeFd :
           /\ child' = [child EXCEPT !.fds = CloseFd(child.fds, f), !.step = child.step + 1]
           /\ os = "linux" => \/ child.step = 1 /\ f = child.rd
                              \/ child.step = 5 /\ f = child.null
                              \/ child.step = 7 /\ f = child.wr
           /\ os = "macos" => \/ child.step = 3 /\ f = child.rd
                              \/ child.step = 5 /\ f = child.wr
    BY <1>3, CloseMoves
  <2>2. /\ child'.fds = CloseFd(child.fds, f) /\ child'.step = child.step + 1
        /\ child'.rd = child.rd /\ child'.wr = child.wr /\ child'.null = child.null
    BY <1>1, <2>1 DEF ChildRecord
  <2>3. (os = "linux" => LinuxStep(child'.fds)) /\ (os = "macos" => MacStep(child'.fds))
    BY <1>2, <2>1, <2>2 DEF CloseFd, LinuxStep, MacStep
  <2> QED
    BY <1>1, <2>1, <2>2, <2>3 DEF Typed
<1>4. CASE ChildDup2
  <2>1. PICK src \in MaybeFd, to \in {0, 1, 2} :
           /\ child' = [child EXCEPT
                !.fds = IF src = NoFd THEN child.fds
                        ELSE [child.fds EXCEPT ![to] = child.fds[src]],
                !.step = child.step + 1]
           /\ os = "linux" => \/ child.step = 3 /\ src = child.null /\ to = 0
                              \/ child.step = 4 /\ src = child.null /\ to = 2
                              \/ child.step = 6 /\ src = child.wr /\ to = 1
           /\ os = "macos" => child.step = 4 /\ src = child.wr /\ to = 1
    BY <1>4, Dup2Moves
  <2> DEFINE t == IF src = NoFd THEN child.fds ELSE [child.fds EXCEPT ![to] = child.fds[src]]
  <2>2. child' = [child EXCEPT !.fds = t, !.step = child.step + 1]
    BY <2>1
  <2>3. /\ child'.fds = t /\ child'.step = child.step + 1
        /\ child'.rd = child.rd /\ child'.wr = child.wr /\ child'.null = child.null
    <3> HIDE DEF t
    <3> QED
      BY <1>1, <2>2 DEF ChildRecord
  <2>4. (os = "linux" => LinuxStep(t)) /\ (os = "macos" => MacStep(t))
    BY <1>2, <2>1 DEF LinuxStep, MacStep
  <2> HIDE DEF t
  <2> QED
    BY <1>1, <2>1, <2>3, <2>4 DEF Typed
<1>5. CASE ChildOpenAt
  <2>1. PICK f \in {0, 2} :
           /\ os = "macos"
           /\ \/ child.step = 1 /\ f = 0
              \/ child.step = 2 /\ f = 2
           /\ child' = [child EXCEPT !.fds = [child.fds EXCEPT ![f] = "null"],
                                     !.step = child.step + 1]
    BY <1>5, OpenAtMoves
  <2> DEFINE t == [child.fds EXCEPT ![f] = "null"]
  <2>2. child' = [child EXCEPT !.fds = t, !.step = child.step + 1]
    BY <2>1
  <2>3. /\ child'.fds = t /\ child'.step = child.step + 1
        /\ child'.rd = child.rd /\ child'.wr = child.wr /\ child'.null = child.null
    <3> HIDE DEF t
    <3> QED
      BY <1>1, <2>2 DEF ChildRecord
  <2>4. MacStep(t)
    BY <2>1 DEF MacStep
  <2>5. UNCHANGED fault
    BY <1>5 DEF ChildOpenAt
  <2> HIDE DEF t
  <2> QED
    BY <1>1, <2>1, <2>3, <2>4, <2>5
<1> QED
  BY <1>3, <1>4, <1>5

\* A step leaves the child alone, is one of its set-up, or begins or ends it.
SetupStep ==
  /\ life = "setup" /\ life' = "setup"
  /\ child.fds \in [Fds -> Contents]
  /\ child.rd \in Fds /\ child.wr \in Fds /\ child.rd # child.wr /\ child.null \in MaybeFd
  /\ child'.rd = child.rd /\ child'.wr = child.wr /\ child'.null = child.null
  /\ child'.step = child.step + 1 /\ child.step \in 1 .. 7
  /\ os = "linux" => LinuxStep(child'.fds)
  /\ os = "macos" => MacStep(child'.fds)
  /\ UNCHANGED fault

OpenStep ==
  /\ life = "setup" /\ life' = "setup" /\ os = "linux"
  /\ child.fds \in [Fds -> Contents]
  /\ child.step = 2 /\ child'.step = 3
  /\ child'.rd = child.rd /\ child'.wr = child.wr
  /\ \/ \E f \in Fds : /\ child.fds[f] = Closed
                       /\ child'.fds = [child.fds EXCEPT ![f] = "null"]
                       /\ child'.null = f
                       /\ UNCHANGED fault
     \/ /\ child'.fds = child.fds /\ child'.null = child.null
        /\ fault' = fault \cup {"null"}

ForkStep ==
  /\ pc = "fork" /\ life' = "setup"
  /\ rd \in Fds /\ wr \in Fds /\ rd # wr
  /\ child'.fds = TableWith(std, rd, wr, NoFd)
  /\ child'.rd = rd /\ child'.wr = wr /\ child'.null = NoFd /\ child'.step = 1
  /\ UNCHANGED <<rd, wr, fault>>

ExecStep ==
  /\ life = "setup" /\ life' = "running" /\ UNCHANGED <<child, fault>>
  /\ child.step = IF os = "linux" THEN 8 ELSE 6

LEMMA ChildSteps ==
  ASSUME IInv, [Next]_vars
  PROVE  /\ os \in {"linux", "macos"} /\ UNCHANGED <<os, command, std, sigpipe, sigchld>>
         /\ fault \subseteq fault'
         /\ \/ UNCHANGED <<life, child>>
            \/ SetupStep
            \/ OpenStep
            \/ ForkStep
            \/ ExecStep
            \/ life' \notin {"setup", "running"}
<1>0. Typed /\ Held
  BY DEF IInv
<1>1. CASE Child
  <2>1. CASE ChildClose \/ ChildDup2 \/ ChildOpenAt
    BY <1>0, <2>1, SetupMoves DEF SetupStep, world, Typed
  <2>2. CASE ChildOpenNull
    <3>1. life = "setup" /\ UNCHANGED <<world, life>> /\ child.fds \in [Fds -> Contents]
      BY <1>0, <2>2 DEF ChildOpenNull, ChildDoes, Typed, ChildRecord
    <3>2. OpenStep
      BY <1>0, <2>2, <3>1, OpenMoves DEF OpenStep
    <3> QED
      BY <1>0, <3>1, <3>2 DEF OpenStep, world, Typed
  <2>3. CASE ChildGivesUp \/ ExecFails
    BY <1>0, <2>3 DEF ChildGivesUp, ExecFails, ChildEnds, world, Typed
  <2>4. CASE Exec
    <3>1. child.step \in Steps /\ child.step > Len(Setup)
      BY <1>0, <2>4 DEF Exec, Typed
    <3>2. Len(Setup) = IF os = "linux" THEN 7 ELSE 5
      BY <1>0, SetupLength DEF Typed
    <3>3. child.step = IF os = "linux" THEN 8 ELSE 6
      BY <3>1, <3>2 DEF Steps
    <3> QED
      BY <1>0, <2>4, <3>3 DEF Exec, ExecStep, world, Typed
  <2> QED
    BY <1>1, <2>1, <2>2, <2>3, <2>4 DEF Child
<1>2. CASE Command \/ HolderExits \/ Finished \/ UNCHANGED vars
  BY <1>0, <1>2 DEF Command, CommandWrites, WriteFails, CommandExits, HolderExits, Finished,
     ChildEnds, vars, world, kid, Typed
<1>3. CASE Fork
  <2>1. CASE UNCHANGED <<life, child>>
    BY <1>0, <1>3, <2>1 DEF Fork, Fails, world, Typed
  <2>2. ASSUME life' = "setup", child' = [NoChild EXCEPT !.fds = fds, !.rd = rd, !.wr = wr],
               UNCHANGED fault
        PROVE  ForkStep
    <3>1. rd \in Fds /\ wr \in Fds /\ rd < wr /\ stream = NoFd
      BY <1>0, <1>3 DEF Fork, Held, Locals
    <3>2. rd # wr
      BY <3>1 DEF Fds
    <3>3. child' = [fds |-> fds, rd |-> rd, wr |-> wr, null |-> NoFd, step |-> 1]
      BY <2>2 DEF NoChild
    <3>4. fds = TableWith(std, rd, wr, NoFd)
      BY <1>0, <3>1 DEF Held
    <3>5. UNCHANGED <<rd, wr>>
      BY <1>3 DEF Fork
    <3>6. /\ child'.fds = fds /\ child'.rd = rd /\ child'.wr = wr
          /\ child'.null = NoFd /\ child'.step = 1
      BY <3>3
    <3> QED
      <4>1. pc = "fork"
        BY <1>3 DEF Fork
      <4>2. child'.fds = TableWith(std, rd, wr, NoFd)
        BY <3>4, <3>6
      <4> QED
        BY <2>2, <3>1, <3>2, <3>5, <3>6, <4>1, <4>2 DEF ForkStep
  <2> QED
    BY <1>0, <1>3, <2>1, <2>2 DEF Fork, world, Typed
<1>4. CASE MakePipe \/ Spawned \/ SpawnFails \/ CloseWriteEnd \/ Fdopen
  BY <1>0, <1>4 DEF MakePipe, Spawned, SpawnFails, CloseWriteEnd, Fdopen, Fails, world, kid, Typed
<1>5. CASE Fgets \/ FgetsEnd \/ Fclose \/ Wait \/ Cleanup
  <2>1. CASE Wait
    BY <1>0, <2>1 DEF Wait, world, Typed
  <2>2. CASE ~Wait
    BY <1>0, <1>5, <2>2 DEF Fgets, FgetsEnd, Fclose, Cleanup, world, kid, Typed
  <2> QED
    BY <2>1, <2>2
<1> QED
  BY <1>1, <1>2, <1>3, <1>4, <1>5 DEF Next, Program

PerSystem(linux, macos) == IF os = "linux" THEN linux ELSE macos

\* The read end stays with the child until it is closed; the write end until it
\* is closed, its duplicate on descriptor 1 from then on.
Confined ==
  life \in {"setup", "running"} =>
    /\ \A f \in Fds : child.fds[f] = "R" =>
         f = child.rd /\ child.step <= PerSystem(1, 3)
    /\ \A f \in Fds : child.fds[f] = "W" =>
         \/ f = child.wr /\ child.step <= PerSystem(7, 5)
         \/ f = 1
    /\ child.step <= 2 => child.null = NoFd
    /\ life = "setup" /\ os = "linux" /\ child.step \in {3, 4, 5} /\ child.null # NoFd =>
         child.fds[child.null] = "null"

LEMMA ConfinedInit == Init => Confined
  BY DEF Init, Confined, PerSystem

LEMMA ConfinedNext == IInv /\ Confined /\ [Next]_vars => Confined'
<1> SUFFICES ASSUME IInv, Confined, [Next]_vars PROVE Confined'
  OBVIOUS
<1>0. /\ os \in {"linux", "macos"} /\ os' = os
      /\ \/ UNCHANGED <<life, child>>
         \/ SetupStep
         \/ OpenStep
         \/ ForkStep
         \/ ExecStep
         \/ life' \notin {"setup", "running"}
  BY ChildSteps
<1>1. CASE UNCHANGED <<life, child>> \/ life' \notin {"setup", "running"}
  BY <1>0, <1>1 DEF Confined, PerSystem
<1>2. CASE SetupStep /\ os = "linux"
  <2>1. CASE child.step = 1
    BY <1>0, <1>2, <2>1 DEF Confined, PerSystem, SetupStep, LinuxStep, Closed
  <2>2. CASE child.step \in {3, 4}
    BY <1>0, <1>2, <2>2 DEF Confined, PerSystem, SetupStep, LinuxStep, NoFd, Fds
  <2>3. CASE child.step = 5
    BY <1>0, <1>2, <2>3 DEF Confined, PerSystem, SetupStep, LinuxStep, Closed
  <2>4. CASE child.step \in {6, 7}
    BY <1>0, <1>2, <2>4 DEF Confined, PerSystem, SetupStep, LinuxStep, Closed
  <2> QED
    BY <1>2, <2>1, <2>2, <2>3, <2>4 DEF SetupStep, LinuxStep
<1>3. CASE SetupStep /\ os = "macos"
  BY <1>0, <1>3 DEF Confined, PerSystem, SetupStep, MacStep, Closed
<1>4. CASE OpenStep
  BY <1>0, <1>4 DEF Confined, PerSystem, OpenStep, NoFd, Fds
<1>5. CASE ForkStep
  BY <1>0, <1>5 DEF Confined, PerSystem, ForkStep, TableWith, NoFd, Fds, Closed
<1>6. CASE ExecStep
  BY <1>0, <1>6 DEF Confined, PerSystem, ExecStep
<1> QED
  BY <1>0, <1>1, <1>2, <1>3, <1>4, <1>5, <1>6

\* Once a standard descriptor has been replaced it is not the user's again.
Silenced ==
  life \in {"setup", "running"} /\ "null" \notin fault =>
    /\ os = "linux" /\ child.step >= 3 => child.null # NoFd
    /\ child.step >= PerSystem(4, 2) => child.fds[0] # "user"
    /\ child.step >= PerSystem(5, 3) => child.fds[2] # "user"

LEMMA SilencedInit == Init => Silenced
  BY DEF Init, Silenced, PerSystem

LEMMA SilencedNext == IInv /\ Confined /\ Silenced /\ [Next]_vars => Silenced'
<1> SUFFICES ASSUME IInv, Confined, Silenced, [Next]_vars PROVE Silenced'
  OBVIOUS
<1>0. /\ os \in {"linux", "macos"} /\ os' = os /\ fault \subseteq fault'
      /\ \/ UNCHANGED <<life, child>>
         \/ SetupStep
         \/ OpenStep
         \/ ForkStep
         \/ ExecStep
         \/ life' \notin {"setup", "running"}
  BY ChildSteps
<1>1. CASE UNCHANGED <<life, child>> \/ life' \notin {"setup", "running"}
  BY <1>0, <1>1 DEF Silenced, PerSystem
<1>2. CASE SetupStep /\ os = "linux"
  <2>0. 0 \in Fds /\ 1 \in Fds /\ 2 \in Fds /\ NoFd \notin Fds
    BY DEF Fds, NoFd
  <2>1. CASE child.step = 1
    BY <1>0, <1>2, <2>1 DEF Silenced, PerSystem, SetupStep
  <2>2. CASE child.step \in {3, 4} /\ child.null = NoFd
    BY <1>0, <1>2, <2>2 DEF Silenced, PerSystem, SetupStep
  <2>3. CASE child.step = 3 /\ child.null # NoFd
    BY <1>0, <1>2, <2>0, <2>3 DEF Silenced, Confined, PerSystem, SetupStep, LinuxStep
  <2>4. CASE child.step = 4 /\ child.null # NoFd
    BY <1>0, <1>2, <2>0, <2>4 DEF Silenced, Confined, PerSystem, SetupStep, LinuxStep
  <2>5. CASE child.step = 5
    BY <1>0, <1>2, <2>0, <2>5 DEF Silenced, PerSystem, SetupStep, LinuxStep, Closed
  <2>6. CASE child.step \in {6, 7}
    BY <1>0, <1>2, <2>0, <2>6 DEF Silenced, PerSystem, SetupStep, LinuxStep, Closed
  <2> QED
    BY <1>2, <2>1, <2>2, <2>3, <2>4, <2>5, <2>6 DEF SetupStep, LinuxStep
<1>3. CASE SetupStep /\ os = "macos"
  <2>0. 0 \in Fds /\ 1 \in Fds /\ 2 \in Fds
    BY DEF Fds
  <2> QED
    BY <1>0, <1>3, <2>0 DEF Silenced, PerSystem, SetupStep, MacStep, Closed
<1>4. CASE OpenStep
  <2>1. CASE fault' = fault \cup {"null"}
    BY <2>1 DEF Silenced, PerSystem
  <2>2. CASE child'.null \in Fds
    BY <1>0, <1>4, <2>2 DEF Silenced, PerSystem, OpenStep, NoFd, Fds
  <2> QED
    BY <1>4, <2>1, <2>2 DEF OpenStep
<1>5. CASE ForkStep
  BY <1>0, <1>5 DEF Silenced, PerSystem, ForkStep
<1>6. CASE ExecStep
  BY <1>0, <1>6 DEF Silenced, PerSystem, ExecStep
<1> QED
  BY <1>0, <1>1, <1>2, <1>3, <1>4, <1>5, <1>6

\* When at most one of 0, 1 and 2 was closed, pipe() gives it to the read end,
\* and the write end has a number that no redirection touches.
Reaches ==
  MostlyOpen =>
    /\ pc = "fork" => wr >= 3
    /\ life = "setup" =>
         /\ child.wr >= 3
         /\ child.step <= PerSystem(7, 5) => child.fds[child.wr] = "W"
         /\ child.step >= PerSystem(7, 5) => child.fds[1] = "W"
    /\ life = "running" => child.fds[1] = "W"

LEMMA HighWriteEnd ==
  ASSUME MostlyOpen, std \subseteq {0, 1, 2}, NEW r \in Fds, NEW w \in Fds, r < w,
         r \notin std, w \notin std
  PROVE  w >= 3
<1> SUFFICES ASSUME w < 3 PROVE FALSE
  BY DEF Fds
<1>1. {r, w} \subseteq {0, 1, 2} \ std /\ r # w
  BY DEF Fds
<1>2. IsFiniteSet({0, 1, 2} \ std) /\ Cardinality({0, 1, 2} \ std) \in Nat
  <2>0. 0 \in Int /\ 2 \in Int
    OBVIOUS
  <2>1. IsFiniteSet(0 .. 2)
    BY <2>0, FS_Interval
  <2>2. {0, 1, 2} \ std \in SUBSET (0 .. 2)
    OBVIOUS
  <2>3. IsFiniteSet({0, 1, 2} \ std)
    BY <2>1, <2>2, FS_Subset
  <2> QED
    BY <2>3, FS_CardinalityType
<1>3. Cardinality({r} \cup {w}) = 2
  <2>1. IsFiniteSet({r}) /\ Cardinality({r}) = 1 /\ w \notin {r}
    BY <1>1, FS_Singleton
  <2>2. Cardinality({r} \cup {w}) = Cardinality({r}) + 1
    BY <2>1, FS_AddElement
  <2> QED
    BY <2>1, <2>2
<1>4. Cardinality({r} \cup {w}) <= Cardinality({0, 1, 2} \ std)
  <2>1. {r} \cup {w} \in SUBSET ({0, 1, 2} \ std)
    BY <1>1
  <2> QED
    BY <1>2, <2>1, FS_Subset
<1>5. Cardinality({0, 1, 2} \ std) <= 1
  BY DEF MostlyOpen
<1> QED
  BY <1>2, <1>3, <1>4, <1>5

LEMMA ReachesInit == Init => Reaches
  BY DEF Init, Reaches, PerSystem

LEMMA ReachesNext == IInv /\ Confined /\ Reaches /\ [Next]_vars => Reaches'
<1> SUFFICES ASSUME IInv, Confined, Reaches, [Next]_vars PROVE Reaches'
  OBVIOUS
<1> SUFFICES ASSUME MostlyOpen PROVE Reaches'
  <2>1. UNCHANGED std
    BY ChildSteps
  <2>2. MostlyOpen' => MostlyOpen
    BY <2>1 DEF MostlyOpen
  <2>3. ~MostlyOpen' => Reaches'
    BY DEF Reaches
  <2> QED
    BY <2>2, <2>3
<1>0. /\ os \in {"linux", "macos"} /\ os' = os /\ std' = std
      /\ \/ UNCHANGED <<life, child>>
         \/ SetupStep
         \/ OpenStep
         \/ ForkStep
         \/ ExecStep
         \/ life' \notin {"setup", "running"}
  BY ChildSteps
<1>1. pc' = "fork" => wr' >= 3
  <2> SUFFICES ASSUME pc' = "fork" PROVE wr' >= 3
    OBVIOUS
  <2>1. Held'
    BY InvNext DEF IInv
  <2>2. /\ rd' \in Fds /\ wr' \in Fds /\ rd' < wr' /\ rd' \notin std /\ wr' \notin std
        /\ std \subseteq {0, 1, 2}
    BY <1>0, <2>1 DEF Held, Locals
  <2> QED
    BY <2>2, HighWriteEnd
<1>2. life' = "setup" =>
        /\ child'.wr >= 3
        /\ child'.step <= PerSystem(7, 5) => child'.fds[child'.wr] = "W"
        /\ child'.step >= PerSystem(7, 5) => child'.fds[1] = "W"
  <2>0. 0 \in Fds /\ 1 \in Fds /\ 2 \in Fds /\ NoFd \notin Fds /\ Fds \subseteq Int
    BY DEF Fds, NoFd
  <2>1. CASE UNCHANGED <<life, child>>
    BY <2>1 DEF Reaches, PerSystem
  <2>2. CASE SetupStep /\ os = "linux"
    <3>1. CASE child.step \in {1, 2, 3, 4}
      BY <2>0, <2>2, <3>1 DEF Reaches, PerSystem, SetupStep, LinuxStep
    <3>2. CASE child.step = 5 /\ child.null = NoFd
      BY <2>0, <2>2, <3>2 DEF Reaches, PerSystem, SetupStep, LinuxStep
    <3>3. CASE child.step = 5 /\ child.null # NoFd
      <4>1. child.null \in Fds /\ child.fds[child.null] = "null" /\ child.fds[child.wr] = "W"
        BY <2>0, <2>2, <3>3 DEF Reaches, Confined, PerSystem, SetupStep, MaybeFd
      <4> QED
        BY <2>0, <2>2, <3>3, <4>1 DEF Reaches, PerSystem, SetupStep, LinuxStep
    <3>4. CASE child.step = 6
      BY <2>0, <2>2, <3>4 DEF Reaches, PerSystem, SetupStep, LinuxStep
    <3>5. CASE child.step = 7
      BY <2>0, <2>2, <3>5 DEF Reaches, PerSystem, SetupStep, LinuxStep
    <3> QED
      BY <2>2, <3>1, <3>2, <3>3, <3>4, <3>5 DEF SetupStep, LinuxStep
  <2>3. CASE SetupStep /\ os = "macos"
    <3>1. CASE child.step \in {1, 2, 3}
      BY <2>0, <2>3, <3>1 DEF Reaches, PerSystem, SetupStep, MacStep
    <3>2. CASE child.step \in {4, 5}
      BY <2>0, <2>3, <3>2 DEF Reaches, PerSystem, SetupStep, MacStep
    <3> QED
      BY <2>3, <3>1, <3>2 DEF SetupStep, MacStep
  <2>4. CASE OpenStep
    <3>1. /\ child.wr >= 3 /\ child.fds[child.wr] = "W"
          /\ child'.wr = child.wr /\ child'.step = 3 /\ os = "linux"
      BY <2>4 DEF Reaches, PerSystem, OpenStep
    <3>2. child'.fds[child.wr] = "W"
      <4>1. CASE child'.fds = child.fds
        BY <3>1, <4>1
      <4>2. ASSUME NEW f \in Fds, child.fds[f] = Closed, child'.fds = [child.fds EXCEPT ![f] = "null"]
            PROVE  child'.fds[child.wr] = "W"
        BY <3>1, <4>2 DEF Closed
      <4> QED
        BY <2>4, <4>1, <4>2 DEF OpenStep
    <3> QED
      BY <3>1, <3>2 DEF PerSystem
  <2>5. CASE ForkStep
    <3>1. rd \notin std /\ wr \notin std /\ std \subseteq {0, 1, 2} /\ pc = "fork"
      <4>1. Held /\ Lives
        BY DEF IInv
      <4> QED
        BY <2>5, <4>1 DEF Held, ForkStep
    <3> QED
      BY <2>0, <2>5, <3>1 DEF Reaches, PerSystem, ForkStep, TableWith
  <2>6. CASE ExecStep \/ life' \notin {"setup", "running"}
    BY <2>6 DEF ExecStep
  <2> QED
    BY <1>0, <2>1, <2>2, <2>3, <2>4, <2>5, <2>6
<1>3. life' = "running" => child'.fds[1] = "W"
  <2>1. CASE ExecStep
    BY <1>0, <2>1 DEF Reaches, PerSystem, ExecStep
  <2>2. CASE ~ExecStep
    BY <1>0, <2>2 DEF Reaches, PerSystem, SetupStep, OpenStep, ForkStep
  <2> QED
    BY <2>1, <2>2
<1> QED
  BY <1>0, <1>1, <1>2, <1>3 DEF Reaches, PerSystem

ConnectInv == IInv /\ Confined /\ Silenced /\ Reaches

LEMMA ConnectAlways == Spec => []ConnectInv
<1>1. Init => ConnectInv
  BY InvInit, ConfinedInit, SilencedInit, ReachesInit DEF ConnectInv
<1>2. ConnectInv /\ [Next]_vars => ConnectInv'
  BY InvNext, ConfinedNext, SilencedNext, ReachesNext DEF ConnectInv
<1> QED
  BY <1>1, <1>2, PTL DEF Spec

\* capture_line cannot wait for itself: a command is never started with the
\* read end of its own pipe, nor with a second copy of the write end, whatever
\* numbers pipe() and open() hand out (linux-common/capture.c closes both ends
\* in the child, macos/capture.c lists the same actions).
THEOREM EndsAreConfined == Spec => []PipeEndsConfined
<1>1. ConnectInv => PipeEndsConfined
  <2> SUFFICES ASSUME ConnectInv, life = "running", NEW f \in Fds
               PROVE  child.fds[f] # "R" /\ (child.fds[f] = "W" => f = 1)
    BY DEF PipeEndsConfined
  <2>1. child.step = PerSystem(8, 6) /\ os \in {"linux", "macos"}
    BY DEF ConnectInv, IInv, Typed, PerSystem
  <2> QED
    BY <2>1 DEF ConnectInv, Confined, PerSystem
<1> QED
  BY <1>1, ConnectAlways, PTL

\* A command is started with nothing of the terminal's on its standard input
\* and error, and its output in the pipe as long as at most one of 0, 1 and 2
\* was closed.
THEOREM IsConnected == Spec => []CommandIsConnected
<1>1. ConnectInv => CommandIsConnected
  <2> SUFFICES ASSUME ConnectInv, life = "running" PROVE CommandIsSilenced /\ OutputReachesPipe
    BY DEF CommandIsConnected, CommandIsSilenced, OutputReachesPipe
  <2>1. child.step = PerSystem(8, 6) /\ os \in {"linux", "macos"}
    BY DEF ConnectInv, IInv, Typed, PerSystem
  <2>2. CommandIsSilenced
    BY <2>1 DEF ConnectInv, Silenced, PerSystem, CommandIsSilenced
  <2>3. OutputReachesPipe
    BY DEF ConnectInv, Reaches, OutputReachesPipe
  <2> QED
    BY <2>2, <2>3
<1> QED
  BY <1>1, ConnectAlways, PTL
-----------------------------------------------------------------------------
(* The first line of what a command writes                                 *)

\* FirstLine, of the writes joined.
LineIn(all) ==
  LET ends == {j \in DOMAIN all : all[j] = "nl"}
      line == IF ends = {} THEN all ELSE SubSeq(all, 1, Min(ends) - 1)
  IN  IF Len(line) < BufSize THEN line ELSE SubSeq(line, 1, BufSize - 1)

LEMMA LineIs ==
  ASSUME NEW all \in Texts
  PROVE  /\ LineIn(all) \in Texts
         /\ Len(LineIn(all)) <= Len(all) /\ Len(LineIn(all)) < BufSize
         /\ \A i \in 1 .. Len(LineIn(all)) : LineIn(all)[i] = all[i] /\ all[i] # "nl"
         /\ \/ Len(LineIn(all)) = Len(all)
            \/ Len(LineIn(all)) = BufSize - 1
            \/ all[Len(LineIn(all)) + 1] = "nl"
<1> DEFINE ends == {j \in DOMAIN all : all[j] = "nl"}
           line == IF ends = {} THEN all ELSE SubSeq(all, 1, Min(ends) - 1)
           T    == {"text", "nl"}
<1>1. all \in Seq(T) /\ DOMAIN all = 1 .. Len(all) /\ Len(all) \in Nat
  BY DEF Texts
<1>2. /\ line \in Seq(T) /\ Len(line) <= Len(all)
      /\ \A i \in 1 .. Len(line) : line[i] = all[i] /\ all[i] # "nl"
      /\ Len(line) = Len(all) \/ all[Len(line) + 1] = "nl"
  <2>1. CASE ends = {}
    BY <1>1, <2>1
  <2>2. CASE ends # {}
    <3> DEFINE m == Min(ends)
    <3>1. m \in ends /\ \A j \in ends : m <= j
      <4>1. ends \subseteq Nat
        BY <1>1
      <4> HIDE DEF ends
      <4> QED
        BY <2>2, <4>1, LeastNatural DEF Min
    <3>2. m \in 1 .. Len(all) /\ all[m] = "nl"
      BY <1>1, <3>1
    <3>3. line = SubSeq(all, 1, m - 1)
      BY <2>2
    <3> HIDE DEF m, line
    <3>4. /\ line \in Seq(T) /\ Len(line) = m - 1
          /\ \A i \in 1 .. m - 1 : line[i] = all[i]
      BY <1>1, <3>2, <3>3
    <3>5. \A i \in 1 .. m - 1 : all[i] # "nl"
      <4> SUFFICES ASSUME NEW i \in 1 .. m - 1, all[i] = "nl" PROVE FALSE
        OBVIOUS
      <4>1. i \in ends /\ ~ (m <= i)
        BY <1>1, <3>2
      <4> QED
        BY <3>1, <4>1
    <3>6. (m - 1) + 1 = m
      BY <3>2
    <3> QED
      BY <1>1, <3>2, <3>4, <3>5, <3>6
  <2> QED
    BY <2>1, <2>2
<1>3. LineIn(all) = IF Len(line) < BufSize THEN line ELSE SubSeq(line, 1, BufSize - 1)
  BY DEF LineIn
<1> HIDE DEF line, ends
<1>4. CASE Len(line) < BufSize
  BY <1>2, <1>3, <1>4 DEF Texts
<1>5. CASE ~ (Len(line) < BufSize)
  <2> DEFINE s == SubSeq(line, 1, BufSize - 1)
  <2>1. BufSize - 1 \in 0 .. Len(line)
    BY <1>2, <1>5, SizeAssumption
  <2>2. s \in Seq(T) /\ Len(s) = BufSize - 1 /\ \A i \in 1 .. BufSize - 1 : s[i] = line[i]
    BY <1>2, <2>1
  <2>3. LineIn(all) = s
    BY <1>3, <1>5
  <2> HIDE DEF s
  <2>4. BufSize - 1 <= Len(all) /\ BufSize - 1 < BufSize
    BY <1>1, <1>2, <2>1, SizeAssumption
  <2>5. \A i \in 1 .. BufSize - 1 : i \in 1 .. Len(line)
    BY <1>2, <2>1
  <2> QED
    BY <1>2, <2>2, <2>3, <2>4, <2>5 DEF Texts
<1> QED
  BY <1>4, <1>5

LEMMA SameSequence ==
  ASSUME NEW D, NEW s \in Seq(D), NEW t \in Seq(D), Len(s) = Len(t),
         \A i \in 1 .. Len(s) : s[i] = t[i]
  PROVE  s = t
  OBVIOUS

\* What fgets has taken is the first line as soon as it meets the end of the
\* output, a newline or the end of the buffer, and part of it until then.
LEMMA LineBegins ==
  ASSUME NEW all \in Texts, NEW text \in Seq({"text"}), NEW rest \in Texts,
         all = text \o rest, Len(text) < BufSize
  PROVE  /\ text \in Prefixes(LineIn(all))
         /\ \/ rest = <<>>
            \/ rest # <<>> /\ Head(rest) = "nl"
            \/ Len(text) = BufSize - 1
            => LineIn(all) = text
<1> DEFINE line == LineIn(all)
           T    == {"text", "nl"}
<1>1. /\ text \in Seq(T) /\ rest \in Seq(T) /\ Len(text) \in Nat /\ Len(rest) \in Nat
      /\ Len(all) = Len(text) + Len(rest)
      /\ \A i \in 1 .. Len(text) : all[i] = text[i] /\ all[i] # "nl"
  BY DEF Texts
<1>2. /\ line \in Seq(T) /\ Len(line) \in Nat
      /\ Len(line) <= Len(all) /\ Len(line) < BufSize
      /\ \A i \in 1 .. Len(line) : line[i] = all[i] /\ all[i] # "nl"
      /\ \/ Len(line) = Len(all)
         \/ Len(line) = BufSize - 1
         \/ all[Len(line) + 1] = "nl"
  <2>1. line \in Seq(T) /\ Len(line) <= Len(all) /\ Len(line) < BufSize
    BY LineIs DEF Texts
  <2>2. \A i \in 1 .. Len(line) : line[i] = all[i] /\ all[i] # "nl"
    BY LineIs
  <2>3. \/ Len(line) = Len(all)
        \/ Len(line) = BufSize - 1
        \/ all[Len(line) + 1] = "nl"
    BY LineIs
  <2> HIDE DEF line
  <2> QED
    BY <2>1, <2>2, <2>3
<1> HIDE DEF line
<1>3. Len(text) <= Len(line)
  <2> SUFFICES ASSUME Len(line) < Len(text) PROVE FALSE
    BY <1>1, <1>2
  <2>1. Len(line) + 1 \in 1 .. Len(text)
    BY <1>1, <1>2
  <2>2. all[Len(line) + 1] # "nl"
    BY <1>1, <2>1
  <2> QED
    BY <1>1, <1>2, <2>2, SizeAssumption
<1>4. \A i \in 1 .. Len(text) : i \in 1 .. Len(line) /\ line[i] = text[i]
  BY <1>1, <1>2, <1>3
<1>5. text \in Prefixes(line)
  <2> DEFINE s == SubSeq(line, 1, Len(text))
  <2>1. s \in Seq(T) /\ Len(s) = Len(text) /\ \A i \in 1 .. Len(text) : s[i] = line[i]
    BY <1>1, <1>2, <1>3
  <2> HIDE DEF s
  <2>2. s = text
    BY <1>1, <1>4, <2>1, SameSequence
  <2>3. Len(text) \in 0 .. Len(line)
    BY <1>1, <1>2, <1>3
  <2> QED
    BY <2>2, <2>3 DEF s, Prefixes
<1>6. ASSUME \/ rest = <<>>
             \/ rest # <<>> /\ Head(rest) = "nl"
             \/ Len(text) = BufSize - 1
      PROVE  line = text
  <2>1. CASE rest = <<>>
    <3>1. Len(rest) = 0
      BY <2>1
    <3>2. Len(line) = Len(text)
      BY <1>1, <1>2, <1>3, <3>1
    <3> QED
      BY <1>1, <1>2, <1>4, <3>2, SameSequence
  <2>2. CASE rest # <<>> /\ Head(rest) = "nl"
    <3>1. all[Len(text) + 1] = "nl"
      BY <1>1, <2>2
    <3>2. ~ (Len(text) < Len(line))
      <4> SUFFICES ASSUME Len(text) < Len(line) PROVE FALSE
        OBVIOUS
      <4>1. Len(text) + 1 \in 1 .. Len(line)
        BY <1>1, <1>2
      <4> QED
        BY <1>2, <3>1, <4>1
    <3>3. Len(line) = Len(text)
      BY <1>1, <1>2, <1>3, <3>2
    <3> QED
      BY <1>1, <1>2, <1>4, <3>3, SameSequence
  <2>3. CASE Len(text) = BufSize - 1
    <3>1. Len(line) = Len(text)
      BY <1>1, <1>2, <1>3, <2>3, SizeAssumption
    <3> QED
      BY <1>1, <1>2, <1>4, <3>1, SameSequence
  <2> QED
    BY <1>6, <2>1, <2>2, <2>3
<1> QED
  BY <1>5, <1>6 DEF line
-----------------------------------------------------------------------------
(* What the command has written and the program has read                   *)

Sent == IF command = Missing THEN <<>> ELSE Joined(command.out, writes)
Output == IF command = Missing THEN <<>> ELSE FlattenSeq(command.out)

\* How far the command is, and how it ended.
Progress ==
  /\ life \in {"none", "setup"} => writes = 0
  /\ command # Missing => writes <= Len(command.out)
  /\ command = Missing => writes = 0
  /\ status = "ok" => /\ command # Missing
                      /\ command.status = "ok"
                      /\ writes = Len(command.out)

LEMMA ProgressInit == Init => Progress
<1> SUFFICES ASSUME Init PROVE Progress
  OBVIOUS
<1>1. command # Missing => Len(command.out) \in Nat
  BY CommandAssumption DEF Init
<1> QED
  BY <1>1 DEF Init, Progress

LEMMA OutType ==
  ASSUME Typed, command # Missing
  PROVE  command.out \in Seq(Texts) /\ Len(command.out) \in Nat
  BY CommandAssumption DEF Typed

LEMMA ProgressNext == IInv /\ Progress /\ [Next]_vars => Progress'
<1> SUFFICES ASSUME IInv, Progress, [Next]_vars PROVE Progress'
  OBVIOUS
<1>0. Typed /\ Lives /\ UNCHANGED command
  BY ChildSteps DEF IInv
<1>1. CASE UNCHANGED <<writes, status>> /\ (life' \in {"none", "setup"} => life \in {"none", "setup"})
  BY <1>0, <1>1 DEF Progress
<1>2. CASE Child
  <2>1. CASE ChildGivesUp \/ ExecFails
    BY <1>0, <2>1 DEF ChildGivesUp, ExecFails, ChildEnds, Progress
  <2>2. CASE ChildClose \/ ChildDup2 \/ ChildOpenNull \/ ChildOpenAt \/ Exec
    BY <1>1, <2>2 DEF ChildClose, ChildDup2, ChildOpenNull, ChildOpenAt, ChildDoes, Exec
  <2> QED
    BY <1>2, <2>1, <2>2 DEF Child
<1>3. CASE Command
  <2>1. command # Missing /\ writes \in Nat /\ Len(command.out) \in Nat /\ life = "running"
    BY <1>0, <1>3, OutType DEF Command, CommandWrites, WriteFails, CommandExits, Writing, Typed
  <2>2. CASE writes' = writes + 1 /\ UNCHANGED <<life, status>> /\ Writing
    <3>1. status # "ok"
      BY <1>0, <2>1 DEF Typed
    <3> QED
      BY <1>0, <2>1, <2>2, <3>1 DEF Progress, Writing
  <2>3. CASE ChildEnds("signalled") \/ ChildEnds("failed")
    BY <1>0, <2>1, <2>3 DEF ChildEnds, Progress
  <2>4. CASE CommandExits
    BY <1>0, <2>1, <2>4 DEF CommandExits, ChildEnds, Progress
  <2> QED
    BY <1>3, <2>2, <2>3, <2>4 DEF Command, CommandWrites, WriteFails
<1>4. CASE SpawnFails
  <2>1. UNCHANGED writes /\ life' = "gone" /\ status' = "failed"
    BY <1>4 DEF SpawnFails
  <2> QED
    BY <1>0, <2>1 DEF Progress
<1>5. CASE MakePipe \/ Fork \/ Spawned \/ CloseWriteEnd \/ Fdopen
  BY <1>0, <1>1, <1>5 DEF MakePipe, Fork, Spawned, CloseWriteEnd, Fdopen, kid, Lives
<1>6. CASE Fgets \/ FgetsEnd \/ Fclose \/ Wait \/ Cleanup
  BY <1>1, <1>6 DEF Fgets, FgetsEnd, Fclose, Wait, Cleanup, kid
<1>7. CASE HolderExits \/ Finished \/ UNCHANGED vars
  BY <1>1, <1>7 DEF HolderExits, Finished, vars, kid
<1> QED
  BY <1>2, <1>3, <1>4, <1>5, <1>6, <1>7 DEF Next, Program

LEMMA SentIs ==
  ASSUME Typed, Progress
  PROVE  /\ Sent \in Texts
         /\ \E rest \in Texts : Output = Sent \o rest
         /\ status = "ok" => Output = Sent
         /\ LineOf(command) = LineIn(Output)
<1>1. CASE command = Missing
  <2>1. Sent = <<>> /\ Output = <<>> /\ <<>> \in Texts
    BY <1>1 DEF Sent, Output, Texts
  <2>2. Output = Sent \o <<>>
    BY <2>1
  <2>3. LineIn(<<>>) = <<>>
    <3>1. LineIn(<<>>) \in Texts /\ Len(LineIn(<<>>)) <= Len(<<>>)
      BY <2>1, LineIs
    <3> HIDE DEF LineIn
    <3>2. Len(LineIn(<<>>)) = 0
      BY <3>1 DEF Texts
    <3> QED
      BY <3>1, <3>2 DEF Texts
  <2>4. LineOf(command) = <<>>
    BY <1>1 DEF LineOf
  <2> QED
    BY <1>1, <2>1, <2>2, <2>3, <2>4 DEF Progress
<1>2. CASE command # Missing
  <2>1. command.out \in Seq(Seq({"text", "nl"})) /\ writes \in 0 .. Len(command.out)
    BY <1>2, OutType DEF Typed, Progress, Texts
  <2>2. Sent = Joined(command.out, writes) /\ Output = FlattenSeq(command.out)
    BY <1>2 DEF Sent, Output
  <2>3. Sent \in Texts
    BY <2>1, <2>2, JoinedIs DEF Texts
  <2>4. \E rest \in Texts : Output = Sent \o rest
    BY <2>1, <2>2, JoinedBegins DEF Texts
  <2>5. status = "ok" => Output = Sent
    BY <2>1, <2>2, JoinedIs DEF Progress
  <2>6. LineOf(command) = LineIn(Output)
    BY <1>2, <2>2 DEF LineOf, FirstLine, LineIn
  <2> QED
    BY <2>3, <2>4, <2>5, <2>6
<1> QED
  BY <1>1, <1>2

LEMMA SentGrows ==
  ASSUME Typed, Progress, UNCHANGED command, life = "running", Writing, writes' = writes + 1
  PROVE  Sent' = Sent \o Chunk /\ Chunk \in Texts
<1>1. command # Missing /\ command' # Missing
  BY DEF Typed
<1>2. command.out \in Seq(Seq({"text", "nl"})) /\ writes \in 0 .. Len(command.out) - 1
  BY <1>1, OutType DEF Typed, Writing, Texts
<1>3. Joined(command.out, writes + 1) = Joined(command.out, writes) \o command.out[writes + 1]
  BY <1>2, JoinedIs
<1>4. Sent' = Joined(command.out, writes + 1)
  BY <1>1 DEF Sent
<1> QED
  BY <1>1, <1>3, <1>4, ChunkType DEF Sent, Chunk, Writing

\* While the program reads, the buffer and the pipe hold what has been sent, if
\* the command's output goes to the pipe, and nothing if it does not.
Reading == pc \in {"pipe", "fork", "spawn", "closeW", "fdopen", "fgets"}
Ended == life \in {"zombie", "gone"}

Data ==
  /\ Reading /\ life = "running" /\ child.fds[1] = "W" => out \o pipe = Sent
  /\ Reading /\ ~ (life = "running" /\ child.fds[1] = "W") =>
       \/ out = <<>> /\ pipe = <<>>
       \/ Ended /\ out \o pipe = Sent
  /\ Reading /\ pc # "fgets" => out = <<>>
  /\ ~ Reading => \/ out = <<>>
                  \/ out = LineOf(command)
                  \/ Ended /\ out = Sent

LEMMA DataInit == Init => Data
  BY DEF Init, Data, Reading

\* Nobody but the program can read, and it does until it has what it wants.
LEMMA ProgramReads ==
  ASSUME IInv, Reading, life # "none"
  PROVE  Readers
<1>1. Held /\ Lives
  BY DEF IInv
<1>2. \E f \in Fds : f \in {rd, stream}
  BY <1>1 DEF Held, Lives, Locals, Reading
<1> QED
  BY <1>1, <1>2 DEF Held, TableWith, Readers, Holds

LEMMA NothingYet ==
  ASSUME Typed, Progress, life \in {"none", "setup"}
  PROVE  Sent = <<>>
  BY JoinedIs DEF Progress, Sent, Joined

LEMMA EmptyOutput ==
  ASSUME Sizes
  PROVE  out = <<>> /\ pipe = <<>> => out \o pipe = <<>>
  BY DEF Sizes

LEMMA DataChild == IInv /\ Progress /\ Data /\ Child => Data'
<1> SUFFICES ASSUME IInv, Progress, Data, Child PROVE Data'
  OBVIOUS
<1>0. Typed /\ Sizes
  BY DEF IInv
<1>1. /\ life = "setup" /\ life' \in {"setup", "running", "zombie", "gone"}
      /\ UNCHANGED <<command, writes, pc, out, pipe>>
      /\ life' = "running" => child' = child
  BY <1>0 DEF Child, ChildClose, ChildDup2, ChildOpenNull, ChildOpenAt, ChildDoes, ChildGivesUp,
     Exec, ExecFails, ChildEnds, world, parent, Typed
<1>2. Sent' = <<>>
  <2>1. Sent = <<>>
    BY <1>0, <1>1, NothingYet
  <2> QED
    BY <1>1, <2>1 DEF Sent
<1>3. CASE Reading
  <2>1. out = <<>> /\ pipe = <<>>
    BY <1>1, <1>3 DEF Data, Ended
  <2>2. out' \o pipe' = <<>>
    BY <1>0, <1>1, <2>1, EmptyOutput
  <2> QED
    BY <1>1, <1>2, <1>3, <2>1, <2>2 DEF Data, Reading
<1>4. CASE ~ Reading
  <2>1. ~ Reading' /\ LineOf(command') = LineOf(command)
    BY <1>1, <1>4 DEF Reading
  <2> QED
    BY <1>1, <1>4, <2>1 DEF Data, Ended
<1> QED
  BY <1>3, <1>4

LEMMA DataCommand == IInv /\ Progress /\ Data /\ Command => Data'
<1> SUFFICES ASSUME IInv, Progress, Data, Command PROVE Data'
  OBVIOUS
<1>0. Typed /\ Sizes
  BY DEF IInv
<1>1. life = "running" /\ UNCHANGED <<command, pc, out>>
  BY DEF Command, CommandWrites, WriteFails, CommandExits, Writing, world, parent
<1>2. CASE ~ Reading
  <2>1. ~ Reading' /\ LineOf(command') = LineOf(command)
    BY <1>1, <1>2 DEF Reading
  <2> QED
    BY <1>1, <1>2, <2>1 DEF Data, Ended
<1>3. CASE Reading
  <2>0. Reading' /\ Readers
    <3>1. Readers
      BY <1>1, <1>3, ProgramReads
    <3> QED
      BY <1>1, <1>3, <3>1 DEF Reading
  <2>1. CASE child.fds[1] = "W" /\ CommandWrites
    <3>1. pipe' = pipe \o Chunk /\ writes' = writes + 1 /\ Writing /\ UNCHANGED <<life, child>>
      BY <2>1 DEF CommandWrites
    <3>2. out \o pipe = Sent
      BY <1>1, <1>3, <2>1 DEF Data
    <3>3. Sent' = Sent \o Chunk /\ Chunk \in Texts
      BY <1>0, <1>1, <3>1, SentGrows
    <3>4. out' \o pipe' = Sent'
      <4>1. out \in Texts /\ pipe \in Texts
        BY <1>0 DEF Sizes, Texts
      <4> HIDE DEF Chunk, Sent
      <4>2. out \o (pipe \o Chunk) = (out \o pipe) \o Chunk
        BY <3>3, <4>1 DEF Texts
      <4> QED
        BY <1>1, <3>1, <3>2, <3>3, <4>2
    <3> QED
      BY <1>1, <1>3, <2>0, <2>1, <3>1, <3>4 DEF Data
  <2>2. CASE child.fds[1] = "W" /\ CommandExits
    <3>1. UNCHANGED <<pipe, writes>> /\ Ended'
      BY <2>2 DEF CommandExits, ChildEnds, Ended
    <3>2. Sent' = Sent /\ out' \o pipe' = Sent
      BY <1>1, <1>3, <2>2, <3>1 DEF Data, Sent
    <3> QED
      BY <1>1, <1>3, <2>0, <3>1, <3>2 DEF Data
  <2>3. CASE child.fds[1] # "W"
    <3>1. out = <<>> /\ pipe = <<>>
      BY <1>1, <1>3, <2>3 DEF Data, Ended
    <3>2. UNCHANGED pipe
      BY <2>3 DEF Command, CommandWrites, WriteFails, CommandExits
    <3>3. life' = "running" => child' = child
      BY DEF Command, CommandWrites, WriteFails, CommandExits, ChildEnds
    <3> QED
      BY <1>1, <2>0, <2>3, <3>1, <3>2, <3>3 DEF Data
  <2> QED
    BY <2>0, <2>1, <2>2, <2>3 DEF Command, WriteFails, Closed
<1> QED
  BY <1>2, <1>3

LEMMA TextsJoin ==
  ASSUME NEW a \in Texts, NEW b \in Texts, NEW c \in Texts
  PROVE  (a \o b) \o c = a \o (b \o c) /\ b \o c \in Texts
  BY DEF Texts

LEMMA PlainText == Seq({"text"}) \subseteq Texts
  BY DEF Texts

LEMMA NewlineEnds ==
  ASSUME IInv, Progress, Data, Fgets, Head(pipe) = "nl"
  PROVE  LineOf(command) = out
<1>0. Typed /\ Sizes
  BY DEF IInv
<1>1. pc = "fgets" /\ pipe # <<>>
  BY DEF Fgets
<1>2. /\ out \in Seq({"text"}) /\ pipe \in Texts /\ Len(out) \in Nat
      /\ Len(out) + 2 <= BufSize
  BY <1>0, <1>1 DEF Sizes
<1>3. out \o pipe = Sent
  BY <1>1 DEF Data, Reading
<1>4. PICK rest \in Texts : Output = Sent \o rest
  BY <1>0, SentIs
<1>5. LineOf(command) = LineIn(Output)
  BY <1>0, SentIs
<1>6. Output = out \o (pipe \o rest)
  <2>1. out \in Texts
    BY <1>2, PlainText
  <2>2. (out \o pipe) \o rest = out \o (pipe \o rest)
    BY <1>2, <2>1, TextsJoin
  <2> QED
    BY <1>3, <1>4, <2>2
<1>7. pipe \o rest \in Texts /\ pipe \o rest # <<>> /\ Head(pipe \o rest) = "nl"
  BY <1>1, <1>2, <1>4 DEF Texts
<1>8. Output \in Texts
  BY <1>2, <1>6, <1>7 DEF Texts
<1>9. Len(out) < BufSize
  BY <1>2, SizeAssumption
<1> QED
  BY <1>2, <1>5, <1>6, <1>7, <1>8, <1>9, LineBegins

\* What fgets does.
LEMMA DataFgets == IInv /\ Progress /\ Data /\ Fgets => Data'
<1> SUFFICES ASSUME IInv, Progress, Data, Fgets PROVE Data'
  OBVIOUS
<1>0. Typed /\ Sizes
  BY DEF IInv
<1>1. /\ pc = "fgets" /\ pipe # <<>> /\ pipe' = Tail(pipe)
      /\ out' = IF Head(pipe) = "nl" THEN out ELSE Append(out, "text")
      /\ pc' = IF Head(pipe) = "nl" \/ Len(out) + 2 = BufSize THEN "fclose" ELSE pc
      /\ UNCHANGED <<command, life, child, writes>>
  BY DEF Fgets, kid, world
<1>2. /\ out \in Seq({"text"}) /\ pipe \in Texts /\ Len(out) \in Nat
      /\ Len(out) + 2 <= BufSize
  BY <1>0, <1>1 DEF Sizes
<1>3. Sent' = Sent /\ LineOf(command') = LineOf(command) /\ Ended' = Ended
  BY <1>1 DEF Sent, Ended
<1>4. out \o pipe = Sent
  <2>1. Reading
    BY <1>1 DEF Reading
  <2> QED
    BY <1>1, <2>1 DEF Data
<1>5. PICK rest \in Texts : Output = Sent \o rest
  BY <1>0, SentIs
<1>6. LineOf(command) = LineIn(Output)
  BY <1>0, SentIs
<1> DEFINE left == Tail(pipe)
<1>7. /\ left \in Texts /\ Head(pipe) \in {"text", "nl"}
      /\ pipe = <<Head(pipe)>> \o left
  BY <1>1, <1>2 DEF Texts
<1>8. CASE Head(pipe) = "nl"
  <2>1. pc' = "fclose" /\ out' = out
    BY <1>1, <1>8
  <2>2. LineOf(command) = out
    BY <1>8, NewlineEnds
  <2> QED
    BY <1>3, <2>1, <2>2 DEF Data, Reading
<1>9. CASE Head(pipe) # "nl"
  <2>1. out' = Append(out, "text") /\ pipe = <<"text">> \o left
    BY <1>1, <1>7, <1>9
  <2>2. out' \in Seq({"text"}) /\ Len(out') = Len(out) + 1 /\ out' \o left = out \o pipe
    <3> HIDE DEF left
    <3> QED
      BY <1>2, <1>7, <2>1 DEF Texts
  <2>3. out' \o pipe' = Sent'
    BY <1>1, <1>3, <1>4, <2>2
  <2>4. CASE pc' = "fclose"
    <3>1. Len(out') = BufSize - 1 /\ Len(out') < BufSize
      BY <1>1, <1>2, <1>9, <2>2, <2>4, SizeAssumption
    <3>2. Output = out' \o (left \o rest) /\ left \o rest \in Texts
      <4> HIDE DEF left
      <4>1. Output = (out' \o left) \o rest
        BY <1>4, <1>5, <2>2
      <4>2. out' \in Texts
        BY <2>2, PlainText
      <4> QED
        BY <1>5, <1>7, <4>1, <4>2, TextsJoin
    <3>3. Output \in Texts
      BY <2>2, <3>2 DEF Texts
    <3>4. LineIn(Output) = out'
      <4> DEFINE line == out'
                 more == left \o rest
      <4> HIDE DEF line, more
      <4>1. /\ line \in Seq({"text"}) /\ more \in Texts /\ Output = line \o more
            /\ Len(line) < BufSize /\ Len(line) = BufSize - 1
        BY <2>2, <3>1, <3>2 DEF line, more
      <4>2. LineIn(Output) = line
        BY <3>3, <4>1, LineBegins
      <4> QED
        BY <4>2 DEF line
    <3> QED
      BY <1>3, <1>6, <2>4, <3>4 DEF Data, Reading
  <2>5. CASE pc' = "fgets"
    <3>1. Reading /\ Reading'
      BY <1>1, <2>5 DEF Reading
    <3>2. (life' = "running" /\ child'.fds[1] = "W") \/ Ended'
      <4>1. ~ (out = <<>> /\ pipe = <<>>)
        BY <1>1
      <4> QED
        BY <1>1, <1>3, <3>1, <4>1 DEF Data
    <3> QED
      BY <2>3, <2>5, <3>1, <3>2 DEF Data
  <2> QED
    BY <1>1, <2>4, <2>5
<1> QED
  BY <1>8, <1>9

LEMMA DataNext == IInv /\ Progress /\ Data /\ [Next]_vars => Data'
<1> SUFFICES ASSUME IInv, Progress, Data, [Next]_vars PROVE Data'
  OBVIOUS
<1>0. Typed /\ Sizes /\ Lives /\ Held
  BY DEF IInv
<1>2. CASE Child \/ Command \/ Fgets
  BY <1>2, DataChild, DataCommand, DataFgets
<1>3. CASE MakePipe \/ Fork \/ SpawnFails \/ Fdopen
  <2>1. /\ Reading /\ pc # "fgets" /\ UNCHANGED <<command, out, pipe, writes>>
        /\ pc' \in {"fork", "cleanup", "closeW", "spawn", "fgets", "wait"}
    BY <1>3 DEF MakePipe, Fork, SpawnFails, Fdopen, Fails, Reading, world, kid
  <2>2. out = <<>>
    BY <2>1 DEF Data
  <2>3. CASE ~ Reading'
    BY <2>1, <2>2, <2>3 DEF Data
  <2>4. CASE Reading' /\ UNCHANGED <<life, child>>
    BY <2>1, <2>2, <2>4 DEF Data, Sent, Ended
  <2>5. CASE Fork /\ life' = "setup"
    <3>1. life = "none"
      BY <1>0, <2>5 DEF Fork, Lives
    <3>2. pipe = <<>>
      BY <2>1, <3>1 DEF Data, Ended
    <3> QED
      BY <2>1, <2>2, <2>5, <3>2 DEF Data, Reading
  <2>6. MakePipe \/ Fdopen => UNCHANGED <<life, child>>
    BY DEF MakePipe, Fdopen, kid
  <2>7. SpawnFails => ~ Reading'
    BY DEF SpawnFails, Fails, Reading
  <2>8. Fork => life' = "setup" \/ ~ Reading'
    BY DEF Fork, Fails, Reading
  <2> QED
    BY <1>3, <2>3, <2>4, <2>5, <2>6, <2>7, <2>8
<1>4. CASE Spawned \/ CloseWriteEnd
  <2>1. /\ UNCHANGED <<command, out, pipe, writes, life, child>>
        /\ Reading /\ Reading' /\ pc # "fgets"
    BY <1>4 DEF Spawned, CloseWriteEnd, Reading, world, kid
  <2> QED
    BY <2>1 DEF Data, Sent, Ended
<1>5. CASE FgetsEnd
  <2>1. /\ pc = "fgets" /\ pipe = <<>> /\ ~ Writers /\ pc' = "fclose" /\ Reading /\ ~ Reading'
        /\ UNCHANGED <<command, out, writes, life>>
    BY <1>5 DEF FgetsEnd, Reading, world, kid
  <2>2. ~ (child.fds[1] = "W")
    BY <2>1 DEF Writers, Holds, Fds
  <2>3. out \o pipe = out
    BY <1>0, <2>1 DEF Sizes
  <2>4. out = <<>> \/ (Ended /\ out = Sent)
    BY <2>1, <2>2, <2>3 DEF Data
  <2> QED
    BY <2>1, <2>4 DEF Data, Sent, Ended
<1>6. CASE Fclose \/ Wait \/ Cleanup
  <2>1. /\ ~ Reading /\ ~ Reading' /\ UNCHANGED <<command, out, writes>>
        /\ Ended => Ended'
    BY <1>6 DEF Fclose, Wait, Cleanup, Reading, Ended, world, kid
  <2> QED
    BY <2>1 DEF Data, Sent
<1>7. CASE HolderExits \/ Finished \/ UNCHANGED vars
  <2>1. UNCHANGED <<command, out, pipe, writes, life, child, pc>>
    BY <1>7 DEF HolderExits, Finished, vars, world, parent, kid
  <2> QED
    BY <2>1 DEF Data, Reading, Sent, Ended
<1> QED
  BY <1>2, <1>3, <1>4, <1>5, <1>6, <1>7 DEF Next, Program
-----------------------------------------------------------------------------
(* capture_line is one answer                                              *)

Answers ==
  /\ pc \notin {"cleanup", "done"} => result = -1
  /\ pc \in {"cleanup", "done"} =>
       /\ result = -1 => out = <<>>
       /\ result = 0 => status = "ok" /\ out # <<>>

LEMMA AnswersInit == Init => Answers
  BY DEF Init, Answers

LEMMA AnswersNext == IInv /\ Data /\ Answers /\ [Next]_vars => Answers'
<1> SUFFICES ASSUME IInv, Data, Answers, [Next]_vars PROVE Answers'
  OBVIOUS
<1>0. Lives
  BY DEF IInv
<1>1. CASE Child \/ Command \/ HolderExits \/ Finished \/ UNCHANGED vars
  <2>1. UNCHANGED <<pc, out, result>>
    BY <1>1, OthersLeaveProgram DEF parent
  <2>2. life \in {"none", "gone"} => UNCHANGED status
    BY <1>1 DEF Child, ChildClose, ChildDup2, ChildOpenNull, ChildOpenAt, ChildDoes, ChildGivesUp,
       Exec, ExecFails, Command, CommandWrites, WriteFails, CommandExits, Writing, HolderExits,
       Finished, vars, kid
  <2> QED
    BY <1>0, <2>1, <2>2 DEF Answers, Lives
<1>2. CASE MakePipe \/ Fork \/ SpawnFails \/ Spawned
  <2>1. /\ pc \in {"pipe", "fork", "spawn"} /\ pc' \in {"fork", "cleanup", "closeW", "spawn"}
        /\ UNCHANGED <<out, result>>
    BY <1>2 DEF MakePipe, Fork, SpawnFails, Spawned, Fails
  <2>2. out = <<>>
    BY <2>1 DEF Data, Reading
  <2> QED
    BY <2>1, <2>2 DEF Answers
<1>3. CASE CloseWriteEnd \/ Fdopen \/ Fgets \/ FgetsEnd \/ Fclose
  <2>1. /\ pc \in {"closeW", "fdopen", "fgets", "fclose"}
        /\ pc' \in {"fdopen", "fgets", "fclose", "wait"} /\ UNCHANGED result
    BY <1>3 DEF CloseWriteEnd, Fdopen, Fgets, FgetsEnd, Fclose, Fails
  <2> QED
    BY <2>1 DEF Answers
<1>4. CASE Wait
  <2>1. /\ pc' = "cleanup" /\ UNCHANGED <<out, status>>
        /\ result' \in {0, 1} /\ (result' = 0 => status = "ok" /\ out # <<>>)
    BY <1>4 DEF Wait, Succeeded
  <2> QED
    BY <2>1 DEF Answers
<1>5. CASE Cleanup
  <2>1. pc = "cleanup" /\ pc' = "done" /\ UNCHANGED <<out, status, result>>
    BY <1>5 DEF Cleanup, kid
  <2> QED
    BY <2>1 DEF Answers
<1> QED
  BY <1>1, <1>2, <1>3, <1>4, <1>5 DEF Next, Program

CaptureInv == IInv /\ Progress /\ Data /\ Answers

LEMMA CaptureInvInit == Init => CaptureInv
  BY InvInit, ProgressInit, DataInit, AnswersInit DEF CaptureInv

LEMMA CaptureInvNext == CaptureInv /\ [Next]_vars => CaptureInv'
  BY InvNext, ProgressNext, DataNext, AnswersNext DEF CaptureInv

LEMMA CaptureInvAlways == Spec => []CaptureInv
  BY CaptureInvInit, CaptureInvNext, PTL DEF Spec

\* What the buffer holds when the call returns.
LEMMA CapturedIs ==
  ASSUME CaptureInv, pc = "cleanup"
  PROVE  /\ out \in Prefixes(LineOf(command))
         /\ status = "ok" /\ out # <<>> => out = LineOf(command)
<1>1. Typed /\ Progress /\ Sizes /\ LineOf(command) = LineIn(Output) /\ Sent \in Texts
  BY SentIs DEF CaptureInv, IInv
<1>2. PICK rest \in Texts : Output = Sent \o rest
  BY <1>1, SentIs
<1>3. Output \in Texts
  BY <1>1, <1>2 DEF Texts
<1>4. LineOf(command) \in Texts
  BY <1>1, <1>3, LineIs
<1>5. \/ out = <<>>
      \/ out = LineOf(command)
      \/ out = Sent
  BY DEF CaptureInv, Data, Reading
<1>6. CASE out = <<>>
  <2>1. SubSeq(LineOf(command), 1, 0) = <<>> /\ 0 \in 0 .. Len(LineOf(command))
    BY <1>4 DEF Texts
  <2> QED
    BY <1>6, <2>1 DEF Prefixes
<1>7. CASE out = LineOf(command)
  <2> DEFINE line == LineOf(command)
  <2>1. line \in Seq({"text", "nl"})
    BY <1>4 DEF Texts
  <2> HIDE DEF line
  <2>2. SubSeq(line, 1, Len(line)) = line /\ Len(line) \in 0 .. Len(line)
    BY <2>1
  <2>3. line \in Prefixes(line)
    BY <2>2 DEF Prefixes
  <2> QED
    BY <1>7, <2>3 DEF line
<1>8. CASE out = Sent
  <2>1. out \in Seq({"text"}) /\ Output = out \o rest /\ Len(out) < BufSize
    BY <1>1, <1>2, <1>8 DEF Sizes
  <2>2. out \in Prefixes(LineIn(Output))
    BY <1>3, <2>1, LineBegins
  <2>3. status = "ok" => LineIn(Output) = out
    <3> SUFFICES ASSUME status = "ok" PROVE LineIn(Output) = out
      OBVIOUS
    <3>1. Output = out
      BY <1>1, <1>8, SentIs
    <3>2. out = out \o <<>> /\ <<>> \in Texts
      BY <2>1 DEF Texts
    <3> QED
      BY <1>3, <2>1, <3>1, <3>2, LineBegins
  <2> QED
    BY <1>1, <2>2, <2>3
<1> QED
  BY <1>5, <1>6, <1>7, <1>8

\* Three processes, a pipe and thirty system calls are to the caller one
\* answer: 0 with the first line of a command that succeeded, 1 with no more
\* than part of that line, or -1 (include/capture.h).
THEOREM Implements == Spec => ImplementsCapture
<1>1. Init => Cap!CapInit
  <2> SUFFICES ASSUME Init PROVE Cap!CapInit
    OBVIOUS
  <2>1. ~ Returned /\ command \in Commands \cup {Missing}
    BY DEF Init, Returned
  <2> QED
    BY <2>1 DEF Cap!CapInit
<1>2. ASSUME CaptureInv, [Next]_vars
      PROVE  [Cap!CapNext]_(Cap!capVars)
  <2>0. IInv /\ Typed /\ UNCHANGED command
    BY <1>2, ChildSteps DEF CaptureInv, IInv
  <2>1. CASE ~ Returned /\ ~ Returned'
    BY <2>0, <2>1 DEF Cap!capVars
  <2>2. CASE Returned
    <3>1. pc' = pc /\ UNCHANGED <<out, result>>
      <4>1. pc = "done"
        BY <2>2 DEF Returned
      <4>2. ~ Program
        BY <4>1 DEF Program, MakePipe, Fork, Spawned, SpawnFails, CloseWriteEnd, Fdopen, Fgets,
           FgetsEnd, Fclose, Wait, Cleanup
      <4> QED
        BY <1>2, <4>2, OthersLeaveProgram DEF Next, parent
    <3>2. Returned'
      BY <2>2, <3>1 DEF Returned
    <3> QED
      BY <2>2, <3>1, <3>2 DEF Cap!capVars
  <2>3. CASE ~ Returned /\ Returned'
    <3>1. Cleanup
      BY <1>2, <2>3, OthersLeaveProgram DEF Next, Program, MakePipe, Fork, Spawned, SpawnFails,
         CloseWriteEnd, Fdopen, Fgets, FgetsEnd, Fclose, Wait, Fails, Returned, parent
    <3>2. pc = "cleanup" /\ UNCHANGED <<out, result>>
      BY <3>1 DEF Cleanup
    <3>3. /\ out \in Prefixes(LineOf(command))
          /\ status = "ok" /\ out # <<>> => out = LineOf(command)
      BY <1>2, <3>2, CapturedIs
    <3>4. /\ result \in {-1, 0, 1}
          /\ result = -1 => out = <<>>
          /\ result = 0 => status = "ok" /\ out # <<>>
      BY <1>2, <3>2 DEF CaptureInv, IInv, Sizes, Answers
    <3>5. status = "ok" => EndsWell(command)
      BY <1>2 DEF CaptureInv, Progress, EndsWell
    <3>6. command # NoCommand
      BY <2>0, CommandAssumption DEF Typed
    <3> DEFINE asked == IF Returned THEN NoCommand ELSE command
               answer == IF Returned THEN result ELSE -1
               line == IF Returned THEN out ELSE <<>>
    <3>7. asked = command /\ asked' = NoCommand /\ answer' = result /\ line' = out
      BY <2>3, <3>2
    <3> HIDE DEF asked, answer, line
    <3>8. /\ asked # NoCommand /\ asked' = NoCommand
          /\ \/ /\ EndsWell(asked) /\ LineOf(asked) # <<>>
                /\ answer' = 0 /\ line' = LineOf(asked)
             \/ answer' = 1 /\ line' \in Prefixes(LineOf(asked))
             \/ answer' = -1 /\ line' = <<>>
      BY <3>3, <3>4, <3>5, <3>6, <3>7
    <3>9. Cap!Answer
      BY <3>8 DEF Cap!Answer, Cap!Prefixes, Prefixes, asked, answer, line
    <3> QED
      BY <3>9 DEF Cap!CapNext
  <2> QED
    BY <2>1, <2>2, <2>3
<1> QED
  BY <1>1, <1>2, CaptureInvAlways, PTL DEF Spec, ImplementsCapture, Cap!CapSpec
-----------------------------------------------------------------------------
(* The one command whose answer is certain                                 *)

\* Nothing has failed, and the command writes once and succeeds.
Certain == Promise(command) /\ MostlyOpen /\ Len(command.out) = 1

Captured ==
  Certain =>
    /\ status \in {"none", "ok"}
    /\ Reading /\ Ended => out \o pipe = Sent
    /\ ~ Reading => writes = 1 /\ out # <<>>
    /\ pc \in {"cleanup", "done"} => result = 0

LEMMA CapturedInit == Init => Captured
  BY DEF Init, Captured, Reading, Ended

\* The child has the write end until the command has written.
LEMMA ChildCanWrite ==
  ASSUME IInv, Reaches, MostlyOpen, life \in {"setup", "running"}
  PROVE  Writers
<1>1. Typed /\ child.step \in Int /\ os \in {"linux", "macos"}
  BY DEF IInv, Typed, Steps
<1>2. CASE life = "running"
  BY <1>2 DEF Reaches, Writers, Holds, Fds
<1>3. CASE life = "setup"
  <2>1. child.wr \in Fds /\ 1 \in Fds
    BY <1>1, <1>3 DEF Typed, Fds
  <2>2. child.fds[child.wr] = "W" \/ child.fds[1] = "W"
    BY <1>1, <1>3 DEF Reaches, PerSystem
  <2> QED
    BY <2>1, <2>2 DEF Writers, Holds
<1> QED
  BY <1>2, <1>3

LEMMA CertainLine ==
  ASSUME IInv, Progress, Certain
  PROVE  /\ command # Missing /\ command.status = "ok" /\ sigchld = "default" /\ fault = {}
         /\ LineOf(command) # <<>> /\ Output # <<>>
<1>1. Typed
  BY DEF IInv
<1>2. command # Missing /\ command.status = "ok" /\ sigchld = "default" /\ fault = {}
  BY DEF Certain, Promise
<1>3. LineOf(command) # <<>>
  BY <1>2 DEF Certain, Promise, LineOf
<1>4. LineOf(command) = LineIn(Output) /\ Output \in Texts
  <2>1. PICK rest \in Texts : Output = Sent \o rest
    BY <1>1, SentIs
  <2>2. Sent \in Texts
    BY <1>1, SentIs
  <2> QED
    BY <1>1, <2>1, <2>2, SentIs DEF Texts
<1>5. ASSUME Output = <<>> PROVE FALSE
  <2>1. LineIn(Output) \in Texts /\ Len(LineIn(Output)) <= Len(Output)
    BY <1>4, LineIs
  <2>2. LineIn(Output) # <<>>
    BY <1>3, <1>4
  <2> HIDE DEF LineIn
  <2> QED
    BY <1>5, <2>1, <2>2 DEF Texts
<1> QED
  BY <1>2, <1>3, <1>5

LEMMA CapturedNext ==
  IInv /\ Reaches /\ Progress /\ Data /\ Captured /\ [Next]_vars => Captured'
<1> SUFFICES ASSUME IInv, Reaches, Progress, Data, Captured, [Next]_vars, Certain'
             PROVE  Captured'
  BY DEF Captured
<1>0. Typed /\ Sizes /\ Lives /\ Held /\ Progress' /\ Data'
  BY ProgressNext, DataNext DEF IInv
<1>1. /\ UNCHANGED <<os, command, std, sigpipe, sigchld>> /\ fault \subseteq fault' /\ fault' = {}
      /\ fault = {}
  BY ChildSteps DEF Certain, Promise
<1>2. Certain
  BY <1>1 DEF Certain, Promise, MostlyOpen
<1>3. /\ command # Missing /\ command.status = "ok" /\ sigchld = "default"
      /\ LineOf(command) # <<>> /\ Output # <<>> /\ Len(command.out) = 1 /\ MostlyOpen
  BY <1>2, CertainLine DEF Certain
<1>4. /\ status \in {"none", "ok"}
      /\ Reading /\ Ended => out \o pipe = Sent
      /\ ~ Reading => writes = 1 /\ out # <<>>
      /\ pc \in {"cleanup", "done"} => result = 0
  BY <1>2 DEF Captured
<1>5. Ended => status = "ok" /\ writes = 1 /\ Sent = Output
  <2>1. Ended => status = "ok"
    BY <1>0, <1>4 DEF Typed, Ended
  <2> QED
    BY <1>0, <1>3, <2>1, SentIs DEF Progress
<1>6. CASE Child
  <2>1. UNCHANGED <<pc, out, result>>
    BY <1>6, OthersLeaveProgram DEF parent
  <2>2. life = "setup" /\ ~ Ended' /\ UNCHANGED <<status, writes>>
    BY <1>0, <1>1, <1>3, <1>6 DEF Child, ChildClose, ChildDup2, ChildOpenNull, ChildOpenAt, ChildDoes,
       ChildGivesUp, Exec, ExecFails, Ended
  <2> QED
    BY <1>4, <2>1, <2>2 DEF Captured, Reading
<1>7. CASE Command
  <2>0. UNCHANGED <<pc, out, result>> /\ Reading' = Reading
    BY <1>7, OthersLeaveProgram DEF parent, Reading
  <2>1. life = "running" /\ child.fds[1] = "W"
    BY <1>3, <1>7 DEF Command, CommandWrites, WriteFails, CommandExits, Writing, Reaches
  <2>2. CASE CommandWrites
    <3>1. UNCHANGED <<life, status>> /\ writes' = writes + 1 /\ writes < 1 /\ writes \in Nat
      BY <1>0, <1>3, <2>2 DEF CommandWrites, Writing, Typed
    <3>2. ~ Reading' => writes' = 1 /\ out' # <<>>
      BY <1>4, <2>0, <3>1
    <3> QED
      BY <1>4, <2>0, <2>1, <3>1, <3>2 DEF Captured, Ended
  <2>3. CASE WriteFails
    <3>1. writes < 1 /\ ~ Readers
      BY <1>3, <2>1, <2>3 DEF WriteFails, Writing, Closed
    <3>2. Reading
      BY <1>4, <3>1
    <3> QED
      BY <2>1, <3>1, <3>2, ProgramReads
  <2>4. CASE CommandExits
    <3>1. status' = "ok" /\ UNCHANGED <<writes, pipe, command>>
      BY <1>1, <1>3, <2>4 DEF CommandExits, ChildEnds
    <3>2. Reading => out \o pipe = Sent
      BY <2>1 DEF Data
    <3> QED
      BY <1>4, <2>0, <3>1, <3>2 DEF Captured, Sent
  <2> QED
    BY <1>7, <2>2, <2>3, <2>4 DEF Command
<1>8. CASE Fgets
  <2>1. /\ pc = "fgets" /\ pipe # <<>> /\ pc' \in {"fgets", "fclose"}
        /\ out' = IF Head(pipe) = "nl" THEN out ELSE Append(out, "text")
        /\ pc' = "fgets" => Head(pipe) # "nl"
        /\ UNCHANGED <<status, writes, life, result>>
    BY <1>8 DEF Fgets, kid
  <2>2. out' # <<>>
    <3>1. CASE Head(pipe) = "nl"
      BY <1>3, <1>8, <2>1, <3>1, NewlineEnds
    <3>2. CASE Head(pipe) # "nl"
      BY <1>0, <2>1, <3>2 DEF Sizes
    <3> QED
      BY <3>1, <3>2
  <2>3. writes = 1
    <3>1. out \o pipe = Sent
      BY <2>1 DEF Data, Reading
    <3>2. Sent # <<>>
      BY <1>0, <2>1, <3>1 DEF Sizes, Texts
    <3>3. writes # 0
      BY <1>3, <3>2 DEF Sent, Joined
    <3> QED
      BY <1>0, <1>3, <3>3 DEF Progress, Typed
  <2>4. Reading' /\ Ended' => out' \o pipe' = Sent'
    BY <1>0, <2>2 DEF Data
  <2> QED
    BY <1>4, <2>1, <2>2, <2>3, <2>4 DEF Captured
<1>9. CASE FgetsEnd
  <2>1. /\ pc = "fgets" /\ pipe = <<>> /\ ~ Writers /\ pc' = "fclose" /\ Reading /\ ~ Reading'
        /\ UNCHANGED <<out, writes, status, life>>
    BY <1>9 DEF FgetsEnd, Reading, kid
  <2>2. Ended
    <3>1. life # "none" /\ life \notin {"setup", "running"}
      BY <1>0, <1>3, <2>1, ChildCanWrite DEF Lives
    <3> QED
      BY <1>0, <3>1 DEF Typed, Ended
  <2>3. out # <<>>
    <3>1. out \o pipe = Output
      BY <1>4, <1>5, <2>1, <2>2
    <3> QED
      BY <1>0, <1>3, <2>1, <3>1, EmptyOutput
  <2> QED
    BY <1>4, <1>5, <2>1, <2>2, <2>3 DEF Captured
<1>10. CASE MakePipe \/ Fork \/ Spawned \/ SpawnFails \/ CloseWriteEnd \/ Fdopen
  <2>1. Reading /\ Reading' /\ UNCHANGED <<out, pipe, writes, status, command>>
    BY <1>1, <1>3, <1>10 DEF MakePipe, Fork, Spawned, SpawnFails, CloseWriteEnd, Fdopen, Fails,
       Reading, kid
  <2>2. Ended' => Ended
    BY <1>1, <1>3, <1>10 DEF MakePipe, Fork, Spawned, SpawnFails, CloseWriteEnd, Fdopen, Fails,
       Ended, kid
  <2> QED
    BY <1>4, <2>1, <2>2 DEF Captured, Reading, Sent
<1>11. CASE Fclose \/ Cleanup
  <2>1. /\ ~ Reading /\ ~ Reading' /\ UNCHANGED <<out, writes, status, result>>
        /\ pc' \in {"cleanup", "done"} => pc = "cleanup"
    BY <1>11 DEF Fclose, Cleanup, Reading, kid
  <2> QED
    BY <1>4, <2>1 DEF Captured
<1>12. CASE Wait
  <2>1. /\ pc = "wait" /\ pc' = "cleanup" /\ ~ Reading /\ ~ Reading'
        /\ UNCHANGED <<out, writes, status>>
    BY <1>12 DEF Wait, Reading
  <2>2. life # "gone"
    BY <1>0, <1>3, <2>1 DEF Lives
  <2>3. life = "zombie" /\ result' = IF Succeeded THEN 0 ELSE 1
    BY <1>12, <2>2 DEF Wait
  <2>4. Succeeded
    BY <1>4, <1>5, <2>1, <2>3 DEF Succeeded, Ended
  <2> QED
    BY <1>4, <2>1, <2>3, <2>4 DEF Captured
<1>13. CASE HolderExits \/ Finished \/ UNCHANGED vars
  <2>1. UNCHANGED <<command, out, pipe, writes, life, status, pc, result>>
    BY <1>13 DEF HolderExits, Finished, vars, world, parent, kid
  <2> QED
    BY <1>4, <2>1 DEF Captured, Reading, Sent, Ended
<1> QED
  BY <1>6, <1>7, <1>8, <1>9, <1>10, <1>11, <1>12, <1>13 DEF Next, Program

\* capture.h: 0 on success.  It is certain of a command that succeeds, writes
\* its output at once, and is run with no more than one standard descriptor
\* closed, SIGCHLD not ignored and no system call failing.
THEOREM SingleWriteCaptured == Spec => []SingleWriteIsCaptured
<1>1. Init => Captured
  BY CapturedInit
<1>2. ConnectInv /\ CaptureInv /\ Captured /\ [Next]_vars => Captured'
  BY CapturedNext DEF ConnectInv, CaptureInv
<1>3. Captured => SingleWriteIsCaptured
  BY DEF Captured, Certain, SingleWriteIsCaptured
<1> QED
  BY <1>1, <1>2, <1>3, ConnectAlways, CaptureInvAlways, PTL DEF Spec
=============================================================================
