----------------------------- MODULE ShellLookup -----------------------------
(***************************************************************************)
(* term_get_shell (linux-common/terminal.c, macos/terminal.c) over          *)
(* posix/terminal.c: the shell is taken to be the parent process; its name  *)
(* is looked up, the program of that name is asked for its version through  *)
(* capture_line, and the answer is cut down to a name and a version.  On    *)
(* every failure the shell of the environment is shown instead.             *)
(*                                                                          *)
(* Meanwhile the parent may exit, its number may be given to another        *)
(* process, and any process may exec and change its name.  capture_line is  *)
(* CaptureSpec, which CaptureLine.tla implements.                           *)
(***************************************************************************)
EXTENDS Integers, Sequences, SequencesExt, FiniteSetsExt

CONSTANTS
  Name,       (* what processes are called                                   *)
  ReaperName, (* the name of process 1, which inherits orphans               *)
  SelfName,   (* the name of the program itself                              *)
  NoName,     (* nothing has been read                                       *)
  NoCommand,  (* capture_line is at rest                                     *)
  Envs,       (* $SHELL: its components, <<>> when unset or empty            *)
  Lines,      (* the first lines commands write: sequences of tokens         *)
  MaxMoves    (* how often processes may exit, begin or exec in a run        *)

VARIABLES
  os, env,
  table,    (* the kernel's processes: a name for each number in use         *)
  ppid,     (* the number of the program's parent                            *)
  moves,    (* how many exits, beginnings and execs there have been          *)
  parents,  (* history: the names the program's parent has had               *)
  recycled, (* history: a number has been given to a second process          *)
  pc,
  pid,      (* ppid, the local variable                                      *)
  fp,       (* the open /proc/<pid>/comm: a number, Closed, or Stale once    *)
            (* that process is gone                                          *)
  comm,     (* comm_buf, pathbuf                                             *)
  out,      (* out_buf                                                       *)
  asked, result, line    (* capture_line's                                   *)

capVars == <<asked, result, line>>
system  == <<os, env, table, ppid, moves, parents, recycled>>
vars    == <<system, pc, pid, fp, comm, out, capVars>>

Reaper == 1
Shell  == 2
Self   == 3
Pids   == {Reaper, Shell, Self}
Closed == 0
Stale  == -1

\* What may answer to a name: a command with any first line, that ends well
\* or does not.
Command == [name : Name \cup {ReaperName, SelfName}, first : Lines, good : BOOLEAN]
LineOf(c)   == c.first
EndsWell(c) == c.good

Cap == INSTANCE CaptureSpec WITH Line <- LineOf, Succeeds <- EndsWell
\* A line is made of words, numbers and the characters that matter; "paren"
\* opens.
Token == {"GNU", "word", "comma", "version", "blank", "digit", "paren"}

ASSUME LinesAssumption == Lines \subseteq Seq(Token)
-----------------------------------------------------------------------------
(* term_sanitize_name                                                      *)

\* The position of the first token of S in l, 0 when there is none.
FirstOf(l, S) ==
  LET those == {j \in DOMAIN l : l[j] \in S}
  IN  IF those = {} THEN 0 ELSE Min(those)

Marker == <<"comma", "blank", "version">>

StripGnu(l) == IF IsPrefix(<<"GNU", "blank">>, l) THEN SubSeq(l, 3, Len(l)) ELSE l

StripMarker(l) ==
  LET those == {j \in DOMAIN l : IsPrefix(Marker, SubSeq(l, j, Len(l)))}
      at    == Min(those)
  IN  IF those = {} THEN l ELSE SubSeq(l, 1, at - 1) \o SubSeq(l, at + 3, Len(l))

\* What stands between the first word and the version goes.
CloseGap(l) ==
  LET version == FirstOf(l, {"digit"})
      end     == FirstOf(l, {"blank"})
  IN  IF 0 < end /\ end < version
        THEN SubSeq(l, 1, end) \o SubSeq(l, version, Len(l)) ELSE l

\* And what follows the version.
CutGarbage(l) ==
  LET version == FirstOf(l, {"digit"})
      tail    == SubSeq(l, version, Len(l))
      garbage == FirstOf(tail, {"blank", "paren"})
  IN  IF version = 0 \/ garbage = 0 THEN l ELSE SubSeq(l, 1, version + garbage - 2)

\* Variant: the cut is made before the gap is closed.
SanitizeCutsFirst(l) == CloseGap(StripMarker(StripGnu(CutGarbage(StripMarker(l)))))

Sanitize(l) == CutGarbage(CloseGap(StripMarker(StripGnu(l))))

\* term_fallback_shell: what follows the last slash of $SHELL.
FallbackShell == IF env = <<>> THEN <<"sh">> ELSE <<Last(env)>>
-----------------------------------------------------------------------------
Init ==
  /\ os \in {"linux", "macos"}
  /\ env \in Envs
  /\ \E n \in Name : /\ table = [p \in Pids |-> CASE p = Reaper -> ReaperName
                                                  [] p = Shell -> n
                                                  [] p = Self -> SelfName]
                     /\ parents = {n}
  /\ ppid = Shell
  /\ moves = 0
  /\ recycled = FALSE
  /\ pc = "start"
  /\ pid = 0
  /\ fp = Closed
  /\ comm = NoName
  /\ out = <<>>
  /\ Cap!CapInit /\ asked = NoCommand

Moves ==
  /\ moves < MaxMoves
  /\ moves' = moves + 1
  /\ UNCHANGED <<os, env, pc, pid, comm, out, capVars>>

\* The parent exits: the program goes to the reaper, and a comm file that is
\* open reads as an error from now on.
ParentExits ==
  /\ Moves
  /\ ppid = Shell
  /\ ppid' = Reaper
  /\ table' = [table EXCEPT ![Shell] = NoName]
  /\ parents' = parents \cup {table[Reaper]}
  /\ fp' = IF fp = Shell THEN Stale ELSE fp
  /\ UNCHANGED recycled

\* The number the parent had is used again.
NumberRecycled(n) ==
  /\ Moves
  /\ table[Shell] = NoName
  /\ table' = [table EXCEPT ![Shell] = n]
  /\ recycled' = TRUE
  /\ UNCHANGED <<ppid, parents, fp>>

\* The parent, or the process that has its number, becomes another program.
Execs(n) ==
  /\ Moves
  /\ table[Shell] \notin {NoName, n}
  /\ table' = [table EXCEPT ![Shell] = n]
  /\ parents' = IF ppid = Shell THEN parents \cup {n} ELSE parents
  /\ UNCHANGED <<ppid, recycled, fp>>

Kernel ==
  \/ ParentExits
  \/ \E n \in Name : NumberRecycled(n) \/ Execs(n)
-----------------------------------------------------------------------------
Goto(label) == pc' = label /\ UNCHANGED system

\* The environment's shell is the answer until there is a better one; Linux
\* writes it down before it looks for the parent, macOS after.
Fallback ==
  /\ pc = IF os = "linux" THEN "start" ELSE "fallback"
  /\ out' = FallbackShell
  /\ Goto(IF os = "linux" THEN "getppid" ELSE "pidpath")
  /\ UNCHANGED <<pid, fp, comm, capVars>>

\* Variant: the program's own number.
GetPid ==
  /\ pc = IF os = "linux" THEN "getppid" ELSE "start"
  /\ pid' = Self
  /\ Goto(IF os = "linux" THEN "open" ELSE "fallback")
  /\ UNCHANGED <<fp, comm, out, capVars>>

GetPpid ==
  /\ pc = IF os = "linux" THEN "getppid" ELSE "start"
  /\ pid' = ppid
  /\ Goto(IF os = "linux" THEN "open" ELSE "fallback")
  /\ UNCHANGED <<fp, comm, out, capVars>>

\* fopen of /proc/<pid>/comm.
OpenComm ==
  /\ pc = "open"
  /\ \/ table[pid] # NoName /\ fp' = pid /\ Goto("fgets")
     \/ Goto("cleanup") /\ UNCHANGED fp
  /\ UNCHANGED <<pid, comm, out, capVars>>

ReadComm ==
  /\ pc = "fgets"
  /\ IF fp = Stale THEN Goto("cleanup") /\ UNCHANGED comm
                   ELSE comm' = table[fp] /\ Goto("fclose")
  /\ UNCHANGED <<pid, fp, out, capVars>>

CloseComm ==
  /\ pc = "fclose"
  /\ fp' = Closed
  /\ Goto("ask")
  /\ UNCHANGED <<pid, comm, out, capVars>>

\* macOS: proc_pidpath.
PidPath ==
  /\ pc = "pidpath"
  /\ \/ table[pid] # NoName /\ comm' = table[pid] /\ Goto("ask")
     \/ Goto("cleanup") /\ UNCHANGED comm
  /\ UNCHANGED <<pid, fp, out, capVars>>

\* capture_line is called: whatever program has that name is run.
AskVersion ==
  /\ pc = "ask"
  /\ \E c \in Command : c.name = comm /\ Cap!Ask(c)
  /\ Goto("asked")
  /\ UNCHANGED <<pid, fp, comm, out>>

AnswerVersion ==
  /\ pc = "asked"
  /\ Cap!Answer
  /\ Goto("answered")
  /\ UNCHANGED <<pid, fp, comm, out>>

\* Variant: the line is used although the call has failed.
UseAnyAnswer ==
  /\ pc = "answered"
  /\ out' = Sanitize(line)
  /\ Goto("cleanup")
  /\ UNCHANGED <<pid, fp, comm, capVars>>

UseAnswer ==
  /\ pc = "answered"
  /\ out' = IF result = 0 THEN Sanitize(line) ELSE out
  /\ Goto("cleanup")
  /\ UNCHANGED <<pid, fp, comm, capVars>>

\* Variant: nothing is left to close.
CleanupLeaks ==
  /\ pc = "cleanup"
  /\ Goto("done")
  /\ UNCHANGED <<pid, fp, comm, out, capVars>>

Cleanup ==
  /\ pc = "cleanup"
  /\ fp' = Closed
  /\ Goto("done")
  /\ UNCHANGED <<pid, comm, out, capVars>>

Program ==
  \/ Fallback \/ GetPpid \/ OpenComm \/ ReadComm \/ CloseComm \/ PidPath
  \/ AskVersion \/ AnswerVersion \/ UseAnswer \/ Cleanup

Next ==
  \/ Program
  \/ pc # "done" /\ Kernel
  \/ pc = "done" /\ UNCHANGED vars

Spec == Init /\ [][Next]_vars
-----------------------------------------------------------------------------
\* The variables are well formed, and the comm file is open just while it is
\* being read: on no path is it left open, or closed twice.
TypeOK ==
  /\ table \in [Pids -> Name \cup {ReaperName, SelfName, NoName}]
  /\ ppid \in {Reaper, Shell}
  /\ pid \in Pids \cup {0}
  /\ comm \in Name \cup {ReaperName, SelfName, NoName}
  /\ asked \in Command \cup {NoCommand}
  /\ fp # Closed => os = "linux" /\ pc \in {"fgets", "fclose", "cleanup"}
  /\ pc \in {"fgets", "fclose"} => fp # Closed
  /\ out = <<>> => pc \in {"start", "getppid", "fallback", "cleanup", "done"}

\* The program that is run is called like the parent, as it is or was, or like
\* the process it was left to; only a number that is used again can mislead
\* the lookup (getppid and the read of its name are two calls).
AsksAParent ==
  comm # NoName =>
    \/ comm \in parents
    \/ recycled /\ comm \in Name /\ pid = Shell

\* The answer is the clean first line of a program that succeeded, or else the
\* shell of the environment, whichever call failed and whatever part of a line
\* was left in the buffer.
ShownIsAnswerOrFallback ==
  pc = "done" => out = IF result = 0 THEN Sanitize(line) ELSE FallbackShell

\* The first word after "GNU ", and the version up to a blank or a "(".
NameIn(l) ==
  LET rest == StripMarker(StripGnu(l))
  IN  SubSeq(rest, 1, FirstOf(rest \o <<"blank">>, {"blank"}) - 1)
VersionIn(l) ==
  LET at == FirstOf(l, {"digit"})
      s  == SubSeq(l, at, Len(l)) \o <<"blank">>
  IN  SubSeq(s, 1, FirstOf(s, {"blank", "paren"}) - 1)

\* A line that names a program and then, after a blank, a version, with no
\* ", version" behind it: what the shells answer.
IsVersionLine(l) ==
  LET digit == FirstOf(l, {"digit"})
      rest  == StripGnu(l)
      tail  == SubSeq(l, digit, Len(l))
  IN  /\ digit > 1
      /\ l[digit - 1] = "blank"
      /\ NameIn(l) # <<>>
      /\ FirstOf(rest, {"digit"}) > Len(NameIn(l))
      /\ StripMarker(tail) = tail

\* Of such a line the name and the version are shown, and nothing else
\* (term_sanitize_name; tests/core/test_terminal.c has eight such lines).
NameAndVersion ==
  pc = "done" /\ result = 0 /\ IsVersionLine(line) =>
    out = NameIn(line) \o <<"blank">> \o VersionIn(line)
=============================================================================
