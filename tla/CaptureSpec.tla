----------------------------- MODULE CaptureSpec -----------------------------
(***************************************************************************)
(* What a caller of capture_line may rely on (include/capture.h), with no  *)
(* process and no pipe in sight: a command is asked for, and one answer    *)
(* comes back.  CaptureLine.tla is shown to implement it, and              *)
(* ShellLookup.tla uses it in place of the pipe.                           *)
(***************************************************************************)
EXTENDS Integers, Sequences, SequencesExt

CONSTANTS Command,      (* what may be asked for                            *)
          NoCommand,    (* no call is in progress                           *)
          Line(_),      (* the first line a command writes, as much of it   *)
                        (* as the caller's buffer takes                     *)
          Succeeds(_)   (* the command ends with status 0                   *)

VARIABLES asked,   (* the command of the call in progress, or NoCommand     *)
          result,  (* what the last call returned                           *)
          line     (* the caller's buffer                                   *)

capVars == <<asked, result, line>>

CapInit ==
  /\ asked \in Command \cup {NoCommand}
  /\ result = -1
  /\ line = <<>>

Ask(c) ==
  /\ asked = NoCommand
  /\ asked' = c
  /\ result' = -1
  /\ line' = <<>>

\* 0: the command succeeded, and here is its line.  1: it failed, or said
\* nothing, or could not be told to have succeeded; part of its line may be
\* there.  -1: it has not been run.
Answer ==
  /\ asked # NoCommand
  /\ asked' = NoCommand
  /\ \/ /\ Succeeds(asked)
        /\ Line(asked) # <<>>
        /\ result' = 0
        /\ line' = Line(asked)
     \/ result' = 1 /\ line' \in Prefixes(Line(asked))
     \/ result' = -1 /\ line' = <<>>

CapNext == Answer \/ \E c \in Command : Ask(c)

CapSpec == CapInit /\ [][CapNext]_capVars
=============================================================================
