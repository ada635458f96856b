----------------------------- MODULE CaptureLine -----------------------------
(***************************************************************************)
(* capture_line: run a command, keep the first line it writes.             *)
(*                                                                         *)
(* Three processes share one pipe: the program, the child that sets up its *)
(* descriptors and becomes the command, and a process the command may      *)
(* leave behind.  Descriptor tables are modelled, because what the set-up  *)
(* does depends on the numbers pipe() and open() hand out, the lowest ones *)
(* free, and those depend on which of 0, 1 and 2 the program was started   *)
(* with.  linux-common/capture.c forks; macos/capture.c hands posix_spawn  *)
(* a list of descriptor actions.                                           *)
(***************************************************************************)
EXTENDS Integers, Sequences, FiniteSets, SequencesExt, FiniteSetsExt

CONSTANTS
  Commands,    (* what may be run: [out, status, stays] records, where out   *)
               (* is the sequence of the command's writes and a write is a   *)
               (* sequence of "text" and "nl"; or Missing                    *)
  Missing,     (* the name of no program: exec fails                         *)
  NoCommand,   (* there is no call in progress                               *)
  Inherited,   (* the sets of standard descriptors the program starts with   *)
  Dispositions,(* SIGPIPE and SIGCHLD: "default", or "ignored" as inherited  *)
  BufSize,     (* buf_size, in texts                                         *)
  PipeCap      (* how much the pipe holds                                    *)

Texts == Seq({"text", "nl"})

ASSUME CommandAssumption ==
  /\ \A c \in Commands : /\ c.out \in Seq(Texts)
                         /\ c.status \in {"ok", "failed"}
                         /\ c.stays \in BOOLEAN
  /\ Missing \notin Commands
  /\ NoCommand \notin Commands \cup {Missing}
ASSUME InheritedAssumption == Inherited \subseteq SUBSET {0, 1, 2}
\* macOS refuses a buffer of less than two bytes, and no caller has one.
ASSUME SizeAssumption == BufSize \in Nat /\ BufSize >= 2 /\ PipeCap \in Nat

VARIABLES
  os,      (* "linux" or "macos"                                             *)
  command, (* the member of Commands being run                               *)
  std,     (* the standard descriptors open when the program started         *)
  sigpipe, sigchld,
  pc,      (* the program's next statement                                   *)
  fds,     (* the program's descriptor table                                 *)
  rd, wr,  (* pipefd[0] and pipefd[1]                                        *)
  stream,  (* the descriptor of pipe_stream                                  *)
  out,     (* out_buf                                                        *)
  result,
  life,    (* the child: "none", "setup", "running", "zombie" or "gone"      *)
  child,   (* its descriptor table and locals                                *)
  writes,  (* how many of its writes the command has done                    *)
  status,  (* how it ended                                                   *)
  pipe,    (* what has been written and not read                             *)
  holder,  (* a process the command left behind has the pipe open            *)
  fault    (* history: the system calls that failed                          *)

world  == <<os, command, std, sigpipe, sigchld>>
parent == <<pc, fds, rd, wr, stream, out, result>>
kid    == <<life, child, writes, status>>
vars   == <<world, parent, kid, pipe, holder, fault>>
-----------------------------------------------------------------------------
(* Descriptor tables                                                       *)

Fds   == 0 .. 5
NoFd  == -1
Closed == "closed"

LowestFree(t) == Min({f \in Fds : t[f] = Closed})
CloseFd(t, f) == IF f = NoFd THEN t ELSE [t EXCEPT ![f] = Closed]

Holds(t, end) == \E f \in Fds : t[f] = end
NoFiles == [f \in Fds |-> Closed]
StartFiles == [f \in Fds |-> IF f \in std THEN "user" ELSE Closed]

\* The ends of the pipe that are open somewhere.
Readers == Holds(fds, "R") \/ Holds(child.fds, "R")
Writers == Holds(fds, "W") \/ Holds(child.fds, "W") \/ holder
-----------------------------------------------------------------------------
(* What the child does to its descriptors before it becomes the command    *)

\* Variants: the child keeps the read end; its standard error is left alone.
LinuxSetupKeepsRead ==
  <<<<"open">>, <<"dup2", "null", 0>>, <<"dup2", "null", 2>>,
    <<"close", "null">>, <<"dup2", "wr", 1>>, <<"close", "wr">>>>
LinuxSetupLoud ==
  <<<<"close", "rd">>, <<"open">>, <<"dup2", "null", 0>>,
    <<"close", "null">>, <<"dup2", "wr", 1>>, <<"close", "wr">>>>

LinuxSetup ==
  <<<<"close", "rd">>, <<"open">>, <<"dup2", "null", 0>>, <<"dup2", "null", 2>>,
    <<"close", "null">>, <<"dup2", "wr", 1>>, <<"close", "wr">>>>

\* The file actions, in the order they are added.
MacSetup ==
  <<<<"openat", 0>>, <<"openat", 2>>, <<"close", "rd">>, <<"dup2", "wr", 1>>,
    <<"close", "wr">>>>

Setup == IF os = "linux" THEN LinuxSetup ELSE MacSetup
SetupOp == Setup[child.step]
Local(name) == child[name]

\* The command is gone and its descriptors with it; the system reaps it when
\* SIGCHLD is ignored.
ChildEnds(how) ==
  /\ life' = IF sigchld = "ignored" THEN "gone" ELSE "zombie"
  /\ status' = how
  /\ child' = [child EXCEPT !.fds = NoFiles]
  /\ UNCHANGED writes

NextOp(t) == child' = [child EXCEPT !.fds = t, !.step = @ + 1]

ChildDoes(op) ==
  /\ life = "setup"
  /\ child.step <= Len(Setup)
  /\ SetupOp[1] = op
  /\ UNCHANGED <<world, parent, pipe, holder, life, writes, status>>

\* close, of a descriptor that is open; on Linux the two statements about
\* devnull are skipped when it could not be opened.
ChildClose ==
  /\ ChildDoes("close")
  /\ NextOp(CloseFd(child.fds, Local(SetupOp[2])))
  /\ UNCHANGED fault

ChildDup2 ==
  /\ ChildDoes("dup2")
  /\ LET src == Local(SetupOp[2]) IN
     NextOp(IF src = NoFd THEN child.fds
            ELSE [child.fds EXCEPT ![SetupOp[3]] = child.fds[src]])
  /\ UNCHANGED fault

\* open("/dev/null"); Linux goes on without it.
ChildOpenNull ==
  /\ ChildDoes("open")
  /\ \/ LET f == LowestFree(child.fds) IN
        /\ child' = [child EXCEPT !.fds[f] = "null", !.null = f, !.step = @ + 1]
        /\ UNCHANGED fault
     \/ NextOp(child.fds) /\ fault' = fault \cup {"null"}

\* posix_spawn_file_actions_addopen: the file takes the place of whatever
\* has that number.
ChildOpenAt ==
  /\ ChildDoes("openat")
  /\ NextOp([child.fds EXCEPT ![SetupOp[2]] = "null"])
  /\ UNCHANGED fault

\* A dup2 fails: _exit(1).
ChildGivesUp ==
  /\ os = "linux"
  /\ life = "setup"
  /\ child.step <= Len(Setup)
  /\ SetupOp[1] = "dup2"
  /\ Local(SetupOp[2]) # NoFd
  /\ ChildEnds("failed")
  /\ fault' = fault \cup {"dup2"}
  /\ UNCHANGED <<world, parent, pipe, holder>>

Exec ==
  /\ life = "setup"
  /\ child.step > Len(Setup)
  /\ command # Missing
  /\ life' = "running"
  /\ UNCHANGED <<world, parent, child, writes, status, pipe, holder, fault>>

\* execlp returns: _exit(1).
ExecFails ==
  /\ os = "linux"
  /\ life = "setup"
  /\ child.step > Len(Setup)
  /\ command = Missing
  /\ ChildEnds("failed")
  /\ UNCHANGED <<world, parent, pipe, holder, fault>>
-----------------------------------------------------------------------------
(* The command                                                             *)

Writing == life = "running" /\ writes < Len(command.out)
Chunk   == command.out[writes + 1]

\* The next write goes through: into the pipe when there is room and a reader,
\* or out of sight when descriptor 1 is something else.
CommandWrites ==
  /\ Writing
  /\ \/ /\ child.fds[1] = "W"
        /\ Readers
        /\ Len(pipe) + Len(Chunk) <= PipeCap
        /\ pipe' = pipe \o Chunk
     \/ child.fds[1] \in {"user", "null"} /\ UNCHANGED pipe
  /\ writes' = writes + 1
  /\ UNCHANGED <<world, parent, life, child, status, holder, fault>>

\* The write fails: no reader, or no descriptor.  SIGPIPE kills; an error code
\* makes the command fail, or it does not look.
WriteFails ==
  /\ Writing
  /\ \/ child.fds[1] = "W" /\ ~Readers
     \/ child.fds[1] = Closed
  /\ IF child.fds[1] = "W" /\ sigpipe = "default"
       THEN ChildEnds("signalled")
       ELSE \/ ChildEnds("failed")
            \/ writes' = writes + 1 /\ UNCHANGED <<life, child, status>>
  /\ UNCHANGED <<world, parent, pipe, holder, fault>>

CommandExits ==
  /\ life = "running"
  /\ writes = Len(command.out)
  /\ ChildEnds(command.status)
  /\ holder' = (command.stays /\ child.fds[1] = "W")
  /\ UNCHANGED <<world, parent, pipe, fault>>

\* What the command left behind ends some day, or never.
HolderExits ==
  /\ holder
  /\ holder' = FALSE
  /\ UNCHANGED <<world, parent, kid, pipe, fault>>
-----------------------------------------------------------------------------
(* The program                                                             *)

NoChild == [fds |-> NoFiles, rd |-> NoFd, wr |-> NoFd, null |-> NoFd, step |-> 1]

Init ==
  /\ os \in {"linux", "macos"}
  /\ command \in Commands \cup {Missing}
  /\ std \in Inherited
  /\ sigpipe \in Dispositions
  /\ sigchld \in Dispositions
  /\ pc = "pipe"
  /\ fds = StartFiles
  /\ rd = NoFd /\ wr = NoFd /\ stream = NoFd
  /\ out = <<>>
  /\ result = -1
  /\ life = "none"
  /\ child = NoChild
  /\ writes = 0
  /\ status = "none"
  /\ pipe = <<>>
  /\ holder = FALSE
  /\ fault = {}

Fails(call, label) ==
  /\ fault' = fault \cup {call}
  /\ pc' = label

MakePipe ==
  /\ pc = "pipe"
  /\ \/ LET r == LowestFree(fds)
            w == LowestFree([fds EXCEPT ![r] = "R"]) IN
        /\ fds' = [fds EXCEPT ![r] = "R", ![w] = "W"]
        /\ rd' = r /\ wr' = w
        /\ pc' = "fork"
        /\ UNCHANGED fault
     \/ Fails("pipe", "cleanup") /\ UNCHANGED <<fds, rd, wr>>
  /\ UNCHANGED <<world, stream, out, result, kid, pipe, holder>>

\* fork, or the process posix_spawn makes.
Fork ==
  /\ pc = "fork"
  /\ \/ /\ life' = "setup"
        /\ child' = [NoChild EXCEPT !.fds = fds, !.rd = rd, !.wr = wr]
        /\ pc' = IF os = "linux" THEN "closeW" ELSE "spawn"
        /\ UNCHANGED fault
     \/ Fails("fork", "cleanup") /\ UNCHANGED <<life, child>>
  /\ UNCHANGED <<world, fds, rd, wr, stream, out, result, writes, status, pipe, holder>>

\* posix_spawnp returns once the command runs,
Spawned ==
  /\ pc = "spawn"
  /\ life \notin {"none", "setup"}
  /\ pc' = "closeW"
  /\ UNCHANGED <<world, fds, rd, wr, stream, out, result, kid, pipe, holder, fault>>

\* or with an error, and no child to wait for: a file action failed, or there
\* is no such program.
SpawnFails ==
  /\ pc = "spawn"
  /\ life = "setup"
  /\ \/ child.step <= Len(Setup) /\ Fails("spawn", "cleanup")
     \/ child.step > Len(Setup) /\ command = Missing /\ pc' = "cleanup" /\ UNCHANGED fault
  /\ life' = "gone"
  /\ child' = [child EXCEPT !.fds = NoFiles]
  /\ status' = "failed"
  /\ UNCHANGED <<world, fds, rd, wr, stream, out, result, writes, pipe, holder>>

\* Variant: the program keeps its copy of the write end until it returns.
CloseWriteEndLater ==
  /\ pc = "closeW"
  /\ pc' = "fdopen"
  /\ UNCHANGED <<world, fds, rd, wr, stream, out, result, kid, pipe, holder, fault>>

CloseWriteEnd ==
  /\ pc = "closeW"
  /\ fds' = CloseFd(fds, wr)
  /\ wr' = NoFd
  /\ pc' = "fdopen"
  /\ UNCHANGED <<world, rd, stream, out, result, kid, pipe, holder, fault>>

\* Variant: a stream that cannot be made leaves the descriptor open.
FdopenLeaks ==
  /\ pc = "fdopen"
  /\ rd' = NoFd
  /\ \/ stream' = rd /\ pc' = "fgets" /\ UNCHANGED fault
     \/ Fails("fdopen", "wait") /\ UNCHANGED stream
  /\ UNCHANGED <<world, fds, wr, out, result, kid, pipe, holder>>

\* Variant: pipefd[0] is not forgotten when the stream takes it over.
FdopenKeepsFd ==
  /\ pc = "fdopen"
  /\ stream' = rd
  /\ pc' = "fgets"
  /\ UNCHANGED <<world, fds, rd, wr, out, result, kid, pipe, holder, fault>>

Fdopen ==
  /\ pc = "fdopen"
  /\ rd' = NoFd
  /\ \/ stream' = rd /\ pc' = "fgets" /\ UNCHANGED <<fds, fault>>
     \/ Fails("fdopen", "wait") /\ fds' = CloseFd(fds, rd) /\ UNCHANGED stream
  /\ UNCHANGED <<world, wr, out, result, kid, pipe, holder>>

\* fgets takes what is there up to a newline or the end of its buffer.
Fgets ==
  /\ pc = "fgets"
  /\ pipe # <<>>
  /\ pipe' = Tail(pipe)
  /\ out' = IF Head(pipe) = "nl" THEN out ELSE Append(out, "text")
  /\ pc' = IF Head(pipe) = "nl" \/ Len(out) + 2 = BufSize THEN "fclose" ELSE pc
  /\ UNCHANGED <<world, fds, rd, wr, stream, result, kid, holder, fault>>

FgetsEnd ==
  /\ pc = "fgets"
  /\ pipe = <<>>
  /\ ~Writers
  /\ pc' = "fclose"
  /\ UNCHANGED <<world, fds, rd, wr, stream, out, result, kid, pipe, holder, fault>>

Fclose ==
  /\ pc = "fclose"
  /\ fds' = CloseFd(fds, stream)
  /\ stream' = NoFd
  /\ pc' = "wait"
  /\ UNCHANGED <<world, rd, wr, out, result, kid, pipe, holder, fault>>

\* Variant: any exit will do.
SucceededAnyhow == status # "signalled" /\ out # <<>>

\* WIFEXITED, WEXITSTATUS and a line.
Succeeded == status = "ok" /\ out # <<>>

\* Variant: waitpid with WNOHANG.
WaitNoHang ==
  /\ pc = "wait"
  /\ result' = IF life = "zombie" /\ Succeeded THEN 0 ELSE 1
  /\ life' = IF life = "zombie" THEN "gone" ELSE life
  /\ pc' = "cleanup"
  /\ UNCHANGED <<world, fds, rd, wr, stream, out, child, writes, status, pipe, holder, fault>>

\* waitpid, retried on EINTR.  A child the system has reaped is an error.
Wait ==
  /\ pc = "wait"
  /\ \/ /\ life = "zombie"
        /\ life' = "gone"
        /\ result' = IF Succeeded THEN 0 ELSE 1
     \/ life = "gone" /\ result' = 1 /\ UNCHANGED life
  /\ pc' = "cleanup"
  /\ UNCHANGED <<world, fds, rd, wr, stream, out, child, writes, status, pipe, holder, fault>>

Cleanup ==
  /\ pc = "cleanup"
  /\ fds' = CloseFd(CloseFd(fds, rd), wr)
  /\ rd' = NoFd /\ wr' = NoFd
  /\ pc' = "done"
  /\ UNCHANGED <<world, stream, out, result, kid, pipe, holder, fault>>
-----------------------------------------------------------------------------
Program ==
  \/ MakePipe \/ Fork \/ Spawned \/ SpawnFails \/ CloseWriteEnd \/ Fdopen
  \/ Fgets \/ FgetsEnd \/ Fclose \/ Wait \/ Cleanup

Child ==
  \/ ChildClose \/ ChildDup2 \/ ChildOpenNull \/ ChildOpenAt \/ ChildGivesUp
  \/ Exec \/ ExecFails

Command == CommandWrites \/ WriteFails \/ CommandExits

Finished ==
  /\ pc = "done"
  /\ life \in {"none", "gone"}
  /\ UNCHANGED vars

Next == Program \/ Child \/ Command \/ HolderExits \/ Finished

\* The system runs the program and the child.  The commands of the model are
\* ones that end when left alone; what they leave behind need not.
Spec == Init /\ [][Next]_vars
        /\ WF_vars(Program) /\ WF_vars(Child) /\ WF_vars(Command)
-----------------------------------------------------------------------------
\* The variables are well formed, and a descriptor number the program keeps is
\* that of the end it stands for: nothing is closed twice, or closed when it
\* has become something else.
TypeOK ==
  /\ fds \in [Fds -> {Closed, "user", "R", "W"}]
  /\ child.fds \in [Fds -> {Closed, "user", "null", "R", "W"}]
  /\ {rd, wr, stream, child.rd, child.wr, child.null} \subseteq Fds \cup {NoFd}
  /\ rd # NoFd => fds[rd] = "R"
  /\ wr # NoFd => fds[wr] = "W"
  /\ stream # NoFd => fds[stream] = "R"
  /\ rd = NoFd \/ rd # stream
  /\ child.step \in 1 .. Len(Setup) + 1
  /\ life \in {"none", "setup", "running", "zombie", "gone"}
  /\ status \in {"none", "ok", "failed", "signalled"}
  /\ (status = "none") <=> (life \in {"none", "setup", "running"})
  /\ Len(pipe) <= PipeCap /\ Len(out) < BufSize
  /\ result \in {-1, 0, 1}

\* Whatever failed, a call that has returned leaves the descriptor table as it
\* found it and no child unreaped (tests/platform/test_capture.c tries the
\* failure of fork alone).
ReleasesEverything ==
  pc = "done" => fds = StartFiles /\ life \in {"none", "gone"}

\* When the command starts, the pipe's write end is at most its standard
\* output and the read end is not there at all: the program sees the end of
\* the output when the command ends, and a full pipe cannot wait for itself.
PipeEndsConfined ==
  life = "running" =>
    \A f \in Fds : child.fds[f] # "R" /\ (child.fds[f] = "W" => f = 1)

\* The command can neither read from the user's terminal nor write errors to
\* it, unless /dev/null could not be opened, which the Linux code tolerates.
CommandIsSilenced ==
  life = "running" /\ "null" \notin fault =>
    child.fds[0] # "user" /\ child.fds[2] # "user"

MostlyOpen == Cardinality({0, 1, 2} \ std) <= 1

\* The command writes into the pipe when the program was started with at most
\* one standard descriptor closed: the renumbering cannot lose the write end.
OutputReachesPipe ==
  life = "running" /\ MostlyOpen => child.fds[1] = "W"

\* What the command is started with: its output in the pipe, and nothing of the
\* terminal's.
CommandIsConnected == CommandIsSilenced /\ OutputReachesPipe

FirstLine(c) ==
  LET all  == FlattenSeq(c.out)
      ends == {j \in DOMAIN all : all[j] = "nl"}
      line == IF ends = {} THEN all ELSE SubSeq(all, 1, Min(ends) - 1)
  IN  IF Len(line) < BufSize THEN line ELSE SubSeq(line, 1, BufSize - 1)

LineOf(c) == IF c = Missing THEN <<>> ELSE FirstLine(c)
EndsWell(c) == c # Missing /\ c.status = "ok"
Returned == pc = "done"

\* capture_line is one answer: 0 only with the first line, as much of it as
\* fits, of a command that ends with status 0; 1 with no more than part of that
\* line; -1 with nothing (capture.h).
Cap == INSTANCE CaptureSpec WITH
         Command <- Commands \cup {Missing},
         Line <- LineOf,
         Succeeds <- EndsWell,
         asked <- IF Returned THEN NoCommand ELSE command,
         result <- IF Returned THEN result ELSE -1,
         line <- IF Returned THEN out ELSE <<>>
ImplementsCapture == Cap!CapSpec

\* What the header promises, when nothing went wrong in the system: a command
\* that succeeds, and whose first line is not empty, gives 0.
Promise(c) ==
  /\ c # Missing
  /\ c.status = "ok"
  /\ FirstLine(c) # <<>>
  /\ fault = {}
  /\ sigchld = "default"

\* capture.h, "0 on success, 1 if the command fails or produces no output",
\* holds of a command whose output is a single write, with at most one
\* standard descriptor closed.
SingleWriteIsCaptured ==
  pc = "done" /\ Promise(command) /\ MostlyOpen /\ Len(command.out) = 1 => result = 0

\* The same of a command with any number of writes.
CommandThatSucceedsIsCaptured ==
  pc = "done" /\ Promise(command) /\ MostlyOpen => result = 0

\* The same of a single write, whatever descriptors the program started with.
CapturedWithAnyDescriptors ==
  pc = "done" /\ Promise(command) /\ Len(command.out) = 1 => result = 0

\* The call returns, if the command leaves nothing behind that has the pipe
\* open, or has written a line by then.
CaptureReturns ==
  (command = Missing \/ ~command.stays \/ "nl" \in ToSet(FlattenSeq(command.out)))
    ~> (pc = "done")
=============================================================================
