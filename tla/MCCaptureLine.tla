---------------------------- MODULE MCCaptureLine ----------------------------
(* Commands that write nothing, a blank line, one line, two lines, a line in *)
(* two writes, more than fits; that fail; that leave a process behind.       *)
EXTENDS CaptureLine

Cmd(o, s, l) == [out |-> o, status |-> s, stays |-> l]
Line == <<"text", "nl">>

MCCommands ==
  {Cmd(<<>>, "ok", FALSE), Cmd(<<<<"nl">>>>, "ok", FALSE),
   Cmd(<<Line>>, "ok", FALSE), Cmd(<<Line>>, "failed", FALSE),
   Cmd(<<Line, Line>>, "ok", FALSE), Cmd(<<<<"text">>, Line>>, "ok", FALSE),
   Cmd(<<<<"text", "text", "text">>, <<"nl">>>>, "ok", FALSE),
   Cmd(<<<<"text">>>>, "ok", TRUE), Cmd(<<Line>>, "ok", TRUE)}

AnyStandard == SUBSET {0, 1, 2}
AllStandard == {{0, 1, 2}}
OnlyStandardOutput == {{1}}
=============================================================================
