------------------------------ MODULE Program ------------------------------
(***************************************************************************)
(* What the parts of a run of textfetch share: the platform, the unit that *)
(* sizes are printed in, the place of control, the handles that are held   *)
(* and the lines printed.                                                  *)
(*                                                                         *)
(* There is one thread.  A part begins when pc is its name and gives       *)
(* control back by setting pc to "returned"; Textfetch.tla calls the parts *)
(* in order.  A handle is anything the platform gives that must be given   *)
(* back: a stream, a directory, memory, an IOKit or CoreFoundation         *)
(* reference, a library.                                                   *)
(***************************************************************************)
EXTENDS Integers, Sequences

CONSTANT Handle  (* the handles, one name for each local that holds one *)

VARIABLES
  os,     (* the platform the program is built for                    *)
  given,  (* the options of the run, as getopt_long returns them      *)
  unit,   (* output_unit: the forced unit, or UnitAuto                *)
  pc,
  held,   (* how many times each handle has been acquired and not     *)
          (* yet released                                             *)
  page    (* the lines printed by the part that is running            *)

Platform == {"linux", "android", "macos"}
OnLinux  == os \in {"linux", "android"}

Acquire(hs) == held' = [h \in Handle |-> held[h] + IF h \in hs THEN 1 ELSE 0]
Release(hs) == held' = [h \in Handle |-> held[h] - IF h \in hs THEN 1 ELSE 0]
Holds(h)    == held[h] > 0

\* ui_print_info.
PrintLine(label, text) == page' = Append(page, [label |-> label, text |-> text])

Goto(label) == pc' = label /\ UNCHANGED <<os, given, unit>>
=============================================================================
