----------------------------- MODULE Textfetch -----------------------------
(***************************************************************************)
(* A run of the program: main (core/textfetch.c) reads the options and     *)
(* calls the parts in order, hw_print_info (core/hardware.c) among them.   *)
(* The parts that have modules of their own with an interleaving of their  *)
(* own - the drives, the terminal and shell, and on Linux the processors   *)
(* and cards - are single steps here: they share neither handles nor       *)
(* buffers with the rest.  Colour and verbosity change how lines look, and *)
(* are left out.                                                           *)
(***************************************************************************)
EXTENDS SystemInfo, AppleDevices, AndroidHardware, MemoryInfo, Batteries

CONSTANT ArgLists   (* what options may be given *)

ASSUME ArgAssumption == ArgLists \subseteq Seq(STRING)

VARIABLES
  argv,    (* the options not yet looked at                  *)
  calls,   (* how many of the parts have been called         *)
  status   (* what main returns or gives exit; -1 until then *)

runVars == <<argv, calls, status>>
vars == <<os, given, unit, pc, held, page, runVars, sysVars, appleVars, phoneVars,
          memVars, batVars>>
partVars == <<sysVars, appleVars, phoneVars, memVars, batVars>>

\* The locals of the parts that hold a handle.
SystemHandles  == {"procs", "os-release", "plist", "plist_fd", "plist_map", "plist_data",
                   "model_key"}
AppleHandles   == {"iterator", "service", "keys", "values", "properties", "model", "parent",
                   "class_code"}
PhoneHandles   == {"cpufreq_dir", "vulkan", "vk_instance"}
MemoryHandles  == {"meminfo", "host_port"}
BatteryHandles == {"supply_dir", "supply_node", "power_info", "power_list"}

ASSUME HandleAssumption ==
  SystemHandles \cup AppleHandles \cup PhoneHandles \cup MemoryHandles \cup BatteryHandles
    \subseteq Handle

Parts == <<"sys_init", "header", "info", "terminal",
           "cpu", "gpu", "memory", "drives", "battery">>

Init ==
  /\ os \in Platform /\ unit = UnitAuto
  /\ pc = "options" /\ given \in ArgLists /\ argv = given /\ calls = 0 /\ status = -1
  /\ held = [h \in Handle |-> 0] /\ page = <<>>
  /\ SysInit /\ AppleInit /\ PhoneInit /\ MemInit /\ BatInit

\* Variant: the first option for the unit stays.
SettingFirst ==
  /\ pc = "options" /\ argv # <<>>
  /\ argv' = Tail(argv)
  /\ \/ /\ Head(argv) \in DOMAIN UnitOf
        /\ unit' = IF unit = UnitAuto THEN UnitOf[Head(argv)] ELSE unit
     \/ Head(argv) \in {"v", "no-color"} /\ UNCHANGED unit
  /\ UNCHANGED <<os, given, pc, held, page, calls, status, partVars>>

\* A unit, or a setting of how the lines look.
Setting ==
  /\ pc = "options" /\ argv # <<>>
  /\ argv' = Tail(argv)
  /\ \/ Head(argv) \in DOMAIN UnitOf /\ unit' = UnitOf[Head(argv)]
     \/ Head(argv) \in {"v", "no-color"} /\ UNCHANGED unit
  /\ UNCHANGED <<os, given, pc, held, page, calls, status, partVars>>

Exit(code) ==
  /\ pc' = "exit" /\ status' = code
  /\ UNCHANGED <<os, given, unit, held, page, argv, calls, partVars>>

\* Help and version end the run at once, and so does an option that is none.
ExitOption ==
  /\ pc = "options" /\ argv # <<>>
  /\ \/ Head(argv) \in {"help", "V"} /\ Exit(0)
     \/ Head(argv) = "?" /\ Exit(1)

\* The next part begins with a page of its own.
Call ==
  /\ \/ pc = "options" /\ argv = <<>>
     \/ pc = "returned" /\ calls < Len(Parts)
  /\ calls' = calls + 1
  /\ page' = <<>>
  /\ Goto(Parts[calls'])
  /\ UNCHANGED <<held, argv, status, partVars>>

MainReturns ==
  /\ pc = "returned" /\ calls = Len(Parts)
  /\ Exit(0)

\* The run is over.
Ended == pc = "exit" /\ UNCHANGED vars

\* The parts modelled on their own.
OtherPart ==
  /\ \/ pc \in {"terminal", "drives"}
     \/ pc \in {"cpu", "gpu"} /\ os = "linux"
  /\ Goto("returned")
  /\ UNCHANGED <<held, page, runVars, partVars>>

Next ==
  \/ Setting \/ ExitOption \/ Call \/ MainReturns \/ OtherPart \/ Ended
  \/ System  /\ UNCHANGED <<runVars, appleVars, phoneVars, memVars, batVars>>
  \/ Apple   /\ UNCHANGED <<runVars, sysVars, phoneVars, memVars, batVars>>
  \/ Phone   /\ UNCHANGED <<runVars, sysVars, appleVars, memVars, batVars>>
  \/ Memory  /\ UNCHANGED <<runVars, sysVars, appleVars, phoneVars, batVars>>
  \/ Battery /\ UNCHANGED <<runVars, sysVars, appleVars, phoneVars, memVars>>

Spec == Init /\ [][Next]_vars
-----------------------------------------------------------------------------
\* The variables of every part are well formed, and a part leaves nothing in them
\* for the next one but the settings and sys_data.
TypeOK ==
  /\ os \in Platform /\ unit \in Unit \cup {UnitAuto}
  /\ calls \in 0 .. Len(Parts) /\ status \in {-1, 0, 1}
  /\ pc = "exit" <=> status # -1
  /\ SysTypeOK /\ AppleTypeOK /\ PhoneTypeOK /\ MemTypeOK /\ BatTypeOK

\* The handles each step uses.
Uses(label) ==
  CASE label = "procs_fetch"  -> {"procs"}
    [] label = "distro"       -> {"os-release"}
    [] label \in {"plist_stat", "plist_map"} -> {"plist_fd"}
    [] label = "plist_data"   -> {"plist_map"}
    [] label = "plist_parse"  -> {"plist_data", "plist_map"}
    [] label = "plist_key"    -> {"plist"}
    [] label = "plist_look_up" -> {"plist", "model_key"}
    [] label \in {"pmgr_next", "gpu_next", "pci_next"} -> {"iterator"}
    [] label \in {"pmgr_node", "gpu_model", "gpu_parent", "pci_class"} ->
         {"iterator", "service"}
    [] label = "pmgr_tables"  -> {"iterator", "service", "properties"}
    [] label = "pmgr_scan"    -> {"service", "properties", "keys", "values"}
    [] label = "gpu_parent_model" -> {"service", "parent"}
    [] label = "pci_display"  -> {"service", "class_code"}
    [] label = "gpu_name"     -> {"service", "model"}
    [] label = "policy_next"  -> {"cpufreq_dir"}
    [] label \in {"vk_symbols", "vk_create", "vk_destroy", "vk_close"} -> {"vulkan"}
    [] label \in {"vk_count", "vk_list", "vk_name"} -> {"vulkan", "vk_instance"}
    [] label = "mem_lines"    -> {"meminfo"}
    [] label = "mem_host"     -> {"host_port"}
    [] label \in {"bat_dir", "bat_type", "bat_scope", "bat_add"} -> {"supply_dir"}
    [] label = "bat_list"     -> {"power_info"}
    [] label = "bat_describe" -> {"power_info", "power_list"}
    [] OTHER                  -> {}

\* On every path, whatever fails: a handle is held when it is used, it is given
\* back exactly once, a Vulkan instance before its library, and none is held
\* when a part returns.
HandlesBalanced ==
  /\ \A h \in Handle : held[h] >= 0
  /\ \A h \in Handle \ {"supply_node"} : held[h] <= 1
  /\ \A h \in Uses(pc) : Holds(h)
  /\ Holds("vk_instance") => Holds("vulkan")
  /\ pc \in {"options", "returned", "exit"} => \A h \in Handle : ~Holds(h)

\* The clock of a Mac is that of the registry; the clock of a phone that of its
\* policies, and its card one that was listed (hw_get_cpu_info and
\* hw_get_gpu_info of macOS and Android).
ProcessorsAreTrue == ClockIsTrue /\ PhoneIsTrue

=============================================================================
