--------------------------- MODULE Textfetch_proofs ---------------------------
(***************************************************************************)
(* Proofs about a run of textfetch, for every machine and every answer of   *)
(* the platform.                                                            *)
(*                                                                          *)
(* IInv is about control.  HandlesBalanced says what is held when a part    *)
(* returns; IInv says it of every place of control: of each handle, at      *)
(* which labels it is held for sure and at which it may be held - those of  *)
(* the clean-up code that asks before it gives back.  A part touches no     *)
(* handle but its own, and is at rest while another one runs.               *)
(*                                                                          *)
(* Data is about what is told.  For each part it says how far the part has  *)
(* got through what it reads, and that what it has kept is what was read so *)
(* far: the lines of a file, the supplies of a directory, the policies of a *)
(* phone, the nodes of a registry.  At the end of the loop that is all of   *)
(* it, and the page that is printed tells it.  IInv /\ Data is inductive.   *)
(*                                                                          *)
(* The last section is about the bitset in which the processors are         *)
(* counted: it behaves as a set of the numbers below its capacity, for      *)
(* every block size and every capacity, a multiple of it or not.            *)
(***************************************************************************)
EXTENDS Textfetch, Facts, SequenceTheorems, TLAPS

SystemLabels ==
  {"procs_size", "procs_fetch", "distro", "model", "sw_vers", "plist_open", "plist_stat",
   "plist_map", "plist_data", "plist_parse", "plist_close", "plist_key", "plist_look_up",
   "info_print", "info_shown"}
AppleLabels ==
  {"pmgr_match", "pmgr_next", "pmgr_node", "pmgr_tables", "pmgr_scan", "pmgr_scanned",
   "cpu_print", "gpu_next", "gpu_model", "gpu_parent", "gpu_parent_model",
   "gpu_parent_release", "gpu_name", "gpu_release", "gpu_pci", "pci_next", "pci_class",
   "pci_display", "gpu_soc", "gpu_print", "apple_shown"}
PhoneLabels ==
  {"policy_next", "policy_cpu0", "phone_cpu", "vk_symbols", "vk_create", "vk_count",
   "vk_list", "vk_name", "vk_destroy", "vk_close", "gpu_property", "phone_gpu", "phone_shown"}
MemoryLabels ==
  {"mem_lines", "mem_host", "mem_swap", "mem_print", "mem_shown"}
BatteryLabels ==
  {"bat_dir", "bat_type", "bat_scope", "bat_add", "bat_next", "bat_read", "bat_shown",
   "bat_list", "bat_describe", "bat_release"}

\* Where a handle is held, and where it may be.
HeldAt(h, sure, maybe) ==
  /\ held[h] \in {0, 1}
  /\ pc \in sure => held[h] = 1
  /\ pc \notin sure \cup maybe => held[h] = 0

HeldSystem ==
  /\ HeldAt("procs", {"procs_fetch"}, {})
  /\ HeldAt("os-release", {"distro"}, {})
  /\ HeldAt("plist_fd", {"plist_stat", "plist_map", "plist_data", "plist_parse"},
                        {"plist_close"})
  /\ HeldAt("plist_map", {"plist_data", "plist_parse"}, {"plist_close"})
  /\ HeldAt("plist_data", {"plist_parse"}, {"plist_close"})
  /\ HeldAt("plist", {"plist_key", "plist_look_up"}, {"plist_close"})
  /\ HeldAt("model_key", {"plist_look_up"}, {})

HeldApple ==
  /\ HeldAt("iterator",
            AppleLabels \ {"pmgr_match", "cpu_print", "gpu_pci", "gpu_soc", "gpu_print",
                           "apple_shown"}, {})
  /\ HeldAt("service",
            {"pmgr_node", "pmgr_tables", "pmgr_scan", "pmgr_scanned", "gpu_model",
             "gpu_parent", "gpu_parent_model", "gpu_parent_release", "gpu_name",
             "gpu_release", "pci_class", "pci_display"}, {})
  /\ HeldAt("properties", {"pmgr_tables", "pmgr_scan"}, {"pmgr_scanned"})
  /\ HeldAt("keys", {"pmgr_scan"}, {"pmgr_scanned"})
  /\ HeldAt("values", {"pmgr_scan"}, {"pmgr_scanned"})
  /\ HeldAt("model", {"gpu_name"}, {"gpu_parent_release"})
  /\ HeldAt("parent", {"gpu_parent_model", "gpu_parent_release"}, {})
  /\ HeldAt("class_code", {"pci_display"}, {"gpu_name", "gpu_release"})

HeldPhone ==
  /\ HeldAt("cpufreq_dir", {"policy_next"}, {})
  /\ HeldAt("vulkan", {"vk_symbols", "vk_create", "vk_count", "vk_list", "vk_name",
                       "vk_destroy", "vk_close"}, {})
  /\ HeldAt("vk_instance", {"vk_count", "vk_list", "vk_name"}, {"vk_destroy"})

HeldMemory ==
  /\ pc = "mem_lines" => OnLinux
  /\ pc \in {"mem_host", "mem_swap"} => os = "macos"
  /\ OnLinux => HeldAt("meminfo", {"mem_lines", "mem_print", "mem_shown"}, {})
  /\ ~OnLinux => held["meminfo"] = 0
  /\ HeldAt("host_port", {"mem_host"}, {})

\* A node is held for each member of the list, as long as there is one.
HeldBattery ==
  /\ pc \in {"bat_dir", "bat_type", "bat_scope", "bat_add", "bat_next", "bat_read"} =>
       os = "linux"
  /\ pc \in {"bat_list", "bat_describe", "bat_release"} => os = "macos"
  /\ HeldAt("supply_dir", {"bat_dir", "bat_type", "bat_scope", "bat_add"}, {})
  /\ held["supply_node"] = Len(list)
  /\ pc \notin BatteryLabels => list = <<>>
  /\ os # "linux" => list = <<>>
  /\ HeldAt("power_info", {"bat_list", "bat_describe", "bat_release"}, {"bat_shown"})
  /\ HeldAt("power_list", {"bat_describe"}, {"bat_release", "bat_shown"})
  /\ pc = "bat_shown" =>
       IF os = "macos" THEN held["power_info"] = 1 /\ held["power_list"] = 1
                       ELSE held["power_info"] = 0 /\ held["power_list"] = 0

\* The list is a sequence of supplies.
Supplies == UNION {DOMAIN m : m \in Machines}
ListTyped ==
  /\ list \in Seq(Supplies)
  /\ todo \subseteq Supplies
  /\ pc \in {"bat_type", "bat_scope", "bat_add"} => entry \in Supplies

\* The parts are called in order, from the first one; no other handle is used.
Rests ==
  /\ os \in Platform
  /\ held \in [Handle -> Int]
  /\ calls \in 0 .. 9
  /\ pc = "options" => calls = 0
  /\ \A h \in Handle \ (SystemHandles \cup AppleHandles \cup PhoneHandles
                          \cup MemoryHandles \cup BatteryHandles) : held[h] = 0

IInv ==
  Rests /\ ListTyped /\ HeldSystem /\ HeldApple /\ HeldPhone /\ HeldMemory /\ HeldBattery
-----------------------------------------------------------------------------
(* The parts of the invariant at rest                                      *)

\* What a step of one part does: it keeps its own part of the invariant and
\* leaves the handles of the others alone.
Touches(hs) ==
  /\ os' = os
  /\ held' \in [Handle -> Int]
  /\ \A h \in Handle \ hs : held'[h] = held[h]

LEMMA SystemRests ==
  ASSUME HeldSystem, pc' = pc \/ {pc, pc'} \cap SystemLabels = {},
         \A h \in SystemHandles : held'[h] = held[h]
  PROVE  HeldSystem'
  <1>1. CASE pc' = pc
    BY <1>1 DEF HeldSystem, HeldAt, SystemHandles
  <1>2. CASE {pc, pc'} \cap SystemLabels = {}
    BY <1>2 DEF HeldSystem, HeldAt, SystemLabels, SystemHandles
  <1> QED
    BY <1>1, <1>2

LEMMA AppleRests ==
  ASSUME HeldApple, pc' = pc \/ {pc, pc'} \cap AppleLabels = {},
         \A h \in AppleHandles : held'[h] = held[h]
  PROVE  HeldApple'
  <1>1. CASE pc' = pc
    BY <1>1 DEF HeldApple, HeldAt, AppleHandles
  <1>2. CASE {pc, pc'} \cap AppleLabels = {}
    BY <1>2 DEF HeldApple, HeldAt, AppleLabels, AppleHandles
  <1> QED
    BY <1>1, <1>2

LEMMA PhoneRests ==
  ASSUME HeldPhone, pc' = pc \/ {pc, pc'} \cap PhoneLabels = {},
         \A h \in PhoneHandles : held'[h] = held[h]
  PROVE  HeldPhone'
  <1>1. CASE pc' = pc
    BY <1>1 DEF HeldPhone, HeldAt, PhoneHandles
  <1>2. CASE {pc, pc'} \cap PhoneLabels = {}
    BY <1>2 DEF HeldPhone, HeldAt, PhoneLabels, PhoneHandles
  <1> QED
    BY <1>1, <1>2

LEMMA MemoryRests ==
  ASSUME HeldMemory, pc' = pc \/ {pc, pc'} \cap MemoryLabels = {}, os' = os,
         \A h \in MemoryHandles : held'[h] = held[h]
  PROVE  HeldMemory'
  BY DEF HeldMemory, HeldAt, MemoryLabels, MemoryHandles, OnLinux

LEMMA BatteryRests ==
  ASSUME HeldBattery, ListTyped, pc' = pc \/ {pc, pc'} \cap BatteryLabels = {},
         os' = os, UNCHANGED batVars, \A h \in BatteryHandles : held'[h] = held[h]
  PROVE  HeldBattery' /\ ListTyped'
  BY DEF HeldBattery, ListTyped, HeldAt, BatteryLabels, BatteryHandles, batVars
-----------------------------------------------------------------------------
(* The system's lines                                                      *)

LEMMA SystemMoves ==
  ASSUME System
  PROVE  /\ pc \in SystemLabels \cup {"sys_init", "header", "info"}
         /\ pc' \in SystemLabels \cup {"returned"}
  <1> USE DEF Goto, SystemLabels
  <1>1. CASE LinuxSysInit \/ MacSysInit \/ ProcsSize \/ ProcsFetch \/ PrintHeader
             \/ OpenOsRelease \/ ReadOsRelease \/ EndOfOsRelease
    BY <1>1 DEF LinuxSysInit, MacSysInit, ProcsSize, ProcsFetch, PrintHeader,
                OpenOsRelease, ReadOsRelease, EndOfOsRelease
  <1>2. CASE ProductVersion \/ SwVersAnswers \/ AndroidDistro \/ LinuxModel
             \/ DeviceTreeModel \/ AndroidModel \/ MacModel
    BY <1>2 DEF ProductVersion, SwVersAnswers, AndroidDistro, LinuxModel,
                DeviceTreeModel, AndroidModel, MacModel
  <1>3. CASE OpenPlist \/ StatPlist \/ MapPlist \/ DataPlist \/ ParsePlist
             \/ ClosePlist \/ MakeKey \/ LookUpModel \/ PrintInfo \/ LeaveInfo
    BY <1>3 DEF OpenPlist, StatPlist, MapPlist, DataPlist, ParsePlist, Try,
                ClosePlist, MakeKey, LookUpModel, PrintInfo, LeaveInfo
  <1> QED
    BY <1>1, <1>2, <1>3 DEF System

LEMMA SystemKeeps ==
  ASSUME IInv, System
  PROVE  HeldSystem' /\ Touches(SystemHandles)
  <1> USE HandleAssumption
      DEF Goto, IInv, Rests, HeldSystem, HeldAt, Touches, SystemHandles
  <1>1. CASE LinuxSysInit \/ MacSysInit \/ PrintHeader \/ ReadOsRelease
             \/ ProductVersion \/ SwVersAnswers \/ AndroidDistro
    BY <1>1 DEF LinuxSysInit, MacSysInit, PrintHeader, ReadOsRelease,
                ProductVersion, SwVersAnswers, AndroidDistro
  <1>2. CASE LinuxModel \/ DeviceTreeModel \/ AndroidModel \/ MacModel
             \/ PrintInfo \/ LeaveInfo
    BY <1>2 DEF LinuxModel, DeviceTreeModel, AndroidModel, MacModel, PrintInfo,
                LeaveInfo
  <1>3. CASE ProcsSize
    BY <1>3 DEF ProcsSize, Acquire
  <1>4. CASE ProcsFetch
    BY <1>4 DEF ProcsFetch, Release
  <1>5. CASE OpenOsRelease
    BY <1>5 DEF OpenOsRelease, Acquire
  <1>6. CASE EndOfOsRelease
    BY <1>6 DEF EndOfOsRelease, Release
  <1>7. CASE OpenPlist
    BY <1>7 DEF OpenPlist, Try, Acquire
  <1>8. CASE StatPlist
    BY <1>8 DEF StatPlist, Try, Acquire
  <1>9. CASE MapPlist
    BY <1>9 DEF MapPlist, Try, Acquire
  <1>10. CASE DataPlist
    BY <1>10 DEF DataPlist, Try, Acquire
  <1>11. CASE ParsePlist
    BY <1>11 DEF ParsePlist, Try, Acquire
  <1>12. CASE ClosePlist
    BY <1>12 DEF ClosePlist, Release, Holds
  <1>13. CASE MakeKey
    BY <1>13 DEF MakeKey, Acquire, Release
  <1>14. CASE LookUpModel
    BY <1>14 DEF LookUpModel, Release
  <1> QED
    BY <1>1, <1>2, <1>3, <1>4, <1>5, <1>6, <1>7, <1>8, <1>9, <1>10, <1>11, <1>12,
       <1>13, <1>14 DEF System
-----------------------------------------------------------------------------
(* The devices of a Mac                                                    *)

\* What Acquire does to the handles, each by itself.
LEMMA AcquireEach ==
  ASSUME held \in [Handle -> Int], NEW hs, Acquire(hs)
  PROVE  /\ held' \in [Handle -> Int]
         /\ \A h \in Handle : held'[h] = IF h \in hs THEN held[h] + 1 ELSE held[h]
  BY DEF Acquire

\* Each of the two arrays is allocated or not; with both, the scan follows.
LEMMA ArraysAllocated ==
  ASSUME held \in [Handle -> Int], PmgrArrays
  PROVE  /\ pc = "pmgr_tables" /\ os' = os
         /\ held' \in [Handle -> Int]
         /\ \A h \in Handle \ {"keys", "values"} : held'[h] = held[h]
         /\ \A h \in Handle \cap {"keys", "values"} : held'[h] \in {held[h], held[h] + 1}
         /\ \/ pc' = "pmgr_scanned"
            \/ /\ pc' = "pmgr_scan"
               /\ \A h \in Handle \cap {"keys", "values"} : held'[h] = held[h] + 1
  <1>1. PICK both \in SUBSET {"keys", "values"} :
          /\ Acquire(both)
          /\ pc' = IF both = {"keys", "values"} THEN "pmgr_scan" ELSE "pmgr_scanned"
    BY DEF PmgrArrays, Goto
  <1>2. /\ held' \in [Handle -> Int]
        /\ \A h \in Handle : held'[h] = IF h \in both THEN held[h] + 1 ELSE held[h]
    BY <1>1, AcquireEach
  <1>3. pc = "pmgr_tables" /\ os' = os
    BY DEF PmgrArrays, Goto
  <1>4. \A h \in Handle \ {"keys", "values"} : held'[h] = held[h]
    BY <1>1, <1>2
  <1>5. CASE both = {"keys", "values"}
    BY <1>1, <1>2, <1>3, <1>4, <1>5
  <1>6. CASE both # {"keys", "values"}
    BY <1>1, <1>2, <1>3, <1>4, <1>6
  <1> QED
    BY <1>5, <1>6

LEMMA AppleMoves ==
  ASSUME Apple
  PROVE  /\ pc \in AppleLabels \cup {"cpu", "gpu"}
         /\ pc' \in AppleLabels \cup {"returned"}
  <1> USE DEF Goto, AppleLabels
  <1>1. CASE AppleCpu \/ MatchPmgr \/ NextPmgr \/ PmgrProperties \/ PmgrArrays
             \/ PmgrScan \/ PmgrRelease \/ PrintAppleCpu
    BY <1>1 DEF AppleCpu, MatchPmgr, Match, NextPmgr, NextDevice, PmgrProperties,
                PmgrArrays, PmgrScan, PmgrRelease, PrintAppleCpu
  <1>2. CASE AppleGpu \/ NextAccelerator \/ AcceleratorModel \/ ParentEntry
             \/ ParentModel \/ ReleaseParent \/ AddName \/ ReleaseDevice
    BY <1>2 DEF AppleGpu, Match, NextAccelerator, NextDevice, AcceleratorModel,
                GetProperty, ParentEntry, ParentModel, ReleaseParent, AddName,
                ReleaseDevice
  <1>3. CASE MatchPci \/ NextPci \/ PciClass \/ PciModel \/ SocName
             \/ PrintAppleGpu \/ LeaveApple
    BY <1>3 DEF MatchPci, Match, NextPci, NextDevice, PciClass, GetProperty, PciModel,
                SocName, PrintAppleGpu, LeaveApple, AppleReturn
  <1> QED
    BY <1>1, <1>2, <1>3 DEF Apple

LEMMA AppleKeeps ==
  ASSUME IInv, Apple
  PROVE  HeldApple' /\ Touches(AppleHandles)
  <1> USE HandleAssumption
      DEF Goto, IInv, Rests, HeldApple, HeldAt, Touches, AppleHandles, AppleLabels
  <1>1. CASE AppleCpu \/ PmgrScan \/ PrintAppleCpu \/ SocName \/ PrintAppleGpu
             \/ LeaveApple
    BY <1>1 DEF AppleCpu, PmgrScan, PrintAppleCpu, SocName, PrintAppleGpu, LeaveApple,
                AppleReturn
  <1>2. CASE MatchPmgr
    <2>1. /\ pc = "pmgr_match" /\ os' = os
          /\ \/ Acquire({"iterator"}) /\ pc' = "pmgr_next"
             \/ held' = held /\ pc' = "cpu_print"
      BY <1>2, Zenon DEF MatchPmgr, Match
    <2> QED
      BY <2>1 DEF Acquire
  <1>3. CASE NextPmgr
    <2>1. /\ pc = "pmgr_next" /\ os' = os
          /\ \/ Acquire({"service"}) /\ pc' = "pmgr_node"
             \/ Release({"iterator"}) /\ pc' = "cpu_print"
      BY <1>3 DEF NextPmgr, NextDevice
    <2> QED
      BY <2>1 DEF Acquire, Release
  <1>4. CASE PmgrProperties
    <2>1. /\ pc = "pmgr_node" /\ os' = os
          /\ \/ Acquire({"properties"}) /\ pc' \in {"pmgr_scanned", "pmgr_tables"}
             \/ held' = held /\ pc' = "pmgr_scanned"
      BY <1>4 DEF PmgrProperties
    <2> QED
      BY <2>1 DEF Acquire
  <1>5. CASE PmgrArrays
    <2>1. /\ pc = "pmgr_tables" /\ os' = os
          /\ held' \in [Handle -> Int]
          /\ \A h \in Handle \ {"keys", "values"} : held'[h] = held[h]
          /\ \A h \in Handle \cap {"keys", "values"} : held'[h] \in {held[h], held[h] + 1}
          /\ \/ pc' = "pmgr_scanned"
             \/ /\ pc' = "pmgr_scan"
                /\ \A h \in Handle \cap {"keys", "values"} : held'[h] = held[h] + 1
      BY <1>5, ArraysAllocated
    <2>2. /\ "keys" \in Handle /\ held["keys"] = 0
          /\ "values" \in Handle /\ held["values"] = 0
      BY <2>1
    <2> QED
      BY <2>1, <2>2
  <1>6. CASE PmgrRelease
    BY <1>6 DEF PmgrRelease, Release, Holds
  <1>7. CASE AppleGpu
    BY <1>7 DEF AppleGpu, Match, Acquire
  <1>8. CASE NextAccelerator
    BY <1>8 DEF NextAccelerator, NextDevice, Acquire, Release
  <1>9. CASE AcceleratorModel
    BY <1>9 DEF AcceleratorModel, GetProperty, Acquire
  <1>10. CASE ParentEntry
    BY <1>10 DEF ParentEntry, Acquire
  <1>11. CASE ParentModel
    BY <1>11 DEF ParentModel, GetProperty, Acquire
  <1>12. CASE ReleaseParent
    BY <1>12 DEF ReleaseParent, Release, Holds
  <1>13. CASE AddName
    BY <1>13 DEF AddName, Release
  <1>14. CASE ReleaseDevice
    BY <1>14 DEF ReleaseDevice, Release, Holds
  <1>15. CASE MatchPci
    BY <1>15 DEF MatchPci, Match, Acquire
  <1>16. CASE NextPci
    BY <1>16 DEF NextPci, NextDevice, Acquire, Release
  <1>17. CASE PciClass
    BY <1>17 DEF PciClass, GetProperty, Acquire
  <1>18. CASE PciModel
    BY <1>18 DEF PciModel, GetProperty, Acquire
  <1> QED
    BY <1>1, <1>2, <1>3, <1>4, <1>5, <1>6, <1>7, <1>8, <1>9, <1>10, <1>11, <1>12,
       <1>13, <1>14, <1>15, <1>16, <1>17, <1>18 DEF Apple
-----------------------------------------------------------------------------
(* The processor and the card of a phone                                   *)

LEMMA PhoneMoves ==
  ASSUME Phone
  PROVE  /\ pc \in PhoneLabels \cup {"cpu", "gpu"}
         /\ pc' \in PhoneLabels \cup {"returned"}
  <1> USE DEF Goto, PhoneLabels
  <1>1. CASE AndroidCpu \/ NextPolicy \/ EndOfPolicies \/ CpuZero \/ PrintPhoneCpu
             \/ OpenVulkan \/ VulkanSymbols \/ CreateInstance
    BY <1>1 DEF AndroidCpu, NextPolicy, EndOfPolicies, CpuZero, PrintPhoneCpu,
                OpenVulkan, VulkanSymbols, CreateInstance
  <1>2. CASE CountDevices \/ ListDevices \/ NameDevice \/ DestroyInstance
             \/ CloseVulkan \/ GpuProperty \/ PrintPhoneGpu \/ LeavePhone
    BY <1>2 DEF CountDevices, ListDevices, NameDevice, DestroyInstance, CloseVulkan,
                GpuProperty, PrintPhoneGpu, LeavePhone, PhoneReturn
  <1> QED
    BY <1>1, <1>2 DEF Phone

LEMMA PhoneKeeps ==
  ASSUME IInv, Phone
  PROVE  HeldPhone' /\ Touches(PhoneHandles)
  <1> USE HandleAssumption
      DEF Goto, IInv, Rests, HeldPhone, HeldAt, Touches, PhoneHandles
  <1>1. CASE NextPolicy \/ CpuZero \/ PrintPhoneCpu \/ VulkanSymbols \/ CountDevices
             \/ ListDevices \/ NameDevice \/ GpuProperty \/ PrintPhoneGpu \/ LeavePhone
    BY <1>1 DEF NextPolicy, CpuZero, PrintPhoneCpu, VulkanSymbols, CountDevices,
                ListDevices, NameDevice, GpuProperty, PrintPhoneGpu, LeavePhone,
                PhoneReturn
  <1>2. CASE AndroidCpu
    BY <1>2 DEF AndroidCpu, Acquire
  <1>3. CASE EndOfPolicies
    BY <1>3 DEF EndOfPolicies, Release
  <1>4. CASE OpenVulkan
    BY <1>4 DEF OpenVulkan, Acquire
  <1>5. CASE CreateInstance
    BY <1>5 DEF CreateInstance, Acquire
  <1>6. CASE DestroyInstance
    BY <1>6 DEF DestroyInstance, Release, Holds
  <1>7. CASE CloseVulkan
    BY <1>7 DEF CloseVulkan, Release
  <1> QED
    BY <1>1, <1>2, <1>3, <1>4, <1>5, <1>6, <1>7 DEF Phone
-----------------------------------------------------------------------------
(* Memory                                                                  *)

LEMMA MemoryMoves ==
  ASSUME Memory
  PROVE  /\ pc \in MemoryLabels \cup {"memory"}
         /\ pc' \in MemoryLabels \cup {"returned"}
  BY DEF Goto, MemoryLabels, Memory, OpenMeminfo, MeminfoMissing, ReadMeminfoLine,
         EndOfMeminfo, RamSize, HostStatistics, HostStatisticsFail, SwapUsage,
         PrintMemory, LeaveMemory, MemReturn

LEMMA MemoryKeeps ==
  ASSUME IInv, Memory
  PROVE  HeldMemory' /\ Touches(MemoryHandles)
  <1> USE HandleAssumption
      DEF Goto, IInv, Rests, HeldMemory, HeldAt, Touches, MemoryHandles, OnLinux
  <1>1. CASE MeminfoMissing \/ ReadMeminfoLine \/ EndOfMeminfo \/ SwapUsage
             \/ PrintMemory
    BY <1>1 DEF MeminfoMissing, ReadMeminfoLine, EndOfMeminfo, SwapUsage, PrintMemory,
                MemReturn
  <1>2. CASE OpenMeminfo
    BY <1>2 DEF OpenMeminfo, Acquire
  <1>3. CASE RamSize
    BY <1>3 DEF RamSize, Acquire
  <1>4. CASE HostStatistics \/ HostStatisticsFail
    BY <1>4 DEF HostStatistics, HostStatisticsFail, Release
  <1>5. CASE LeaveMemory
    BY <1>5 DEF LeaveMemory, MemReturn, Release
  <1> QED
    BY <1>1, <1>2, <1>3, <1>4, <1>5 DEF Memory
-----------------------------------------------------------------------------
(* The batteries                                                           *)

\* A supply may go at any time; all else happens in the part itself.
LEMMA BatteryMoves ==
  ASSUME Battery
  PROVE  \/ /\ pc \in BatteryLabels \cup {"battery"}
            /\ pc' \in BatteryLabels \cup {"returned"}
         \/ pc' = pc
  <1> USE DEF Goto, BatteryLabels
  <1>1. CASE OpenSupplies \/ NextSupply \/ CheckType \/ CheckScope \/ AddElement
             \/ EndOfSupplies \/ NextNode \/ ReadMetric \/ PrintBattery \/ AllPrinted
    BY <1>1 DEF OpenSupplies, NextSupply, CheckType, CheckScope, AddElement,
                EndOfSupplies, NextNode, ReadMetric, PrintBattery, AllPrinted, BatReturn
  <1>2. CASE FreeBatteries \/ AndroidBattery \/ AndroidLeave \/ CopyPowerInfo
             \/ CopyPowerList \/ DescribePower \/ ReleasePower
    BY <1>2 DEF FreeBatteries, AndroidBattery, AndroidLeave, CopyPowerInfo,
                CopyPowerList, DescribePower, ReleasePower, BatReturn
  <1>3. CASE \E s \in present : SupplyGoes(s)
    BY <1>3 DEF SupplyGoes
  <1> QED
    BY <1>1, <1>2, <1>3 DEF Battery

LEMMA BatteryKeeps ==
  ASSUME IInv, Battery
  PROVE  HeldBattery' /\ ListTyped' /\ Touches(BatteryHandles)
  <1> USE HandleAssumption
      DEF Goto, IInv, Rests, HeldBattery, ListTyped, HeldAt, Touches, BatteryHandles,
          BatteryLabels
  <1>1. CASE CheckType \/ CheckScope \/ NextNode \/ ReadMetric \/ PrintBattery
             \/ AllPrinted
    BY <1>1 DEF CheckType, CheckScope, NextNode, ReadMetric, PrintBattery, AllPrinted,
                batVars
  <1>2. CASE AndroidBattery \/ AndroidLeave
    BY <1>2 DEF AndroidBattery, AndroidLeave, BatReturn
  <1>3. CASE \E s \in present : SupplyGoes(s)
    BY <1>3 DEF SupplyGoes
  <1>4. CASE OpenSupplies
    <2>1. CASE BatReturn
      BY <1>4, <2>1 DEF OpenSupplies, BatReturn
    <2>2. CASE ~BatReturn
      <3>1. /\ pc = "battery" /\ os = "linux" /\ Acquire({"supply_dir"})
            /\ os' = os /\ pc' = "bat_dir" /\ list' = list
        BY <1>4, <2>2, Zenon DEF OpenSupplies
      <3>2. todo' \subseteq Supplies
        BY <1>4, <2>2 DEF OpenSupplies, Supplies
      <3> QED
        BY <3>1, <3>2 DEF Acquire
    <2> QED
      BY <2>1, <2>2
  <1>5. CASE NextSupply
    BY <1>5 DEF NextSupply
  <1>6. CASE AddElement
    <2>1. CASE list' = <<entry>> \o list /\ Acquire({"supply_node"})
      <3>1. list' \in Seq(Supplies) /\ Len(list') = Len(list) + 1
        BY <1>6, <2>1 DEF AddElement
      <3> QED
        BY <1>6, <2>1, <3>1 DEF AddElement, Acquire
    <2>2. CASE UNCHANGED <<list, held>>
      BY <1>6, <2>2 DEF AddElement
    <2> QED
      BY <1>6, <2>1, <2>2 DEF AddElement
  <1>7. CASE EndOfSupplies
    BY <1>7 DEF EndOfSupplies, Release
  <1>8. CASE FreeBatteries
    BY <1>8 DEF FreeBatteries, BatReturn
  <1>9. CASE CopyPowerInfo
    <2>1. CASE BatReturn
      BY <1>9, <2>1 DEF CopyPowerInfo, BatReturn, Acquire, batVars
    <2>2. CASE Acquire({"power_info"}) /\ pc' = "bat_list" /\ UNCHANGED <<os, batVars>>
      <3>1. /\ pc = "battery" /\ os = "macos" /\ os' = os /\ pc' = "bat_list"
            /\ list' = list /\ todo' = todo /\ entry' = entry
        BY <1>9, <2>2 DEF CopyPowerInfo, batVars
      <3>2. held' = [h \in Handle |-> held[h] + IF h \in {"power_info"} THEN 1 ELSE 0]
        BY <2>2, Zenon DEF Acquire
      <3>3. held \in [Handle -> Int] /\ {"supply_dir", "supply_node", "power_info",
                                         "power_list"} \subseteq Handle
        OBVIOUS
      <3>4. /\ held["supply_dir"] = 0 /\ held["supply_node"] = Len(list)
            /\ held["power_info"] = 0 /\ held["power_list"] = 0 /\ list = <<>>
        BY <3>1, <3>3
      <3>5. /\ held' \in [Handle -> Int]
            /\ \A h \in Handle \ {"power_info"} : held'[h] = held[h]
            /\ held'["power_info"] = 1
        BY <3>2, <3>3, <3>4
      <3> QED
        BY <3>1, <3>3, <3>4, <3>5
    <2> QED
      BY <1>9, <2>1, <2>2 DEF CopyPowerInfo
  <1>10. CASE CopyPowerList
    BY <1>10 DEF CopyPowerList, Acquire, batVars
  <1>11. CASE DescribePower
    BY <1>11 DEF DescribePower
  <1>12. CASE ReleasePower
    <2>1. /\ pc = "bat_release" \/ (pc = "bat_shown" /\ os = "macos")
          /\ os' = os /\ pc' = "returned" /\ list' = <<>> /\ todo' = {}
      BY <1>12 DEF ReleasePower, BatReturn
    <2>2. Release({h \in {"power_list", "power_info"} : Holds(h)})
      BY <1>12 DEF ReleasePower
    <2>3. held \in [Handle -> Int] /\ "power_list" \in Handle /\ "power_info" \in Handle
      OBVIOUS
    <2>4. held["power_info"] = 1 /\ held["power_list"] \in {0, 1} /\ list = <<>>
      <3>1. CASE pc = "bat_release"
        BY <2>3, <3>1
      <3>2. CASE pc = "bat_shown" /\ os = "macos"
        BY <2>3, <3>2
      <3> QED
        BY <2>1, <3>1, <3>2
    <2>5. /\ held' \in [Handle -> Int]
          /\ \A h \in Handle \ {"power_list", "power_info"} : held'[h] = held[h]
          /\ held'["power_info"] = 0 /\ held'["power_list"] = 0
      BY <2>2, <2>3, <2>4 DEF Release, Holds
    <2>6. pc \notin {"bat_dir", "bat_type", "bat_scope", "bat_add"}
      BY <2>1
    <2> QED
      BY <2>1, <2>3, <2>4, <2>5, <2>6
  <1> QED
    BY <1>1, <1>2, <1>3, <1>4, <1>5, <1>6, <1>7, <1>8, <1>9, <1>10, <1>11, <1>12
       DEF Battery
-----------------------------------------------------------------------------
(* A run                                                                   *)

Entries == {"sys_init", "header", "info", "terminal", "cpu", "gpu", "memory", "drives",
            "battery"}

LEMMA PartsAreEntries ==
  Len(Parts) = 9 /\ \A n \in 1 .. 9 : Parts[n] \in Entries
  BY DEF Parts, Entries

\* A step of main, or of a part modelled on its own.
LEMMA MainKeeps ==
  ASSUME IInv, Setting \/ ExitOption \/ Call \/ MainReturns \/ OtherPart \/ Ended
  PROVE  IInv'
  <1>1. /\ os' = os /\ held' = held /\ UNCHANGED batVars
        /\ calls' = calls \/ (calls' = calls + 1 /\ calls < 9 /\ pc' \in Entries)
        /\ pc' = pc \/ /\ pc \in {"options", "returned", "terminal", "drives", "cpu", "gpu"}
                       /\ pc' \in Entries \cup {"exit", "returned"}
    <2>1. CASE Setting \/ ExitOption \/ MainReturns \/ OtherPart \/ Ended
      BY <2>1 DEF Setting, ExitOption, Exit, MainReturns, OtherPart, Ended, Goto,
                  partVars, vars, runVars
    <2>2. CASE Call
      <3>1. calls' = calls + 1 /\ calls \in 0 .. 8
        BY <2>2, PartsAreEntries DEF Call, IInv, Rests
      <3>2. pc' \in Entries
        BY <2>2, <3>1, PartsAreEntries DEF Call, Goto
      <3> QED
        BY <2>2, <3>1, <3>2 DEF Call, Goto, partVars
    <2> QED
      BY <2>1, <2>2
  <1> DEFINE Labels == SystemLabels \cup AppleLabels \cup PhoneLabels \cup MemoryLabels
                         \cup BatteryLabels
  <1>2. pc' = pc \/ {pc, pc'} \cap Labels = {}
    BY <1>1 DEF Entries, SystemLabels, AppleLabels, PhoneLabels, MemoryLabels, BatteryLabels
  <1>3. /\ HeldSystem' /\ HeldApple' /\ HeldPhone' /\ HeldMemory' /\ HeldBattery'
        /\ ListTyped'
    BY <1>1, <1>2, SystemRests, AppleRests, PhoneRests, MemoryRests, BatteryRests DEF IInv
  <1>4. Rests'
    BY <1>1 DEF IInv, Rests, Entries
  <1> QED
    BY <1>3, <1>4 DEF IInv

\* What every part does to what no part owns.
LEMMA RestsKept ==
  ASSUME Rests, calls' = calls, pc' = pc \/ pc' # "options",
         \/ Touches(SystemHandles) \/ Touches(AppleHandles) \/ Touches(PhoneHandles)
         \/ Touches(MemoryHandles) \/ Touches(BatteryHandles)
  PROVE  Rests'
  BY HandleAssumption DEF Rests, Touches

\* The parts hold handles of their own and are at labels of their own.
LEMMA OwnHandles ==
  /\ \A h \in SystemHandles : h \notin AppleHandles \cup PhoneHandles \cup MemoryHandles
                                       \cup BatteryHandles
  /\ \A h \in AppleHandles : h \notin PhoneHandles \cup MemoryHandles \cup BatteryHandles
  /\ \A h \in PhoneHandles : h \notin MemoryHandles \cup BatteryHandles
  /\ \A h \in MemoryHandles : h \notin BatteryHandles
  BY DEF SystemHandles, AppleHandles, PhoneHandles, MemoryHandles, BatteryHandles

LEMMA StepKeeps ==
  ASSUME IInv, [Next]_vars
  PROVE  IInv'
  <1>1. CASE Setting \/ ExitOption \/ Call \/ MainReturns \/ OtherPart \/ Ended
    BY <1>1, MainKeeps
  <1>2. CASE System /\ UNCHANGED <<runVars, appleVars, phoneVars, memVars, batVars>>
    <2>1. HeldSystem' /\ Touches(SystemHandles)
      BY <1>2, SystemKeeps
    <2>2. /\ {pc, pc'} \cap (AppleLabels \cup PhoneLabels \cup MemoryLabels
                               \cup BatteryLabels) = {}
          /\ pc' # "options"
      BY <1>2, SystemMoves
         DEF SystemLabels, AppleLabels, PhoneLabels, MemoryLabels, BatteryLabels
    <2>3. HeldApple' /\ HeldPhone' /\ HeldMemory' /\ HeldBattery' /\ ListTyped'
      BY <1>2, <2>1, <2>2, OwnHandles, HandleAssumption, AppleRests, PhoneRests,
         MemoryRests, BatteryRests DEF IInv, Touches
    <2>4. Rests'
      BY <1>2, <2>1, <2>2, RestsKept DEF IInv, runVars
    <2> QED
      BY <2>1, <2>3, <2>4 DEF IInv
  <1>3. CASE Apple /\ UNCHANGED <<runVars, sysVars, phoneVars, memVars, batVars>>
    <2>1. HeldApple' /\ Touches(AppleHandles)
      BY <1>3, AppleKeeps
    <2>2. /\ {pc, pc'} \cap (SystemLabels \cup PhoneLabels \cup MemoryLabels
                               \cup BatteryLabels) = {}
          /\ pc' # "options"
      BY <1>3, AppleMoves
         DEF SystemLabels, AppleLabels, PhoneLabels, MemoryLabels, BatteryLabels
    <2>3. HeldSystem' /\ HeldPhone' /\ HeldMemory' /\ HeldBattery' /\ ListTyped'
      BY <1>3, <2>1, <2>2, OwnHandles, HandleAssumption, SystemRests, PhoneRests,
         MemoryRests, BatteryRests DEF IInv, Touches
    <2>4. Rests'
      BY <1>3, <2>1, <2>2, RestsKept DEF IInv, runVars
    <2> QED
      BY <2>1, <2>3, <2>4 DEF IInv
  <1>4. CASE Phone /\ UNCHANGED <<runVars, sysVars, appleVars, memVars, batVars>>
    <2>1. HeldPhone' /\ Touches(PhoneHandles)
      BY <1>4, PhoneKeeps
    <2>2. /\ {pc, pc'} \cap (SystemLabels \cup AppleLabels \cup MemoryLabels
                               \cup BatteryLabels) = {}
          /\ pc' # "options"
      BY <1>4, PhoneMoves
         DEF SystemLabels, AppleLabels, PhoneLabels, MemoryLabels, BatteryLabels
    <2>3. HeldSystem' /\ HeldApple' /\ HeldMemory' /\ HeldBattery' /\ ListTyped'
      BY <1>4, <2>1, <2>2, OwnHandles, HandleAssumption, SystemRests, AppleRests,
         MemoryRests, BatteryRests DEF IInv, Touches
    <2>4. Rests'
      BY <1>4, <2>1, <2>2, RestsKept DEF IInv, runVars
    <2> QED
      BY <2>1, <2>3, <2>4 DEF IInv
  <1>5. CASE Memory /\ UNCHANGED <<runVars, sysVars, appleVars, phoneVars, batVars>>
    <2>1. HeldMemory' /\ Touches(MemoryHandles)
      BY <1>5, MemoryKeeps
    <2>2. /\ {pc, pc'} \cap (SystemLabels \cup AppleLabels \cup PhoneLabels
                               \cup BatteryLabels) = {}
          /\ pc' # "options"
      BY <1>5, MemoryMoves
         DEF SystemLabels, AppleLabels, PhoneLabels, MemoryLabels, BatteryLabels
    <2>3. HeldSystem' /\ HeldApple' /\ HeldPhone' /\ HeldBattery' /\ ListTyped'
      BY <1>5, <2>1, <2>2, OwnHandles, HandleAssumption, SystemRests, AppleRests,
         PhoneRests, BatteryRests DEF IInv, Touches
    <2>4. Rests'
      BY <1>5, <2>1, <2>2, RestsKept DEF IInv, runVars
    <2> QED
      BY <2>1, <2>3, <2>4 DEF IInv
  <1>6. CASE Battery /\ UNCHANGED <<runVars, sysVars, appleVars, phoneVars, memVars>>
    <2>1. HeldBattery' /\ ListTyped' /\ Touches(BatteryHandles)
      BY <1>6, BatteryKeeps
    <2>2. \/ /\ {pc, pc'} \cap (SystemLabels \cup AppleLabels \cup PhoneLabels
                                  \cup MemoryLabels) = {}
             /\ pc' # "options"
          \/ pc' = pc
      BY <1>6, BatteryMoves
         DEF SystemLabels, AppleLabels, PhoneLabels, MemoryLabels, BatteryLabels
    <2>3. HeldSystem' /\ HeldApple' /\ HeldPhone' /\ HeldMemory'
      BY <2>1, <2>2, OwnHandles, HandleAssumption, SystemRests, AppleRests, PhoneRests,
         MemoryRests DEF IInv, Touches
    <2>4. Rests'
      BY <1>6, <2>1, <2>2, RestsKept DEF IInv, runVars
    <2> QED
      BY <2>1, <2>3, <2>4 DEF IInv
  <1>7. CASE UNCHANGED vars
    <2>1. UNCHANGED <<pc, os, held, runVars, batVars>>
      BY <1>7 DEF vars
    <2>2. /\ HeldSystem' /\ HeldApple' /\ HeldPhone' /\ HeldMemory' /\ HeldBattery'
          /\ ListTyped'
      BY <2>1, SystemRests, AppleRests, PhoneRests, MemoryRests, BatteryRests DEF IInv
    <2>3. Rests'
      BY <2>1 DEF IInv, Rests, runVars
    <2> QED
      BY <2>2, <2>3 DEF IInv
  <1> QED
    BY <1>1, <1>2, <1>3, <1>4, <1>5, <1>6, <1>7 DEF Next

LEMMA StartsAtRest ==
  ASSUME Init
  PROVE  IInv
  <1>1. HeldSystem /\ HeldApple /\ HeldPhone /\ HeldMemory /\ HeldBattery
    BY HandleAssumption
       DEF Init, BatInit, HeldSystem, HeldApple, HeldPhone, HeldMemory, HeldBattery,
           HeldAt, OnLinux, AppleLabels, BatteryLabels, SystemHandles, AppleHandles,
           PhoneHandles, MemoryHandles, BatteryHandles
  <1>2. Rests /\ ListTyped
    BY DEF Init, BatInit, Rests, ListTyped
  <1> QED
    BY <1>1, <1>2 DEF IInv

LEMMA Invariance == Spec => []IInv
  <1>1. Init => IInv
    BY StartsAtRest
  <1>2. IInv /\ [Next]_vars => IInv'
    BY StepKeeps
  <1> QED
    BY <1>1, <1>2, PTL DEF Spec
-----------------------------------------------------------------------------
(* HandlesBalanced                                                         *)

\* What is used at a label is held there for sure.
LEMMA UsedIsHeld ==
  ASSUME IInv, NEW h \in Uses(pc)
  PROVE  Holds(h)
  <1> USE DEF IInv, HeldAt, Holds, Uses
  <1>1. CASE pc \in SystemLabels
    BY <1>1 DEF SystemLabels, HeldSystem
  <1>2. CASE pc \in AppleLabels
    BY <1>2 DEF AppleLabels, HeldApple
  <1>3. CASE pc \in PhoneLabels
    BY <1>3 DEF PhoneLabels, HeldPhone
  <1>4. CASE pc \in MemoryLabels
    BY <1>4 DEF MemoryLabels, HeldMemory, Rests
  <1>5. CASE pc \in BatteryLabels
    BY <1>5 DEF BatteryLabels, HeldBattery
  <1>6. CASE pc \notin SystemLabels \cup AppleLabels \cup PhoneLabels \cup MemoryLabels
                         \cup BatteryLabels
    BY <1>6 DEF SystemLabels, AppleLabels, PhoneLabels, MemoryLabels, BatteryLabels
  <1> QED
    BY <1>1, <1>2, <1>3, <1>4, <1>5, <1>6

\* Nothing is held outside the parts.
LEMMA NothingIsKept ==
  ASSUME IInv, pc \in {"options", "returned", "exit"}, NEW h \in Handle
  PROVE  ~Holds(h)
  <1> USE DEF IInv, HeldAt, Holds
  <1>1. CASE h \in SystemHandles
    BY <1>1 DEF SystemHandles, HeldSystem
  <1>2. CASE h \in AppleHandles
    BY <1>2 DEF AppleHandles, HeldApple, AppleLabels
  <1>3. CASE h \in PhoneHandles
    BY <1>3 DEF PhoneHandles, HeldPhone
  <1>4. CASE h \in MemoryHandles
    BY <1>4 DEF MemoryHandles, HeldMemory
  <1>5. CASE h \in BatteryHandles
    BY <1>5 DEF BatteryHandles, HeldBattery, BatteryLabels
  <1>6. CASE h \notin SystemHandles \cup AppleHandles \cup PhoneHandles
                         \cup MemoryHandles \cup BatteryHandles
    BY <1>6 DEF Rests
  <1> QED
    BY <1>1, <1>2, <1>3, <1>4, <1>5, <1>6

\* A handle but the list's is held once or not at all.
LEMMA HeldOnce ==
  ASSUME IInv, NEW h \in Handle
  PROVE  held[h] >= 0 /\ (h # "supply_node" => held[h] <= 1)
  <1> USE DEF IInv, HeldAt
  <1>1. CASE h \in SystemHandles
    BY <1>1 DEF SystemHandles, HeldSystem
  <1>2. CASE h \in AppleHandles
    BY <1>2 DEF AppleHandles, HeldApple
  <1>3. CASE h \in PhoneHandles
    BY <1>3 DEF PhoneHandles, HeldPhone
  <1>4. CASE h \in MemoryHandles
    BY <1>4 DEF MemoryHandles, HeldMemory
  <1>5. CASE h \in BatteryHandles
    BY <1>5 DEF BatteryHandles, HeldBattery, ListTyped
  <1>6. CASE h \notin SystemHandles \cup AppleHandles \cup PhoneHandles
                         \cup MemoryHandles \cup BatteryHandles
    BY <1>6 DEF Rests
  <1> QED
    BY <1>1, <1>2, <1>3, <1>4, <1>5, <1>6

\* On every path, whatever fails, on every machine: a handle is held when it is
\* used, it is given back exactly once, and none is held when a part returns
\* (the goto-cleanup paths of the platform files).
THEOREM HandlesAreBalanced == Spec => []HandlesBalanced
  <1>1. ASSUME IInv
        PROVE  HandlesBalanced
    <2>1. Holds("vk_instance") => Holds("vulkan")
      BY <1>1 DEF IInv, HeldPhone, HeldAt, Holds
    <2> QED
      BY <1>1, <2>1, UsedIsHeld, NothingIsKept, HeldOnce DEF HandlesBalanced
  <1> QED
    BY <1>1, Invariance, PTL
-----------------------------------------------------------------------------
(* Division and products                                                   *)

\* Division with remainder.
LEMMA DivMod ==
  ASSUME NEW a \in Nat, NEW c \in Nat \ {0}
  PROVE  /\ a \div c \in Nat
         /\ a % c \in 0 .. (c - 1)
         /\ a = c * (a \div c) + (a % c)
  OBVIOUS

\* No product lies between two neighbouring multiples.
LEMMA ProductMonotone ==
  ASSUME NEW c \in Nat, NEW p \in Int, NEW q \in Int, p <= q
  PROVE  c * p <= c * q
  OBVIOUS
-----------------------------------------------------------------------------
(* SizeFormat.tla                                                          *)

\* Every unit has a size.
LEMMA BytesCount ==
  ASSUME NEW u \in Unit
  PROVE  Bytes(u) \in Nat \ {0}
  <1> DEFINE k2 == Kilo * Kilo
  <1>1. Kilo \in Nat \ {0}
    BY KiloAssumption
  <1>2. k2 \in Nat \ {0}
    BY <1>1
  <1> HIDE DEF k2
  <1> DEFINE k4 == k2 * k2
  <1>3. k2 * Kilo \in Nat \ {0} /\ k4 \in Nat \ {0}
    BY <1>1, <1>2
  <1> HIDE DEF k4
  <1>4. k4 * Kilo \in Nat \ {0}
    BY <1>1, <1>3
  <1>5. Divisors = <<1, Kilo, k2, k2 * Kilo, k4, k4 * Kilo>>
    BY DEF Divisors, k2, k4
  <1>6. /\ Divisors[1] \in Nat \ {0} /\ Divisors[2] \in Nat \ {0} /\ Divisors[3] \in Nat \ {0}
        /\ Divisors[4] \in Nat \ {0} /\ Divisors[5] \in Nat \ {0} /\ Divisors[6] \in Nat \ {0}
    BY <1>1, <1>2, <1>3, <1>4, <1>5
  <1>7. u \in {0, 1, 2, 3, 4, 5}
    BY DEF Unit
  <1> QED
    BY <1>6, <1>7 DEF Bytes

\* A rounded quotient is within half of what it counts.
LEMMA RoundEvenIsNear ==
  ASSUME NEW n \in Nat, NEW d \in Nat \ {0}
  PROVE  /\ RoundEven(n, d) \in Nat
         /\ 2 * (RoundEven(n, d) * d - n) <= d
         /\ 2 * (n - RoundEven(n, d) * d) <= d
  <1> DEFINE q == n \div d
             r == n % d
  <1>1. q \in Nat /\ r \in 0 .. d - 1 /\ n = d * q + r
    BY DivMod
  <1>2. RoundEven(n, d) = IF 2 * r > d \/ (2 * r = d /\ q % 2 = 1) THEN q + 1 ELSE q
    BY DEF RoundEven
  <1> HIDE DEF q, r
  <1>3. (q + 1) * d = d * q + d /\ q * d = d * q /\ d * q \in Nat
    BY <1>1
  <1>4. CASE RoundEven(n, d) = q + 1 /\ 2 * r >= d
    BY <1>1, <1>3, <1>4
  <1>5. CASE RoundEven(n, d) = q /\ 2 * r <= d
    BY <1>1, <1>3, <1>5
  <1> QED
    BY <1>1, <1>2, <1>4, <1>5

\* The number that is printed of a size is the nearest one, or one of the two.
LEMMA HundredthsAreNear ==
  ASSUME NEW size \in Nat, NEW u \in Unit, NEW forced
  PROVE  Near(Hundredths(size, u, forced), size, u, forced)
  <1> DEFINE b == Bytes(u)
  <1>1. b \in Nat \ {0}
    BY BytesCount
  <1> HIDE DEF b
  <1>2. CASE forced \in {KiB, MiB}
    <2> DEFINE x == RoundEven(size, b)
    <2>1. x \in Nat /\ 2 * (x * b - size) <= b /\ 2 * (size - x * b) <= b
      BY <1>1, RoundEvenIsNear
    <2>2. Hundredths(size, u, forced) = 100 * x
      BY <1>2 DEF Hundredths, b
    <2> HIDE DEF x
    <2>3. (100 * x) * b = 100 * (x * b) /\ x * b \in Nat
      BY <1>1, <2>1
    <2>4. 2 * Larger((100 * x) * b - 100 * size, -((100 * x) * b - 100 * size)) <= 100 * b
      BY <1>1, <2>1, <2>3 DEF Larger
    <2> QED
      BY <1>2, <2>2, <2>4 DEF Near, b
  <1>3. CASE forced \notin {KiB, MiB}
    <2> DEFINE x == RoundEven(100 * size, b)
    <2>1. x \in Nat /\ 2 * (x * b - 100 * size) <= b /\ 2 * (100 * size - x * b) <= b
      BY <1>1, RoundEvenIsNear
    <2>2. Hundredths(size, u, forced) = x
      BY <1>3 DEF Hundredths, b
    <2> HIDE DEF x
    <2>3. x * b \in Nat
      BY <1>1, <2>1
    <2>4. 2 * Larger(x * b - 100 * size, -(x * b - 100 * size)) <= 1 * b
      BY <1>1, <2>1, <2>3 DEF Larger
    <2> QED
      BY <1>3, <2>2, <2>4 DEF Near, b
  <1> QED
    BY <1>2, <1>3

\* Without a forced unit, the unit is the largest one that is filled.
LEMMA UnitFills ==
  ASSUME NEW total \in Nat, NEW used \in Nat, NEW forced \in Unit \cup {UnitAuto}
  PROVE  LET u == UnitFor(total, used, forced)
         IN  /\ u \in Unit
             /\ IF forced = UnitAuto
                  THEN /\ u > 0 => Bytes(u) <= Larger(total, used)
                       /\ u < 5 => Larger(total, used) < Bytes(u + 1)
                  ELSE u = forced
  <1>1. CASE forced \in Unit
    BY <1>1 DEF UnitFor, Unit, UnitAuto
  <1>2. CASE forced = UnitAuto
    <2> DEFINE filled == {u \in Unit : Bytes(u) <= Larger(total, used)}
               top == Max({0} \cup filled)
    <2>1. UnitFor(total, used, forced) = top
      BY <1>2 DEF UnitFor, Unit, UnitAuto
    <2>2. {0} \cup filled \subseteq 0 .. 5 /\ {0} \cup filled # {}
      BY DEF Unit
    <2> HIDE DEF filled
    <2>3. top \in {0} \cup filled /\ \A y \in {0} \cup filled : y <= top
      BY <2>2, MaxIsGreatest
    <2> HIDE DEF top
    <2>4. top \in Unit
      BY <2>2, <2>3 DEF Unit
    <2>5. top > 0 => Bytes(top) <= Larger(total, used)
      BY <2>3 DEF filled
    <2>6. ASSUME top < 5
          PROVE  Larger(total, used) < Bytes(top + 1)
      <3>1. top + 1 \in Unit /\ top + 1 > top
        BY <2>4, <2>6 DEF Unit
      <3>2. top + 1 \notin filled
        BY <2>3, <2>4, <3>1 DEF Unit
      <3>3. ~ (Bytes(top + 1) <= Larger(total, used))
        BY <3>1, <3>2 DEF filled
      <3>4. Bytes(top + 1) \in Nat /\ Larger(total, used) \in Nat
        BY <3>1, BytesCount DEF Larger
      <3> QED
        BY <3>3, <3>4
    <2> QED
      BY <1>2, <2>1, <2>4, <2>5, <2>6
  <1> QED
    BY <1>1, <1>2

\* The percentage of a part: cut, at most one too low, and 100 of the whole only.
LEMMA PercentIsCut ==
  ASSUME NEW part \in Nat, NEW whole \in Nat \ {0}, part <= whole
  PROVE  /\ CutPercent(part, whole) \in 0 .. 100
         /\ CutPercent(part, whole) * whole <= 100 * part
         /\ 100 * part <= (CutPercent(part, whole) + 1) * whole
         /\ CutPercent(part, whole) = 100 <=> part = whole
  <1> DEFINE p == (100 * part) \div whole
             r == (100 * part) % whole
  <1>0. 100 * part \in Nat
    OBVIOUS
  <1>1. p \in Nat /\ r \in 0 .. whole - 1 /\ 100 * part = whole * p + r
    BY <1>0, DivMod
  <1>2. CutPercent(part, whole) = IF p * whole = 100 * part /\ p \in LosesOne THEN p - 1 ELSE p
    BY DEF CutPercent
  <1> HIDE DEF p, r
  <1>3. /\ p * whole = whole * p /\ (p + 1) * whole = whole * p + whole
        /\ (p - 1) * whole = whole * p - whole /\ whole * p \in Nat
    BY <1>1
  <1>4. p <= 100
    <2> SUFFICES ASSUME 101 <= p PROVE FALSE
      BY <1>1
    <2>1. whole * 101 <= whole * p
      BY <1>1, ProductMonotone
    <2> QED
      BY <1>1, <1>3, <2>1
  <1>5. p = 100 <=> part = whole
    <2>1. ASSUME p = 100 PROVE part = whole
      BY <1>1, <2>1
    <2>2. ASSUME part = whole PROVE p = 100
      <3> SUFFICES ASSUME p <= 99 PROVE FALSE
        BY <1>1, <1>4
      <3>1. whole * p <= whole * 99
        BY <1>1, ProductMonotone
      <3> QED
        BY <1>1, <1>3, <2>2, <3>1
    <2> QED
      BY <2>1, <2>2
  <1>6. CASE p * whole = 100 * part /\ p \in LosesOne
    <2>1. p \in {29, 57, 58}
      BY <1>6 DEF LosesOne
    <2>2. CutPercent(part, whole) = p - 1 /\ (p - 1) + 1 = p
      BY <1>1, <1>2, <1>6
    <2>3. part # whole
      BY <1>5, <2>1
    <2>4. p - 1 \in 0 .. 100 /\ p - 1 # 100
      BY <2>1
    <2> QED
      BY <1>1, <1>3, <1>6, <2>2, <2>3, <2>4
  <1>7. CASE ~ (p * whole = 100 * part /\ p \in LosesOne)
    <2>1. CutPercent(part, whole) = p
      BY <1>2, <1>7
    <2> QED
      BY <1>1, <1>3, <1>4, <1>5, <2>1
  <1> QED
    BY <1>6, <1>7

\* util_format_size tells both sizes, in a unit that fits, and the percentage.
THEOREM FormatTells ==
  ASSUME NEW total \in Nat, NEW used \in Nat, NEW forced \in Unit \cup {UnitAuto}
  PROVE  TellsSizes(FormatSize(total, used, forced), total, used, forced)
  <1> DEFINE u == UnitFor(total, used, forced)
             pct == Percent(used, total)
             f == FormatSize(total, used, forced)
  <1>1. /\ f.unit = u /\ f.pct = pct
        /\ f.total = Hundredths(total, u, forced) /\ f.used = Hundredths(used, u, forced)
    BY DEF FormatSize
  <1>2. /\ u \in Unit
        /\ IF forced = UnitAuto
             THEN /\ u > 0 => Bytes(u) <= Larger(total, used)
                  /\ u < 5 => Larger(total, used) < Bytes(u + 1)
             ELSE u = forced
    BY UnitFills
  <1>3. /\ pct * total <= 100 * used
        /\ total > 0 /\ used <= total => 100 * used <= (pct + 1) * total
        /\ total > 0 => (pct = 100 <=> used >= total)
    <2>1. CASE total = 0
      BY <2>1 DEF Percent
    <2>2. CASE total # 0 /\ used > total
      BY <2>2 DEF Percent
    <2>3. CASE total # 0 /\ used <= total
      <3>1. pct = CutPercent(used, total)
        BY <2>3 DEF Percent
      <3>2. total \in Nat \ {0} /\ used <= total
        BY <2>3
      <3>3. /\ pct * total <= 100 * used /\ 100 * used <= (pct + 1) * total
            /\ pct = 100 <=> used = total
        BY <3>1, <3>2, PercentIsCut
      <3>4. used >= total <=> used = total
        BY <2>3
      <3> QED
        BY <3>3, <3>4
    <2> QED
      BY <2>1, <2>2, <2>3
  <1> HIDE DEF u, pct, f
  <1>4. Near(f.total, total, f.unit, forced) /\ Near(f.used, used, f.unit, forced)
    BY <1>1, <1>2, HundredthsAreNear
  <1>5. TellsSizes(f, total, used, forced)
    BY <1>1, <1>2, <1>3, <1>4 DEF TellsSizes
  <1> QED
    BY <1>5 DEF f
-----------------------------------------------------------------------------
(* MemoryInfo.tla                                                          *)

\* What the first n lines of the file say of a key: its last number.
SaidBy(f, n, k) ==
  LET those == {j \in 1 .. n : f[j].key = k /\ f[j].kib # NoNumber}
  IN  IF those = {} THEN NoNumber ELSE f[Max(those)].kib

\* What the whole file says is what its last line leaves.
LEMMA SaidByAll ==
  ASSUME NEW f \in Meminfos, NEW k
  PROVE  SaidOf(f, k) = SaidBy(f, Len(f), k)
  <1>1. DOMAIN f = 1 .. Len(f)
    BY MeminfoAssumption
  <1> QED
    BY <1>1 DEF SaidOf, SaidBy

\* No line says nothing.
LEMMA SaidByFirst ==
  ASSUME NEW f, NEW k
  PROVE  SaidBy(f, 0, k) = NoNumber
  BY DEF SaidBy

\* One more line changes what is said of its own key, if it has a number.
LEMMA SaidByNext ==
  ASSUME NEW f \in Meminfos, NEW n \in 0 .. Len(f) - 1, NEW k
  PROVE  SaidBy(f, n + 1, k) = IF f[n + 1].key = k /\ f[n + 1].kib # NoNumber
                                 THEN f[n + 1].kib ELSE SaidBy(f, n, k)
  <1> DEFINE Those(m) == {j \in 1 .. m : f[j].key = k /\ f[j].kib # NoNumber}
  <1>1. Len(f) \in Nat /\ n \in Nat /\ 1 .. (n + 1) = (1 .. n) \cup {n + 1}
    BY MeminfoAssumption
  <1>2. \A m : SaidBy(f, m, k) = IF Those(m) = {} THEN NoNumber ELSE f[Max(Those(m))].kib
    BY DEF SaidBy
  <1>3. CASE ~ (f[n + 1].key = k /\ f[n + 1].kib # NoNumber)
    <2>1. Those(n + 1) = Those(n)
      BY <1>1, <1>3
    <2> HIDE DEF Those
    <2> QED
      BY <1>2, <1>3, <2>1
  <1>4. CASE f[n + 1].key = k /\ f[n + 1].kib # NoNumber
    <2>1. n + 1 \in Those(n + 1) /\ Those(n + 1) \subseteq 0 .. (n + 1)
      BY <1>1, <1>4
    <2>2. Those(n + 1) \subseteq 1 .. (n + 1)
      OBVIOUS
    <2> HIDE DEF Those
    <2>3. Max(Those(n + 1)) \in Those(n + 1) /\ n + 1 <= Max(Those(n + 1))
      BY <1>1, <2>1, MaxIsGreatest
    <2>4. Max(Those(n + 1)) = n + 1
      BY <1>1, <2>2, <2>3
    <2> QED
      BY <1>2, <1>4, <2>1, <2>4
  <1> QED
    BY <1>3, <1>4

\* What the file says of a key is a number of KiB, if it says anything.
LEMMA SaidIsCount ==
  ASSUME NEW f \in Meminfos, NEW k
  PROVE  SaidOf(f, k) \in Nat \cup {NoNumber}
  <1> DEFINE those == {j \in DOMAIN f : f[j].key = k /\ f[j].kib # NoNumber}
  <1>1. f \in Seq([key : STRING, kib : Nat \cup {NoNumber}])
    BY MeminfoAssumption
  <1>2. those \subseteq DOMAIN f
    OBVIOUS
  <1>3. SaidOf(f, k) = IF those = {} THEN NoNumber ELSE f[Max(those)].kib
    BY DEF SaidOf
  <1> HIDE DEF those
  <1>4. Len(f) \in Nat /\ DOMAIN f \subseteq 0 .. Len(f)
    BY <1>1
  <1>5. \A j \in DOMAIN f : f[j].kib \in Nat \cup {NoNumber}
    <2> DEFINE Lines == [key : STRING, kib : Nat \cup {NoNumber}]
    <2>1. f \in Seq(Lines)
      BY <1>1
    <2> HIDE DEF Lines
    <2>2. \A j \in DOMAIN f : f[j] \in Lines
      BY <2>1
    <2> QED
      BY <2>2 DEF Lines
  <1>6. those # {} => Max(those) \in those
    <2>1. those \subseteq 0 .. Len(f)
      BY <1>2, <1>4
    <2> QED
      BY <1>4, <2>1, MaxIsGreatest
  <1> QED
    BY <1>2, <1>3, <1>5, <1>6

\* What is left of a file after n lines: nothing at its end, and else the next line
\* and what is left after that one.
IsRest(r, f, n) ==
  /\ r = <<>> <=> n = Len(f)
  /\ r # <<>> => Head(r) = f[n + 1] /\ Tail(r) = SubSeq(f, (n + 1) + 1, Len(f))

\* That is what SubSeq gives.
LEMMA RestOfLines ==
  ASSUME NEW Lines, NEW f \in Seq(Lines), NEW n \in 0 .. Len(f), NEW r,
         r = SubSeq(f, n + 1, Len(f))
  PROVE  IsRest(r, f, n)
  <1>1. f \in Seq(Lines)
    OBVIOUS
  <1>2. Len(f) \in Nat /\ n \in Nat
    BY <1>1
  <1>3. r \in Seq(Lines) /\ Len(r) = Len(f) - n /\ \A j \in 1 .. Len(f) - n : r[j] = f[n + j]
    BY <1>1, <1>2
  <1>4. r = <<>> <=> n = Len(f)
    <2>1. r \in Seq(Lines)
      BY <1>3
    <2>2. r = <<>> <=> Len(r) = 0
      BY <2>1, EmptySeq
    <2> QED
      BY <1>2, <1>3, <2>2
  <1>5. ASSUME r # <<>>
        PROVE  Head(r) = f[n + 1] /\ Tail(r) = SubSeq(f, (n + 1) + 1, Len(f))
    <2>1. Head(r) = f[n + 1]
      BY <1>2, <1>3, <1>4, <1>5
    <2>2. /\ Tail(r) \in Seq(Lines) /\ Len(Tail(r)) = Len(f) - n - 1
          /\ \A j \in 1 .. Len(f) - n - 1 : Tail(r)[j] = r[j + 1]
      BY <1>2, <1>3, <1>5
    <2>3. /\ SubSeq(f, (n + 1) + 1, Len(f)) \in Seq(Lines)
          /\ Len(SubSeq(f, (n + 1) + 1, Len(f))) = Len(f) - n - 1
          /\ \A j \in 1 .. Len(f) - n - 1 : SubSeq(f, (n + 1) + 1, Len(f))[j] = f[n + 1 + j]
      BY <1>1, <1>2, <1>4, <1>5
    <2>4. \A j \in 1 .. Len(f) - n - 1 : r[j + 1] = f[n + 1 + j]
      BY <1>2, <1>3
    <2> QED
      BY <2>1, <2>2, <2>3, <2>4
  <1> QED
    BY <1>4, <1>5 DEF IsRest

\* The same of the lines of /proc/meminfo.
LEMMA NextLine ==
  ASSUME NEW f \in Meminfos, NEW n \in 0 .. Len(f), NEW r,
         r = SubSeq(f, n + 1, Len(f))
  PROVE  IsRest(r, f, n)
  <1> DEFINE Lines == [key : STRING, kib : Nat \cup {NoNumber}]
  <1>1. f \in Seq(Lines)
    BY MeminfoAssumption
  <1> HIDE DEF Lines
  <1> QED
    BY <1>1, RestOfLines

\* The variables of the memory lines between calls; what has been read of the
\* file; what is made of it; and the page, which is blank until it is printed.
MemoryIdle == /\ meminfo = <<>> /\ unread = <<>> /\ kib = NothingFound
               /\ mem = EmptyMem /\ flags = {}
MemoryTyped == /\ unit \in Unit \cup {UnitAuto}
               /\ kib \in [MemKeys -> Nat \cup {NoNumber}]
               /\ mem \in [ram : Nat, ramUsed : Nat, swap : Nat, swapUsed : Nat]
               /\ flags \subseteq {"RAM", "Swap"}

ReadSoFar(n) == /\ unread = SubSeq(meminfo, n + 1, Len(meminfo))
                /\ \A k \in MemKeys : kib[k] = SaidBy(meminfo, n, k)

Found ==
  /\ mem = [ram |-> BytesFound("MemTotal"), swap |-> BytesFound("SwapTotal"),
            ramUsed  |-> Used(BytesFound("MemTotal"), RamFree),
            swapUsed |-> Used(BytesFound("SwapTotal"), BytesFound("SwapFree"))]
  /\ flags = {f \in {"RAM", "Swap"} :
                BytesFound(IF f = "RAM" THEN "MemTotal" ELSE "SwapTotal") > 0}

MemoryData ==
  /\ MemoryTyped
  /\ pc \notin MemoryLabels => MemoryIdle
  /\ OnLinux /\ pc \in MemoryLabels =>
       /\ meminfo \in Meminfos
       /\ pc = "mem_lines" => \E n \in 0 .. Len(meminfo) : ReadSoFar(n)
       /\ pc # "mem_lines" => ReadSoFar(Len(meminfo)) /\ Found
  /\ os = "macos" /\ "RAM" \in flags =>
       meminfo \in PageCounts /\ mem.ramUsed = RamUsed(meminfo, mem.ram)
  /\ pc \in MemoryLabels \cup {"memory"} =>
       page = IF pc = "mem_shown" THEN PrintedMemory ELSE <<>>

\* What the numbers start from are numbers, or none.
LEMMA MemoryTypes ==
  /\ NothingFound \in [MemKeys -> Nat \cup {NoNumber}]
  /\ EmptyMem \in [ram : Nat, ramUsed : Nat, swap : Nat, swapUsed : Nat]
  BY DEF NothingFound, EmptyMem

\* What a build counts: those of the older systems or those of the newer ones.
LEMMA WhatIsCounted ==
  ASSUME NEW vm \in PageCounts
  PROVE  IF IsOlder(vm)
           THEN vm.active \in Nat /\ vm.inactive \in Nat /\ vm.wired \in Nat
           ELSE /\ vm.internal \in 0 .. CountWidth - 1 /\ vm.purgeable \in 0 .. CountWidth - 1
                /\ vm.wired \in Nat /\ vm.compressed \in Nat
  <1>1. CASE vm \in [active : Nat, inactive : Nat, wired : Nat]
    BY <1>1 DEF IsOlder
  <1>2. CASE vm \in [internal : 0 .. CountWidth - 1, purgeable : 0 .. CountWidth - 1,
                     wired : Nat, compressed : Nat]
    <2>1. DOMAIN vm = {"internal", "purgeable", "wired", "compressed"}
      BY <1>2
    <2>2. ~IsOlder(vm)
      BY <2>1 DEF IsOlder
    <2> QED
      BY <1>2, <2>2
  <1> QED
    BY <1>1, <1>2, CounterAssumption

\* The counters of the system cannot make less than nothing used.
LEMMA RamUsedTyped ==
  ASSUME NEW vm \in PageCounts, NEW ram \in Nat
  PROVE  RamUsed(vm, ram) \in Nat /\ RamUsed(vm, ram) <= ram
  <1>1. CountWidth \in Nat \ {0} /\ PageSize \in Nat
    BY PageAssumption
  <1>2. PagesUsed(vm) \in Nat
    <2>1. CASE IsOlder(vm)
      BY <2>1, WhatIsCounted DEF PagesUsed
    <2>2. CASE ~IsOlder(vm)
      <3>1. /\ vm.internal \in Nat /\ vm.purgeable \in Nat
            /\ vm.wired \in Nat /\ vm.compressed \in Nat
        BY <1>1, <2>2, WhatIsCounted
      <3>2. (vm.internal - vm.purgeable) % CountWidth \in Nat
        BY <1>1, <3>1
      <3> QED
        BY <2>2, <3>1, <3>2 DEF PagesUsed
    <2> QED
      BY <2>1, <2>2
  <1>3. PagesUsed(vm) * PageSize \in Nat
    BY <1>1, <1>2
  <1> QED
    BY <1>3 DEF RamUsed

\* A value that was not found counts nothing.
LEMMA FoundTyped ==
  ASSUME MemoryTyped, NEW k \in MemKeys
  PROVE  BytesFound(k) \in Nat
  BY KiloAssumption DEF MemoryTyped, BytesFound, Larger, NoNumber

\* Neither main nor another part changes what memory has read.
LEMMA MemoryDataRests ==
  ASSUME MemoryData, UNCHANGED memVars, os' = os, (unit' \in Unit \cup {UnitAuto}),
         \/ pc' = pc /\ page' = page /\ unit' = unit
         \/ {pc, pc'} \cap MemoryLabels = {} /\ (pc' = "memory" => page' = <<>>)
  PROVE  MemoryData'
  <1>1. MemoryTyped' /\ (MemoryIdle => MemoryIdle')
    BY DEF MemoryData, MemoryTyped, MemoryIdle, memVars
  <1>2. \A n : ReadSoFar(n) => ReadSoFar(n)'
    BY DEF ReadSoFar, memVars
  <1>3. Found => Found'
    BY DEF Found, BytesFound, RamFree, memVars
  <1>4. unit' = unit => PrintedMemory' = PrintedMemory
    BY DEF PrintedMemory, memVars
  <1>5. UNCHANGED <<meminfo, mem, flags>> /\ (OnLinux' <=> OnLinux)
    BY DEF memVars, OnLinux
  <1>6. CASE pc' = pc /\ page' = page /\ unit' = unit
    BY <1>1, <1>2, <1>3, <1>4, <1>5, <1>6 DEF MemoryData
  <1>7. CASE {pc, pc'} \cap MemoryLabels = {} /\ (pc' = "memory" => page' = <<>>)
    BY <1>1, <1>5, <1>7 DEF MemoryData, MemoryLabels
  <1> QED
    BY <1>6, <1>7

\* A step of fetch_memory_info keeps what it has read, found and printed.
LEMMA MemoryDataKeeps ==
  ASSUME IInv, MemoryData, Memory
  PROVE  MemoryData'
  <1> USE DEF Goto, MemoryLabels
  <1>0. os \in {"linux", "android", "macos"} /\ os' = os /\ (OnLinux <=> os # "macos") /\ (OnLinux' <=> OnLinux)
    BY MemoryKeeps DEF IInv, Rests, Touches, Platform, OnLinux
  <1>1. unit' = unit
    BY DEF Memory, OpenMeminfo, MeminfoMissing, ReadMeminfoLine, EndOfMeminfo, RamSize,
           HostStatistics, HostStatisticsFail, SwapUsage, PrintMemory, LeaveMemory, MemReturn
  <1>2. ASSUME OpenMeminfo PROVE MemoryData'
    <2>1. PICK f \in Meminfos : meminfo' = f /\ unread' = f /\ pc' = "mem_lines"
      BY <1>2 DEF OpenMeminfo
    <2>2. MemoryIdle /\ UNCHANGED <<page, kib, mem, flags>> /\ page = <<>> /\ OnLinux
      BY <1>2 DEF OpenMeminfo, MemoryData
    <2>3. f = SubSeq(f, 0 + 1, Len(f)) /\ 0 \in 0 .. Len(f)
      BY MeminfoAssumption
    <2>4. ReadSoFar(0)'
      <3>1. \A k \in MemKeys : kib'[k] = SaidBy(f, 0, k)
        BY <2>2, SaidByFirst DEF MemoryIdle, NothingFound
      <3> QED
        BY <2>1, <2>3, <3>1 DEF ReadSoFar
    <2>5. MemoryTyped'
      BY <1>1, <2>2 DEF MemoryData, MemoryTyped
    <2> QED
      BY <1>0, <2>1, <2>2, <2>3, <2>4, <2>5 DEF MemoryData, MemoryIdle
  <1>3. ASSUME MeminfoMissing \/ LeaveMemory PROVE MemoryData'
    <2>1. MemReturn
      BY <1>3 DEF MeminfoMissing, LeaveMemory
    <2> QED
      BY <1>1, <2>1, MemoryTypes DEF MemReturn, MemoryData, MemoryTyped, MemoryIdle
  <1>4. ASSUME ReadMeminfoLine PROVE MemoryData'
    <2>1. /\ pc = "mem_lines" /\ pc' = pc /\ unread # <<>> /\ OnLinux
          /\ UNCHANGED <<page, meminfo, mem, flags>>
      BY <1>4 DEF ReadMeminfoLine, IInv, HeldMemory
    <2>2. PICK n \in 0 .. Len(meminfo) : ReadSoFar(n)
      BY <2>1 DEF MemoryData
    <2>3. meminfo \in Meminfos
      BY <2>1 DEF MemoryData
    <2>4. /\ n # Len(meminfo) /\ Head(unread) = meminfo[n + 1]
          /\ Tail(unread) = SubSeq(meminfo, (n + 1) + 1, Len(meminfo))
      BY <2>1, <2>2, <2>3, NextLine DEF ReadSoFar, IsRest
    <2>5. Len(meminfo) \in Nat
      BY <2>3, MeminfoAssumption
    <2>6. n \in 0 .. Len(meminfo) - 1 /\ n + 1 \in 0 .. Len(meminfo)
      BY <2>4, <2>5
    <2> DEFINE l == meminfo[n + 1]
    <2>7. l.kib \in Nat \cup {NoNumber}
      <3>1. n + 1 \in 1 .. Len(meminfo)
        BY <2>5, <2>6
      <3> DEFINE Lines == [key : STRING, kib : Nat \cup {NoNumber}]
      <3>2. meminfo \in Seq(Lines)
        BY <2>3, MeminfoAssumption
      <3> HIDE DEF Lines
      <3>3. meminfo[n + 1] \in Lines
        BY <3>1, <3>2
      <3> QED
        BY <3>3 DEF Lines, l
    <2>8. kib' = IF l.key \in MemKeys /\ l.kib # NoNumber THEN [kib EXCEPT ![l.key] = l.kib] ELSE kib
      BY <1>4, <2>4 DEF ReadMeminfoLine
    <2>9. kib \in [MemKeys -> Nat \cup {NoNumber}]
      BY DEF MemoryData, MemoryTyped
    <2>10. \A k \in MemKeys : SaidBy(meminfo, n + 1, k) =
             IF l.key = k /\ l.kib # NoNumber THEN l.kib ELSE SaidBy(meminfo, n, k)
      BY <2>3, <2>6, SaidByNext
    <2> HIDE DEF l
    <2>11. /\ kib' \in [MemKeys -> Nat \cup {NoNumber}]
           /\ \A k \in MemKeys : kib'[k] = IF l.key = k /\ l.kib # NoNumber THEN l.kib ELSE kib[k]
      BY <2>7, <2>8, <2>9
    <2>12. \A k \in MemKeys : kib'[k] = SaidBy(meminfo, n + 1, k)
      BY <2>2, <2>10, <2>11 DEF ReadSoFar
    <2>13. ReadSoFar(n + 1)'
      <3>1. unread' = SubSeq(meminfo, (n + 1) + 1, Len(meminfo))
        BY <1>4, <2>4 DEF ReadMeminfoLine
      <3> QED
        BY <2>1, <2>12, <3>1 DEF ReadSoFar
    <2>14. MemoryTyped'
      BY <1>1, <2>1, <2>11 DEF MemoryData, MemoryTyped
    <2> QED
      BY <1>0, <2>1, <2>3, <2>6, <2>13, <2>14 DEF MemoryData
  <1>5. ASSUME EndOfMeminfo PROVE MemoryData'
    <2>1. /\ pc = "mem_lines" /\ pc' = "mem_print" /\ unread = <<>> /\ OnLinux
          /\ UNCHANGED <<page, meminfo, unread, kib>>
      BY <1>5 DEF EndOfMeminfo, IInv, HeldMemory
    <2>2. PICK n \in 0 .. Len(meminfo) : ReadSoFar(n)
      BY <2>1 DEF MemoryData
    <2>3. meminfo \in Meminfos
      BY <2>1 DEF MemoryData
    <2>4. n = Len(meminfo)
      BY <2>1, <2>2, <2>3, NextLine DEF ReadSoFar, IsRest
    <2>5. ReadSoFar(Len(meminfo))'
      BY <2>1, <2>2, <2>4 DEF ReadSoFar
    <2>6. Found'
      BY <1>5 DEF EndOfMeminfo, Found, BytesFound, RamFree
    <2>7. MemoryTyped'
      <3>1. \A k \in MemKeys : BytesFound(k) \in Nat
        BY FoundTyped DEF MemoryData
      <3>2. RamFree \in Nat
        BY <3>1 DEF RamFree, MemKeys
      <3>3. \A a \in Nat, b \in Nat : Used(a, b) \in Nat
        BY DEF Used
      <3>4. {"MemTotal", "SwapTotal", "SwapFree"} \subseteq MemKeys
        BY DEF MemKeys
      <3>5. mem' \in [ram : Nat, ramUsed : Nat, swap : Nat, swapUsed : Nat]
        BY <1>5, <3>1, <3>2, <3>3, <3>4 DEF EndOfMeminfo
      <3>6. flags' \subseteq {"RAM", "Swap"}
        BY <1>5 DEF EndOfMeminfo
      <3> QED
        BY <1>1, <2>1, <3>5, <3>6 DEF MemoryData, MemoryTyped
    <2> QED
      BY <1>0, <2>1, <2>3, <2>5, <2>6, <2>7 DEF MemoryData
  <1>6. ASSUME RamSize PROVE MemoryData'
    <2>1. /\ pc = "memory" /\ os = "macos" /\ pc' \in {"mem_swap", "mem_host"}
          /\ UNCHANGED <<page, meminfo, unread, kib, flags>>
      BY <1>6 DEF RamSize
    <2>2. PICK s \in RamSizes \cup {0} : mem' = [mem EXCEPT !.ram = s]
      BY <1>6 DEF RamSize
    <2>3. s \in Nat
      BY CounterAssumption
    <2>4. MemoryIdle /\ page = <<>>
      BY <2>1 DEF MemoryData
    <2>5. MemoryTyped'
      BY <1>1, <2>1, <2>2, <2>3 DEF MemoryData, MemoryTyped
    <2>6. flags' = {}
      BY <2>1, <2>4 DEF MemoryIdle
    <2> QED
      BY <1>0, <2>1, <2>4, <2>5, <2>6 DEF MemoryData
  <1>7. ASSUME HostStatistics PROVE MemoryData'
    <2>1. /\ pc = "mem_host" /\ os = "macos" /\ pc' = "mem_swap"
          /\ UNCHANGED <<page, unread, kib>> /\ flags' = flags \cup {"RAM"}
      BY <1>7 DEF HostStatistics, IInv, HeldMemory
    <2>2. PICK vm \in PageCounts : meminfo' = vm /\ mem' = [mem EXCEPT !.ramUsed = RamUsed(vm, mem.ram)]
      BY <1>7 DEF HostStatistics
    <2>3. mem \in [ram : Nat, ramUsed : Nat, swap : Nat, swapUsed : Nat]
      BY DEF MemoryData, MemoryTyped
    <2>4. RamUsed(vm, mem.ram) \in Nat
      BY <2>3, RamUsedTyped
    <2>5. /\ mem' \in [ram : Nat, ramUsed : Nat, swap : Nat, swapUsed : Nat]
          /\ mem'.ram = mem.ram /\ mem'.ramUsed = RamUsed(vm, mem.ram)
      BY <2>2, <2>3, <2>4
    <2>6. MemoryTyped'
      BY <1>1, <2>1, <2>5 DEF MemoryData, MemoryTyped
    <2> QED
      BY <1>0, <2>1, <2>2, <2>5, <2>6 DEF MemoryData
  <1>8. ASSUME HostStatisticsFail PROVE MemoryData'
    <2>1. /\ pc = "mem_host" /\ os = "macos" /\ pc' = "mem_swap"
          /\ UNCHANGED <<page, memVars>>
      BY <1>8 DEF HostStatisticsFail, IInv, HeldMemory
    <2> QED
      BY <1>0, <1>1, <2>1 DEF MemoryData, MemoryTyped, memVars
  <1>9. ASSUME SwapUsage PROVE MemoryData'
    <2>1. /\ pc = "mem_swap" /\ os = "macos" /\ pc' = "mem_print"
          /\ UNCHANGED <<page, meminfo, unread, kib>>
          /\ \/ \E s \in SwapUsages : mem' = [mem EXCEPT !.swap = s.total, !.swapUsed = s.used]
             \/ mem' = mem
          /\ flags' \in {flags, flags \cup {"Swap"}}
      BY <1>9 DEF SwapUsage, IInv, HeldMemory
    <2>2. mem \in [ram : Nat, ramUsed : Nat, swap : Nat, swapUsed : Nat]
      BY DEF MemoryData, MemoryTyped
    <2>3. /\ mem' \in [ram : Nat, ramUsed : Nat, swap : Nat, swapUsed : Nat]
          /\ mem'.ram = mem.ram /\ mem'.ramUsed = mem.ramUsed
      BY <2>1, <2>2, CounterAssumption
    <2>4. MemoryTyped'
      BY <1>1, <2>1, <2>3 DEF MemoryData, MemoryTyped
    <2>5. "RAM" \in flags' <=> "RAM" \in flags
      BY <2>1
    <2> QED
      BY <1>0, <2>1, <2>3, <2>4, <2>5 DEF MemoryData
  <1>10. ASSUME PrintMemory PROVE MemoryData'
    <2>1. /\ pc = "mem_print" /\ pc' = "mem_shown" /\ page' = page \o PrintedMemory
          /\ UNCHANGED memVars /\ page = <<>>
      BY <1>10 DEF PrintMemory, MemoryData
    <2>2. page' = PrintedMemory
      BY <2>1 DEF PrintedMemory
    <2>3. PrintedMemory' = PrintedMemory
      BY <1>1, <2>1 DEF PrintedMemory, memVars
    <2>4. MemoryTyped' /\ (\A n : ReadSoFar(n) => ReadSoFar(n)') /\ (Found => Found')
      BY <1>1, <2>1 DEF MemoryData, MemoryTyped, ReadSoFar, Found, BytesFound, RamFree, memVars
    <2>5. UNCHANGED <<meminfo, mem, flags>>
      BY <2>1 DEF memVars
    <2> QED
      BY <1>0, <2>1, <2>2, <2>3, <2>4, <2>5 DEF MemoryData
  <1> QED
    BY <1>2, <1>3, <1>4, <1>5, <1>6, <1>7, <1>8, <1>9, <1>10 DEF Memory
-----------------------------------------------------------------------------
(* MemoryIsTrue                                                            *)

\* The lines of a page that has those of the RAM and of the swap.
LEMMA TwoLines ==
  ASSUME NEW fl, NEW a, NEW b, NEW l,
         NEW p, p = (IF "RAM" \in fl THEN <<a>> ELSE <<>>)
                      \o (IF "Swap" \in fl THEN <<b>> ELSE <<>>)
  PROVE  l \in Range(p) <=> (l = a /\ "RAM" \in fl) \/ (l = b /\ "Swap" \in fl)
  <1>1. CASE "RAM" \in fl /\ "Swap" \in fl
    <2> DEFINE S == {a, b}
    <2>1. p = <<a>> \o <<b>>
      BY <1>1, Zenon
    <2>2. <<a>> \in Seq(S) /\ <<b>> \in Seq(S)
      OBVIOUS
    <2> HIDE DEF S
    <2>3. p \in Seq(S) /\ Len(p) = 2 /\ p[1] = a /\ p[2] = b
      BY <2>1, <2>2
    <2>4. DOMAIN p = {1, 2}
      BY <2>3
    <2>5. Range(p) = {a, b}
      BY <2>3, <2>4 DEF Range
    <2> QED
      BY <1>1, <2>5
  <1>2. CASE "RAM" \in fl /\ "Swap" \notin fl
    <2>1. p = <<a>>
      BY <1>2
    <2> QED
      BY <1>2, <2>1 DEF Range
  <1>3. CASE "RAM" \notin fl /\ "Swap" \in fl
    <2>1. p = <<b>>
      BY <1>3
    <2> QED
      BY <1>3, <2>1 DEF Range
  <1>4. CASE "RAM" \notin fl /\ "Swap" \notin fl
    <2>1. p = <<>>
      BY <1>4
    <2> QED
      BY <1>4, <2>1 DEF Range
  <1> QED
    BY <1>1, <1>2, <1>3, <1>4

RamLine  == [label |-> "RAM", text |-> FormatSize(mem.ram, mem.ramUsed, unit)]
SwapLine == [label |-> "Swap",
             text  |-> IF mem.swap = 0 THEN Unused
                       ELSE FormatSize(mem.swap, mem.swapUsed, unit)]

\* What is printed of memory: the lines that were found, and no others.
LEMMA MemoryLines ==
  ASSUME page = PrintedMemory, NEW l
  PROVE  l \in Range(page) <=> \/ l = RamLine /\ "RAM" \in flags
                               \/ l = SwapLine /\ "Swap" \in flags
  <1>1. page = (IF "RAM" \in flags THEN <<RamLine>> ELSE <<>>)
                 \o (IF "Swap" \in flags THEN <<SwapLine>> ELSE <<>>)
    BY DEF PrintedMemory, RamLine, SwapLine
  <1> QED
    BY <1>1, TwoLines

\* What is used is the rest of what is free, and no less than nothing; in bytes
\* as in KiB.
LEMMA UsedInBytes ==
  ASSUME NEW n \in Nat, NEW free \in Nat
  PROVE  /\ Used(n * Kilo, free * Kilo) = (n - Min({n, free})) * Kilo
         /\ n - Min({n, free}) \in Nat
  <1>1. Kilo \in Nat \ {0}
    BY KiloAssumption
  <1>2. {n, free} \subseteq Nat /\ {n, free} # {}
    OBVIOUS
  <1>3. Min({n, free}) \in {n, free} /\ Min({n, free}) <= n /\ Min({n, free}) <= free
    BY <1>2, MinIsLeast
  <1>4. CASE free < n
    <2>1. Min({n, free}) = free
      BY <1>3, <1>4
    <2>2. free * Kilo < n * Kilo /\ n * Kilo - free * Kilo = (n - free) * Kilo
      <3>1. n * Kilo = free * Kilo + (n - free) * Kilo
        BY <1>1
      <3>2. n - free \in Nat \ {0}
        BY <1>4
      <3>3. (n - free) * Kilo \in Nat \ {0} /\ free * Kilo \in Nat
        BY <1>1, <3>2
      <3> QED
        BY <3>1, <3>3
    <2> QED
      BY <1>4, <2>1, <2>2 DEF Used
  <1>5. CASE ~ (free < n)
    <2>1. Min({n, free}) = n
      BY <1>3, <1>5
    <2>2. n * Kilo <= free * Kilo
      BY <1>1, <1>5, ProductMonotone
    <2>3. n * Kilo \in Nat /\ free * Kilo \in Nat
      BY <1>1
    <2>4. ~ (free * Kilo < n * Kilo)
      BY <2>2, <2>3
    <2> QED
      BY <2>1, <2>4, <1>1 DEF Used
  <1> QED
    BY <1>4, <1>5

\* On Linux and Android both lines tell what the file says as a whole.
LEMMA MeminfoIsTold ==
  ASSUME IInv, MemoryData, pc = "mem_shown", OnLinux, unit = UnitAsked
  PROVE  /\ Tells("RAM", SaidOf(meminfo, "MemTotal"), FreeIn(meminfo))
         /\ Tells("Swap", SaidOf(meminfo, "SwapTotal"), Larger(SaidOf(meminfo, "SwapFree"), 0))
  <1> DEFINE Free(k) == Larger(SaidOf(meminfo, k), 0)
  <1>1. /\ meminfo \in Meminfos /\ ReadSoFar(Len(meminfo)) /\ Found
        /\ page = PrintedMemory /\ unit \in Unit \cup {UnitAuto}
    BY DEF MemoryData, MemoryTyped, MemoryLabels
  <1>2. \A k \in MemKeys : kib[k] = SaidOf(meminfo, k)
    BY <1>1, SaidByAll DEF ReadSoFar
  <1>3. \A k \in MemKeys : Free(k) \in Nat /\ BytesFound(k) = Free(k) * Kilo
    <2>1. ASSUME NEW k \in MemKeys PROVE Free(k) \in Nat /\ BytesFound(k) = Free(k) * Kilo
      <3>1. SaidOf(meminfo, k) \in Nat \cup {NoNumber}
        BY <1>1, SaidIsCount
      <3>2. Free(k) \in Nat
        BY <3>1 DEF Larger, NoNumber
      <3>3. BytesFound(k) = Free(k) * Kilo
        BY <1>2 DEF BytesFound
      <3> QED
        BY <3>2, <3>3
    <2> QED
      BY <2>1
  <1>4. Kilo \in Nat \ {0}
    BY KiloAssumption
  <1>5. RamFree = FreeIn(meminfo) * Kilo /\ FreeIn(meminfo) \in Nat
    <2>1. CASE SaidOf(meminfo, "MemAvailable") # NoNumber
      <3>1. SaidOf(meminfo, "MemAvailable") \in Nat
        BY <1>1, <2>1, SaidIsCount
      <3>2. FreeIn(meminfo) = Free("MemAvailable")
        BY <2>1, <3>1 DEF FreeIn, Larger
      <3>3. "MemAvailable" \in MemKeys
        BY DEF MemKeys
      <3>4. RamFree = BytesFound("MemAvailable")
        BY <1>2, <2>1, <3>3 DEF RamFree
      <3> QED
        BY <1>3, <3>2, <3>3, <3>4
    <2>2. CASE SaidOf(meminfo, "MemAvailable") = NoNumber
      <3>1. {"MemAvailable", "MemFree", "Buffers", "Cached", "SReclaimable"} \subseteq MemKeys
        BY DEF MemKeys
      <3>2. FreeIn(meminfo) = Free("MemFree") + Free("Buffers") + Free("Cached") + Free("SReclaimable")
        BY <2>2 DEF FreeIn
      <3>3. RamFree = BytesFound("MemFree") + BytesFound("Buffers") + BytesFound("Cached")
                        + BytesFound("SReclaimable")
        BY <1>2, <2>2, <3>1 DEF RamFree
      <3>4. /\ Free("MemFree") \in Nat /\ Free("Buffers") \in Nat
            /\ Free("Cached") \in Nat /\ Free("SReclaimable") \in Nat
        BY <1>3, <3>1
      <3>5. RamFree = Free("MemFree") * Kilo + Free("Buffers") * Kilo + Free("Cached") * Kilo
                        + Free("SReclaimable") * Kilo
        BY <1>3, <3>1, <3>3
      <3> HIDE DEF Free
      <3> QED
        BY <1>4, <3>2, <3>4, <3>5
    <2> QED
      BY <2>1, <2>2
  <1>6. {"MemTotal", "SwapTotal", "SwapFree"} \subseteq MemKeys
    BY DEF MemKeys
  <1>7. /\ mem.ram = Free("MemTotal") * Kilo /\ mem.swap = Free("SwapTotal") * Kilo
        /\ mem.ramUsed = Used(Free("MemTotal") * Kilo, FreeIn(meminfo) * Kilo)
        /\ mem.swapUsed = Used(Free("SwapTotal") * Kilo, Free("SwapFree") * Kilo)
        /\ "RAM" \in flags <=> Free("MemTotal") * Kilo > 0
        /\ "Swap" \in flags <=> Free("SwapTotal") * Kilo > 0
    BY <1>1, <1>3, <1>5, <1>6 DEF Found
  <1>8. \A l : l \in Range(page) <=> \/ l = RamLine /\ "RAM" \in flags
                                     \/ l = SwapLine /\ "Swap" \in flags
    BY <1>1, MemoryLines
  <1>9. /\ Free("MemTotal") \in Nat /\ Free("SwapTotal") \in Nat /\ Free("SwapFree") \in Nat
        /\ FreeIn(meminfo) \in Nat
    BY <1>3, <1>5, <1>6
  <1>10. Tells("RAM", SaidOf(meminfo, "MemTotal"), FreeIn(meminfo))
    <2> DEFINE n == Free("MemTotal")
               u == n - Min({n, FreeIn(meminfo)})
               ls == {l \in Range(page) : l.label = "RAM"}
    <2>1. ls = IF "RAM" \in flags THEN {RamLine} ELSE {}
      BY <1>8 DEF RamLine, SwapLine
    <2>2. mem.ramUsed = u * Kilo /\ u \in Nat
      BY <1>7, <1>9, UsedInBytes
    <2>3. Tells("RAM", SaidOf(meminfo, "MemTotal"), FreeIn(meminfo))
            <=> IF n = 0 THEN ls = {}
                ELSE \E l \in ls : ls = {l} /\ TellsSizes(l.text, n * Kilo, u * Kilo, UnitAsked)
      BY DEF Tells
    <2>4. n \in Nat
      BY <1>9
    <2>5. "RAM" \in flags <=> n * Kilo > 0
      BY <1>7
    <2>6. RamLine.text = FormatSize(n * Kilo, u * Kilo, UnitAsked)
      BY <1>7, <2>2 DEF RamLine
    <2> HIDE DEF n, u, ls
    <2>7. CASE n = 0
      BY <1>4, <2>1, <2>3, <2>5, <2>7
    <2>8. CASE n # 0
      <3>1. n * Kilo \in Nat \ {0} /\ u * Kilo \in Nat
        BY <1>4, <2>2, <2>4, <2>8
      <3>2. TellsSizes(RamLine.text, n * Kilo, u * Kilo, UnitAsked)
        BY <1>1, <2>6, <3>1, FormatTells
      <3>3. ls = {RamLine}
        BY <2>1, <2>5, <3>1
      <3> QED
        BY <2>3, <2>8, <3>2, <3>3
    <2> QED
      BY <2>7, <2>8
  <1>11. Tells("Swap", SaidOf(meminfo, "SwapTotal"), Free("SwapFree"))
    <2> DEFINE n == Free("SwapTotal")
               u == n - Min({n, Free("SwapFree")})
               ls == {l \in Range(page) : l.label = "Swap"}
    <2>1. ls = IF "Swap" \in flags THEN {SwapLine} ELSE {}
      BY <1>8 DEF RamLine, SwapLine
    <2>2. mem.swapUsed = u * Kilo /\ u \in Nat
      BY <1>7, <1>9, UsedInBytes
    <2>3. Tells("Swap", SaidOf(meminfo, "SwapTotal"), Free("SwapFree"))
            <=> IF n = 0 THEN ls = {}
                ELSE \E l \in ls : ls = {l} /\ TellsSizes(l.text, n * Kilo, u * Kilo, UnitAsked)
      BY DEF Tells
    <2>4. n \in Nat
      BY <1>9
    <2>5. "Swap" \in flags <=> n * Kilo > 0
      BY <1>7
    <2>6. n * Kilo # 0 => SwapLine.text = FormatSize(n * Kilo, u * Kilo, UnitAsked)
      BY <1>7, <2>2 DEF SwapLine
    <2> HIDE DEF n, u, ls
    <2>7. CASE n = 0
      BY <1>4, <2>1, <2>3, <2>5, <2>7
    <2>8. CASE n # 0
      <3>1. n * Kilo \in Nat \ {0} /\ u * Kilo \in Nat
        BY <1>4, <2>2, <2>4, <2>8
      <3>2. TellsSizes(SwapLine.text, n * Kilo, u * Kilo, UnitAsked)
        BY <1>1, <2>6, <3>1, FormatTells
      <3>3. ls = {SwapLine}
        BY <2>1, <2>5, <3>1
      <3> QED
        BY <2>3, <2>8, <3>2, <3>3
    <2> QED
      BY <2>7, <2>8
  <1> QED
    BY <1>10, <1>11

\* When no difference of counters wraps, the pages used are their true sum.
LEMMA RealPages ==
  ASSUME NEW vm \in PageCounts, IsOlder(vm) \/ vm.purgeable <= vm.internal
  PROVE  LET real == IF IsOlder(vm) THEN vm.active + vm.inactive + vm.wired
                     ELSE vm.internal - vm.purgeable + vm.wired + vm.compressed
         IN  PagesUsed(vm) = real /\ real \in Nat
  <1>1. CASE IsOlder(vm)
    BY <1>1, WhatIsCounted DEF PagesUsed
  <1>2. CASE ~IsOlder(vm)
    <2>1. /\ vm.internal \in 0 .. CountWidth - 1 /\ vm.purgeable \in 0 .. CountWidth - 1
          /\ vm.wired \in Nat /\ vm.compressed \in Nat
      BY <1>2, WhatIsCounted
    <2>2. CountWidth \in Nat \ {0}
      BY PageAssumption
    <2>3. vm.internal - vm.purgeable \in 0 .. CountWidth - 1
      BY <1>2, <2>1, <2>2
    <2>4. \A a \in 0 .. CountWidth - 1 : a % CountWidth = a
      BY <2>2
    <2>5. (vm.internal - vm.purgeable) % CountWidth = vm.internal - vm.purgeable
      BY <2>3, <2>4
    <2> QED
      BY <1>2, <2>1, <2>2, <2>3, <2>5 DEF PagesUsed
  <1> QED
    BY <1>1, <1>2

\* On macOS the lines tell what the counters say.
LEMMA CountersAreTold ==
  ASSUME IInv, MemoryData, pc = "mem_shown", ~OnLinux, unit = UnitAsked, NEW l \in Range(page)
  PROVE  /\ l.label = "RAM" =>
              LET vm   == meminfo
                  real == IF IsOlder(vm) THEN vm.active + vm.inactive + vm.wired
                          ELSE vm.internal - vm.purgeable + vm.wired + vm.compressed
              IN  /\ mem.ramUsed <= mem.ram
                  /\ IsOlder(vm) \/ vm.purgeable <= vm.internal =>
                       TellsSizes(l.text, mem.ram, Min({real * PageSize, mem.ram}), UnitAsked)
         /\ l.label = "Swap" =>
              IF mem.swap = 0 THEN l.text = Unused
              ELSE TellsSizes(l.text, mem.swap, mem.swapUsed, UnitAsked)
  <1>1. /\ page = PrintedMemory /\ UnitAsked \in Unit \cup {UnitAuto}
        /\ mem \in [ram : Nat, ramUsed : Nat, swap : Nat, swapUsed : Nat]
    BY DEF MemoryData, MemoryTyped, MemoryLabels
  <1>2. os = "macos"
    BY DEF IInv, Rests, Platform, OnLinux
  <1>3. \/ l = RamLine /\ "RAM" \in flags
        \/ l = SwapLine /\ "Swap" \in flags
    BY <1>1, MemoryLines
  <1> DEFINE real == IF IsOlder(meminfo) THEN meminfo.active + meminfo.inactive + meminfo.wired
                     ELSE meminfo.internal - meminfo.purgeable + meminfo.wired + meminfo.compressed
             noWrap == IsOlder(meminfo) \/ meminfo.purgeable <= meminfo.internal
  <1>4. ASSUME l = RamLine, "RAM" \in flags
        PROVE  /\ mem.ramUsed <= mem.ram
               /\ noWrap =>
                    TellsSizes(l.text, mem.ram, Min({real * PageSize, mem.ram}), UnitAsked)
    <2>1. meminfo \in PageCounts /\ mem.ramUsed = RamUsed(meminfo, mem.ram)
      BY <1>2, <1>4 DEF MemoryData
    <2>2. mem.ram \in Nat
      BY <1>1
    <2>3. mem.ramUsed \in Nat /\ mem.ramUsed <= mem.ram
      BY <2>1, <2>2, RamUsedTyped
    <2>4. ASSUME noWrap
          PROVE  mem.ramUsed = Min({real * PageSize, mem.ram})
      <3>1. PagesUsed(meminfo) = real /\ real \in Nat
        BY <2>1, <2>4, RealPages
      <3> HIDE DEF real
      <3>2. PageSize \in Nat
        BY PageAssumption
      <3>3. real * PageSize \in Nat
        BY <3>1, <3>2
      <3>4. mem.ramUsed = IF real * PageSize > mem.ram THEN mem.ram ELSE real * PageSize
        BY <2>1, <3>1 DEF RamUsed
      <3> DEFINE bytes == real * PageSize
      <3> HIDE DEF bytes
      <3>5. /\ Min({bytes, mem.ram}) \in {bytes, mem.ram}
            /\ Min({bytes, mem.ram}) <= bytes /\ Min({bytes, mem.ram}) <= mem.ram
        <4>1. {bytes, mem.ram} \subseteq Nat /\ {bytes, mem.ram} # {}
          BY <2>2, <3>3 DEF bytes
        <4> QED
          BY <4>1, MinIsLeast
      <3>6. mem.ramUsed = IF bytes > mem.ram THEN mem.ram ELSE bytes
        BY <3>4 DEF bytes
      <3>7. mem.ramUsed = Min({bytes, mem.ram})
        BY <2>2, <3>3, <3>5, <3>6 DEF bytes
      <3> QED
        BY <3>7 DEF bytes
    <2>5. l.text = FormatSize(mem.ram, mem.ramUsed, UnitAsked)
      BY <1>4 DEF RamLine
    <2>6. TellsSizes(l.text, mem.ram, mem.ramUsed, UnitAsked)
      BY <1>1, <2>2, <2>3, <2>5, FormatTells
    <2> HIDE DEF real, noWrap
    <2> QED
      BY <2>3, <2>4, <2>6
  <1>5. ASSUME l = SwapLine
        PROVE  IF mem.swap = 0 THEN l.text = Unused
               ELSE TellsSizes(l.text, mem.swap, mem.swapUsed, UnitAsked)
    <2>1. CASE mem.swap = 0
      BY <1>5, <2>1 DEF SwapLine
    <2>2. CASE mem.swap # 0
      <3>1. l.text = FormatSize(mem.swap, mem.swapUsed, UnitAsked)
        BY <1>5, <2>2 DEF SwapLine
      <3>2. mem.swap \in Nat /\ mem.swapUsed \in Nat
        BY <1>1
      <3> QED
        BY <1>1, <2>2, <3>1, <3>2, FormatTells
    <2> QED
      BY <2>1, <2>2
  <1>6. RamLine.label = "RAM" /\ SwapLine.label = "Swap"
    BY DEF RamLine, SwapLine
  <1>7. CASE l = RamLine /\ "RAM" \in flags
    <2>1. l.label # "Swap"
      BY <1>6, <1>7
    <2> QED
      BY <1>4, <1>7, <2>1
  <1>8. CASE l = SwapLine
    <2>1. l.label # "RAM"
      BY <1>6, <1>8
    <2> QED
      BY <1>5, <1>8, <2>1
  <1> QED
    BY <1>3, <1>7, <1>8
-----------------------------------------------------------------------------
(* SystemInfo.tla                                                          *)

SystemTyped ==
  /\ sys \in [known : BOOLEAN, uptime : Nat, procs : Nat]
  /\ DOMAIN said = {"procs", "distro", "model"} /\ said.procs \in Nat
  /\ path \in 0 .. 2
  /\ asked \in SwVers \cup {NoCommand}

InfoLabels == SystemLabels \ {"procs_size", "procs_fetch"}

SystemIdle == /\ rest = <<>> /\ path = 0 /\ osText = <<>> /\ device = <<>>
              /\ said.distro = <<>> /\ said.model = <<>>

\* The number of processes that is kept is the one that was said last, if it is
\* kept at all, and fits.
ProcsKept ==
  /\ pc \in {"procs_size", "procs_fetch"} => sys.procs = 0
  /\ sys.procs <= said.procs
  /\ sys.procs < said.procs => sys.procs = 0 \/ (OnLinux /\ said.procs >= ProcWidth)

\* What the first n lines of os-release say, as long as they have no PRETTY_NAME.
LastName(f, n) ==
  LET plain == {j \in 1 .. n : f[j].key = "NAME"}
  IN  IF plain = {} THEN <<>> ELSE f[Max(plain)].value

ReleaseSoFar(n) ==
  /\ rest = SubSeq(said.distro, n + 1, Len(said.distro))
  /\ \A j \in 1 .. n : said.distro[j].key # "PRETTY_NAME"
  /\ osText = LastName(said.distro, n)

DistroKept ==
  /\ pc = "distro" =>
       /\ os = "linux"
       /\ said.distro \in OsReleases
       /\ \/ \E n \in 0 .. Len(said.distro) : ReleaseSoFar(n)
          \/ rest = <<>> /\ osText = DistroIn(said.distro)
  /\ pc \in {"model", "info_print", "info_shown"} /\ os = "linux" =>
       said.distro = <<>> \/ osText = Append(DistroIn(said.distro), Machine)

Versions == {<<"15.5">>, <<"unknown">>} \cup (VersionLines \ {<<>>})

\* Between the system's name and the machine's stands a version.  The list that
\* a Mac's name is looked up in is asked last.
MacKept ==
  /\ pc \in InfoLabels \ {"distro", "model", "info_print", "info_shown"} => os = "macos"
  /\ os = "macos" =>
       /\ pc \in InfoLabels \ {"sw_vers"} => SubSeq(osText, 2, Len(osText) - 1) \in Versions
       /\ pc \in InfoLabels \ {"info_print", "info_shown"} => said.model = <<>>
       /\ pc \in {"info_print", "info_shown"} /\ said.model # <<>> =>
            device[1] \notin DOMAIN said.model

InfoPage ==
  /\ pc \in (InfoLabels \cup {"info"}) \ {"info_shown"} => page = <<>>
  /\ pc = "info_shown" =>
       \E j \in DOMAIN page : page[j] = Line("Uptime", FormatUptime(sys.uptime))

\* The parts together.
SystemData ==
  /\ SystemTyped
  /\ pc \notin InfoLabels => SystemIdle
  /\ ProcsKept /\ DistroKept /\ MacKept /\ InfoPage

\* Neither main nor another part changes what the system's lines are made of.
LEMMA SystemDataRests ==
  ASSUME SystemData, UNCHANGED sysVars, os' = os,
         \/ pc' = pc /\ page' = page
         \/ {pc, pc'} \cap SystemLabels = {} /\ (pc' = "info" => page' = <<>>)
  PROVE  SystemData'
  <1> USE DEF SystemLabels, InfoLabels
  <1>1. UNCHANGED <<sys, said, rest, path, osText, device, asked>>
    BY DEF sysVars, capVars
  <1>2. SystemTyped' /\ (SystemIdle <=> SystemIdle')
    BY <1>1 DEF SystemData, SystemTyped, SystemIdle
  <1>3. ProcsKept'
    BY <1>1 DEF SystemData, ProcsKept, OnLinux
  <1>4. DistroKept'
    <2>1. \A n : ReleaseSoFar(n) => ReleaseSoFar(n)'
      BY <1>1 DEF ReleaseSoFar
    <2>2. Machine' = Machine
      BY <1>1 DEF Machine
    <2> QED
      BY <1>1, <2>1, <2>2 DEF SystemData, DistroKept
  <1>5. MacKept'
    BY <1>1 DEF SystemData, MacKept
  <1>6. InfoPage'
    BY <1>1 DEF SystemData, InfoPage
  <1> QED
    BY <1>2, <1>3, <1>4, <1>5, <1>6 DEF SystemData
-----------------------------------------------------------------------------
\* A count cut to a width is not more than the count, and less only when that
\* does not fit.
LEMMA CutCount ==
  ASSUME NEW n \in Nat, NEW w \in Nat \ {0}
  PROVE  /\ n % w \in Nat /\ n % w <= n
         /\ n % w < n => n >= w
  <1> DEFINE q == n \div w
             r == n % w
  <1>1. q \in Nat /\ r \in 0 .. w - 1 /\ n = w * q + r
    BY DivMod
  <1> HIDE DEF q, r
  <1>2. w * q \in Nat
    BY <1>1
  <1>3. q >= 1 => w * q >= w
    BY <1>1, ProductMonotone
  <1>4. q = 0 => w * q = 0
    BY <1>1
  <1>5. r \in Nat /\ r <= n /\ (r < n => n >= w)
    BY <1>1, <1>2, <1>3, <1>4
  <1> QED
    BY <1>5 DEF r

\* A line without a PRETTY_NAME; a line with one; and the end of the file.
LEMMA ReleaseLines ==
  ASSUME NEW f \in OsReleases, NEW n \in 0 .. Len(f),
         \A j \in 1 .. n : f[j].key # "PRETTY_NAME"
  PROVE  /\ n < Len(f) /\ f[n + 1].key # "NAME" => LastName(f, n + 1) = LastName(f, n)
         /\ n < Len(f) /\ f[n + 1].key = "NAME" => LastName(f, n + 1) = f[n + 1].value
         /\ n < Len(f) /\ f[n + 1].key = "PRETTY_NAME" => DistroIn(f) = f[n + 1].value
         /\ n = Len(f) => DistroIn(f) = LastName(f, n)
  <1>1. Len(f) \in Nat /\ n \in Nat /\ DOMAIN f = 1 .. Len(f)
    BY SystemAssumption
  <1>2. 1 .. (n + 1) = (1 .. n) \cup {n + 1}
    BY <1>1
  <1> DEFINE Plain(m) == {j \in 1 .. m : f[j].key = "NAME"}
             pretty == {j \in DOMAIN f : f[j].key = "PRETTY_NAME"}
  <1>3. \A m : LastName(f, m) = IF Plain(m) = {} THEN <<>> ELSE f[Max(Plain(m))].value
    BY DEF LastName
  <1>4. DistroIn(f) = IF pretty # {} THEN f[Min(pretty)].value ELSE LastName(f, Len(f))
    BY <1>1 DEF DistroIn, LastName
  <1>5. ASSUME n < Len(f), f[n + 1].key # "NAME"
        PROVE  LastName(f, n + 1) = LastName(f, n)
    <2>1. Plain(n + 1) = Plain(n)
      BY <1>2, <1>5
    <2> HIDE DEF Plain
    <2> QED
      BY <1>3, <2>1
  <1>6. ASSUME n < Len(f), f[n + 1].key = "NAME"
        PROVE  LastName(f, n + 1) = f[n + 1].value
    <2>1. n + 1 \in Plain(n + 1) /\ Plain(n + 1) \subseteq 0 .. (n + 1)
      BY <1>1, <1>6
    <2>2. Plain(n + 1) \subseteq 1 .. (n + 1)
      OBVIOUS
    <2> HIDE DEF Plain
    <2>3. Max(Plain(n + 1)) \in Plain(n + 1) /\ n + 1 <= Max(Plain(n + 1))
      BY <1>1, <2>1, MaxIsGreatest
    <2>4. Max(Plain(n + 1)) = n + 1
      BY <1>1, <2>2, <2>3
    <2> QED
      BY <1>3, <2>1, <2>4
  <1>7. ASSUME n < Len(f), f[n + 1].key = "PRETTY_NAME"
        PROVE  DistroIn(f) = f[n + 1].value
    <2>0. \A j \in 1 .. n : j \notin pretty
      OBVIOUS
    <2>1. n + 1 \in pretty /\ pretty \subseteq 1 .. Len(f)
      BY <1>1, <1>7
    <2> HIDE DEF pretty
    <2>2. pretty \subseteq Nat
      BY <2>1
    <2>5. Min(pretty) \in pretty /\ Min(pretty) <= n + 1
      BY <2>1, <2>2, MinIsLeast
    <2> DEFINE k == Min(pretty)
    <2>6. k \in 1 .. Len(f) /\ k \notin 1 .. n /\ k <= n + 1
      BY <2>0, <2>1, <2>5
    <2>3. Min(pretty) = n + 1
      <3> HIDE DEF k
      <3>1. k = n + 1
        BY <1>1, <2>6
      <3> QED
        BY <3>1 DEF k
    <2> QED
      BY <1>4, <2>1, <2>3
  <1>8. ASSUME n = Len(f)
        PROVE  DistroIn(f) = LastName(f, n)
    <2>1. pretty = {}
      BY <1>1, <1>8
    <2> HIDE DEF pretty
    <2> QED
      BY <1>4, <1>8, <2>1
  <1> QED
    BY <1>5, <1>6, <1>7, <1>8

\* What is left to read of os-release; the next line is its head.
LEMMA NextReleaseLine ==
  ASSUME NEW f \in OsReleases, NEW n \in 0 .. Len(f), NEW r,
         r = SubSeq(f, n + 1, Len(f))
  PROVE  IsRest(r, f, n)
  <1> DEFINE Lines == [key : STRING, value : Seq(STRING)]
  <1>1. f \in Seq(Lines)
    BY SystemAssumption
  <1> HIDE DEF Lines
  <1> QED
    BY <1>1, RestOfLines

\* What stands between the first and the last of a list.
LEMMA Between ==
  ASSUME NEW S, NEW a \in S, NEW b \in S, NEW v \in Seq(S), NEW t,
         t = <<a>> \o v \o <<b>>
  PROVE  SubSeq(t, 2, Len(t) - 1) = v
  <1>1. Len(v) \in Nat
    OBVIOUS
  <1>2. /\ t \in Seq(S) /\ Len(t) = Len(v) + 2
        /\ \A j \in 1 .. Len(v) : t[j + 1] = v[j]
    BY <1>1
  <1> DEFINE s == SubSeq(t, 2, Len(t) - 1)
  <1>3. /\ s \in Seq(S) /\ Len(s) = Len(v)
        /\ \A j \in 1 .. Len(v) : s[j] = t[j + 1]
    BY <1>1, <1>2
  <1> HIDE DEF s
  <1>4. s = v
    <2>1. s \in Seq(S) /\ Len(s) = Len(v)
      BY <1>3
    <2>2. \A j \in 1 .. Len(s) : s[j] = v[j]
      BY <1>2, <1>3
    <2> QED
      BY <2>1, <2>2, SeqEqual
  <1> QED
    BY <1>4 DEF s

\* The uptime is the last line but one.
AtMost(u, d) == u \in {<<>>, <<d>>}
InfoLines(a, u, x, y, z) == <<>> \o <<a>> \o u \o <<x, y, z>>

\* The line of the uptime is printed with and without a user and a distribution.
LEMMA UptimeLine ==
  ASSUME NEW a, NEW d, NEW x, NEW y, NEW z, NEW u, AtMost(u, d),
         NEW p, p = InfoLines(a, u, x, y, z)
  PROVE  \E j \in DOMAIN p : p[j] = y
  <1> DEFINE S == {a, d, x, y, z}
             t == <<x, y, z>>
             v == <<a>> \o u
  <1>1. <<a>> \in Seq(S) /\ u \in Seq(S) /\ t \in Seq(S)
    <2>1. <<a>> \in Seq(S) /\ <<d>> \in Seq(S) /\ <<>> \in Seq(S) /\ t \in Seq(S)
      OBVIOUS
    <2> QED
      BY <2>1, Zenon DEF AtMost
  <1>9. Len(t) = 3 /\ t[2] = y
    OBVIOUS
  <1>2. p = (<<>> \o <<a>>) \o u \o t
    BY Zenon DEF InfoLines
  <1> HIDE DEF S, t
  <1>3. <<>> \o <<a>> = <<a>>
    BY <1>1, ConcatEmptySeq
  <1>10. p = v \o t
    BY <1>2, <1>3, Zenon
  <1>4. v \in Seq(S)
    BY <1>1
  <1> HIDE DEF v
  <1>5. Len(v) \in Nat
    BY <1>4
  <1>6. p \in Seq(S) /\ Len(p) = Len(v) + 3 /\ p[Len(v) + 2] = t[2]
    <2>0. t \in Seq(S)
      BY <1>1
    <2>1. p \in Seq(S) /\ Len(p) = Len(v) + Len(t)
      BY <2>0, <1>4, <1>10, ConcatProperties
    <2>2. \A i \in 1 .. Len(v) + Len(t) : p[i] = IF i <= Len(v) THEN v[i] ELSE t[i - Len(v)]
      <3>1. \A i \in 1 .. Len(v) + Len(t) :
              (v \o t)[i] = IF i <= Len(v) THEN v[i] ELSE t[i - Len(v)]
        BY <2>0, <1>4, ConcatProperties
      <3> QED
        BY <3>1, <1>10, Zenon
    <2>3. /\ Len(v) + 2 \in 1 .. Len(v) + Len(t)
          /\ ~ (Len(v) + 2 <= Len(v)) /\ (Len(v) + 2) - Len(v) = 2
      BY <1>5, <1>9
    <2>4. p[Len(v) + 2] = t[2]
      BY <2>2, <2>3
    <2> QED
      BY <1>9, <2>1, <2>4
  <1>7. Len(v) + 2 \in DOMAIN p
    BY <1>5, <1>6
  <1> QED
    BY <1>9, <1>6, <1>7

\* From the count of the processes to the first line of os-release.
LEMMA SystemBegins ==
  ASSUME IInv, SystemData,
         LinuxSysInit \/ MacSysInit \/ ProcsSize \/ ProcsFetch \/ PrintHeader \/ OpenOsRelease
  PROVE  SystemData'
  <1> USE DEF Goto, SystemLabels, InfoLabels
  <1>0. os \in {"linux", "android", "macos"} /\ (OnLinux <=> os # "macos")
    BY DEF IInv, Rests, Platform, OnLinux
  <1>1. SystemTyped
    BY DEF SystemData
  <1>2. CASE LinuxSysInit
    <2>1. /\ pc = "sys_init" /\ pc' = "returned" /\ os' = os /\ os # "macos"
          /\ UNCHANGED <<rest, path, osText, device, asked>>
      BY <1>0, <1>2 DEF LinuxSysInit, capVars
    <2>2. \/ \E n \in Nat : /\ sys'.procs = n % ProcWidth /\ said' = [said EXCEPT !.procs = n]
                            /\ sys' \in [known : BOOLEAN, uptime : Nat, procs : Nat]
          \/ /\ sys'.procs = 0 /\ UNCHANGED said
             /\ sys' \in [known : BOOLEAN, uptime : Nat, procs : Nat]
      BY <1>2, SystemAssumption, CutCount DEF LinuxSysInit, NoSys
    <2>3. /\ sys'.procs <= said'.procs
          /\ sys'.procs < said'.procs => sys'.procs = 0 \/ said'.procs >= ProcWidth
      BY <1>1, <2>2, SystemAssumption, CutCount DEF SystemTyped
    <2>4. SystemTyped' /\ said'.distro = said.distro /\ said'.model = said.model
      BY <1>1, <2>1, <2>2 DEF SystemTyped
    <2>5. SystemIdle'
      BY <2>1, <2>4 DEF SystemData, SystemIdle
    <2> QED
      BY <1>0, <2>1, <2>3, <2>4, <2>5
         DEF SystemData, ProcsKept, DistroKept, MacKept, InfoPage, OnLinux
  <1>3. CASE MacSysInit
    <2>1. /\ pc = "sys_init" /\ pc' = "procs_size" /\ os' = os /\ os = "macos"
          /\ UNCHANGED <<said, rest, path, osText, device, asked>>
          /\ sys' \in [known : BOOLEAN, uptime : Nat, procs : Nat] /\ sys'.procs = 0
      BY <1>3, SystemAssumption DEF MacSysInit, capVars
    <2>2. SystemTyped' /\ SystemIdle'
      BY <1>1, <2>1 DEF SystemData, SystemTyped, SystemIdle
    <2> QED
      BY <1>1, <2>1, <2>2 DEF SystemTyped, SystemData, ProcsKept, DistroKept, MacKept, InfoPage
  <1>4. CASE ProcsSize
    <2>1. /\ pc = "procs_size" /\ pc' \in {"procs_fetch", "returned"} /\ os' = os
          /\ UNCHANGED <<sys, rest, path, osText, device, asked>>
          /\ said' = said \/ \E n \in Nat : said' = [said EXCEPT !.procs = n]
      BY <1>4, SystemAssumption DEF ProcsSize, capVars
    <2>2. SystemTyped' /\ said'.distro = said.distro /\ said'.model = said.model /\ said'.procs \in Nat
      BY <1>1, <2>1 DEF SystemTyped
    <2>3. SystemIdle'
      BY <2>1, <2>2 DEF SystemData, SystemIdle
    <2>4. sys'.procs = 0
      BY <2>1 DEF SystemData, ProcsKept
    <2> QED
      BY <2>1, <2>2, <2>3, <2>4 DEF SystemData, ProcsKept, DistroKept, MacKept, InfoPage
  <1>5. CASE ProcsFetch
    <2>1. /\ pc = "procs_fetch" /\ pc' = "returned" /\ os' = os
          /\ UNCHANGED <<rest, path, osText, device, asked>>
      BY <1>5 DEF ProcsFetch, capVars
    <2>2. PICK n \in Nat : /\ said' = [said EXCEPT !.procs = n]
                           /\ sys' = [sys EXCEPT !.procs = IF n > said.procs THEN 0 ELSE n]
      BY <1>5, SystemAssumption DEF ProcsFetch
    <2>3. /\ SystemTyped' /\ said'.distro = said.distro /\ said'.model = said.model
          /\ said'.procs = n /\ sys'.procs \in {0, n}
      BY <1>1, <2>1, <2>2 DEF SystemTyped
    <2>4. SystemIdle'
      BY <2>1, <2>3 DEF SystemData, SystemIdle
    <2> QED
      BY <2>1, <2>3, <2>4 DEF SystemData, ProcsKept, DistroKept, MacKept, InfoPage
  <1>6. CASE PrintHeader
    <2>1. UNCHANGED sysVars /\ os' = os /\ pc = "header" /\ pc' = "returned"
      BY <1>6 DEF PrintHeader
    <2> QED
      BY <2>1, SystemDataRests
  <1>7. CASE OpenOsRelease
    <2>1. /\ pc = "info" /\ pc' \in {"distro", "model"} /\ os' = os /\ os = "linux"
          /\ UNCHANGED <<page, sys, path, device, asked>> /\ page = <<>> /\ SystemIdle
      BY <1>7 DEF OpenOsRelease, capVars, SystemData, InfoPage
    <2>2. \/ /\ pc' = "distro" /\ osText' = osText
             /\ \E f \in OsReleases : rest' = f /\ said' = [said EXCEPT !.distro = f]
          \/ pc' = "model" /\ UNCHANGED <<rest, said>>
      BY <1>7 DEF OpenOsRelease
    <2>3. SystemTyped' /\ said'.procs = said.procs /\ said'.model = <<>>
      BY <1>1, <2>1, <2>2 DEF SystemTyped, SystemIdle
    <2>4. ProcsKept'
      BY <2>1, <2>3 DEF SystemData, ProcsKept, OnLinux
    <2>5. InfoPage' /\ MacKept'
      BY <2>1 DEF InfoPage, MacKept
    <2>6. CASE pc' = "distro"
      <3>1. PICK f \in OsReleases : rest' = f /\ said' = [said EXCEPT !.distro = f]
        BY <2>2, <2>6
      <3>2. osText' = <<>> /\ said'.distro = f
        BY <1>1, <2>1, <2>2, <2>6, <3>1 DEF SystemIdle, SystemTyped
      <3>3. f = SubSeq(f, 0 + 1, Len(f)) /\ 0 \in 0 .. Len(f)
        BY SystemAssumption
      <3>4. LastName(f, 0) = <<>>
        BY DEF LastName
      <3>5. ReleaseSoFar(0)'
        BY <3>1, <3>2, <3>3, <3>4 DEF ReleaseSoFar
      <3> QED
        BY <2>1, <2>3, <2>4, <2>5, <2>6, <3>2, <3>3, <3>5 DEF SystemData, DistroKept
    <2>7. CASE pc' = "model"
      <3>1. said'.distro = <<>>
        BY <2>1, <2>2, <2>7 DEF SystemIdle
      <3> QED
        BY <2>1, <2>3, <2>4, <2>5, <2>7, <3>1 DEF SystemData, DistroKept
    <2> QED
      BY <2>1, <2>6, <2>7
  <1> QED
    BY <1>2, <1>3, <1>4, <1>5, <1>6, <1>7

\* Each line of os-release, and its end: the name so far becomes the distribution's.
LEMMA DistroIsRead ==
  ASSUME IInv, SystemData, ReadOsRelease \/ EndOfOsRelease
  PROVE  SystemData'
  <1> USE DEF Goto, SystemLabels, InfoLabels
  <1>1. SystemTyped
    BY DEF SystemData
  <1>2. pc = "distro" /\ os = "linux" /\ said.distro \in OsReleases
    BY DEF ReadOsRelease, EndOfOsRelease, SystemData, DistroKept
  <1> DEFINE f == said.distro
  <1>3. \/ \E n \in 0 .. Len(f) : ReleaseSoFar(n)
        \/ rest = <<>> /\ osText = DistroIn(f)
    BY <1>2 DEF SystemData, DistroKept
  <1>4. Len(f) \in Nat
    BY <1>2, SystemAssumption
  <1>5. CASE ReadOsRelease
    <2>1. /\ rest # <<>> /\ pc' = pc /\ os' = os
          /\ UNCHANGED <<page, sys, said, path, device, asked>>
      BY <1>5 DEF ReadOsRelease, capVars
    <2>2. PICK n \in 0 .. Len(f) : ReleaseSoFar(n)
      BY <1>3, <2>1
    <2>3. /\ n # Len(f) /\ Head(rest) = f[n + 1]
          /\ Tail(rest) = SubSeq(f, (n + 1) + 1, Len(f))
      BY <1>2, <2>1, <2>2, NextReleaseLine DEF ReleaseSoFar, IsRest
    <2>4. n < Len(f) /\ n + 1 \in 0 .. Len(f) /\ 1 .. (n + 1) = (1 .. n) \cup {n + 1}
      BY <1>4, <2>3
    <2>5. /\ osText' = IF f[n + 1].key \in {"NAME", "PRETTY_NAME"} THEN f[n + 1].value ELSE osText
          /\ rest' = IF f[n + 1].key = "PRETTY_NAME" THEN <<>> ELSE Tail(rest)
      BY <1>5, <2>3 DEF ReadOsRelease
    <2>6. /\ \A j \in 1 .. n : f[j].key # "PRETTY_NAME"
          /\ osText = LastName(f, n)
      BY <2>2 DEF ReleaseSoFar
    <2>7. /\ f[n + 1].key # "NAME" => LastName(f, n + 1) = LastName(f, n)
          /\ f[n + 1].key = "NAME" => LastName(f, n + 1) = f[n + 1].value
          /\ f[n + 1].key = "PRETTY_NAME" => DistroIn(f) = f[n + 1].value
      BY <1>2, <2>4, <2>6, ReleaseLines
    <2>8. SystemTyped' /\ ProcsKept' /\ MacKept' /\ InfoPage'
      BY <1>1, <1>2, <2>1 DEF SystemData, SystemTyped, ProcsKept, MacKept, InfoPage, OnLinux
    <2>9. \/ ReleaseSoFar(n + 1)'
          \/ rest' = <<>> /\ osText' = DistroIn(f)
      <3>1. CASE f[n + 1].key = "PRETTY_NAME"
        BY <2>5, <2>7, <3>1
      <3>2. CASE f[n + 1].key # "PRETTY_NAME"
        <4>1. \A j \in 1 .. n + 1 : f[j].key # "PRETTY_NAME"
          BY <2>4, <2>6, <3>2
        <4>2. osText' = LastName(f, n + 1)
          BY <2>5, <2>6, <2>7, <3>2
        <4> QED
          BY <2>1, <2>3, <2>5, <3>2, <4>1, <4>2 DEF ReleaseSoFar
      <3> QED
        BY <3>1, <3>2
    <2>10. DistroKept'
      BY <1>2, <2>1, <2>4, <2>9 DEF DistroKept
    <2> QED
      BY <1>2, <2>1, <2>8, <2>10 DEF SystemData
  <1>6. CASE EndOfOsRelease
    <2>1. /\ rest = <<>> /\ pc' = "model" /\ os' = os
          /\ UNCHANGED <<page, sys, said, rest, path, device, asked>>
          /\ osText' = Append(osText, Machine)
      BY <1>6 DEF EndOfOsRelease, capVars
    <2>2. osText = DistroIn(f)
      <3>1. CASE \E n \in 0 .. Len(f) : ReleaseSoFar(n)
        <4>1. PICK n \in 0 .. Len(f) : ReleaseSoFar(n)
          BY <3>1
        <4>2. n = Len(f)
          BY <1>2, <2>1, <4>1, NextReleaseLine DEF ReleaseSoFar, IsRest
        <4> QED
          BY <1>2, <4>1, <4>2, ReleaseLines DEF ReleaseSoFar
      <3> QED
        BY <1>3, <3>1
    <2>3. Machine' = Machine
      BY <2>1 DEF Machine
    <2>4. SystemTyped' /\ ProcsKept' /\ MacKept' /\ InfoPage'
      BY <1>1, <1>2, <2>1 DEF SystemData, SystemTyped, ProcsKept, MacKept, InfoPage, OnLinux
    <2>5. DistroKept'
      BY <1>2, <2>1, <2>2, <2>3 DEF DistroKept
    <2> QED
      BY <1>2, <2>1, <2>4, <2>5 DEF SystemData
  <1> QED
    BY <1>5, <1>6

\* A step that leaves the variables of the page's lines alone but a few, past the
\* counting of the processes, and where it goes.
LEMMA SystemOnward ==
  ASSUME IInv, SystemData, os' = os, UNCHANGED <<page, sys, rest>>,
         pc \in (InfoLabels \cup {"info"}) \ {"distro", "info_print", "info_shown"},
         pc' \in InfoLabels \ {"distro", "info_shown"},
         path' \in 0 .. 2, asked' \in SwVers \cup {NoCommand},
         DOMAIN said' = {"procs", "distro", "model"}, said'.procs = said.procs
  PROVE  SystemTyped' /\ ProcsKept' /\ InfoPage'
  <1>1. SystemTyped
    BY DEF SystemData
  <1>2. SystemTyped'
    BY <1>1 DEF SystemTyped
  <1>3. ProcsKept'
    BY DEF SystemData, ProcsKept, InfoLabels, SystemLabels, OnLinux
  <1>4. InfoPage'
    BY DEF SystemData, InfoPage, InfoLabels, SystemLabels
  <1> QED
    BY <1>2, <1>3, <1>4

\* What stands between the first and the last of three.
LEMMA MiddleOfThree ==
  ASSUME NEW a, NEW b, NEW c, NEW t, t = <<a, c, b>>
  PROVE  SubSeq(t, 2, Len(t) - 1) = <<c>>
  <1> DEFINE S == {a, b, c}
             u == <<c>>
             s == SubSeq(t, 2, Len(t) - 1)
  <1>1. t \in Seq(S) /\ u \in Seq(S)
    OBVIOUS
  <1>2. Len(t) = 3 /\ t[2] = c /\ Len(u) = 1 /\ u[1] = c
    OBVIOUS
  <1> HIDE DEF S, u
  <1>3. s \in Seq(S) /\ Len(s) = 1 /\ s[1] = t[2]
    BY <1>1, <1>2
  <1> HIDE DEF s
  <1>4. Len(s) = Len(u) /\ \A j \in 1 .. Len(s) : s[j] = u[j]
    BY <1>2, <1>3
  <1>5. s = u
    BY <1>1, <1>3, <1>4, SeqEqual
  <1> QED
    BY <1>5 DEF s, u

\* A word is a text.
LEMMA OneWord ==
  ASSUME NEW S, NEW w \in S
  PROVE  <<w>> \in Seq(S)
  OBVIOUS

\* A text in some words is one in more words.
LEMMA MoreWords ==
  ASSUME NEW S, NEW T, S \subseteq T, NEW v \in Seq(S)
  PROVE  v \in Seq(T)
  OBVIOUS

\* The version of a Mac, asked of the kernel or of sw_vers, stands in the middle of its text.
LEMMA MacVersion ==
  ASSUME IInv, SystemData, ProductVersion \/ SwVersAnswers
  PROVE  SystemData'
  <1> USE DEF Goto, SystemLabels, InfoLabels
  <1>1. SystemTyped
    BY DEF SystemData
  <1>2. SwVers \subseteq [first : Seq(STRING), good : BOOLEAN]
    BY SystemAssumption DEF SwVers
  <1>3. CASE ProductVersion
    <2>1. /\ pc = "info" /\ os = "macos" /\ pc' \in {"model", "sw_vers"} /\ os' = os
          /\ UNCHANGED <<page, sys, rest, path, device>>
          /\ \E major \in DarwinMajors : said' = [said EXCEPT !.distro = major]
          /\ \/ pc' = "model" /\ asked' = asked
                /\ \E major \in DarwinMajors : osText' = <<OsName(major), "15.5", Machine>>
             \/ pc' = "sw_vers" /\ asked' \in SwVers
      BY <1>3 DEF ProductVersion, capVars, Cap!Ask
    <2>2. SystemIdle
      BY <2>1 DEF SystemData
    <2>3. /\ DOMAIN said' = {"procs", "distro", "model"} /\ said'.procs = said.procs
          /\ said'.model = <<>>
      BY <1>1, <2>1, <2>2 DEF SystemTyped, SystemIdle
    <2>4. path' \in 0 .. 2 /\ asked' \in SwVers \cup {NoCommand}
      BY <1>1, <2>1 DEF SystemTyped
    <2>5. SystemTyped' /\ ProcsKept' /\ InfoPage'
      BY <2>1, <2>3, <2>4, SystemOnward
    <2>6. pc' = "model" => SubSeq(osText', 2, Len(osText') - 1) = <<"15.5">>
      <3>1. SUFFICES ASSUME NEW a, NEW b, osText' = <<a, "15.5", b>>
                     PROVE  SubSeq(osText', 2, Len(osText') - 1) = <<"15.5">>
        BY <2>1
      <3> QED
        BY <3>1, MiddleOfThree
    <2>7. MacKept'
      BY <2>1, <2>3, <2>6 DEF MacKept, Versions
    <2>8. DistroKept'
      BY <2>1 DEF DistroKept
    <2> QED
      BY <2>1, <2>5, <2>7, <2>8 DEF SystemData
  <1>4. CASE SwVersAnswers
    <2>1. /\ pc = "sw_vers" /\ pc' = "model" /\ os' = os
          /\ UNCHANGED <<page, sys, said, rest, path, device>>
          /\ asked # NoCommand /\ asked' = NoCommand
      BY <1>4 DEF SwVersAnswers, Cap!Answer
    <2>2. os = "macos" /\ said.model = <<>>
      BY <2>1 DEF SystemData, MacKept
    <2>3. asked \in SwVers
      BY <1>1, <2>1 DEF SystemTyped
    <2>4. result' = 0 => line' \in VersionLines \ {<<>>}
      BY <1>4, <2>3 DEF SwVersAnswers, Cap!Answer, FirstLine, SwVers
    <2> DEFINE v == IF result' = 0 THEN line' ELSE <<"unknown">>
               a == OsName(said.distro)
               b == Machine
               S == STRING \cup {a, b, "unknown"}
    <2>5. v \in Versions /\ v \in Seq(S)
      <3>1. VersionLines \subseteq Seq(S)
        <4>1. \A l \in VersionLines : l \in Seq(STRING)
          BY SystemAssumption
        <4>2. STRING \subseteq S
          OBVIOUS
        <4> HIDE DEF S
        <4> QED
          BY <4>1, <4>2, MoreWords
      <3>2. <<"unknown">> \in Seq(S)
        <4>1. "unknown" \in S
          OBVIOUS
        <4> QED
          BY <4>1, OneWord
      <3>3. v \in VersionLines \ {<<>>} \/ v = <<"unknown">>
        BY <2>4, Zenon
      <3> QED
        BY <3>1, <3>2, <3>3, Zenon DEF Versions
    <2>6. osText' = <<a>> \o v \o <<b>>
      BY <1>4 DEF SwVersAnswers
    <2> HIDE DEF v, a, b
    <2>7. a \in S /\ b \in S /\ v \in Seq(S)
      BY <2>5
    <2> HIDE DEF S
    <2>8. SubSeq(osText', 2, Len(osText') - 1) \in Versions
      <3>1. SubSeq(osText', 2, Len(osText') - 1) = v
        BY <2>6, <2>7, Between
      <3> QED
        BY <2>5, <3>1
    <2>9. path' \in 0 .. 2 /\ asked' \in SwVers \cup {NoCommand}
          /\ DOMAIN said' = {"procs", "distro", "model"} /\ said'.procs = said.procs
      BY <1>1, <2>1 DEF SystemTyped
    <2>10. SystemTyped' /\ ProcsKept' /\ InfoPage'
      BY <2>1, <2>9, SystemOnward
    <2>11. MacKept'
      BY <2>1, <2>2, <2>8 DEF MacKept, Versions
    <2>12. DistroKept'
      BY <2>1, <2>2 DEF DistroKept
    <2> QED
      BY <2>1, <2>10, <2>11, <2>12 DEF SystemData
  <1> QED
    BY <1>3, <1>4

\* The ways to a name of the device, on every platform, leave the rest as it is.
LEMMA DeviceIsNamed ==
  ASSUME IInv, SystemData,
         \/ AndroidDistro \/ LinuxModel \/ DeviceTreeModel \/ AndroidModel \/ MacModel
         \/ OpenPlist \/ StatPlist \/ MapPlist \/ DataPlist \/ ParsePlist
         \/ ClosePlist \/ MakeKey \/ LookUpModel
  PROVE  SystemData'
  <1> USE DEF Goto, SystemLabels, InfoLabels
  <1>1. SystemTyped
    BY DEF SystemData
  <1>2. CASE AndroidDistro
    <2>1. /\ pc = "info" /\ os = "android" /\ pc' = "model" /\ os' = os
          /\ UNCHANGED <<page, sys, rest, path, asked>>
          /\ \E p \in Properties : said' = [said EXCEPT !.model = p]
      BY <1>2 DEF AndroidDistro, capVars
    <2>2. path' \in 0 .. 2 /\ asked' \in SwVers \cup {NoCommand}
          /\ DOMAIN said' = {"procs", "distro", "model"} /\ said'.procs = said.procs
      BY <1>1, <2>1 DEF SystemTyped
    <2>3. SystemTyped' /\ ProcsKept' /\ InfoPage'
      BY <2>1, <2>2, SystemOnward
    <2> QED
      BY <2>1, <2>3 DEF SystemData, MacKept, DistroKept
  <1>3. CASE LinuxModel \/ DeviceTreeModel \/ AndroidModel
    <2>1. /\ pc = "model" /\ os \in {"linux", "android"} /\ pc' = "info_print" /\ os' = os
          /\ UNCHANGED <<page, sys, rest, path, osText, asked>>
          /\ said' = said \/ \E m \in Dmis : said' = [said EXCEPT !.model = m]
      BY <1>3 DEF LinuxModel, DeviceTreeModel, AndroidModel, capVars
    <2>2. path' \in 0 .. 2 /\ asked' \in SwVers \cup {NoCommand}
          /\ DOMAIN said' = {"procs", "distro", "model"} /\ said'.procs = said.procs
          /\ said'.distro = said.distro
      BY <1>1, <2>1 DEF SystemTyped
    <2>3. SystemTyped' /\ ProcsKept' /\ InfoPage'
      BY <2>1, <2>2, SystemOnward
    <2>4. Machine' = Machine
      BY <2>1 DEF Machine
    <2> QED
      BY <2>1, <2>2, <2>3, <2>4 DEF SystemData, MacKept, DistroKept
  <1>4. CASE MacModel \/ OpenPlist \/ StatPlist \/ MapPlist \/ DataPlist \/ ParsePlist
             \/ ClosePlist \/ MakeKey
    <2>1. /\ pc \in InfoLabels \ {"distro", "sw_vers", "info_print", "info_shown"}
          /\ pc' \in InfoLabels \ {"distro", "model", "sw_vers", "info_shown"}
          /\ os = "macos" /\ os' = os
          /\ UNCHANGED <<page, sys, said, rest, osText, asked>>
          /\ path' \in 0 .. 2
      <3>1. CASE MacModel
        <4>1. /\ pc = "model" /\ pc' \in {"plist_open", "info_print"} /\ os = "macos" /\ os' = os
              /\ UNCHANGED <<page, sys, said, rest, osText, asked>>
              /\ path' = 1 \/ path' = path
          BY <3>1 DEF MacModel, capVars
        <4> QED
          BY <1>1, <4>1 DEF SystemTyped
      <3>2. CASE OpenPlist \/ StatPlist \/ MapPlist \/ DataPlist \/ ParsePlist
        BY <1>1, <3>2 DEF OpenPlist, StatPlist, MapPlist, DataPlist, ParsePlist, Try,
                          sysVars, capVars, SystemData, MacKept, SystemTyped
      <3>3. CASE ClosePlist \/ MakeKey
        BY <1>1, <3>3 DEF ClosePlist, MakeKey, capVars, SystemData, MacKept, SystemTyped
      <3> QED
        BY <1>4, <3>1, <3>2, <3>3
    <2>2. asked' \in SwVers \cup {NoCommand}
          /\ DOMAIN said' = {"procs", "distro", "model"} /\ said'.procs = said.procs
      BY <1>1, <2>1 DEF SystemTyped
    <2>3. SystemTyped' /\ ProcsKept' /\ InfoPage'
      BY <2>1, <2>2, SystemOnward
    <2>4. said'.model = <<>> /\ SubSeq(osText', 2, Len(osText') - 1) \in Versions
      BY <2>1 DEF SystemData, MacKept, Versions
    <2> QED
      BY <2>1, <2>3, <2>4 DEF SystemData, MacKept, DistroKept, Versions
  <1>5. CASE LookUpModel
    <2>1. /\ pc = "plist_look_up" /\ pc' = "info_print" /\ os' = os
          /\ UNCHANGED <<page, sys, rest, osText, asked>> /\ path' = 0
      BY <1>5 DEF LookUpModel, capVars
    <2>2. os = "macos" /\ SubSeq(osText', 2, Len(osText') - 1) \in Versions
      BY <2>1 DEF SystemData, MacKept, Versions
    <2>3. PICK p \in Plists : /\ said' = [said EXCEPT !.model = p]
                              /\ device' = IF device[1] \in DOMAIN p THEN p[device[1]] ELSE device
      BY <1>5 DEF LookUpModel
    <2>4. DOMAIN said' = {"procs", "distro", "model"} /\ said'.procs = said.procs
          /\ said'.model = p
      BY <1>1, <2>3 DEF SystemTyped
    <2>5. device'[1] \notin DOMAIN p
      BY <2>3, PlistAssumption
    <2>6. path' \in 0 .. 2 /\ asked' \in SwVers \cup {NoCommand}
      BY <1>1, <2>1 DEF SystemTyped
    <2>7. SystemTyped' /\ ProcsKept' /\ InfoPage'
      BY <2>1, <2>4, <2>6, SystemOnward
    <2>8. MacKept'
      BY <2>1, <2>2, <2>4, <2>5 DEF MacKept, Versions
    <2>9. DistroKept'
      BY <2>1, <2>2 DEF DistroKept
    <2> QED
      BY <2>1, <2>7, <2>8, <2>9 DEF SystemData
  <1> QED
    BY <1>2, <1>3, <1>4, <1>5

\* The page is printed with the uptime, and left.
LEMMA InfoIsPrinted ==
  ASSUME IInv, SystemData, PrintInfo \/ LeaveInfo
  PROVE  SystemData'
  <1> USE DEF Goto, SystemLabels, InfoLabels
  <1>1. SystemTyped
    BY DEF SystemData
  <1>2. CASE PrintInfo
    <2>1. /\ pc = "info_print" /\ pc' = "info_shown" /\ os' = os
          /\ UNCHANGED <<sys, said, rest, path, osText, device, asked>> /\ page = <<>>
      BY <1>2 DEF PrintInfo, sysVars, capVars, SystemData, InfoPage
    <2> DEFINE y == Line("Uptime", FormatUptime(sys.uptime))
    <2>2. \E j \in DOMAIN page' : page'[j] = y
      <3> DEFINE a == Line("OS", osText)
                 d == Line("Device", device)
                 x == Line("Kernel", IF sys.known THEN "release" ELSE "unknown")
                 z == Line("Processes", sys.procs)
                 u == IF device = <<>> THEN <<>> ELSE <<d>>
      <3>1. page' = InfoLines(a, u, x, y, z)
        BY <1>2, <2>1, Zenon DEF PrintInfo, InfoLines
      <3>2. AtMost(u, d)
        BY DEF AtMost
      <3> HIDE DEF a, d, x, z, u, y
      <3> QED
        BY <3>1, <3>2, UptimeLine
    <2>3. y' = y /\ Machine' = Machine
      BY <2>1 DEF Line, FormatUptime, Machine
    <2>4. InfoPage'
      BY <2>1, <2>2 DEF InfoPage, Line, FormatUptime
    <2> HIDE DEF y
    <2>5. SystemTyped'
      BY <1>1, <2>1 DEF SystemTyped
    <2>6. ProcsKept' /\ DistroKept' /\ MacKept'
      BY <2>1, <2>3 DEF SystemData, ProcsKept, DistroKept, MacKept, OnLinux
    <2> QED
      BY <2>1, <2>4, <2>5, <2>6 DEF SystemData
  <1>3. CASE LeaveInfo
    <2>1. /\ pc = "info_shown" /\ pc' = "returned" /\ os' = os
          /\ sys' = NoSys /\ said' = NoSaid /\ rest' = <<>> /\ path' = 0
          /\ osText' = <<>> /\ device' = <<>> /\ asked' = NoCommand
      BY <1>3 DEF LeaveInfo
    <2>2. SystemTyped' /\ SystemIdle'
      BY <2>1 DEF SystemTyped, SystemIdle, NoSys, NoSaid
    <2>3. sys'.procs = 0 /\ said'.procs = 0
      BY <2>1 DEF NoSys, NoSaid
    <2> QED
      BY <2>1, <2>2, <2>3 DEF SystemData, ProcsKept, DistroKept, MacKept, InfoPage
  <1> QED
    BY <1>2, <1>3

\* A step of fetch_system_info keeps what the system's lines are made of.
LEMMA SystemDataKeeps ==
  ASSUME IInv, SystemData, System
  PROVE  SystemData'
  BY SystemBegins, DistroIsRead, MacVersion, DeviceIsNamed, InfoIsPrinted, Zenon DEF System
-----------------------------------------------------------------------------
(* SystemIsTrue                                                            *)

\* The parts of an uptime add up to it.
LEMMA UptimeAddsUp ==
  ASSUME NEW t \in Nat
  PROVE  LET u == FormatUptime(t)
         IN  /\ u.hours < 24 /\ u.minutes < 60 /\ u.seconds < 60
             /\ ((u.days * 24 + u.hours) * 60 + u.minutes) * 60 + u.seconds = t
  <1> DEFINE d == t \div 86400
             r == t % 86400
             h == r \div 3600
             q == r % 3600
             m == q \div 60
             s == q % 60
  <1>1. d \in Nat /\ r \in Nat /\ r < 86400 /\ t = 86400 * d + r
    OBVIOUS
  <1>2. h \in Nat /\ q \in Nat /\ q < 3600 /\ r = 3600 * h + q
    BY <1>1
  <1>3. m \in Nat /\ s \in Nat /\ s < 60 /\ q = 60 * m + s
    BY <1>2
  <1>4. t % 3600 = q
    OBVIOUS
  <1>5. t % 60 = s
    OBVIOUS
  <1>6. FormatUptime(t) = [days |-> d, hours |-> h, minutes |-> m, seconds |-> s]
    BY <1>4, <1>5 DEF FormatUptime
  <1> HIDE DEF d, r, h, q, m, s
  <1>7. h < 24 /\ m < 60 /\ s < 60 /\ ((d * 24 + h) * 60 + m) * 60 + s = t
    <2>1. d \in Int /\ h \in Int /\ m \in Int /\ s \in Int
      BY <1>1, <1>2, <1>3
    <2>2. ((d * 24 + h) * 60 + m) * 60 + s = 86400 * d + (3600 * h + (60 * m + s))
      BY <2>1
    <2>3. h < 24 /\ m < 60 /\ s < 60
      BY <1>1, <1>2, <1>3
    <2>4. 86400 * d + (3600 * h + (60 * m + s)) = t
      BY <1>1, <1>2, <1>3
    <2> QED
      BY <2>2, <2>3, <2>4
  <1> QED
    BY <1>6, <1>7

\* What is printed of the system is what was said of it.
LEMMA SystemIsTold ==
  ASSUME SystemData
  PROVE  SystemIsTrue
  <1> SUFFICES ASSUME pc = "info_shown"
               PROVE  SystemIsTrue
    BY DEF SystemIsTrue
  <1>1. /\ sys.procs < said.procs => sys.procs = 0 \/ (OnLinux /\ said.procs >= ProcWidth)
        /\ sys.procs <= said.procs
    BY DEF SystemData, ProcsKept
  <1>2. os = "linux" /\ said.distro # <<>> => osText = Append(DistroIn(said.distro), Machine)
    BY DEF SystemData, DistroKept
  <1>3. os = "macos" =>
          /\ SubSeq(osText, 2, Len(osText) - 1) \in Versions
          /\ said.model # <<>> => device[1] \notin DOMAIN said.model
    BY DEF SystemData, MacKept, InfoLabels, SystemLabels
  <1>4. PICK j \in DOMAIN page : page[j] = Line("Uptime", FormatUptime(sys.uptime))
    BY DEF SystemData, InfoPage
  <1>5. sys.uptime \in Nat
    BY DEF SystemData, SystemTyped
  <1> DEFINE l == page[j]
             u == FormatUptime(sys.uptime)
  <1>6. l \in Range(page) /\ l.label = "Uptime" /\ l.text = u
    BY <1>4 DEF Line, Range
  <1>7. /\ u.hours < 24 /\ u.minutes < 60 /\ u.seconds < 60
        /\ ((u.days * 24 + u.hours) * 60 + u.minutes) * 60 + u.seconds = sys.uptime
    BY <1>5, UptimeAddsUp
  <1> HIDE DEF l, u
  <1>8. \E k \in Range(page) :
          /\ k.label = "Uptime"
          /\ k.text.hours < 24 /\ k.text.minutes < 60 /\ k.text.seconds < 60
          /\ ((k.text.days * 24 + k.text.hours) * 60 + k.text.minutes) * 60
                + k.text.seconds = sys.uptime
    BY <1>6, <1>7
  <1> QED
    BY <1>1, <1>2, <1>3, <1>8 DEF SystemIsTrue, Versions
-----------------------------------------------------------------------------
(* Batteries.tla                                                           *)

\* A cut percentage is at least 60, or at least 80, just when the real one is:
\* those that lose one are others.
LEMMA PercentSteps ==
  ASSUME NEW part \in Nat, NEW whole \in Nat \ {0}, NEW k \in {60, 80}
  PROVE  CutPercent(part, whole) >= k <=> 100 * part >= k * whole
  <1> DEFINE p == (100 * part) \div whole
             r == (100 * part) % whole
  <1>0. 100 * part \in Nat
    OBVIOUS
  <1>1. p \in Nat /\ r \in 0 .. whole - 1 /\ 100 * part = whole * p + r
    BY <1>0, DivMod
  <1>2. CutPercent(part, whole) = IF p * whole = 100 * part /\ p \in LosesOne THEN p - 1 ELSE p
    BY DEF CutPercent
  <1> HIDE DEF p, r
  <1>3. CutPercent(part, whole) >= k <=> p >= k
    BY <1>1, <1>2 DEF LosesOne
  <1>4. whole * p \in Nat /\ k * whole = whole * k /\ whole * (k - 1) = whole * k - whole
    BY <1>1
  <1>5. p >= k => 100 * part >= whole * k
    <2>1. p >= k => whole * k <= whole * p
      BY <1>1, ProductMonotone
    <2> QED
      BY <1>1, <1>4, <2>1
  <1>6. ~ (p >= k) => ~ (100 * part >= whole * k)
    <2>1. ~ (p >= k) => p <= k - 1
      BY <1>1
    <2>2. ~ (p >= k) => whole * p <= whole * (k - 1)
      BY <1>1, <2>1, ProductMonotone
    <2> QED
      BY <1>1, <1>4, <2>2
  <1> QED
    BY <1>3, <1>4, <1>5, <1>6

\* The health of a battery is told by the ratio of the two capacities: the
\* percentages that are one too low are on the same side of both limits.
LEMMA HealthIsTheRatio ==
  ASSUME NEW design \in Int, NEW full \in Int
  PROVE  Health(design, full) =
           IF design <= 0 \/ full <= 0 THEN "Unknown"
           ELSE IF 10 * full >= 8 * design THEN "Good"
           ELSE IF 10 * full >= 6 * design THEN "Fair" ELSE "Poor"
  <1>1. CASE design <= 0 \/ full <= 0
    BY <1>1 DEF Health
  <1>2. CASE ~ (design <= 0 \/ full <= 0)
    <2> DEFINE part == Min({full, design})
               pct  == CutPercent(part, design)
    <2>1. {full, design} \subseteq Nat /\ {full, design} # {} /\ design \in Nat \ {0}
      BY <1>2
    <2>2. part \in {full, design} /\ part <= full /\ part <= design
      <3>1. Min({full, design}) \in {full, design} /\ \A y \in {full, design} : Min({full, design}) <= y
        BY <2>1, MinIsLeast
      <3> QED
        BY <3>1
    <2> HIDE DEF part
    <2>3. part \in Nat
      BY <2>1, <2>2
    <2>4. /\ pct >= 80 <=> 100 * part >= 80 * design
          /\ pct >= 60 <=> 100 * part >= 60 * design
      BY <2>1, <2>3, PercentSteps
    <2>5. pct \in Int
      <3>1. CutPercent(part, design) \in 0 .. 100
        BY <2>1, <2>2, <2>3, PercentIsCut
      <3> QED
        BY <3>1
    <2>6. /\ 100 * part >= 80 * design <=> 10 * full >= 8 * design
          /\ 100 * part >= 60 * design <=> 10 * full >= 6 * design
      <3>1. CASE part = full
        BY <2>1, <3>1
      <3>2. CASE part = design
        BY <2>1, <2>2, <3>2
      <3> QED
        BY <2>2, <3>1, <3>2
    <2>7. Health(design, full) =
            CASE pct >= 80 -> "Good" [] pct >= 60 /\ pct < 80 -> "Fair" [] pct < 60 -> "Poor"
      BY <1>2 DEF Health, part
    <2> HIDE DEF pct
    <2>8. Health(design, full) = IF pct >= 80 THEN "Good" ELSE IF pct >= 60 THEN "Fair" ELSE "Poor"
      BY <2>5, <2>7
    <2> QED
      BY <1>2, <2>4, <2>6, <2>8
  <1> QED
    BY <1>1, <1>2
-----------------------------------------------------------------------------
\* What the files of a supply have held, and the lines there may be.
Contents ==
  {{}} \cup UNION {{m[s][f] : s \in DOMAIN m, f \in Range(Metrics)} : m \in Machines}
Healths == {Health(Number(a, b), Number(c, d)) :
              a \in Contents, b \in Contents, c \in Contents, d \in Contents}
BatLines == {Metric(a, b, c, h) : a \in Contents, b \in Contents, c \in Contents, h \in Healths}

\* What is read of file i of a supply that stays.
Reads(m, i) ==
  IF \/ i = 5 /\ ReadInt32(m.energyDesign) # {}
     \/ i = 7 /\ ReadInt32(m.energyFull) # {}
  THEN {} ELSE m[Metrics[i]]

InHand == pc \in {"bat_type", "bat_scope", "bat_add"}

\* A supply is to come, in hand, in the list or lost, and nowhere twice.
SuppliesApart ==
  /\ present \cup todo \cup lost \cup Range(list) \subseteq DOMAIN machine
  /\ IsInjective(list)
  /\ Range(list) \cap lost = {}
  /\ todo \cap (Range(list) \cup lost) = {}
  /\ InHand => entry \in DOMAIN machine \ (todo \cup Range(list) \cup lost)
  /\ pc \notin {"bat_dir", "bat_type", "bat_scope", "bat_add"} => todo \cap present = {}

\* What stays is in the list if it is a battery of the system, and only then.
SuppliesSorted ==
  /\ pc = "bat_scope" /\ entry \in present => machine[entry].type \subseteq {"Battery"}
  /\ pc = "bat_add" /\ entry \in present => IsSystemBattery(entry)
  /\ \A s \in Range(list) \cap present : IsSystemBattery(s)
  /\ \A s \in Steady : IsSystemBattery(s) =>
       s \in todo \cup Range(list) \/ (InHand /\ s = entry)

\* The nodes are printed in order; what has been read is of the node in hand.
NodesTold ==
  /\ got \in Seq(Contents) /\ Len(got) <= Len(Metrics)
  /\ page \in Seq(BatLines) /\ Len(page) <= Len(list)
  /\ pc \in {"bat_dir", "bat_type", "bat_scope", "bat_add"} => page = <<>>
  /\ pc = "bat_shown" => Len(page) = Len(list)
  /\ pc = "bat_read" =>
       /\ Len(page) < Len(list) /\ entry = list[Len(page) + 1]
       /\ entry \in present => \A i \in 1 .. Len(got) : got[i] = Reads(machine[entry], i)
  /\ \A j \in 1 .. Len(page) : list[j] \in present => TellsSupply(page[j], machine[list[j]])

BatteryIdle == /\ machine = <<>> /\ present = {} /\ todo = {}
               /\ list = <<>> /\ got = NothingGot /\ lost = {}

MacLine(d) ==
  Metric({PowerModel(d)}, {PowerPercent(d.cur, d.max)},
         {PowerStatus(d, PowerPercent(d.cur, d.max))}, StringOr(d.health, "Unknown"))

\* On Linux the supplies, on macOS and Android the one battery there is.
BatteryData ==
  /\ pc \notin BatteryLabels => BatteryIdle
  /\ os # "linux" => present = {} /\ todo = {} /\ list = <<>> /\ got = NothingGot /\ lost = {}
  /\ os = "linux" /\ pc \in BatteryLabels =>
       machine \in Machines /\ SuppliesApart /\ SuppliesSorted /\ NodesTold
  /\ os # "linux" /\ pc \in BatteryLabels \ {"bat_shown", "bat_release"} => page = <<>>
  /\ pc = "battery" => page = <<>>
  /\ os = "macos" /\ pc = "bat_shown" => machine \in PowerSources /\ page[1] = MacLine(machine)
  /\ os = "android" /\ pc = "bat_shown" =>
       page[1].text.status = ReadOr(machine.status, "Unknown")

\* Neither main nor another part changes what is known of the batteries.
LEMMA BatteryDataRests ==
  ASSUME BatteryData, UNCHANGED batVars, os' = os,
         \/ pc' = pc /\ page' = page
         \/ {pc, pc'} \cap BatteryLabels = {} /\ (pc' = "battery" => page' = <<>>)
  PROVE  BatteryData'
  <1>1. UNCHANGED <<machine, present, todo, entry, list, got, lost>>
    BY DEF batVars
  <1>2. BatteryIdle => BatteryIdle'
    BY <1>1 DEF BatteryIdle
  <1>3. CASE pc' = pc /\ page' = page
    <2>1. SuppliesApart => SuppliesApart'
      BY <1>1, <1>3 DEF SuppliesApart, InHand
    <2>2. SuppliesSorted => SuppliesSorted'
      BY <1>1, <1>3 DEF SuppliesSorted, InHand, Steady, IsSystemBattery
    <2>3. NodesTold => NodesTold'
      BY <1>1, <1>3 DEF NodesTold
    <2> QED
      BY <1>1, <1>2, <1>3, <2>1, <2>2, <2>3 DEF BatteryData
  <1>4. CASE {pc, pc'} \cap BatteryLabels = {} /\ (pc' = "battery" => page' = <<>>)
    BY <1>1, <1>2, <1>4 DEF BatteryData, BatteryLabels
  <1> QED
    BY <1>3, <1>4

\* The list with one more node at the front.
LEMMA Prepended ==
  ASSUME entry \in Supplies, list \in Seq(Supplies), list' = <<entry>> \o list
  PROVE  /\ list' \in Seq(Supplies)
         /\ Range(list') = {entry} \cup Range(list)
         /\ IsInjective(list) /\ entry \notin Range(list) => IsInjective(list')
  <1> DEFINE S == Supplies
             e == entry
             l == list
             k == list'
  <1>9. e \in S /\ l \in Seq(S) /\ k = <<e>> \o l
    OBVIOUS
  <1> HIDE DEF S, e, l, k
  <1>0. <<e>> \in Seq(S) /\ Len(<<e>>) = 1 /\ <<e>>[1] = e /\ Len(l) \in Nat
    BY <1>9
  <1>1. k \in Seq(S) /\ Len(k) = Len(l) + 1
    BY <1>0, <1>9
  <1>2. k[1] = e /\ \A j \in 1 .. Len(l) : k[j + 1] = l[j]
    BY <1>0, <1>9
  <1>3. DOMAIN k = 1 .. Len(l) + 1 /\ DOMAIN l = 1 .. Len(l)
    BY <1>1
  <1>4. \A j \in DOMAIN k : j = 1 \/ (j - 1 \in DOMAIN l /\ k[j] = l[j - 1])
    <2>1. SUFFICES ASSUME NEW j \in DOMAIN k, j # 1
                   PROVE  j - 1 \in DOMAIN l /\ k[j] = l[j - 1]
      OBVIOUS
    <2>2. j - 1 \in 1 .. Len(l) /\ (j - 1) + 1 = j
      BY <1>0, <1>3, <2>1
    <2> QED
      BY <1>2, <1>3, <2>2
  <1>5. Range(k) = {e} \cup Range(l)
    <2>1. ASSUME NEW x \in Range(k) PROVE x \in {e} \cup Range(l)
      BY <1>2, <1>4, <2>1 DEF Range
    <2>2. e \in Range(k)
      BY <1>0, <1>2, <1>3 DEF Range
    <2>3. ASSUME NEW x \in Range(l) PROVE x \in Range(k)
      <3>1. PICK j \in 1 .. Len(l) : x = l[j]
        BY <1>3, <2>3 DEF Range
      <3>2. j + 1 \in DOMAIN k /\ k[j + 1] = x
        BY <1>0, <1>2, <1>3, <3>1
      <3> QED
        BY <3>2 DEF Range
    <2> QED
      BY <2>1, <2>2, <2>3
  <1>6. ASSUME IsInjective(l), e \notin Range(l)
        PROVE  IsInjective(k)
    <2>1. SUFFICES ASSUME NEW a \in DOMAIN k, NEW b \in DOMAIN k, k[a] = k[b]
                   PROVE  a = b
      BY DEF IsInjective
    <2>2. \A j \in DOMAIN l : l[j] # e
      BY <1>6 DEF Range
    <2>3. a \in Int /\ b \in Int
      BY <1>0, <1>3
    <2>4. CASE a = 1
      BY <1>2, <1>4, <2>1, <2>2, <2>4
    <2>5. CASE b = 1
      BY <1>2, <1>4, <2>1, <2>2, <2>5
    <2>6. CASE a # 1 /\ b # 1
      <3>1. a - 1 = b - 1
        BY <1>4, <1>6, <2>1, <2>6 DEF IsInjective
      <3> QED
        BY <2>3, <3>1
    <2> QED
      BY <2>4, <2>5, <2>6
  <1> QED
    BY <1>1, <1>5, <1>6 DEF S, e, l, k

\* An empty list has no member, and none twice.
LEMMA EmptyList == Range(<<>>) = {} /\ IsInjective(<<>>)
  BY DEF Range, IsInjective

\* What a step of the directory's reading shares with the others.
OnSupplies == /\ os = "linux" /\ pc \in BatteryLabels
              /\ machine \in Machines /\ SuppliesApart /\ SuppliesSorted /\ NodesTold

\* What the invariant says where the supplies are listed or read.
LEMMA OnSuppliesMeans ==
  ASSUME IInv, BatteryData,
         pc \in {"bat_dir", "bat_type", "bat_scope", "bat_add", "bat_next", "bat_read"}
                \/ (os = "linux" /\ pc \in BatteryLabels)
  PROVE  OnSupplies
  BY DEF IInv, HeldBattery, BatteryData, OnSupplies, BatteryLabels

\* It is all that it says there.
LEMMA OnSuppliesGives ==
  ASSUME OnSupplies'
  PROVE  BatteryData'
  BY DEF BatteryData, OnSupplies, BatteryLabels

\* The walk through the directory, and the two files that make a supply a battery.
LEMMA SuppliesFound ==
  ASSUME IInv, BatteryData,
         NextSupply \/ CheckType \/ CheckScope \/ EndOfSupplies
  PROVE  OnSupplies'
  <1> USE DEF Goto
  <1>1. /\ OnSupplies /\ os' = os
        /\ UNCHANGED <<page, machine, present, list, got, lost>>
    BY OnSuppliesMeans DEF NextSupply, CheckType, CheckScope, EndOfSupplies, batVars
  <1>2. \A s : IsSystemBattery(s)' <=> IsSystemBattery(s)
    BY <1>1 DEF IsSystemBattery
  <1>3. /\ SuppliesApart /\ SuppliesSorted /\ NodesTold /\ machine \in Machines
        /\ os = "linux" /\ pc \in BatteryLabels
    BY <1>1 DEF OnSupplies
  <1>4. Steady' = Steady
    BY <1>1 DEF Steady
  <1>5. CASE NextSupply
    <2>1. /\ pc = "bat_dir" /\ pc' = "bat_type" /\ entry' \in todo /\ todo' = todo \ {entry'}
      BY <1>5 DEF NextSupply
    <2>2. SuppliesApart'
      BY <1>1, <1>3, <2>1 DEF SuppliesApart, InHand
    <2>3. SuppliesSorted'
      BY <1>1, <1>2, <1>3, <1>4, <2>1 DEF SuppliesSorted, InHand
    <2>4. NodesTold'
      BY <1>1, <1>3, <2>1 DEF NodesTold
    <2> QED
      BY <1>1, <1>3, <2>1, <2>2, <2>3, <2>4 DEF OnSupplies, BatteryLabels
  <1>6. CASE CheckType
    <2>1. /\ pc = "bat_type" /\ UNCHANGED <<entry, todo>>
          /\ \/ pc' = "bat_scope" /\ FileOf(entry, "type") \subseteq {"Battery"}
             \/ pc' = "bat_dir" /\ ~ (FileOf(entry, "type") \subseteq {"Battery"})
      BY <1>6 DEF CheckType, batVars
    <2>2. /\ pc' = "bat_scope" /\ entry \in present => machine[entry].type \subseteq {"Battery"}
          /\ pc' = "bat_dir" => entry \in present /\ ~ (machine[entry].type \subseteq {"Battery"})
      BY <2>1 DEF FileOf
    <2>3. SuppliesApart'
      BY <1>1, <1>3, <2>1 DEF SuppliesApart, InHand
    <2>4. SuppliesSorted'
      <3>1. pc' = "bat_dir" => ~ IsSystemBattery(entry)
        BY <2>2 DEF IsSystemBattery
      <3> QED
        BY <1>1, <1>2, <1>3, <1>4, <2>1, <2>2, <3>1 DEF SuppliesSorted, InHand
    <2>5. NodesTold'
      BY <1>1, <1>3, <2>1 DEF NodesTold
    <2> QED
      BY <1>1, <1>3, <2>1, <2>3, <2>4, <2>5 DEF OnSupplies, BatteryLabels
  <1>7. CASE CheckScope
    <2>1. /\ pc = "bat_scope" /\ UNCHANGED <<entry, todo>>
          /\ \/ pc' = "bat_dir" /\ FileOf(entry, "scope") = {"Device"}
             \/ pc' = "bat_add" /\ FileOf(entry, "scope") # {"Device"}
      BY <1>7 DEF CheckScope, batVars
    <2>2. /\ pc' = "bat_add" /\ entry \in present => IsSystemBattery(entry)
          /\ pc' = "bat_dir" => ~ IsSystemBattery(entry)
      BY <1>3, <2>1 DEF FileOf, IsSystemBattery, SuppliesSorted
    <2>3. SuppliesApart'
      BY <1>1, <1>3, <2>1 DEF SuppliesApart, InHand
    <2>4. SuppliesSorted'
      BY <1>1, <1>2, <1>3, <1>4, <2>1, <2>2 DEF SuppliesSorted, InHand
    <2>5. NodesTold'
      BY <1>1, <1>3, <2>1 DEF NodesTold
    <2> QED
      BY <1>1, <1>3, <2>1, <2>3, <2>4, <2>5 DEF OnSupplies, BatteryLabels
  <1>8. CASE EndOfSupplies
    <2>1. pc = "bat_dir" /\ pc' = "bat_next" /\ todo \cap present = {} /\ todo' = {}
      BY <1>8 DEF EndOfSupplies
    <2>2. SuppliesApart'
      BY <1>1, <1>3, <2>1 DEF SuppliesApart, InHand
    <2>3. SuppliesSorted'
      BY <1>1, <1>2, <1>3, <1>4, <2>1 DEF SuppliesSorted, InHand, Steady
    <2>4. NodesTold'
      BY <1>1, <1>3, <2>1 DEF NodesTold
    <2> QED
      BY <1>1, <1>3, <2>1, <2>2, <2>3, <2>4 DEF OnSupplies, BatteryLabels
  <1> QED
    BY <1>5, <1>6, <1>7, <1>8

\* The list begins empty, and a battery is put at its head.
LEMMA ListBegins ==
  ASSUME IInv, BatteryData, OpenSupplies \/ AddElement
  PROVE  BatteryData'
  <1> USE DEF Goto
  <1>1. CASE OpenSupplies /\ BatReturn
    BY <1>1 DEF OpenSupplies, BatReturn, BatteryData, BatteryIdle, BatteryLabels
  <1>2. CASE OpenSupplies /\ ~BatReturn
    <2>1. /\ pc = "battery" /\ os = "linux" /\ pc' = "bat_dir" /\ os' = os
          /\ UNCHANGED <<page, entry, list, got, lost>>
          /\ machine' \in Machines /\ present' = DOMAIN machine' /\ todo' = DOMAIN machine'
      BY <1>2 DEF OpenSupplies
    <2>2. BatteryIdle /\ page = <<>>
      BY <2>1 DEF BatteryData, BatteryLabels
    <2>3. SuppliesApart'
      BY <2>1, <2>2, EmptyList DEF SuppliesApart, InHand, BatteryIdle
    <2>4. SuppliesSorted'
      BY <2>1, <2>2, EmptyList DEF SuppliesSorted, InHand, BatteryIdle, Steady
    <2>5. NodesTold'
      BY <2>1, <2>2 DEF NodesTold, BatteryIdle, NothingGot, Metrics
    <2>6. OnSupplies'
      BY <2>1, <2>3, <2>4, <2>5 DEF OnSupplies, BatteryLabels
    <2> QED
      BY <2>6, OnSuppliesGives
  <1>3. CASE AddElement
    <2>1. /\ pc = "bat_add" /\ pc' = "bat_dir" /\ os' = os
          /\ UNCHANGED <<page, machine, present, todo, entry, got>>
          /\ \/ list' = <<entry>> \o list /\ lost' = lost
             \/ lost' = lost \cup {entry} /\ list' = list
      BY <1>3 DEF AddElement
    <2>2. /\ SuppliesApart /\ SuppliesSorted /\ NodesTold /\ machine \in Machines
          /\ os = "linux"
      BY <2>1, OnSuppliesMeans DEF OnSupplies
    <2>3. \A s : IsSystemBattery(s)' <=> IsSystemBattery(s)
      BY <2>1 DEF IsSystemBattery
    <2>4. /\ \/ Range(list') = {entry} \cup Range(list) /\ lost' = lost
             \/ lost' = lost \cup {entry} /\ Range(list') = Range(list)
          /\ IsInjective(list') /\ Len(list') \in Nat
      <3>1. list \in Seq(Supplies) /\ entry \in Supplies
        BY <2>1 DEF IInv, ListTyped
      <3>2. IsInjective(list) /\ entry \notin Range(list)
        BY <2>1, <2>2 DEF SuppliesApart, InHand
      <3>3. CASE list' = <<entry>> \o list /\ lost' = lost
        <4>1. /\ list' \in Seq(Supplies)
              /\ Range(list') = {entry} \cup Range(list)
              /\ IsInjective(list')
          BY <3>1, <3>2, <3>3, Prepended
        <4>2. Len(list') \in Nat
          BY <4>1
        <4> QED
          BY <3>3, <4>1, <4>2
      <3>4. CASE lost' = lost \cup {entry} /\ list' = list
        BY <3>1, <3>2, <3>4
      <3> QED
        BY <2>1, <3>3, <3>4
    <2>5. SuppliesApart'
      BY <2>1, <2>2, <2>4 DEF SuppliesApart, InHand
    <2>6. SuppliesSorted'
      BY <2>1, <2>2, <2>3, <2>4 DEF SuppliesSorted, InHand, Steady
    <2>7. NodesTold'
      BY <2>1, <2>2, <2>4 DEF NodesTold
    <2>8. OnSupplies'
      BY <2>1, <2>2, <2>5, <2>6, <2>7 DEF OnSupplies, BatteryLabels
    <2> QED
      BY <2>8, OnSuppliesGives
  <1> QED
    BY <1>1, <1>2, <1>3

\* A battery that is pulled out at any moment leaves the list and what was read as they are.
LEMMA SupplyIsGone ==
  ASSUME IInv, BatteryData, NEW s \in present, SupplyGoes(s)
  PROVE  BatteryData'
  <1>1. /\ present' = present \ {s}
        /\ UNCHANGED <<os, pc, page, machine, todo, entry, list, got, lost>>
    BY DEF SupplyGoes
  <1>2. os = "linux" /\ pc \in BatteryLabels
    BY DEF BatteryData, BatteryIdle
  <1>3. /\ SuppliesApart /\ SuppliesSorted /\ NodesTold /\ machine \in Machines
    BY <1>2 DEF BatteryData
  <1>4. SuppliesApart'
    BY <1>1, <1>3 DEF SuppliesApart, InHand
  <1>5. SuppliesSorted'
    BY <1>1, <1>3 DEF SuppliesSorted, InHand, Steady, IsSystemBattery
  <1>6. NodesTold'
    BY <1>1, <1>3 DEF NodesTold
  <1>7. OnSupplies'
    BY <1>1, <1>2, <1>3, <1>4, <1>5, <1>6 DEF OnSupplies
  <1> QED
    BY <1>7, OnSuppliesGives

\* What is read of a supply, there or gone, is among what there may be.
LEMMA FilesAreContents ==
  ASSUME machine \in Machines, present \subseteq DOMAIN machine, NEW s, NEW i \in 1 .. 7
  PROVE  FileOf(s, Metrics[i]) \in Contents
  <1>1. Metrics[i] \in Range(Metrics)
    BY DEF Range, Metrics
  <1>2. CASE s \in present
    <2>1. machine[s][Metrics[i]] \in {machine[t][f] : t \in DOMAIN machine, f \in Range(Metrics)}
      BY <1>1, <1>2
    <2> QED
      BY <1>2, <2>1 DEF FileOf, Contents
  <1>3. CASE s \notin present
    BY <1>3 DEF FileOf, Contents
  <1> QED
    BY <1>2, <1>3

\* What has been read of a supply that stays makes a line that tells of it.
LEMMA LineTells ==
  ASSUME NEW m, NEW g,
         m.energyDesign \cup m.energyFull \cup m.chargeDesign \cup m.chargeFull \subseteq Int,
         \A i \in 1 .. 7 : g[i] = Reads(m, i)
  PROVE  TellsSupply(Metric(g[1], g[2], g[3],
                            Health(Number(g[4], g[5]), Number(g[6], g[7]))), m)
  <1> DEFINE e1 == ReadInt32(m.energyDesign)
             e2 == ReadInt32(m.energyFull)
             c1 == ReadInt32(m.chargeDesign)
             c2 == ReadInt32(m.chargeFull)
  <1>1. e1 \subseteq Int /\ e2 \subseteq Int /\ c1 \subseteq Int /\ c2 \subseteq Int
    BY DEF ReadInt32, Fitting
  <1>2. ReadInt32({}) = {}
    BY DEF ReadInt32, Fitting
  <1>3. g[1] = m.model /\ g[2] = m.capacity /\ g[3] = m.status
    BY DEF Reads, Metrics
  <1>4. /\ g[4] = m.energyDesign /\ g[6] = m.energyFull
        /\ g[5] = IF e1 # {} THEN {} ELSE m.chargeDesign
        /\ g[7] = IF e2 # {} THEN {} ELSE m.chargeFull
    BY DEF Reads, Metrics
  <1> DEFINE design == Number(g[4], g[5])
             full   == Number(g[6], g[7])
  <1>5. /\ design = IF e1 # {} THEN ReadOr(e1, 0) ELSE ReadOr(c1, 0)
        /\ full   = IF e2 # {} THEN ReadOr(e2, 0) ELSE ReadOr(c2, 0)
    <2>1. \A r, x, y : (r # {} => ReadOr(r, x) = ReadOr(r, y)) /\ ReadOr({}, x) = x
      BY DEF ReadOr
    <2>2. /\ design = ReadOr(e1, ReadOr(IF e1 # {} THEN {} ELSE c1, 0))
          /\ full = ReadOr(e2, ReadOr(IF e2 # {} THEN {} ELSE c2, 0))
      BY <1>2, <1>4, Zenon DEF Number
    <2> HIDE DEF design, full, e1, e2, c1, c2
    <2> QED
      BY <2>1, <2>2
  <1> HIDE DEF design, full, e1, e2, c1, c2
  <1>6. \A v \in SUBSET Int : ReadOr(v, 0) \in Int
    <2>1. SUFFICES ASSUME NEW v \in SUBSET Int, v # {}
                   PROVE  ReadOr(v, 0) \in Int
      BY DEF ReadOr
    <2>2. ReadOr(v, 0) \in v
      BY <2>1 DEF ReadOr
    <2> QED
      BY <2>2
  <1>7. design \in Int /\ full \in Int
    BY <1>1, <1>5, <1>6
  <1> DEFINE l == Metric(g[1], g[2], g[3], Health(design, full))
  <1>8. /\ l.label = <<"Battery", ReadOr(m.model, "Unknown")>>
        /\ l.text.capacity = ReadOr(m.capacity, -1)
        /\ l.text.status = ReadOr(m.status, "Unknown")
        /\ l.text.health = Health(design, full)
    BY <1>3 DEF Metric
  <1> HIDE DEF l
  <1> DEFINE mixed == {} \in {e1, e2} /\ (e1 # {} \/ e2 # {}) /\ (c1 # {} \/ c2 # {})
             d == IF {} \in {e1, e2} THEN ReadOr(c1, 0) ELSE ReadOr(e1, 0)
             f == IF {} \in {e1, e2} THEN ReadOr(c2, 0) ELSE ReadOr(e2, 0)
  <1>9. ~mixed => \/ design = d /\ full = f
                  \/ (design <= 0 \/ full <= 0) /\ (d <= 0 \/ f <= 0)
    <2>1. ReadOr({}, 0) = 0
      BY DEF ReadOr
    <2> QED
      BY <1>5, <2>1
  <1>10. ~mixed => l.text.health = IF d <= 0 \/ f <= 0 THEN "Unknown"
                                   ELSE IF 10 * f >= 8 * d THEN "Good"
                                   ELSE IF 10 * f >= 6 * d THEN "Fair" ELSE "Poor"
    BY <1>7, <1>8, <1>9, HealthIsTheRatio
  <1> HIDE DEF mixed, d, f
  <1>11. TellsSupply(l, m)
    <2> DEFINE energy == <<e1, e2>>
               charge == <<c1, c2>>
               used   == IF {} \in Range(energy) THEN charge ELSE energy
    <2>1. Range(energy) = {e1, e2}
      BY DEF Range
    <2>2. used[1] = (IF {} \in {e1, e2} THEN c1 ELSE e1) /\ used[2] = (IF {} \in {e1, e2} THEN c2 ELSE e2)
      BY <2>1
    <2>3. ReadOr(used[1], 0) = d /\ ReadOr(used[2], 0) = f
      BY <2>2 DEF d, f
    <2>4. ({} \in Range(energy) /\ energy # <<{}, {}>> /\ charge # <<{}, {}>>) <=> mixed
      BY <2>1 DEF mixed
    <2> DEFINE mx == {} \in Range(energy) /\ energy # <<{}, {}>> /\ charge # <<{}, {}>>
    <2>5. TellsSupply(l, m) <=>
            /\ l.label = <<"Battery", ReadOr(m.model, "Unknown")>>
            /\ l.text.capacity = ReadOr(m.capacity, -1)
            /\ l.text.status = ReadOr(m.status, "Unknown")
            /\ mx \/ l.text.health =
                 IF ReadOr(used[1], 0) <= 0 \/ ReadOr(used[2], 0) <= 0 THEN "Unknown"
                 ELSE IF 10 * ReadOr(used[2], 0) >= 8 * ReadOr(used[1], 0) THEN "Good"
                 ELSE IF 10 * ReadOr(used[2], 0) >= 6 * ReadOr(used[1], 0) THEN "Fair" ELSE "Poor"
      BY Zenon DEF TellsSupply, e1, e2, c1, c2
    <2> HIDE DEF used, mx
    <2> QED
      BY <1>8, <1>10, <2>3, <2>4, <2>5 DEF mx
  <1> QED
    BY <1>11 DEF l, design, full

\* The walk through the list: each file that is read, each battery that is printed.
LEMMA NodesAreRead ==
  ASSUME IInv, BatteryData, NextNode \/ ReadMetric \/ PrintBattery \/ AllPrinted
  PROVE  OnSupplies'
  <1> USE DEF Goto
  <1>1. /\ OnSupplies /\ os' = os
        /\ pc \in {"bat_next", "bat_read"} /\ pc' \in {"bat_next", "bat_read", "bat_shown"}
        /\ UNCHANGED <<machine, present, todo, list, lost>>
    BY OnSuppliesMeans DEF NextNode, ReadMetric, PrintBattery, AllPrinted, batVars
  <1>2. /\ SuppliesApart /\ SuppliesSorted /\ NodesTold /\ machine \in Machines
        /\ os = "linux"
    BY <1>1 DEF OnSupplies
  <1>3. SuppliesApart'
    BY <1>1, <1>2 DEF SuppliesApart, InHand
  <1>4. SuppliesSorted'
    BY <1>1, <1>2 DEF SuppliesSorted, InHand, Steady, IsSystemBattery
  <1>5. SUFFICES NodesTold'
    BY <1>1, <1>2, <1>3, <1>4 DEF OnSupplies, BatteryLabels
  <1>6. /\ got \in Seq(Contents) /\ Len(got) <= Len(Metrics)
        /\ page \in Seq(BatLines) /\ Len(page) <= Len(list)
        /\ \A j \in 1 .. Len(page) : list[j] \in present => TellsSupply(page[j], machine[list[j]])
    BY <1>2 DEF NodesTold
  <1>7. Len(Metrics) = 7 /\ Len(got) \in Nat /\ Len(page) \in Nat
    BY <1>6 DEF Metrics
  <1>8. list \in Seq(Supplies) /\ Len(list) \in Nat /\ DOMAIN list = 1 .. Len(list)
    BY DEF IInv, ListTyped
  <1>9. CASE NextNode
    <2>1. /\ page' = page /\ Len(page) < Len(list) /\ entry' = list[Len(page) + 1]
          /\ got' = <<>> /\ pc' = "bat_read"
      BY <1>9 DEF NextNode, NothingGot
    <2>2. got' \in Seq(Contents) /\ Len(got') = 0
      BY <2>1
    <2> QED
      BY <1>1, <1>6, <1>7, <2>1, <2>2 DEF NodesTold
  <1>10. CASE AllPrinted
    BY <1>1, <1>6, <1>10 DEF NodesTold, AllPrinted, batVars
  <1>11. CASE ReadMetric
    <2> DEFINE n == Len(got) + 1
               f == Metrics[n]
               x == IF Asked(f) THEN FileOf(entry, f) ELSE {}
    <2>1. /\ pc = "bat_read" /\ pc' = pc /\ Len(got) < 7 /\ got' = Append(got, x)
          /\ UNCHANGED <<page, entry>>
      BY <1>7, <1>11 DEF ReadMetric
    <2>2. n \in 1 .. 7
      BY <1>7, <2>1
    <2>3. Len(page) < Len(list) /\ entry = list[Len(page) + 1]
      BY <1>2, <2>1 DEF NodesTold
    <2>5. x \in Contents
      <3>1. FileOf(entry, f) \in Contents
        <4>1. present \subseteq DOMAIN machine
          BY <1>2 DEF SuppliesApart
        <4> QED
          BY <1>2, <2>2, <4>1, FilesAreContents
      <3>2. {} \in Contents
        BY DEF Contents
      <3> QED
        BY <3>1, <3>2
    <2>6. entry \in present => \A i \in 1 .. Len(got) : got[i] = Reads(machine[entry], i)
      BY <1>2, <2>1 DEF NodesTold
    <2>7. ASSUME entry \in present PROVE x = Reads(machine[entry], n)
      <3> DEFINE m == machine[entry]
      <3>1. FileOf(entry, f) = m[f]
        BY <2>7 DEF FileOf
      <3>2. f = "chargeDesign" <=> n = 5
        BY <2>2 DEF Metrics
      <3>3. f = "chargeFull" <=> n = 7
        BY <2>2 DEF Metrics
      <3>4. n = 5 => got[4] = m.energyDesign
        <4>1. n = 5 => 4 \in 1 .. Len(got)
          BY <1>7
        <4>2. Reads(m, 4) = m.energyDesign
          BY DEF Reads, Metrics
        <4> QED
          BY <2>6, <2>7, <4>1, <4>2
      <3>5. n = 7 => got[6] = m.energyFull
        <4>1. n = 7 => 6 \in 1 .. Len(got)
          BY <1>7
        <4>2. Reads(m, 6) = m.energyFull
          BY DEF Reads, Metrics
        <4> QED
          BY <2>6, <2>7, <4>1, <4>2
      <3>6. Reads(m, n) = IF \/ n = 5 /\ ReadInt32(m.energyDesign) # {}
                             \/ n = 7 /\ ReadInt32(m.energyFull) # {}
                          THEN {} ELSE m[f]
        BY DEF Reads
      <3>7. Asked(f) <=> /\ n = 5 => ReadInt32(m.energyDesign) = {}
                         /\ n = 7 => ReadInt32(m.energyFull) = {}
        BY <3>2, <3>3, <3>4, <3>5 DEF Asked
      <3> HIDE DEF m, f, n
      <3>8. CASE Asked(f)
        <4>1. x = m[f]
          BY <3>1, <3>8
        <4>2. Reads(m, n) = m[f]
          BY <3>6, <3>7, <3>8
        <4> QED
          BY <4>1, <4>2 DEF m
      <3>9. CASE ~Asked(f)
        <4>1. x = {}
          BY <3>9
        <4>2. Reads(m, n) = {}
          BY <3>6, <3>7, <3>9
        <4> QED
          BY <4>1, <4>2 DEF m
      <3> QED
        BY <3>8, <3>9
    <2> HIDE DEF x, f
    <2>8. /\ got' \in Seq(Contents) /\ Len(got') = n /\ got'[n] = x
          /\ \A i \in 1 .. Len(got) : got'[i] = got[i]
      BY <1>6, <1>7, <2>1, <2>5
    <2>9. entry \in present => \A i \in 1 .. Len(got') : got'[i] = Reads(machine[entry], i)
      <3>1. \A i \in 1 .. n : i \in 1 .. Len(got) \/ i = n
        BY <1>7
      <3> QED
        BY <2>6, <2>7, <2>8, <3>1
    <2>10. Len(got') <= 7
      BY <2>2, <2>8
    <2> QED
      BY <1>1, <1>6, <1>7, <2>1, <2>3, <2>8, <2>9, <2>10 DEF NodesTold
  <1>12. CASE PrintBattery
    <2> DEFINE l == Metric(got[1], got[2], got[3],
                           Health(Number(got[4], got[5]), Number(got[6], got[7])))
    <2>1. /\ pc = "bat_read" /\ pc' = "bat_next" /\ Len(got) = 7
          /\ page' = Append(page, l) /\ UNCHANGED <<got, entry>>
      BY <1>7, <1>12 DEF PrintBattery, batVars
    <2>2. /\ Len(page) < Len(list) /\ entry = list[Len(page) + 1]
          /\ entry \in present => \A i \in 1 .. Len(got) : got[i] = Reads(machine[entry], i)
      BY <1>2, <2>1 DEF NodesTold
    <2>3. l \in BatLines
      <3>1. \A i \in 1 .. 7 : got[i] \in Contents
        <4>1. \A i \in 1 .. Len(got) : got[i] \in Contents
          BY <1>6
        <4> QED
          BY <2>1, <4>1
      <3>2. /\ got[1] \in Contents /\ got[2] \in Contents /\ got[3] \in Contents
            /\ got[4] \in Contents /\ got[5] \in Contents /\ got[6] \in Contents
            /\ got[7] \in Contents
        BY <3>1
      <3>3. Health(Number(got[4], got[5]), Number(got[6], got[7])) \in Healths
        BY <3>2 DEF Healths
      <3> QED
        BY <3>2, <3>3 DEF BatLines
    <2>4. entry \in present => TellsSupply(l, machine[entry])
      <3>1. SUFFICES ASSUME entry \in present PROVE TellsSupply(l, machine[entry])
        OBVIOUS
      <3> DEFINE m == machine[entry]
      <3>2. entry \in DOMAIN machine
        BY <1>2, <3>1 DEF SuppliesApart
      <3>3. m.energyDesign \cup m.energyFull \cup m.chargeDesign \cup m.chargeFull \subseteq Int
        BY <1>2, <3>2, SupplyAssumption
      <3>4. \A i \in 1 .. 7 : got[i] = Reads(m, i)
        BY <2>1, <2>2, <3>1
      <3> HIDE DEF m
      <3>5. TellsSupply(l, m)
        BY <3>3, <3>4, LineTells
      <3> QED
        BY <3>5 DEF m
    <2> HIDE DEF l
    <2>5. /\ page' \in Seq(BatLines) /\ Len(page') = Len(page) + 1
          /\ page'[Len(page) + 1] = l /\ \A j \in 1 .. Len(page) : page'[j] = page[j]
      BY <1>6, <1>7, <2>1, <2>3
    <2>6. \A j \in 1 .. Len(page') : list[j] \in present => TellsSupply(page'[j], machine[list[j]])
      <3>1. \A j \in 1 .. Len(page) + 1 : j \in 1 .. Len(page) \/ j = Len(page) + 1
        BY <1>7
      <3> QED
        BY <1>6, <2>2, <2>4, <2>5, <3>1
    <2>7. Len(page') <= Len(list)
      BY <1>7, <1>8, <2>2, <2>5
    <2> QED
      BY <1>1, <1>6, <2>1, <2>5, <2>6, <2>7 DEF NodesTold
  <1> QED
    BY <1>9, <1>10, <1>11, <1>12

\* The list is freed; the batteries of a phone and of a Mac.
LEMMA OtherBatteries ==
  ASSUME IInv, BatteryData,
         \/ FreeBatteries \/ AndroidBattery \/ AndroidLeave
         \/ CopyPowerInfo \/ CopyPowerList \/ DescribePower \/ ReleasePower
  PROVE  BatteryData'
  <1> USE DEF Goto, BatteryLabels
  <1>1. CASE BatReturn
    BY <1>1 DEF BatReturn, BatteryData, BatteryIdle
  <1>2. CASE ~BatReturn /\ AndroidBattery
    <2>1. /\ pc = "battery" /\ os = "android" /\ pc' = "bat_shown" /\ os' = os
          /\ UNCHANGED <<present, todo, entry, list, got, lost>>
      BY <1>2 DEF AndroidBattery
    <2>2. PICK m \in AndroidFiles :
            /\ machine' = m
            /\ page' = Append(page, Metric({}, {ReadOr(ReadUint8(m.capacity), 0)},
                                              m.status, ReadOr(m.health, "Unknown")))
      BY <1>2 DEF AndroidBattery
    <2>3. page = <<>> /\ BatteryIdle
      BY <2>1 DEF BatteryData
    <2>4. page'[1].text.status = ReadOr(machine'.status, "Unknown")
      BY <2>2, <2>3 DEF Metric
    <2> QED
      BY <2>1, <2>3, <2>4 DEF BatteryData, BatteryIdle
  <1>3. CASE ~BatReturn /\ (CopyPowerInfo \/ CopyPowerList)
    <2>1. /\ pc \in {"battery", "bat_list"} /\ pc' \in {"bat_list", "bat_describe", "bat_release"}
          /\ os = "macos" /\ os' = os /\ UNCHANGED <<page, batVars>>
      BY <1>3 DEF CopyPowerInfo, CopyPowerList, IInv, HeldBattery
    <2>2. page = <<>> /\ (present = {} /\ todo = {} /\ list = <<>> /\ got = NothingGot /\ lost = {})
      BY <2>1 DEF BatteryData
    <2> QED
      BY <2>1, <2>2 DEF BatteryData, batVars
  <1>4. CASE DescribePower
    <2>1. /\ pc = "bat_describe" /\ os = "macos" /\ os' = os
          /\ UNCHANGED <<present, todo, entry, list, got, lost>>
          /\ \/ /\ pc' = "bat_shown"
                /\ \E d \in PowerSources : machine' = d /\ page' = Append(page, MacLine(d))
             \/ pc' = "bat_release" /\ UNCHANGED <<page, machine>>
      BY <1>4 DEF DescribePower, IInv, HeldBattery, MacLine
    <2>2. page = <<>> /\ (present = {} /\ todo = {} /\ list = <<>> /\ got = NothingGot /\ lost = {})
      BY <2>1 DEF BatteryData
    <2>3. \A d : Append(<<>>, MacLine(d))[1] = MacLine(d)
      OBVIOUS
    <2>4. pc' = "bat_shown" => machine' \in PowerSources /\ page'[1] = MacLine(machine')
      BY <2>1, <2>2, <2>3
    <2> QED
      BY <2>1, <2>2, <2>4 DEF BatteryData
  <1> QED
    BY <1>1, <1>2, <1>3, <1>4 DEF FreeBatteries, AndroidLeave, ReleasePower

\* A step of fetch_battery_info keeps what is known of the batteries.
LEMMA BatteryDataKeeps ==
  ASSUME IInv, BatteryData, Battery
  PROVE  BatteryData'
  <1>1. CASE OpenSupplies \/ AddElement
    BY <1>1, ListBegins
  <1>2. CASE NextSupply \/ CheckType \/ CheckScope \/ EndOfSupplies
    BY <1>2, SuppliesFound, OnSuppliesGives
  <1>3. CASE NextNode \/ ReadMetric \/ PrintBattery \/ AllPrinted
    BY <1>3, NodesAreRead, OnSuppliesGives
  <1>4. CASE \E s \in present : SupplyGoes(s)
    BY <1>4, SupplyIsGone
  <1>5. CASE \/ FreeBatteries \/ AndroidBattery \/ AndroidLeave
             \/ CopyPowerInfo \/ CopyPowerList \/ DescribePower \/ ReleasePower
    BY <1>5, OtherBatteries
  <1> QED
    BY <1>1, <1>2, <1>3, <1>4, <1>5, Zenon DEF Battery
-----------------------------------------------------------------------------
(* BatteriesAreTrue                                                        *)

\* There are as many lines that tell of a supply as there are steady ones with
\* its files.
LEMMA SameAreShown ==
  ASSUME IInv, BatteryData, pc = "bat_shown", os = "linux",
         NEW s \in Steady, IsSystemBattery(s)
  PROVE  Cardinality({j \in DOMAIN page : TellsSupply(page[j], machine[s])})
           >= Cardinality({t \in Steady : machine[t] = machine[s]})
  <1> DEFINE same == {t \in Steady : machine[t] = machine[s]}
             shown == {j \in DOMAIN page : TellsSupply(page[j], machine[s])}
             at == [t \in same |-> CHOOSE j \in DOMAIN page : list[j] = t]
  <1>1. SuppliesSorted /\ NodesTold /\ SuppliesApart
    BY OnSuppliesMeans DEF OnSupplies, BatteryLabels
  <1>2. page \in Seq(BatLines) /\ Len(page) = Len(list) /\ Len(page) \in Nat
    BY <1>1 DEF NodesTold
  <1>3. DOMAIN page = 1 .. Len(page) /\ DOMAIN list = DOMAIN page
    BY <1>2 DEF IInv, ListTyped
  <1>4. \A t \in same : \E j \in DOMAIN page : list[j] = t
    <2>1. SUFFICES ASSUME NEW t \in same PROVE \E j \in DOMAIN page : list[j] = t
      OBVIOUS
    <2>2. t \in Steady /\ IsSystemBattery(t)
      BY DEF IsSystemBattery
    <2>3. t \in todo \cup Range(list) /\ todo \cap present = {} /\ t \in present
      BY <1>1, <2>2 DEF SuppliesSorted, SuppliesApart, InHand, Steady
    <2>4. t \in Range(list)
      BY <2>3
    <2> QED
      BY <1>3, <2>4 DEF Range
  <1>5. \A t \in same : at[t] \in DOMAIN page /\ list[at[t]] = t
    BY <1>4
  <1>6. \A t \in same : at[t] \in shown
    <2>1. SUFFICES ASSUME NEW t \in same PROVE TellsSupply(page[at[t]], machine[s])
      BY <1>5
    <2>2. machine[t] = machine[s] /\ t \in present
      BY DEF Steady
    <2>3. at[t] \in 1 .. Len(page) /\ list[at[t]] = t
      BY <1>3, <1>5
    <2> HIDE DEF at
    <2>4. TellsSupply(page[at[t]], machine[t])
      BY <1>1, <2>2, <2>3 DEF NodesTold
    <2> QED
      BY <2>2, <2>4
  <1>7. at \in Injection(same, shown)
    <2>1. at \in [same -> shown]
      BY <1>6
    <2>2. IsInjective(at)
      BY <1>5 DEF IsInjective
    <2> QED
      BY <2>1, <2>2 DEF Injection
  <1>8. IsFiniteSet(shown)
    <2>1. IsFiniteSet(DOMAIN page)
      BY <1>2, <1>3, FS_Interval
    <2>2. shown \in SUBSET DOMAIN page
      OBVIOUS
    <2> HIDE DEF shown
    <2> QED
      BY <2>1, <2>2, FS_Subset
  <1> HIDE DEF same, shown, at
  <1>9. Cardinality(same) <= Cardinality(shown)
    BY <1>7, <1>8, FS_Injection
  <1>10. Cardinality(same) \in Nat /\ Cardinality(shown) \in Nat
    BY <1>7, <1>8, FS_Injection, FS_CardinalityType
  <1>11. Cardinality(shown) >= Cardinality(same)
    BY <1>9, <1>10
  <1> QED
    BY <1>11 DEF shown, same

\* There are no more lines than there are supplies that may have been taken for
\* batteries of the system.
LEMMA NoMoreAreShown ==
  ASSUME IInv, BatteryData, pc = "bat_shown", os = "linux"
  PROVE  Len(page) <= Cardinality({s \in DOMAIN machine : s \in Steady => IsSystemBattery(s)})
  <1> DEFINE T == {s \in DOMAIN machine : s \in Steady => IsSystemBattery(s)}
  <1>1. SuppliesSorted /\ NodesTold /\ SuppliesApart /\ machine \in Machines
    BY OnSuppliesMeans DEF OnSupplies, BatteryLabels
  <1>2. Len(page) = Len(list) /\ Len(list) \in Nat /\ DOMAIN list = 1 .. Len(list)
        /\ list \in [1 .. Len(list) -> Supplies]
    BY <1>1 DEF NodesTold, IInv, ListTyped
  <1>3. IsFiniteSet(T)
    <2>1. IsFiniteSet(DOMAIN machine) /\ T \in SUBSET DOMAIN machine
      BY <1>1, SupplyAssumption
    <2> HIDE DEF T
    <2> QED
      BY <2>1, FS_Subset
  <1>4. \A j \in 1 .. Len(list) : list[j] \in T
    <2>1. SUFFICES ASSUME NEW j \in 1 .. Len(list) PROVE list[j] \in T
      OBVIOUS
    <2>2. list[j] \in Range(list)
      BY <1>2 DEF Range
    <2> QED
      BY <1>1, <2>2 DEF SuppliesApart, SuppliesSorted, Steady
  <1> HIDE DEF T
  <1>5. list \in Injection(1 .. Len(list), T)
    <2>1. list \in [1 .. Len(list) -> T]
      BY <1>2, <1>4
    <2> QED
      BY <1>1, <2>1 DEF SuppliesApart, Injection
  <1>6. Cardinality(1 .. Len(list)) <= Cardinality(T)
    BY <1>3, <1>5, FS_Injection
  <1>7. Cardinality(1 .. Len(list)) = Len(list)
    <2>1. \A n \in Int : Cardinality(1 .. n) = IF 1 > n THEN 0 ELSE n - 1 + 1
      BY FS_Interval
    <2> QED
      BY <1>2, <2>1
  <1>8. Len(page) <= Cardinality(T)
    BY <1>2, <1>6, <1>7
  <1> QED
    BY <1>8 DEF T

\* The line of a power source.
LEMMA PowerIsTold ==
  ASSUME NEW d \in PowerSources, NEW l, l = MacLine(d).text
  PROVE  /\ d.max > 0 /\ d.cur >= 0 =>
              /\ l.capacity * d.max <= 100 * d.cur
              /\ (l.capacity + 1) * d.max >= 100 * Min({d.cur, d.max})
         /\ d.max > 0 => (l.capacity = 100 <=> d.cur >= d.max)
         /\ l.status \in {"Full", "Not Charging"} => d.ac
         /\ l.status = "Discharging" => ~d.ac /\ ~d.charging
         /\ d.charging /\ l.capacity < 100 /\ ~d.charged => l.status = "Charging"
  <1> DEFINE pct == PowerPercent(d.cur, d.max)
  <1>1. \A v, o : ReadOr({v}, o) = v
    BY DEF ReadOr
  <1>2. l.capacity = pct /\ l.status = PowerStatus(d, pct)
    BY <1>1 DEF MacLine, Metric
  <1>3. d.cur \in Int /\ d.max \in Int /\ d.ac \in BOOLEAN /\ d.charging \in BOOLEAN
        /\ d.charged \in BOOLEAN
    BY PowerAssumption
  <1>4. /\ d.max <= 0 \/ d.cur < 0 => pct = 0
        /\ d.max > 0 /\ d.cur >= 0 /\ d.cur > d.max => pct = 100
        /\ d.max > 0 /\ d.cur >= 0 /\ d.cur <= d.max => pct = CutPercent(d.cur, d.max)
    BY <1>3 DEF PowerPercent
  <1> HIDE DEF pct
  <1>5. d.max > 0 /\ d.cur >= 0 =>
          Min({d.cur, d.max}) \in {d.cur, d.max} /\ Min({d.cur, d.max}) <= d.cur
            /\ Min({d.cur, d.max}) <= d.max
    <2>1. SUFFICES ASSUME d.max > 0, d.cur >= 0
                   PROVE  Min({d.cur, d.max}) \in {d.cur, d.max} /\ Min({d.cur, d.max}) <= d.cur
                            /\ Min({d.cur, d.max}) <= d.max
      OBVIOUS
    <2>2. {d.cur, d.max} \subseteq Nat /\ {d.cur, d.max} # {}
      BY <1>3, <2>1
    <2>3. Min({d.cur, d.max}) \in {d.cur, d.max} /\ \A y \in {d.cur, d.max} : Min({d.cur, d.max}) <= y
      BY <2>2, MinIsLeast
    <2> QED
      BY <2>3
  <1>6. d.max > 0 /\ d.cur >= 0 =>
          /\ pct \in 0 .. 100
          /\ pct * d.max <= 100 * d.cur
          /\ (pct + 1) * d.max >= 100 * Min({d.cur, d.max})
          /\ pct = 100 <=> d.cur >= d.max
    <2>1. SUFFICES ASSUME d.max > 0, d.cur >= 0
                   PROVE  /\ pct \in 0 .. 100
                          /\ pct * d.max <= 100 * d.cur
                          /\ (pct + 1) * d.max >= 100 * Min({d.cur, d.max})
                          /\ pct = 100 <=> d.cur >= d.max
      OBVIOUS
    <2> DEFINE least == Min({d.cur, d.max})
    <2>2. least \in Int /\ least <= d.cur /\ least <= d.max /\ (least = d.cur \/ least = d.max)
      BY <1>3, <1>5, <2>1
    <2> HIDE DEF least
    <2>3. CASE d.cur > d.max
      <3>1. pct = 100
        BY <1>4, <2>1, <2>3
      <3>2. 100 * d.max <= 100 * d.cur /\ (100 + 1) * d.max >= 100 * least
        BY <1>3, <2>1, <2>2, <2>3
      <3> QED
        BY <1>3, <2>3, <3>1, <3>2 DEF least
    <2>4. CASE d.cur <= d.max
      <3>1. pct = CutPercent(d.cur, d.max)
        BY <1>4, <2>1, <2>4
      <3>2. d.cur \in Nat /\ d.max \in Nat \ {0}
        BY <1>3, <2>1
      <3>3. /\ pct \in 0 .. 100 /\ pct * d.max <= 100 * d.cur
            /\ 100 * d.cur <= (pct + 1) * d.max
            /\ pct = 100 <=> d.cur = d.max
        BY <2>4, <3>1, <3>2, PercentIsCut
      <3>4. (pct + 1) * d.max \in Int /\ 100 * least <= 100 * d.cur
        BY <1>3, <2>2, <3>3
      <3>5. (pct + 1) * d.max >= 100 * least
        BY <1>3, <2>2, <3>3, <3>4
      <3> QED
        BY <1>3, <2>4, <3>3, <3>5 DEF least
    <2> QED
      BY <1>3, <2>3, <2>4
  <1>7. pct \in Int
    BY <1>3, <1>4, <1>6
  <1>8. d.max > 0 /\ d.cur < 0 => pct # 100 /\ ~ (d.cur >= d.max)
    BY <1>3, <1>4
  <1>9. /\ d.charging /\ pct < 100 /\ ~d.charged => l.status = "Charging"
        /\ l.status \in {"Full", "Not Charging"} => d.ac
        /\ l.status = "Discharging" => ~d.ac /\ ~d.charging
    <2> DEFINE full == d.charged \/ pct >= 100
    <2>1. l.status = PowerStatus(d, pct)
      BY <1>2
    <2>2. full /\ d.ac => l.status = "Full"
      BY <2>1 DEF PowerStatus
    <2>3. ~ (full /\ d.ac) /\ d.charging => l.status = "Charging"
      BY <2>1 DEF PowerStatus
    <2>4. ~full /\ ~d.charging /\ d.ac => l.status = "Not Charging"
      BY <2>1 DEF PowerStatus
    <2>5. ~d.charging /\ ~d.ac => l.status = "Discharging"
      BY <2>1 DEF PowerStatus
    <2>6. d.charging /\ pct < 100 /\ ~d.charged => ~full
      BY <1>7
    <2> HIDE DEF full
    <2>7. \/ full /\ d.ac /\ l.status = "Full"
          \/ ~ (full /\ d.ac) /\ d.charging /\ l.status = "Charging"
          \/ ~full /\ ~d.charging /\ d.ac /\ l.status = "Not Charging"
          \/ ~d.charging /\ ~d.ac /\ l.status = "Discharging"
      BY <2>2, <2>3, <2>4, <2>5
    <2>8. d.charging /\ pct < 100 /\ ~d.charged => l.status = "Charging"
      BY <2>3, <2>6
    <2>9. l.status \in {"Full", "Not Charging"} => d.ac
      BY <2>7
    <2>10. l.status = "Discharging" => ~d.ac /\ ~d.charging
      BY <2>7
    <2> QED
      BY <2>8, <2>9, <2>10
  <1>10. d.max > 0 /\ d.cur >= 0 =>
           /\ l.capacity * d.max <= 100 * d.cur
           /\ (l.capacity + 1) * d.max >= 100 * Min({d.cur, d.max})
    BY <1>2, <1>6
  <1>11. d.max > 0 => (pct = 100 <=> d.cur >= d.max)
    BY <1>3, <1>6, <1>8
  <1>12. d.max > 0 => (l.capacity = 100 <=> d.cur >= d.max)
    BY <1>2, <1>11
  <1>13. d.charging /\ l.capacity < 100 /\ ~d.charged => l.status = "Charging"
    BY <1>2, <1>9
  <1> QED
    BY <1>9, <1>10, <1>12, <1>13

\* What is printed of the batteries is what the machine says.
LEMMA BatteriesAreTold ==
  ASSUME IInv, BatteryData
  PROVE  BatteriesAreTrue
  <1> SUFFICES ASSUME pc = "bat_shown"
               PROVE  BatteriesAreTrue
    BY DEF BatteriesAreTrue
  <1>1. CASE os = "linux"
    BY <1>1, SameAreShown, NoMoreAreShown DEF BatteriesAreTrue
  <1>2. CASE os = "macos"
    <2>1. machine \in PowerSources /\ page[1] = MacLine(machine)
      BY <1>2 DEF BatteryData
    <2>2. page[1].text = MacLine(machine).text
      BY <2>1
    <2> QED
      BY <1>2, <2>1, <2>2, PowerIsTold DEF BatteriesAreTrue
  <1>3. CASE os = "android"
    <2>1. page[1].text.status = ReadOr(machine.status, "Unknown")
      BY <1>3 DEF BatteryData
    <2>2. machine.status # {} => ReadOr(machine.status, "Unknown") \in machine.status
      BY DEF ReadOr
    <2> QED
      BY <1>3, <2>1, <2>2 DEF BatteriesAreTrue
  <1> QED
    BY <1>1, <1>2, <1>3 DEF IInv, Rests, Platform

\* The type invariant of the batteries.
LEMMA BatteriesTyped ==
  ASSUME IInv, BatteryData
  PROVE  BatTypeOK
  <1>1. CASE os = "linux" /\ pc \in BatteryLabels
    <2>1. SuppliesApart /\ NodesTold
      BY <1>1 DEF BatteryData
    <2> QED
      BY <1>1, <2>1 DEF SuppliesApart, NodesTold, BatTypeOK, IInv, HeldBattery
  <1>2. CASE ~ (os = "linux" /\ pc \in BatteryLabels)
    <2>1. present = {} /\ todo = {} /\ list = <<>> /\ got = <<>> /\ lost = {}
      BY <1>2 DEF BatteryData, BatteryIdle, NothingGot
    <2>2. Len(got) <= Len(Metrics)
      BY <2>1 DEF Metrics
    <2>3. Range(list) = {} /\ IsInjective(list)
      BY <2>1, EmptyList
    <2> QED
      BY <1>2, <2>1, <2>2, <2>3 DEF BatTypeOK, IInv, HeldBattery, BatteryLabels
  <1> QED
    BY <1>1, <1>2
-----------------------------------------------------------------------------
(* AndroidHardware.tla                                                     *)

\* The first number above 0 that some file tells is the policy's clock, and there
\* is no other; without one it is 0.
LEMMA PolicyTells ==
  ASSUME NEW files, NumberFiles(files)
  PROVE  /\ PolicyMaxFreq(files) \in 0 .. Uint32Max
         /\ \A n \in 1 .. Uint32Max : TellsFirst(files, n) <=> PolicyMaxFreq(files) = n
  <1> DEFINE Clocks == 1 .. Uint32Max
             F(j)   == ReadUint32(files[j])
             good   == {j \in DOMAIN files : F(j) \ {0} # {}}
             p      == PolicyMaxFreq(files)
  <1>1. Uint32Max \in Nat
    BY WidthAssumption
  <1>2. DOMAIN files = 1 .. Len(files) /\ Len(files) \in Nat
        /\ \A j \in DOMAIN files : files[j] \subseteq Int /\ \A m, n \in files[j] : m = n
    BY DEF NumberFiles
  <1>3. \A j \in DOMAIN files : \A n \in files[j] : n \in F(j) \ {0} <=> n \in Clocks
    BY <1>1, <1>2 DEF ReadUint32, Fitting
  <1>4. \A j : F(j) \subseteq files[j]
    BY DEF ReadUint32, Fitting
  <1>5. p = IF good = {} THEN 0 ELSE ReadOr(F(Min(good)), 0)
    BY DEF PolicyMaxFreq
  <1>6. \A n \in Clocks : TellsFirst(files, n) <=>
          \E j \in DOMAIN files : n \in files[j] /\ \A k \in 1 .. j - 1 : files[k] \cap Clocks = {}
    BY DEF TellsFirst
  <1> HIDE DEF F, p
  <1>7. \A j \in DOMAIN files : j \in good <=> files[j] \cap Clocks # {}
    BY <1>3, <1>4
  <1>8. 0 \notin Clocks /\ 0 \in 0 .. Uint32Max /\ Clocks \subseteq 0 .. Uint32Max
    BY <1>1
  <1>9. CASE good = {}
    <2>1. p = 0
      BY <1>5, <1>9
    <2>2. \A j \in DOMAIN files : files[j] \cap Clocks = {}
      BY <1>7, <1>9
    <2> HIDE DEF Clocks, good
    <2>3. p \in 0 .. Uint32Max /\ \A n \in Clocks : TellsFirst(files, n) <=> p = n
      BY <1>6, <1>8, <2>1, <2>2
    <2> QED
      BY <2>3 DEF p, Clocks
  <1>10. CASE good # {}
    <2> DEFINE m == Min(good)
    <2>1. good \subseteq Nat
      BY <1>2
    <2>2. good \subseteq DOMAIN files
      OBVIOUS
    <2> HIDE DEF good
    <2>3. m \in good /\ \A y \in good : m <= y
      BY <1>10, <2>1, MinIsLeast
    <2> HIDE DEF m
    <2>4. m \in DOMAIN files
      BY <2>2, <2>3
    <2>5. PICK v \in files[m] : v \in Clocks
      BY <1>7, <2>3, <2>4
    <2>6. F(m) = {v}
      <3>1. v \in F(m)
        BY <1>3, <2>4, <2>5
      <3>2. \A w \in F(m) : w = v
        BY <1>2, <1>4, <2>4, <2>5
      <3> QED
        BY <3>1, <3>2
    <2>7. p = v
      <3>1. p = ReadOr(F(m), 0)
        BY <1>5, <1>10 DEF m
      <3>2. ReadOr({v}, 0) = v
        BY DEF ReadOr
      <3> QED
        BY <2>6, <3>1, <3>2
    <2>8. \A k \in 1 .. m - 1 : files[k] \cap Clocks = {}
      <3>1. SUFFICES ASSUME NEW k \in 1 .. m - 1 PROVE files[k] \cap Clocks = {}
        OBVIOUS
      <3>2. m \in 1 .. Len(files) /\ k \in 1 .. Len(files) /\ ~ (m <= k)
        BY <1>2, <2>4
      <3>3. k \notin good
        BY <2>3, <3>2
      <3> QED
        BY <1>2, <1>7, <3>2, <3>3
    <2> HIDE DEF Clocks
    <2>9. TellsFirst(files, v)
      BY <1>6, <2>4, <2>5, <2>8
    <2>10. \A n \in Clocks : TellsFirst(files, n) => n = v
      <3>1. SUFFICES ASSUME NEW n \in Clocks, TellsFirst(files, n) PROVE n = v
        OBVIOUS
      <3>2. PICK j \in DOMAIN files : n \in files[j] /\ \A k \in 1 .. j - 1 : files[k] \cap Clocks = {}
        BY <1>6, <3>1
      <3>3. j \in good
        BY <1>7, <3>2
      <3>4. m <= j /\ m \in 1 .. Len(files) /\ j \in 1 .. Len(files)
        BY <1>2, <2>3, <2>4, <3>3
      <3>5. m \notin 1 .. j - 1
        BY <2>5, <3>2
      <3>6. m = j
        BY <1>2, <3>4, <3>5
      <3> QED
        BY <1>2, <2>4, <2>5, <3>2, <3>6
    <2>11. p \in 0 .. Uint32Max /\ \A n \in Clocks : TellsFirst(files, n) <=> p = n
      BY <1>8, <2>5, <2>7, <2>9, <2>10
    <2> QED
      BY <2>11 DEF p, Clocks
  <1> QED
    BY <1>9, <1>10

\* The greatest of a set, once it is known.
LEMMA MaxIs ==
  ASSUME NEW N \in Nat, NEW T, T \subseteq 0 .. N, NEW x \in T, \A y \in T : y <= x
  PROVE  Max(T) = x
  <1> DEFINE a == Max(T)
  <1>1. T # {}
    OBVIOUS
  <1>2. a \in T /\ \A y \in T : y <= a
    BY <1>1, MaxIsGreatest
  <1> HIDE DEF a
  <1>3. x \in 0 .. N /\ a \in 0 .. N /\ x <= a /\ a <= x
    BY <1>2
  <1>4. a = x
    BY <1>3
  <1> QED
    BY <1>4 DEF a

\* The greatest of a set with one number more.
LEMMA MaxOfMore ==
  ASSUME NEW N \in Nat, NEW T, T \subseteq 0 .. N, T # {}, NEW x \in 0 .. N
  PROVE  /\ Max(T) \in 0 .. N
         /\ Max(T \cup {x}) = Max({Max(T), x})
  <1>1. Max(T) \in T /\ \A y \in T : y <= Max(T)
    BY MaxIsGreatest
  <1>2. Max(T) \in 0 .. N
    BY <1>1
  <1> DEFINE a == Max(T)
  <1> HIDE DEF a
  <1>3. a \in 0 .. N /\ a \in T /\ \A y \in T : y <= a
    BY <1>1, <1>2 DEF a
  <1>4. CASE x <= a
    <2>1. \A y \in T \cup {x} : y <= a
      BY <1>3, <1>4
    <2>2. Max(T \cup {x}) = a
      BY <1>3, <2>1, MaxIs
    <2>3. Max({a, x}) = a
      BY <1>3, <1>4, MaxIs
    <2> QED
      BY <1>2, <2>2, <2>3 DEF a
  <1>5. CASE a <= x
    <2>1. \A y \in T \cup {x} : y <= x
      BY <1>3, <1>5
    <2>2. Max(T \cup {x}) = x
      BY <1>3, <2>1, MaxIs
    <2>3. Max({a, x}) = x
      BY <1>3, <1>5, MaxIs
    <2> QED
      BY <1>2, <2>2, <2>3 DEF a
  <1> QED
    BY <1>3, <1>4, <1>5

\* The variables of the processor and the card between calls; what the policies
\* that have been read tell; and the name that is kept.
PhoneTyped == /\ maxFreq \in 0 .. Uint32Max
              /\ vkCount \in 0 .. VkMax /\ DOMAIN vkDevices = 1 .. VkMax
PhoneIdle == /\ phone = NoPhone /\ dirs = {} /\ maxFreq = 0
             /\ vkCount = 0 /\ vkDevices = NoVk /\ gpuName = NoName

Told(ds) == {n \in 1 .. Uint32Max : \E d \in ds : d.policy /\ TellsFirst(d.files, n)}
ToldByZero == {n \in 1 .. Uint32Max : TellsFirst(phone.cpu0, n)}

ClockSoFar ==
  /\ pc \in {"policy_next", "policy_cpu0", "phone_cpu"} => phone \in Phones
  /\ pc \in {"policy_next", "policy_cpu0"} =>
       /\ dirs \subseteq UNION phone.policies
       /\ maxFreq = Max({0} \cup Told((UNION phone.policies) \ dirs))
  /\ pc = "policy_cpu0" => dirs = {}
  /\ pc = "phone_cpu" =>
       maxFreq = Max({0} \cup (IF Told(UNION phone.policies) = {} THEN ToldByZero
                                                            ELSE Told(UNION phone.policies)))

CardKept ==
  /\ pc \in {"vk_symbols", "vk_create", "vk_count", "vk_list", "vk_name"} => gpuName = NoName
  /\ pc = "vk_name" => vkDevices[1] # NoDevice
  /\ gpuName # NoName => gpuName \in Range(vkDevices) \cup Range(VendorNames)

PhoneData ==
  /\ PhoneTyped
  /\ pc \notin PhoneLabels => PhoneIdle
  /\ ClockSoFar /\ CardKept

\* Neither main nor another part changes what is known of a phone.
LEMMA PhoneDataRests ==
  ASSUME PhoneData, UNCHANGED phoneVars,
         pc' = pc \/ {pc, pc'} \cap PhoneLabels = {}
  PROVE  PhoneData'
  <1>1. UNCHANGED <<phone, dirs, maxFreq, vkCount, vkDevices, gpuName>>
    BY DEF phoneVars
  <1>2. PhoneTyped' /\ (PhoneIdle => PhoneIdle')
    BY <1>1 DEF PhoneData, PhoneTyped, PhoneIdle
  <1>3. \A ds : Told(ds)' = Told(ds)
    BY DEF Told, TellsFirst
  <1>4. ToldByZero' = ToldByZero
    BY <1>1 DEF ToldByZero, TellsFirst
  <1>5. ClockSoFar' /\ CardKept'
    <2>1. CASE pc' = pc
      BY <1>1, <1>3, <1>4, <2>1 DEF PhoneData, ClockSoFar, CardKept
    <2>2. CASE {pc, pc'} \cap PhoneLabels = {}
      BY <1>1, <2>2 DEF PhoneData, ClockSoFar, CardKept, PhoneLabels
    <2> QED
      BY <2>1, <2>2
  <1> QED
    BY <1>1, <1>2, <1>5 DEF PhoneData

\* The clocks that are told have the width of the variable that keeps them.
LEMMA ToldTyped ==
  ASSUME NEW ds
  PROVE  {0} \cup Told(ds) \subseteq 0 .. Uint32Max
  BY WidthAssumption DEF Told

\* With one policy more.
LEMMA ToldMore ==
  ASSUME NEW p \in Phones, NEW ds, ds \subseteq UNION p.policies, NEW d \in UNION p.policies
  PROVE  {0} \cup Told(ds \cup {d}) =
           ({0} \cup Told(ds)) \cup (IF d.policy THEN {PolicyMaxFreq(d.files)} ELSE {})
  <1>1. d.policy \in BOOLEAN /\ NumberFiles(d.files)
    BY PhoneAssumption
  <1> DEFINE c == PolicyMaxFreq(d.files)
             T == Told(ds)
             one == Told({d})
  <1>2. c \in 0 .. Uint32Max /\ \A n \in 1 .. Uint32Max : TellsFirst(d.files, n) <=> c = n
    BY <1>1, PolicyTells
  <1> HIDE DEF c
  <1>3. Told(ds \cup {d}) = T \cup one
    BY DEF Told
  <1>4. CASE d.policy
    <2>1. one = {n \in 1 .. Uint32Max : c = n}
      BY <1>2, <1>4 DEF Told
    <2> HIDE DEF one, T
    <2>2. {0} \cup one = {0} \cup {c}
      BY <1>2, <2>1, WidthAssumption
    <2>3. {0} \cup (T \cup one) = ({0} \cup T) \cup {c}
      BY <2>2
    <2> QED
      BY <1>3, <1>4, <2>3 DEF c, T
  <1>5. CASE ~d.policy
    <2>1. one = {}
      BY <1>5 DEF Told
    <2> HIDE DEF one
    <2> QED
      BY <1>3, <1>5, <2>1
  <1> QED
    BY <1>1, <1>4, <1>5

\* A policy more, or none: the clock so far is the highest of those that were told.
LEMMA PolicyIsRead ==
  ASSUME PhoneData, NextPolicy
  PROVE  PhoneTyped' /\ ClockSoFar'
  <1>1. PICK d \in dirs : /\ dirs' = dirs \ {d}
                          /\ maxFreq' = IF d.policy THEN Max({maxFreq, PolicyMaxFreq(d.files)})
                                                   ELSE maxFreq
    BY DEF NextPolicy
  <1>2. /\ pc = "policy_next" /\ pc' = pc /\ phone' = phone
        /\ UNCHANGED <<vkCount, vkDevices, gpuName>>
    BY DEF NextPolicy
  <1>3. /\ phone \in Phones /\ dirs \subseteq UNION phone.policies
        /\ maxFreq = Max({0} \cup Told((UNION phone.policies) \ dirs))
    BY <1>2 DEF PhoneData, ClockSoFar
  <1> DEFINE all == UNION phone.policies
             T == {0} \cup Told(all \ dirs)
             c == PolicyMaxFreq(d.files)
             next == {0} \cup Told(all \ dirs')
  <1>4. d \in all /\ d.policy \in BOOLEAN /\ NumberFiles(d.files)
    BY <1>3, PhoneAssumption
  <1>5. c \in 0 .. Uint32Max
    BY <1>4, PolicyTells
  <1>6. T \subseteq 0 .. Uint32Max /\ T # {} /\ Uint32Max \in Nat
    BY ToldTyped, WidthAssumption
  <1>7. next = T \cup (IF d.policy THEN {c} ELSE {})
    <2>1. all \ dirs' = (all \ dirs) \cup {d}
      BY <1>1, <1>4
    <2>2. {0} \cup Told((all \ dirs) \cup {d}) = T \cup (IF d.policy THEN {c} ELSE {})
      BY <1>3, <1>4, ToldMore
    <2> QED
      BY <2>1, <2>2
  <1> HIDE DEF T, c
  <1>8. Max(T) \in 0 .. Uint32Max /\ Max(T \cup {c}) = Max({Max(T), c})
        /\ Max(T \cup {c}) \in 0 .. Uint32Max
    <2>1. T \cup {c} \subseteq 0 .. Uint32Max /\ T \cup {c} # {} /\ c \in 0 .. Uint32Max
      BY <1>5, <1>6
    <2> QED
      BY <1>5, <1>6, <2>1, MaxOfMore
  <1>9. maxFreq = Max(T)
    BY <1>3 DEF T
  <1>10. maxFreq' = Max(next) /\ maxFreq' \in 0 .. Uint32Max
    <2>1. CASE d.policy
      <3>1. next = T \cup {c} /\ maxFreq' = Max({Max(T), c})
        BY <1>1, <1>7, <1>9, <2>1 DEF c
      <3> QED
        BY <1>8, <3>1
    <2>2. CASE ~d.policy
      <3>1. next = T \cup {} /\ maxFreq' = maxFreq
        BY <1>1, <1>7, <2>2
      <3>2. next = T
        BY <3>1
      <3> QED
        BY <1>8, <1>9, <3>1, <3>2
    <2> QED
      BY <1>4, <2>1, <2>2
  <1>11. maxFreq' = Max({0} \cup Told((UNION phone'.policies) \ dirs')) /\ dirs' \subseteq all
    BY <1>1, <1>2, <1>3, <1>10
  <1>12. \A ds : Told(ds)' = Told(ds)
    BY DEF Told, TellsFirst
  <1>13. ClockSoFar'
    BY <1>2, <1>3, <1>11, <1>12 DEF ClockSoFar
  <1> QED
    BY <1>2, <1>10, <1>13 DEF PhoneData, PhoneTyped

\* The list of the cards before any is listed.
LEMMA NoVkTyped == DOMAIN NoVk = 1 .. VkMax /\ 0 \in 0 .. VkMax /\ 0 \in 0 .. Uint32Max
  BY VkAssumption, WidthAssumption DEF NoVk

\* What a file of CPU 0 tells is asked when no policy has told a clock.
LEMMA ZeroIsRead ==
  ASSUME PhoneData, CpuZero
  PROVE  PhoneTyped' /\ ClockSoFar'
  <1>1. /\ pc = "policy_cpu0" /\ pc' = "phone_cpu"
        /\ maxFreq' = IF maxFreq = 0 THEN PolicyMaxFreq(phone.cpu0) ELSE maxFreq
        /\ UNCHANGED <<phone, dirs, vkCount, vkDevices, gpuName>>
    BY DEF CpuZero, Goto
  <1> DEFINE told == Told(UNION phone.policies)
             c == PolicyMaxFreq(phone.cpu0)
  <1>2. phone \in Phones /\ maxFreq = Max({0} \cup told)
    <2>1. dirs = {} /\ phone \in Phones /\ maxFreq = Max({0} \cup Told((UNION phone.policies) \ dirs))
      BY <1>1 DEF PhoneData, ClockSoFar
    <2>2. (UNION phone.policies) \ {} = UNION phone.policies
      OBVIOUS
    <2> QED
      BY <2>1, <2>2
  <1>3. {0} \cup told \subseteq 0 .. Uint32Max /\ told \subseteq 1 .. Uint32Max /\ Uint32Max \in Nat
    BY ToldTyped, WidthAssumption DEF Told
  <1>4. /\ c \in 0 .. Uint32Max
        /\ \A n \in 1 .. Uint32Max : TellsFirst(phone.cpu0, n) <=> c = n
    BY <1>2, PhoneAssumption, PolicyTells
  <1> HIDE DEF told, c
  <1>5. Max({0} \cup told) \in {0} \cup told /\ \A y \in {0} \cup told : y <= Max({0} \cup told)
    BY <1>3, MaxIsGreatest
  <1>6. maxFreq' \in 0 .. Uint32Max
    BY <1>1, <1>2, <1>3, <1>4, <1>5 DEF c
  <1>7. maxFreq' = Max({0} \cup (IF told = {} THEN ToldByZero ELSE told))
    <2>1. CASE told = {}
      <3>1. maxFreq = 0 /\ maxFreq' = c
        BY <1>1, <1>2, <1>5, <2>1 DEF c
      <3>2. {0} \cup ToldByZero = {0, c}
        <4>1. ToldByZero = {n \in 1 .. Uint32Max : c = n}
          BY <1>4 DEF ToldByZero
        <4> QED
          BY <1>3, <1>4, <4>1
      <3>3. \A y \in {0, c} : y <= c
        BY <1>3, <1>4
      <3>4. Max({0, c}) = c
        <4>1. {0, c} \subseteq 0 .. Uint32Max
          BY <1>3, <1>4
        <4> QED
          BY <1>3, <3>3, <4>1, MaxIs
      <3> QED
        BY <2>1, <3>1, <3>2, <3>4
    <2>2. CASE told # {}
      <3>1. PICK t \in told : TRUE
        BY <2>2
      <3>2. maxFreq # 0
        BY <1>2, <1>3, <1>5, <3>1
      <3> QED
        BY <1>1, <1>2, <2>2, <3>2
    <2> QED
      BY <2>1, <2>2
  <1>8. (\A ds : Told(ds)' = Told(ds)) /\ ToldByZero' = ToldByZero
    BY <1>1 DEF Told, ToldByZero, TellsFirst
  <1>9. ClockSoFar'
    <2>1. told' = told
      BY <1>1, <1>8 DEF told
    <2> QED
      BY <1>1, <1>2, <1>7, <1>8, <2>1 DEF ClockSoFar, told
  <1> QED
    BY <1>1, <1>6, <1>9 DEF PhoneData, PhoneTyped

\* A step of the android hardware keeps what is known of the phone.
LEMMA PhoneDataKeeps ==
  ASSUME PhoneData, Phone
  PROVE  PhoneData'
  <1> USE DEF Goto, PhoneLabels
  <1>1. pc \in PhoneLabels \cup {"cpu", "gpu"} /\ (pc' \in PhoneLabels \/ pc' = "returned")
    BY PhoneMoves
  <1>2. (\A ds : Told(ds)' = Told(ds)) /\ (phone' = phone => ToldByZero' = ToldByZero)
    BY DEF Told, ToldByZero, TellsFirst
  <1>3. CASE AndroidCpu
    <2>1. PICK p \in Phones :
            /\ phone' = p /\ dirs' = UNION p.policies
            /\ pc' \in {"policy_cpu0", "policy_next"} /\ (pc' = "policy_cpu0" => p.policies = {})
      BY <1>3 DEF AndroidCpu
    <2>2. PhoneIdle /\ UNCHANGED <<maxFreq, vkCount, vkDevices, gpuName>>
      BY <1>3 DEF AndroidCpu, PhoneData
    <2>3. maxFreq' = 0 /\ PhoneTyped'
      BY <2>2 DEF PhoneData, PhoneTyped, PhoneIdle
    <2>4. Told({}) = {} /\ (UNION phone'.policies) \ dirs' = {}
      BY <2>1 DEF Told
    <2>5. Max({0} \cup Told({})) = 0
      <3>1. {0} \cup Told({}) = {0} /\ {0} \subseteq 0 .. Uint32Max /\ Uint32Max \in Nat
        BY <2>4, WidthAssumption
      <3>2. Max({0}) = 0
        <4>1. \A y \in {0} : y <= 0
          OBVIOUS
        <4> QED
          BY <3>1, <4>1, MaxIs
      <3> QED
        BY <3>1, <3>2
    <2>6. ClockSoFar'
      <3>1. maxFreq' = Max({0} \cup Told((UNION phone'.policies) \ dirs'))
        BY <2>3, <2>4, <2>5
      <3>2. pc' = "policy_cpu0" => dirs' = {}
        BY <2>1
      <3> QED
        BY <1>2, <2>1, <3>1, <3>2 DEF ClockSoFar
    <2>7. CardKept'
      BY <2>1, <2>2 DEF CardKept, PhoneIdle
    <2> QED
      BY <2>1, <2>3, <2>6, <2>7 DEF PhoneData
  <1>4. CASE NextPolicy
    <2>1. PhoneTyped' /\ ClockSoFar'
      BY <1>4, PolicyIsRead
    <2>2. pc' = pc /\ pc = "policy_next" /\ UNCHANGED <<vkDevices, gpuName>>
      BY <1>4 DEF NextPolicy
    <2> QED
      BY <2>1, <2>2 DEF PhoneData, CardKept
  <1>5. CASE CpuZero
    <2>1. PhoneTyped' /\ ClockSoFar'
      BY <1>5, ZeroIsRead
    <2>2. pc' = "phone_cpu" /\ UNCHANGED <<vkDevices, gpuName>>
      BY <1>5 DEF CpuZero
    <2> QED
      BY <2>1, <2>2 DEF PhoneData, CardKept
  <1>6. CASE EndOfPolicies
    <2>1. pc = "policy_next" /\ pc' = "policy_cpu0" /\ dirs = {} /\ UNCHANGED phoneVars
      BY <1>6 DEF EndOfPolicies
    <2> QED
      BY <1>2, <2>1 DEF PhoneData, PhoneTyped, ClockSoFar, CardKept, phoneVars
  <1>7. CASE PrintPhoneCpu \/ OpenVulkan \/ VulkanSymbols \/ CreateInstance
             \/ DestroyInstance \/ CloseVulkan \/ PrintPhoneGpu
    <2>1. /\ UNCHANGED phoneVars /\ pc' \in PhoneLabels
          /\ pc' \in {"vk_symbols", "vk_create", "vk_count"} =>
               pc \in {"gpu", "vk_symbols", "vk_create"}
          /\ pc' \notin {"policy_next", "policy_cpu0", "phone_cpu", "vk_list", "vk_name"}
      BY <1>7 DEF PrintPhoneCpu, OpenVulkan, VulkanSymbols, CreateInstance, DestroyInstance,
                  CloseVulkan, PrintPhoneGpu
    <2>2. pc = "gpu" => gpuName = NoName
      BY DEF PhoneData, PhoneIdle
    <2> QED
      BY <2>1, <2>2 DEF PhoneData, PhoneTyped, ClockSoFar, CardKept, phoneVars
  <1>8. CASE CountDevices
    <2>1. /\ pc = "vk_count" /\ pc' \in {"vk_destroy", "vk_list"}
          /\ UNCHANGED <<maxFreq, vkDevices, gpuName>>
          /\ vkCount' = vkCount \/ \E ds \in VkDevices : vkCount' = Min({Len(ds), VkMax})
      BY <1>8 DEF CountDevices
    <2>2. \A ds \in VkDevices : Min({Len(ds), VkMax}) \in 0 .. VkMax
      <3>1. SUFFICES ASSUME NEW ds \in VkDevices PROVE Min({Len(ds), VkMax}) \in 0 .. VkMax
        OBVIOUS
      <3>2. {Len(ds), VkMax} \subseteq Nat /\ {Len(ds), VkMax} # {}
        BY DeviceAssumption, VkAssumption
      <3> DEFINE n == Min({Len(ds), VkMax})
      <3>3. n \in {Len(ds), VkMax} /\ \A y \in {Len(ds), VkMax} : n <= y
        BY <3>2, MinIsLeast
      <3> HIDE DEF n
      <3>4. n \in 0 .. VkMax
        BY <3>2, <3>3
      <3> QED
        BY <3>4 DEF n
    <2>3. vkCount' \in 0 .. VkMax
      BY <2>1, <2>2 DEF PhoneData, PhoneTyped
    <2> QED
      BY <2>1, <2>3 DEF PhoneData, PhoneTyped, ClockSoFar, CardKept
  <1>9. CASE ListDevices
    <2>1. /\ pc = "vk_list" /\ pc' \in {"vk_destroy", "vk_name"}
          /\ UNCHANGED <<maxFreq, gpuName>>
          /\ \/ UNCHANGED <<vkCount, vkDevices>> /\ pc' = "vk_destroy"
             \/ /\ \E ds \in VkDevices : Listing(ds)
                /\ pc' = "vk_name" => vkCount' # 0
      BY <1>9 DEF ListDevices
    <2>2. ASSUME NEW ds \in VkDevices, Listing(ds)
          PROVE  /\ vkCount' \in 0 .. VkMax /\ DOMAIN vkDevices' = 1 .. VkMax
                 /\ vkCount' # 0 => vkDevices'[1] # NoDevice
      <3>1. {Len(ds), vkCount} \subseteq Nat /\ {Len(ds), vkCount} # {} /\ ds \in Seq(STRING)
            /\ NoDevice \notin Range(ds) /\ vkCount \in 0 .. VkMax /\ VkMax \in Nat \ {0}
        BY DeviceAssumption, VkAssumption DEF PhoneData, PhoneTyped
      <3>2. vkCount' = Min({Len(ds), vkCount})
            /\ vkDevices' = [j \in 1 .. VkMax |-> IF j <= vkCount' THEN ds[j] ELSE NoDevice]
        BY <2>2 DEF Listing
      <3>3. vkCount' \in {Len(ds), vkCount} /\ vkCount' <= Len(ds) /\ vkCount' <= vkCount
        <4>1. vkCount' \in {Len(ds), vkCount} /\ \A y \in {Len(ds), vkCount} : vkCount' <= y
          BY <3>1, <3>2, MinIsLeast
        <4> QED
          BY <4>1
      <3>4. vkCount' \in 0 .. VkMax
        BY <3>1, <3>3
      <3>5. vkCount' # 0 => 1 <= vkCount' /\ 1 \in 1 .. Len(ds) /\ 1 \in 1 .. VkMax
        BY <3>1, <3>3
      <3>6. vkCount' # 0 => vkDevices'[1] = ds[1] /\ ds[1] \in Range(ds)
        BY <3>1, <3>2, <3>5 DEF Range
      <3> QED
        BY <3>1, <3>2, <3>4, <3>6
    <2>3. /\ vkCount' \in 0 .. VkMax /\ DOMAIN vkDevices' = 1 .. VkMax
          /\ pc' = "vk_name" => vkDevices'[1] # NoDevice
      <3>1. vkCount \in 0 .. VkMax /\ DOMAIN vkDevices = 1 .. VkMax
        BY DEF PhoneData, PhoneTyped
      <3> QED
        BY <2>1, <2>2, <3>1
    <2>4. gpuName = NoName
      BY <2>1 DEF PhoneData, CardKept
    <2> QED
      BY <2>1, <2>3, <2>4 DEF PhoneData, PhoneTyped, ClockSoFar, CardKept
  <1>10. CASE NameDevice
    <2>1. pc = "vk_name" /\ pc' = "vk_destroy" /\ gpuName' = vkDevices[1]
          /\ UNCHANGED <<maxFreq, vkCount, vkDevices>>
      BY <1>10 DEF NameDevice
    <2>2. PhoneTyped /\ 1 \in 1 .. VkMax
      BY VkAssumption DEF PhoneData
    <2>3. vkDevices[1] \in Range(vkDevices)
      BY <2>2 DEF PhoneTyped, Range
    <2> QED
      BY <2>1, <2>2, <2>3 DEF PhoneData, PhoneTyped, ClockSoFar, CardKept
  <1>11. CASE GpuProperty
    <2>1. /\ pc' = "phone_gpu"
          /\ UNCHANGED <<maxFreq, vkCount, vkDevices>>
          /\ \E d \in GpuDrivers :
               gpuName' = ReadOr({VendorNames[v] : v \in DriverOf(d) \cap DOMAIN VendorNames}, NoName)
      BY <1>11 DEF GpuProperty
    <2>2. \A T : ReadOr(T, NoName) = NoName \/ ReadOr(T, NoName) \in T
      BY DEF ReadOr
    <2>3. \A A : {VendorNames[v] : v \in A \cap DOMAIN VendorNames} \subseteq Range(VendorNames)
      BY DEF Range
    <2>4. gpuName' = NoName \/ gpuName' \in Range(VendorNames)
      BY <2>1, <2>2, <2>3
    <2>5. PhoneTyped'
      BY <2>1 DEF PhoneData, PhoneTyped
    <2> QED
      BY <2>1, <2>4, <2>5 DEF PhoneData, ClockSoFar, CardKept
  <1>12. CASE LeavePhone
    <2>1. pc' = "returned" /\ PhoneIdle'
      BY <1>12 DEF LeavePhone, PhoneReturn, PhoneIdle
    <2> QED
      BY <2>1, NoVkTyped DEF PhoneData, PhoneIdle, PhoneTyped, ClockSoFar, CardKept
  <1> QED
    BY <1>3, <1>4, <1>5, <1>6, <1>7, <1>8, <1>9, <1>10, <1>11, <1>12 DEF Phone

\* What is printed of a phone is what its files and its driver say.
LEMMA PhoneIsTold ==
  ASSUME PhoneData
  PROVE  PhoneIsTrue /\ PhoneTypeOK
  <1>1. PhoneTypeOK
    BY DEF PhoneData, PhoneTyped, PhoneIdle, PhoneTypeOK, PhoneLabels
  <1>2. PhoneIsTrue
    BY DEF PhoneData, ClockSoFar, CardKept, PhoneIsTrue, Told, ToldByZero
  <1> QED
    BY <1>1, <1>2
-----------------------------------------------------------------------------
(* AppleDevices.tla                                                        *)

\* Normalize finds the one plausible clock that a number may stand for.
LEMMA NormalizeFinds ==
  ASSUME NEW raw \in Nat
  PROVE  /\ Normalize(raw) \in 0 .. MaxHz
         /\ \A h : h \in MinHz .. MaxHz /\ h \in {raw, raw * HzPerKHz} <=> h = Normalize(raw) /\ h # 0
  <1>1. /\ MinKHz \in Nat \ {0} /\ HzPerKHz \in Nat \ {0} /\ MaxKHz \in Nat
        /\ MinHz = MinKHz * HzPerKHz /\ MaxHz = MaxKHz * HzPerKHz /\ MaxKHz < MinHz
    BY ClockAssumption
  <1> DEFINE k == HzPerKHz
  <1>2. MinHz = k * MinKHz /\ MaxHz = k * MaxKHz /\ raw * k = k * raw
    BY <1>1
  <1> HIDE DEF k
  <1>3. k \in Nat \ {0} /\ raw * k \in Nat /\ MinHz \in Nat /\ MaxHz \in Nat
    BY <1>1, <1>2 DEF k
  <1>4. MinHz > 0
    <2>1. k * 1 <= k * MinKHz
      BY <1>1, <1>3, ProductMonotone
    <2> QED
      BY <1>2, <1>3, <2>1
  <1>5. CASE MinHz <= raw /\ raw <= MaxHz
    <2>1. Normalize(raw) = raw
      BY <1>5 DEF Normalize
    <2>2. k * raw > MaxHz
      <3>1. k * (MaxKHz + 1) <= k * raw
        BY <1>1, <1>3, <1>5, ProductMonotone
      <3>2. k * (MaxKHz + 1) = k * MaxKHz + k
        BY <1>1, <1>3
      <3> QED
        BY <1>2, <1>3, <3>1, <3>2
    <2> QED
      BY <1>2, <1>3, <1>4, <1>5, <2>1, <2>2 DEF k
  <1>6. CASE ~ (MinHz <= raw /\ raw <= MaxHz)
    <2>1. MinKHz <= raw /\ raw <= MaxKHz <=> MinHz <= k * raw /\ k * raw <= MaxHz
      <3>1. MinKHz <= raw => k * MinKHz <= k * raw
        BY <1>1, <1>3, ProductMonotone
      <3>2. raw <= MaxKHz => k * raw <= k * MaxKHz
        BY <1>1, <1>3, ProductMonotone
      <3>3. ~ (MinKHz <= raw) => k * raw < k * MinKHz
        <4>1. ~ (MinKHz <= raw) => k * (raw + 1) <= k * MinKHz
          BY <1>1, <1>3, ProductMonotone
        <4>2. k * (raw + 1) = k * raw + k
          BY <1>3
        <4> QED
          BY <1>2, <1>3, <4>1, <4>2
      <3>4. ~ (raw <= MaxKHz) => k * MaxKHz < k * raw
        <4>1. ~ (raw <= MaxKHz) => k * (MaxKHz + 1) <= k * raw
          BY <1>1, <1>3, ProductMonotone
        <4>2. k * (MaxKHz + 1) = k * MaxKHz + k
          BY <1>1, <1>3
        <4> QED
          BY <1>2, <1>3, <4>1, <4>2
      <3>5. k * raw \in Nat /\ k * MinKHz \in Nat /\ k * MaxKHz \in Nat
        BY <1>2, <1>3
      <3> QED
        BY <1>2, <3>1, <3>2, <3>3, <3>4, <3>5
    <2>2. Normalize(raw) = IF MinHz <= raw * k /\ raw * k <= MaxHz THEN raw * k ELSE 0
      BY <1>2, <1>6, <2>1 DEF Normalize, k
    <2> QED
      BY <1>3, <1>4, <1>6, <2>2 DEF k
  <1> QED
    BY <1>5, <1>6

\* A node that is scanned tells the highest of its clocks, or 0 when it has none.
LEMMA PeakIsHighest ==
  ASSUME NEW node, node \in [name : STRING, tables : Seq([key : STRING, data : SUBSET Seq(Nat)])],
         node.name \in {"pmgr", "pmgr-child"}
  PROVE  /\ ClocksIn(node) = {} => PeakOf(node.tables) = 0
         /\ ClocksIn(node) # {} => /\ PeakOf(node.tables) = Max(ClocksIn(node))
                                   /\ PeakOf(node.tables) \in MinHz .. MaxHz
  <1> DEFINE right == {t \in Range(node.tables) : t.key = "voltage-states"}
             raws == UNION {Range(d) : d \in UNION {t.data : t \in right}}
             clocks == {Normalize(raw) : raw \in raws}
             C == ClocksIn(node)
  <1>1. \A t \in Range(node.tables) : t.data \subseteq Seq(Nat)
    <2> DEFINE S == [key : STRING, data : SUBSET Seq(Nat)]
    <2>1. node.tables \in Seq(S) /\ \A t \in S : t.data \subseteq Seq(Nat)
      OBVIOUS
    <2> HIDE DEF S
    <2>2. Range(node.tables) \subseteq S
      BY <2>1 DEF Range
    <2> QED
      BY <2>1, <2>2
  <1>2. raws \subseteq Nat
    <2>1. SUFFICES ASSUME NEW t \in right, NEW d \in t.data PROVE Range(d) \subseteq Nat
      OBVIOUS
    <2>2. d \in Seq(Nat)
      BY <1>1
    <2> QED
      BY <2>2 DEF Range
  <1>3. C = {h \in MinHz .. MaxHz : \E raw \in raws : h \in {raw, raw * HzPerKHz}}
    <2>1. \A raw : raw \in raws <=> \E t \in Range(node.tables) : \E d \in t.data :
                                     raw \in Range(d) /\ t.key = "voltage-states"
      OBVIOUS
    <2> HIDE DEF raws
    <2>2. \A h : (\E raw \in raws : h \in {raw, raw * HzPerKHz}) <=>
               \E t \in Range(node.tables) : \E d \in t.data : \E raw \in Range(d) :
                 t.key = "voltage-states" /\ h \in {raw, raw * HzPerKHz}
      BY <2>1, Zenon
    <2> QED
      BY <2>2, Zenon DEF ClocksIn
  <1>4. PeakOf(node.tables) = Max({0} \cup clocks)
    BY DEF PeakOf
  <1> HIDE DEF raws, C
  <1>5. clocks \subseteq 0 .. MaxHz
    BY <1>2, NormalizeFinds
  <1>6. \A h : h \in C <=> h \in clocks /\ h # 0
    <2>1. \A h : h \in C <=> \E raw \in raws : h \in MinHz .. MaxHz /\ h \in {raw, raw * HzPerKHz}
      BY <1>3
    <2>2. \A h : h \in C <=> \E raw \in raws : h = Normalize(raw) /\ h # 0
      BY <1>2, <2>1, NormalizeFinds
    <2> QED
      BY <2>2
  <1>7. MaxHz \in Nat /\ MinHz \in Nat /\ MinHz > 0 /\ C \subseteq MinHz .. MaxHz
    <2>1. MaxHz \in Nat /\ MinHz \in Nat
      BY ClockAssumption
    <2>2. MinHz > 0
      BY ClockAssumption
    <2> QED
      BY <1>3, <2>1, <2>2
  <1> HIDE DEF clocks
  <1>8. {0} \cup clocks = {0} \cup C
    BY <1>6
  <1>9. CASE C = {}
    <2>1. {0} \cup C = {0}
      BY <1>9
    <2>2. {0} \subseteq 0 .. MaxHz /\ \A y \in {0} : y <= 0
      BY <1>7
    <2>3. Max({0}) = 0
      BY <1>7, <2>2, MaxIs
    <2> QED
      BY <1>4, <1>8, <1>9, <2>1, <2>3 DEF C
  <1>10. CASE C # {}
    <2> DEFINE m == Max(C)
    <2>1. C \subseteq 0 .. MaxHz
      BY <1>7
    <2>2. m \in C /\ \A y \in C : y <= m
      BY <1>7, <1>10, <2>1, MaxIsGreatest
    <2> HIDE DEF m
    <2>3. m \in {0} \cup C /\ {0} \cup C \subseteq 0 .. MaxHz /\ \A y \in {0} \cup C : y <= m
      BY <1>7, <2>1, <2>2
    <2>4. Max({0} \cup C) = m
      BY <1>7, <2>3, MaxIs
    <2>5. PeakOf(node.tables) = m /\ m \in MinHz .. MaxHz
      BY <1>4, <1>7, <1>8, <2>2, <2>4
    <2> QED
      BY <1>10, <2>5 DEF m, C
  <1> QED
    BY <1>9, <1>10 DEF C

\* The variables of a Mac's processor and card between calls; the list in hand and
\* the place in it; the nodes passed on the way to a clock; and the page.
Lists == Registries \cup Accelerators \cup PciDevices
PmgrLabels == {"pmgr_next", "pmgr_node", "pmgr_tables", "pmgr_scan", "pmgr_scanned"}
WalkLabels == AppleLabels \ {"pmgr_match", "cpu_print", "gpu_pci", "gpu_soc", "gpu_print",
                             "apple_shown"}
DeviceLabels == WalkLabels \ {"pmgr_next", "gpu_next", "pci_next"}

AppleTyped == /\ peak \in {0} \cup MinHz .. MaxHz
              /\ nth \in Nat /\ walked \in Seq(Lists) /\ failed \in BOOLEAN
AppleIdle == /\ chip = NoChip /\ walked = <<>> /\ nth = 0 /\ peak = 0 /\ names = <<>>
             /\ value = Absent /\ failed = FALSE

WalkKept ==
  /\ pc \in WalkLabels => walked # <<>> /\ nth <= Len(Last(walked))
  /\ pc \in DeviceLabels => nth > 0

Past(n) == \A j \in 1 .. n : failed \/ ClocksIn(walked[1][j]) = {}

RegistryWalk ==
  /\ pc = "pmgr_match" => walked = <<>>
  /\ pc \in PmgrLabels => Len(walked) = 1 /\ walked[1] \in Registries
  /\ pc \in ({"pmgr_match"} \cup PmgrLabels) \ {"pmgr_scanned"} => peak = 0
  /\ pc = "pmgr_next" => Past(nth)
  /\ pc \in PmgrLabels \ {"pmgr_next"} => Past(nth - 1)
  /\ pc \in {"pmgr_tables", "pmgr_scan"} => walked[1][nth].name \in {"pmgr", "pmgr-child"}
  /\ pc = "pmgr_scanned" =>
       IF peak = 0 THEN Past(nth)
       ELSE ClocksIn(walked[1][nth]) # {} /\ peak = Max(ClocksIn(walked[1][nth]))
  /\ pc = "cpu_print" /\ chip.arm => IsPeak(peak)

ApplePage ==
  /\ pc \in (AppleLabels \ {"apple_shown"}) \cup {"cpu", "gpu"} => page = <<>>
  /\ pc = "apple_shown" => \A l \in Range(page) : l.label = "CPU" /\ chip.arm => IsPeak(l.text.hz)

AppleData ==
  /\ AppleTyped
  /\ pc \notin AppleLabels => AppleIdle
  /\ WalkKept /\ RegistryWalk /\ ApplePage

\* Neither main nor another part changes what is known of a Mac.
LEMMA AppleDataRests ==
  ASSUME AppleData, UNCHANGED appleVars,
         \/ pc' = pc /\ page' = page
         \/ {pc, pc'} \cap AppleLabels = {} /\ (pc' \in {"cpu", "gpu"} => page' = <<>>)
  PROVE  AppleData'
  <1>1. UNCHANGED <<chip, walked, nth, peak, names, value, failed>>
    BY DEF appleVars
  <1>2. AppleTyped' /\ (AppleIdle => AppleIdle')
    BY <1>1 DEF AppleData, AppleTyped, AppleIdle
  <1>3. (\A n : Past(n) => Past(n)') /\ \A hz : IsPeak(hz) => IsPeak(hz)'
    <2>1. \A n : Past(n) => Past(n)'
      BY <1>1 DEF Past
    <2>2. \A hz : IsPeak(hz) => IsPeak(hz)'
      BY <1>1 DEF IsPeak
    <2> QED
      BY <2>1, <2>2
  <1>4. CASE pc' = pc /\ page' = page
    <2>1. WalkKept' /\ ApplePage'
      BY <1>1, <1>3, <1>4 DEF AppleData, WalkKept, ApplePage
    <2>2. RegistryWalk'
      BY <1>1, <1>3, <1>4 DEF AppleData, RegistryWalk, ClocksIn
    <2> QED
      BY <1>2, <1>4, <2>1, <2>2 DEF AppleData
  <1>5. CASE {pc, pc'} \cap AppleLabels = {} /\ (pc' \in {"cpu", "gpu"} => page' = <<>>)
    BY <1>1, <1>2, <1>5
       DEF AppleData, WalkKept, RegistryWalk, ApplePage, PmgrLabels, WalkLabels, DeviceLabels, AppleLabels
  <1> QED
    BY <1>4, <1>5

\* Between calls the variables of a Mac have their types.
LEMMA AppleIdleTyped ==
  ASSUME AppleIdle
  PROVE  AppleTyped
  <1>1. peak \in {0} \cup MinHz .. MaxHz /\ nth \in Nat
    BY DEF AppleIdle
  <1>2. walked \in Seq(Lists)
    BY DEF AppleIdle
  <1>3. failed \in BOOLEAN
    BY DEF AppleIdle
  <1> QED
    BY <1>1, <1>2, <1>3 DEF AppleTyped

\* What a step does to the walks.
LEMMA AppleSteps ==
  ASSUME Apple, failed \in BOOLEAN
  PROVE  \/ /\ \E d \in Lists : walked' = Append(walked, d)
            /\ nth' = 0 /\ UNCHANGED <<peak, failed>>
            /\ pc' \in {"pmgr_next", "gpu_next", "pci_next"}
         \/ /\ nth < Len(Last(walked)) /\ nth' = nth + 1
            /\ UNCHANGED <<walked, peak, failed>>
            /\ pc \in WalkLabels
         \/ /\ UNCHANGED <<walked, nth>> /\ failed' \in BOOLEAN /\ (failed => failed')
            /\ pc' \in WalkLabels => pc \in WalkLabels
            /\ pc' \in DeviceLabels => pc \in DeviceLabels
            /\ peak' = peak \/ (pc = "pmgr_scan" /\ peak' = PeakOf(Device.tables))
         \/ pc' = "returned" /\ AppleIdle'
  <1> USE DEF Goto, WalkLabels, DeviceLabels, AppleLabels
  <1>1. CASE MatchPmgr
    BY <1>1 DEF MatchPmgr, Match, Lists
  <1>2. CASE AppleGpu
    BY <1>2 DEF AppleGpu, Match, Lists
  <1>3. CASE MatchPci
    BY <1>3 DEF MatchPci, Match, Lists
  <1>4. CASE NextPmgr
    BY <1>4 DEF NextPmgr, NextDevice
  <1>5. CASE NextAccelerator
    BY <1>5 DEF NextAccelerator, NextDevice
  <1>6. CASE NextPci
    BY <1>6 DEF NextPci, NextDevice
  <1>7. CASE PmgrScan
    BY <1>7 DEF PmgrScan
  <1>8. CASE LeaveApple
    BY <1>8 DEF LeaveApple, AppleReturn, AppleIdle
  <1>9. CASE AppleCpu \/ PrintAppleCpu \/ SocName \/ PrintAppleGpu \/ PmgrRelease \/ AddName
             \/ ReleaseDevice \/ ReleaseParent
    BY <1>9 DEF AppleCpu, PrintAppleCpu, SocName, PrintAppleGpu, PmgrRelease, AddName, ReleaseDevice,
                ReleaseParent, appleVars
  <1>10. CASE PmgrProperties
    BY <1>10 DEF PmgrProperties
  <1>11. CASE PmgrArrays
    BY <1>11 DEF PmgrArrays
  <1>12. CASE AcceleratorModel
    BY <1>12 DEF AcceleratorModel, GetProperty
  <1>13. CASE ParentEntry
    BY <1>13 DEF ParentEntry
  <1>14. CASE ParentModel
    BY <1>14 DEF ParentModel, GetProperty
  <1>15. CASE PciClass
    BY <1>15 DEF PciClass, GetProperty
  <1>16. CASE PciModel
    BY <1>16 DEF PciModel, GetProperty
  <1> QED
    BY <1>1, <1>2, <1>3, <1>4, <1>5, <1>6, <1>7, <1>8, <1>9, <1>10, <1>11, <1>12, <1>13, <1>14,
       <1>15, <1>16 DEF Apple

Nodes == [name : STRING, tables : Seq([key : STRING, data : SUBSET Seq(Nat)])]

\* Every list of devices has a length.
LEMMA ListLength ==
  ASSUME NEW d \in Lists
  PROVE  Len(d) \in Nat
  <1>1. CASE d \in Registries
    <2>1. d \in Seq(Nodes)
      BY <1>1, DeviceListAssumption DEF Nodes
    <2> QED
      BY <2>1
  <1>2. CASE d \notin Registries
    BY <1>2, DeviceListAssumption DEF Lists
  <1> QED
    BY <1>1, <1>2

\* The list in hand is one of them.
LEMMA LastOfWalked ==
  ASSUME AppleTyped, walked # <<>>
  PROVE  Last(walked) \in Lists /\ Len(Last(walked)) \in Nat
  <1>1. walked \in Seq(Lists) /\ Len(walked) \in 1 .. Len(walked)
    BY DEF AppleTyped
  <1>2. Last(walked) \in Lists
    BY <1>1 DEF Last
  <1> QED
    BY <1>2, ListLength

\* In the loop over the power managers the node in hand is one of the registry.
LEMMA NodeInHand ==
  ASSUME AppleData, pc \in PmgrLabels
  PROVE  /\ Last(walked) = walked[1] /\ walked[1] \in Seq(Nodes) /\ Len(walked[1]) \in Nat
         /\ nth \in 0 .. Len(walked[1])
         /\ pc # "pmgr_next" => nth > 0 /\ walked[1][nth] \in Nodes
  <1>1. Len(walked) = 1 /\ walked[1] \in Registries
    BY DEF AppleData, RegistryWalk
  <1>2. Last(walked) = walked[1] /\ walked[1] \in Seq(Nodes)
    BY <1>1, DeviceListAssumption DEF Last, Nodes
  <1>3. Len(walked[1]) \in Nat
    BY <1>2
  <1>4. pc \in WalkLabels /\ (pc # "pmgr_next" => pc \in DeviceLabels)
    BY DEF PmgrLabels, WalkLabels, DeviceLabels, AppleLabels
  <1>5. nth \in Nat /\ nth <= Len(walked[1]) /\ (pc # "pmgr_next" => nth > 0)
    BY <1>2, <1>4 DEF AppleData, AppleTyped, WalkKept
  <1>6. pc # "pmgr_next" => nth \in 1 .. Len(walked[1])
    BY <1>3, <1>5
  <1>7. pc # "pmgr_next" => walked[1][nth] \in Nodes
    BY <1>2, <1>6
  <1> QED
    BY <1>2, <1>3, <1>5, <1>7

\* The highest clock of a node, and 0 just when its tables have none.
LEMMA ScanTells ==
  ASSUME AppleData, pc = "pmgr_scan"
  PROVE  LET peaked == PeakOf(Device.tables)
             clocks == ClocksIn(walked[1][nth])
         IN  /\ clocks = {} => peaked = 0
             /\ clocks # {} => peaked = Max(clocks) /\ peaked \in MinHz .. MaxHz
  <1>1. pc \in PmgrLabels /\ pc # "pmgr_next"
    BY DEF PmgrLabels
  <1>2. Device = walked[1][nth] /\ walked[1][nth] \in Nodes
    BY <1>1, NodeInHand DEF Device
  <1>3. walked[1][nth].name \in {"pmgr", "pmgr-child"}
    BY DEF AppleData, RegistryWalk
  <1> QED
    BY <1>2, <1>3, PeakIsHighest DEF Nodes

\* A step keeps the place in the list in hand.
LEMMA AppleWalks ==
  ASSUME AppleData, Apple
  PROVE  AppleTyped' /\ WalkKept'
  <1>1. AppleTyped /\ WalkKept
    BY DEF AppleData
  <1>2. CASE /\ \E d \in Lists : walked' = Append(walked, d)
             /\ nth' = 0 /\ UNCHANGED <<peak, failed>>
             /\ pc' \in {"pmgr_next", "gpu_next", "pci_next"}
    <2>1. PICK d \in Lists : walked' = Append(walked, d)
      BY <1>2
    <2>2. walked \in Seq(Lists) /\ Len(d) \in Nat
      BY <1>1, ListLength DEF AppleTyped
    <2>3. walked' \in Seq(Lists) /\ Len(walked') = Len(walked) + 1 /\ walked'[Len(walked) + 1] = d
      BY <2>1, <2>2
    <2>4. Last(walked') = d /\ walked' # <<>>
      BY <2>2, <2>3 DEF Last
    <2>5. nth' <= Len(Last(walked'))
      BY <1>2, <2>2, <2>4
    <2> QED
      BY <1>1, <1>2, <2>3, <2>4, <2>5 DEF AppleTyped, WalkKept, DeviceLabels
  <1>3. CASE /\ nth < Len(Last(walked)) /\ nth' = nth + 1
             /\ UNCHANGED <<walked, peak, failed>>
             /\ pc \in WalkLabels
    <2>1. walked # <<>>
      BY <1>1, <1>3 DEF WalkKept
    <2>2. Len(Last(walked)) \in Nat /\ nth \in Nat
      BY <1>1, <2>1, LastOfWalked DEF AppleTyped
    <2>3. nth' \in Nat /\ nth' > 0 /\ nth' <= Len(Last(walked))
      BY <1>3, <2>2
    <2> QED
      BY <1>1, <1>3, <2>1, <2>3 DEF AppleTyped, WalkKept
  <1>4. CASE /\ UNCHANGED <<walked, nth>> /\ failed' \in BOOLEAN /\ (failed => failed')
             /\ pc' \in WalkLabels => pc \in WalkLabels
             /\ pc' \in DeviceLabels => pc \in DeviceLabels
             /\ peak' = peak \/ (pc = "pmgr_scan" /\ peak' = PeakOf(Device.tables))
    <2>1. peak' \in {0} \cup MinHz .. MaxHz
      BY <1>1, <1>4, ScanTells DEF AppleTyped
    <2> QED
      BY <1>1, <1>4, <2>1 DEF AppleTyped, WalkKept
  <1>5. CASE pc' = "returned" /\ AppleIdle'
    <2>1. AppleTyped'
      <3>1. peak' \in {0} \cup MinHz .. MaxHz /\ nth' \in Nat
        BY <1>5 DEF AppleIdle
      <3>2. walked' \in Seq(Lists)
        BY <1>5 DEF AppleIdle
      <3>3. failed' \in BOOLEAN
        BY <1>5 DEF AppleIdle
      <3> QED
        BY <3>1, <3>2, <3>3 DEF AppleTyped
    <2> QED
      BY <1>5, <2>1 DEF WalkKept, WalkLabels, DeviceLabels, AppleLabels
  <1>6. failed \in BOOLEAN
    BY <1>1 DEF AppleTyped
  <1> QED
    BY <1>2, <1>3, <1>4, <1>5, <1>6, AppleSteps

\* What was passed stays passed.
LEMMA PastKept ==
  ASSUME UNCHANGED walked, failed => failed'
  PROVE  \A n : Past(n) => Past(n)'
  BY DEF Past, ClocksIn

\* A list of one is not empty.
LEMMA OneIsSome ==
  ASSUME Len(walked) = 1
  PROVE  walked # <<>>
  <1>1. Len(<<>>) = 0
    OBVIOUS
  <1>2. Len(<<>>) # 1
    BY <1>1
  <1>3. walked = <<>> => Len(walked) = Len(<<>>)
    OBVIOUS
  <1> QED
    BY <1>2, <1>3

\* A walk that ends without a clock has passed every node.
LEMMA NoPeak ==
  ASSUME AppleData, pc = "pmgr_next", nth >= Len(walked[1])
  PROVE  IsPeak(0)
  <1>1. /\ Len(walked) = 1 /\ Past(nth)
        /\ Len(walked[1]) \in Nat /\ nth \in 0 .. Len(walked[1]) /\ walked[1] \in Seq(Nodes)
    BY NodeInHand DEF AppleData, RegistryWalk, PmgrLabels
  <1>2. walked # <<>>
    BY <1>1, OneIsSome
  <1>3. DOMAIN walked[1] = 1 .. nth
    BY <1>1
  <1>4. failed \/ {j \in DOMAIN walked[1] : ClocksIn(walked[1][j]) # {}} = {}
    <2>1. SUFFICES ASSUME ~failed, NEW j \in 1 .. nth PROVE ClocksIn(walked[1][j]) = {}
      BY <1>3
    <2> QED
      BY <1>1, <2>1 DEF Past
  <1>5. ~ (0 > 0)
    OBVIOUS
  <1> QED
    BY <1>2, <1>4, <1>5, Zenon DEF IsPeak

\* One that ends with a clock has passed no node with a clock before.
LEMMA PeakFound ==
  ASSUME AppleData, pc = "pmgr_scanned", peak > 0
  PROVE  IsPeak(peak)
  <1> DEFINE nodes == walked[1]
             tell == {j \in DOMAIN nodes : ClocksIn(nodes[j]) # {}}
  <1>1. /\ Len(walked) = 1 /\ Past(nth - 1)
        /\ Len(nodes) \in Nat /\ nth \in 0 .. Len(nodes) /\ nth > 0 /\ nodes \in Seq(Nodes)
    BY NodeInHand DEF AppleData, RegistryWalk, PmgrLabels
  <1>2. peak # 0
    OBVIOUS
  <1>3. ClocksIn(nodes[nth]) # {} /\ peak = Max(ClocksIn(nodes[nth]))
    BY <1>2 DEF AppleData, RegistryWalk
  <1>4. walked # <<>>
    BY <1>1, OneIsSome
  <1>5. DOMAIN nodes = 1 .. Len(nodes) /\ nth \in 1 .. Len(nodes)
    BY <1>1
  <1>6. nth \in tell
    BY <1>3, <1>5
  <1>7. failed \/ nth = Min(tell)
    <2>1. SUFFICES ASSUME ~failed PROVE nth = Min(tell)
      OBVIOUS
    <2>2. tell \subseteq Nat /\ tell # {}
      <3>1. tell \subseteq DOMAIN nodes
        OBVIOUS
      <3> HIDE DEF tell, nodes
      <3> QED
        BY <1>5, <1>6, <3>1
    <2>3. \A j \in 1 .. nth - 1 : j \notin tell
      BY <1>1, <2>1 DEF Past
    <2> DEFINE m == Min(tell)
    <2> HIDE DEF tell
    <2>4. m \in tell /\ m <= nth
      BY <1>6, <2>2, MinIsLeast
    <2> HIDE DEF m
    <2>5. m \in 1 .. Len(nodes)
      BY <1>5, <2>4 DEF tell
    <2>6. m = nth
      BY <1>5, <2>3, <2>4, <2>5
    <2> QED
      BY <2>6 DEF m
  <1> QED
    BY <1>3, <1>4, <1>6, <1>7 DEF IsPeak

\* IsPeak looks at the walk and at what has failed, and at nothing else.
LEMMA PeakKept ==
  ASSUME UNCHANGED <<walked, failed>>
  PROVE  \A hz : IsPeak(hz) => IsPeak(hz)'
  BY DEF IsPeak

\* A step of the walk through the registry: no node with a clock is passed, and the
\* first one with a clock ends it.
LEMMA RegistryWalks ==
  ASSUME AppleData, Apple
  PROVE  RegistryWalk'
  <1> USE DEF Goto
  <1>1. AppleTyped /\ WalkKept /\ RegistryWalk
    BY DEF AppleData
  <1>2. peak > 0 <=> peak # 0
    BY <1>1, ClockAssumption DEF AppleTyped
  <1>3. CASE AppleCpu
    <2>1. pc = "cpu" /\ (pc' = "cpu_print" => ~chip'.arm) /\ pc' \in {"pmgr_match", "cpu_print"}
          /\ UNCHANGED <<walked, peak>>
      BY <1>3 DEF AppleCpu
    <2>2. AppleIdle
      BY <2>1 DEF AppleData, AppleLabels
    <2> QED
      BY <2>1, <2>2 DEF AppleIdle, RegistryWalk, PmgrLabels
  <1>4. CASE MatchPmgr
    <2>1. /\ pc = "pmgr_match" /\ UNCHANGED <<peak, chip>>
          /\ \/ /\ pc' = "pmgr_next" /\ nth' = 0
                /\ \E d \in Registries : walked' = Append(walked, d)
             \/ pc' = "cpu_print" /\ failed' = TRUE /\ UNCHANGED walked
      BY <1>4 DEF MatchPmgr, Match
    <2>2. walked = <<>> /\ peak = 0
      BY <1>1, <2>1 DEF RegistryWalk
    <2>3. CASE pc' = "pmgr_next"
      <3>1. PICK d \in Registries : walked' = Append(<<>>, d)
        BY <2>1, <2>2, <2>3
      <3>2. Len(walked') = 1 /\ walked'[1] \in Registries
        BY <3>1
      <3>3. 1 .. nth' = {} /\ peak' = 0
        BY <2>1, <2>2, <2>3
      <3>4. Past(nth)'
        BY <3>3 DEF Past
      <3> QED
        BY <2>3, <3>2, <3>3, <3>4 DEF RegistryWalk, PmgrLabels
    <2>4. CASE pc' = "cpu_print"
      <3>1. failed' = TRUE /\ peak' = 0
        BY <2>1, <2>2, <2>4
      <3>2. IsPeak(peak)'
        BY <3>1 DEF IsPeak
      <3> QED
        BY <2>4, <3>2 DEF RegistryWalk, PmgrLabels
    <2> QED
      BY <2>1, <2>3, <2>4
  <1>5. CASE NextPmgr
    <2>1. /\ pc = "pmgr_next" /\ UNCHANGED <<chip, walked, peak, failed>>
          /\ \/ nth < Len(Last(walked)) /\ nth' = nth + 1 /\ pc' = "pmgr_node"
             \/ ~(nth < Len(Last(walked))) /\ nth' = nth /\ pc' = "cpu_print"
      BY <1>5 DEF NextPmgr, NextDevice
    <2>2. /\ Len(walked) = 1 /\ walked[1] \in Registries /\ peak = 0 /\ Past(nth)
      BY <1>1, <2>1 DEF RegistryWalk, PmgrLabels
    <2>3. Last(walked) = walked[1] /\ Len(walked[1]) \in Nat /\ nth \in 0 .. Len(walked[1])
      BY <2>1, NodeInHand DEF PmgrLabels
    <2>4. CASE pc' = "pmgr_node"
      <3>1. nth' - 1 = nth
        BY <2>1, <2>3, <2>4
      <3>2. Past(nth - 1)'
        BY <2>1, <2>2, <3>1 DEF Past, ClocksIn
      <3> QED
        BY <2>1, <2>2, <2>4, <3>2 DEF RegistryWalk, PmgrLabels
    <2>5. CASE pc' = "cpu_print"
      <3>1. nth >= Len(walked[1])
        BY <2>1, <2>3, <2>5
      <3>2. IsPeak(0)
        BY <2>1, <3>1, NoPeak
      <3>3. IsPeak(0)' /\ peak' = 0
        BY <2>1, <2>2, <3>2, PeakKept
      <3>4. IsPeak(peak)'
        BY <3>3 DEF IsPeak
      <3> QED
        BY <2>5, <3>4 DEF RegistryWalk, PmgrLabels
    <2> QED
      BY <2>1, <2>4, <2>5
  <1>6. CASE PmgrProperties \/ PmgrArrays
    <2>1. /\ pc \in {"pmgr_node", "pmgr_tables"} /\ UNCHANGED <<walked, nth, peak>>
          /\ failed => failed'
          /\ pc' \in {"pmgr_tables", "pmgr_scan", "pmgr_scanned"}
          /\ pc' \in {"pmgr_tables", "pmgr_scan"} =>
               pc = "pmgr_tables" \/ Device.name \in {"pmgr", "pmgr-child"}
          /\ pc' = "pmgr_scanned" =>
               \/ failed'
               \/ Device.name \notin {"pmgr", "pmgr-child"}
               \/ Device.tables = <<>>
      <3>1. failed \in BOOLEAN
        BY <1>1 DEF AppleTyped
      <3>2. CASE PmgrProperties
        BY <3>1, <3>2 DEF PmgrProperties
      <3>3. CASE PmgrArrays
        BY <3>1, <3>3 DEF PmgrArrays
      <3> QED
        BY <1>6, <3>2, <3>3
    <2>2. /\ Len(walked) = 1 /\ walked[1] \in Registries /\ peak = 0 /\ Past(nth - 1)
          /\ pc = "pmgr_tables" => walked[1][nth].name \in {"pmgr", "pmgr-child"}
      BY <1>1, <2>1 DEF RegistryWalk, PmgrLabels
    <2>3. /\ Last(walked) = walked[1] /\ Device = walked[1][nth]
          /\ nth \in 1 .. Len(walked[1]) /\ Len(walked[1]) \in Nat
      BY <2>1, NodeInHand DEF PmgrLabels, Device
    <2>4. Past(nth - 1)'
      <3>1. nth' - 1 = nth - 1
        BY <2>1
      <3> QED
        BY <2>1, <2>2, <3>1 DEF Past, ClocksIn
    <2>5. pc' = "pmgr_scanned" => Past(nth)'
      <3>1. SUFFICES ASSUME pc' = "pmgr_scanned", NEW j \in 1 .. nth
                     PROVE  failed' \/ ClocksIn(walked[1][j]) = {}
        BY <2>1 DEF Past, ClocksIn
      <3>2. CASE j \in 1 .. nth - 1
        BY <2>1, <2>2, <3>2 DEF Past
      <3>3. CASE j = nth
        <4>1. Device.name \notin {"pmgr", "pmgr-child"} => ClocksIn(Device) = {}
          BY DEF ClocksIn
        <4>2. Device.tables = <<>> => ClocksIn(Device) = {}
          <5>1. Range(<<>>) = {}
            BY DEF Range
          <5> QED
            BY <5>1 DEF ClocksIn
        <4> QED
          BY <2>1, <2>3, <3>1, <3>3, <4>1, <4>2
      <3> QED
        BY <2>3, <3>2, <3>3
    <2> QED
      BY <2>1, <2>2, <2>3, <2>4, <2>5 DEF RegistryWalk, PmgrLabels
  <1>7. CASE PmgrScan
    <2>1. /\ pc = "pmgr_scan" /\ pc' = "pmgr_scanned" /\ UNCHANGED <<walked, nth, failed>>
          /\ peak' = PeakOf(Device.tables)
      BY <1>7 DEF PmgrScan
    <2>2. Len(walked) = 1 /\ walked[1] \in Registries /\ Past(nth - 1)
      BY <1>1, <2>1 DEF RegistryWalk, PmgrLabels
    <2> DEFINE clocks == ClocksIn(walked[1][nth])
    <2>3. /\ clocks = {} => peak' = 0
          /\ clocks # {} => peak' = Max(clocks) /\ peak' # 0
      BY <2>1, ScanTells, ClockAssumption
    <2>4. nth \in 1 .. Len(walked[1]) /\ nth' - 1 = nth - 1
      BY <2>1, NodeInHand DEF PmgrLabels
    <2>5. Past(nth - 1)'
      BY <2>1, <2>2, <2>4 DEF Past, ClocksIn
    <2>6. clocks' = clocks /\ clocks' = ClocksIn(walked'[1][nth'])
      BY <2>1 DEF ClocksIn
    <2>7. peak' = 0 => Past(nth)'
      <3>1. SUFFICES ASSUME clocks = {}, NEW j \in 1 .. nth
                     PROVE  failed \/ ClocksIn(walked[1][j]) = {}
        BY <2>1, <2>3 DEF Past, ClocksIn
      <3>2. CASE j \in 1 .. nth - 1
        BY <2>2, <3>2 DEF Past
      <3>3. CASE j = nth
        BY <3>1, <3>3
      <3> QED
        BY <2>4, <3>2, <3>3
    <2>8. peak' # 0 => ClocksIn(walked[1][nth])' # {} /\ peak' = Max(ClocksIn(walked[1][nth])')
      BY <2>3, <2>6
    <2> QED
      BY <2>1, <2>2, <2>5, <2>7, <2>8 DEF RegistryWalk, PmgrLabels
  <1>8. CASE PmgrRelease
    <2>1. /\ pc = "pmgr_scanned" /\ pc' = IF peak > 0 THEN "cpu_print" ELSE "pmgr_next"
          /\ UNCHANGED <<chip, walked, nth, peak, failed>>
      BY <1>8 DEF PmgrRelease, appleVars
    <2>2. CASE peak > 0
      <3>1. IsPeak(peak)
        BY <2>1, <2>2, PeakFound
      <3>2. IsPeak(peak)'
        BY <2>1, <3>1 DEF IsPeak
      <3> QED
        BY <2>1, <2>2, <3>2 DEF RegistryWalk, PmgrLabels
    <2>3. CASE ~(peak > 0)
      <3>1. peak = 0 /\ pc' = "pmgr_next" /\ Len(walked) = 1 /\ walked[1] \in Registries /\ Past(nth)
        BY <1>1, <1>2, <2>1, <2>3 DEF RegistryWalk, PmgrLabels
      <3>2. Past(nth)'
        BY <2>1, <3>1 DEF Past, ClocksIn
      <3> QED
        BY <2>1, <3>1, <3>2 DEF RegistryWalk, PmgrLabels
    <2> QED
      BY <2>2, <2>3
  <1>9. CASE PrintAppleCpu \/ PrintAppleGpu \/ LeaveApple \/ SocName \/ AddName \/ ReleaseParent
             \/ ReleaseDevice
    BY <1>9 DEF PrintAppleCpu, PrintAppleGpu, LeaveApple, AppleReturn, SocName, AddName,
                ReleaseParent, ReleaseDevice, RegistryWalk, PmgrLabels
  <1>10. CASE AppleGpu \/ MatchPci \/ NextAccelerator \/ NextPci
    BY <1>10 DEF AppleGpu, MatchPci, Match, NextAccelerator, NextPci, NextDevice, RegistryWalk,
                 PmgrLabels
  <1>11. CASE AcceleratorModel \/ ParentEntry \/ ParentModel \/ PciClass \/ PciModel
    BY <1>11 DEF AcceleratorModel, ParentEntry, ParentModel, PciClass, PciModel, GetProperty,
                 RegistryWalk, PmgrLabels
  <1> QED
    BY <1>3, <1>4, <1>5, <1>6, <1>7, <1>8, <1>9, <1>10, <1>11 DEF Apple

\* What is printed of the processor has the clock that was found.
LEMMA ApplePages ==
  ASSUME AppleData, Apple
  PROVE  ApplePage'
  <1> USE DEF Goto
  <1>1. pc \in AppleLabels \cup {"cpu", "gpu"} /\ pc' \in AppleLabels \cup {"returned"}
    BY AppleMoves
  <1>2. pc # "apple_shown" => page = <<>>
    BY <1>1 DEF AppleData, ApplePage
  <1>3. CASE PrintAppleCpu
    <2>1. /\ pc = "cpu_print" /\ pc' = "apple_shown" /\ UNCHANGED <<chip, walked, failed>>
      BY <1>3 DEF PrintAppleCpu, appleVars
    <2>2. PICK l : page' = Append(page, l) /\ (chip.arm => l.text.hz = peak)
      BY <1>3 DEF PrintAppleCpu, PrintLine
    <2>3. page' = <<l>>
      BY <1>2, <2>1, <2>2
    <2>4. \A k \in Range(page') : k = l
      BY <2>3 DEF Range
    <2>5. chip.arm => IsPeak(peak)
      BY <2>1 DEF AppleData, RegistryWalk
    <2>6. chip.arm => IsPeak(l.text.hz)
      BY <2>2, <2>5
    <2>7. chip'.arm => IsPeak(l.text.hz)'
      BY <2>1, <2>6, PeakKept
    <2> QED
      BY <2>1, <2>4, <2>7 DEF ApplePage, AppleLabels
  <1>4. CASE PrintAppleGpu
    <2>1. /\ pc = "gpu_print" /\ pc' = "apple_shown"
          /\ page' = page \/ page' = Append(page, [label |-> "GPU", text |-> names])
      BY <1>4 DEF PrintAppleGpu, PrintLine
    <2>2. page = <<>>
      BY <1>2, <2>1
    <2>3. page' = <<>> \/ page' = <<[label |-> "GPU", text |-> names]>>
      BY <2>1, <2>2
    <2>4. \A l \in Range(page') : l.label # "CPU"
      BY <2>3 DEF Range
    <2> QED
      BY <2>1, <2>4 DEF ApplePage
  <1>5. CASE LeaveApple
    BY <1>5 DEF LeaveApple, AppleReturn, ApplePage, AppleLabels
  <1>6. CASE AppleCpu \/ MatchPmgr \/ NextPmgr \/ PmgrProperties \/ PmgrArrays \/ PmgrScan
             \/ PmgrRelease
    <2>1. page' = page /\ pc' # "apple_shown" /\ pc # "apple_shown"
      BY <1>6 DEF AppleCpu, MatchPmgr, Match, NextPmgr, NextDevice, PmgrProperties, PmgrArrays,
                  PmgrScan, PmgrRelease
    <2> QED
      BY <1>2, <2>1 DEF ApplePage
  <1>7. CASE AppleGpu \/ NextAccelerator \/ MatchPci \/ NextPci \/ SocName \/ AddName
             \/ ReleaseParent \/ ReleaseDevice
    <2>1. page' = page /\ pc' # "apple_shown" /\ pc # "apple_shown"
      BY <1>7 DEF AppleGpu, MatchPci, Match, NextAccelerator, NextPci, NextDevice, SocName, AddName,
                  ReleaseParent, ReleaseDevice
    <2> QED
      BY <1>2, <2>1 DEF ApplePage
  <1>8. CASE AcceleratorModel \/ ParentEntry \/ ParentModel \/ PciClass \/ PciModel
    <2>1. page' = page /\ pc' # "apple_shown" /\ pc # "apple_shown"
      BY <1>8 DEF AcceleratorModel, ParentEntry, ParentModel, PciClass, PciModel, GetProperty
    <2> QED
      BY <1>2, <2>1 DEF ApplePage
  <1> QED
    BY <1>3, <1>4, <1>5, <1>6, <1>7, <1>8 DEF Apple

\* A step of the macOS hardware keeps what is known of the devices.
LEMMA AppleDataKeeps ==
  ASSUME AppleData, Apple
  PROVE  AppleData'
  <1>1. AppleTyped' /\ WalkKept' /\ RegistryWalk' /\ ApplePage'
    BY AppleWalks, RegistryWalks, ApplePages
  <1>2. pc' \notin AppleLabels => AppleIdle'
    <2>1. pc' \in AppleLabels \/ LeaveApple
      BY DEF Apple, Goto, AppleLabels,
             AppleCpu, MatchPmgr, Match, NextPmgr, NextDevice, PmgrProperties, PmgrArrays, PmgrScan,
             PmgrRelease, PrintAppleCpu, AppleGpu, NextAccelerator, AcceleratorModel, GetProperty,
             ParentEntry, ParentModel, ReleaseParent, AddName, ReleaseDevice, MatchPci, NextPci,
             PciClass, PciModel, SocName, PrintAppleGpu
    <2>2. LeaveApple => AppleIdle'
      BY DEF LeaveApple, AppleReturn, AppleIdle
    <2> QED
      BY <2>1, <2>2
  <1> QED
    BY <1>1, <1>2 DEF AppleData

\* What is printed of the clock is true.
LEMMA AppleIsTold ==
  ASSUME IInv, AppleData
  PROVE  ClockIsTrue /\ AppleTypeOK
  <1>1. ClockIsTrue
    BY DEF AppleData, ApplePage, ClockIsTrue
  <1>2. Holds("iterator") => pc \in WalkLabels
    BY DEF IInv, HeldApple, HeldAt, Holds, WalkLabels
  <1>3. Holds("service") => pc \in DeviceLabels
    BY DEF IInv, HeldApple, HeldAt, Holds, WalkLabels, DeviceLabels, AppleLabels
  <1>4. peak \in {0} \cup MinHz .. MaxHz /\ (pc = "returned" => AppleIdle)
    BY DEF AppleData, AppleTyped, AppleLabels
  <1>5. AppleTypeOK
    BY <1>2, <1>3, <1>4 DEF AppleTypeOK, AppleData, WalkKept, AppleIdle
  <1> QED
    BY <1>1, <1>5
-----------------------------------------------------------------------------
(* A run, with what it tells                                               *)

\* What has not been read of a file is a suffix of it.
LEMMA SuffixIsLeft ==
  ASSUME NEW S, NEW f \in Seq(S), NEW n \in 0 .. Len(f), NEW r, r = SubSeq(f, n + 1, Len(f))
  PROVE  IsSuffix(r, f)
  <1>1. Len(f) \in Nat /\ n \in Nat
    OBVIOUS
  <1>2. r \in Seq(S) /\ Len(r) = Len(f) - n /\ \A j \in 1 .. Len(r) : r[j] = f[j + n]
    BY <1>1
  <1> DEFINE rr == Reverse(r)
             ff == Reverse(f)
  <1>3. /\ rr = [i \in 1 .. Len(r) |-> r[Len(r) - i + 1]]
        /\ ff = [i \in 1 .. Len(f) |-> f[Len(f) - i + 1]]
    BY DEF Reverse
  <1>4. Len(r) \in Nat /\ Len(r) <= Len(f)
    BY <1>1, <1>2
  <1>5. rr \in Seq(S) /\ Len(rr) = Len(r) /\ ff \in Seq(S) /\ Len(ff) = Len(f)
    <2>1. \A i \in 1 .. Len(r) : Len(r) - i + 1 \in 1 .. Len(r)
      BY <1>4
    <2>2. \A i \in 1 .. Len(f) : Len(f) - i + 1 \in 1 .. Len(f)
      BY <1>1
    <2>3. (\A j \in 1 .. Len(r) : r[j] \in S) /\ \A j \in 1 .. Len(f) : f[j] \in S
      BY <1>2
    <2>4. rr \in [1 .. Len(r) -> S] /\ ff \in [1 .. Len(f) -> S]
      BY <1>3, <2>1, <2>2, <2>3
    <2> HIDE DEF rr, ff
    <2>5. \A m \in Nat : \A g \in [1 .. m -> S] : g \in Seq(S) /\ Len(g) = m
      OBVIOUS
    <2> QED
      BY <1>1, <1>4, <2>4, <2>5
  <1>6. \A i \in 1 .. Len(r) : rr[i] = ff[i]
    <2>1. SUFFICES ASSUME NEW i \in 1 .. Len(r) PROVE rr[i] = ff[i]
      OBVIOUS
    <2> DEFINE j == Len(r) - i + 1
    <2>2. j \in 1 .. Len(r) /\ j + n = Len(f) - i + 1 /\ i \in 1 .. Len(f)
      BY <1>1, <1>2, <1>4
    <2>3. rr[i] = r[j] /\ ff[i] = f[j + n]
      BY <1>3, <2>2
    <2> QED
      BY <1>2, <2>2, <2>3
  <1> HIDE DEF rr, ff
  <1>7. SubSeq(rr, 1, Len(rr)) = SubSeq(ff, 1, Len(rr))
    <2> DEFINE a == SubSeq(rr, 1, Len(r))
               b == SubSeq(ff, 1, Len(r))
    <2>1. a \in Seq(S) /\ Len(a) = Len(r) /\ \A i \in 1 .. Len(r) : a[i] = rr[i]
      BY <1>4, <1>5
    <2>2. b \in Seq(S) /\ Len(b) = Len(r) /\ \A i \in 1 .. Len(r) : b[i] = ff[i]
      BY <1>4, <1>5
    <2> HIDE DEF a, b
    <2>3. a = b
      BY <1>6, <2>1, <2>2, SeqEqual
    <2> QED
      BY <1>5, <2>3 DEF a, b
  <1> QED
    BY <1>4, <1>5, <1>7 DEF IsSuffix, IsPrefix, rr, ff

\* The type invariant of memory.
LEMMA MemoryIsTyped ==
  ASSUME MemoryData
  PROVE  MemTypeOK
  <1>1. mem \in [DOMAIN EmptyMem -> Nat]
    BY DEF MemoryData, MemoryTyped, EmptyMem
  <1>2. OnLinux => IsSuffix(unread, meminfo)
    <2>1. SUFFICES ASSUME OnLinux PROVE IsSuffix(unread, meminfo)
      OBVIOUS
    <2>2. CASE pc \in MemoryLabels
      <3>1. PICK n \in 0 .. Len(meminfo) : unread = SubSeq(meminfo, n + 1, Len(meminfo))
        <4>1. meminfo \in Meminfos
          BY <2>1, <2>2 DEF MemoryData
        <4>2. Len(meminfo) \in 0 .. Len(meminfo)
          BY <4>1, MeminfoAssumption
        <4> QED
          BY <2>1, <2>2, <4>2 DEF MemoryData, ReadSoFar
      <3>2. meminfo \in Meminfos
        BY <2>1, <2>2 DEF MemoryData
      <3>3. PICK S : meminfo \in Seq(S)
        BY <3>2, MeminfoAssumption
      <3> QED
        BY <3>1, <3>3, SuffixIsLeft
    <2>3. CASE pc \notin MemoryLabels
      <3>1. unread = <<>> /\ meminfo = <<>>
        BY <2>3 DEF MemoryData, MemoryIdle
      <3>2. IsSuffix(<<>>, <<>>)
        <4>1. <<>> \in Seq(Nat) /\ 0 \in 0 .. Len(<<>>) /\ <<>> = SubSeq(<<>>, 0 + 1, Len(<<>>))
          OBVIOUS
        <4> QED
          BY <4>1, SuffixIsLeft
      <3> QED
        BY <3>1, <3>2
    <2> QED
      BY <2>2, <2>3
  <1>3. pc = "returned" => MemoryIdle
    BY DEF MemoryData, MemoryLabels
  <1> QED
    BY <1>1, <1>2, <1>3 DEF MemTypeOK, MemoryData, MemoryTyped, MemoryIdle

\* The type invariant of the system's lines.
LEMMA SystemIsTyped ==
  ASSUME SystemData
  PROVE  SysTypeOK
  <1>1. pc = "returned" => SystemIdle
    BY DEF SystemData, InfoLabels, SystemLabels
  <1> QED
    BY <1>1 DEF SysTypeOK, SystemData, SystemTyped, SystemIdle
-----------------------------------------------------------------------------
\* The unit that the first n options set: that of the last of them that sets one.
UnitBy(f, n) ==
  LET those == {j \in 1 .. n : f[j] \in DOMAIN UnitOf}
  IN  IF those = {} THEN UnitAuto ELSE UnitOf[f[Max(those)]]

\* One more option changes it, if it sets one.
LEMMA UnitByNext ==
  ASSUME NEW f \in ArgLists, NEW n \in 0 .. Len(f) - 1
  PROVE  UnitBy(f, n + 1) = IF f[n + 1] \in DOMAIN UnitOf THEN UnitOf[f[n + 1]] ELSE UnitBy(f, n)
  <1> DEFINE Those(m) == {j \in 1 .. m : f[j] \in DOMAIN UnitOf}
  <1>1. Len(f) \in Nat /\ n \in Nat /\ 1 .. (n + 1) = (1 .. n) \cup {n + 1}
    BY ArgAssumption
  <1>2. \A m : UnitBy(f, m) = IF Those(m) = {} THEN UnitAuto ELSE UnitOf[f[Max(Those(m))]]
    BY DEF UnitBy
  <1>3. CASE f[n + 1] \notin DOMAIN UnitOf
    <2>1. Those(n + 1) = Those(n)
      BY <1>1, <1>3
    <2> HIDE DEF Those
    <2> QED
      BY <1>2, <1>3, <2>1
  <1>4. CASE f[n + 1] \in DOMAIN UnitOf
    <2>1. n + 1 \in Those(n + 1) /\ Those(n + 1) \subseteq 0 .. (n + 1)
      BY <1>1, <1>4
    <2>2. Those(n + 1) \subseteq 1 .. (n + 1)
      OBVIOUS
    <2> HIDE DEF Those
    <2>3. Max(Those(n + 1)) \in Those(n + 1) /\ n + 1 <= Max(Those(n + 1))
      BY <1>1, <2>1, MaxIsGreatest
    <2>4. Max(Those(n + 1)) = n + 1
      BY <1>1, <2>2, <2>3
    <2> QED
      BY <1>2, <1>4, <2>1, <2>4
  <1> QED
    BY <1>3, <1>4

\* At the last option it is the unit asked for.
LEMMA UnitByAll ==
  ASSUME given \in ArgLists
  PROVE  UnitBy(given, Len(given)) = UnitAsked
  <1>1. DOMAIN given = 1 .. Len(given)
    BY ArgAssumption
  <1> QED
    BY <1>1 DEF UnitBy, UnitAsked

\* The unit is what the options looked at so far set, and what they all set once a
\* part is called.
UnitChosen ==
  /\ given \in ArgLists
  /\ pc = "options" => \E n \in 0 .. Len(given) :
                        /\ argv = SubSeq(given, n + 1, Len(given))
                        /\ unit = UnitBy(given, n)
  /\ pc \notin {"options", "exit"} => unit = UnitAsked

\* The unit is one that an option sets, and main has a status once it has ended.
RunData == /\ unit \in Unit \cup {UnitAuto} /\ status \in {-1, 0, 1}
           /\ pc = "exit" <=> status # -1
           /\ UnitChosen

\* An option that is looked at sets the unit, or leaves it.
LEMMA SettingChooses ==
  ASSUME UnitChosen, Setting
  PROVE  UnitChosen'
  <1>1. /\ pc = "options" /\ pc' = pc /\ given' = given
        /\ argv # <<>> /\ argv' = Tail(argv)
        /\ unit' = IF Head(argv) \in DOMAIN UnitOf THEN UnitOf[Head(argv)] ELSE unit
    BY DEF Setting, UnitOf
  <1>2. PICK n \in 0 .. Len(given) : /\ argv = SubSeq(given, n + 1, Len(given))
                                    /\ unit = UnitBy(given, n)
    BY <1>1 DEF UnitChosen
  <1>3. given \in ArgLists /\ given \in Seq(STRING) /\ Len(given) \in Nat
    BY ArgAssumption DEF UnitChosen
  <1>4. IsRest(argv, given, n)
    BY <1>2, <1>3, RestOfLines
  <1>5. /\ n \in 0 .. Len(given) - 1 /\ n + 1 \in 0 .. Len(given)
        /\ Head(argv) = given[n + 1]
        /\ argv' = SubSeq(given, (n + 1) + 1, Len(given))
    BY <1>1, <1>3, <1>4 DEF IsRest
  <1>6. unit' = UnitBy(given, n + 1)
    BY <1>1, <1>2, <1>3, <1>5, UnitByNext
  <1> QED
    BY <1>1, <1>3, <1>5, <1>6 DEF UnitChosen

\* The first part is called when no option is left.
LEMMA CallKeepsUnit ==
  ASSUME UnitChosen, Call, pc' \in Entries
  PROVE  UnitChosen'
  <1>1. /\ UNCHANGED <<given, unit>>
        /\ (pc = "options" /\ argv = <<>>) \/ pc = "returned"
    BY DEF Call, Goto
  <1>2. unit = UnitAsked
    <2>1. CASE pc = "options" /\ argv = <<>>
      <3>1. PICK n \in 0 .. Len(given) : /\ argv = SubSeq(given, n + 1, Len(given))
                                        /\ unit = UnitBy(given, n)
        BY <2>1 DEF UnitChosen
      <3>2. given \in ArgLists /\ given \in Seq(STRING)
        BY ArgAssumption DEF UnitChosen
      <3>3. n = Len(given)
        BY <2>1, <3>1, <3>2, RestOfLines DEF IsRest
      <3> QED
        BY <3>1, <3>2, <3>3, UnitByAll
    <2>2. CASE pc = "returned"
      BY <2>2 DEF UnitChosen
    <2> QED
      BY <1>1, <2>1, <2>2
  <1>3. UnitAsked' = UnitAsked
    BY <1>1 DEF UnitAsked
  <1>4. pc' \notin {"options", "exit"}
    BY DEF Entries
  <1> QED
    BY <1>1, <1>2, <1>3, <1>4 DEF UnitChosen

\* It stays what it is while a part runs and when the run ends.
LEMMA UnitStays ==
  ASSUME UnitChosen, UNCHANGED <<given, unit, argv>>,
         pc' = pc \/ (pc \notin {"options", "exit"} /\ pc' # "options") \/ pc' = "exit"
  PROVE  UnitChosen'
  <1>1. UnitAsked' = UnitAsked
    BY DEF UnitAsked
  <1> QED
    BY <1>1 DEF UnitChosen

\* What the parts have found, and main has set: with IInv, the inductive invariant.
Data == RunData /\ SystemData /\ AppleData /\ PhoneData /\ MemoryData /\ BatteryData

AllLabels == SystemLabels \cup AppleLabels \cup PhoneLabels \cup MemoryLabels \cup BatteryLabels

\* No part's step changes the unit or the options.
LEMMA UnitKept ==
  ASSUME System \/ Apple \/ Phone \/ Memory \/ Battery
  PROVE  unit' = unit /\ given' = given
  <1> USE DEF Goto
  <1>1. CASE System
    BY <1>1 DEF System, LinuxSysInit, MacSysInit, ProcsSize, ProcsFetch, PrintHeader,
                OpenOsRelease, ReadOsRelease, EndOfOsRelease, ProductVersion, SwVersAnswers,
                AndroidDistro, LinuxModel, DeviceTreeModel, AndroidModel, MacModel, OpenPlist,
                StatPlist, MapPlist, DataPlist, ParsePlist, Try, ClosePlist, MakeKey, LookUpModel,
                PrintInfo, LeaveInfo
  <1>2. CASE Apple
    BY <1>2 DEF Apple, AppleCpu, MatchPmgr, Match, NextPmgr, NextDevice, PmgrProperties, PmgrArrays,
                PmgrScan, PmgrRelease, PrintAppleCpu, AppleGpu, NextAccelerator, AcceleratorModel,
                GetProperty, ParentEntry, ParentModel, ReleaseParent, AddName, ReleaseDevice,
                MatchPci, NextPci, PciClass, PciModel, SocName, PrintAppleGpu, LeaveApple, AppleReturn
  <1>3. CASE Phone
    BY <1>3 DEF Phone, AndroidCpu, NextPolicy, EndOfPolicies, CpuZero, PrintPhoneCpu, OpenVulkan,
                VulkanSymbols, CreateInstance, CountDevices, ListDevices, NameDevice,
                DestroyInstance, CloseVulkan, GpuProperty, PrintPhoneGpu, LeavePhone, PhoneReturn
  <1>4. CASE Memory
    BY <1>4 DEF Memory, OpenMeminfo, MeminfoMissing, ReadMeminfoLine, EndOfMeminfo, RamSize,
                HostStatistics, HostStatisticsFail, SwapUsage, PrintMemory, LeaveMemory, MemReturn
  <1>5. CASE Battery
    BY <1>5 DEF Battery, OpenSupplies, NextSupply, CheckType, CheckScope, AddElement, EndOfSupplies,
                NextNode, ReadMetric, PrintBattery, AllPrinted, FreeBatteries, AndroidBattery,
                AndroidLeave, CopyPowerInfo, CopyPowerList, DescribePower, ReleasePower, BatReturn,
                SupplyGoes
  <1> QED
    BY <1>1, <1>2, <1>3, <1>4, <1>5

\* What main does, and what a part does, to the data of the parts at rest.
LEMMA DataRests ==
  ASSUME Data, os' = os, unit' \in Unit \cup {UnitAuto},
         \/ pc' = pc /\ page' = page /\ unit' = unit
         \/ {pc, pc'} \cap AllLabels = {} /\ (pc' \in Entries => page' = <<>>)
  PROVE  /\ UNCHANGED sysVars => SystemData'
         /\ UNCHANGED appleVars => AppleData'
         /\ UNCHANGED phoneVars => PhoneData'
         /\ UNCHANGED memVars => MemoryData'
         /\ UNCHANGED batVars => BatteryData'
  <1>1. \/ pc' = pc /\ page' = page /\ unit' = unit
        \/ /\ {pc, pc'} \cap SystemLabels = {} /\ {pc, pc'} \cap AppleLabels = {}
           /\ {pc, pc'} \cap PhoneLabels = {} /\ {pc, pc'} \cap MemoryLabels = {}
           /\ {pc, pc'} \cap BatteryLabels = {}
           /\ pc' \in {"info", "cpu", "gpu", "memory", "battery"} => page' = <<>>
    BY DEF AllLabels, Entries
  <1>2. UNCHANGED sysVars => SystemData'
    BY <1>1, SystemDataRests DEF Data
  <1>3. UNCHANGED appleVars => AppleData'
    BY <1>1, AppleDataRests DEF Data
  <1>4. UNCHANGED phoneVars => PhoneData'
    BY <1>1, PhoneDataRests DEF Data
  <1>5. UNCHANGED memVars => MemoryData'
    BY <1>1, MemoryDataRests DEF Data
  <1>6. UNCHANGED batVars => BatteryData'
    BY <1>1, BatteryDataRests DEF Data
  <1> QED
    BY <1>2, <1>3, <1>4, <1>5, <1>6

\* main changes nothing that a part has found.
LEMMA MainData ==
  ASSUME IInv, Data, Setting \/ ExitOption \/ Call \/ MainReturns \/ OtherPart \/ Ended
  PROVE  Data'
  <1>1. RunData
    BY DEF Data
  <1>2. /\ os' = os /\ UNCHANGED partVars /\ RunData'
        /\ {pc, pc'} \cap AllLabels = {} /\ (pc' \in Entries => page' = <<>>)
    <2> USE DEF AllLabels, SystemLabels, AppleLabels, PhoneLabels, MemoryLabels, BatteryLabels, Entries
    <2>1. CASE Setting
      <3>1. /\ os' = os /\ UNCHANGED partVars /\ pc = "options" /\ pc' = pc /\ status' = status
            /\ unit' = unit \/ \E k \in DOMAIN UnitOf : unit' = UnitOf[k]
        BY <2>1 DEF Setting
      <3>2. \A k \in DOMAIN UnitOf : UnitOf[k] \in Unit \cup {UnitAuto}
        BY DEF UnitOf, Unit, UnitAuto, KiB, MiB, GiB
      <3>3. UnitChosen'
        BY <1>1, <2>1, SettingChooses DEF RunData
      <3> QED
        BY <1>1, <3>1, <3>2, <3>3 DEF RunData
    <2>2. CASE ExitOption \/ MainReturns
      <3>1. UnitChosen'
        BY <1>1, <2>2, UnitStays DEF ExitOption, MainReturns, Exit, RunData
      <3> QED
        BY <1>1, <2>2, <3>1 DEF ExitOption, MainReturns, Exit, RunData
    <2>3. CASE Call
      <3>1. /\ pc \in {"options", "returned"} /\ calls' = calls + 1 /\ page' = <<>>
            /\ pc' = Parts[calls'] /\ UNCHANGED <<os, unit, status, partVars>>
            /\ pc = "returned" => calls < 9
        BY <2>3, PartsAreEntries DEF Call, Goto
      <3>2. calls' \in 1 .. 9
        BY <3>1 DEF IInv, Rests
      <3>3. pc' \in Entries
        BY <3>1, <3>2, PartsAreEntries
      <3>4. UnitChosen'
        BY <1>1, <2>3, <3>3, CallKeepsUnit DEF RunData
      <3> QED
        BY <1>1, <3>1, <3>3, <3>4 DEF RunData
    <2>4. CASE OtherPart
      <3>1. UnitChosen'
        BY <1>1, <2>4, UnitStays DEF OtherPart, Goto, RunData, runVars
      <3> QED
        BY <1>1, <2>4, <3>1 DEF OtherPart, Goto, RunData, runVars
    <2>5. CASE Ended
      <3>1. UnitChosen'
        BY <1>1, <2>5, UnitStays DEF Ended, vars, runVars, RunData
      <3> QED
        BY <1>1, <2>5, <3>1 DEF Ended, vars, partVars, runVars, RunData
    <2> QED
      BY <2>1, <2>2, <2>3, <2>4, <2>5
  <1>3. unit' \in Unit \cup {UnitAuto}
    BY <1>2 DEF RunData
  <1> QED
    BY <1>2, <1>3, DataRests DEF Data, partVars

\* A supply may go while any part is running.
LEMMA BatteryStays ==
  ASSUME Battery
  PROVE  \/ /\ pc \in BatteryLabels \cup {"battery"}
            /\ pc' \in BatteryLabels \cup {"returned"}
         \/ pc' = pc /\ page' = page
  <1> USE DEF Goto, BatteryLabels
  <1>1. CASE OpenSupplies \/ NextSupply \/ CheckType \/ CheckScope \/ AddElement
             \/ EndOfSupplies \/ NextNode \/ ReadMetric \/ PrintBattery \/ AllPrinted
    BY <1>1 DEF OpenSupplies, NextSupply, CheckType, CheckScope, AddElement,
                EndOfSupplies, NextNode, ReadMetric, PrintBattery, AllPrinted, BatReturn
  <1>2. CASE FreeBatteries \/ AndroidBattery \/ AndroidLeave \/ CopyPowerInfo
             \/ CopyPowerList \/ DescribePower \/ ReleasePower
    BY <1>2 DEF FreeBatteries, AndroidBattery, AndroidLeave, CopyPowerInfo,
                CopyPowerList, DescribePower, ReleasePower, BatReturn
  <1>3. CASE \E s \in present : SupplyGoes(s)
    BY <1>3 DEF SupplyGoes
  <1> QED
    BY <1>1, <1>2, <1>3 DEF Battery

\* A part keeps the unit that main was given, and its status.
LEMMA PartData ==
  ASSUME IInv, Data, UNCHANGED runVars, System \/ Apple \/ Phone \/ Memory \/ Battery,
         os' = os, unit' = unit,
         \/ pc \notin {"options", "exit"} /\ pc' \notin {"options", "exit"}
         \/ pc' = pc
  PROVE  RunData'
  <1>1. UnitChosen'
    BY UnitKept, UnitStays DEF Data, RunData, runVars
  <1> QED
    BY <1>1 DEF Data, RunData, runVars

\* Every step keeps what the parts have found.
LEMMA DataKeeps ==
  ASSUME IInv, Data, [Next]_vars
  PROVE  Data'
  <1> USE DEF Data
  <1>1. CASE Setting \/ ExitOption \/ Call \/ MainReturns \/ OtherPart \/ Ended
    BY <1>1, MainData
  <1>2. CASE System /\ UNCHANGED <<runVars, appleVars, phoneVars, memVars, batVars>>
    <2>1. unit' = unit /\ os' = os /\ SystemData'
      BY <1>2, UnitKept, SystemKeeps, SystemDataKeeps DEF Touches
    <2>2. /\ {pc, pc'} \cap (AppleLabels \cup PhoneLabels \cup MemoryLabels \cup BatteryLabels) = {}
          /\ pc' \notin {"cpu", "gpu", "memory", "battery"}
          /\ pc \notin {"options", "exit"} /\ pc' \notin {"options", "exit"}
      BY <1>2, SystemMoves
         DEF SystemLabels, AppleLabels, PhoneLabels, MemoryLabels, BatteryLabels
    <2>3. RunData'
      BY <1>2, <2>1, <2>2, PartData
    <2>4. AppleData' /\ PhoneData'
      BY <1>2, <2>1, <2>2, AppleDataRests, PhoneDataRests
    <2>5. MemoryData' /\ BatteryData'
      BY <1>2, <2>1, <2>2, <2>3, MemoryDataRests, BatteryDataRests DEF RunData
    <2> QED
      BY <2>1, <2>3, <2>4, <2>5
  <1>3. CASE Apple /\ UNCHANGED <<runVars, sysVars, phoneVars, memVars, batVars>>
    <2>1. unit' = unit /\ os' = os /\ AppleData'
      BY <1>3, UnitKept, AppleKeeps, AppleDataKeeps DEF Touches
    <2>2. /\ {pc, pc'} \cap (SystemLabels \cup PhoneLabels \cup MemoryLabels \cup BatteryLabels) = {}
          /\ pc' \notin {"info", "memory", "battery"}
          /\ pc \notin {"options", "exit"} /\ pc' \notin {"options", "exit"}
      BY <1>3, AppleMoves
         DEF SystemLabels, AppleLabels, PhoneLabels, MemoryLabels, BatteryLabels
    <2>3. RunData'
      BY <1>3, <2>1, <2>2, PartData
    <2>4. SystemData' /\ PhoneData'
      BY <1>3, <2>1, <2>2, SystemDataRests, PhoneDataRests
    <2>5. MemoryData' /\ BatteryData'
      BY <1>3, <2>1, <2>2, <2>3, MemoryDataRests, BatteryDataRests DEF RunData
    <2> QED
      BY <2>1, <2>3, <2>4, <2>5
  <1>4. CASE Phone /\ UNCHANGED <<runVars, sysVars, appleVars, memVars, batVars>>
    <2>1. unit' = unit /\ os' = os /\ PhoneData'
      BY <1>4, UnitKept, PhoneKeeps, PhoneDataKeeps DEF Touches
    <2>2. /\ {pc, pc'} \cap (SystemLabels \cup AppleLabels \cup MemoryLabels \cup BatteryLabels) = {}
          /\ pc' \notin {"info", "cpu", "gpu", "memory", "battery"}
          /\ pc \notin {"options", "exit"} /\ pc' \notin {"options", "exit"}
      BY <1>4, PhoneMoves
         DEF SystemLabels, AppleLabels, PhoneLabels, MemoryLabels, BatteryLabels
    <2>3. RunData'
      BY <1>4, <2>1, <2>2, PartData
    <2>4. SystemData' /\ AppleData'
      BY <1>4, <2>1, <2>2, SystemDataRests, AppleDataRests
    <2>5. MemoryData' /\ BatteryData'
      BY <1>4, <2>1, <2>2, <2>3, MemoryDataRests, BatteryDataRests DEF RunData
    <2> QED
      BY <2>1, <2>3, <2>4, <2>5
  <1>5. CASE Memory /\ UNCHANGED <<runVars, sysVars, appleVars, phoneVars, batVars>>
    <2>1. unit' = unit /\ os' = os /\ MemoryData'
      BY <1>5, UnitKept, MemoryKeeps, MemoryDataKeeps DEF Touches
    <2>2. /\ {pc, pc'} \cap (SystemLabels \cup AppleLabels \cup PhoneLabels \cup BatteryLabels) = {}
          /\ pc' \notin {"info", "cpu", "gpu", "battery"}
          /\ pc \notin {"options", "exit"} /\ pc' \notin {"options", "exit"}
      BY <1>5, MemoryMoves
         DEF SystemLabels, AppleLabels, PhoneLabels, MemoryLabels, BatteryLabels
    <2>3. RunData'
      BY <1>5, <2>1, <2>2, PartData
    <2>4. SystemData' /\ AppleData'
      BY <1>5, <2>1, <2>2, SystemDataRests, AppleDataRests
    <2>5. PhoneData' /\ BatteryData'
      BY <1>5, <2>1, <2>2, PhoneDataRests, BatteryDataRests
    <2> QED
      BY <2>1, <2>3, <2>4, <2>5
  <1>6. CASE Battery /\ UNCHANGED <<runVars, sysVars, appleVars, phoneVars, memVars>>
    <2>1. unit' = unit /\ os' = os /\ BatteryData'
      BY <1>6, UnitKept, BatteryKeeps, BatteryDataKeeps DEF Touches
    <2>2. \/ /\ {pc, pc'} \cap (SystemLabels \cup AppleLabels \cup PhoneLabels \cup MemoryLabels) = {}
             /\ pc' \notin {"info", "cpu", "gpu", "memory"}
             /\ pc \notin {"options", "exit"} /\ pc' \notin {"options", "exit"}
          \/ pc' = pc /\ page' = page
      BY <1>6, BatteryStays
         DEF SystemLabels, AppleLabels, PhoneLabels, MemoryLabels, BatteryLabels
    <2>3. RunData'
      BY <1>6, <2>1, <2>2, PartData
    <2>4. SystemData' /\ AppleData'
      BY <1>6, <2>1, <2>2, SystemDataRests, AppleDataRests
    <2>5. PhoneData' /\ MemoryData'
      BY <1>6, <2>1, <2>2, <2>3, PhoneDataRests, MemoryDataRests DEF RunData
    <2> QED
      BY <2>1, <2>3, <2>4, <2>5
  <1>7. CASE UNCHANGED vars
    <2>1. UNCHANGED <<os, given, unit, pc, page, runVars, sysVars, appleVars, phoneVars,
                      memVars, batVars>>
      BY <1>7 DEF vars
    <2>2. RunData'
      BY <2>1, UnitStays DEF RunData, runVars
    <2> QED
      BY <2>1, <2>2, DataRests DEF RunData
  <1> QED
    BY <1>1, <1>2, <1>3, <1>4, <1>5, <1>6, <1>7 DEF Next

\* At first no part has found anything.
LEMMA DataBegins ==
  ASSUME Init
  PROVE  Data
  <1>1. pc = "options" /\ page = <<>> /\ unit = UnitAuto /\ status = -1
    BY DEF Init
  <1>2. pc \notin AllLabels \cup Entries
    BY <1>1 DEF AllLabels, SystemLabels, AppleLabels, PhoneLabels, MemoryLabels, BatteryLabels, Entries
  <1>3. RunData
    <2>1. given \in ArgLists /\ argv = given /\ given \in Seq(STRING)
      BY ArgAssumption DEF Init
    <2>2. argv = SubSeq(given, 0 + 1, Len(given)) /\ 0 \in 0 .. Len(given)
      BY <2>1
    <2>3. unit = UnitBy(given, 0)
      BY <1>1 DEF UnitBy
    <2> QED
      BY <1>1, <2>1, <2>2, <2>3 DEF RunData, UnitChosen
  <1>4. SystemData
    <2>1. SystemTyped
      BY DEF Init, SysInit, SystemTyped, NoSys, NoSaid, SwVers
    <2>2. SystemIdle
      BY DEF Init, SysInit, SystemIdle, NoSaid
    <2>3. ProcsKept
      BY DEF Init, SysInit, ProcsKept, NoSys, NoSaid
    <2>4. DistroKept /\ MacKept /\ InfoPage
      BY <1>1 DEF DistroKept, MacKept, InfoPage, InfoLabels, SystemLabels
    <2> QED
      BY <2>1, <2>2, <2>3, <2>4 DEF SystemData
  <1>5. AppleData
    <2>1. AppleIdle
      BY DEF Init, AppleInit, AppleIdle
    <2>2. AppleTyped
      BY <2>1, AppleIdleTyped
    <2> QED
      BY <1>1, <2>1, <2>2 DEF AppleData, WalkKept, RegistryWalk, ApplePage, PmgrLabels, WalkLabels,
                              DeviceLabels, AppleLabels
  <1>6. PhoneData
    <2>1. PhoneIdle
      BY DEF Init, PhoneInit, PhoneIdle
    <2> QED
      BY <1>1, <2>1, NoVkTyped DEF PhoneData, PhoneIdle, PhoneTyped, ClockSoFar, CardKept
  <1>7. MemoryData
    BY <1>1, <1>2, MemoryTypes
       DEF Init, MemInit, MemoryData, MemoryTyped, MemoryIdle, AllLabels, Entries
  <1>8. BatteryData
    BY <1>1, <1>2 DEF Init, BatInit, BatteryData, BatteryIdle, AllLabels
  <1> QED
    BY <1>3, <1>4, <1>5, <1>6, <1>7, <1>8 DEF Data

\* Both invariants hold in every state of a run.
LEMMA DataInvariance == Spec => [](IInv /\ Data)
  <1>1. Init => IInv /\ Data
    BY StartsAtRest, DataBegins
  <1>2. IInv /\ Data /\ [Next]_vars => (IInv /\ Data)'
    BY StepKeeps, DataKeeps
  <1> QED
    BY <1>1, <1>2, PTL DEF Spec
-----------------------------------------------------------------------------
\* Every variable of a run keeps its type on every machine: what is unread is the end of
\* what was found, an index is within its list, a battery has one node and no more, and
\* a part that has returned leaves its variables as it found them (main and the
\* platform files).
THEOREM TypesAreKept == Spec => []TypeOK
  <1>1. IInv /\ Data => TypeOK
    <2>1. SUFFICES ASSUME IInv, Data PROVE TypeOK
      OBVIOUS
    <2>2. SysTypeOK /\ AppleTypeOK /\ PhoneTypeOK /\ MemTypeOK /\ BatTypeOK
      BY <2>1, SystemIsTyped, AppleIsTold, PhoneIsTold, MemoryIsTyped, BatteriesTyped DEF Data
    <2>3. os \in Platform /\ calls \in 0 .. Len(Parts)
      BY <2>1, PartsAreEntries DEF IInv, Rests
    <2>4. RunData
      BY <2>1 DEF Data
    <2> QED
      BY <2>2, <2>3, <2>4 DEF TypeOK, RunData
  <1> QED
    BY <1>1, DataInvariance, PTL

\* The RAM and swap lines tell what /proc/meminfo says as a whole, each number in bytes
\* rounded to the nearest in the unit of the last option that sets one, with the right
\* percentage, in whatever order its lines come and whichever are missing; on macOS they
\* tell what the counters and the swap space say (main, hw_parse_meminfo,
\* hw_get_ram_info, hw_get_swap_info, util_format_size).
THEOREM MemoryTold == Spec => []MemoryIsTrue
  <1>1. IInv /\ Data => MemoryIsTrue
    <2>1. Data /\ pc = "mem_shown" => unit = UnitAsked
      BY DEF Data, RunData, UnitChosen
    <2> QED
      BY <2>1, MeminfoIsTold, CountersAreTold DEF Data, MemoryIsTrue
  <1> QED
    BY <1>1, DataInvariance, PTL

\* Every battery of the system that stays plugged in is printed with what its files
\* say, in whatever order the directory lists the supplies and whatever is pulled out
\* meanwhile, and there are no more lines than batteries.  On macOS the percentage is
\* never above the ratio of the capacities, at most one percent below it, and 100 just
\* when the battery is full
\* (hw_get_bat_info).
THEOREM BatteriesTold == Spec => []BatteriesAreTrue
  <1>1. IInv /\ Data => BatteriesAreTrue
    BY BatteriesAreTold DEF Data
  <1> QED
    BY <1>1, DataInvariance, PTL

\* The number of the processes is one that the system said, or 0; the uptime adds up;
\* the name is the PRETTY_NAME of os-release, or its last NAME; the version is a whole
\* one or "unknown"; a Mac has its marketing name whenever the list has one; whatever
\* fails on the way (sys_init, sys_get_distro, sys_get_model_name).
THEOREM SystemTold == Spec => []SystemIsTrue
  <1>1. IInv /\ Data => SystemIsTrue
    BY SystemIsTold DEF Data
  <1> QED
    BY <1>1, DataInvariance, PTL

\* The clock of an ARM Mac is the highest of the first power manager that tells any, in
\* Hz, whether its tables are in kHz or in Hz, and none is shown when none tells one; a
\* call that fails loses a node and mixes no two (hw_get_cpu_freq).
THEOREM ClockTold == Spec => []ClockIsTrue
  <1>1. IInv /\ Data => ClockIsTrue
    BY AppleIsTold DEF Data
  <1> QED
    BY <1>1, DataInvariance, PTL

\* The clock of a phone is the highest that a policy tells, or that of CPU 0 when none
\* does; no device that is not there is asked for its name, whatever comes or goes
\* between the two listings, and the name is that of a device that was listed or of a
\* vendor (hw_get_cpu_freq, hw_read_vulkan_renderer).
THEOREM PhoneTold == Spec => []PhoneIsTrue
  <1>1. IInv /\ Data => PhoneIsTrue
    BY PhoneIsTold DEF Data
  <1> QED
    BY <1>1, DataInvariance, PTL

\* What is told of a processor on macOS, and of processor and card on Android, is true
\* of the registry, the files and the driver that were read.
THEOREM ProcessorsTold == Spec => []ProcessorsAreTrue
  <1>1. ClockIsTrue /\ PhoneIsTrue => ProcessorsAreTrue
    BY DEF ProcessorsAreTrue
  <1> QED
    BY <1>1, ClockTold, PhoneTold, PTL
-----------------------------------------------------------------------------
(* Bitset.tla.  Every number below the capacity has its block (SlotInBlocks), *)
(* and two numbers with the same block and the same position are one number   *)
(* (SlotIsUnique).                                                            *)

\* SET_SIZE leaves room for the block of every number below the capacity, the
\* numbers of a last block that is not full included.
LEMMA SlotInBlocks ==
  ASSUME NEW capacity \in Nat, NEW num \in Nat, num < capacity
  PROVE  /\ num \div BlockBits \in 0 .. Blocks(capacity) - 1
         /\ num % BlockBits \in 0 .. BlockBits - 1
<1> USE BlockAssumption
<1> DEFINE q == num \div BlockBits
           r == num % BlockBits
           top == capacity + BlockBits - 1
           blocks == top \div BlockBits
<1>1. /\ q \in Nat
      /\ r \in 0 .. (BlockBits - 1)
      /\ num = BlockBits * q + r
  BY DivMod
<1>2. top \in Nat
  OBVIOUS
<1>3. /\ blocks \in Nat
      /\ top % BlockBits \in 0 .. (BlockBits - 1)
      /\ top = BlockBits * blocks + (top % BlockBits)
  BY <1>2, DivMod
<1>4. q < blocks
  <2> SUFFICES ASSUME blocks <= q PROVE FALSE
    BY <1>1, <1>3
  <2>1. BlockBits * blocks <= BlockBits * q
    BY <1>1, <1>3, ProductMonotone
  <2>2. BlockBits * blocks \in Nat /\ BlockBits * q \in Nat
    BY <1>1, <1>3
  <2> HIDE DEF q, r, blocks
  <2>3. QED
    BY <1>1, <1>3, <2>1, <2>2
<1>5. Blocks(capacity) = blocks
  BY DEF Blocks
<1> HIDE DEF q, r, blocks
<1>6. q \in 0 .. Blocks(capacity) - 1 /\ r \in 0 .. BlockBits - 1
  BY <1>1, <1>3, <1>4, <1>5
<1>7. QED
  BY <1>6 DEF q, r

\* Different numbers have different bits.
LEMMA SlotIsUnique ==
  ASSUME NEW a \in Nat, NEW b \in Nat,
         a \div BlockBits = b \div BlockBits, a % BlockBits = b % BlockBits
  PROVE  a = b
<1>1. a = BlockBits * (a \div BlockBits) + (a % BlockBits)
  BY DivMod, BlockAssumption
<1>2. b = BlockBits * (b \div BlockBits) + (b % BlockBits)
  BY DivMod, BlockAssumption
<1>3. QED
  BY <1>1, <1>2
-----------------------------------------------------------------------------
\* A set on which no operation has been called contains nothing.
THEOREM EmptyContainsNothing ==
  ASSUME NEW capacity \in Nat, NEW num \in Nat
  PROVE  /\ EmptyBitset(capacity) \in Bitsets(capacity)
         /\ ~SetContains(EmptyBitset(capacity), num)
<1>1. EmptyBitset(capacity) \in Bitsets(capacity)
  BY DEF EmptyBitset, Bitsets
<1>2. ~SetContains(EmptyBitset(capacity), num)
  BY SlotInBlocks DEF EmptyBitset, SetContains
<1>3. QED
  BY <1>1, <1>2

\* set_add puts in the number given, unless it is not below the capacity, and
\* no other: no neighbour in the block, none at the same position of another
\* block.
THEOREM AddIsUnion ==
  ASSUME NEW capacity \in Nat, NEW set \in Bitsets(capacity),
         NEW num \in Nat, NEW other \in Nat
  PROVE  /\ SetAdd(set, num) \in Bitsets(capacity)
         /\ SetContains(SetAdd(set, num), other)
              <=> SetContains(set, other) \/ (other = num /\ num < capacity)
<1>1. CASE ~(num < capacity)
  BY <1>1 DEF SetAdd, Bitsets
<1>2. CASE num < capacity
  <2> DEFINE b == num \div BlockBits
             p == num % BlockBits
             ob == other \div BlockBits
             op == other % BlockBits
             new == [set.bits EXCEPT ![b] = @ \cup {p}]
  <2>1. b \in 0 .. Blocks(capacity) - 1 /\ p \in 0 .. BlockBits - 1
    BY <1>2, SlotInBlocks
  <2>2. other < capacity => ob \in 0 .. Blocks(capacity) - 1
    BY SlotInBlocks
  <2>3. ob = b /\ op = p => other = num
    BY SlotIsUnique
  <2>4. /\ set = [bits |-> set.bits, capacity |-> capacity]
        /\ set.capacity = capacity
        /\ set.bits \in [0 .. Blocks(capacity) - 1 -> SUBSET (0 .. BlockBits - 1)]
    BY DEF Bitsets
  <2>5. SetAdd(set, num) = [bits |-> new, capacity |-> capacity]
    BY <1>2, <2>4 DEF SetAdd
  <2>6. SetContains(set, other) <=> other < capacity /\ op \in set.bits[ob]
    BY <2>4 DEF SetContains
  <2>7. SetContains(SetAdd(set, num), other) <=> other < capacity /\ op \in new[ob]
    BY <2>5 DEF SetContains
  <2>8. other = num => ob = b /\ op = p
    OBVIOUS
  <2> HIDE DEF b, p, ob, op
  <2>9. new \in [0 .. Blocks(capacity) - 1 -> SUBSET (0 .. BlockBits - 1)]
    BY <2>1, <2>4
  <2>10. other < capacity =>
           (op \in new[ob] <=> op \in set.bits[ob] \/ (ob = b /\ op = p))
    BY <2>1, <2>2, <2>4
  <2>11. SetAdd(set, num) \in Bitsets(capacity)
    BY <2>5, <2>9 DEF Bitsets
  <2>12. QED
    BY <1>2, <2>3, <2>6, <2>7, <2>8, <2>10, <2>11
<1>3. QED
  BY <1>1, <1>2

\* set_remove takes out the number given and no other.
THEOREM RemoveIsDifference ==
  ASSUME NEW capacity \in Nat, NEW set \in Bitsets(capacity),
         NEW num \in Nat, NEW other \in Nat
  PROVE  /\ SetRemove(set, num) \in Bitsets(capacity)
         /\ SetContains(SetRemove(set, num), other)
              <=> SetContains(set, other) /\ other # num
<1>1. CASE ~(num < capacity)
  BY <1>1 DEF SetRemove, SetContains, Bitsets
<1>2. CASE num < capacity
  <2> DEFINE b == num \div BlockBits
             p == num % BlockBits
             ob == other \div BlockBits
             op == other % BlockBits
             new == [set.bits EXCEPT ![b] = @ \ {p}]
  <2>1. b \in 0 .. Blocks(capacity) - 1 /\ p \in 0 .. BlockBits - 1
    BY <1>2, SlotInBlocks
  <2>2. other < capacity => ob \in 0 .. Blocks(capacity) - 1
    BY SlotInBlocks
  <2>3. ob = b /\ op = p => other = num
    BY SlotIsUnique
  <2>4. /\ set = [bits |-> set.bits, capacity |-> capacity]
        /\ set.capacity = capacity
        /\ set.bits \in [0 .. Blocks(capacity) - 1 -> SUBSET (0 .. BlockBits - 1)]
    BY DEF Bitsets
  <2>5. SetRemove(set, num) = [bits |-> new, capacity |-> capacity]
    BY <1>2, <2>4 DEF SetRemove
  <2>6. SetContains(set, other) <=> other < capacity /\ op \in set.bits[ob]
    BY <2>4 DEF SetContains
  <2>7. SetContains(SetRemove(set, num), other) <=> other < capacity /\ op \in new[ob]
    BY <2>5 DEF SetContains
  <2>8. other = num => ob = b /\ op = p
    OBVIOUS
  <2> HIDE DEF b, p, ob, op
  <2>9. new \in [0 .. Blocks(capacity) - 1 -> SUBSET (0 .. BlockBits - 1)]
    BY <2>1, <2>4
  <2>10. other < capacity =>
           (op \in new[ob] <=> op \in set.bits[ob] /\ ~(ob = b /\ op = p))
    BY <2>1, <2>2, <2>4
  <2>11. SetRemove(set, num) \in Bitsets(capacity)
    BY <2>5, <2>9 DEF Bitsets
  <2>12. QED
    BY <1>2, <2>3, <2>6, <2>7, <2>8, <2>10, <2>11
<1>3. QED
  BY <1>1, <1>2
===============================================================================
