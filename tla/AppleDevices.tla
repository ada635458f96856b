---------------------------- MODULE AppleDevices ----------------------------
(***************************************************************************)
(* hw_get_cpu_info and hw_get_gpu_info of macos/hardware.c.  The clock is  *)
(* the peak of the DVFS tables of a power-management node of the IORegistry*)
(* or comes from a table of SoC names; the GPU is asked of the             *)
(* accelerators, then of the PCI devices, then taken to be the SoC.  Any   *)
(* call of IOKit or CoreFoundation may fail.  A name is a text             *)
(* (FileReaders).                                                          *)
(***************************************************************************)
EXTENDS Program, FileReaders, SequencesExt, FiniteSetsExt

CONSTANTS
  AppleCpus,      (* records [arm, packages, brand, physical, logical, levels, *)
                  (* pcores, ecores, hz]; but for arm, sets: what sysctl says  *)
  Registries,     (* sequences of nodes [name, tables]: tables is a sequence   *)
                  (* of [key, data], data the set of a sequence of numbers, or *)
                  (* empty when the value is of another type                   *)
  Accelerators,   (* sequences of [own, parent]: the model of the service and  *)
                  (* of its parent, Absent or [type, name]                     *)
  PciDevices,     (* sequences of [class, model]; class is Absent or           *)
                  (* [type, length, base]                                      *)
  MinHz, MaxHz, MinKHz, MaxKHz, HzPerKHz

\* The bounds are the same clocks in both units, and no number is plausible in both.
ASSUME ClockAssumption ==
  /\ {MinKHz, HzPerKHz} \subseteq Nat \ {0} /\ MaxKHz \in Nat
  /\ MinHz = MinKHz * HzPerKHz /\ MaxHz = MaxKHz * HzPerKHz /\ MaxKHz < MinHz

ASSUME DeviceListAssumption ==
  /\ Registries \subseteq Seq([name : STRING, tables : Seq([key : STRING, data : SUBSET Seq(Nat)])])
  /\ \A list \in Accelerators \cup PciDevices : Len(list) \in Nat

Absent == [type |-> "absent", name |-> <<>>]

VARIABLES
  chip,     (* the record of AppleCpus in use                                *)
  walked,   (* the lists that iterators have been given for, the one in hand *)
            (* last                                                          *)
  nth,      (* how many of its members have been given                       *)
  peak,     (* the highest clock found, in Hz                                *)
  names,    (* gpu_buf, its lines                                            *)
  value,    (* model, class_code: the property in hand                       *)
  failed    (* history: a call failed that need not have                     *)

appleVars == <<chip, walked, nth, peak, names, value, failed>>

NoChip == [arm |-> FALSE]

AppleInit ==
  /\ chip = NoChip /\ walked = <<>> /\ nth = 0 /\ peak = 0 /\ names = <<>>
  /\ value = Absent /\ failed = FALSE

AppleReturn ==
  /\ Goto("returned")
  /\ chip' = NoChip /\ walked' = <<>> /\ nth' = 0 /\ peak' = 0 /\ names' = <<>>
  /\ value' = Absent /\ failed' = FALSE
-----------------------------------------------------------------------------
(* The processor                                                           *)

\* hw_get_cpu_package, hw_get_cpu_model, hw_get_cpu_cores: the count of
\* packages is cut to 8 bits.
Packages(c) == LET n == ReadOr(c.packages, 0)
               IN  IF n = 0 THEN 1 ELSE n % (Uint8Max + 1)

TrimRight(t) == SubSeq(t, 1, Max({0} \cup {j \in DOMAIN t : t[j] # " "}))

Model(c) ==
  LET brand == ReadOr(c.brand, <<>>)
      text  == TrimRight(brand)
      count == <<Packages(c), " ", "x">> \o (IF text = <<>> THEN <<>> ELSE <<" ">>)
  IN  IF brand = <<>> THEN <<"Unknown">>
      ELSE (IF Packages(c) > 1 THEN count ELSE <<>>) \o text

\* The second kind of core is asked for unless there is one level; a number of
\* levels that cannot be read counts as two.
Cores(c) ==
  [physical |-> ReadOr(c.physical, 0), logical |-> ReadOr(c.logical, 0),
   p |-> IF c.arm THEN {ReadOr(c.pcores, 0)} ELSE {},
   e |-> IF c.arm /\ ReadOr(c.levels, 2) > 1 THEN c.ecores \ {0} ELSE {}]

AppleCpu ==
  /\ pc = "cpu" /\ os = "macos"
  /\ \E c \in AppleCpus :
       /\ chip' = c
       /\ Goto(IF c.arm THEN "pmgr_match" ELSE "cpu_print")
  /\ UNCHANGED <<held, page, walked, nth, peak, names, value, failed>>

\* get_matching_iterator for some class, with one of the lists ds.
Match(ds, next, none) ==
  \/ /\ \E d \in ds : walked' = Append(walked, d)
     /\ nth' = 0
     /\ Acquire({"iterator"})
     /\ Goto(next)
     /\ UNCHANGED failed
  \/ /\ failed' = TRUE
     /\ Goto(none)
     /\ UNCHANGED <<held, walked, nth>>

MatchPmgr ==
  /\ pc = "pmgr_match"
  /\ Match(Registries, "pmgr_next", "cpu_print")
  /\ UNCHANGED <<page, chip, peak, names, value>>

\* IOIteratorNext, in any of the three walks.
NextDevice(at, found, over) ==
  /\ pc = at
  /\ IF nth < Len(Last(walked))
       THEN Acquire({"service"}) /\ nth' = nth + 1 /\ Goto(found)
       ELSE Release({"iterator"}) /\ UNCHANGED nth /\ Goto(over)
  /\ UNCHANGED <<page, chip, walked, peak, names, value, failed>>

Device == Last(walked)[nth]

NextPmgr == NextDevice("pmgr_next", "pmgr_node", "cpu_print")

\* Only a node of one of the two names is looked into.
PmgrProperties ==
  /\ pc = "pmgr_node"
  /\ \/ /\ Device.name \in {"pmgr", "pmgr-child"}
        /\ Acquire({"properties"})
        /\ Goto(IF Device.tables = <<>> THEN "pmgr_scanned" ELSE "pmgr_tables")
        /\ UNCHANGED failed
     \/ /\ failed' = (failed \/ Device.name \in {"pmgr", "pmgr-child"})
        /\ Goto("pmgr_scanned")
        /\ UNCHANGED held
  /\ UNCHANGED <<page, chip, walked, nth, peak, names, value>>

\* dvfs_peak_from_properties asks for two arrays, and needs both.
PmgrArrays ==
  /\ pc = "pmgr_tables"
  /\ \E got \in SUBSET {"keys", "values"} :
       /\ Acquire(got)
       /\ failed' = (failed \/ got # {"keys", "values"})
       /\ Goto(IF got = {"keys", "values"} THEN "pmgr_scan" ELSE "pmgr_scanned")
  /\ UNCHANGED <<page, chip, walked, nth, peak, names, value>>

\* dvfs_normalize_frequency: older tables are in Hz, newer ones in kHz.
Normalize(raw) ==
  IF MinHz <= raw /\ raw <= MaxHz THEN raw
  ELSE IF MinKHz <= raw /\ raw <= MaxKHz THEN raw * HzPerKHz ELSE 0

\* dvfs_peak_frequency over every table whose name and type are right.
PeakOf(tables) ==
  LET raws == UNION {Range(d) : d \in UNION {t.data :
                       t \in {t \in Range(tables) : t.key = "voltage-states"}}}
  IN  Max({0} \cup {Normalize(raw) : raw \in raws})

PmgrScan ==
  /\ pc = "pmgr_scan"
  /\ peak' = PeakOf(Device.tables)
  /\ Goto("pmgr_scanned")
  /\ UNCHANGED <<held, page, chip, walked, nth, names, value, failed>>

\* Variant: a node that has told a clock does not end the walk.
PmgrReleaseGoesOn ==
  /\ pc = "pmgr_scanned"
  /\ Release({h \in {"keys", "values", "properties"} : Holds(h)} \cup {"service"})
  /\ Goto("pmgr_next")
  /\ UNCHANGED <<page, appleVars>>

\* Variant: a node that has told a clock ends the walk without its iterator.
PmgrReleaseEarly ==
  /\ pc = "pmgr_scanned"
  /\ Release({h \in {"keys", "values", "properties"} : Holds(h)} \cup {"service"})
  /\ Goto(IF peak > 0 THEN "cpu_print" ELSE "pmgr_next")
  /\ UNCHANGED <<page, appleVars>>

\* The arrays, the properties and the service go; a node that has told a clock
\* is the last one.
PmgrRelease ==
  /\ pc = "pmgr_scanned"
  /\ Release({h \in {"keys", "values", "properties"} : Holds(h)} \cup {"service"}
               \cup (IF peak > 0 THEN {"iterator"} ELSE {}))
  /\ Goto(IF peak > 0 THEN "cpu_print" ELSE "pmgr_next")
  /\ UNCHANGED <<page, appleVars>>

\* m_series: the names in the order they are looked for.
Tiers == <<<<" ", "Ultra">>, <<" ", "Max">>, <<" ", "Pro">>, <<>>>>
SocTable ==
  FlattenSeq([g \in 1 .. 5 |->
    LET entry == [t \in 1 .. 4 |-> <<(<<"M1", "M2", "M3", "M4", "M5">>)[g]>> \o Tiers[t]]
    IN  IF g > 3 THEN Tail(entry) ELSE entry])


\* The entry whose clocks are shown, none or the first the model names.
TableClock(model) ==
  LET those == {j \in DOMAIN SocTable : PlaceOf(SocTable[j], model) > 0}
  IN  IF those = {} THEN <<>> ELSE SocTable[Min(those)]

PrintAppleCpu ==
  /\ pc = "cpu_print"
  /\ PrintLine("CPU",
       [model |-> Model(chip), cores |-> Cores(chip),
        hz    |-> IF chip.arm THEN peak ELSE ReadOr(chip.hz, 0),
        soc   |-> IF chip.arm /\ peak = 0 THEN TableClock(Model(chip)) ELSE <<>>])
  /\ Goto("apple_shown")
  /\ UNCHANGED <<held, appleVars>>
-----------------------------------------------------------------------------
(* The GPU                                                                 *)

\* cf_value_to_string gives a string even when it is empty, but no empty data.
Text(v) == IF v.type = "string" \/ (v.type = "data" /\ v.name # <<>>) THEN {v.name} ELSE {}

\* A name goes on a line of its own, unless nothing has been written so far.
Listed(lines, v) ==
  IF Text(v) = {} \/ (lines = <<>> /\ v.name = <<>>) THEN lines ELSE Append(lines, v.name)

\* A property of a device, which may be refused.
GetProperty(v, h, have, none) ==
  \/ /\ v # Absent
     /\ value' = v
     /\ Acquire({h})
     /\ Goto(have)
     /\ UNCHANGED failed
  \/ /\ failed' = (failed \/ v # Absent)
     /\ Goto(none)
     /\ UNCHANGED <<held, value>>

AppleGpu ==
  /\ pc = "gpu" /\ os = "macos"
  /\ \E c \in AppleCpus : chip' = c
  /\ Match(Accelerators, "gpu_next", "gpu_pci")
  /\ UNCHANGED <<page, peak, names, value>>

NextAccelerator ==
  NextDevice("gpu_next", "gpu_model", IF names = <<>> THEN "gpu_pci" ELSE "gpu_print")

AcceleratorModel ==
  /\ pc = "gpu_model"
  /\ GetProperty(Device.own, "model", "gpu_name", "gpu_parent")
  /\ UNCHANGED <<page, chip, walked, nth, peak, names>>

ParentEntry ==
  /\ pc = "gpu_parent"
  /\ \/ Acquire({"parent"}) /\ Goto("gpu_parent_model") /\ UNCHANGED failed
     \/ failed' = TRUE /\ Goto("gpu_release") /\ UNCHANGED held
  /\ UNCHANGED <<page, chip, walked, nth, peak, names, value>>

ParentModel ==
  /\ pc = "gpu_parent_model"
  /\ GetProperty(Device.parent, "model", "gpu_parent_release", "gpu_parent_release")
  /\ UNCHANGED <<page, chip, walked, nth, peak, names>>

ReleaseParent ==
  /\ pc = "gpu_parent_release"
  /\ Release({"parent"})
  /\ Goto(IF Holds("model") THEN "gpu_name" ELSE "gpu_release")
  /\ UNCHANGED <<page, appleVars>>

\* Both walks end a device this way; the class code is held in the second.  A
\* string that cannot be converted, or is too long, is not listed.
AddName ==
  /\ pc = "gpu_name"
  /\ \/ names' = Listed(names, value) /\ UNCHANGED failed
     \/ value.type = "string" /\ failed' = TRUE /\ UNCHANGED names
  /\ value' = Absent
  /\ Release({"model"})
  /\ Goto("gpu_release")
  /\ UNCHANGED <<page, chip, walked, nth, peak>>

ReleaseDevice ==
  /\ pc = "gpu_release"
  /\ Release({h \in {"class_code"} : Holds(h)} \cup {"service"})
  /\ value' = Absent
  /\ Goto(IF "class" \in DOMAIN Device THEN "pci_next" ELSE "gpu_next")
  /\ UNCHANGED <<page, chip, walked, nth, peak, names, failed>>

MatchPci ==
  /\ pc = "gpu_pci"
  /\ Match(PciDevices, "pci_next", "gpu_soc")
  /\ UNCHANGED <<page, chip, peak, names, value>>

NextPci ==
  NextDevice("pci_next", "pci_class", IF names = <<>> THEN "gpu_soc" ELSE "gpu_print")

PciClass ==
  /\ pc = "pci_class"
  /\ GetProperty(Device.class, "class_code", "pci_display", "gpu_release")
  /\ UNCHANGED <<page, chip, walked, nth, peak, names>>

IsDisplay(v) == v.type = "data" /\ v.length >= 3 /\ v.base = 3

PciModel ==
  /\ pc = "pci_display"
  /\ IF IsDisplay(value)
       THEN GetProperty(Device.model, "model", "gpu_name", "gpu_release")
       ELSE Goto("gpu_release") /\ UNCHANGED <<held, value, failed>>
  /\ UNCHANGED <<page, chip, walked, nth, peak, names>>

UpToBracket(brand) ==
  LET at == PlaceOf(<<" ", "(">>, brand)
  IN  TrimRight(IF at = 0 THEN brand ELSE SubSeq(brand, 1, at - 1))

\* hw_get_gpu_soc_name, on ARM only: the brand up to a bracket.
SocName ==
  /\ pc = "gpu_soc"
  /\ LET soc == UpToBracket(ReadOr(chip.brand, <<>>))
     IN  names' = IF chip.arm /\ soc # <<>> THEN <<soc>> ELSE <<>>
  /\ Goto("gpu_print")
  /\ UNCHANGED <<held, page, chip, walked, nth, peak, value, failed>>

PrintAppleGpu ==
  /\ pc = "gpu_print"
  /\ IF names # <<>> THEN PrintLine("GPU", names) ELSE UNCHANGED page
  /\ Goto("apple_shown")
  /\ UNCHANGED <<held, appleVars>>

LeaveApple ==
  /\ pc = "apple_shown"
  /\ AppleReturn
  /\ UNCHANGED <<held, page>>

Apple ==
  \/ AppleCpu \/ MatchPmgr \/ NextPmgr \/ PmgrProperties \/ PmgrArrays
  \/ PmgrScan \/ PmgrRelease \/ PrintAppleCpu
  \/ AppleGpu \/ NextAccelerator \/ AcceleratorModel \/ ParentEntry
  \/ ParentModel \/ ReleaseParent \/ AddName \/ ReleaseDevice
  \/ MatchPci \/ NextPci \/ PciClass \/ PciModel \/ SocName
  \/ PrintAppleGpu \/ LeaveApple
-----------------------------------------------------------------------------
\* The variables are well formed, and a clock is 0 or plausible.
AppleTypeOK ==
  /\ peak \in {0} \cup MinHz .. MaxHz
  /\ Holds("iterator") => walked # <<>> /\ nth <= Len(Last(walked))
  /\ Holds("service") => nth > 0
  /\ pc = "returned" => walked = <<>> /\ names = <<>> /\ peak = 0 /\ value = Absent

\* The clocks a node's tables tell of.
ClocksIn(node) ==
  {h \in MinHz .. MaxHz :
     /\ node.name \in {"pmgr", "pmgr-child"}
     /\ \E t \in Range(node.tables) : \E d \in t.data : \E raw \in Range(d) :
          t.key = "voltage-states" /\ h \in {raw, raw * HzPerKHz}}

\* A clock is the highest of one node, and of the first one that has any when no
\* call failed.
IsPeak(hz) ==
  LET nodes == IF walked = <<>> THEN <<>> ELSE walked[1]
      tell  == {j \in DOMAIN nodes : ClocksIn(nodes[j]) # {}}
  IN  IF hz > 0 THEN \E j \in tell : hz = Max(ClocksIn(nodes[j])) /\ (failed \/ j = Min(tell))
                ELSE failed \/ tell = {}

\* On an ARM Mac the clock shown is the highest that the registry tells of, of its
\* first node that tells any, and none is shown when there is none; a call that
\* fails loses a node and mixes no two (hw_get_cpu_freq).
ClockIsTrue ==
  pc = "apple_shown" =>
    \A l \in Range(page) : l.label = "CPU" /\ chip.arm => IsPeak(l.text.hz)

\* Without a clock, the table's entry is the most specific the model's name contains.
EntryIsTrue(text) ==
  LET known == {soc \in Range(SocTable) : PlaceOf(soc, text.model) > 0}
  IN  IF known = {} THEN text.soc = <<>>
      ELSE text.soc \in known /\ ~\E soc \in known : IsStrictPrefix(text.soc, soc)

\* The models a device may be called by, the one that counts first.
ModelsOf(d) ==
  IF "class" \notin DOMAIN d THEN SelectSeq(<<d.own, d.parent>>, LAMBDA v : v # Absent)
  ELSE IF d.class # Absent /\ IsDisplay(d.class) THEN <<d.model>> ELSE <<>>

\* A value that is a name: the empty string is one, empty data is none.
IsName(v) == v.type = "string" \/ (v.type = "data" /\ v.name # <<>>)

\* The names the devices of a list have to tell, in its order.  Nothing is written
\* before the first that has letters; behind it an empty one is a line.
NamesIn(list) ==
  LET first(d) == IF ModelsOf(d) = <<>> THEN Absent ELSE ModelsOf(d)[1]
      told     == SelectSeq([j \in DOMAIN list |-> first(list[j])], IsName)
      letters  == {j \in DOMAIN told : told[j].name # <<>>}
  IN  IF letters = {} THEN <<>>
      ELSE [j \in 1 .. Len(told) - Min(letters) + 1 |-> told[j + Min(letters) - 1].name]

\* On macOS a clock that nothing tells is taken from the right entry of the table;
\* and the GPU's lines are the names of the accelerators, or else of the display
\* devices on the PCI bus, or else of the SoC, each once and in their order, a blank
\* line just for a later device whose name is an empty string; whatever fails, no
\* line is anything but a device's name (hw_get_cpu_freq, hw_get_gpu_info).
AppleIsTrue ==
  pc = "apple_shown" => \A l \in Range(page) :
    IF l.label = "CPU" THEN chip.arm /\ l.text.hz = 0 => EntryIsTrue(l.text)
    ELSE LET lists == {j \in DOMAIN walked : NamesIn(walked[j]) # <<>>}
         IN  IF ~failed /\ lists # {} THEN l.text = NamesIn(walked[Min(lists)])
             ELSE \/ \E list \in Range(walked) :
                       /\ Len(l.text) <= Len(list)
                       /\ \A n \in Range(l.text) : \E d \in Range(list) :
                            \E v \in Range(ModelsOf(d)) : IsName(v) /\ n = v.name
                  \/ /\ chip.arm /\ Len(l.text) = 1
                     /\ \E brand \in chip.brand : IsPrefix(l.text[1], brand)
=============================================================================
