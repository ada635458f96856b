----------------------------- MODULE Batteries -----------------------------
(***************************************************************************)
(* hw_get_bat_info of the three platforms.  Linux lists the power supplies *)
(* of sysfs and then reads their files one by one, while supplies may be   *)
(* unplugged between any two reads; macOS asks IOKit for a description;    *)
(* Android reads three files.                                              *)
(***************************************************************************)
EXTENDS Program, SizeFormat, FileReaders, SequencesExt

CONSTANTS
  Machines,        (* functions from the supplies of a machine to their files *)
  AndroidFiles,    (* records [capacity, status, health] of files             *)
  PowerSources     (* IOKit's descriptions: records [device, name, health,    *)
                   (* cur, max, ac, charging, charged]                        *)

VARIABLES
  machine, (* the supplies that were there when the call began, or the files  *)
           (* or the description                                              *)
  present, (* the supplies that are still there                               *)
  todo,    (* the directory entries not yet returned by readdir               *)
  entry,   (* entry->d_name, curr->name                                       *)
  list,    (* the nodes hw_get_all_batteries has linked, newest first         *)
  got,     (* what has been read of the node in hand                          *)
  lost     (* history: the supplies no node could be allocated for            *)

batVars == <<machine, present, todo, entry, list, got, lost>>

\* The readers of numbers find numbers.
ASSUME SupplyAssumption ==
  \A m \in Machines :
    /\ IsFiniteSet(DOMAIN m)
    /\ \A s \in DOMAIN m : m[s].energyDesign \cup m[s].energyFull \cup m[s].chargeDesign
                           \cup m[s].chargeFull \subseteq Int
ASSUME PowerAssumption ==
  \A d \in PowerSources : {d.cur, d.max} \subseteq Int /\ {d.ac, d.charging, d.charged} \subseteq BOOLEAN

NoSupply == "none"
\* The files of a supply in the order hw_battery_read_metrics reads them.
Metrics == <<"model", "capacity", "status", "energyDesign", "chargeDesign",
             "energyFull", "chargeFull">>
NothingGot == <<>>

BatInit ==
  /\ machine = <<>> /\ present = {} /\ todo = {} /\ entry = NoSupply
  /\ list = <<>> /\ got = NothingGot /\ lost = {}

BatReturn ==
  /\ Goto("returned")
  /\ machine' = <<>> /\ present' = {} /\ todo' = {} /\ entry' = NoSupply
  /\ list' = <<>> /\ got' = NothingGot /\ lost' = {}

\* A file of a supply, which is gone with it.
FileOf(s, f) == IF s \in present THEN machine[s][f] ELSE {}

\* The kernel: a supply is unplugged.
SupplyGoes(s) ==
  /\ s \in present
  /\ present' = present \ {s}
  /\ UNCHANGED <<os, given, unit, pc, held, page, machine, todo, entry, list, got, lost>>
-----------------------------------------------------------------------------
(* Linux                                                                   *)

OpenSupplies ==
  /\ pc = "battery" /\ os = "linux"
  /\ \/ /\ \E m \in Machines : /\ machine' = m
                               /\ present' = DOMAIN m /\ todo' = DOMAIN m
        /\ Acquire({"supply_dir"})
        /\ Goto("bat_dir")
        /\ UNCHANGED <<entry, list, got, lost>>
     \/ BatReturn /\ UNCHANGED held
  /\ UNCHANGED page

\* readdir: an entry that has gone may be returned or not.
NextSupply ==
  /\ pc = "bat_dir"
  /\ \E s \in todo : entry' = s /\ todo' = todo \ {s}
  /\ Goto("bat_type")
  /\ UNCHANGED <<held, page, machine, present, list, got, lost>>

\* Variant: a supply that cannot be told is none.
CheckTypeStrictly ==
  /\ pc = "bat_type"
  /\ Goto(IF FileOf(entry, "type") = {"Battery"} THEN "bat_scope" ELSE "bat_dir")
  /\ UNCHANGED <<held, page, batVars>>

\* hw_is_valid_battery: only a type that can be read rules a supply out.
CheckType ==
  /\ pc = "bat_type"
  /\ Goto(IF FileOf(entry, "type") \subseteq {"Battery"} THEN "bat_scope" ELSE "bat_dir")
  /\ UNCHANGED <<held, page, batVars>>

CheckScope ==
  /\ pc = "bat_scope"
  /\ Goto(IF FileOf(entry, "scope") = {"Device"} THEN "bat_dir" ELSE "bat_add")
  /\ UNCHANGED <<held, page, batVars>>

\* add_element: without memory the list stays as it is.
AddElement ==
  /\ pc = "bat_add"
  /\ \/ list' = <<entry>> \o list /\ Acquire({"supply_node"}) /\ UNCHANGED lost
     \/ lost' = lost \cup {entry} /\ UNCHANGED <<list, held>>
  /\ Goto("bat_dir")
  /\ UNCHANGED <<page, machine, present, todo, entry, got>>

EndOfSupplies ==
  /\ pc = "bat_dir" /\ todo \cap present = {}
  /\ todo' = {} /\ entry' = NoSupply
  /\ Release({"supply_dir"})
  /\ Goto("bat_next")
  /\ UNCHANGED <<page, machine, present, list, got, lost>>

\* The next node of the list, the first one that has not been printed.
NextNode ==
  /\ pc = "bat_next" /\ Len(page) < Len(list)
  /\ entry' = list[Len(page) + 1]
  /\ got' = NothingGot
  /\ Goto("bat_read")
  /\ UNCHANGED <<held, page, machine, present, todo, list, lost>>

\* The charge files are asked only when the energy file before them has given
\* no number.
Asked(f) ==
  /\ f = "chargeDesign" => ReadInt32(got[4]) = {}
  /\ f = "chargeFull" => ReadInt32(got[6]) = {}

ReadMetric ==
  /\ pc = "bat_read" /\ Len(got) < Len(Metrics)
  /\ LET f == Metrics[Len(got) + 1]
     IN  got' = Append(got, IF Asked(f) THEN FileOf(entry, f) ELSE {})
  /\ UNCHANGED <<os, given, unit, pc, held, page, machine, present, todo, entry, list, lost>>

Health(design, full) ==
  IF design <= 0 \/ full <= 0 THEN "Unknown"
  ELSE LET pct == CutPercent(Min({full, design}), design)
       IN  CASE pct >= 80 -> "Good" [] pct >= 60 /\ pct < 80 -> "Fair"
             [] pct < 60 -> "Poor"

\* The numbers that count: of the energy file, or else of the charge file.
Number(e, c) == ReadOr(ReadInt32(e), ReadOr(ReadInt32(c), 0))

Metric(model, capacity, status, health) ==
  [label |-> <<"Battery", ReadOr(model, "Unknown")>>,
   text  |-> [capacity |-> ReadOr(capacity, -1), status |-> ReadOr(status, "Unknown"),
              health |-> health]]

PrintBattery ==
  /\ pc = "bat_read" /\ Len(got) = Len(Metrics)
  /\ page' = Append(page, Metric(got[1], got[2], got[3],
                                 Health(Number(got[4], got[5]), Number(got[6], got[7]))))
  /\ Goto("bat_next")
  /\ UNCHANGED <<held, batVars>>

AllPrinted ==
  /\ pc = "bat_next" /\ Len(page) = Len(list)
  /\ Goto("bat_shown")
  /\ UNCHANGED <<held, page, batVars>>

\* free_data_list.
FreeBatteries ==
  /\ pc = "bat_shown" /\ os = "linux"
  /\ held' = [held EXCEPT !["supply_node"] = @ - Len(list)]
  /\ BatReturn
  /\ UNCHANGED page
-----------------------------------------------------------------------------
(* Android                                                                 *)

\* A capacity that cannot be read is shown as 0.
AndroidBattery ==
  /\ pc = "battery" /\ os = "android"
  /\ \/ /\ \E m \in AndroidFiles :
             /\ machine' = m
             /\ page' = Append(page, Metric({}, {ReadOr(ReadUint8(m.capacity), 0)},
                                            m.status, ReadOr(m.health, "Unknown")))
        /\ Goto("bat_shown")
        /\ UNCHANGED <<present, todo, entry, list, got, lost>>
     \/ BatReturn /\ UNCHANGED page
  /\ UNCHANGED held

AndroidLeave == pc = "bat_shown" /\ os = "android" /\ BatReturn /\ UNCHANGED <<held, page>>
-----------------------------------------------------------------------------
(* macOS                                                                   *)

\* IOPSCopyPowerSourcesInfo and IOPSCopyPowerSourcesList: without one, or with
\* an empty list, nothing is shown.
CopyPowerInfo ==
  /\ pc = "battery" /\ os = "macos"
  /\ \/ Acquire({"power_info"}) /\ Goto("bat_list") /\ UNCHANGED batVars
     \/ BatReturn /\ UNCHANGED held
  /\ UNCHANGED page

CopyPowerList ==
  /\ pc = "bat_list"
  /\ \/ Acquire({"power_list"}) /\ (Goto("bat_describe") \/ Goto("bat_release"))
     \/ Goto("bat_release") /\ UNCHANGED held
  /\ UNCHANGED <<page, batVars>>

StringOr(v, other) == IF v \in {"absent", "not_a_string"} THEN other ELSE v

\* The power source's name stands in for a device name that is absent, not for
\* one that is not a string.
PowerModel(d) ==
  StringOr(IF d.device = "absent" THEN d.name ELSE d.device, "Unknown")

PowerPercent(cur, max) ==
  IF max <= 0 \/ cur < 0 THEN 0 ELSE IF cur > max THEN 100 ELSE CutPercent(cur, max)

PowerStatus(d, pct) ==
  CASE (d.charged \/ pct >= 100) /\ d.ac -> "Full"
    [] ~((d.charged \/ pct >= 100) /\ d.ac) /\ d.charging -> "Charging"
    [] ~(d.charged \/ pct >= 100) /\ ~d.charging /\ d.ac -> "Not Charging"
    [] ~d.charging /\ ~d.ac -> "Discharging"

DescribePower ==
  /\ pc = "bat_describe"
  /\ \/ /\ \E d \in PowerSources :
             LET pct == PowerPercent(d.cur, d.max)
             IN  /\ machine' = d
                 /\ page' = Append(page, Metric({PowerModel(d)}, {pct},
                                    {PowerStatus(d, pct)}, StringOr(d.health, "Unknown")))
        /\ Goto("bat_shown")
     \/ Goto("bat_release") /\ UNCHANGED <<page, machine>>
  /\ UNCHANGED <<held, present, todo, entry, list, got, lost>>

ReleasePower ==
  /\ pc = "bat_release" \/ (pc = "bat_shown" /\ os = "macos")
  /\ Release({h \in {"power_list", "power_info"} : Holds(h)})
  /\ BatReturn
  /\ UNCHANGED page

Battery ==
  \/ OpenSupplies \/ NextSupply \/ CheckType \/ CheckScope \/ AddElement
  \/ EndOfSupplies \/ NextNode \/ ReadMetric \/ PrintBattery \/ AllPrinted
  \/ FreeBatteries
  \/ AndroidBattery \/ AndroidLeave
  \/ CopyPowerInfo \/ CopyPowerList \/ DescribePower \/ ReleasePower
  \/ \E s \in present : SupplyGoes(s)
-----------------------------------------------------------------------------
\* The variables are well formed; each node that is linked is printed once, in
\* the order of the list, and none is left when the call returns.
BatTypeOK ==
  /\ os = "linux" => /\ present \cup todo \cup lost \subseteq DOMAIN machine
                     /\ Range(list) \subseteq DOMAIN machine \ lost
                     /\ held["supply_node"] = Len(list)
                     /\ IsInjective(list)
  /\ Len(got) <= Len(Metrics)
  /\ pc = "bat_shown" /\ os = "linux" => Len(page) = Len(list)

IsSystemBattery(s) ==
  machine[s].type \subseteq {"Battery"} /\ machine[s].scope # {"Device"}

\* The supplies nothing has happened to.
Steady == present \ lost

\* A line tells of a supply; its health is the class of the ratio of the two
\* numbers in energy, or else of the two in charge.  A driver that gives one of
\* each is beyond that.
TellsSupply(l, m) ==
  LET pair(d, f) == <<ReadInt32(d), ReadInt32(f)>>
      energy == pair(m.energyDesign, m.energyFull)
      charge == pair(m.chargeDesign, m.chargeFull)
      mixed  == {} \in Range(energy) /\ energy # <<{}, {}>> /\ charge # <<{}, {}>>
      used   == IF {} \in Range(energy) THEN charge ELSE energy
      design == ReadOr(used[1], 0)
      full   == ReadOr(used[2], 0)
  IN  /\ l.label = <<"Battery", ReadOr(m.model, "Unknown")>>
      /\ l.text.capacity = ReadOr(m.capacity, -1)
      /\ l.text.status = ReadOr(m.status, "Unknown")
      /\ mixed \/ l.text.health =
           IF design <= 0 \/ full <= 0 THEN "Unknown"
           ELSE IF 10 * full >= 8 * design THEN "Good"
           ELSE IF 10 * full >= 6 * design THEN "Fair" ELSE "Poor"

\* Every battery of the system that stays, and that there was memory for, is
\* shown once and with its own numbers, whatever is unplugged meanwhile; what
\* stays and is no battery of the system is not shown, and nothing is shown
\* twice.  On macOS the percentage is never above the ratio of the two capacities,
\* at most one percent below it, and 100 just when the battery is full
\* (PercentIsTheCharge asks for more); the status agrees with the power source.
\* On Android a status that the file has is the one shown.  An unplugged adapter may
\* be shown, when its type goes before it is read (hw_get_bat_info).
BatteriesAreTrue ==
  pc = "bat_shown" =>
    CASE os = "linux" ->
           /\ \A s \in Steady : IsSystemBattery(s) =>
                LET same == {t \in Steady : machine[t] = machine[s]}
                IN  Cardinality({j \in DOMAIN page : TellsSupply(page[j], machine[s])})
                      >= Cardinality(same)
           /\ Len(page) <= Cardinality({s \in DOMAIN machine :
                                         s \in Steady => IsSystemBattery(s)})
      [] os = "macos" ->
           LET l == page[1].text
               d == machine
           IN  /\ d.max > 0 /\ d.cur >= 0 =>
                    /\ l.capacity * d.max <= 100 * d.cur
                    /\ (l.capacity + 1) * d.max >= 100 * Min({d.cur, d.max})
               /\ d.max > 0 => (l.capacity = 100 <=> d.cur >= d.max)
               /\ l.status \in {"Full", "Not Charging"} => d.ac
               /\ l.status = "Discharging" => ~d.ac /\ ~d.charging
               /\ d.charging /\ l.capacity < 100 /\ ~d.charged => l.status = "Charging"
      [] os = "android" ->
           machine.status # {} => page[1].text.status \in machine.status

\* Of a battery whose capacity IOKit gives in percent, that number is shown
\* (hw_get_bat_percentage: "Remaining battery capacity in percent").
PercentIsTheCharge ==
  /\ pc = "bat_shown" /\ os = "macos"
  /\ machine.max = 100 /\ machine.cur \in 0 .. 100
  => page[1].text.capacity = machine.cur
=============================================================================
