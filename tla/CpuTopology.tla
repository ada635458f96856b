----------------------------- MODULE CpuTopology -----------------------------
(***************************************************************************)
(* hw_get_cpu_info on Linux (linux/hardware.c): packages, cores, top        *)
(* frequency and model, gathered from a directory of sysfs read in whatever *)
(* order readdir gives it, and from /proc/cpuinfo, while the system may     *)
(* take logical CPUs offline and bring them back.                           *)
(*                                                                          *)
(* An offline CPU keeps its directory and its `online' file and loses its   *)
(* topology and cpufreq directories and its record in /proc/cpuinfo.        *)
(***************************************************************************)
EXTENDS Integers, FiniteSets, Sequences, SequencesExt, FiniteSetsExt

CONSTANTS
  Cpu,          (* the logical CPUs, by number                               *)
  Machines,     (* what the machine may be, see Machine below                *)
  MaxPackages,  (* MAX_CPU_PACKAGES                                          *)
  MaxCores,     (* MAX_CPU_CORES                                             *)
  MaxMoves,     (* how many CPUs may go or come back during a run            *)
  None          (* 0xFFFF in cpu_map, an empty model                         *)

ASSUME CpuAssumption ==
  /\ Cpu \subseteq Nat
  /\ MaxPackages \in Nat \ {0}
  /\ MaxCores \in Nat
  /\ None \notin Nat

\* A package number is read as an int16_t, a core number as a uint16_t and a
\* frequency as a uint32_t.
ASSUME MachineAssumption ==
  \A m \in Machines :
    /\ m.pkg \in [Cpu -> Int]
    /\ m.core \in [Cpu -> Nat]
    /\ m.freq \in [Cpu -> Seq(Nat)]

VARIABLES
  machine,   (* pkg and core: the contents of topology/physical_package_id   *)
             (*   and topology/core_id; topo: whether the kernel has them;    *)
             (* freq: for each CPU what its cpufreq attributes read, in the   *)
             (*   order they are tried; model: its model name;                *)
             (* fixed: CPUs with no `online' file; sysfs, proc: mounted       *)
  online,    (* the CPUs that are online                                     *)
  moves,     (* how many have gone or come back so far                       *)
  pc,
  unread,    (* directory entries readdir has yet to return                  *)
  node,      (* the CPU in hand                                              *)
  nodePkg,   (* physical_package_id                                          *)
  exists, cpuMap, cores, freq, models,     (* cpus[] and cpu_map[]           *)
  packages,  (* *packages                                                    *)
  line,      (* the last CPU whose /proc/cpuinfo record has been read        *)
  guessed    (* history: CPUs put in package 0 because a read failed         *)

found  == <<exists, cpuMap, cores, freq, models, packages>>
system == <<machine, online, moves>>
vars   == <<system, pc, unread, node, nodePkg, found, line, guessed>>

Package == 0 .. (MaxPackages - 1)
-----------------------------------------------------------------------------
(* What the files say                                                      *)

HasTopology(c) == machine.topo /\ c \in online

\* hw_read_cpu_freq_files: the first attribute that reads as a positive number.
FirstPositive(readings) ==
  LET good == {k \in DOMAIN readings : readings[k] > 0}
  IN  IF good = {} THEN 0 ELSE readings[Min(good)]

FreqOf(c) == IF c \in online THEN FirstPositive(machine.freq[c]) ELSE 0

\* Variant: only the upper end of the range is checked.
ValidPackageBelow(p) == p < MaxPackages

ValidPackage(p) == p >= 0 /\ p < MaxPackages

\* Variant: the first CPU met, not the lowest.
LowerFirst(m, c) == IF m = None THEN c ELSE m

\* cpu_map keeps the lowest logical CPU of a package.
Lower(m, c) == IF m = None \/ c < m THEN c ELSE m

\* set_add ignores a number the bitset has no room for.
AddCore(set, core) == IF core < MaxCores THEN set \cup {core} ELSE set

Greater(a, b) == IF a > b THEN a ELSE b
-----------------------------------------------------------------------------
Init ==
  /\ machine \in Machines
  /\ \E off \in SUBSET (Cpu \ machine.fixed) :
       /\ off # Cpu
       /\ online = Cpu \ off
  /\ moves = 0
  /\ pc = "opendir"
  /\ unread = {}
  /\ node = None
  /\ nodePkg = 0
  /\ exists = {}
  /\ cpuMap = [p \in Package |-> None]
  /\ cores = [p \in Package |-> {}]
  /\ freq = [p \in Package |-> 0]
  /\ models = [p \in Package |-> None]
  /\ packages = 0
  /\ line = -1
  /\ guessed = {}

\* The administrator, or the power manager, takes a CPU away or brings it back.
Hotplug(c) ==
  /\ moves < MaxMoves
  /\ c \notin machine.fixed
  /\ online # {c}
  /\ online' = IF c \in online THEN online \ {c} ELSE online \cup {c}
  /\ moves' = moves + 1
  /\ UNCHANGED <<machine, pc, unread, node, nodePkg, found, line, guessed>>
-----------------------------------------------------------------------------
(* hw_parse_cpu_topology                                                   *)

OpenDir ==
  /\ pc = "opendir"
  /\ IF machine.sysfs THEN pc' = "scan" /\ unread' = Cpu
                      ELSE pc' = "fallback" /\ UNCHANGED unread
  /\ UNCHANGED <<system, node, nodePkg, found, line, guessed>>

\* readdir returns cpuN; other entries are passed over.
NextNode(c) ==
  /\ pc = "scan"
  /\ c \in unread
  /\ unread' = unread \ {c}
  /\ node' = c
  /\ pc' = "online"
  /\ UNCHANGED <<system, nodePkg, found, line, guessed>>

EndOfDir ==
  /\ pc = "scan"
  /\ unread = {}
  /\ pc' = "fallback"
  /\ UNCHANGED <<system, unread, node, nodePkg, found, line, guessed>>

\* hw_cpu_is_online: a CPU with no `online' file counts as online.
CheckOnline ==
  /\ pc = "online"
  /\ pc' = IF node \in machine.fixed \cup online THEN "package" ELSE "scan"
  /\ UNCHANGED <<system, unread, node, nodePkg, found, line, guessed>>

\* Variant: a failed read leaves the previous CPU's number.
ReadPackageStale ==
  /\ pc = "package"
  /\ nodePkg' = IF HasTopology(node) /\ ValidPackage(machine.pkg[node])
                  THEN machine.pkg[node] ELSE nodePkg
  /\ guessed' = IF HasTopology(node) THEN guessed ELSE guessed \cup {node}
  /\ pc' = "core"
  /\ UNCHANGED <<system, unread, node, found, line>>

\* topology/physical_package_id; package 0 when it cannot be read or is out of
\* range.
ReadPackage ==
  /\ pc = "package"
  /\ nodePkg' = IF HasTopology(node) /\ ValidPackage(machine.pkg[node])
                  THEN machine.pkg[node] ELSE 0
  /\ guessed' = IF HasTopology(node) THEN guessed ELSE guessed \cup {node}
  /\ pc' = "core"
  /\ UNCHANGED <<system, unread, node, found, line>>

\* topology/core_id, the logical number when it cannot be read; and the entry
\* of the package.
ReadCore ==
  /\ pc = "core"
  /\ LET core == IF HasTopology(node) THEN machine.core[node] ELSE node IN
     cores' = [cores EXCEPT ![nodePkg] = AddCore(@, core)]
  /\ exists' = exists \cup {nodePkg}
  /\ packages' = IF nodePkg \in exists THEN packages ELSE packages + 1
  /\ cpuMap' = [cpuMap EXCEPT ![nodePkg] = Lower(@, node)]
  /\ pc' = "freq"
  /\ UNCHANGED <<system, unread, node, nodePkg, freq, models, line, guessed>>

\* hw_get_cpu_freq: the fastest of the package.
ReadFreq ==
  /\ pc = "freq"
  /\ freq' = [freq EXCEPT ![nodePkg] = Greater(@, FreqOf(node))]
  /\ pc' = "scan"
  /\ UNCHANGED <<system, unread, node, nodePkg, exists, cpuMap, cores, models,
                 packages, line, guessed>>

FallbackApplies ==
  /\ ~(packages > 0 /\ 0 \in exists)
  /\ \/ machine.sysfs /\ 0 \in Cpu
     \/ machine.proc

\* Variant: package 0 is taken to be new, and counted, without a look.
FallbackCountsTwice ==
  /\ pc = "fallback"
  /\ exists' = exists \cup {0}
  /\ packages' = packages + 1
  /\ cores' = [cores EXCEPT ![0] = AddCore(@, 0)]
  /\ cpuMap' = [cpuMap EXCEPT ![0] = IF @ = None THEN 0 ELSE @]
  /\ freq' = [freq EXCEPT ![0] = Greater(@, IF machine.sysfs THEN FreqOf(0) ELSE 0)]
  /\ pc' = "cpuinfo"
  /\ UNCHANGED <<system, unread, node, nodePkg, models, line, guessed>>

\* hw_cpu_apply_single_core_fallback.
Fallback ==
  /\ pc = "fallback"
  /\ IF FallbackApplies
       THEN /\ exists' = exists \cup {0}
            /\ packages' = IF 0 \in exists THEN packages ELSE packages + 1
            /\ cores' = [cores EXCEPT ![0] = AddCore(@, 0)]
            /\ cpuMap' = [cpuMap EXCEPT ![0] = IF @ = None THEN 0 ELSE @]
            /\ freq' = [freq EXCEPT ![0] = Greater(@, IF machine.sysfs THEN FreqOf(0) ELSE 0)]
       ELSE UNCHANGED <<exists, cpuMap, cores, freq, packages>>
  /\ pc' = "cpuinfo"
  /\ UNCHANGED <<system, unread, node, nodePkg, models, line, guessed>>
-----------------------------------------------------------------------------
(* hw_get_cpu_model                                                        *)

OpenCpuinfo ==
  /\ pc = "cpuinfo"
  /\ pc' = IF machine.proc THEN "lines" ELSE "done"
  /\ UNCHANGED <<system, unread, node, nodePkg, found, line, guessed>>

\* Variant: one package with a model is enough to stop.
ModelsCompleteAny(m) == \E p \in exists : m[p] # None

\* hw_cpu_models_complete.
ModelsComplete(m) == exists # {} /\ \A p \in exists : m[p] # None

\* The socket a processor line selects: the first package whose lowest CPU is
\* this one.
Socket(c) ==
  LET those == {p \in exists : cpuMap[p] = c}
  IN  IF those = {} THEN None ELSE Min(those)

NextRecord == {c \in online : c > line}

\* One record of /proc/cpuinfo: its processor line, then the lines that name
\* the model ("model name" on x86, implementer and part on ARM).
ReadRecord ==
  /\ pc = "lines"
  /\ NextRecord # {}
  /\ LET c == Min(NextRecord)
         s == Socket(c)
         m == IF s # None /\ models[s] = None
                THEN [models EXCEPT ![s] = machine.model[c]] ELSE models
     IN  /\ line' = c
         /\ models' = m
         /\ pc' = IF m # models /\ ModelsComplete(m) THEN "done" ELSE pc
  /\ UNCHANGED <<system, unread, node, nodePkg, exists, cpuMap, cores, freq,
                 packages, guessed>>

EndOfCpuinfo ==
  /\ pc = "lines"
  /\ NextRecord = {}
  /\ pc' = "done"
  /\ UNCHANGED <<system, unread, node, nodePkg, found, line, guessed>>

Program ==
  \/ OpenDir
  \/ \E c \in Cpu : NextNode(c)
  \/ EndOfDir \/ CheckOnline \/ ReadPackage \/ ReadCore \/ ReadFreq \/ Fallback
  \/ OpenCpuinfo \/ ReadRecord \/ EndOfCpuinfo

Next ==
  \/ Program
  \/ pc # "done" /\ \E c \in Cpu : Hotplug(c)
  \/ pc = "done" /\ UNCHANGED vars

Spec == Init /\ [][Next]_vars
-----------------------------------------------------------------------------
\* The variables are well formed; in particular every package number is one
\* the arrays have room for.
TypeOK ==
  /\ online \subseteq Cpu /\ unread \subseteq Cpu /\ guessed \subseteq Cpu
  /\ node \in Cpu \cup {None}
  /\ nodePkg \in Package
  /\ exists \subseteq Package
  /\ cpuMap \in [Package -> Nat \cup {None}]
  /\ \A p \in Package : cores[p] \subseteq 0 .. (MaxCores - 1)
  /\ freq \in [Package -> Nat]
  /\ packages \in 0 .. MaxPackages
  /\ line \in Int

\* The count, the flags and the map of the packages tell the same story after
\* every step, and nothing is recorded for a package that is not there.
BookkeepingAgrees ==
  /\ packages = Cardinality(exists)
  /\ \A p \in Package : p \in exists <=> cpuMap[p] # None
  /\ \A p \in Package \ exists : cores[p] = {} /\ freq[p] = 0 /\ models[p] = None

\* What a reader of the same files would write down, of CPU c.
TruePackage(c) ==
  IF machine.topo /\ ValidPackage(machine.pkg[c]) THEN machine.pkg[c] ELSE 0
TrueCore(c) == IF machine.topo THEN machine.core[c] ELSE c
TrueCpus(p) == {c \in online : TruePackage(c) = p}
Quiet == moves = 0 /\ machine.sysfs /\ TrueCpus(0) # {}

\* With no CPU going or coming the answer does not depend on the order of the
\* directory: each package has the cores, the lowest CPU and the top frequency
\* of its online CPUs (a package 0 among them; see NoPhantomPackage).
ExactWhenQuiet ==
  pc \in {"cpuinfo", "lines", "done"} /\ Quiet =>
    \A p \in Package :
      /\ p \in exists <=> TrueCpus(p) # {}
      /\ cores[p] = {TrueCore(c) : c \in TrueCpus(p)} \cap (0 .. (MaxCores - 1))
      /\ p \in exists => /\ cpuMap[p] = Min(TrueCpus(p))
                         /\ freq[p] = Max({FreqOf(c) : c \in TrueCpus(p)})

\* Then, too, every package is given the model of its lowest CPU, although the
\* reading stops as soon as all have one.
NamedWhenQuiet ==
  pc = "done" /\ Quiet /\ machine.proc =>
    \A p \in exists : models[p] = machine.model[cpuMap[p]]

\* Whatever comes and goes, a package other than 0 is one that some CPU of the
\* machine reports: nothing read of one CPU is booked under another.
NoInventedPackage ==
  \A p \in exists \ {0} :
    /\ machine.topo
    /\ cpuMap[p] \in Cpu
    /\ machine.pkg[cpuMap[p]] = p

\* "Applies a package 0 fallback when no usable CPU topology was discovered"
\* (linux/hardware.c): package 0 is there only if a CPU was booked under it or
\* no package was found.
NoPhantomPackage ==
  pc = "done" /\ moves = 0 /\ 0 \in exists =>
    TrueCpus(0) # {} \/ exists = {0}

\* "Offline CPU with no topology directory must be skipped, not defaulted."
\* (tests/platform/test_linux_hardware.c)
OfflineIsSkipped == machine.topo => guessed \subseteq machine.fixed
=============================================================================
