-------------------------- MODULE CpuTopology_proofs --------------------------
(***************************************************************************)
(* Proofs about CpuTopology.tla, for any number of CPUs and packages, any   *)
(* contents of the files, any order of the directory and any number of CPUs *)
(* that come and go.                                                        *)
(***************************************************************************)
EXTENDS CpuTopology, Facts, FiniteSetTheorems, TLAPS

-----------------------------------------------------------------------------
(* The least package of a set                                              *)

LEMMA SocketExists ==
  ASSUME exists \subseteq Package, NEW c
  PROVE  Socket(c) \in exists \cup {None}
<1> DEFINE those == {p \in exists : cpuMap[p] = c}
<1>1. CASE those = {}
  BY <1>1 DEF Socket
<1>2. CASE those # {}
  <2>1. those \subseteq Nat
    <3>1. Package \subseteq Nat
      BY CpuAssumption DEF Package
    <3> QED
      BY <3>1
  <2>2. Min(those) \in those
    BY <1>2, <2>1, MinIsMember
  <2>3. Socket(c) = Min(those)
    BY <1>2, Zenon DEF Socket
  <2> QED
    BY <2>2, <2>3
<1> QED
  BY <1>1, <1>2
-----------------------------------------------------------------------------
(* The invariant                                                           *)

\* What the proof needs of the types.
Shape ==
  /\ machine \in Machines
  /\ online \subseteq Cpu
  /\ unread \subseteq Cpu
  /\ pc \in {"online", "package", "core", "freq"} => node \in Cpu
  /\ nodePkg \in Package
  /\ exists \subseteq Package
  /\ cpuMap \in [Package -> Nat \cup {None}]
  /\ DOMAIN cores = Package
  /\ DOMAIN freq = Package
  /\ DOMAIN models = Package

\* The package in hand is one its CPU reports, or package 0; and it is there
\* by the time its frequency is looked at.
InHand ==
  /\ pc = "core" /\ nodePkg # 0 => machine.topo /\ machine.pkg[node] = nodePkg
  /\ pc = "freq" => nodePkg \in exists

IInv == Shape /\ BookkeepingAgrees /\ NoInventedPackage /\ InHand

LEMMA PackagesAreFinite ==
  ASSUME NEW S, S \subseteq Package
  PROVE  IsFiniteSet(S) /\ Cardinality(S) \in 0 .. MaxPackages
<1>1. IsFiniteSet(Package) /\ Cardinality(Package) = MaxPackages
  BY FS_Interval, CpuAssumption DEF Package
<1>2. IsFiniteSet(S) /\ Cardinality(S) <= MaxPackages
  BY <1>1, FS_Subset
<1> QED
  BY <1>2, FS_CardinalityType, CpuAssumption

LEMMA InvInit == Init => IInv
<1> SUFFICES ASSUME Init PROVE IInv
  OBVIOUS
<1>1. 0 \in Package
  BY CpuAssumption DEF Package
<1>2. Shape
  BY <1>1 DEF Init, Shape
<1>3. BookkeepingAgrees
  BY FS_EmptySet DEF Init, BookkeepingAgrees
<1> QED
  BY <1>2, <1>3 DEF Init, IInv, NoInventedPackage, InHand

\* The steps that only move on: what has been found, the machine and the
\* package in hand stay.
LEMMA InvMovesOn ==
  ASSUME IInv, UNCHANGED <<machine, found, nodePkg>>, Shape',
         pc' \notin {"core", "freq"} \/ UNCHANGED <<pc, node>>
  PROVE  IInv'
<1>1. BookkeepingAgrees'
  BY DEF IInv, BookkeepingAgrees, found
<1>2. NoInventedPackage'
  BY DEF IInv, NoInventedPackage, found
<1>3. InHand'
  BY DEF IInv, InHand, found
<1> QED
  BY <1>1, <1>2, <1>3 DEF IInv

\* A package that is recorded a first time is counted, one that is there is
\* not counted again.
LEMMA InvCount ==
  ASSUME IInv, NEW p \in Package, exists' = exists \cup {p},
         packages' = IF p \in exists THEN packages ELSE packages + 1
  PROVE  packages' = Cardinality(exists')
<1>1. IsFiniteSet(exists)
  BY PackagesAreFinite DEF IInv, Shape
<1> QED
  BY <1>1, FS_AddElement DEF IInv, BookkeepingAgrees

LEMMA InvNext == IInv /\ [Next]_vars => IInv'
<1> SUFFICES ASSUME IInv, [Next]_vars PROVE IInv'
  OBVIOUS
<1>0. /\ Shape /\ BookkeepingAgrees /\ NoInventedPackage /\ InHand
      /\ 0 \in Package
  BY CpuAssumption DEF IInv, Package
<1>1. CASE OpenDir \/ EndOfDir \/ CheckOnline \/ OpenCpuinfo \/ EndOfCpuinfo
  <2>1. /\ UNCHANGED <<machine, found, nodePkg>> /\ Shape'
        /\ pc' \notin {"core", "freq"}
    BY <1>0, <1>1 DEF OpenDir, EndOfDir, CheckOnline, OpenCpuinfo, EndOfCpuinfo,
       system, found, Shape
  <2> QED
    BY <2>1, InvMovesOn
<1>2. ASSUME NEW c \in Cpu, NextNode(c) PROVE IInv'
  <2>1. /\ UNCHANGED <<machine, found, nodePkg>> /\ Shape'
        /\ pc' \notin {"core", "freq"}
    BY <1>0, <1>2 DEF NextNode, system, found, Shape
  <2> QED
    BY <2>1, InvMovesOn
<1>3. ASSUME NEW c \in Cpu, Hotplug(c) PROVE IInv'
  <2>1. /\ UNCHANGED <<machine, found, nodePkg>> /\ Shape'
        /\ UNCHANGED <<pc, node>>
    BY <1>0, <1>3 DEF Hotplug, system, found, Shape
  <2> QED
    BY <2>1, InvMovesOn
<1>4. CASE ReadPackage
  <2>1. HasTopology(node) /\ ValidPackage(machine.pkg[node]) =>
          machine.topo /\ machine.pkg[node] \in Package
    BY <1>0, <1>4, MachineAssumption, CpuAssumption
       DEF ReadPackage, HasTopology, ValidPackage, Package, Shape
  <2>2. /\ nodePkg' \in Package
        /\ nodePkg' # 0 => machine.topo /\ machine.pkg[node] = nodePkg'
    BY <1>0, <1>4, <2>1 DEF ReadPackage
  <2>3. Shape'
    BY <1>0, <1>4, <2>2 DEF ReadPackage, system, found, Shape
  <2>4. BookkeepingAgrees'
    BY <1>0, <1>4 DEF ReadPackage, found, BookkeepingAgrees
  <2>5. NoInventedPackage'
    BY <1>0, <1>4 DEF ReadPackage, system, found, NoInventedPackage
  <2>6. InHand'
    BY <1>4, <2>2 DEF ReadPackage, system, InHand
  <2> QED
    BY <2>3, <2>4, <2>5, <2>6 DEF IInv
<1>5. CASE ReadCore
  <2>1. /\ exists' = exists \cup {nodePkg} /\ nodePkg \in Package /\ node \in Cpu
        /\ machine' = machine /\ freq' = freq /\ models' = models
        /\ nodePkg' = nodePkg /\ node' = node /\ pc' = "freq" /\ node \in Nat
    BY <1>0, <1>5, CpuAssumption DEF ReadCore, system, Shape
  <2>2. /\ cpuMap' = [cpuMap EXCEPT ![nodePkg] = Lower(cpuMap[nodePkg], node)]
        /\ Lower(cpuMap[nodePkg], node) \in {cpuMap[nodePkg], node} \cap Nat
    BY <1>0, <1>5, <2>1 DEF ReadCore, Lower, Shape
  <2>3. /\ DOMAIN cores' = Package
        /\ \A p \in Package \ {nodePkg} : cores'[p] = cores[p]
    BY <1>0, <1>5 DEF ReadCore, Shape
  <2>4. Shape'
    BY <1>0, <1>5, <2>1, <2>2, <2>3 DEF ReadCore, system, Shape
  <2>5. packages' = Cardinality(exists')
    BY <1>5, <2>1, InvCount DEF ReadCore
  <2>6. BookkeepingAgrees'
    BY <1>0, <2>1, <2>2, <2>3, <2>5, CpuAssumption DEF BookkeepingAgrees, Shape
  <2>7. NoInventedPackage'
    <3> SUFFICES ASSUME NEW p \in exists' \ {0}
                 PROVE  /\ machine.topo
                        /\ cpuMap'[p] \in Cpu
                        /\ machine.pkg[cpuMap'[p]] = p
      BY <2>1 DEF NoInventedPackage
    <3>1. CASE p = nodePkg /\ cpuMap'[p] = node
      BY <1>0, <1>5, <2>1, <3>1 DEF ReadCore, InHand
    <3>2. CASE p \in exists /\ cpuMap'[p] = cpuMap[p]
      BY <1>0, <3>2 DEF NoInventedPackage
    <3>3. p = nodePkg => cpuMap'[p] = node \/ (cpuMap'[p] = cpuMap[p] /\ p \in exists)
      BY <1>0, <2>1, <2>2, CpuAssumption DEF BookkeepingAgrees, Shape
    <3>4. p # nodePkg => p \in exists /\ cpuMap'[p] = cpuMap[p]
      BY <1>0, <2>1, <2>2 DEF Shape
    <3> QED
      BY <3>1, <3>2, <3>3, <3>4
  <2>8. InHand'
    BY <2>1 DEF InHand
  <2> QED
    BY <2>4, <2>6, <2>7, <2>8 DEF IInv
<1>6. CASE ReadFreq
  <2>1. /\ UNCHANGED <<machine, exists, cpuMap, cores, models, packages, nodePkg>>
        /\ nodePkg \in exists /\ pc' = "scan"
        /\ DOMAIN freq' = Package
        /\ \A p \in Package \ {nodePkg} : freq'[p] = freq[p]
    BY <1>0, <1>6 DEF ReadFreq, system, InHand, Shape
  <2>2. Shape'
    BY <1>0, <1>6, <2>1 DEF ReadFreq, system, Shape
  <2>3. BookkeepingAgrees'
    BY <1>0, <2>1 DEF BookkeepingAgrees
  <2>4. NoInventedPackage'
    BY <1>0, <2>1 DEF NoInventedPackage
  <2> QED
    BY <2>1, <2>2, <2>3, <2>4 DEF IInv, InHand
<1>7. CASE Fallback /\ FallbackApplies
  <2>1. /\ UNCHANGED <<machine, models, nodePkg>>
        /\ exists' = exists \cup {0} /\ pc' = "cpuinfo"
        /\ packages' = IF 0 \in exists THEN packages ELSE packages + 1
        /\ cpuMap' = [cpuMap EXCEPT ![0] = IF cpuMap[0] = None THEN 0 ELSE cpuMap[0]]
        /\ DOMAIN cores' = Package /\ DOMAIN freq' = Package
        /\ \A p \in Package \ {0} : cores'[p] = cores[p] /\ freq'[p] = freq[p]
    BY <1>0, <1>7 DEF Fallback, system, Shape
  <2>2. Shape'
    BY <1>0, <1>7, <2>1 DEF Fallback, system, Shape
  <2>3. packages' = Cardinality(exists')
    BY <1>0, <2>1, InvCount
  <2>4. BookkeepingAgrees'
    BY <1>0, <2>1, <2>3, CpuAssumption DEF BookkeepingAgrees, Shape
  <2>5. NoInventedPackage'
    BY <1>0, <2>1 DEF NoInventedPackage, Shape
  <2> QED
    BY <2>1, <2>2, <2>4, <2>5 DEF IInv, InHand
<1>8. CASE Fallback /\ ~FallbackApplies
  <2>1. /\ UNCHANGED <<machine, found, nodePkg>> /\ Shape'
        /\ pc' \notin {"core", "freq"}
    BY <1>0, <1>8 DEF Fallback, system, found, Shape
  <2> QED
    BY <2>1, InvMovesOn
<1>9. CASE ReadRecord
  <2>1. PICK c \in Cpu :
          models' = (IF Socket(c) # None /\ models[Socket(c)] = None
                       THEN [models EXCEPT ![Socket(c)] = machine.model[c]]
                       ELSE models)
    <3>1. NextRecord \subseteq Nat /\ NextRecord \subseteq Cpu /\ NextRecord # {}
      BY <1>0, <1>9, CpuAssumption DEF ReadRecord, NextRecord, Shape
    <3>2. Min(NextRecord) \in Cpu
      BY <3>1, MinIsMember
    <3> QED
      BY <1>9, <3>2 DEF ReadRecord
  <2>2. /\ DOMAIN models' = Package
        /\ \A p \in Package \ exists : models'[p] = models[p]
    BY <1>0, <2>1, SocketExists DEF Shape
  <2>3. /\ UNCHANGED <<machine, exists, cpuMap, cores, freq, packages, nodePkg>>
        /\ pc' \in {"lines", "done"}
    BY <1>9 DEF ReadRecord, system
  <2>4. Shape'
    BY <1>0, <1>9, <2>2, <2>3 DEF ReadRecord, system, Shape
  <2>5. BookkeepingAgrees'
    BY <1>0, <2>2, <2>3 DEF BookkeepingAgrees
  <2>6. NoInventedPackage'
    BY <1>0, <2>3 DEF NoInventedPackage
  <2> QED
    BY <2>3, <2>4, <2>5, <2>6 DEF IInv, InHand
<1>10. CASE UNCHANGED vars
  <2>1. UNCHANGED <<machine, found, nodePkg>> /\ Shape' /\ UNCHANGED <<pc, node>>
    BY <1>0, <1>10 DEF vars, system, found, Shape
  <2> QED
    BY <2>1, InvMovesOn
<1> QED
  BY <1>1, <1>2, <1>3, <1>4, <1>5, <1>6, <1>7, <1>8, <1>9, <1>10 DEF Next, Program

LEMMA InvAlways == Spec => []IInv
  BY InvInit, InvNext, PTL DEF Spec

\* *packages, the exists flags and cpu_map agree after every step, whatever
\* the files say and whichever CPUs come and go (hw_cpu_process_core_node,
\* hw_cpu_apply_single_core_fallback).
THEOREM PackagesAreCounted == Spec => []BookkeepingAgrees
  BY InvAlways, PTL DEF IInv

\* A package other than 0 is the one its lowest CPU reports
\* (hw_cpu_process_core_node).
THEOREM PackagesAreReported == Spec => []NoInventedPackage
  BY InvAlways, PTL DEF IInv

-----------------------------------------------------------------------------
(* The types                                                               *)

LEMMA FreqIsNatural ==
  ASSUME machine \in Machines, NEW c \in Cpu
  PROVE  FreqOf(c) \in Nat
<1> DEFINE readings == machine.freq[c]
           good == {k \in DOMAIN readings : readings[k] > 0}
<1>1. readings \in Seq(Nat)
  BY MachineAssumption
<1>2. DOMAIN readings \subseteq Nat /\ \A k \in DOMAIN readings : readings[k] \in Nat
  <2> HIDE DEF readings
  <2>1. DOMAIN readings = 1 .. Len(readings) /\ Len(readings) \in Nat
    BY <1>1
  <2>2. \A k \in 1 .. Len(readings) : readings[k] \in Nat
    BY <1>1
  <2> QED
    BY <2>1, <2>2
<1>3. good # {} => Min(good) \in good
  <2> HIDE DEF readings
  <2>1. good \subseteq Nat
    BY <1>2
  <2> HIDE DEF good
  <2> QED
    BY <2>1, MinIsMember
<1>4. FirstPositive(readings) = IF good = {} THEN 0 ELSE readings[Min(good)]
  BY Zenon DEF FirstPositive
<1>5. FirstPositive(readings) \in Nat
  <2> HIDE DEF readings
  <2> QED
    BY <1>2, <1>3, <1>4
<1> QED
  BY <1>5 DEF FreqOf

\* The types that counting the packages does not need.
Types ==
  /\ guessed \subseteq Cpu
  /\ node \in Cpu \cup {None}
  /\ \A p \in Package : cores[p] \subseteq 0 .. (MaxCores - 1)
  /\ freq \in [Package -> Nat]
  /\ line \in Nat \cup {-1}
  /\ moves \in Nat
  /\ Cpu \cap machine.fixed \subseteq online

LEMMA AddCoreFits ==
  ASSUME NEW S, S \subseteq 0 .. (MaxCores - 1), NEW k \in Nat
  PROVE  AddCore(S, k) \subseteq 0 .. (MaxCores - 1)
  BY CpuAssumption DEF AddCore

LEMMA CoreIsNatural ==
  ASSUME machine \in Machines, NEW c \in Cpu
  PROVE  machine.core[c] \in Nat /\ c \in Nat /\ TrueCore(c) \in Nat
<1>1. machine.core \in [Cpu -> Nat]
  BY MachineAssumption
<1>2. c \in Nat
  BY CpuAssumption
<1> QED
  BY <1>1, <1>2 DEF TrueCore

LEMMA TypesInit == Init => Types
<1> SUFFICES ASSUME Init PROVE Types
  OBVIOUS
<1>1. Cpu \cap machine.fixed \subseteq online
  BY DEF Init
<1> QED
  BY <1>1 DEF Init, Types

LEMMA TypesNext == IInv /\ Types /\ [Next]_vars => Types'
<1> SUFFICES ASSUME IInv, Types, [Next]_vars PROVE Types'
  OBVIOUS
<1>0. Shape /\ 0 \in Package /\ nodePkg \in Package /\ machine \in Machines
  BY CpuAssumption DEF IInv, Shape, Package
<1>1. CASE OpenDir \/ EndOfDir \/ CheckOnline \/ OpenCpuinfo \/ EndOfCpuinfo
  BY <1>1 DEF OpenDir, EndOfDir, CheckOnline, OpenCpuinfo, EndOfCpuinfo, system,
     found, Types
<1>2. ASSUME NEW c \in Cpu, NextNode(c) PROVE Types'
  BY <1>2 DEF NextNode, system, found, Types
<1>3. ASSUME NEW c \in Cpu, Hotplug(c) PROVE Types'
  <2>1. Cpu \cap machine'.fixed \subseteq online'
    BY <1>3 DEF Hotplug, Types
  <2> QED
    BY <1>3, <2>1 DEF Hotplug, found, Types
<1>4. CASE ReadPackage
  <2>1. node \in Cpu
    BY <1>0, <1>4 DEF ReadPackage, Shape
  <2> QED
    BY <1>4, <2>1 DEF ReadPackage, system, found, Types
<1>5. CASE ReadCore
  <2>1. node \in Cpu
    BY <1>0, <1>5 DEF ReadCore, Shape
  <2> DEFINE core == IF HasTopology(node) THEN machine.core[node] ELSE node
  <2>2. core \in Nat
    BY <1>0, <2>1, CoreIsNatural
  <2>3. cores' = [cores EXCEPT ![nodePkg] = AddCore(cores[nodePkg], core)]
    BY <1>5 DEF ReadCore
  <2> HIDE DEF core
  <2>4. AddCore(cores[nodePkg], core) \subseteq 0 .. (MaxCores - 1)
    BY <1>0, <2>2, AddCoreFits DEF Types
  <2>5. \A p \in Package : cores'[p] \subseteq 0 .. (MaxCores - 1)
    BY <1>0, <2>3, <2>4 DEF Types, Shape
  <2> QED
    BY <1>5, <2>5 DEF ReadCore, system, Types
<1>6. CASE ReadFreq
  <2>1. FreqOf(node) \in Nat
    BY <1>0, <1>6, FreqIsNatural DEF ReadFreq, Shape
  <2>2. freq' \in [Package -> Nat]
    BY <1>0, <1>6, <2>1 DEF ReadFreq, Greater, Types
  <2> QED
    BY <1>6, <2>2 DEF ReadFreq, system, Types
<1>7. CASE Fallback /\ FallbackApplies
  <2>1. (IF machine.sysfs THEN FreqOf(0) ELSE 0) \in Nat
    BY <1>0, FreqIsNatural DEF FreqOf, Shape
  <2>2. freq' \in [Package -> Nat]
    BY <1>0, <1>7, <2>1 DEF Fallback, Greater, Types
  <2>3. AddCore(cores[0], 0) \subseteq 0 .. (MaxCores - 1)
    BY <1>0, AddCoreFits DEF Types
  <2>4. \A p \in Package : cores'[p] \subseteq 0 .. (MaxCores - 1)
    BY <1>0, <1>7, <2>3 DEF Fallback, Types, Shape
  <2> QED
    BY <1>7, <2>2, <2>4 DEF Fallback, system, Types
<1>8. CASE Fallback /\ ~FallbackApplies
  BY <1>8 DEF Fallback, system, Types
<1>9. CASE ReadRecord
  <2>1. line' \in Nat
    <3>1. NextRecord \subseteq Nat /\ NextRecord # {}
      BY <1>0, <1>9, CpuAssumption DEF ReadRecord, NextRecord, Shape
    <3> QED
      BY <1>9, <3>1, MinIsMember DEF ReadRecord
  <2> QED
    BY <1>9, <2>1 DEF ReadRecord, system, Types
<1>10. CASE UNCHANGED vars
  BY <1>10 DEF vars, system, found, Types
<1> QED
  BY <1>1, <1>2, <1>3, <1>4, <1>5, <1>6, <1>7, <1>8, <1>9, <1>10 DEF Next, Program

LEMMA TypesAlways == Spec => [](IInv /\ Types)
  BY InvAlways, TypesInit, TypesNext, PTL DEF Spec

\* Every package number indexes the arrays of MAX_CPU_PACKAGES, every core
\* number is one the bitset has room for, and *packages cannot pass its limit
\* (hw_cpu_process_core_node, hw_get_cpu_info).
THEOREM TypeCorrect == Spec => []TypeOK
<1>1. IInv /\ Types => TypeOK
  <2> SUFFICES ASSUME IInv, Types PROVE TypeOK
    OBVIOUS
  <2>1. packages \in 0 .. MaxPackages
    BY PackagesAreFinite DEF IInv, Shape, BookkeepingAgrees
  <2> QED
    BY <2>1 DEF IInv, Shape, Types, TypeOK
<1> QED
  BY <1>1, TypesAlways, PTL

-----------------------------------------------------------------------------
(* What has been found so far, when no CPU comes or goes                   *)

\* The CPUs whose cores have been recorded, and those whose frequency has been
\* looked at as well.
Booked ==
  {c \in online : /\ pc # "opendir"
                  /\ c \notin unread
                  /\ ~(pc \in {"online", "package", "core"} /\ c = node)}
Timed == {c \in Booked : ~(pc = "freq" /\ c = node)}

OfPackage(S, p) == {c \in S : TruePackage(c) = p}

\* The packages are those of the CPUs B, and the frequencies those of the CPUs
\* T.
Accounts(B, T) ==
  \A p \in Package :
    /\ p \in exists <=> OfPackage(B, p) # {}
    /\ cores[p] = {TrueCore(c) : c \in OfPackage(B, p)} \cap (0 .. (MaxCores - 1))
    /\ p \in exists => /\ cpuMap[p] \in OfPackage(B, p)
                       /\ \A c \in OfPackage(B, p) : cpuMap[p] <= c
    /\ \A c \in OfPackage(T, p) : FreqOf(c) <= freq[p]
    /\ freq[p] = 0 \/ \E c \in OfPackage(T, p) : freq[p] = FreqOf(c)

\* No CPU has come or gone, and the fallback has not applied.
Undisturbed ==
  /\ moves = 0
  /\ machine.sysfs
  /\ pc \in {"cpuinfo", "lines", "done"} => TrueCpus(0) # {}

\* Where the program is in the directory.
Place ==
  /\ pc \in {"fallback", "cpuinfo", "lines", "done"} => unread = {}
  /\ pc \in {"online", "package", "core", "freq"} => node \notin unread
  /\ pc \in {"package", "core", "freq"} => node \in online
  /\ pc \in {"core", "freq"} => nodePkg = TruePackage(node)

Scanned == Undisturbed => Place /\ Accounts(Booked, Timed)

LEMMA TruePackageType ==
  ASSUME machine \in Machines, NEW c \in Cpu
  PROVE  TruePackage(c) \in Package
<1>1. machine.pkg[c] \in Int
  BY MachineAssumption
<1> QED
  BY <1>1, CpuAssumption DEF TruePackage, ValidPackage, Package

LEMMA ScannedInit == Init => Scanned
<1> SUFFICES ASSUME Init PROVE Scanned
  OBVIOUS
<1>1. Place
  BY DEF Init, Place
<1>2. Booked = {} /\ Timed = {}
  BY DEF Init, Booked, Timed
<1>3. Accounts({}, {})
  BY DEF Init, Accounts, OfPackage
<1> QED
  BY <1>1, <1>2, <1>3 DEF Scanned

\* A step that only moves on in the directory.
LEMMA ScannedMovesOn ==
  ASSUME Scanned, Undisturbed, UNCHANGED <<machine, online, exists, cpuMap, cores, freq>>,
         Booked' = Booked, Timed' = Timed, Place'
  PROVE  Scanned'
<1>1. Accounts(Booked, Timed)
  BY DEF Scanned
<1>2. \A c : FreqOf(c)' = FreqOf(c) /\ TrueCore(c)' = TrueCore(c)
             /\ TruePackage(c)' = TruePackage(c)
  BY DEF FreqOf, TrueCore, TruePackage
<1>3. Accounts(Booked, Timed)'
  BY <1>1, <1>2 DEF Accounts, OfPackage
<1> QED
  BY <1>3 DEF Scanned

LEMMA ScannedCore ==
  ASSUME IInv, Types, Scanned, Undisturbed, ReadCore
  PROVE  Scanned'
<1>1. /\ Place /\ Accounts(Booked, Timed) /\ pc = "core"
      /\ node \in online /\ node \in Cpu /\ node \notin unread /\ node \in Nat
      /\ nodePkg = TruePackage(node) /\ nodePkg \in Package /\ online \subseteq Nat
  BY CpuAssumption DEF ReadCore, Scanned, Place, IInv, Shape
<1>2. /\ UNCHANGED <<machine, online, moves, unread, node, nodePkg, freq>>
      /\ pc' = "freq"
  BY DEF ReadCore, system
<1>3. \A c : FreqOf(c)' = FreqOf(c) /\ TrueCore(c)' = TrueCore(c)
             /\ TruePackage(c)' = TruePackage(c)
  BY <1>2 DEF FreqOf, TrueCore, TruePackage
<1>4. Place'
  BY <1>1, <1>2, <1>3 DEF Place
<1>5. Booked' = Booked \cup {node} /\ Timed' = Timed
  BY <1>1, <1>2 DEF Booked, Timed
<1>6. \A p \in Package : OfPackage(Booked, p)' =
        OfPackage(Booked, p) \cup (IF p = nodePkg THEN {node} ELSE {})
  BY <1>1, <1>3, <1>5 DEF OfPackage
<1>7. OfPackage(Booked, nodePkg) \subseteq Nat
  BY <1>1 DEF OfPackage, Booked
<1>8. \A p \in Package : p \in exists' <=> OfPackage(Booked, p)' # {}
  BY <1>1, <1>6 DEF ReadCore, Accounts
<1>9. ASSUME NEW p \in Package
      PROVE  cores'[p] = {TrueCore(c)' : c \in OfPackage(Booked, p)'} \cap (0 .. (MaxCores - 1))
  <2> DEFINE old == OfPackage(Booked, p)
  <2>1. cores[p] = {TrueCore(c) : c \in old} \cap (0 .. (MaxCores - 1))
    BY <1>1 DEF Accounts
  <2>2. CASE p # nodePkg
    <3>1. cores'[p] = cores[p] /\ OfPackage(Booked, p)' = old
      BY <1>6, <2>2 DEF ReadCore, IInv, Shape
    <3> QED
      BY <1>3, <2>1, <3>1
  <2>3. CASE p = nodePkg
    <3>1. cores'[p] = AddCore(cores[p], TrueCore(node)) /\ TrueCore(node) \in Nat
      BY <1>1, <2>3, CoreIsNatural DEF ReadCore, HasTopology, TrueCore, IInv, Shape
    <3>2. AddCore(cores[p], TrueCore(node)) =
            cores[p] \cup ({TrueCore(node)} \cap (0 .. (MaxCores - 1)))
      BY <3>1, CpuAssumption DEF AddCore
    <3>3. OfPackage(Booked, p)' = old \cup {node}
      BY <1>6, <2>3
    <3> QED
      BY <1>3, <2>1, <3>1, <3>2, <3>3
  <2> QED
    BY <2>2, <2>3
<1>10. ASSUME NEW p \in exists'
       PROVE  /\ cpuMap'[p] \in OfPackage(Booked, p)'
              /\ \A c \in OfPackage(Booked, p)' : cpuMap'[p] <= c
  <2>0. p \in Package /\ exists' = exists \cup {nodePkg}
    BY <1>1 DEF ReadCore, IInv, Shape
  <2>1. CASE p # nodePkg
    <3>1. cpuMap'[p] = cpuMap[p] /\ OfPackage(Booked, p)' = OfPackage(Booked, p)
          /\ p \in exists
      BY <1>6, <2>0, <2>1 DEF ReadCore, IInv, Shape
    <3> QED
      BY <1>1, <2>0, <3>1 DEF Accounts
  <2>2. CASE p = nodePkg
    <3> DEFINE m == cpuMap[nodePkg]
    <3>1. cpuMap'[p] = Lower(m, node) /\ OfPackage(Booked, p)' = OfPackage(Booked, p) \cup {node}
      BY <1>1, <1>6, <2>2 DEF ReadCore, IInv, Shape
    <3>2. CASE nodePkg \in exists
      <4>1. /\ m \in OfPackage(Booked, p) /\ m \in Nat /\ m # None
            /\ \A c \in OfPackage(Booked, p) : m <= c
        BY <1>1, <1>7, <2>2, <3>2, CpuAssumption DEF Accounts
      <4>2. Lower(m, node) = IF node < m THEN node ELSE m
        BY <4>1 DEF Lower
      <4> HIDE DEF m
      <4> QED
        BY <1>1, <1>7, <2>2, <3>1, <4>1, <4>2
    <3>3. CASE nodePkg \notin exists
      <4>1. m = None /\ OfPackage(Booked, p) = {}
        BY <1>1, <2>2, <3>3 DEF Accounts, IInv, BookkeepingAgrees
      <4> QED
        BY <1>1, <3>1, <4>1 DEF Lower
    <3> QED
      BY <3>2, <3>3
  <2> QED
    BY <2>1, <2>2
<1>11. \A p \in Package : OfPackage(Timed, p)' = OfPackage(Timed, p)
  BY <1>3, <1>5 DEF OfPackage
<1>12. \A p \in Package :
         /\ \A c \in OfPackage(Timed, p)' : FreqOf(c)' <= freq'[p]
         /\ freq'[p] = 0 \/ \E c \in OfPackage(Timed, p)' : freq'[p] = FreqOf(c)'
  BY <1>1, <1>2, <1>3, <1>11 DEF Accounts
<1>13. Accounts(Booked, Timed)'
  BY <1>8, <1>9, <1>10, <1>12 DEF Accounts
<1> QED
  BY <1>4, <1>13 DEF Scanned

LEMMA ScannedFreq ==
  ASSUME IInv, Types, Scanned, Undisturbed, ReadFreq
  PROVE  Scanned'
<1>1. /\ Place /\ Accounts(Booked, Timed) /\ pc = "freq"
      /\ node \in online /\ node \in Cpu /\ node \notin unread
      /\ nodePkg = TruePackage(node) /\ nodePkg \in Package
  BY DEF ReadFreq, Scanned, Place, IInv, Shape
<1>2. /\ UNCHANGED <<machine, online, moves, unread, node, nodePkg, exists, cpuMap, cores>>
      /\ pc' = "scan"
      /\ freq' = [freq EXCEPT ![nodePkg] = Greater(freq[nodePkg], FreqOf(node))]
  BY DEF ReadFreq, system
<1>3. \A c : FreqOf(c)' = FreqOf(c) /\ TrueCore(c)' = TrueCore(c)
             /\ TruePackage(c)' = TruePackage(c)
  BY <1>2 DEF FreqOf, TrueCore, TruePackage
<1>4. Place'
  BY <1>2 DEF Place
<1>5. Booked' = Booked /\ Timed' = Timed \cup {node}
  BY <1>1, <1>2 DEF Booked, Timed
<1>6. \A p \in Package : /\ OfPackage(Booked, p)' = OfPackage(Booked, p)
                         /\ OfPackage(Timed, p)' =
                              OfPackage(Timed, p) \cup (IF p = nodePkg THEN {node} ELSE {})
  BY <1>1, <1>3, <1>5 DEF OfPackage
<1>7. \A c \in Cpu : FreqOf(c) \in Nat
  BY FreqIsNatural DEF IInv, Shape
<1>8. \A p \in Package : OfPackage(Timed, p) \subseteq Cpu
  BY DEF OfPackage, Timed, Booked, IInv, Shape
<1>9. ASSUME NEW p \in Package
      PROVE  /\ \A c \in OfPackage(Timed, p)' : FreqOf(c)' <= freq'[p]
             /\ freq'[p] = 0 \/ \E c \in OfPackage(Timed, p)' : freq'[p] = FreqOf(c)'
  <2>1. /\ \A c \in OfPackage(Timed, p) : FreqOf(c) <= freq[p]
        /\ freq[p] = 0 \/ \E c \in OfPackage(Timed, p) : freq[p] = FreqOf(c)
        /\ freq[p] \in Nat
    BY <1>1 DEF Accounts, Types
  <2>2. CASE p # nodePkg
    BY <1>2, <1>3, <1>6, <2>1, <2>2 DEF Types
  <2>3. CASE p = nodePkg
    <3>1. freq'[p] = Greater(freq[p], FreqOf(node)) /\ FreqOf(node) \in Nat
      BY <1>1, <1>2, <1>7, <2>3 DEF Types
    <3>2. /\ freq'[p] \in {freq[p], FreqOf(node)}
          /\ freq[p] <= freq'[p] /\ FreqOf(node) <= freq'[p] /\ freq'[p] \in Nat
      BY <2>1, <3>1 DEF Greater
    <3>3. OfPackage(Timed, p)' = OfPackage(Timed, p) \cup {node}
      BY <1>6, <2>3
    <3>4. \A c \in OfPackage(Timed, p) : FreqOf(c) \in Nat
      BY <1>7, <1>8
    <3> QED
      BY <1>3, <2>1, <3>1, <3>2, <3>3, <3>4
  <2> QED
    BY <2>2, <2>3
<1>10. Accounts(Booked, Timed)'
  BY <1>1, <1>2, <1>3, <1>6, <1>9 DEF Accounts
<1> QED
  BY <1>4, <1>10 DEF Scanned

\* When package 0 has a CPU the fallback does not apply.
LEMMA ScannedFallback ==
  ASSUME IInv, Types, Scanned, Fallback, Undisturbed'
  PROVE  Scanned'
<1>1. /\ pc = "fallback" /\ pc' = "cpuinfo"
      /\ UNCHANGED <<machine, online, moves, unread, node, nodePkg>>
  BY DEF Fallback, system
<1>2. Undisturbed /\ Place /\ Accounts(Booked, Timed) /\ unread = {}
  BY <1>1 DEF Undisturbed, Scanned, Place
<1>3. Booked = online /\ Timed = online /\ Booked' = online /\ Timed' = online
  BY <1>1, <1>2 DEF Booked, Timed
<1>4. TrueCpus(0) # {}
  BY <1>1 DEF Undisturbed, TrueCpus, TruePackage
<1>5. 0 \in exists
  <2>1. 0 \in Package /\ OfPackage(online, 0) = TrueCpus(0)
    BY CpuAssumption DEF Package, OfPackage, TrueCpus
  <2> QED
    BY <1>2, <1>3, <1>4, <2>1 DEF Accounts
<1>6. packages > 0
  <2>1. IsFiniteSet(exists) /\ packages = Cardinality(exists) /\ packages \in Nat
    BY PackagesAreFinite, CpuAssumption DEF IInv, Shape, BookkeepingAgrees
  <2>2. packages # 0
    BY <1>5, <2>1, FS_EmptySet
  <2> QED
    BY <2>1, <2>2
<1>7. UNCHANGED <<exists, cpuMap, cores, freq>>
  BY <1>5, <1>6 DEF Fallback, FallbackApplies
<1>8. Place'
  BY <1>1, <1>2 DEF Place
<1> QED
  BY <1>1, <1>2, <1>3, <1>7, <1>8, ScannedMovesOn

LEMMA ScannedNext == IInv /\ Types /\ Scanned /\ [Next]_vars => Scanned'
<1> SUFFICES ASSUME IInv, Types, Scanned, [Next]_vars, Undisturbed' PROVE Scanned'
  BY DEF Scanned
<1>0. Shape
  BY DEF IInv
<1>1. CASE OpenDir
  <2>1. machine.sysfs /\ moves = 0 /\ Undisturbed
    BY <1>1 DEF OpenDir, system, Undisturbed
  <2>2. Booked = {} /\ Timed = {}
    BY <1>1 DEF OpenDir, Booked, Timed
  <2>3. Booked' = {} /\ Timed' = {}
    BY <1>0, <1>1, <2>1 DEF OpenDir, system, Booked, Timed, Shape
  <2> QED
    BY <1>1, <2>1, <2>2, <2>3, ScannedMovesOn DEF OpenDir, system, found, Place
<1>2. ASSUME NEW c \in Cpu, NextNode(c) PROVE Scanned'
  <2>1. Undisturbed /\ Place
    BY <1>2 DEF NextNode, system, Undisturbed, Scanned
  <2>2. Booked' = Booked
    BY <1>2 DEF NextNode, system, Booked
  <2>3. Timed' = Timed
    BY <1>2, <2>2 DEF NextNode, Timed
  <2> QED
    BY <1>2, <2>1, <2>2, <2>3, ScannedMovesOn DEF NextNode, system, found, Place
<1>3. CASE EndOfDir
  <2>1. Undisturbed /\ Booked' = Booked /\ Timed' = Timed
    BY <1>3 DEF EndOfDir, system, Undisturbed, Booked, Timed
  <2> QED
    BY <1>3, <2>1, ScannedMovesOn DEF EndOfDir, system, found, Place
<1>4. CASE CheckOnline
  <2>1. Undisturbed /\ Place
    BY <1>4 DEF CheckOnline, system, Undisturbed, Scanned
  <2>2. (node \in machine.fixed \cup online) <=> node \in online
    BY <1>0, <1>4 DEF CheckOnline, Shape, Types
  <2>3. Booked' = Booked /\ Timed' = Timed
    BY <1>4, <2>2 DEF CheckOnline, system, Booked, Timed
  <2> QED
    BY <1>4, <2>1, <2>2, <2>3, ScannedMovesOn DEF CheckOnline, system, found, Place
<1>5. CASE ReadPackage
  <2>1. Undisturbed /\ Place
    BY <1>5 DEF ReadPackage, system, Undisturbed, Scanned
  <2>2. Booked' = Booked /\ Timed' = Timed
    BY <1>5 DEF ReadPackage, system, Booked, Timed
  <2>3. nodePkg' = TruePackage(node) /\ TruePackage(node)' = TruePackage(node)
    BY <1>5, <2>1 DEF ReadPackage, system, Place, TruePackage, HasTopology
  <2>4. Place'
    BY <1>5, <2>1, <2>3 DEF ReadPackage, system, Place, TruePackage
  <2> QED
    BY <1>5, <2>1, <2>2, <2>4, ScannedMovesOn DEF ReadPackage, system, found
<1>6. CASE ReadCore
  <2>1. Undisturbed
    BY <1>6 DEF ReadCore, system, Undisturbed
  <2> QED
    BY <1>6, <2>1, ScannedCore
<1>7. CASE ReadFreq
  <2>1. Undisturbed
    BY <1>7 DEF ReadFreq, system, Undisturbed
  <2> QED
    BY <1>7, <2>1, ScannedFreq
<1>8. CASE Fallback
  BY <1>8, ScannedFallback
<1>9. CASE OpenCpuinfo \/ EndOfCpuinfo
  <2>1. Undisturbed /\ Booked' = Booked /\ Timed' = Timed
    BY <1>9 DEF OpenCpuinfo, EndOfCpuinfo, system, Undisturbed, Booked, Timed,
       TrueCpus, TruePackage
  <2> QED
    BY <1>9, <2>1, ScannedMovesOn DEF OpenCpuinfo, EndOfCpuinfo, system, found,
       Place, Scanned
<1>10. CASE ReadRecord
  <2>1. pc = "lines" /\ pc' \in {"lines", "done"}
        /\ UNCHANGED <<machine, online, moves, unread, node, nodePkg, exists, cpuMap, cores, freq>>
    BY <1>10 DEF ReadRecord, system
  <2>2. Undisturbed /\ Booked' = Booked /\ Timed' = Timed
    BY <2>1 DEF Undisturbed, Booked, Timed, TrueCpus, TruePackage
  <2> QED
    BY <2>1, <2>2, ScannedMovesOn DEF Place, Scanned
<1>11. ASSUME NEW c \in Cpu, Hotplug(c) PROVE Scanned'
  BY <1>11 DEF Hotplug, Undisturbed, Types
<1>12. CASE UNCHANGED vars
  <2>1. Undisturbed /\ Booked' = Booked /\ Timed' = Timed
    BY <1>12 DEF vars, system, Undisturbed, Booked, Timed, TrueCpus, TruePackage
  <2> QED
    BY <1>12, <2>1, ScannedMovesOn DEF vars, system, found, Place, Scanned, TruePackage
<1> QED
  BY <1>1, <1>2, <1>3, <1>4, <1>5, <1>6, <1>7, <1>8, <1>9, <1>10, <1>11, <1>12
     DEF Next, Program

LEMMA ScannedAlways == Spec => [](IInv /\ Types /\ Scanned)
  BY TypesAlways, ScannedInit, ScannedNext, PTL DEF Spec

LEMMA MinIs ==
  ASSUME NEW T, T \subseteq Nat, NEW x \in T, \A y \in T : x <= y
  PROVE  Min(T) = x
<1>1. \E z \in T : \A y \in T : z <= y
  OBVIOUS
<1>2. Min(T) \in T /\ \A y \in T : Min(T) <= y
  BY <1>1 DEF Min
<1>3. Min(T) <= x /\ x <= Min(T) /\ x \in Nat /\ Min(T) \in Nat
  BY <1>2
<1> QED
  BY <1>3

LEMMA MaxIs ==
  ASSUME NEW T, T \subseteq Nat, NEW x \in T, \A y \in T : y <= x
  PROVE  Max(T) = x
<1>1. \E z \in T : \A y \in T : y <= z
  OBVIOUS
<1>2. Max(T) \in T /\ \A y \in T : y <= Max(T)
  BY <1>1 DEF Max
<1>3. Max(T) <= x /\ x <= Max(T) /\ x \in Nat /\ Max(T) \in Nat
  BY <1>2
<1> QED
  BY <1>3

\* Once the directory has been read, everything has been booked.
LEMMA ScanIsComplete ==
  ASSUME IInv, Types, Scanned, Quiet, pc \in {"cpuinfo", "lines", "done"}
  PROVE  /\ Accounts(online, online)
         /\ \A p \in Package : OfPackage(online, p) = TrueCpus(p)
<1>1. Undisturbed /\ Place /\ Accounts(Booked, Timed)
  BY DEF Quiet, Undisturbed, Scanned
<1>2. Booked = online /\ Timed = online
  BY <1>1 DEF Booked, Timed, Place
<1> QED
  BY <1>1, <1>2 DEF OfPackage, TrueCpus

\* With no CPU coming or going, what hw_parse_cpu_topology has found is what
\* the files say of the CPUs that are online, in whichever order readdir gives
\* them: the packages and the cores of each, the lowest CPU and the top
\* frequency.
THEOREM InventoryIsExact == Spec => []ExactWhenQuiet
<1>1. IInv /\ Types /\ Scanned => ExactWhenQuiet
  <2> SUFFICES ASSUME IInv, Types, Scanned, Quiet, pc \in {"cpuinfo", "lines", "done"},
                      NEW p \in Package
               PROVE  /\ p \in exists <=> TrueCpus(p) # {}
                      /\ cores[p] = {TrueCore(c) : c \in TrueCpus(p)}
                                      \cap (0 .. (MaxCores - 1))
                      /\ p \in exists => /\ cpuMap[p] = Min(TrueCpus(p))
                                         /\ freq[p] = Max({FreqOf(c) : c \in TrueCpus(p)})
    BY DEF ExactWhenQuiet
  <2> DEFINE T == TrueCpus(p)
             F == {FreqOf(c) : c \in T}
  <2>1. /\ p \in exists <=> T # {}
        /\ cores[p] = {TrueCore(c) : c \in T} \cap (0 .. (MaxCores - 1))
        /\ p \in exists => cpuMap[p] \in T /\ \A c \in T : cpuMap[p] <= c
        /\ \A c \in T : FreqOf(c) <= freq[p]
        /\ freq[p] = 0 \/ \E c \in T : freq[p] = FreqOf(c)
    BY ScanIsComplete DEF Accounts
  <2>2. T \subseteq Nat /\ \A c \in T : FreqOf(c) \in Nat
    BY FreqIsNatural, CpuAssumption DEF TrueCpus, IInv, Shape
  <2>3. freq[p] \in Nat
    BY DEF Types
  <2> HIDE DEF T
  <2>4. ASSUME p \in exists PROVE cpuMap[p] = Min(T)
    BY <2>1, <2>2, <2>4, MinIs
  <2>5. ASSUME p \in exists PROVE freq[p] = Max(F)
    <3>1. F \subseteq Nat /\ \A f \in F : f <= freq[p]
      BY <2>1, <2>2
    <3>2. freq[p] \in F
      <4>1. PICK c \in T : TRUE
        BY <2>1, <2>5
      <4>2. FreqOf(c) <= freq[p] /\ FreqOf(c) \in Nat
        BY <2>1, <2>2
      <4>3. freq[p] = 0 => FreqOf(c) = freq[p]
        BY <2>3, <4>2
      <4> QED
        BY <2>1, <4>3
    <3> HIDE DEF F
    <3> QED
      BY <3>1, <3>2, MaxIs
  <2> QED
    BY <2>1, <2>4, <2>5 DEF T
<1> QED
  BY <1>1, ScannedAlways, PTL
-----------------------------------------------------------------------------
(* The models                                                              *)

\* The records read so far have named the packages whose lowest CPU they are
\* about; no other package has a model.
Named ==
  /\ pc \notin {"lines", "done"} => line = -1 /\ \A p \in Package : models[p] = None
  /\ pc = "lines" => machine.proc
  /\ pc \in {"lines", "done"} /\ Quiet /\ machine.proc =>
       \A p \in exists :
         /\ pc = "done" \/ cpuMap[p] <= line => models[p] = machine.model[cpuMap[p]]
         /\ pc = "lines" /\ line < cpuMap[p] => models[p] = None

LEMMA NamedInit == Init => Named
  BY DEF Init, Named

LEMMA NamedRecord ==
  ASSUME IInv, Types, Scanned, Named, ReadRecord
  PROVE  Named'
<1> DEFINE c == Min(NextRecord)
           s == Socket(c)
           m == IF s # None /\ models[s] = None
                  THEN [models EXCEPT ![s] = machine.model[c]] ELSE models
<1>1. /\ pc = "lines" /\ machine.proc /\ line' = c /\ models' = m
      /\ pc' = IF m # models /\ ModelsComplete(m) THEN "done" ELSE pc
      /\ UNCHANGED <<machine, online, moves, exists, cpuMap>>
  BY DEF ReadRecord, system, Named
<1>2. NextRecord \subseteq Nat /\ c \in NextRecord /\ \A d \in NextRecord : c <= d
  <2>1. NextRecord \subseteq Nat /\ NextRecord # {}
    BY CpuAssumption DEF ReadRecord, NextRecord, IInv, Shape
  <2>2. PICK x \in NextRecord : \A d \in NextRecord : x <= d
    BY <2>1, LeastNatural
  <2>3. Min(NextRecord) = x
    BY <2>1, <2>2, MinIs
  <2> QED
    BY <2>1, <2>2, <2>3
<1>3. c \in online /\ c \in Nat /\ line < c /\ line \in Int /\ c # None
  BY <1>2, CpuAssumption DEF NextRecord, Types
<1>4. UNCHANGED Quiet
  BY <1>1 DEF Quiet, TrueCpus, TruePackage
<1> HIDE DEF c, m
<1> SUFFICES ASSUME Quiet, NEW p \in exists
             PROVE  /\ pc' = "done" \/ cpuMap[p] <= c => m[p] = machine.model[cpuMap[p]]
                    /\ pc' = "lines" /\ c < cpuMap[p] => m[p] = None
  BY <1>1, <1>4 DEF Named
<1>5. p \in Package /\ exists \subseteq Package /\ DOMAIN models = Package
  BY DEF IInv, Shape
<1>6. \A q \in exists : /\ cpuMap[q] \in online /\ TruePackage(cpuMap[q]) = q
                        /\ cpuMap[q] \in Nat
  <2>1. \A q \in exists : cpuMap[q] \in OfPackage(online, q)
    BY <1>1, <1>5, ScanIsComplete DEF Accounts
  <2> QED
    BY <2>1, CpuAssumption DEF OfPackage, IInv, Shape
<1>7. /\ cpuMap[p] <= line => models[p] = machine.model[cpuMap[p]]
      /\ line < cpuMap[p] => models[p] = None
  BY <1>1 DEF Named
<1>8. \A q \in exists : cpuMap[q] = c => s = q /\ models[q] = None
  <2> SUFFICES ASSUME NEW q \in exists, cpuMap[q] = c PROVE s = q /\ models[q] = None
    OBVIOUS
  <2>1. {r \in exists : cpuMap[r] = c} = {q}
    BY <1>6
  <2>2. Min({q}) = q
    <3>1. q \in Nat
      BY <1>5, CpuAssumption DEF Package
    <3> QED
      BY <3>1, MinIs
  <2>3. s = q
    BY <2>1, <2>2 DEF Socket
  <2>4. models[q] = None
    BY <1>1, <1>3 DEF Named
  <2> QED
    BY <2>3, <2>4
<1>9. s = None \/ (s \in exists /\ cpuMap[s] = c)
  <2> DEFINE those == {r \in exists : cpuMap[r] = c}
  <2>1. CASE those = {}
    BY <2>1 DEF Socket
  <2>2. CASE those # {}
    <3>1. PICK q \in exists : cpuMap[q] = c
      BY <2>2
    <3> QED
      BY <1>8, <3>1
  <2> QED
    BY <2>1, <2>2
<1>10. \A q \in exists :
         /\ cpuMap[q] = c => m[q] = machine.model[c]
         /\ cpuMap[q] # c => m[q] = models[q]
  BY <1>3, <1>5, <1>8, <1>9, CpuAssumption DEF m, Package
<1>11. cpuMap[p] <= line \/ c <= cpuMap[p]
  BY <1>2, <1>3, <1>6 DEF NextRecord
<1>12. /\ cpuMap[p] <= c => m[p] = machine.model[cpuMap[p]]
       /\ c < cpuMap[p] => m[p] = None
  BY <1>3, <1>6, <1>7, <1>10, <1>11
<1>13. ASSUME pc' = "done" PROVE cpuMap[p] <= c
  <2>1. m[p] # None
    BY <1>1, <1>13 DEF ModelsComplete
  <2> QED
    BY <1>3, <1>6, <1>12, <2>1
<1> QED
  BY <1>12, <1>13

LEMMA NamedNext == IInv /\ Types /\ Scanned /\ Named /\ [Next]_vars => Named'
<1> SUFFICES ASSUME IInv, Types, Scanned, Named, [Next]_vars PROVE Named'
  OBVIOUS
<1>1. CASE pc \in {"opendir", "scan", "online", "package", "core", "freq", "fallback"}
           /\ line' = line /\ models' = models /\ pc' \notin {"lines", "done"}
  BY <1>1 DEF Named
<1>2. CASE OpenCpuinfo
  <2>1. /\ pc = "cpuinfo" /\ line = -1 /\ \A p \in Package : models[p] = None
        /\ pc' = (IF machine.proc THEN "lines" ELSE "done")
        /\ UNCHANGED <<machine, exists, cpuMap, models, line>>
    BY <1>2 DEF OpenCpuinfo, system, found, Named
  <2>2. ASSUME Quiet', machine.proc, NEW p \in exists
        PROVE  line < cpuMap[p] /\ ~(cpuMap[p] <= line) /\ models[p] = None
    <3>1. Quiet
      BY <1>2, <2>2 DEF OpenCpuinfo, system, Quiet, TrueCpus, TruePackage
    <3>2. p \in Package /\ cpuMap[p] \in Nat
      BY <2>1, <3>1, ScanIsComplete, CpuAssumption DEF Accounts, OfPackage, IInv, Shape
    <3> QED
      BY <2>1, <3>2
  <2> QED
    BY <2>1, <2>2 DEF Named
<1>3. CASE ReadRecord
  BY <1>3, NamedRecord
<1>4. CASE EndOfCpuinfo
  <2>1. /\ pc = "lines" /\ pc' = "done" /\ machine.proc
        /\ UNCHANGED <<machine, online, moves, exists, cpuMap, models, line>>
    BY <1>4 DEF EndOfCpuinfo, system, found, Named
  <2>2. ASSUME Quiet', NEW p \in exists
        PROVE  models[p] = machine.model[cpuMap[p]]
    <3>1. Quiet
      BY <2>1, <2>2 DEF Quiet, TrueCpus, TruePackage
    <3>2. cpuMap[p] \in online /\ cpuMap[p] \in Nat
      BY <2>1, <3>1, ScanIsComplete, CpuAssumption DEF Accounts, OfPackage, IInv, Shape
    <3>3. cpuMap[p] <= line
      BY <1>4, <3>2 DEF EndOfCpuinfo, NextRecord, Types
    <3> QED
      BY <2>1, <3>1, <3>3 DEF Named
  <2> QED
    BY <2>1, <2>2 DEF Named
<1>5. ASSUME NEW c \in Cpu, Hotplug(c) PROVE Named'
  <2>1. moves' # 0
    BY <1>5 DEF Hotplug, Types
  <2> QED
    BY <1>5, <2>1 DEF Hotplug, found, Quiet, Named
<1>6. CASE UNCHANGED vars
  <2>1. UNCHANGED Quiet
    BY <1>6 DEF vars, system, Quiet, TrueCpus, TruePackage
  <2> QED
    BY <1>6, <2>1 DEF vars, system, found, Named
<1>7. ASSUME OpenDir \/ (\E c \in Cpu : NextNode(c)) \/ EndOfDir \/ CheckOnline
             \/ ReadPackage \/ ReadCore \/ ReadFreq \/ Fallback
      PROVE  Named'
  <2>1. pc \in {"opendir", "scan", "online", "package", "core", "freq", "fallback"}
        /\ line' = line /\ models' = models /\ pc' \notin {"lines", "done"}
    BY <1>7 DEF OpenDir, NextNode, EndOfDir, CheckOnline, ReadPackage, ReadCore,
       ReadFreq, Fallback, found
  <2> QED
    BY <1>1, <2>1
<1> QED
  BY <1>2, <1>3, <1>4, <1>5, <1>6, <1>7 DEF Next, Program

\* Reading /proc/cpuinfo only until every package has a model
\* (hw_cpu_models_complete) still gives each the model of its lowest CPU
\* (hw_parse_x86_cpu_model, hw_parse_arm_cpu_model).
THEOREM PackagesAreNamed == Spec => []NamedWhenQuiet
<1>1. Named => NamedWhenQuiet
  BY DEF Named, NamedWhenQuiet
<1>2. Spec => []Named
  BY ScannedAlways, NamedInit, NamedNext, PTL DEF Spec
<1> QED
  BY <1>1, <1>2, PTL
=============================================================================
