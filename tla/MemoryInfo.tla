----------------------------- MODULE MemoryInfo -----------------------------
(***************************************************************************)
(* The RAM and swap lines: hw_parse_meminfo (linux-common/hardware.c) over *)
(* the lines of /proc/meminfo, the Mach and sysctl calls of                *)
(* macos/hardware.c, and hw_print_mem_info (posix/hardware.c).  Numbers of *)
(* KiB are below 2^54, so that their bytes do not wrap; the subtraction of *)
(* two 32-bit page counters on macOS may.                                  *)
(***************************************************************************)
EXTENDS Program, SizeFormat, SequencesExt

CONSTANTS
  Meminfos,     (* the files: sequences of [key, kib], kib a number or NoNumber *)
  PageCounts,   (* the counters a build adds up: records [internal, purgeable,  *)
                (* wired, compressed], or [active, inactive, wired] of a build  *)
                (* for the systems before 10.9                                  *)
  RamSizes,     (* hw.memsize                                                   *)
  SwapUsages,   (* records [total, used]                                        *)
  CountWidth,   (* 2^32: how many values a page counter has                     *)
  PageSize

ASSUME PageAssumption == CountWidth \in Nat \ {0} /\ PageSize \in Nat \ {0}

VARIABLES
  meminfo, (* the file, or the counters: what the kernel says                   *)
  unread,  (* the lines not yet read                                            *)
  kib,     (* the number found for each key, NoNumber when there was none       *)
  mem,     (* mem_node                                                          *)
  flags

memVars == <<meminfo, unread, kib, mem, flags>>

NoNumber  == -1
MemKeys   == {"MemTotal", "MemAvailable", "SwapTotal", "SwapFree",
              "MemFree", "Buffers", "Cached", "SReclaimable"}
EmptyMem  == [ram |-> 0, ramUsed |-> 0, swap |-> 0, swapUsed |-> 0]
Unused    == [unused |-> TRUE]
NothingFound == [k \in MemKeys |-> NoNumber]

ASSUME MeminfoAssumption == Meminfos \subseteq Seq([key : STRING, kib : Nat \cup {NoNumber}])
ASSUME CounterAssumption ==
  /\ PageCounts \subseteq [active : Nat, inactive : Nat, wired : Nat]
       \cup [internal : 0 .. CountWidth - 1, purgeable : 0 .. CountWidth - 1,
             wired : Nat, compressed : Nat]
  /\ RamSizes \subseteq Nat
  /\ \A s \in SwapUsages : s.total \in Nat /\ s.used \in Nat

MemInit ==
  /\ meminfo = <<>>
  /\ unread = <<>>
  /\ kib = NothingFound
  /\ mem = EmptyMem
  /\ flags = {}

MemReturn ==
  /\ Goto("returned")
  /\ meminfo' = <<>> /\ unread' = <<>> /\ kib' = NothingFound /\ mem' = EmptyMem
  /\ flags' = {}
-----------------------------------------------------------------------------
(* Linux and Android                                                       *)

OpenMeminfo ==
  /\ pc = "memory" /\ OnLinux
  /\ \E f \in Meminfos :
       /\ meminfo' = f /\ unread' = f
       /\ Acquire({"meminfo"})
       /\ Goto("mem_lines")
  /\ UNCHANGED <<page, kib, mem, flags>>

MeminfoMissing ==
  /\ pc = "memory" /\ OnLinux
  /\ MemReturn
  /\ UNCHANGED <<held, page>>

\* A line without a colon or without a number is skipped; the last line of a
\* key counts.
ReadMeminfoLine ==
  /\ pc = "mem_lines" /\ unread # <<>>
  /\ unread' = Tail(unread)
  /\ LET l == Head(unread)
     IN  kib' = IF l.key \in MemKeys /\ l.kib # NoNumber
                  THEN [kib EXCEPT ![l.key] = l.kib] ELSE kib
  /\ UNCHANGED <<os, given, unit, pc, held, page, meminfo, mem, flags>>

BytesFound(k) == Larger(kib[k], 0) * Kilo

RamFree ==
  IF kib["MemAvailable"] # NoNumber THEN BytesFound("MemAvailable")
  ELSE BytesFound("MemFree") + BytesFound("Buffers") + BytesFound("Cached")
         + BytesFound("SReclaimable")

Used(total, free) == IF free < total THEN total - free ELSE 0

EndOfMeminfo ==
  /\ pc = "mem_lines" /\ unread = <<>>
  /\ mem' = [ram |-> BytesFound("MemTotal"), swap |-> BytesFound("SwapTotal"),
             ramUsed  |-> Used(BytesFound("MemTotal"), RamFree),
             swapUsed |-> Used(BytesFound("SwapTotal"), BytesFound("SwapFree"))]
  /\ flags' = {f \in {"RAM", "Swap"} :
                 BytesFound(IF f = "RAM" THEN "MemTotal" ELSE "SwapTotal") > 0}
  /\ Goto("mem_print")
  /\ UNCHANGED <<held, page, meminfo, unread, kib>>
-----------------------------------------------------------------------------
(* macOS                                                                   *)

\* hw.memsize: a failure or a size of 0 leaves RAM out.
RamSize ==
  /\ pc = "memory" /\ os = "macos"
  /\ \E s \in RamSizes \cup {0} :
       /\ mem' = [mem EXCEPT !.ram = s]
       /\ IF s = 0 THEN Goto("mem_swap") /\ UNCHANGED held
                   ELSE Goto("mem_host") /\ Acquire({"host_port"})
  /\ UNCHANGED <<page, meminfo, unread, kib, flags>>

IsOlder(vm) == "active" \in DOMAIN vm

\* The difference of the two 32-bit counters is taken in 32 bits.
PagesUsed(vm) ==
  IF IsOlder(vm) THEN vm.active + vm.inactive + vm.wired
  ELSE ((vm.internal - vm.purgeable) % CountWidth) + vm.wired + vm.compressed

\* Variant: the result is not cut off at what is installed.
RamUsedUncut(vm, ram) == PagesUsed(vm) * PageSize

RamUsed(vm, ram) == IF PagesUsed(vm) * PageSize > ram THEN ram ELSE PagesUsed(vm) * PageSize

\* host_page_size and host_statistics64; the port goes back either way.
HostStatistics ==
  /\ pc = "mem_host"
  /\ \E vm \in PageCounts :
       /\ meminfo' = vm
       /\ mem' = [mem EXCEPT !.ramUsed = RamUsed(vm, mem.ram)]
  /\ flags' = flags \cup {"RAM"}
  /\ Release({"host_port"})
  /\ Goto("mem_swap")
  /\ UNCHANGED <<page, unread, kib>>

HostStatisticsFail ==
  /\ pc = "mem_host"
  /\ Release({"host_port"})
  /\ Goto("mem_swap")
  /\ UNCHANGED <<page, memVars>>

SwapUsage ==
  /\ pc = "mem_swap"
  /\ \/ /\ \E s \in SwapUsages :
             mem' = [mem EXCEPT !.swap = s.total, !.swapUsed = s.used]
        /\ flags' = flags \cup {"Swap"}
     \/ UNCHANGED <<mem, flags>>
  /\ Goto("mem_print")
  /\ UNCHANGED <<held, page, meminfo, unread, kib>>
-----------------------------------------------------------------------------
(* hw_print_mem_info, and the end of hw_get_mem_info                       *)

PrintedMemory ==
  LET ram  == [label |-> "RAM", text |-> FormatSize(mem.ram, mem.ramUsed, unit)]
      swap == [label |-> "Swap",
               text  |-> IF mem.swap = 0 THEN Unused
                         ELSE FormatSize(mem.swap, mem.swapUsed, unit)]
  IN  (IF "RAM" \in flags THEN <<ram>> ELSE <<>>)
        \o (IF "Swap" \in flags THEN <<swap>> ELSE <<>>)

PrintMemory ==
  /\ pc = "mem_print"
  /\ page' = page \o PrintedMemory
  /\ Goto("mem_shown")
  /\ UNCHANGED <<held, memVars>>

LeaveMemory ==
  /\ pc = "mem_shown"
  /\ IF OnLinux THEN Release({"meminfo"}) ELSE UNCHANGED held
  /\ MemReturn
  /\ UNCHANGED page

Memory ==
  \/ OpenMeminfo \/ MeminfoMissing \/ ReadMeminfoLine \/ EndOfMeminfo
  \/ RamSize \/ HostStatistics \/ HostStatisticsFail \/ SwapUsage
  \/ PrintMemory \/ LeaveMemory
-----------------------------------------------------------------------------
\* The variables are well formed; a line is printed only of numbers that were
\* found, and nothing is kept from one call to the next.
MemTypeOK ==
  /\ kib \in [MemKeys -> Nat \cup {NoNumber}]
  /\ mem \in [DOMAIN EmptyMem -> Nat]
  /\ flags \subseteq {"RAM", "Swap"}
  /\ OnLinux => IsSuffix(unread, meminfo)
  /\ pc = "returned" => flags = {} /\ mem = EmptyMem /\ kib = NothingFound

\* What the whole file says of a key: its last number.
SaidOf(f, k) ==
  LET those == {j \in DOMAIN f : f[j].key = k /\ f[j].kib # NoNumber}
  IN  IF those = {} THEN NoNumber ELSE f[Max(those)].kib

FreeIn(f) ==
  LET free(k) == Larger(SaidOf(f, k), 0)
  IN  IF SaidOf(f, "MemAvailable") # NoNumber THEN SaidOf(f, "MemAvailable")
      ELSE free("MemFree") + free("Buffers") + free("Cached") + free("SReclaimable")

\* The unit of the last option that sets one.
UnitAsked ==
  LET those == {j \in DOMAIN given : given[j] \in DOMAIN UnitOf}
  IN  IF those = {} THEN UnitAuto ELSE UnitOf[given[Max(those)]]

\* The line of that label, if any, tells of those sizes.
Tells(label, total, free) ==
  LET ls == {l \in Range(page) : l.label = label}
      n  == Larger(total, 0)
      u  == n - Min({n, free})
  IN  IF n = 0 THEN ls = {}
      ELSE \E l \in ls : ls = {l} /\ TellsSizes(l.text, n * Kilo, u * Kilo, UnitAsked)

\* What is shown of RAM and swap is what the file says of them as a whole, in
\* whatever order the lines come, with lines missing, doubled or not numbers,
\* and with counters that do not add up; what is used is never above what is
\* there.  On macOS it is what the counters say, unless there were more
\* purgeable than internal pages, in which case no more than everything is
\* used, and what the swap space is said to hold.  The sizes are in the unit of
\* the last option that sets one (main, hw_parse_meminfo, hw_get_ram_info,
\* hw_get_swap_info, util_format_size).
MemoryIsTrue ==
  pc = "mem_shown" =>
    IF OnLinux
      THEN /\ Tells("RAM", SaidOf(meminfo, "MemTotal"), FreeIn(meminfo))
           /\ Tells("Swap", SaidOf(meminfo, "SwapTotal"),
                            Larger(SaidOf(meminfo, "SwapFree"), 0))
      ELSE \A l \in Range(page) :
             /\ l.label = "RAM" =>
                  LET vm   == meminfo
                      real == IF IsOlder(vm) THEN vm.active + vm.inactive + vm.wired
                              ELSE vm.internal - vm.purgeable + vm.wired + vm.compressed
                  IN  /\ mem.ramUsed <= mem.ram
                      /\ IsOlder(vm) \/ vm.purgeable <= vm.internal =>
                           TellsSizes(l.text, mem.ram, Min({real * PageSize, mem.ram}),
                                      UnitAsked)
             /\ l.label = "Swap" =>
                  IF mem.swap = 0 THEN l.text = Unused
                  ELSE TellsSizes(l.text, mem.swap, mem.swapUsed, UnitAsked)
=============================================================================
