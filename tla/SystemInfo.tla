----------------------------- MODULE SystemInfo -----------------------------
(***************************************************************************)
(* sys_init, sys_print_header and sys_print_info (core/system.c) with the  *)
(* platforms' sys_get_distro and sys_get_model_name.  The names that are   *)
(* searched are texts (FileReaders).  macOS asks sw_vers through           *)
(* capture_line, which is CaptureSpec here; CaptureLine.tla implements it. *)
(***************************************************************************)
EXTENDS Program, FileReaders, Bitset, SequencesExt

CONSTANTS
  OsReleases,     (* the os-release files: sequences of [key, value]           *)
  VersionLines,   (* what sw_vers may write                                    *)
  DarwinName,     (* darwin_map: a function from major versions to names       *)
  DarwinMajors,   (* the major versions of the kernels                         *)
  Dmis,           (* records [chassis, vendor, family, name] of files          *)
  Plists,         (* functions from model identifiers to marketing names       *)
  ModelIds,       (* hw.model                                                  *)
  Properties,     (* Android: records [version, brand, model, name] of files   *)
  LongVendor,     (* LONGEST_VENDOR_NAMES: a function from names to short ones *)
  VendorGarbage,  (* GARBAGE_IN_VENDOR_NAME, in order                          *)
  AllCaps,        (* ALLCAPS_VENDOR_NAMES                                      *)
  ToLower,        (* tolower: a function on the pieces in capitals             *)
  FamilyGarbage,  (* IGNORE_SYS_PRODUCT_FAMILY                                 *)
  ProcCounts,     (* how many processes there may be                           *)
  ProcWidth,      (* 2^16: sysinfo counts the processes in 16 bits             *)
  Uptimes,
  NoCommand

VARIABLES
  sys,      (* sys_data, as far as it is read: [known, uptime, procs]          *)
  said,     (* what the platform has said, for the properties                  *)
  rest,     (* the lines of os-release not yet read                            *)
  path,     (* macOS: which of the two plist files is being read               *)
  osText, device,   (* os_buf, device_buf                                      *)
  asked, result, line   (* capture_line's                                      *)

capVars == <<asked, result, line>>
sysVars == <<sys, said, rest, path, osText, device, capVars>>

ASSUME SystemAssumption ==
  /\ ProcCounts \subseteq Nat /\ ProcWidth \in Nat \ {0} /\ Uptimes \subseteq Nat
  /\ OsReleases \subseteq Seq([key : STRING, value : Seq(STRING)])
  /\ VersionLines \subseteq Seq(STRING)

\* The marketing name of a Mac does not begin with an identifier.
ASSUME PlistAssumption == \A p \in Plists : \A id \in DOMAIN p : p[id][1] \notin DOMAIN p

SwVers == [first : VersionLines, good : BOOLEAN]
FirstLine(c) == c.first
EndsWell(c)  == c.good
Cap == INSTANCE CaptureSpec WITH Command <- SwVers, Line <- FirstLine,
                                 Succeeds <- EndsWell

NoSys  == [known |-> FALSE, uptime |-> 0, procs |-> 0]
NoSaid == [procs |-> 0, distro |-> <<>>, model |-> <<>>]

SysInit ==
  /\ sys = NoSys /\ said = NoSaid /\ rest = <<>> /\ path = 0
  /\ osText = <<>> /\ device = <<>>
  /\ asked = NoCommand /\ result = -1 /\ line = <<>>
-----------------------------------------------------------------------------
(* sys_init                                                                *)

\* Linux and Android: sysinfo keeps the number of processes in 16 bits.
LinuxSysInit ==
  /\ pc = "sys_init" /\ OnLinux
  /\ \E known \in BOOLEAN :
       \/ \E n \in ProcCounts, t \in Uptimes :
            /\ sys' = [known |-> known, uptime |-> t, procs |-> n % ProcWidth]
            /\ said' = [said EXCEPT !.procs = n]
       \/ sys' = [NoSys EXCEPT !.known = known] /\ UNCHANGED said
  /\ Goto("returned")
  /\ UNCHANGED <<held, page, rest, path, osText, device, capVars>>

MacSysInit ==
  /\ pc = "sys_init" /\ os = "macos"
  /\ \E known \in BOOLEAN, t \in Uptimes :
       sys' = [known |-> known, uptime |-> t, procs |-> 0]
  /\ Goto("procs_size")
  /\ UNCHANGED <<held, page, said, rest, path, osText, device, capVars>>

\* The size of the process list is asked for; the buffer is allocated.
ProcsSize ==
  /\ pc = "procs_size"
  /\ \/ /\ \E n \in ProcCounts : said' = [said EXCEPT !.procs = n]
        /\ Acquire({"procs"})
        /\ Goto("procs_fetch")
     \/ Goto("returned") /\ UNCHANGED <<said, held>>
  /\ UNCHANGED <<page, sys, rest, path, osText, device, capVars>>

\* Variant: the size of the first call is taken for that of the list.
ProcsFetchStale ==
  /\ pc = "procs_fetch"
  /\ \E n \in ProcCounts :
       /\ said' = [said EXCEPT !.procs = n]
       /\ sys' = [sys EXCEPT !.procs = IF n > said.procs THEN 0 ELSE said.procs]
  /\ Release({"procs"})
  /\ Goto("returned")
  /\ UNCHANGED <<page, rest, path, osText, device, capVars>>

\* The list is fetched, and is as long as it is by now; one that has grown past
\* the buffer makes the call fail, and the count stays 0.
ProcsFetch ==
  /\ pc = "procs_fetch"
  /\ \E n \in ProcCounts :
       /\ said' = [said EXCEPT !.procs = n]
       /\ sys' = [sys EXCEPT !.procs = IF n > said.procs THEN 0 ELSE n]
  /\ Release({"procs"})
  /\ Goto("returned")
  /\ UNCHANGED <<page, rest, path, osText, device, capVars>>

\* sys_print_header: the user's name, and the node's.
PrintHeader ==
  /\ pc = "header"
  /\ \E user \in {"user", "unknown"} :
       PrintLine("header", <<user, IF sys.known THEN "node" ELSE "unknown">>)
  /\ Goto("returned")
  /\ UNCHANGED <<held, sysVars>>
-----------------------------------------------------------------------------
(* sys_get_distro                                                          *)

Machine == IF sys.known THEN "machine" ELSE "unknown"

\* The first of two files that opens, or else the name of the system.
OpenOsRelease ==
  /\ pc = "info" /\ os = "linux"
  /\ \/ /\ \E f \in OsReleases : rest' = f /\ said' = [said EXCEPT !.distro = f]
        /\ Acquire({"os-release"})
        /\ Goto("distro")
        /\ UNCHANGED osText
     \/ /\ osText' = <<IF sys.known THEN "Linux" ELSE "unknown", Machine>>
        /\ Goto("model")
        /\ UNCHANGED <<rest, said, held>>
  /\ UNCHANGED <<page, sys, path, device, capVars>>

\* PRETTY_NAME ends the search.
ReadOsRelease ==
  /\ pc = "distro" /\ rest # <<>>
  /\ LET l == Head(rest)
     IN  /\ osText' = IF l.key \in {"NAME", "PRETTY_NAME"} THEN l.value ELSE osText
         /\ rest' = IF l.key = "PRETTY_NAME" THEN <<>> ELSE Tail(rest)
  /\ UNCHANGED <<os, given, unit, pc, held, page, sys, said, path, device, capVars>>

EndOfOsRelease ==
  /\ pc = "distro" /\ rest = <<>>
  /\ osText' = Append(osText, Machine)
  /\ Release({"os-release"})
  /\ Goto("model")
  /\ UNCHANGED <<page, sys, said, rest, path, device, capVars>>

OsName(major) == IF sys.known /\ major \in DOMAIN DarwinName
                   THEN DarwinName[major] ELSE "macOS"

\* sysctl knows the version, or sw_vers is asked.
ProductVersion ==
  /\ pc = "info" /\ os = "macos"
  /\ \E major \in DarwinMajors :
       /\ said' = [said EXCEPT !.distro = major]
       /\ \/ /\ osText' = <<OsName(major), "15.5", Machine>>
             /\ Goto("model")
             /\ UNCHANGED capVars
          \/ /\ \E c \in SwVers : Cap!Ask(c)
             /\ Goto("sw_vers")
             /\ UNCHANGED osText
  /\ UNCHANGED <<held, page, sys, rest, path, device>>

\* "unknown" covers whatever part of a line is in the buffer.
SwVersAnswers ==
  /\ pc = "sw_vers"
  /\ Cap!Answer
  /\ osText' = <<OsName(said.distro)>> \o (IF result' = 0 THEN line' ELSE <<"unknown">>) \o <<Machine>>
  /\ Goto("model")
  /\ UNCHANGED <<held, page, sys, said, rest, path, device>>

Property(p) == ReadOr(p, <<"Unknown">>)

AndroidDistro ==
  /\ pc = "info" /\ os = "android"
  /\ \E p \in Properties :
       /\ said' = [said EXCEPT !.model = p]
       /\ osText' = <<"Android">> \o Property(p.version) \o <<Machine>>
  /\ Goto("model")
  /\ UNCHANGED <<held, page, sys, rest, path, device, capVars>>
-----------------------------------------------------------------------------
(* sys_get_model_name on Linux: the DMI tables of a portable machine, or   *)
(* the device tree on builds for ARM and the like                          *)

\* BIT takes the numbers from 32 on to the second block by hand.
PortableChassis ==
  [bits |-> [b \in 0 .. Blocks(64) - 1 |->
               IF b = 0 THEN {Bit(c) : c \in {8, 9, 10, 11, 14, 30, 31}} ELSE {Bit(32)}],
   capacity |-> 64]

IsPortable(chassis) == \E c \in ReadUint8(chassis) : SetContains(PortableChassis, c)

\* util_string_in_array: the first text of the list that occurs in t, wherever it
\* does, ends the name, and so does the character before it.
CutVendor(t) ==
  LET there == {g \in DOMAIN VendorGarbage : PlaceOf(VendorGarbage[g], t) > 0}
  IN  IF there = {} THEN t
      ELSE SubSeq(t, 1, PlaceOf(VendorGarbage[Min(there)], t) - 2)

Occurs(texts, t) == \E g \in texts : PlaceOf(g, t) > 0

\* The capitals after the first character become small letters, up to the first
\* character that is none.
SanitizeVendor(vendor) ==
  LET t    == CutVendor(IF vendor \in DOMAIN LongVendor THEN LongVendor[vendor] ELSE vendor)
      stop == Min({j \in 2 .. Len(t) : t[j] \notin DOMAIN ToLower} \cup {Len(t) + 1})
  IN  IF Occurs(AllCaps, t) THEN t
      ELSE [j \in DOMAIN t |-> IF 1 < j /\ j < stop THEN ToLower[t[j]] ELSE t[j]]

\* The first occurrence of the vendor goes, wherever it is, within a word too, and
\* with it a blank that follows.
RemoveVendor(vendor, name) ==
  LET at  == PlaceOf(vendor, name)
      end == at + Len(vendor)
      gap == IF end <= Len(name) /\ name[end] = " " THEN 1 ELSE 0
  IN  IF at = 0 THEN name
      ELSE SubSeq(name, 1, at - 1) \o SubSeq(name, end + gap, Len(name))

Fold(t) == [j \in DOMAIN t |-> IF t[j] \in DOMAIN ToLower THEN ToLower[t[j]] ELSE t[j]]

IsFamilyGarbage(family) == Occurs(FamilyGarbage, family)

DmiLine(vendor, family, name) ==
  vendor \o <<" ">>
    \o (IF IsFamilyGarbage(family) THEN <<>>
        ELSE (IF PlaceOf(Fold(family), Fold(name)) > 0 THEN <<>> ELSE family) \o <<" ">>)
    \o name

\* Variant: the family is looked for in the name as the file gives it.
DmiNameEarly(dmi) ==
  LET vendor == SanitizeVendor(ReadOr(dmi.vendor, <<>>))
      family == ReadOr(dmi.family, <<>>)
      name   == ReadOr(dmi.name, <<>>)
  IN  DmiLine(vendor, IF PlaceOf(Fold(family), Fold(name)) > 0 THEN <<>> ELSE family,
              RemoveVendor(vendor, name))

\* The family is looked for in what is left of the name.
DmiName(dmi) ==
  LET vendor == SanitizeVendor(ReadOr(dmi.vendor, <<>>))
  IN  DmiLine(vendor, ReadOr(dmi.family, <<>>),
              RemoveVendor(vendor, ReadOr(dmi.name, <<>>)))

LinuxModel ==
  /\ pc = "model" /\ os = "linux"
  /\ \E dmi \in Dmis :
       /\ said' = [said EXCEPT !.model = dmi]
       /\ device' = IF IsPortable(dmi.chassis) THEN DmiName(dmi) ELSE <<>>
  /\ Goto("info_print")
  /\ UNCHANGED <<held, page, sys, rest, path, osText, capVars>>

\* The first of two files of the device tree that can be read.
DeviceTreeModel ==
  /\ pc = "model" /\ os = "linux"
  /\ device' \in {<<>>, <<"Board">>}
  /\ Goto("info_print")
  /\ UNCHANGED <<held, page, sys, said, rest, path, osText, capVars>>
-----------------------------------------------------------------------------
(* sys_get_model_name on Android: the brand, the model and the name        *)

AndroidName(p) ==
  LET brand == Property(p.brand)
      model == Property(p.model)
      name  == Property(p.name)
      named == <<" ", "(">> \o name \o <<")">>
  IN  IF PlaceOf(brand, model) > 0 THEN model \o (IF brand = model THEN <<>> ELSE named)
      ELSE brand \o <<" ">> \o model \o (IF model = name THEN <<>> ELSE named)

AndroidModel ==
  /\ pc = "model" /\ os = "android"
  /\ device' = AndroidName(said.model)
  /\ Goto("info_print")
  /\ UNCHANGED <<held, page, sys, said, rest, path, osText, capVars>>
-----------------------------------------------------------------------------
(* sys_get_model_name on macOS: the identifier is looked up in a property  *)
(* list that create_plist_from_file maps                                   *)

MacModel ==
  /\ pc = "model" /\ os = "macos"
  /\ \/ /\ \E id \in ModelIds : device' = <<id>>
        /\ path' = 1
        /\ Goto("plist_open")
     \/ /\ device' = <<"Unknown Apple Device">>
        /\ Goto("info_print")
        /\ UNCHANGED path
  /\ UNCHANGED <<held, page, sys, said, rest, osText, capVars>>

\* A call that gives a handle, or sends control to the clean-up.
Try(at, hs, next) ==
  /\ pc = at
  /\ \/ Acquire(hs) /\ Goto(next)
     \/ Goto("plist_close") /\ UNCHANGED held
  /\ UNCHANGED <<page, sysVars>>

OpenPlist  == Try("plist_open", {"plist_fd"}, "plist_stat")
StatPlist  == Try("plist_stat", {}, "plist_map")
MapPlist   == Try("plist_map", {"plist_map"}, "plist_data")
DataPlist  == Try("plist_data", {"plist_data"}, "plist_parse")
ParsePlist == Try("plist_parse", {"plist"}, "plist_close")

\* What create_plist_from_file has acquired goes, except the list itself; a
\* second file is tried when there is none.
ClosePlist ==
  /\ pc = "plist_close"
  /\ Release({h \in {"plist_data", "plist_map", "plist_fd"} : Holds(h)})
  /\ IF Holds("plist") THEN Goto("plist_key") /\ UNCHANGED path
     ELSE IF path = 1   THEN Goto("plist_open") /\ path' = 2
     ELSE Goto("info_print") /\ path' = 0
  /\ UNCHANGED <<page, sys, said, rest, osText, device, capVars>>

\* A list that is not a dictionary, and a key that cannot be made, end it.
MakeKey ==
  /\ pc = "plist_key"
  /\ \/ Acquire({"model_key"}) /\ Goto("plist_look_up") /\ UNCHANGED path
     \/ Release({"plist"}) /\ Goto("info_print") /\ path' = 0
  /\ UNCHANGED <<page, sys, said, rest, osText, device, capVars>>

LookUpModel ==
  /\ pc = "plist_look_up"
  /\ \E p \in Plists :
       /\ said' = [said EXCEPT !.model = p]
       /\ device' = IF device[1] \in DOMAIN p THEN p[device[1]] ELSE device
  /\ Release({"plist", "model_key"})
  /\ path' = 0
  /\ Goto("info_print")
  /\ UNCHANGED <<page, sys, rest, osText, capVars>>
-----------------------------------------------------------------------------
(* sys_print_info                                                          *)

FormatUptime(t) ==
  [days |-> t \div 86400, hours |-> (t % 86400) \div 3600,
   minutes |-> (t % 3600) \div 60, seconds |-> t % 60]

Line(label, text) == [label |-> label, text |-> text]

PrintInfo ==
  /\ pc = "info_print"
  /\ page' = page \o <<Line("OS", osText)>>
       \o (IF device = <<>> THEN <<>> ELSE <<Line("Device", device)>>)
       \o <<Line("Kernel", IF sys.known THEN "release" ELSE "unknown"),
            Line("Uptime", FormatUptime(sys.uptime)), Line("Processes", sys.procs)>>
  /\ Goto("info_shown")
  /\ UNCHANGED <<held, sysVars>>

\* What sys_data holds is not read again.
LeaveInfo ==
  /\ pc = "info_shown"
  /\ Goto("returned")
  /\ sys' = NoSys /\ said' = NoSaid /\ rest' = <<>> /\ path' = 0
  /\ osText' = <<>> /\ device' = <<>>
  /\ asked' = NoCommand /\ result' = -1 /\ line' = <<>>
  /\ UNCHANGED <<held, page>>

System ==
  \/ LinuxSysInit \/ MacSysInit \/ ProcsSize \/ ProcsFetch \/ PrintHeader
  \/ OpenOsRelease \/ ReadOsRelease \/ EndOfOsRelease
  \/ ProductVersion \/ SwVersAnswers \/ AndroidDistro
  \/ LinuxModel \/ DeviceTreeModel \/ AndroidModel \/ MacModel
  \/ OpenPlist \/ StatPlist \/ MapPlist \/ DataPlist \/ ParsePlist
  \/ ClosePlist \/ MakeKey \/ LookUpModel
  \/ PrintInfo \/ LeaveInfo
-----------------------------------------------------------------------------
\* The variables are well formed; what one call has found is not there for the
\* next.
SysTypeOK ==
  /\ sys.procs \in Nat /\ sys.uptime \in Nat
  /\ path \in 0 .. 2
  /\ asked \in SwVers \cup {NoCommand}
  /\ pc = "returned" => rest = <<>> /\ osText = <<>> /\ device = <<>> /\ path = 0

\* What the lines of os-release say together.
DistroIn(f) ==
  LET pretty == {j \in DOMAIN f : f[j].key = "PRETTY_NAME"}
      plain  == {j \in DOMAIN f : f[j].key = "NAME"}
  IN  IF pretty # {} THEN f[Min(pretty)].value
      ELSE IF plain # {} THEN f[Max(plain)].value ELSE <<>>

\* What is left of a name when its first mention of the vendor has gone: all of it
\* when it has none; or else nothing but that mention is missing, with or without
\* the blank after it, and none stands before the place.
IsLeft(left, vendor, name) ==
  IF PlaceOf(vendor, name) = 0 THEN left = name
  ELSE \E j \in 0 .. Len(name), k \in 1 .. Len(name) + 1 :
         /\ left = SubSeq(name, 1, j) \o SubSeq(name, k, Len(name))
         /\ SubSeq(name, j + 1, k - 1) \in {vendor, vendor \o <<" ">>}
         /\ \A i \in 1 .. j : SubSeq(name, i, i + Len(vendor) - 1) # vendor

\* The vendor comes first; the product's name comes last, without its first mention
\* of the vendor, wherever that is, and with the rest of a word that the vendor began
\* or ended (test_remove_vendor_from_model expects both); the family is there, in
\* capitals or not, unless it is a placeholder, and nothing stands between the two
\* when the name that is shown has it already.
DmiIsTrue(dmi) ==
  LET vendor == SanitizeVendor(ReadOr(dmi.vendor, <<>>))
      family == ReadOr(dmi.family, <<>>)
      name   == ReadOr(dmi.name, <<>>)
  IN  IF ReadUint8(dmi.chassis) \cap {8, 9, 10, 11, 14, 30, 31, 32} = {} THEN device = <<>>
      ELSE /\ IsPrefix(vendor, device)
           /\ \E j \in Len(vendor) + 1 .. Len(device) :
                LET left == SubSeq(device, j + 1, Len(device))
                    gap  == SubSeq(device, Len(vendor) + 1, j)
                IN  /\ IsLeft(left, vendor, name)
                    /\ PlaceOf(Fold(family), Fold(left)) > 0 => Range(gap) = {" "}
           /\ IsFamilyGarbage(family) \/ PlaceOf(Fold(family), Fold(device)) > 0

\* Model, brand and name are all there, and no brand stands before a model that
\* has it.
AndroidIsTrue(p) ==
  LET brand == Property(p.brand)
      model == Property(p.model)
  IN  /\ PlaceOf(model, device) > 0 /\ PlaceOf(brand, device) > 0
      /\ brand # model => PlaceOf(Property(p.name), device) > 0
      /\ PlaceOf(brand, model) > 0 => IsPrefix(model, device)

\* The page says what the platform said: the number of processes that the last
\* call found, or 0, as long as sysinfo's 16 bits hold it; an uptime that adds up;
\* the PRETTY_NAME of os-release wherever it stands, and the last NAME
\* without one; a whole version or "unknown", never part of a line; and the
\* marketing name whenever the list has one (sys_init, sys_get_distro,
\* sys_get_model_name of macOS).
SystemIsTrue ==
  pc = "info_shown" =>
    /\ sys.procs < said.procs => sys.procs = 0 \/ (OnLinux /\ said.procs >= ProcWidth)
    /\ sys.procs <= said.procs
    /\ \E l \in Range(page) :
         /\ l.label = "Uptime"
         /\ l.text.hours < 24 /\ l.text.minutes < 60 /\ l.text.seconds < 60
         /\ ((l.text.days * 24 + l.text.hours) * 60 + l.text.minutes) * 60
               + l.text.seconds = sys.uptime
    /\ os = "linux" /\ said.distro # <<>> =>
         osText = Append(DistroIn(said.distro), Machine)
    /\ os = "macos" =>
         /\ SubSeq(osText, 2, Len(osText) - 1)
              \in {<<"15.5">>, <<"unknown">>} \cup (VersionLines \ {<<>>})
         /\ said.model # <<>> => device[1] \notin DOMAIN said.model

\* Brands, vendors and products are named, and nothing else of a product's name is
\* lost (sys_get_model_name of Linux and of Android).
ModelIsTrue ==
  pc = "info_shown" =>
    /\ os = "linux" /\ said.model # <<>> => DmiIsTrue(said.model)
    /\ os = "android" => AndroidIsTrue(said.model)
=============================================================================
