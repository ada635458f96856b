------------------------------ MODULE DriveList ------------------------------
(***************************************************************************)
(* hw_get_drives_info: the program lists the mounted drives, one line per  *)
(* device, while the kernel's mount table changes under it.                *)
(*                                                                         *)
(* Linux and Android (linux-common/hardware.c) read /proc/mounts entry by  *)
(* entry; macOS (macos/hardware.c) asks getfsstat for the number of mounts *)
(* and then for that many of them.  Both remember in a string set the      *)
(* devices they have shown.  The set is StringSetSpec, which StringSet.tla *)
(* implements: its calls may fail for want of memory, and the program      *)
(* looks at neither strset_create's NULL nor strset_add's false.           *)
(***************************************************************************)
EXTENDS Naturals, Sequences, SequencesExt

CONSTANTS Device,      (* the names under /dev/                              *)
          Loop,        (* those of them under /dev/loop                      *)
          NoCall,      (* the string set is at rest                          *)
          Filesystem,  (* what may be mounted: [fsname, dir, type] records   *)
          MaxMounts    (* how many mounts a behaviour may contain            *)

ASSUME MountAssumption == MaxMounts \in Nat

VARIABLES
  os,       (* "linux" or "macos": the platform the program is built for      *)
  mounts,   (* the kernel's mount table: <<[id |-> 1, fs |-> ...], ...>>      *)
  nextId,   (* the id of the next mount; ids are never used twice             *)
  pc,       (* the next statement of hw_get_drives_info                       *)
  n,        (* macOS: the number of mounts the first getfsstat reported       *)
  todo,     (* the entries the program will still be given                    *)
  entry,    (* the entry in hand                                              *)
  initial,  (* history: the mounts that were there when the listing began     *)
  failed,   (* history: the mounts for which statvfs failed or told 0 blocks  *)
  shown,    (* history: the mounts printed, in order                          *)
  lost,     (* history: devices printed whose strset_add then failed          *)
  live, members, call, oom, result        (* the string set's                 *)

setVars == <<live, members, call, oom, result>>
kernel  == <<mounts, nextId>>
vars    == <<os, kernel, pc, n, todo, entry, initial, failed, shown, lost, setVars>>

\* The names handed to the set; on macOS they need not be under /dev/.
Name == {fs.fsname : fs \in Filesystem}

Set == INSTANCE StringSetSpec WITH Key <- Name

ASSUME CallAssumption == NoCall \notin Set!Calls

NoEntry == [id |-> 0]
Ids(s) == {s[j].id : j \in DOMAIN s}
-----------------------------------------------------------------------------
(* Which mounts are shown                                                  *)

\* IGNORE_MOUNT_POINTS, path by path, component by component.
IgnoreMountPoints ==
  {<<".">>, <<"boot">>, <<"mnt", "wslg", "distro">>, <<"run", "user">>,
   <<"var">>, <<"apex">>, <<"bootstrap-apex">>}

\* The ignored path itself or a path below it: the test on characters asks
\* for a '/' or the end after the prefix, which is a prefix of components.
IsIgnoredMountPoint(dir, ignore) == IsPrefix(ignore, dir)

IsValidMount(e) ==
  /\ e.fsname \in Device \ Loop
  /\ e.type \notin {"fuse", "fuseblk", "erofs"}
  /\ \A ignore \in IgnoreMountPoints : ~IsIgnoredMountPoint(e.dir, ignore)

\* macOS: the root or something under /Volumes/.
IsShownVolume(e) ==
  \/ e.dir = <<>>
  \/ Len(e.dir) > 1 /\ e.dir[1] = "Volumes"

Eligible(e) == IF os = "linux" THEN IsValidMount(e) ELSE IsShownVolume(e)
-----------------------------------------------------------------------------
Init ==
  /\ os \in {"linux", "macos"}
  /\ \E fss \in BoundedSeq(Filesystem, MaxMounts) :
       /\ mounts = [j \in DOMAIN fss |-> [id |-> j, fs |-> fss[j]]]
       /\ nextId = Len(fss) + 1
  /\ pc = "start"
  /\ n = 0
  /\ todo = <<>>
  /\ entry = NoEntry
  /\ initial = {}
  /\ failed = {}
  /\ shown = <<>>
  /\ lost = {}
  /\ Set!AbsInit

\* The kernel adds a new mount at the end of its table.  A reader of
\* /proc/mounts that has not reached the end will be given it.
Mount(fs) ==
  LET m == [id |-> nextId, fs |-> fs] IN
  /\ nextId <= MaxMounts
  /\ nextId' = nextId + 1
  /\ mounts' = Append(mounts, m)
  /\ todo' = IF os = "linux" /\ pc \notin {"start", "cleanup", "done"}
               THEN Append(todo, m) ELSE todo
  /\ UNCHANGED <<os, pc, n, entry, initial, failed, shown, lost, setVars>>

\* A mount goes away; what stdio has already buffered of it is still read.
Unmount(j) ==
  /\ mounts' = RemoveAt(mounts, j)
  /\ \/ UNCHANGED todo
     \/ /\ os = "linux"
        /\ \E k \in DOMAIN todo : todo[k] = mounts[j] /\ todo' = RemoveAt(todo, k)
  /\ UNCHANGED <<os, nextId, pc, n, entry, initial, failed, shown, lost, setVars>>
-----------------------------------------------------------------------------
Goto(label) == pc' = label /\ UNCHANGED <<os, kernel>>
Locals == <<n, todo, entry, initial, failed, shown, lost>>

\* fopen(MOUNTS_PATH).
OpenMounts ==
  /\ pc = "start"
  /\ os = "linux"
  /\ \/ Goto("create") /\ todo' = mounts /\ initial' = Ids(mounts)
     \/ Goto("cleanup") /\ UNCHANGED <<todo, initial>>
  /\ UNCHANGED <<n, entry, failed, shown, lost, setVars>>

\* The first getfsstat; n <= 0 is an error to the program.
CountMounts ==
  /\ pc = "start"
  /\ os = "macos"
  /\ \/ mounts # <<>> /\ n' = Len(mounts) /\ Goto("fetch") /\ initial' = Ids(mounts)
     \/ n' = 0 /\ Goto("cleanup") /\ UNCHANGED initial
  /\ UNCHANGED <<todo, entry, failed, shown, lost, setVars>>

\* Variant: the buffer is taken to hold whatever the kernel has.
FetchAllMounts ==
  /\ pc = "fetch"
  /\ mounts # <<>>
  /\ todo' = mounts
  /\ Goto("create")
  /\ UNCHANGED <<n, entry, initial, failed, shown, lost, setVars>>

\* malloc and the second getfsstat, which fills at most the n entries asked
\* for.
FetchMounts ==
  /\ pc = "fetch"
  /\ \/ /\ mounts # <<>>
        /\ todo' = SubSeq(mounts, 1, IF n < Len(mounts) THEN n ELSE Len(mounts))
        /\ Goto("create")
        /\ UNCHANGED initial
     \/ Goto("cleanup") /\ initial' = {} /\ UNCHANGED todo
  /\ UNCHANGED <<n, entry, failed, shown, lost, setVars>>

CreateSet ==
  /\ pc = "create"
  /\ Set!Invoke([op |-> "create", key |-> NoCall])
  /\ Goto("next")
  /\ UNCHANGED Locals

\* The set returns from the call in progress.
SetReturns ==
  /\ Set!ReturnCreate \/ Set!ReturnAdd \/ Set!ReturnContains
  /\ lost' = IF call.op = "add" /\ oom' THEN lost \cup {call.key} ELSE lost
  /\ Goto(pc)
  /\ UNCHANGED <<n, todo, entry, initial, failed, shown>>

\* getmntent, or the next element of the array; then the filters that need
\* nothing but the entry.
NextEntry ==
  /\ pc = "next"
  /\ call = NoCall
  /\ todo # <<>>
  /\ entry' = Head(todo)
  /\ todo' = Tail(todo)
  /\ Goto(IF ~Eligible(Head(todo).fs) THEN "next"
          ELSE IF os = "linux" THEN "statvfs" ELSE "contains")
  /\ UNCHANGED <<n, initial, failed, shown, lost, setVars>>

EndOfMounts ==
  /\ pc = "next"
  /\ call = NoCall
  /\ todo = <<>>
  /\ Goto("cleanup")
  /\ UNCHANGED <<Locals, setVars>>

\* statvfs may fail, on a mount that has gone for one, and may tell 0 blocks.
Statvfs ==
  /\ pc = "statvfs"
  /\ \/ Goto("contains") /\ UNCHANGED failed
     \/ Goto("next") /\ failed' = failed \cup {entry.id}
  /\ UNCHANGED <<n, todo, entry, initial, shown, lost, setVars>>

\* strset_contains, on a set that may be NULL.
CallContains ==
  /\ pc = "contains"
  /\ Goto("seen")
  /\ IF live THEN Set!Invoke([op |-> "contains", key |-> entry.fs.fsname])
             ELSE Set!OnNull
  /\ UNCHANGED Locals

\* Variant: the answer is read the wrong way round.
BranchInverted ==
  /\ pc = "seen"
  /\ call = NoCall
  /\ Goto(IF result = 1 THEN "add" ELSE "next")
  /\ UNCHANGED <<Locals, setVars>>

Branch ==
  /\ pc = "seen"
  /\ call = NoCall
  /\ Goto(IF result = 1 THEN "next" ELSE "add")
  /\ UNCHANGED <<Locals, setVars>>

\* Variant: the device is shown and not remembered.
CallAddNever ==
  /\ pc = "add"
  /\ Goto("print")
  /\ UNCHANGED <<Locals, setVars>>

\* strset_add; its answer is not looked at.
CallAdd ==
  /\ pc = "add"
  /\ Goto("print")
  /\ IF live
       THEN Set!Invoke([op |-> "add", key |-> entry.fs.fsname]) /\ UNCHANGED lost
       ELSE Set!OnNull /\ lost' = lost \cup {entry.fs.fsname}
  /\ UNCHANGED <<n, todo, entry, initial, failed, shown>>

PrintDisk ==
  /\ pc = "print"
  /\ call = NoCall
  /\ shown' = Append(shown, entry)
  /\ Goto("next")
  /\ UNCHANGED <<n, todo, entry, initial, failed, lost, setVars>>

\* Variant: the set is not destroyed.
CleanupLeaks ==
  /\ pc = "cleanup"
  /\ Goto("done")
  /\ UNCHANGED <<Locals, setVars>>

Cleanup ==
  /\ pc = "cleanup"
  /\ Goto("done")
  /\ IF live THEN Set!Destroy ELSE UNCHANGED setVars
  /\ UNCHANGED Locals

Program ==
  \/ OpenMounts \/ CountMounts \/ FetchMounts \/ CreateSet \/ SetReturns
  \/ NextEntry \/ EndOfMounts \/ Statvfs
  \/ CallContains \/ Branch \/ CallAdd \/ PrintDisk \/ Cleanup

Kernel ==
  \/ \E fs \in Filesystem : Mount(fs)
  \/ \E j \in DOMAIN mounts : Unmount(j)

Finished == pc = "done" /\ UNCHANGED vars

Next == Program \/ (pc # "done" /\ Kernel) \/ Finished

Spec == Init /\ [][Next]_vars /\ WF_vars(Program)
-----------------------------------------------------------------------------
Entry == [id : 1 .. MaxMounts, fs : Filesystem]
ShownOf(d) == {j \in DOMAIN shown : shown[j].fs.fsname = d}

\* The variables are well formed; entries come in the order of their mounts;
\* the macOS array is never read past the n entries it was allocated for.
TypeOK ==
  /\ os \in {"linux", "macos"}
  /\ mounts \in Seq(Entry) /\ todo \in Seq(Entry) /\ shown \in Seq(Entry)
  /\ n \in 0 .. MaxMounts
  /\ os = "macos" => Len(todo) <= n
  /\ \A s \in {mounts, todo} : \A j, k \in DOMAIN s : j < k => s[j].id < s[k].id
  /\ entry \in {NoEntry} \cup Entry
  /\ initial \cup failed \subseteq 1 .. MaxMounts
  /\ lost \subseteq Name
  /\ pc \in {"start", "fetch", "create", "next", "statvfs", "contains", "seen",
             "add", "print", "cleanup", "done"}

\* A drive that was mounted when the listing began and still is when it ends
\* has been shown, unless statvfs refused it: whatever was mounted or
\* unmounted meanwhile (macOS: between the two getfsstat calls) and whatever
\* the string set could not allocate (hw_get_drives_info).
StableDrivesShown ==
  pc = "done" =>
    \A j \in DOMAIN mounts :
      /\ mounts[j].id \in initial \ failed
      /\ Eligible(mounts[j].fs)
      => ShownOf(mounts[j].fs.fsname) # {}

\* A file system is shown a second time, under the same name, only when remembering it has failed.
ShownOnce ==
  \A d \in Name : \A j, k \in ShownOf(d) : j = k \/ d \in lost

\* Of several mounts of a device the first in the kernel's table is the one
\* shown, and statvfs failures apart nothing that was mounted later is shown
\* in its place.
FirstMountWins ==
  \A k \in DOMAIN shown, j \in DOMAIN mounts :
    /\ mounts[j].fs.fsname = shown[k].fs.fsname
    /\ mounts[j].id \in initial \ failed
    /\ Eligible(mounts[j].fs)
    /\ mounts[j].id < shown[k].id
    => \E l \in ShownOf(mounts[j].fs.fsname) : shown[l].id <= mounts[j].id

\* A device has one line, that of its first mount, whatever is mounted during the
\* listing (hw_get_drives_info).
OneLinePerDevice == ShownOnce /\ FirstMountWins

\* The listing ends, on every error path too, with the string set destroyed.
ListingEnds == <>(pc = "done" /\ ~live)
=============================================================================
