---------------------------- MODULE HardwareNames ----------------------------
(***************************************************************************)
(* The two clients of the ID parser on Linux (linux/hardware.c).           *)
(* hw_get_gpu_info collects the cards of /sys/class/drm, asks pci.ids for   *)
(* their names only, and prints them with equal ones counted together.     *)
(* hw_parse_arm_cpu_model parses all of the embedded arm.ids and names the  *)
(* CPU of each package by implementer and part.                            *)
(***************************************************************************)
EXTENDS IdsParser, SequencesExt

CONSTANTS
  Cards,    (* the [vendor, device] numbers a card or a CPU may report, with *)
            (* 0 for a file that cannot be read                              *)
  MaxGpus,  (* MAX_GPUS                                                      *)
  MaxCards  (* how many cards, or ARM packages, a behaviour may have         *)

\* `queries' is NULL or one entry for each card.
ASSUME CardAssumption ==
  /\ Cards \subseteq [vendor : Nat, device : Nat]
  /\ Full \notin Seq(Cards)
  /\ MaxGpus \in Nat \ {0}

VARIABLES
  client,   (* "gpu" or "arm"                                                *)
  pc,
  list,     (* the linked list of add_gpu, head first; the ARM records read  *)
  names,    (* the model strings                                             *)
  printed   (* the line shown for the cards: names with their counts         *)

hwVars == <<client, list, names, printed>>
vars   == <<idsVars, pc, hwVars>>

\* The name of a card or CPU: the lines its parts come from, and its number.
NameOf(x) ==
  LET v == IF phase = "failed" THEN Null ELSE FindRoot(x.vendor)
      d == IF phase = "failed" THEN Null ELSE Find(v, x.device)
  IN  [vendor |-> v, device |-> d, part |-> x.device,
       raw |-> IF client = "arm" /\ v = Null THEN x.vendor ELSE 0]

\* Variant: the search for equals starts with the entry itself.
FormatDuplicatesCountsItself(s) ==
  LET shown[n \in 0 .. Len(s)] ==
        IF n = 0 THEN <<>>
        ELSE IF \E k \in 1 .. n - 1 : s[k] = s[n] THEN shown[n - 1]
        ELSE Append(shown[n - 1],
                    [name |-> s[n],
                     count |-> 1 + Cardinality({k \in n .. Len(s) : s[k] = s[n]})])
  IN  shown[Len(s)]

\* util_format_duplicate_hardware: one entry for each name not seen before,
\* with the number of times it comes.
FormatDuplicates(s) ==
  LET shown[n \in 0 .. Len(s)] ==
        IF n = 0 THEN <<>>
        ELSE IF \E k \in 1 .. n - 1 : s[k] = s[n] THEN shown[n - 1]
        ELSE Append(shown[n - 1],
                    [name |-> s[n],
                     count |-> 1 + Cardinality({k \in n + 1 .. Len(s) : s[k] = s[n]})])
  IN  shown[Len(s)]

Kept == SubSeq(list, 1, IF Len(list) < MaxGpus THEN Len(list) ELSE MaxGpus)
-----------------------------------------------------------------------------
Init ==
  /\ IdsInit
  /\ client \in {"gpu", "arm"}
  /\ pc = IF client = "gpu" THEN "cards" ELSE "ask"
  /\ list = <<>>
  /\ names = <<>>
  /\ printed = <<>>

\* readdir returns cardN; a file of its two that cannot be read leaves a 0; the
\* new node becomes the head of the list, unless there is no memory for it.
ReadCard(c) ==
  /\ pc = "cards"
  /\ Len(list) < MaxCards
  /\ \/ list' = <<c>> \o list /\ UNCHANGED failures
     \/ Fail /\ UNCHANGED list
  /\ UNCHANGED <<db, queries, phase, parsing, forest, pc, client, names, printed>>

\* No directory, or no more of it.
EndOfCards ==
  /\ pc = "cards"
  /\ pc' = IF list = <<>> THEN "cleanup" ELSE "ask"
  /\ UNCHANGED <<idsVars, hwVars>>

\* The queries are those of the first MAX_GPUS of the list.
AskGpu ==
  /\ pc = "ask"
  /\ client = "gpu"
  /\ Parse(Kept) \/ NoDatabase(Kept)
  /\ pc' = "parse"
  /\ UNCHANGED hwVars

AskArm ==
  /\ pc = "ask"
  /\ client = "arm"
  /\ Parse(Full)
  /\ pc' = "parse"
  /\ UNCHANGED hwVars

ParseLine == pc = "parse" /\ ParserStep /\ UNCHANGED <<pc, hwVars>>

\* hw_gpu_lookup_names, up to the formatting.
LookupGpus ==
  /\ pc = "parse"
  /\ client = "gpu"
  /\ phase \in {"parsed", "failed"}
  /\ names' = [j \in DOMAIN Kept |-> NameOf(Kept[j])]
  /\ pc' = "print"
  /\ UNCHANGED <<idsVars, client, list, printed>>

\* hw_arm_lookup_name, for a package whose implementer and part have been read.
LookupArm(c) ==
  /\ pc = "parse"
  /\ client = "arm"
  /\ phase \in {"parsed", "failed"}
  /\ Len(list) < MaxCards
  /\ list' = Append(list, c)
  /\ names' = Append(names, NameOf(c))
  /\ UNCHANGED <<idsVars, pc, client, printed>>

\* The packages are printed later, with their cores and frequencies.
EndOfArm ==
  /\ pc = "parse"
  /\ client = "arm"
  /\ phase \in {"parsed", "failed"}
  /\ pc' = "cleanup"
  /\ UNCHANGED <<idsVars, hwVars>>

PrintNames ==
  /\ pc = "print"
  /\ printed' = FormatDuplicates(names)
  /\ pc' = "cleanup"
  /\ UNCHANGED <<idsVars, client, list, names>>

Cleanup ==
  /\ pc = "cleanup"
  /\ IF phase = "parsed" THEN Destroy ELSE UNCHANGED forest
  /\ pc' = "done"
  /\ UNCHANGED <<db, queries, phase, parsing, failures, hwVars>>

Next ==
  \/ \E c \in Cards : ReadCard(c)
  \/ EndOfCards \/ AskGpu \/ AskArm \/ ParseLine \/ LookupGpus
  \/ \E c \in Cards : LookupArm(c)
  \/ EndOfArm \/ PrintNames \/ Cleanup
  \/ pc = "done" /\ UNCHANGED vars

Spec == Init /\ [][Next]_vars
-----------------------------------------------------------------------------
TypeOK ==
  /\ IdsTypeOK
  /\ client \in {"gpu", "arm"}
  /\ list \in Seq(Cards)
  /\ names \in Seq([vendor : DOMAIN db \cup {Null}, device : DOMAIN db \cup {Null},
                    part : Nat, raw : Nat])

\* A name that is shown is that of the numbers read, whatever allocations
\* failed: the vendor's line is one of that vendor, and the device's is one of
\* that device, under that very line - or that line itself when the two numbers
\* are equal, which is what tree_find answers (DeviceIn).
NamesAreTrue ==
  \A j \in DOMAIN names :
    LET x == list[j]
        n == names[j]
    IN  /\ n.part = x.device
        /\ n.vendor # Null => IsVendor(db[n.vendor]) /\ db[n.vendor].id = x.vendor
        /\ n.device # Null => /\ db[n.device].id = x.device
                              /\ n.device = n.vendor \/ SectionOf(n.device) = n.vendor

\* When no allocation failed and the database was read, a name is the one a
\* reading of the whole database gives, although the parser keeps only what was
\* asked for and stops early (util_parse_ids_file_filtered).
NamesAreComplete ==
  failures = 0 /\ phase = "parsed" =>
    \A j \in DOMAIN names :
      LET x == list[j] IN
      /\ names[j].vendor = VendorIn(x.vendor)
      /\ names[j].device = DeviceIn(x.vendor, x.device)

\* Every card found is counted, up to MAX_GPUS, under exactly one entry, the
\* one that has its name (util_format_duplicate_hardware).
CardsAreCounted ==
  client = "gpu" /\ pc \in {"cleanup", "done"} =>
    /\ Len(names) = Len(Kept)
    /\ \A k \in DOMAIN names : \E j \in DOMAIN printed : printed[j].name = names[k]
    /\ \A j, k \in DOMAIN printed : printed[j].name = printed[k].name => j = k
    /\ \A j \in DOMAIN printed :
         printed[j].count = Cardinality({k \in DOMAIN names : names[k] = printed[j].name})

\* Nothing of the forest is left, except under a root the forest had no room
\* for (tree_add_to_forest drops it).
ForestIsFreed ==
  pc = "done" =>
    \A p \in DOMAIN heap : p \in lost \/ SectionOf(p) \in lost
=============================================================================
