---------------------------- MODULE MCTextfetch ----------------------------
(* Machines of each platform with what is missing, doubled, malformed or at a *)
(* limit, and the options of a run.                                           *)
EXTENDS Textfetch

\* set_count_bits counts what set_add has put in, in the blocks asked for, with a last
\* block that is full, that is not, and that is empty.
ASSUME CountIsCardinality ==
  \A capacity \in {0, 31, 32, 33, 64, 70}, blocks \in 0 .. 4 :
    \A S \in SUBSET {0, 1, 31, 32, 33, 63, 64} :
      LET filled == FoldSet(LAMBDA num, set : SetAdd(set, num), EmptyBitset(capacity), S)
      IN  SetCountBits(filled, blocks) =
            Cardinality({num \in S : num < capacity /\ num < BlockBits * blocks})

MCArgLists == {<<>>, <<"k">>, <<"g", "v">>, <<"k", "no-color", "g">>, <<"g", "h">>,
               <<"k", "help">>, <<"V", "?">>, <<"g", "?", "V">>}

----------------------------------------------------------------------------
(* System *)
Key(k, v) == [key |-> k, value |-> v]
Releases == {Key("NAME", <<"Debian">>), Key("NAME", <<"Fedora", "Linux">>),
             Key("ID", <<"x">>), Key("PRETTY_NAME", <<"Debian", "12">>),
             Key("PRETTY_NAME", <<>>)}
MCOsReleases == BoundedSeq(Releases, 2)
                  \cup {<<Key("NAME", <<"Debian">>), Key("ID", <<"x">>), p>> : p \in Releases}
MCVersionLines == {<<>>, <<"10.", "9">>}
MCDarwin == (24 :> "macOS Sequoia") @@ (13 :> "OS X Mavericks")

\* All names on a notebook, and one of them on any other chassis: vendors with
\* garbage after a blank and without one, which stay in capitals and which do not;
\* and products that have the vendor at the beginning, in the middle, within a word,
\* twice, in capitals, and in two parts that meet when a third is taken out.
Dmi(c, v, f, n) == [chassis |-> c, vendor |-> v, family |-> f, name |-> n]
Acme == <<"A", "cme">>
Asus == <<"A", "SUS">>
MCDmis ==
  {Dmi({8}, v, f, n) :
     v \in {{}, {<<"A", "CME">>}, {Asus}, {Acme \o <<" ", "Inc.", " ", "Technology">>},
            {Acme \o <<"Inc.">>}, {<<"Micro-Star", " ", "Ltd.">>}},
     f \in {{}, {<<"B", "ook">>}, {<<"B", "OOK">>}, {<<"x", "None">>},
            {Acme \o <<" ", "B", "ook">>}},
     n \in {{}, {<<"B", "ook", "14">>}, {Acme \o <<" ", "B", "ook">>},
            {<<"B", "ook", " ">> \o Acme \o <<" ", "14">>}, {<<"A", "CME", " ", "B", "ook">>},
            {Acme \o Acme}, {Asus \o <<"PRO", " ", "x">>}, {<<"A", "A", "SUS", "SUS">>}}}
  \cup {Dmi(c, {<<"A", "CME">>}, {<<"B", "ook">>}, {<<"B", "ook", "14">>}) :
          c \in {{}, {3}, {30}, {31}, {32}, {40}, {63}, {64}, {72}}}
MCLongVendors == <<"Micro-Star", " ", "Ltd.">> :> <<"M", "SI">>
MCVendorGarbage == <<<<"Technology">>, <<"Inc.">>, <<"Ltd.">>>>
MCAllCaps == {Asus, <<"M", "SI">>}
MCFamilyGarbage == {<<"None">>}
MCToLower == ("A" :> "a") @@ ("B" :> "b") @@ ("M" :> "m") @@ ("CME" :> "cme") @@ ("OOK" :> "ook")
               @@ ("SUS" :> "sus") @@ ("SI" :> "si") @@ ("PRO" :> "pro")
MCPlists == {"Mac1" :> <<"MacBook", "Air">>, "Mac2" :> <<"Mac">>}
MCProperties ==
  [version : {{}, {<<"14">>}}, brand : {{}, {<<"Pixel">>}, {<<"ac">>}},
   model : {{}, {<<"Pixel">>}, {<<"ac", "me">>}, {<<"x", " ", "(", "ac", ")">>}},
   name : {{}, {<<"x">>}, {<<"ac", "me">>}}]
----------------------------------------------------------------------------
(* Processors and cards *)
Cpu(arm, brand, packages, levels, ecores) ==
  [arm |-> arm, packages |-> packages, brand |-> brand, physical |-> {8}, logical |-> {8},
   levels |-> levels, pcores |-> {4}, ecores |-> ecores, hz |-> {300}]
MCAppleCpus ==
  {Cpu(TRUE, {<<"Apple", " ", "M1", " ", "Max", " ">>}, {1}, {2}, {4}),
   Cpu(TRUE, {<<"Apple", " ", "M4", " ", "(", "Virtual)">>}, {}, {1}, {}),
   Cpu(TRUE, {<<"Apple", " ", "M1", "0">>}, {1}, {2}, {4}),
   Cpu(TRUE, {<<"Apple", " ", "M9">>}, {256}, {}, {4}), Cpu(FALSE, {<<"Intel">>}, {2}, {}, {})}

Table(k, d) == [key |-> k, data |-> d]
Node(n, t)  == [name |-> n, tables |-> t]
MCRegistries ==
  BoundedSeq({Node("arm-io", <<Table("voltage-states", {<<100>>})>>), Node("pmgr", <<>>),
              Node("pmgr", <<Table("voltage-states", {<<32, 10, 5>>}),
                             Table("voltage-states", {<<45>>})>>),
              Node("pmgr-child", <<Table("voltage-states", {}), Table("other", {<<500>>}),
                                   Table("voltage-states", {<<320, 501, 75>>})>>),
              Node("pmgr", <<Table("voltage-states", {<<75, 9>>})>>)}, 2)

Value(t, n) == [type |-> t, name |-> n]
MCAccelerators ==
  BoundedSeq({[own |-> Value("string", <<"AMD">>), parent |-> Absent],
              [own |-> Value("string", <<>>), parent |-> Value("string", <<"X">>)],
              [own |-> Absent, parent |-> Value("data", <<"Intel">>)],
              [own |-> Absent, parent |-> Value("number", <<>>)]}, 2)
Class(t, l, b) == [type |-> t, length |-> l, base |-> b]
Pci(c, m)      == [class |-> c, model |-> m]
MCPciDevices ==
  {<<>>, <<Pci(Class("data", 2, 3), Value("string", <<"short">>))>>}
  \cup {<<Pci(c, Value("string", <<"NIC">>)), d>> :
          c \in {Absent, Class("data", 4, 2), Class("number", 4, 3)},
          d \in {Pci(Class("data", 4, 3), Value("data", <<"NV">>)),
                 Pci(Class("data", 3, 3), Value("data", <<>>)),
                 Pci(Class("data", 4, 3), Absent)}}

Clocks == {{}, {0}, {5}, {7}}
Policy(p, files) == [policy |-> p, files |-> files]
MCPhones ==
  {[soc |-> {}, board |-> {"board"}, cores |-> {8}, policies |-> p, cpu0 |-> c] :
     p \in {{}, {{}}, {{Policy(FALSE, <<{9}>>)}}}
             \cup {{{Policy(TRUE, <<a, b>>), Policy(TRUE, <<c, {6}>>)}} : a, b, c \in Clocks},
     c \in {<<{}, {3}>>, <<{99}, {}>>}}
MCVkDevices   == {<<>>, <<"A">>, <<"">>, <<"B", "A">>, <<"A", "B", "C">>}
MCGpuDrivers  == [vulkan : {{}, {"mali"}, {"x"}}, egl : {{}, {"mali"}}]
MCVendorNames == "mali" :> "ARM Mali"
----------------------------------------------------------------------------
(* Memory *)
Kibs == [MemTotal : {-1, 100, 4095}, MemFree : {-1, 40}, MemAvailable : {-1, 71, 120},
         Buffers : {-1, 35}, SwapTotal : {-1, 0, 50}, SwapFree : {-1, 21, 60}]
KeyOrder == <<"MemTotal", "MemFree", "MemAvailable", "Buffers", "SwapTotal", "SwapFree">>
File(m) == [j \in 1 .. Len(KeyOrder) |-> [key |-> KeyOrder[j], kib |-> m[KeyOrder[j]]]]
Says(k, n) == [key |-> k, kib |-> n]
MCMeminfos ==
  {File(m) : m \in Kibs}
  \cup {Reverse(File(m)) : m \in {m \in Kibs : m.SwapTotal = 50 /\ m.Buffers = 35}}
  \cup {<<>>, <<Says("MemTotal", 100)>>, <<Says("MemTotal", 100), Says("Cached", 43)>>,
        <<Says("MemTotal", 90), Says("MemTotal", 100), Says("MemAvailable", 42),
          Says("MemAvailable", -1)>>}
MCPageCounts ==
  [internal : {3, 9}, purgeable : {0, 4}, wired : {2}, compressed : {0, 7}]
    \cup [active : {3, 9}, inactive : {4}, wired : {2}]
MCSwapUsages == {[total |-> 0, used |-> 0], [total |-> 100, used |-> 29], [total |-> 5000, used |-> 5000]}
----------------------------------------------------------------------------
(* Batteries *)
Supply(type, scope, model, capacity, numbers) ==
  [type |-> type, scope |-> scope, model |-> model, capacity |-> capacity,
   status |-> {"Full"}, energyDesign |-> numbers[1], chargeDesign |-> numbers[2],
   energyFull |-> numbers[3], chargeFull |-> numbers[4]]
Bat(e)  == Supply({"Battery"}, {}, {"B1"}, {90}, e)
Mains   == Supply({"Mains"}, {}, {}, {}, <<{}, {}, {}, {}>>)
Mouse   == Supply({"Battery"}, {"Device"}, {"Mouse"}, {50}, <<{}, {}, {}, {}>>)
NoType  == Supply({}, {}, {"B2"}, {}, <<{}, {10}, {}, {6}>>)
MCMachines ==
  {"BAT0" :> Bat(<<{50}, {}, {40}, {}>>) @@ "BAT1" :> Bat(<<{50}, {}, {40}, {}>>) @@ "AC" :> Mains,
   "BAT0" :> Bat(<<{}, {50}, {}, {39}>>) @@ "AC" :> Mains @@ "hid" :> Mouse,
   "BAT0" :> Bat(<<{10}, {20}, {6}, {20}>>) @@ "BAT1" :> Bat(<<{10}, {}, {}, {20}>>),
   "BAT0" :> Bat(<<{10}, {}, {0}, {}>>) @@ "BAT1" :> NoType @@ "hid" :> Mouse}
MCAndroidFiles == [capacity : {{}, {0}, {55}, {256}}, status : {{}, {"Full"}},
                   health : {{}, {"Good"}}]
MCPowerSources ==
  [device : {"absent", "not_a_string", "D"}, name : {"absent", "N"}, health : {"absent", "Good"},
   cur : {-1, 0, 29, 50, 100, 101}, max : {0, 100},
   ac : BOOLEAN, charging : BOOLEAN, charged : BOOLEAN]
============================================================================
