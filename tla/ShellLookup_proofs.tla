-------------------------- MODULE ShellLookup_proofs --------------------------
(***************************************************************************)
(* Proofs about ShellLookup, for any names, any $SHELL, any lines commands  *)
(* may write and any number of exits, beginnings and execs.                 *)
(*                                                                          *)
(* The inductive invariant has a part for each property: Opened says where  *)
(* the comm file is open and what it can then read, Family what the         *)
(* kernel's table and the history of the parent's names have to do with     *)
(* each other and with what has been read, Shown what the answer is at      *)
(* every step of the lookup.                                                *)
(***************************************************************************)
EXTENDS ShellLookup, Facts, SequenceTheorems, TLAPS

Labels == {"start", "getppid", "fallback", "open", "fgets", "fclose",
           "pidpath", "ask", "asked", "answered", "cleanup", "done"}

\* Where the answer has not been written down yet, and where no name has been
\* read yet.
Unwritten == IF os = "linux" THEN {"start"} ELSE {"start", "fallback"}
Unread    == {"start", "getppid", "fallback", "open", "fgets", "pidpath"}

Typed ==
  /\ os \in {"linux", "macos"}
  /\ pc \in Labels
  /\ pc \in {"getppid", "open", "fgets", "fclose"} => os = "linux"
  /\ pc \in {"fallback", "pidpath"} => os = "macos"
  /\ table \in [Pids -> Name \cup {ReaperName, SelfName, NoName}]
  /\ ppid \in {Reaper, Shell}
  /\ pid \in {0, Reaper, Shell}
  /\ pc \in {"open", "fgets", "fallback", "pidpath"} => pid # 0
  /\ comm \in Name \cup {ReaperName, SelfName, NoName}
  /\ asked \in Command \cup {NoCommand}

\* The comm file is open just while it is read; it is the file of the process
\* with that number, or, when that process is gone, reads as an error.
Opened ==
  /\ fp \in {Closed, Stale, pid}
  /\ fp # Closed => os = "linux" /\ pc \in {"fgets", "fclose", "cleanup"}
  /\ pc \in {"fgets", "fclose"} => fp # Closed

\* A parent is the one the program was started by, or process 1; as long as
\* its number has not been given to another, its name is in the history; and
\* so is what has been read.
Family ==
  /\ table[Reaper] = ReaperName
  /\ table[Shell] \in Name \cup {NoName}
  /\ ppid = Reaper => ReaperName \in parents
  /\ pid = Reaper => ppid = Reaper
  /\ ppid = Reaper /\ table[Shell] # NoName => recycled
  /\ ~recycled /\ table[Shell] # NoName => table[Shell] \in parents
  /\ pc \in Unread => comm = NoName

\* A call succeeds only once it has been asked for; up to there the answer is
\* the environment's.
Shown ==
  /\ result = 0 => line \in Lines
  /\ pc \notin {"answered", "cleanup", "done"} => result # 0
  /\ pc \notin Unwritten \cup {"cleanup", "done"} => out = FallbackShell
  /\ pc \in {"cleanup", "done"} =>
       out = IF result = 0 THEN Sanitize(line) ELSE FallbackShell

IInv == Typed /\ Opened /\ Family /\ AsksAParent /\ Shown
-----------------------------------------------------------------------------
(* What cleaning a line up does, for every line.                            *)

LEMMA FirstOfIs ==
  ASSUME NEW l \in Seq(Token), NEW S
  PROVE  /\ FirstOf(l, S) \in 0 .. Len(l)
         /\ FirstOf(l, S) # 0 => l[FirstOf(l, S)] \in S
         /\ FirstOf(l, S) = 0 => \A j \in 1 .. Len(l) : l[j] \notin S
         /\ FirstOf(l, S) # 0 => \A j \in 1 .. FirstOf(l, S) - 1 : l[j] \notin S
  <1> DEFINE those == {j \in DOMAIN l : l[j] \in S}
  <1>1. those \subseteq Nat /\ DOMAIN l = 1 .. Len(l)
    OBVIOUS
  <1>2. FirstOf(l, S) = IF those = {} THEN 0 ELSE Min(those)
    BY DEF FirstOf
  <1>3. CASE those = {}
    BY <1>1, <1>2, <1>3
  <1>4. CASE those # {}
    <2>1. Min(those) \in those /\ \A y \in those : Min(those) <= y
      BY <1>1, <1>4, MinIsLeast
    <2>2. Min(those) \in 1 .. Len(l) /\ l[Min(those)] \in S
      BY <1>1, <2>1
    <2>3. \A j \in 1 .. Min(those) - 1 : l[j] \notin S
      <3> SUFFICES ASSUME NEW j \in 1 .. Min(those) - 1, l[j] \in S PROVE FALSE
        OBVIOUS
      <3>1. j \in those
        BY <2>2
      <3>2. Min(those) <= j
        BY <2>1, <3>1
      <3> HIDE DEF those
      <3> QED
        BY <2>2, <3>2
    <2> HIDE DEF those
    <2> QED
      BY <1>2, <1>4, <2>2, <2>3
  <1> QED
    BY <1>3, <1>4

\* The way to tell where the first one is.
LEMMA FirstOfAt ==
  ASSUME NEW l \in Seq(Token), NEW S, NEW p \in 1 .. Len(l),
         l[p] \in S, \A j \in 1 .. p - 1 : l[j] \notin S
  PROVE  FirstOf(l, S) = p
  <1> DEFINE f == FirstOf(l, S)
  <1>1. /\ f \in 0 .. Len(l)
        /\ f # 0 => l[f] \in S
        /\ f = 0 => \A j \in 1 .. Len(l) : l[j] \notin S
        /\ f # 0 => \A j \in 1 .. f - 1 : l[j] \notin S
    BY FirstOfIs
  <1> HIDE DEF f
  <1>2. f # 0
    BY <1>1
  <1>3. ~ (f < p)
    BY <1>1, <1>2
  <1>4. ~ (p < f)
    BY <1>1, <1>2
  <1>5. f = p
    BY <1>1, <1>3, <1>4
  <1> QED
    BY <1>5 DEF f

LEMMA FirstOfNone ==
  ASSUME NEW l \in Seq(Token), NEW S, \A j \in 1 .. Len(l) : l[j] \notin S
  PROVE  FirstOf(l, S) = 0
  BY FirstOfIs

\* Two lines, one behind the other, token by token.
LEMMA Both ==
  ASSUME NEW h \in Seq(Token), NEW t \in Seq(Token)
  PROVE  /\ h \o t \in Seq(Token) /\ Len(h \o t) = Len(h) + Len(t)
         /\ \A j \in 1 .. Len(h) : (h \o t)[j] = h[j]
         /\ \A j \in 1 .. Len(t) : (h \o t)[Len(h) + j] = t[j]
  OBVIOUS

\* A line that keeps the first p - 1 tokens of l and then t.
LEMMA Spliced ==
  ASSUME NEW l \in Seq(Token), NEW t \in Seq(Token), NEW p \in 0 .. Len(l)
  PROVE  /\ SubSeq(l, 1, p) \o t \in Seq(Token)
         /\ Len(SubSeq(l, 1, p) \o t) = p + Len(t)
         /\ \A j \in 1 .. p : (SubSeq(l, 1, p) \o t)[j] = l[j]
         /\ \A j \in 1 .. Len(t) : (SubSeq(l, 1, p) \o t)[p + j] = t[j]
         /\ SubSeq(SubSeq(l, 1, p) \o t, p + 1, p + Len(t)) = t
  <1>1. SubSeq(l, 1, p) \in Seq(Token) /\ Len(SubSeq(l, 1, p)) = p
    OBVIOUS
  <1>2. \A j \in 1 .. p : SubSeq(l, 1, p)[j] = l[j]
    OBVIOUS
  <1> DEFINE h == SubSeq(l, 1, p)
             w == h \o t
  <1>3. w \in Seq(Token) /\ Len(w) = p + Len(t)
    BY <1>1
  <1>4. \A j \in 1 .. p : w[j] = l[j]
    BY <1>1, <1>2
  <1>5. \A j \in 1 .. Len(t) : w[p + j] = t[j]
    BY <1>1
  <1> HIDE DEF h, w
  <1>6. SubSeq(w, p + 1, p + Len(t)) = t
    <2>1. SubSeq(w, p + 1, p + Len(t)) \in Seq(Token)
      BY <1>3
    <2>2. Len(SubSeq(w, p + 1, p + Len(t))) = Len(t)
      BY <1>3
    <2>3. \A j \in 1 .. Len(t) : SubSeq(w, p + 1, p + Len(t))[j] = t[j]
      BY <1>3, <1>5
    <2> DEFINE u == SubSeq(w, p + 1, p + Len(t))
    <2>4. u \in Seq(Token) /\ Len(u) = Len(t) /\ \A j \in 1 .. Len(u) : u[j] = t[j]
      BY <2>1, <2>2, <2>3
    <2> HIDE DEF u
    <2>5. u = t
      BY <2>4, SeqEqual
    <2> QED
      BY <2>5 DEF u
  <1> QED
    BY <1>3, <1>4, <1>5, <1>6 DEF h, w

\* The first p tokens of w, and those from p to the last.
LEMMA Prefix ==
  ASSUME NEW w \in Seq(Token), NEW p \in 0 .. Len(w)
  PROVE  /\ SubSeq(w, 1, p) \in Seq(Token)
         /\ Len(SubSeq(w, 1, p)) = p
         /\ \A j \in 1 .. p : SubSeq(w, 1, p)[j] = w[j]
  OBVIOUS

LEMMA Whole == ASSUME NEW w \in Seq(Token) PROVE SubSeq(w, 1, Len(w)) = w
  <1> DEFINE u == SubSeq(w, 1, Len(w))
  <1>1. Len(w) \in 0 .. Len(w)
    OBVIOUS
  <1>2. u \in Seq(Token) /\ Len(u) = Len(w) /\ \A j \in 1 .. Len(w) : u[j] = w[j]
    BY <1>1, Prefix
  <1> HIDE DEF u
  <1>3. u = w
    BY <1>2, SeqEqual
  <1> QED
    BY <1>3 DEF u

LEMMA Rest ==
  ASSUME NEW w \in Seq(Token), NEW p \in 1 .. Len(w) + 1
  PROVE  /\ SubSeq(w, p, Len(w)) \in Seq(Token)
         /\ Len(SubSeq(w, p, Len(w))) = Len(w) - p + 1
         /\ \A j \in 1 .. Len(w) - p + 1 : SubSeq(w, p, Len(w))[j] = w[p + j - 1]
  OBVIOUS

\* ", version" begins at j.
LEMMA MarkerAt ==
  ASSUME NEW w \in Seq(Token), NEW j \in 1 .. Len(w)
  PROVE  IsPrefix(Marker, SubSeq(w, j, Len(w))) <=>
           /\ j + 2 <= Len(w)
           /\ w[j] = "comma" /\ w[j + 1] = "blank" /\ w[j + 2] = "version"
  <1> DEFINE u == SubSeq(w, j, Len(w))
  <1>1. /\ u \in Seq(Token)
        /\ Len(u) = Len(w) - j + 1
        /\ \A k \in 1 .. Len(w) - j + 1 : u[k] = w[j + k - 1]
    BY Rest
  <1>2. Len(Marker) = 3 /\ Marker[1] = "comma" /\ Marker[2] = "blank" /\ Marker[3] = "version"
    BY DEF Marker
  <1>3. Marker \in Seq(Token) /\ SubSeq(Marker, 1, 3) = Marker
    <2>1. Marker \in Seq(Token)
      BY DEF Marker, Token
    <2> QED
      BY <1>2, <2>1, Whole
  <1> HIDE DEF u
  <1>4. IsPrefix(Marker, u) <=> 3 <= Len(u) /\ Marker = SubSeq(u, 1, 3)
    BY <1>2, <1>3 DEF IsPrefix
  <1>5. ASSUME 3 <= Len(u)
        PROVE  /\ SubSeq(u, 1, 3) \in Seq(Token) /\ Len(SubSeq(u, 1, 3)) = 3
               /\ \A k \in 1 .. 3 : SubSeq(u, 1, 3)[k] = w[j + k - 1]
    BY <1>1, <1>5
  <1>6. ASSUME 3 <= Len(u), Marker = SubSeq(u, 1, 3)
        PROVE  w[j] = "comma" /\ w[j + 1] = "blank" /\ w[j + 2] = "version"
    BY <1>2, <1>5, <1>6
  <1>7. ASSUME 3 <= Len(u), w[j] = "comma", w[j + 1] = "blank", w[j + 2] = "version"
        PROVE  Marker = SubSeq(u, 1, 3)
    <2> DEFINE v == SubSeq(u, 1, 3)
    <2>1. v \in Seq(Token) /\ Len(v) = 3 /\ v[1] = w[j] /\ v[2] = w[j + 1] /\ v[3] = w[j + 2]
      BY <1>5, <1>7
    <2> HIDE DEF v
    <2>2. \A k \in 1 .. Len(Marker) : Marker[k] = v[k]
      BY <1>2, <1>7, <2>1
    <2>3. Marker = v
      BY <1>2, <1>3, <2>1, <2>2, SeqEqual
    <2> QED
      BY <2>3 DEF v
  <1>8. 3 <= Len(u) <=> j + 2 <= Len(w)
    BY <1>1
  <1>9. IsPrefix(Marker, u) <=>
           /\ j + 2 <= Len(w)
           /\ w[j] = "comma" /\ w[j + 1] = "blank" /\ w[j + 2] = "version"
    BY <1>4, <1>6, <1>7, <1>8
  <1> QED
    BY <1>9 DEF u

\* A line without the marker stays; of another the first one is cut out.
LEMMA MarkerStripped ==
  ASSUME NEW w \in Seq(Token)
  PROVE  \/ /\ StripMarker(w) = w
            /\ \A j \in 1 .. Len(w) : ~ IsPrefix(Marker, SubSeq(w, j, Len(w)))
         \/ \E at \in 1 .. Len(w) - 2 :
              /\ w[at] = "comma" /\ w[at + 1] = "blank" /\ w[at + 2] = "version"
              /\ StripMarker(w) = SubSeq(w, 1, at - 1) \o SubSeq(w, at + 3, Len(w))
  <1> DEFINE those == {j \in DOMAIN w : IsPrefix(Marker, SubSeq(w, j, Len(w)))}
  <1>1. those \subseteq Nat /\ DOMAIN w = 1 .. Len(w)
    OBVIOUS
  <1>2. StripMarker(w) = IF those = {} THEN w
                         ELSE SubSeq(w, 1, Min(those) - 1)
                                \o SubSeq(w, Min(those) + 3, Len(w))
    BY DEF StripMarker
  <1>3. CASE those = {}
    <2>1. \A j \in 1 .. Len(w) : ~ IsPrefix(Marker, SubSeq(w, j, Len(w)))
      BY <1>1, <1>3
    <2> QED
      BY <1>2, <1>3, <2>1
  <1>4. CASE those # {}
    <2>1. Min(those) \in those
      BY <1>1, <1>4, MinIsLeast
    <2>2. Min(those) \in 1 .. Len(w) /\ IsPrefix(Marker, SubSeq(w, Min(those), Len(w)))
      BY <1>1, <2>1
    <2> DEFINE at == Min(those)
    <2>3. StripMarker(w) = SubSeq(w, 1, at - 1) \o SubSeq(w, at + 3, Len(w))
      BY <1>2, <1>4
    <2>4. at \in 1 .. Len(w) /\ IsPrefix(Marker, SubSeq(w, at, Len(w)))
      BY <2>2
    <2> HIDE DEF at, those
    <2>5. at + 2 <= Len(w) /\ w[at] = "comma" /\ w[at + 1] = "blank" /\ w[at + 2] = "version"
      BY <2>4, MarkerAt
    <2>6. at \in 1 .. Len(w) - 2
      BY <2>4, <2>5
    <2> QED
      BY <2>3, <2>5, <2>6
  <1> QED
    BY <1>3, <1>4

\* The version in w begins at p, and t is all there is from there.
Ends(w, p, t) ==
  /\ w \in Seq(Token)
  /\ p \in 2 .. Len(w)
  /\ w[p] = "digit"
  /\ w[p - 1] = "blank"
  /\ \A j \in 1 .. p - 1 : w[j] # "digit"
  /\ t = SubSeq(w, p, Len(w))

\* Stripping "GNU " leaves the end of the line, unless a version is all there
\* is behind it.
LEMMA GnuStripped ==
  ASSUME NEW l, NEW d, NEW t, Ends(l, d, t)
  PROVE  \/ StripGnu(l) \in Seq(Token) /\ FirstOf(StripGnu(l), {"digit"}) = 1
         \/ \E p \in 2 .. d : Ends(StripGnu(l), p, t)
  <1>1. /\ l \in Seq(Token) /\ d \in 2 .. Len(l) /\ l[d] = "digit" /\ l[d - 1] = "blank"
        /\ \A j \in 1 .. d - 1 : l[j] # "digit"
    BY DEF Ends
  <1>2. CASE ~ IsPrefix(<<"GNU", "blank">>, l)
    <2>1. StripGnu(l) = l /\ d \in 2 .. d
      BY <1>1, <1>2 DEF StripGnu
    <2> QED
      BY <2>1
  <1>3. CASE IsPrefix(<<"GNU", "blank">>, l)
    <2> DEFINE g == SubSeq(l, 3, Len(l))
    <2>1. StripGnu(l) = g
      BY <1>3 DEF StripGnu
    <2>2. /\ <<"GNU", "blank">> \in Seq(Token) /\ Len(<<"GNU", "blank">>) = 2
          /\ SubSeq(<<"GNU", "blank">>, 1, 2) = <<"GNU", "blank">>
      <3>1. <<"GNU", "blank">> \in Seq(Token) /\ Len(<<"GNU", "blank">>) = 2
        BY DEF Token
      <3> QED
        BY <3>1, Whole
    <2>3. Len(l) >= 2 /\ SubSeq(l, 1, 2) = <<"GNU", "blank">>
      BY <1>1, <1>3, <2>2 DEF IsPrefix
    <2>4. l[2] = SubSeq(l, 1, 2)[2]
      <3>1. 2 \in 0 .. Len(l) /\ 2 \in 1 .. 2
        BY <1>1, <2>3
      <3> QED
        BY <1>1, <3>1, Prefix
    <2>5. l[2] = "blank"
      <3>1. l[2] = <<"GNU", "blank">>[2]
        BY <2>3, <2>4, Zenon
      <3> QED
        BY <3>1
    <2>6. d # 2
      BY <1>1, <2>5
    <2>7. /\ g \in Seq(Token) /\ Len(g) = Len(l) - 2
          /\ \A j \in 1 .. Len(l) - 2 : g[j] = l[j + 2]
      <3>1. 3 \in 1 .. Len(l) + 1
        BY <1>1, <2>3
      <3>2. /\ g \in Seq(Token) /\ Len(g) = Len(l) - 3 + 1
            /\ \A j \in 1 .. Len(l) - 3 + 1 : g[j] = l[3 + j - 1]
        BY <1>1, <3>1, Rest
      <3> QED
        BY <1>1, <2>3, <3>2
    <2> HIDE DEF g
    <2>8. /\ d - 2 \in 1 .. Len(g) /\ g[d - 2] = "digit"
          /\ \A j \in 1 .. d - 3 : g[j] # "digit"
      <3>1. d - 2 \in 1 .. Len(l) - 2 /\ (d - 2) + 2 = d
        BY <1>1, <2>6
      <3>2. d - 2 \in 1 .. Len(g) /\ g[d - 2] = "digit"
        BY <1>1, <2>7, <3>1
      <3>3. ASSUME NEW j \in 1 .. d - 3 PROVE g[j] # "digit"
        <4>1. j \in 1 .. Len(l) - 2 /\ j + 2 \in 1 .. d - 1
          BY <1>1
        <4>2. g[j] = l[j + 2]
          BY <2>7, <4>1
        <4> QED
          BY <1>1, <4>1, <4>2
      <3> QED
        BY <3>2, <3>3
    <2>9. CASE d = 3
      <3>1. 1 \in 1 .. Len(g) /\ g[1] \in {"digit"} /\ \A j \in 1 .. 1 - 1 : g[j] \notin {"digit"}
        BY <2>8, <2>9
      <3>2. FirstOf(g, {"digit"}) = 1
        BY <2>7, <3>1, FirstOfAt
      <3> QED
        BY <2>1, <2>7, <3>2
    <2>10. CASE d # 3
      <3>1. d - 2 \in 2 .. Len(g) /\ d - 2 \in 2 .. d /\ g[d - 3] = "blank"
        BY <1>1, <2>6, <2>7, <2>8, <2>10
      <3> DEFINE u == SubSeq(g, d - 2, Len(g))
      <3>2. /\ u \in Seq(Token) /\ Len(u) = Len(l) - d + 1
            /\ \A j \in 1 .. Len(l) - d + 1 : u[j] = g[d - 3 + j]
        BY <1>1, <2>7, <3>1
      <3>3. /\ t \in Seq(Token) /\ Len(t) = Len(l) - d + 1
            /\ \A j \in 1 .. Len(l) - d + 1 : t[j] = l[d - 1 + j]
        <4>1. t = SubSeq(l, d, Len(l)) /\ d \in 1 .. Len(l) + 1
          BY <1>1 DEF Ends
        <4>2. /\ t \in Seq(Token) /\ Len(t) = Len(l) - d + 1
              /\ \A j \in 1 .. Len(l) - d + 1 : t[j] = l[d + j - 1]
          BY <1>1, <4>1, Rest
        <4> QED
          BY <1>1, <4>2
      <3> HIDE DEF u
      <3>4. \A j \in 1 .. Len(t) : t[j] = u[j]
        <4> SUFFICES ASSUME NEW j \in 1 .. Len(t) PROVE t[j] = u[j]
          OBVIOUS
        <4>1. j \in 1 .. Len(l) - d + 1 /\ d - 3 + j \in 1 .. Len(l) - 2
          BY <1>1, <3>3, <3>1
        <4>2. t[j] = l[d - 1 + j] /\ u[j] = g[d - 3 + j]
          BY <3>2, <3>3, <4>1
        <4>3. g[d - 3 + j] = l[d - 3 + j + 2] /\ d - 3 + j + 2 = d - 1 + j
          BY <1>1, <2>7, <4>1
        <4> QED
          BY <4>2, <4>3
      <3>5. t = u
        BY <3>2, <3>3, <3>4, SeqEqual
      <3>6. Ends(g, d - 2, t)
        <4>1. \A j \in 1 .. (d - 2) - 1 : g[j] # "digit"
          BY <1>1, <2>8
        <4>2. (d - 2) - 1 = d - 3
          BY <1>1
        <4> QED
          BY <2>7, <2>8, <3>1, <3>5, <4>1, <4>2 DEF Ends, u
      <3> QED
        BY <2>1, <3>1, <3>6
    <2> QED
      BY <2>9, <2>10
  <1> QED
    BY <1>2, <1>3

\* What the parts of such a line are, token by token.
LEMMA EndsParts ==
  ASSUME NEW w, NEW p, NEW t, Ends(w, p, t)
  PROVE  /\ w \in Seq(Token) /\ t \in Seq(Token)
         /\ p \in 2 .. Len(w)
         /\ w[p] = "digit" /\ w[p - 1] = "blank"
         /\ \A j \in 1 .. p - 1 : w[j] # "digit"
         /\ Len(t) = Len(w) - p + 1
         /\ \A j \in 1 .. Len(w) - p + 1 : t[j] = w[p + j - 1]
  <1>1. /\ w \in Seq(Token) /\ p \in 2 .. Len(w)
        /\ w[p] = "digit" /\ w[p - 1] = "blank"
        /\ \A j \in 1 .. p - 1 : w[j] # "digit"
    BY DEF Ends
  <1>2. t = SubSeq(w, p, Len(w)) /\ p \in 1 .. Len(w) + 1
    BY <1>1 DEF Ends
  <1>3. /\ t \in Seq(Token) /\ Len(t) = Len(w) - p + 1
        /\ \A j \in 1 .. Len(w) - p + 1 : t[j] = w[p + j - 1]
    BY <1>1, <1>2, Rest
  <1> QED
    BY <1>1, <1>3

LEMMA EndsWith ==
  ASSUME NEW w \in Seq(Token), NEW t \in Seq(Token), NEW p \in 2 .. Len(w),
         w[p] = "digit", w[p - 1] = "blank",
         \A j \in 1 .. p - 1 : w[j] # "digit",
         Len(t) = Len(w) - p + 1,
         \A j \in 1 .. Len(w) - p + 1 : t[j] = w[p + j - 1]
  PROVE  Ends(w, p, t)
  <1> DEFINE u == SubSeq(w, p, Len(w))
  <1>1. p \in 1 .. Len(w) + 1
    OBVIOUS
  <1>2. /\ u \in Seq(Token) /\ Len(u) = Len(w) - p + 1
        /\ \A j \in 1 .. Len(w) - p + 1 : u[j] = w[p + j - 1]
    BY <1>1, Rest
  <1> HIDE DEF u
  <1>3. \A j \in 1 .. Len(t) : t[j] = u[j]
    BY <1>2
  <1>4. t = u
    BY <1>2, <1>3, SeqEqual
  <1> QED
    BY <1>4 DEF Ends, u

\* Nor does cutting ", version" out touch the end of a line whose end is free
\* of it: the marker ends before the blank in front of the version.
LEMMA EndKept ==
  ASSUME NEW g, NEW p, NEW t, Ends(g, p, t), StripMarker(t) = t
  PROVE  \E q \in 2 .. p : Ends(StripMarker(g), q, t)
  <1>1. /\ g \in Seq(Token) /\ t \in Seq(Token)
        /\ p \in 2 .. Len(g)
        /\ g[p] = "digit" /\ g[p - 1] = "blank"
        /\ \A j \in 1 .. p - 1 : g[j] # "digit"
        /\ Len(t) = Len(g) - p + 1
        /\ \A j \in 1 .. Len(g) - p + 1 : t[j] = g[p + j - 1]
    BY EndsParts
  <1>2. \A j \in 1 .. Len(t) : ~ IsPrefix(Marker, SubSeq(t, j, Len(t)))
    <2>1. t \in Seq(Token)
      BY <1>1
    <2>2. ASSUME NEW at \in 1 .. Len(t) - 2,
                 StripMarker(t) = SubSeq(t, 1, at - 1) \o SubSeq(t, at + 3, Len(t))
          PROVE  FALSE
      <3> DEFINE r == SubSeq(t, at + 3, Len(t))
      <3>1. at + 3 \in 1 .. Len(t) + 1 /\ at - 1 \in 0 .. Len(t)
        BY <1>1
      <3>2. r \in Seq(Token) /\ Len(r) = Len(t) - (at + 3) + 1
        BY <1>1, <3>1, Rest
      <3>3. t = SubSeq(t, 1, at - 1) \o r
        BY <2>2
      <3> HIDE DEF r
      <3>4. Len(SubSeq(t, 1, at - 1) \o r) = at - 1 + Len(r)
        BY <1>1, <3>1, <3>2, Spliced
      <3>5. Len(t) = at - 1 + Len(r)
        BY <3>3, <3>4, Zenon
      <3> QED
        BY <1>1, <3>2, <3>5
    <2> QED
      BY <2>1, <2>2, MarkerStripped
  <1>3. CASE StripMarker(g) = g
    <2>1. p \in 2 .. p
      BY <1>1
    <2> QED
      BY <1>3, <2>1
  <1>4. ASSUME NEW at \in 1 .. Len(g) - 2,
               g[at] = "comma", g[at + 1] = "blank", g[at + 2] = "version",
               StripMarker(g) = SubSeq(g, 1, at - 1) \o SubSeq(g, at + 3, Len(g))
        PROVE  \E q \in 2 .. p : Ends(StripMarker(g), q, t)
    <2>1. at + 2 < p - 1
      <3>1. at # p /\ at + 1 # p /\ at + 2 # p /\ at + 2 # p - 1
        BY <1>1, <1>4
      <3>2. ASSUME p < at PROVE FALSE
        <4> DEFINE j == at - p + 1
        <4>1. j \in 1 .. Len(t) /\ j + 2 <= Len(t)
          BY <1>1, <3>2
        <4>2. t[j] = g[at] /\ t[j + 1] = g[at + 1] /\ t[j + 2] = g[at + 2]
          <5>1. /\ j \in 1 .. Len(g) - p + 1 /\ j + 1 \in 1 .. Len(g) - p + 1
                /\ j + 2 \in 1 .. Len(g) - p + 1
            BY <1>1, <4>1
          <5>2. p + j - 1 = at /\ p + (j + 1) - 1 = at + 1 /\ p + (j + 2) - 1 = at + 2
            BY <1>1
          <5> HIDE DEF j
          <5>3. t[j] = g[p + j - 1] /\ t[j + 1] = g[p + (j + 1) - 1]
                /\ t[j + 2] = g[p + (j + 2) - 1]
            BY <1>1, <5>1
          <5> QED
            BY <5>2, <5>3
        <4> HIDE DEF j
        <4>3. IsPrefix(Marker, SubSeq(t, j, Len(t)))
          <5>1. t[j] = "comma" /\ t[j + 1] = "blank" /\ t[j + 2] = "version"
            BY <1>4, <4>2
          <5>2. t \in Seq(Token)
            BY <1>1
          <5> QED
            BY <4>1, <5>1, <5>2, MarkerAt
        <4> QED
          BY <1>2, <4>1, <4>3
      <3> QED
        BY <1>1, <1>4, <3>1, <3>2
    <2> DEFINE r == SubSeq(g, at + 3, Len(g))
               m == SubSeq(g, 1, at - 1) \o r
    <2>2. at + 3 \in 1 .. Len(g) + 1 /\ at - 1 \in 0 .. Len(g)
      BY <1>1, <1>4
    <2>3. /\ r \in Seq(Token) /\ Len(r) = Len(g) - (at + 3) + 1
          /\ \A j \in 1 .. Len(g) - (at + 3) + 1 : r[j] = g[at + 3 + j - 1]
      BY <1>1, <2>2, Rest
    <2> HIDE DEF r
    <2>4. /\ m \in Seq(Token) /\ Len(m) = at - 1 + Len(r)
          /\ \A j \in 1 .. at - 1 : m[j] = g[j]
          /\ \A j \in 1 .. Len(r) : m[at - 1 + j] = r[j]
      BY <1>1, <2>2, <2>3, Spliced
    <2>5. StripMarker(g) = m
      BY <1>4 DEF r
    <2> HIDE DEF m
    <2>6. Len(m) = Len(g) - 3
      BY <1>1, <2>3, <2>4
    <2>7. \A k \in at .. Len(m) : m[k] = g[k + 3]
      <3> SUFFICES ASSUME NEW k \in at .. Len(m) PROVE m[k] = g[k + 3]
        OBVIOUS
      <3>1. k - at + 1 \in 1 .. Len(r) /\ at - 1 + (k - at + 1) = k
        BY <1>1, <1>4, <2>3, <2>6
      <3>2. m[at - 1 + (k - at + 1)] = r[k - at + 1]
        BY <2>4, <3>1
      <3>3. r[k - at + 1] = g[at + 3 + (k - at + 1) - 1]
            /\ at + 3 + (k - at + 1) - 1 = k + 3
        BY <2>3, <3>1
      <3> QED
        BY <3>1, <3>2, <3>3
    <2>8. p - 3 \in 2 .. Len(m) /\ p - 3 \in 2 .. p
      BY <1>1, <1>4, <2>1, <2>6
    <2>9. m[p - 3] = "digit" /\ m[(p - 3) - 1] = "blank"
      <3>1. p - 3 \in at .. Len(m) /\ (p - 3) - 1 \in at .. Len(m)
        BY <1>1, <1>4, <2>1, <2>8
      <3>2. m[p - 3] = g[(p - 3) + 3] /\ m[(p - 3) - 1] = g[((p - 3) - 1) + 3]
        BY <2>7, <3>1
      <3>3. (p - 3) + 3 = p /\ ((p - 3) - 1) + 3 = p - 1
        BY <1>1
      <3> QED
        BY <1>1, <3>2, <3>3
    <2>10. \A j \in 1 .. (p - 3) - 1 : m[j] # "digit"
      <3> SUFFICES ASSUME NEW j \in 1 .. (p - 3) - 1 PROVE m[j] # "digit"
        OBVIOUS
      <3>1. CASE j < at
        <4>1. j \in 1 .. at - 1 /\ j \in 1 .. p - 1
          BY <1>1, <1>4, <3>1
        <4> QED
          BY <1>1, <2>4, <4>1
      <3>2. CASE ~ (j < at)
        <4>1. j \in at .. Len(m) /\ j + 3 \in 1 .. p - 1
          BY <1>1, <1>4, <2>8, <3>2
        <4> QED
          BY <1>1, <2>7, <4>1
      <3> QED
        BY <3>1, <3>2
    <2>11. Len(t) = Len(m) - (p - 3) + 1
      BY <1>1, <2>6
    <2>12. \A j \in 1 .. Len(m) - (p - 3) + 1 : t[j] = m[(p - 3) + j - 1]
      <3> SUFFICES ASSUME NEW j \in 1 .. Len(m) - (p - 3) + 1
                   PROVE  t[j] = m[(p - 3) + j - 1]
        OBVIOUS
      <3>1. (p - 3) + j - 1 \in at .. Len(m) /\ j \in 1 .. Len(g) - p + 1
        BY <1>1, <1>4, <2>1, <2>6, <2>8
      <3>2. m[(p - 3) + j - 1] = g[((p - 3) + j - 1) + 3]
        BY <2>7, <3>1
      <3>3. ((p - 3) + j - 1) + 3 = p + j - 1
        BY <1>1
      <3>4. t[j] = g[p + j - 1]
        BY <1>1, <3>1
      <3> QED
        BY <3>2, <3>3, <3>4
    <2>13. Ends(m, p - 3, t)
      BY <1>1, <2>4, <2>8, <2>9, <2>10, <2>11, <2>12, EndsWith
    <2> QED
      BY <2>5, <2>8, <2>13
  <1> QED
    BY <1>1, <1>3, <1>4, MarkerStripped

\* The version of a line, up to a blank or a "(": what VersionIn takes of the
\* end t of the line, and how CutGarbage comes to it.
UpToGarbage(t) ==
  LET u == t \o <<"blank">>
  IN  SubSeq(u, 1, FirstOf(u, {"blank", "paren"}) - 1)

\* The same without the blank that is put behind the line.
LEMMA UpToGarbageIs ==
  ASSUME NEW t \in Seq(Token)
  PROVE  UpToGarbage(t) =
           IF FirstOf(t, {"blank", "paren"}) = 0 THEN t
           ELSE SubSeq(t, 1, FirstOf(t, {"blank", "paren"}) - 1)
  <1> DEFINE G == {"blank", "paren"}
             q == FirstOf(t, G)
             u == t \o <<"blank">>
  <1>1. /\ q \in 0 .. Len(t)
        /\ q # 0 => t[q] \in G
        /\ q = 0 => \A j \in 1 .. Len(t) : t[j] \notin G
        /\ q # 0 => \A j \in 1 .. q - 1 : t[j] \notin G
    BY FirstOfIs
  <1>2. <<"blank">> \in Seq(Token) /\ Len(<<"blank">>) = 1 /\ <<"blank">>[1] = "blank"
    BY DEF Token
  <1>3. /\ u \in Seq(Token) /\ Len(u) = Len(t) + 1 /\ u[Len(t) + 1] = "blank"
        /\ \A j \in 1 .. Len(t) : u[j] = t[j]
    BY <1>2
  <1>4. UpToGarbage(t) = SubSeq(u, 1, FirstOf(u, G) - 1)
    BY DEF UpToGarbage
  <1>5. "blank" \in G
    OBVIOUS
  <1> HIDE DEF q, u, G
  <1>6. CASE q = 0
    <2>1. FirstOf(u, G) = Len(t) + 1
      <3>1. Len(t) + 1 \in 1 .. Len(u) /\ u[Len(t) + 1] \in G
        BY <1>3, <1>5
      <3>2. \A j \in 1 .. (Len(t) + 1) - 1 : u[j] \notin G
        BY <1>1, <1>3, <1>6
      <3> QED
        BY <1>3, <3>1, <3>2, FirstOfAt
    <2>2. (Len(t) + 1) - 1 = Len(t)
      OBVIOUS
    <2> DEFINE v == SubSeq(u, 1, Len(t))
    <2>3. Len(t) \in 0 .. Len(u)
      BY <1>3
    <2>4. v \in Seq(Token) /\ Len(v) = Len(t) /\ \A j \in 1 .. Len(t) : v[j] = u[j]
      BY <1>3, <2>3, Prefix
    <2> HIDE DEF v
    <2>5. \A j \in 1 .. Len(v) : v[j] = t[j]
      BY <1>3, <2>4
    <2>6. v = t
      BY <2>4, <2>5, SeqEqual
    <2> QED
      BY <1>4, <1>6, <2>1, <2>2, <2>6 DEF v, q, G
  <1>7. CASE q # 0
    <2>1. FirstOf(u, G) = q
      <3>1. q \in 1 .. Len(u) /\ u[q] \in G
        BY <1>1, <1>3, <1>7
      <3>2. \A j \in 1 .. q - 1 : u[j] \notin G
        BY <1>1, <1>3, <1>7
      <3> QED
        BY <1>3, <3>1, <3>2, FirstOfAt
    <2> DEFINE v == SubSeq(u, 1, q - 1)
               z == SubSeq(t, 1, q - 1)
    <2>2. q - 1 \in 0 .. Len(u) /\ q - 1 \in 0 .. Len(t)
      BY <1>1, <1>3, <1>7
    <2>3. v \in Seq(Token) /\ Len(v) = q - 1 /\ \A j \in 1 .. q - 1 : v[j] = u[j]
      BY <1>3, <2>2, Prefix
    <2>4. z \in Seq(Token) /\ Len(z) = q - 1 /\ \A j \in 1 .. q - 1 : z[j] = t[j]
      BY <2>2, Prefix
    <2> HIDE DEF v, z
    <2>5. \A j \in 1 .. Len(v) : v[j] = z[j]
      BY <1>1, <1>3, <2>2, <2>3, <2>4
    <2>6. v = z
      BY <2>3, <2>4, <2>5, SeqEqual
    <2> QED
      BY <1>4, <1>7, <2>1, <2>6 DEF v, z, q, G
  <1> QED
    BY <1>6, <1>7

\* Closing the gap and cutting the garbage leave the first word, a blank and
\* the version.
LEMMA Cleaned ==
  ASSUME NEW m, NEW p, NEW t, Ends(m, p, t)
  PROVE  CutGarbage(CloseGap(m)) =
           SubSeq(m, 1, FirstOf(m \o <<"blank">>, {"blank"}) - 1)
             \o <<"blank">> \o UpToGarbage(t)
  <1>1. /\ m \in Seq(Token) /\ t \in Seq(Token)
        /\ p \in 2 .. Len(m)
        /\ m[p] = "digit" /\ m[p - 1] = "blank"
        /\ \A j \in 1 .. p - 1 : m[j] # "digit"
        /\ Len(t) = Len(m) - p + 1
        /\ \A j \in 1 .. Len(m) - p + 1 : t[j] = m[p + j - 1]
    BY EndsParts
  <1>2. t = SubSeq(m, p, Len(m))
    BY DEF Ends
  <1> DEFINE e == FirstOf(m, {"blank"})
             c == SubSeq(m, 1, e) \o t
             name == SubSeq(m, 1, e - 1)
             q == FirstOf(t, {"blank", "paren"})
  <1>3. FirstOf(m, {"digit"}) = p
    <2>1. p \in 1 .. Len(m) /\ m[p] \in {"digit"}
      BY <1>1
    <2>2. \A j \in 1 .. p - 1 : m[j] \notin {"digit"}
      BY <1>1
    <2> QED
      BY <1>1, <2>1, <2>2, FirstOfAt
  <1>4. e \in 1 .. p - 1 /\ m[e] = "blank" /\ \A j \in 1 .. e - 1 : m[j] # "blank"
    <2>1. /\ e \in 0 .. Len(m)
          /\ e # 0 => m[e] \in {"blank"}
          /\ e = 0 => \A j \in 1 .. Len(m) : m[j] \notin {"blank"}
          /\ e # 0 => \A j \in 1 .. e - 1 : m[j] \notin {"blank"}
      BY <1>1, FirstOfIs
    <2> HIDE DEF e
    <2>2. p - 1 \in 1 .. Len(m)
      BY <1>1
    <2>3. e # 0
      BY <1>1, <2>1, <2>2
    <2>4. ~ (p - 1 < e)
      BY <1>1, <2>1, <2>2, <2>3
    <2> QED
      BY <1>1, <2>1, <2>3, <2>4
  <1>5. CloseGap(m) = c
    <2>1. 0 < e /\ e < p
      BY <1>1, <1>4
    <2>2. CloseGap(m) = IF 0 < e /\ e < FirstOf(m, {"digit"})
                          THEN SubSeq(m, 1, e) \o SubSeq(m, FirstOf(m, {"digit"}), Len(m))
                          ELSE m
      BY DEF CloseGap
    <2> HIDE DEF e
    <2> QED
      BY <1>2, <1>3, <2>1, <2>2
  <1> HIDE DEF e
  <1>6. FirstOf(m \o <<"blank">>, {"blank"}) = e
    <2> DEFINE u == m \o <<"blank">>
    <2>1. <<"blank">> \in Seq(Token) /\ Len(<<"blank">>) = 1 /\ <<"blank">>[1] = "blank"
      BY DEF Token
    <2>2. u \in Seq(Token) /\ Len(u) = Len(m) + 1 /\ \A j \in 1 .. Len(m) : u[j] = m[j]
      BY <1>1, <2>1
    <2> HIDE DEF u
    <2>3. e \in 1 .. Len(m) /\ \A j \in 1 .. e - 1 : j \in 1 .. Len(m)
      BY <1>1, <1>4
    <2>4. e \in 1 .. Len(u) /\ u[e] \in {"blank"}
      BY <1>1, <1>4, <2>2, <2>3
    <2>5. \A j \in 1 .. e - 1 : u[j] \notin {"blank"}
      BY <1>4, <2>2, <2>3
    <2>6. FirstOf(u, {"blank"}) = e
      BY <2>2, <2>4, <2>5, FirstOfAt
    <2> QED
      BY <2>6 DEF u
  <1>7. e \in 0 .. Len(m) /\ e - 1 \in 0 .. Len(m)
    BY <1>1, <1>4
  <1>8. /\ c \in Seq(Token) /\ Len(c) = e + Len(t)
        /\ \A j \in 1 .. e : c[j] = m[j]
        /\ \A j \in 1 .. Len(t) : c[e + j] = t[j]
        /\ SubSeq(c, e + 1, e + Len(t)) = t
    BY <1>1, <1>7, Spliced
  <1>9. name \in Seq(Token) /\ Len(name) = e - 1 /\ \A j \in 1 .. e - 1 : name[j] = m[j]
    BY <1>1, <1>7, Prefix
  <1>10. FirstOf(c, {"digit"}) = e + 1
    <2> HIDE DEF c
    <2>1. t[1] = "digit" /\ 1 \in 1 .. Len(t)
      <3>1. 1 \in 1 .. Len(m) - p + 1 /\ p + 1 - 1 = p
        BY <1>1
      <3> QED
        BY <1>1, <3>1
    <2>2. e + 1 \in 1 .. Len(c) /\ c[e + 1] \in {"digit"}
      <3>1. c[e + 1] = t[1]
        BY <1>8, <2>1
      <3>2. e + 1 \in 1 .. Len(c)
        BY <1>1, <1>4, <1>8, <2>1
      <3> QED
        BY <2>1, <3>1, <3>2
    <2>3. \A j \in 1 .. (e + 1) - 1 : c[j] \notin {"digit"}
      <3> SUFFICES ASSUME NEW j \in 1 .. (e + 1) - 1 PROVE c[j] # "digit"
        OBVIOUS
      <3>1. j \in 1 .. e /\ j \in 1 .. p - 1
        BY <1>1, <1>4
      <3>2. c[j] = m[j]
        BY <1>8, <3>1
      <3> QED
        BY <1>1, <3>1, <3>2
    <2> QED
      BY <1>8, <2>2, <2>3, FirstOfAt
  <1>11. CutGarbage(c) = IF q = 0 THEN c ELSE SubSeq(c, 1, (e + 1) + q - 2)
    <2> HIDE DEF c
    <2>1. SubSeq(c, e + 1, Len(c)) = t
      BY <1>8
    <2>2. e + 1 # 0
      BY <1>4
    <2>3. CutGarbage(c) =
            IF FirstOf(c, {"digit"}) = 0
               \/ FirstOf(SubSeq(c, FirstOf(c, {"digit"}), Len(c)), {"blank", "paren"}) = 0
            THEN c
            ELSE SubSeq(c, 1, FirstOf(c, {"digit"})
                              + FirstOf(SubSeq(c, FirstOf(c, {"digit"}), Len(c)), {"blank", "paren"})
                              - 2)
      BY DEF CutGarbage
    <2> QED
      BY <1>10, <2>1, <2>2, <2>3
  <1> DEFINE v == UpToGarbage(t)
             k == IF q = 0 THEN Len(t) ELSE q - 1
  <1>12. k \in 0 .. Len(t)
    BY <1>1, FirstOfIs
  <1>13. v \in Seq(Token) /\ Len(v) = k /\ \A j \in 1 .. k : v[j] = t[j]
    <2>1. CASE q = 0
      BY <1>1, <2>1, UpToGarbageIs
    <2>2. CASE q # 0
      <3>1. v = SubSeq(t, 1, k) /\ k = q - 1
        BY <1>1, <2>2, UpToGarbageIs
      <3> HIDE DEF v, k
      <3> QED
        BY <1>1, <1>12, <3>1, Prefix
    <2> QED
      BY <2>1, <2>2
  <1>14. CutGarbage(c) = SubSeq(c, 1, e + k)
    <2>1. CASE q = 0
      <3>1. SubSeq(c, 1, Len(c)) = c
        BY <1>8, Whole
      <3> HIDE DEF c
      <3> QED
        BY <1>8, <1>11, <2>1, <3>1
    <2>2. CASE q # 0
      <3>1. q \in Nat /\ e \in Nat
        BY <1>1, <1>4, FirstOfIs
      <3>2. (e + 1) + q - 2 = e + k
        BY <2>2, <3>1
      <3> HIDE DEF c, k
      <3> QED
        BY <1>11, <2>2, <3>2
    <2> QED
      BY <2>1, <2>2
  <1> HIDE DEF c, name, v, k, q
  <1> DEFINE a == SubSeq(c, 1, e + k)
             b == name \o <<"blank">> \o v
  <1>15. a \in Seq(Token) /\ Len(a) = e + k /\ \A j \in 1 .. e + k : a[j] = c[j]
    <2>1. e + k \in 0 .. Len(c)
      BY <1>4, <1>8, <1>12
    <2> QED
      BY <1>8, <2>1, Prefix
  <1> DEFINE h == name \o <<"blank">>
  <1>16. h \in Seq(Token) /\ Len(h) = e /\ h[e] = "blank" /\ \A j \in 1 .. e - 1 : h[j] = name[j]
    <2>1. <<"blank">> \in Seq(Token) /\ Len(<<"blank">>) = 1 /\ <<"blank">>[1] = "blank"
      BY DEF Token
    <2> QED
      BY <1>4, <1>9, <2>1
  <1>17. b = h \o v
    OBVIOUS
  <1> HIDE DEF h, a, b
  <1>18. /\ b \in Seq(Token) /\ Len(b) = e + k
         /\ \A j \in 1 .. e : b[j] = h[j]
         /\ \A j \in 1 .. k : b[e + j] = v[j]
    <2>1. /\ h \o v \in Seq(Token) /\ Len(h \o v) = e + k
          /\ \A j \in 1 .. e : (h \o v)[j] = h[j]
          /\ \A j \in 1 .. k : (h \o v)[e + j] = v[j]
      BY <1>13, <1>16, Both
    <2> QED
      BY <1>17, <2>1
  <1>19. \A j \in 1 .. Len(a) : a[j] = b[j]
    <2> SUFFICES ASSUME NEW j \in 1 .. Len(a) PROVE a[j] = b[j]
      OBVIOUS
    <2>0. j \in 1 .. e + k /\ a[j] = c[j] /\ e \in Nat /\ k \in Nat /\ k <= Len(t)
      BY <1>4, <1>12, <1>15
    <2>1. CASE j < e
      <3>1. j \in 1 .. e - 1 /\ j \in 1 .. e
        BY <2>0, <2>1
      <3> QED
        BY <2>0, <3>1, <1>8, <1>9, <1>16, <1>18
    <2>2. CASE j = e
      <3>1. e \in 1 .. e
        BY <1>4
      <3> QED
        BY <2>0, <2>2, <3>1, <1>4, <1>8, <1>16, <1>18
    <2>3. CASE e < j
      <3>1. j - e \in 1 .. k /\ j - e \in 1 .. Len(t) /\ e + (j - e) = j
        BY <1>1, <2>0, <2>3
      <3>2. c[e + (j - e)] = t[j - e] /\ b[e + (j - e)] = v[j - e] /\ v[j - e] = t[j - e]
        BY <1>8, <1>13, <1>18, <3>1
      <3> QED
        BY <2>0, <3>1, <3>2
    <2> QED
      BY <2>0, <2>1, <2>2, <2>3
  <1>20. a = b
    BY <1>15, <1>18, <1>19, SeqEqual
  <1> QED
    BY <1>5, <1>6, <1>14, <1>20 DEF a, b, name, v

\* Of every line that names a program and then a version, the name and the
\* version are what is left.
LEMMA VersionLineIsCleaned ==
  ASSUME NEW l \in Seq(Token), IsVersionLine(l)
  PROVE  Sanitize(l) = NameIn(l) \o <<"blank">> \o VersionIn(l)
  <1> DEFINE d == FirstOf(l, {"digit"})
             t == SubSeq(l, d, Len(l))
             g == StripGnu(l)
             m == StripMarker(g)
  <1>1. /\ d > 1 /\ l[d - 1] = "blank" /\ NameIn(l) # <<>>
        /\ FirstOf(g, {"digit"}) > Len(NameIn(l))
        /\ StripMarker(t) = t
    BY DEF IsVersionLine
  <1>2. Ends(l, d, t)
    <2>1. /\ d \in 0 .. Len(l)
          /\ d # 0 => l[d] \in {"digit"}
          /\ d # 0 => \A j \in 1 .. d - 1 : l[j] \notin {"digit"}
      BY FirstOfIs
    <2> HIDE DEF d
    <2>2. d \in 2 .. Len(l) /\ l[d] = "digit" /\ \A j \in 1 .. d - 1 : l[j] # "digit"
      BY <1>1, <2>1
    <2> QED
      BY <1>1, <2>2 DEF Ends
  <1>3. NameIn(l) = SubSeq(m, 1, FirstOf(m \o <<"blank">>, {"blank"}) - 1)
    BY DEF NameIn
  <1>4. VersionIn(l) = UpToGarbage(t)
    BY DEF VersionIn, UpToGarbage
  <1>5. Sanitize(l) = CutGarbage(CloseGap(m))
    BY DEF Sanitize
  <1> HIDE DEF d, t, g
  <1>6. ASSUME NEW p, Ends(g, p, t) PROVE Sanitize(l) = NameIn(l) \o <<"blank">> \o VersionIn(l)
    <2>1. PICK q : Ends(m, q, t)
      BY <1>1, <1>6, EndKept
    <2> HIDE DEF m
    <2> QED
      BY <1>3, <1>4, <1>5, <2>1, Cleaned
  <1>7. ASSUME g \in Seq(Token), FirstOf(g, {"digit"}) = 1 PROVE FALSE
    <2>1. m \in Seq(Token)
      <3>1. CASE m = g
        BY <1>7, <3>1
      <3>2. ASSUME NEW at \in 1 .. Len(g) - 2,
                   m = SubSeq(g, 1, at - 1) \o SubSeq(g, at + 3, Len(g))
            PROVE  m \in Seq(Token)
        <4>1. at + 3 \in 1 .. Len(g) + 1 /\ at - 1 \in 0 .. Len(g)
          BY <1>7
        <4>2. SubSeq(g, at + 3, Len(g)) \in Seq(Token)
          BY <1>7, <4>1, Rest
        <4> QED
          BY <1>7, <3>2, <4>1, <4>2, Spliced
      <3> QED
        BY <1>7, <3>1, <3>2, MarkerStripped
    <2> DEFINE u == m \o <<"blank">>
               f == FirstOf(u, {"blank"})
    <2>2. <<"blank">> \in Seq(Token) /\ Len(<<"blank">>) = 1 /\ <<"blank">>[1] = "blank"
      BY DEF Token
    <2> HIDE DEF m
    <2>3. u \in Seq(Token) /\ Len(u) = Len(m) + 1 /\ u[Len(u)] = "blank"
      BY <2>1, <2>2
    <2> HIDE DEF u
    <2>4. /\ f \in 0 .. Len(u)
          /\ f = 0 => \A j \in 1 .. Len(u) : u[j] \notin {"blank"}
      BY <2>3, FirstOfIs
    <2>5. f \in 1 .. Len(m) + 1
      BY <2>1, <2>3, <2>4
    <2> HIDE DEF f
    <2>6. f - 1 \in 0 .. Len(m)
      BY <2>1, <2>5
    <2>7. NameIn(l) = SubSeq(m, 1, f - 1)
      BY <1>3 DEF f, u
    <2>8. NameIn(l) \in Seq(Token)
      BY <2>1, <2>6, <2>7, Prefix
    <2>9. Len(NameIn(l)) \in Nat /\ Len(NameIn(l)) # 0
      BY <1>1, <2>8, EmptySeq
    <2> QED
      BY <1>1, <1>7, <2>9
  <1>8. \/ g \in Seq(Token) /\ FirstOf(g, {"digit"}) = 1
        \/ \E p \in 2 .. d : Ends(g, p, t)
    BY <1>2, GnuStripped DEF g
  <1> QED
    BY <1>6, <1>7, <1>8
-----------------------------------------------------------------------------
\* The environment's shell is never the empty answer.
LEMMA FallbackIsNamed == FallbackShell # <<>>
  BY DEF FallbackShell

LEMMA FirstStates == Init => IInv
  <1> SUFFICES ASSUME Init PROVE IInv
    OBVIOUS
  <1> USE DEF Init, Pids, Reaper, Shell, Self, Closed, Stale
  <1>1. PICK n \in Name :
          /\ table = [p \in Pids |-> CASE p = Reaper -> ReaperName
                                       [] p = Shell -> n
                                       [] p = Self -> SelfName]
          /\ parents = {n}
    OBVIOUS
  <1>2. /\ table[Reaper] = ReaperName
        /\ table[Shell] = n
        /\ table[Self] = SelfName
    BY <1>1
  <1>3. table \in [Pids -> Name \cup {ReaperName, SelfName, NoName}]
    BY <1>1
  <1>4. result = -1 /\ asked = NoCommand
    BY DEF Cap!CapInit
  <1>5. Typed
    BY <1>3, <1>4 DEF Typed, Labels
  <1>6. Opened
    BY DEF Opened
  <1>7. Family /\ AsksAParent
    BY <1>1, <1>2 DEF Family, AsksAParent, Unread
  <1>8. Shown
    BY <1>4 DEF Shown, Unwritten
  <1> QED
    BY <1>5, <1>6, <1>7, <1>8 DEF IInv
-----------------------------------------------------------------------------
(* What the kernel does.                                                    *)

LEMMA ParentExitsKeeps == ASSUME IInv, ParentExits PROVE IInv'
  <1> USE DEF ParentExits, Moves, Pids, Reaper, Shell, Self, Closed, Stale, capVars
  <1>1. /\ table'[Reaper] = ReaperName
        /\ table'[Shell] = NoName
        /\ table' \in [Pids -> Name \cup {ReaperName, SelfName, NoName}]
    BY DEF IInv, Typed, Family
  <1>2. Typed'
    BY <1>1 DEF IInv, Typed
  <1>3. Opened'
    BY DEF IInv, Typed, Opened
  <1>4. Family' /\ AsksAParent'
    BY <1>1 DEF IInv, Typed, Family, AsksAParent, Unread
  <1>5. Shown'
    BY DEF IInv, Shown, Unwritten, FallbackShell
  <1> QED
    BY <1>2, <1>3, <1>4, <1>5 DEF IInv

LEMMA NumberRecycledKeeps ==
  ASSUME IInv, NEW n \in Name, NumberRecycled(n) PROVE IInv'
  <1> USE DEF NumberRecycled, Moves, Pids, Reaper, Shell, Self, Closed, Stale, capVars
  <1>1. /\ table'[Reaper] = ReaperName
        /\ table'[Shell] = n
        /\ table' \in [Pids -> Name \cup {ReaperName, SelfName, NoName}]
    BY DEF IInv, Typed, Family
  <1>2. Typed'
    BY <1>1 DEF IInv, Typed
  <1>3. Opened'
    BY DEF IInv, Typed, Opened
  <1>4. Family' /\ AsksAParent'
    BY <1>1 DEF IInv, Typed, Family, AsksAParent, Unread
  <1>5. Shown'
    BY DEF IInv, Shown, Unwritten, FallbackShell
  <1> QED
    BY <1>2, <1>3, <1>4, <1>5 DEF IInv

\* A process that has the parent's number while the parent is gone was given
\* it again, so an exec of its own changes nothing that has been promised.
LEMMA ExecsKeeps == ASSUME IInv, NEW n \in Name, Execs(n) PROVE IInv'
  <1> USE DEF Execs, Moves, Pids, Reaper, Shell, Self, Closed, Stale, capVars
  <1>1. /\ table'[Reaper] = ReaperName
        /\ table'[Shell] = n
        /\ table' \in [Pids -> Name \cup {ReaperName, SelfName, NoName}]
    BY DEF IInv, Typed, Family
  <1>2. Typed'
    BY <1>1 DEF IInv, Typed
  <1>3. Opened'
    BY DEF IInv, Typed, Opened
  <1>4. Family' /\ AsksAParent'
    BY <1>1 DEF IInv, Typed, Family, AsksAParent, Unread
  <1>5. Shown'
    BY DEF IInv, Shown, Unwritten, FallbackShell
  <1> QED
    BY <1>2, <1>3, <1>4, <1>5 DEF IInv
-----------------------------------------------------------------------------
(* What the program does.                                                   *)

LEMMA ProgramKeeps == ASSUME IInv, Program PROVE IInv'
  <1> USE DEF Goto, system, capVars, Pids, Reaper, Shell, Self, Closed, Stale
  <1>1. CASE Fallback
    <2>1. Typed' /\ Opened'
      BY <1>1 DEF Fallback, IInv, Typed, Labels, Opened
    <2>2. Family' /\ AsksAParent'
      BY <1>1 DEF Fallback, IInv, Typed, Family, AsksAParent, Unread
    <2>3. FallbackShell' = FallbackShell
      BY <1>1 DEF Fallback, FallbackShell
    <2>4. Shown'
      BY <1>1, <2>3 DEF Fallback, IInv, Typed, Shown, Unwritten
    <2> QED
      BY <2>1, <2>2, <2>4 DEF IInv
  <1>2. CASE GetPpid
    <2>1. Typed' /\ Opened'
      BY <1>2 DEF GetPpid, IInv, Typed, Labels, Opened
    <2>2. Family' /\ AsksAParent'
      BY <1>2 DEF GetPpid, IInv, Typed, Family, AsksAParent, Unread
    <2>3. FallbackShell' = FallbackShell
      BY <1>2 DEF GetPpid, FallbackShell
    <2>4. Shown'
      BY <1>2, <2>3 DEF GetPpid, IInv, Typed, Shown, Unwritten
    <2> QED
      BY <2>1, <2>2, <2>4 DEF IInv
  <1>3. CASE OpenComm
    <2>1. Typed' /\ Opened'
      BY <1>3 DEF OpenComm, IInv, Typed, Labels, Opened
    <2>2. Family' /\ AsksAParent'
      BY <1>3 DEF OpenComm, IInv, Typed, Family, AsksAParent, Unread
    <2>3. FallbackShell' = FallbackShell
      BY <1>3 DEF OpenComm, FallbackShell
    <2>4. Shown'
      BY <1>3, <2>3 DEF OpenComm, IInv, Typed, Shown, Unwritten
    <2> QED
      BY <2>1, <2>2, <2>4 DEF IInv
  <1>4. CASE ReadComm
    <2>1. fp # Stale => /\ fp = pid /\ pid \in {Reaper, Shell}
                        /\ table[fp] \in Name \cup {ReaperName, NoName}
      BY <1>4 DEF ReadComm, IInv, Typed, Opened, Family
    <2>2. Typed' /\ Opened'
      BY <1>4, <2>1 DEF ReadComm, IInv, Typed, Labels, Opened
    <2>3. Family' /\ AsksAParent'
      BY <1>4, <2>1 DEF ReadComm, IInv, Typed, Family, AsksAParent, Unread
    <2>4. FallbackShell' = FallbackShell
      BY <1>4 DEF ReadComm, FallbackShell
    <2>5. Shown'
      BY <1>4, <2>4 DEF ReadComm, IInv, Typed, Shown, Unwritten
    <2> QED
      BY <2>2, <2>3, <2>5 DEF IInv
  <1>5. CASE CloseComm
    <2>1. Typed' /\ Opened'
      BY <1>5 DEF CloseComm, IInv, Typed, Labels, Opened
    <2>2. Family' /\ AsksAParent'
      BY <1>5 DEF CloseComm, IInv, Typed, Family, AsksAParent, Unread
    <2>3. FallbackShell' = FallbackShell
      BY <1>5 DEF CloseComm, FallbackShell
    <2>4. Shown'
      BY <1>5, <2>3 DEF CloseComm, IInv, Typed, Shown, Unwritten
    <2> QED
      BY <2>1, <2>2, <2>4 DEF IInv
  <1>6. CASE PidPath
    <2>1. pid \in {Reaper, Shell} /\ table[pid] \in Name \cup {ReaperName, NoName}
      BY <1>6 DEF PidPath, IInv, Typed, Family
    <2>2. Typed' /\ Opened'
      BY <1>6, <2>1 DEF PidPath, IInv, Typed, Labels, Opened
    <2>3. Family' /\ AsksAParent'
      BY <1>6, <2>1 DEF PidPath, IInv, Typed, Family, AsksAParent, Unread
    <2>4. FallbackShell' = FallbackShell
      BY <1>6 DEF PidPath, FallbackShell
    <2>5. Shown'
      BY <1>6, <2>4 DEF PidPath, IInv, Typed, Shown, Unwritten
    <2> QED
      BY <2>2, <2>3, <2>5 DEF IInv
  <1>7. CASE AskVersion
    <2>1. PICK c \in Command : c.name = comm /\ Cap!Ask(c)
      BY <1>7 DEF AskVersion
    <2>2. asked' \in Command /\ result' = -1
      BY <2>1 DEF Cap!Ask
    <2>3. Typed' /\ Opened'
      BY <1>7, <2>2 DEF AskVersion, IInv, Typed, Labels, Opened
    <2>4. Family' /\ AsksAParent'
      BY <1>7 DEF AskVersion, IInv, Typed, Family, AsksAParent, Unread
    <2>5. FallbackShell' = FallbackShell
      BY <1>7 DEF AskVersion, FallbackShell
    <2>6. Shown'
      BY <1>7, <2>2, <2>5 DEF AskVersion, IInv, Typed, Shown, Unwritten
    <2> QED
      BY <2>3, <2>4, <2>6 DEF IInv
  <1>8. CASE AnswerVersion
    <2>1. asked' = NoCommand /\ (result' = 0 => line' \in Lines)
      BY <1>8 DEF AnswerVersion, Cap!Answer, IInv, Typed, Command, LineOf
    <2>2. Typed' /\ Opened'
      BY <1>8, <2>1 DEF AnswerVersion, IInv, Typed, Labels, Opened
    <2>3. Family' /\ AsksAParent'
      BY <1>8 DEF AnswerVersion, IInv, Typed, Family, AsksAParent, Unread
    <2>4. FallbackShell' = FallbackShell
      BY <1>8 DEF AnswerVersion, FallbackShell
    <2>5. Shown'
      BY <1>8, <2>1, <2>4 DEF AnswerVersion, IInv, Typed, Shown, Unwritten
    <2> QED
      BY <2>2, <2>3, <2>5 DEF IInv
  <1>9. CASE UseAnswer
    <2>1. Typed' /\ Opened'
      BY <1>9 DEF UseAnswer, IInv, Typed, Labels, Opened
    <2>2. Family' /\ AsksAParent'
      BY <1>9 DEF UseAnswer, IInv, Typed, Family, AsksAParent, Unread
    <2>3. FallbackShell' = FallbackShell
      BY <1>9 DEF UseAnswer, FallbackShell
    <2>4. Shown'
      BY <1>9, <2>3 DEF UseAnswer, IInv, Typed, Shown, Unwritten
    <2> QED
      BY <2>1, <2>2, <2>4 DEF IInv
  <1>10. CASE Cleanup
    <2>1. Typed' /\ Opened'
      BY <1>10 DEF Cleanup, IInv, Typed, Labels, Opened
    <2>2. Family' /\ AsksAParent'
      BY <1>10 DEF Cleanup, IInv, Typed, Family, AsksAParent, Unread
    <2>3. FallbackShell' = FallbackShell
      BY <1>10 DEF Cleanup, FallbackShell
    <2>4. Shown'
      BY <1>10, <2>3 DEF Cleanup, IInv, Typed, Shown, Unwritten
    <2> QED
      BY <2>1, <2>2, <2>4 DEF IInv
  <1> QED
    BY <1>1, <1>2, <1>3, <1>4, <1>5, <1>6, <1>7, <1>8, <1>9, <1>10 DEF Program

LEMMA EveryStepKeeps == IInv /\ [Next]_vars => IInv'
  <1> SUFFICES ASSUME IInv, [Next]_vars PROVE IInv'
    OBVIOUS
  <1>1. CASE Program
    BY <1>1, ProgramKeeps
  <1>2. CASE Kernel
    BY <1>2, ParentExitsKeeps, NumberRecycledKeeps, ExecsKeeps DEF Kernel
  <1>3. CASE UNCHANGED vars
    <2> USE <1>3 DEF vars, system, capVars
    <2>1. Typed' /\ Opened'
      BY DEF IInv, Typed, Opened
    <2>2. Family' /\ AsksAParent'
      BY DEF IInv, Family, AsksAParent, Unread
    <2>3. Shown'
      BY DEF IInv, Shown, Unwritten, FallbackShell
    <2> QED
      BY <2>1, <2>2, <2>3 DEF IInv
  <1> QED
    BY <1>1, <1>2, <1>3 DEF Next

LEMMA Invariance == Spec => []IInv
  BY FirstStates, EveryStepKeeps, PTL DEF Spec

\* The variables are well formed, and on no path is the comm file left open,
\* or read while it is closed, whenever the parent exits.
THEOREM TypeCorrect == Spec => []TypeOK
  <1>1. IInv => TypeOK
    <2> SUFFICES ASSUME IInv PROVE TypeOK
      OBVIOUS
    <2>1. pid \in Pids \cup {0}
      BY DEF IInv, Typed, Pids, Reaper, Shell, Self
    <2>2. out = <<>> => pc \in {"start", "getppid", "fallback", "cleanup", "done"}
      BY FallbackIsNamed DEF IInv, Shown, Unwritten
    <2> QED
      BY <2>1, <2>2 DEF TypeOK, IInv, Typed, Opened
  <1> QED
    BY <1>1, Invariance, PTL

\* The program that is asked for its version has a name the program's parent
\* has had, unless its number was used again between getppid and the read.
THEOREM ParentIsAsked == Spec => []AsksAParent
  <1>1. IInv => AsksAParent
    BY DEF IInv
  <1> QED
    BY <1>1, Invariance, PTL

\* What is shown is the clean line of a call that succeeded, and else the
\* shell of the environment, whichever call failed.
THEOREM AnswerOrFallback == Spec => []ShownIsAnswerOrFallback
  <1>1. IInv => ShownIsAnswerOrFallback
    BY DEF IInv, Shown, ShownIsAnswerOrFallback
  <1> QED
    BY <1>1, Invariance, PTL

\* Of an answer that is a program's name and, after a blank, its version, the
\* name and the version are shown and nothing else, however long the line is.
THEOREM NameAndVersionShown == Spec => []NameAndVersion
  <1>1. IInv => NameAndVersion
    <2> SUFFICES ASSUME IInv, pc = "done", result = 0, IsVersionLine(line)
                 PROVE  out = NameIn(line) \o <<"blank">> \o VersionIn(line)
      BY DEF NameAndVersion
    <2>1. out = Sanitize(line) /\ line \in Seq(Token)
      BY LinesAssumption DEF IInv, Shown
    <2> QED
      BY <2>1, VersionLineIsCleaned
  <1> QED
    BY <1>1, Invariance, PTL
===============================================================================
