-------------------------------- MODULE Facts --------------------------------
(***************************************************************************)
(* Facts about numbers and sequences that the proofs of several components *)
(* need.  Induction is by least counterexample: the set of the numbers for *)
(* which a fact fails has a least member, and there is none.               *)
(***************************************************************************)
EXTENDS Integers, Sequences, FiniteSets, SequencesExt, FiniteSetsExt, FiniteSetTheorems,
        FunctionTheorems, WellFoundedInduction, TLAPS

-----------------------------------------------------------------------------
(* The least of a set of natural numbers                                   *)

LEMMA LessIsWellFounded == IsWellFoundedOn({ss \in Nat \X Nat : ss[1] < ss[2]}, Nat)
  BY NatLessThanWellFounded DEF OpToRel

LEMMA LeastNatural ==
  ASSUME NEW T, T \subseteq Nat, T # {}
  PROVE  \E x \in T : \A y \in T : x <= y
<1> DEFINE R == {ss \in Nat \X Nat : ss[1] < ss[2]}
<1>1. \E x \in T : \A y \in T : ~ (<<y, x>> \in R)
  <2> HIDE DEF R
  <2>1. IsWellFoundedOn(R, Nat)
    BY LessIsWellFounded DEF R
  <2> QED
    BY <2>1, WFMin
<1>2. PICK x \in T : \A y \in T : ~ (<<y, x>> \in R)
  BY <1>1
<1>3. ASSUME NEW y \in T PROVE x <= y
  <2>1. x \in Nat /\ y \in Nat
    OBVIOUS
  <2>2. ~ (<<y, x>> \in R)
    BY <1>2
  <2>3. ~ (y < x)
    BY <2>1, <2>2
  <2> QED
    BY <2>1, <2>3
<1> QED
  BY <1>3

LEMMA MinIsMember ==
  ASSUME NEW T, T \subseteq Nat, T # {}
  PROVE  Min(T) \in T
  BY LeastNatural DEF Min

LEMMA MinIsLeast ==
  ASSUME NEW T, T \subseteq Nat, T # {}
  PROVE  Min(T) \in T /\ \A y \in T : Min(T) <= y
  BY LeastNatural DEF Min

LEMMA MaxIsGreatest ==
  ASSUME NEW N \in Nat, NEW T, T \subseteq 0 .. N, T # {}
  PROVE  Max(T) \in T /\ \A y \in T : y <= Max(T)
<1> DEFINE U == {N - t : t \in T}
<1>1. U \subseteq Nat /\ U # {}
  <2>1. \A t \in T : t \in 0 .. N
    OBVIOUS
  <2>2. \A t \in T : N - t \in Nat
    BY <2>1
  <2> QED
    BY <2>2
<1>2. PICK u \in U : \A v \in U : u <= v
  <2> HIDE DEF U
  <2> QED
    BY <1>1, LeastNatural
<1>3. PICK t \in T : u = N - t
  OBVIOUS
<1>4. \A y \in T : y <= t
  <2> TAKE y \in T
  <2>1. N - y \in U
    OBVIOUS
  <2>2. N - t <= N - y
    BY <1>2, <1>3, <2>1
  <2> QED
    BY <2>2
<1> QED
  BY <1>4 DEF Max

-----------------------------------------------------------------------------
(* Powers of two.  The provers do not compute with ^; the library counts     *)
(* the subsets of a set with it.                                             *)

LEMMA PowerOfTwoCounts ==
  ASSUME NEW n \in Nat
  PROVE  IsFiniteSet(SUBSET (1 .. n)) /\ Cardinality(SUBSET (1 .. n)) = 2 ^ n /\ 2 ^ n \in Nat
<1>1. IsFiniteSet(1 .. n) /\ Cardinality(1 .. n) = n
  <2>1. 1 \in Int /\ n \in Int
    OBVIOUS
  <2>2. Cardinality(1 .. n) = IF 1 > n THEN 0 ELSE n - 1 + 1
    BY <2>1, FS_Interval
  <2> QED
    BY <2>1, <2>2, FS_Interval
<1>2. IsFiniteSet(SUBSET (1 .. n)) /\ Cardinality(SUBSET (1 .. n)) = 2 ^ Cardinality(1 .. n)
  BY <1>1, FS_SUBSET
<1>3. Cardinality(SUBSET (1 .. n)) \in Nat
  BY <1>2, FS_CardinalityType
<1> QED
  BY <1>1, <1>2, <1>3

\* The subsets of 1 .. n + 1 are those of 1 .. n and as many with n + 1.
LEMMA NextPowerOfTwo ==
  ASSUME NEW n \in Nat
  PROVE  2 ^ (n + 1) = 2 * 2 ^ n
<1> DEFINE Old == SUBSET (1 .. n)
           New == {A \cup {n + 1} : A \in Old}
           f == [A \in Old |-> A \cup {n + 1}]
<1>1. n + 1 \notin 1 .. n /\ 1 .. (n + 1) = (1 .. n) \cup {n + 1} /\ n + 1 \in Nat
  OBVIOUS
<1>2. SUBSET (1 .. (n + 1)) = Old \cup New
  <2>1. ASSUME NEW B \in SUBSET (1 .. (n + 1)) PROVE B \in Old \cup New
    <3>1. CASE n + 1 \in B
      <4>1. B \ {n + 1} \in Old /\ B = (B \ {n + 1}) \cup {n + 1}
        BY <1>1, <3>1
      <4> QED
        BY <4>1
    <3>2. CASE n + 1 \notin B
      BY <1>1, <3>2
    <3> QED
      BY <3>1, <3>2
  <2>2. ASSUME NEW B \in Old \cup New PROVE B \in SUBSET (1 .. (n + 1))
    BY <1>1
  <2> QED
    BY <2>1, <2>2
<1>3. Old \cap New = {}
  BY <1>1
<1>4. ExistsBijection(Old, New)
  <2>1. f \in [Old -> New]
    OBVIOUS
  <2>2. \A A, B \in Old : f[A] = f[B] => A = B
    <3> SUFFICES ASSUME NEW A \in Old, NEW B \in Old, f[A] = f[B] PROVE A = B
      OBVIOUS
    <3>1. A \cup {n + 1} = B \cup {n + 1} /\ n + 1 \notin A /\ n + 1 \notin B
      BY <1>1
    <3>2. A = (A \cup {n + 1}) \ {n + 1} /\ B = (B \cup {n + 1}) \ {n + 1}
      BY <3>1
    <3> QED
      BY <3>1, <3>2
  <2>3. \A T \in New : \E A \in Old : f[A] = T
    OBVIOUS
  <2> HIDE DEF f, New, Old
  <2>4. f \in Bijection(Old, New)
    BY <2>1, <2>2, <2>3, Fun_IsBij
  <2> QED
    BY <2>4 DEF ExistsBijection
<1>5. IsFiniteSet(Old) /\ Cardinality(Old) = 2 ^ n /\ 2 ^ n \in Nat
  BY PowerOfTwoCounts
<1>6. Cardinality(Old \cup New) = 2 ^ (n + 1)
  BY <1>1, <1>2, PowerOfTwoCounts
<1> HIDE DEF Old, New
<1>7. IsFiniteSet(New) /\ Cardinality(New) = 2 ^ n
  BY <1>4, <1>5, FS_Bijection
<1>8. Cardinality(Old \cup New) = 2 ^ n + 2 ^ n - Cardinality(Old \cap New)
  BY <1>5, <1>7, FS_Union
<1>9. Cardinality(Old \cap New) = 0
  BY <1>3, FS_EmptySet
<1> QED
  BY <1>5, <1>6, <1>8, <1>9

LEMMA PowerExceeds ==
  ASSUME NEW n \in Nat
  PROVE  n < 2 ^ n
<1> DEFINE Fails == {m \in Nat : ~ (m < 2 ^ m)}
<1>1. CASE Fails # {}
  <2>1. PICK m \in Fails : \A k \in Fails : m <= k
    <3>1. Fails \subseteq Nat
      OBVIOUS
    <3> HIDE DEF Fails
    <3> QED
      BY <1>1, <3>1, LeastNatural
  <2>2. m \in Nat /\ ~ (m < 2 ^ m) /\ 2 ^ m \in Nat
    BY PowerOfTwoCounts
  <2>3. CASE m = 0
    <3>1. 2 ^ 0 = 1
      OBVIOUS
    <3> QED
      BY <2>2, <2>3, <3>1
  <2>4. CASE m # 0
    <3>1. m - 1 \in Nat /\ (m - 1) + 1 = m /\ ~ (m <= m - 1)
      BY <2>2, <2>4
    <3>2. m - 1 < 2 ^ (m - 1) /\ 2 ^ (m - 1) \in Nat
      BY <2>1, <3>1, PowerOfTwoCounts
    <3>3. 2 ^ m = 2 * 2 ^ (m - 1)
      <4>1. 2 ^ ((m - 1) + 1) = 2 * 2 ^ (m - 1)
        BY <3>1, NextPowerOfTwo
      <4> QED
        BY <3>1, <4>1
    <3> QED
      BY <2>2, <3>1, <3>2, <3>3
  <2> QED
    BY <2>3, <2>4
<1>2. CASE Fails = {}
  BY <1>2
<1> QED
  BY <1>1, <1>2
-----------------------------------------------------------------------------
(* A function defined by recursion on the numbers from 0 to N exists.      *)

IsRecursion(f, D, z, N, step) ==
  /\ f \in [0 .. N -> D]
  /\ f[0] = z
  /\ \A n \in 1 .. N : f[n] = step[<<f[n - 1], n>>]

LEMMA RecursionExists ==
  ASSUME NEW D, NEW z \in D, NEW N \in Nat, NEW step \in [D \X (1 .. N) -> D]
  PROVE  \E f : IsRecursion(f, D, z, N, step)
<1> DEFINE Has(m) == \E f \in [0 .. m -> D] :
                       f[0] = z /\ \A n \in 1 .. m : f[n] = step[<<f[n - 1], n>>]
           Without == {m \in 0 .. N : ~ Has(m)}
<1>0. SUFFICES \A m \in 0 .. N : Has(m)
  <2>1. N \in 0 .. N
    OBVIOUS
  <2> QED
    BY <2>1 DEF IsRecursion
<1> SUFFICES ASSUME Without # {} PROVE FALSE
  OBVIOUS
<1>1. Without \subseteq Nat
  <2> HIDE DEF Has
  <2> QED
    OBVIOUS
<1>2. PICK m \in Without : \A k \in Without : m <= k
  <2> HIDE DEF Without
  <2> QED
    BY <1>1, LeastNatural
<1>3. m \in 0 .. N /\ ~ Has(m)
  OBVIOUS
<1>4. m # 0
  <2> SUFFICES ASSUME m = 0 PROVE FALSE
    OBVIOUS
  <2> DEFINE g == [n \in 0 .. m |-> z]
  <2>1. g \in [0 .. m -> D] /\ g[0] = z /\ 1 .. m = {}
    OBVIOUS
  <2> HIDE DEF g
  <2> QED
    BY <1>3, <2>1
<1>5. m - 1 \in 0 .. N /\ ~ (m <= m - 1)
  BY <1>3, <1>4
<1>6. Has(m - 1)
  BY <1>2, <1>5
<1>7. PICK f \in [0 .. m - 1 -> D] :
        f[0] = z /\ \A n \in 1 .. m - 1 : f[n] = step[<<f[n - 1], n>>]
  BY <1>6
<1> DEFINE g == [n \in 0 .. m |-> IF n = m THEN step[<<f[m - 1], m>>] ELSE f[n]]
<1>8. m - 1 \in 0 .. m - 1 /\ m \in 1 .. N /\ 0 \in 0 .. m - 1
  BY <1>3, <1>4
<1>9. step[<<f[m - 1], m>>] \in D
  BY <1>7, <1>8
<1>10. \A n \in 0 .. m : n = m \/ n \in 0 .. m - 1
  BY <1>3
<1>11. g \in [0 .. m -> D]
  BY <1>7, <1>9, <1>10
<1>12. g[0] = z
  BY <1>4, <1>7, <1>8
<1>13. ASSUME NEW n \in 1 .. m PROVE g[n] = step[<<g[n - 1], n>>]
  <2>1. n - 1 \in 0 .. m /\ n - 1 # m /\ n \in 0 .. m
    BY <1>3
  <2>2. g[n - 1] = f[n - 1]
    BY <2>1
  <2>3. CASE n = m
    BY <2>1, <2>2, <2>3
  <2>4. CASE n # m
    <3>1. n \in 1 .. m - 1
      BY <1>3, <2>4
    <3>2. g[n] = f[n]
      BY <2>1, <2>4
    <3> QED
      BY <1>7, <2>2, <3>1, <3>2
  <2> QED
    BY <2>3, <2>4
<1> HIDE DEF g
<1> QED
  BY <1>3, <1>11, <1>12, <1>13
-----------------------------------------------------------------------------
(* The elements of a sequence of sequences, joined                         *)

JoinedFrom(ss) ==
  CHOOSE join : join = [i \in 1 .. Len(ss) |-> IF i = 1 THEN ss[i] ELSE join[i - 1] \o ss[i]]

\* The first n of them.
Joined(ss, n) == IF n = 0 THEN <<>> ELSE JoinedFrom(ss)[n]

LEMMA JoinExists ==
  ASSUME NEW D, NEW ss \in Seq(Seq(D))
  PROVE  \A n \in 1 .. Len(ss) : \E f \in [1 .. n -> Seq(D)] :
           \A i \in 1 .. n : f[i] = IF i = 1 THEN ss[i] ELSE f[i - 1] \o ss[i]
<1> DEFINE Has(n) == \E f \in [1 .. n -> Seq(D)] :
                       \A i \in 1 .. n : f[i] = IF i = 1 THEN ss[i] ELSE f[i - 1] \o ss[i]
           Without == {n \in 1 .. Len(ss) : ~ Has(n)}
<1> SUFFICES ASSUME Without # {} PROVE FALSE
  OBVIOUS
<1>1. Without \subseteq Nat
  OBVIOUS
<1>2. PICK n \in Without : \A m \in Without : n <= m
  <2> HIDE DEF Without
  <2> QED
    BY <1>1, LeastNatural
<1>3. n \in 1 .. Len(ss) /\ ~ Has(n)
  OBVIOUS
<1>4. ss[n] \in Seq(D)
  BY <1>3
<1>5. CASE n = 1
  <2> DEFINE g == [i \in 1 .. n |-> ss[1]]
  <2>1. g \in [1 .. n -> Seq(D)]
    BY <1>4, <1>5
  <2>2. \A i \in 1 .. n : g[i] = IF i = 1 THEN ss[i] ELSE g[i - 1] \o ss[i]
    BY <1>5
  <2> QED
    BY <1>3, <2>1, <2>2
<1>6. CASE n # 1
  <2>1. n - 1 \in 1 .. Len(ss) /\ ~ (n <= n - 1)
    BY <1>3, <1>6
  <2>2. Has(n - 1)
    BY <1>2, <2>1
  <2>3. PICK f \in [1 .. n - 1 -> Seq(D)] :
          \A i \in 1 .. n - 1 : f[i] = IF i = 1 THEN ss[i] ELSE f[i - 1] \o ss[i]
    BY <2>2
  <2> DEFINE g == [i \in 1 .. n |-> IF i = n THEN f[n - 1] \o ss[n] ELSE f[i]]
  <2>4. n - 1 \in 1 .. n - 1
    BY <1>3, <1>6
  <2>5. f[n - 1] \o ss[n] \in Seq(D)
    BY <1>4, <2>3, <2>4
  <2>6. \A i \in 1 .. n : i = n \/ i \in 1 .. n - 1
    BY <1>3
  <2>7. g \in [1 .. n -> Seq(D)]
    BY <2>3, <2>5, <2>6
  <2>8. ASSUME NEW i \in 1 .. n PROVE g[i] = IF i = 1 THEN ss[i] ELSE g[i - 1] \o ss[i]
    <3>1. CASE i = n
      <4>0. n - 1 \in 1 .. n /\ n - 1 # n
        BY <1>3, <1>6
      <4>1. g[i] = f[n - 1] \o ss[n] /\ g[n - 1] = f[n - 1]
        BY <3>1, <4>0
      <4> QED
        BY <1>6, <3>1, <4>1
    <3>2. CASE i # n
      <4>1. i \in 1 .. n - 1 /\ g[i] = f[i]
        BY <2>6, <3>2
      <4>2. i # 1 => i - 1 \in 1 .. n /\ i - 1 # n
        BY <1>3, <4>1
      <4>3. i # 1 => g[i - 1] = f[i - 1]
        BY <4>2
      <4> QED
        BY <2>3, <4>1, <4>3
    <3> QED
      BY <3>1, <3>2
  <2> HIDE DEF g
  <2> QED
    BY <1>3, <2>7, <2>8
<1> QED
  BY <1>5, <1>6

LEMMA JoinedFromIs ==
  ASSUME NEW D, NEW ss \in Seq(Seq(D)), ss # <<>>
  PROVE  /\ JoinedFrom(ss) \in [1 .. Len(ss) -> Seq(D)]
         /\ \A i \in 1 .. Len(ss) :
              JoinedFrom(ss)[i] = IF i = 1 THEN ss[i] ELSE JoinedFrom(ss)[i - 1] \o ss[i]
<1>1. Len(ss) \in 1 .. Len(ss)
  OBVIOUS
<1>2. PICK f \in [1 .. Len(ss) -> Seq(D)] :
        \A i \in 1 .. Len(ss) : f[i] = IF i = 1 THEN ss[i] ELSE f[i - 1] \o ss[i]
  <2>1. \A n \in 1 .. Len(ss) : \E f \in [1 .. n -> Seq(D)] :
           \A i \in 1 .. n : f[i] = IF i = 1 THEN ss[i] ELSE f[i - 1] \o ss[i]
    BY JoinExists
  <2> QED
    BY <1>1, <2>1, Zenon
<1>3. f = [i \in 1 .. Len(ss) |-> IF i = 1 THEN ss[i] ELSE f[i - 1] \o ss[i]]
  BY <1>2
<1> DEFINE J == JoinedFrom(ss)
<1>4. J = [i \in 1 .. Len(ss) |-> IF i = 1 THEN ss[i] ELSE J[i - 1] \o ss[i]]
  BY <1>3 DEF JoinedFrom
<1> HIDE DEF J
<1>5. DOMAIN J = 1 .. Len(ss)
  BY <1>4
<1>6. \A i \in 1 .. Len(ss) : J[i] = IF i = 1 THEN ss[i] ELSE J[i - 1] \o ss[i]
  BY <1>4
<1> DEFINE Differs == {i \in 1 .. Len(ss) : J[i] # f[i]}
<1>7. Differs = {}
  <2> SUFFICES ASSUME Differs # {} PROVE FALSE
    OBVIOUS
  <2>1. PICK n \in Differs : \A m \in Differs : n <= m
    <3>1. Differs \subseteq Nat
      OBVIOUS
    <3> HIDE DEF Differs
    <3> QED
      BY <3>1, LeastNatural
  <2>2. n \in 1 .. Len(ss) /\ J[n] # f[n]
    OBVIOUS
  <2>3. n # 1
    BY <1>2, <1>6, <2>2
  <2>4. n - 1 \in 1 .. Len(ss) /\ ~ (n <= n - 1)
    BY <2>2, <2>3
  <2>5. J[n - 1] = f[n - 1]
    BY <2>1, <2>4
  <2> QED
    BY <1>2, <1>6, <2>2, <2>5
<1>8. J = f
  <2>1. \A i \in 1 .. Len(ss) : J[i] = f[i]
    BY <1>7
  <2>2. J = [i \in 1 .. Len(ss) |-> J[i]]
    BY <1>4, <1>5
  <2>3. f = [i \in 1 .. Len(ss) |-> f[i]]
    OBVIOUS
  <2> QED
    BY <2>1, <2>2, <2>3
<1> QED
  BY <1>2, <1>8 DEF J

\* Joined takes one sequence after the other, and FlattenSeq takes them all.
LEMMA JoinedIs ==
  ASSUME NEW D, NEW ss \in Seq(Seq(D))
  PROVE  /\ Joined(ss, 0) = <<>>
         /\ \A n \in 0 .. Len(ss) : Joined(ss, n) \in Seq(D)
         /\ \A n \in 0 .. Len(ss) - 1 : Joined(ss, n + 1) = Joined(ss, n) \o ss[n + 1]
         /\ FlattenSeq(ss) = Joined(ss, Len(ss))
<1>1. Joined(ss, 0) = <<>>
  BY DEF Joined
<1>2. CASE ss = <<>>
  <2>1. Len(ss) = 0
    BY <1>2
  <2>2. FlattenSeq(ss) = ss
    BY <2>1 DEF FlattenSeq
  <2>3. \A n \in 0 .. Len(ss) : Joined(ss, n) \in Seq(D)
    <3>1. <<>> \in Seq(D)
      OBVIOUS
    <3>2. \A n \in 0 .. Len(ss) : n = 0
      BY <2>1
    <3> QED
      BY <1>1, <3>1, <3>2
  <2>4. 0 .. Len(ss) - 1 = {}
    BY <2>1
  <2>5. FlattenSeq(ss) = Joined(ss, Len(ss))
    BY <1>1, <1>2, <2>1, <2>2
  <2> QED
    BY <1>1, <2>3, <2>4, <2>5
<1>3. CASE ss # <<>>
  <2>1. Len(ss) \in Nat \ {0}
    BY <1>3
  <2>2. ASSUME NEW n \in 0 .. Len(ss) PROVE Joined(ss, n) \in Seq(D)
    <3>1. n = 0 \/ n \in 1 .. Len(ss)
      OBVIOUS
    <3>2. CASE n = 0
      <4>1. <<>> \in Seq(D)
        OBVIOUS
      <4> QED
        BY <1>1, <3>2, <4>1
    <3>3. CASE n \in 1 .. Len(ss)
      <4>1. JoinedFrom(ss)[n] \in Seq(D)
        BY <1>3, <3>3, JoinedFromIs
      <4>2. n # 0
        BY <3>3
      <4> QED
        BY <4>1, <4>2 DEF Joined
    <3> QED
      BY <3>1, <3>2, <3>3
  <2>3. ASSUME NEW n \in 0 .. Len(ss) - 1
        PROVE  Joined(ss, n + 1) = Joined(ss, n) \o ss[n + 1]
    <3>1. n + 1 \in 1 .. Len(ss) /\ n + 1 # 0 /\ (n + 1) - 1 = n /\ (n + 1 = 1 <=> n = 0)
      BY <2>1
    <3>2. Joined(ss, n + 1) = IF n = 0 THEN ss[n + 1] ELSE JoinedFrom(ss)[n] \o ss[n + 1]
      BY <1>3, <3>1, JoinedFromIs DEF Joined
    <3>3. ss[n + 1] \in Seq(D)
      BY <3>1
    <3>4. <<>> \o ss[n + 1] = ss[n + 1]
      BY <3>3
    <3> QED
      BY <3>2, <3>4 DEF Joined
  <2>4. FlattenSeq(ss) = Joined(ss, Len(ss))
    <3>1. FlattenSeq(ss) = JoinedFrom(ss)[Len(ss)]
      BY <2>1 DEF FlattenSeq, JoinedFrom
    <3> QED
      BY <2>1, <3>1 DEF Joined
  <2> QED
    BY <1>1, <2>2, <2>3, <2>4
<1> QED
  BY <1>2, <1>3

\* What is joined so far is where the whole begins.
LEMMA JoinedBegins ==
  ASSUME NEW D, NEW ss \in Seq(Seq(D)), NEW n \in 0 .. Len(ss)
  PROVE  \E rest \in Seq(D) : FlattenSeq(ss) = Joined(ss, n) \o rest
<1> DEFINE Begins(k) == \E rest \in Seq(D) : Joined(ss, k) = Joined(ss, n) \o rest
           Fails == {k \in n .. Len(ss) : ~ Begins(k)}
<1>1. Fails = {}
  <2> SUFFICES ASSUME Fails # {} PROVE FALSE
    OBVIOUS
  <2>1. PICK k \in Fails : \A m \in Fails : k <= m
    <3>1. Fails \subseteq Nat
      OBVIOUS
    <3> HIDE DEF Fails
    <3> QED
      BY <3>1, LeastNatural
  <2>2. /\ k \in n .. Len(ss) /\ n \in Nat /\ Len(ss) \in Nat
        /\ ~ Begins(k)
    <3>1. k \in n .. Len(ss) /\ ~ Begins(k)
      OBVIOUS
    <3> HIDE DEF Begins
    <3> QED
      BY <3>1
  <2>3. Joined(ss, n) \in Seq(D)
    BY JoinedIs
  <2>4. k # n
    <3>1. Joined(ss, n) = Joined(ss, n) \o <<>> /\ <<>> \in Seq(D)
      BY <2>3
    <3> QED
      BY <2>2, <3>1
  <2>5. k - 1 \in n .. Len(ss) /\ ~ (k <= k - 1) /\ k - 1 \in 0 .. Len(ss) - 1 /\ (k - 1) + 1 = k
    BY <2>2, <2>4
  <2>6. PICK rest \in Seq(D) : Joined(ss, k - 1) = Joined(ss, n) \o rest
    <3>1. Begins(k - 1)
      BY <2>1, <2>5
    <3> QED
      BY <3>1
  <2>7. Joined(ss, k) = Joined(ss, k - 1) \o ss[k] /\ ss[k] \in Seq(D)
    <3>1. Joined(ss, (k - 1) + 1) = Joined(ss, k - 1) \o ss[(k - 1) + 1]
      BY <2>5, JoinedIs
    <3>2. k \in 1 .. Len(ss)
      BY <2>2, <2>4
    <3>3. ss[k] \in Seq(D)
      BY <3>2
    <3> QED
      BY <2>5, <3>1, <3>3
  <2>8. (Joined(ss, n) \o rest) \o ss[k] = Joined(ss, n) \o (rest \o ss[k]) /\ rest \o ss[k] \in Seq(D)
    <3> DEFINE a == Joined(ss, n)
               b == ss[k]
    <3>1. a \in Seq(D) /\ b \in Seq(D)
      BY <2>3, <2>7
    <3> HIDE DEF a, b
    <3>2. (a \o rest) \o b = a \o (rest \o b) /\ rest \o b \in Seq(D)
      BY <3>1
    <3> QED
      BY <3>2 DEF a, b
  <2> QED
    BY <2>2, <2>6, <2>7, <2>8
<1>2. Len(ss) \in n .. Len(ss)
  OBVIOUS
<1>3. Begins(Len(ss))
  BY <1>1, <1>2
<1> QED
  BY <1>3, JoinedIs
=============================================================================
