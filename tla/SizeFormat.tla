----------------------------- MODULE SizeFormat -----------------------------
(***************************************************************************)
(* util_format_size (core/sys_utils.c): two numbers of bytes as a used and *)
(* a total size in one unit, and a percentage.  Sizes are divided by a     *)
(* power of two, which doubles do exactly, and printf rounds the exact     *)
(* quotient, ties to even: a printed size is a whole number of hundredths. *)
(* The percentage is a double cut to a whole number.                       *)
(***************************************************************************)
EXTENDS Integers, FiniteSetsExt

CONSTANT Kilo   (* 1024: the step from one unit to the next *)

ASSUME KiloAssumption == Kilo \in Nat /\ Kilo > 1

Unit == 0..5             \* B, KiB, MiB, GiB, TiB, PiB
UnitAuto == 6
KiB  == 1
MiB  == 2
GiB  == 3

\* The options that set the unit.
UnitOf == [h |-> UnitAuto, k |-> KiB, m |-> MiB, g |-> GiB]

\* MEMORY_DIVISORS.
Divisors == LET k2 == Kilo * Kilo
            IN  <<1, Kilo, k2, k2 * Kilo, k2 * k2, k2 * k2 * Kilo>>

Bytes(u) == Divisors[u + 1]

Larger(a, b) == IF a > b THEN a ELSE b

\* The forced unit, or the largest one the larger of the two sizes fills.
UnitFor(total, used, forced) ==
  IF forced \in Unit THEN forced
  ELSE Max({0} \cup {u \in Unit : Bytes(u) <= Larger(total, used)})

\* n/d to the nearest whole number, ties to even.
RoundEven(n, d) ==
  LET q == n \div d
      r == n % d
  IN  IF 2 * r > d \/ (2 * r = d /\ q % 2 = 1) THEN q + 1 ELSE q

\* A size in hundredths of u: two digits, or none when KiB or MiB is forced.
Hundredths(size, u, forced) ==
  IF forced \in {KiB, MiB} THEN 100 * RoundEven(size, Bytes(u))
                           ELSE RoundEven(100 * size, Bytes(u))

\* The quotients n/100 whose double, times 100.0, lies just below n.
LosesOne == {29, 57, 58}

\* (uint8_t)((part / whole) * 100.0), for 0 <= part and 0 < whole.
CutPercent(part, whole) ==
  LET p == (100 * part) \div whole
  IN  IF p * whole = 100 * part /\ p \in LosesOne THEN p - 1 ELSE p

Percent(used, total) ==
  IF total = 0 THEN 0
  ELSE IF used > total THEN 100 ELSE CutPercent(used, total)

FormatSize(total, used, forced) ==
  LET u == UnitFor(total, used, forced)
  IN  [unit |-> u, total |-> Hundredths(total, u, forced),
       used |-> Hundredths(used, u, forced), pct |-> Percent(used, total)]
-----------------------------------------------------------------------------
\* What a reader may take from the text f: each size within half of the last
\* digit, a unit in which the larger size is neither below 1 nor, before it is
\* rounded, a whole number of the next unit, and a percentage that is never
\* above the real one, at most one below it, and 100 just when all is used.
Near(shown, size, u, forced) ==
  LET step == IF forced \in {KiB, MiB} THEN 100 ELSE 1
      off  == shown * Bytes(u) - 100 * size
  IN  2 * Larger(off, -off) <= step * Bytes(u)

TellsSizes(f, total, used, forced) ==
  /\ Near(f.total, total, f.unit, forced)
  /\ Near(f.used, used, f.unit, forced)
  /\ IF forced = UnitAuto
       THEN /\ f.unit > 0 => Bytes(f.unit) <= Larger(total, used)
            /\ f.unit < 5 => Larger(total, used) < Bytes(f.unit + 1)
       ELSE f.unit = forced
  /\ f.pct * total <= 100 * used
  /\ total > 0 /\ used <= total => 100 * used <= (f.pct + 1) * total
  /\ total > 0 => (f.pct = 100 <=> used >= total)
=============================================================================
