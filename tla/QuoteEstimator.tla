--------------------------- MODULE QuoteEstimator ---------------------------
(***************************************************************************)
(* The public quote estimate of src/src/public-quote-estimator-contract.   *)
(* test.mjs, the one place of this repository that computes it.  Amounts   *)
(* are whole dollars and the factors of a configuration hundredths, so the *)
(* arithmetic is exact; README section 2 says why the doubles agree.       *)
(***************************************************************************)
EXTENDS Integers, FiniteSetsExt

\* What the estimate needs of a configuration.  The schema fixes each of these
\* numbers; the order of the bounds is what the arithmetic relies on.
ConfigOK(c) ==
  /\ {c.estimateFloor, c.estimateCeiling, c.midpointFloor, c.midpointCeiling,
      c.lowerPercent, c.upperPercent} \subseteq Nat
  /\ c.roundTo \in Nat \ {0}
  /\ c.estimateFloor <= c.estimateCeiling
  /\ c.midpointFloor <= c.midpointCeiling

Least(a, b) == IF a <= b THEN a ELSE b
Greatest(a, b) == IF a <= b THEN b ELSE a
Clamp(value, low, high) == Least(high, Greatest(low, value))

\* Math.round, which rounds halves up, to a multiple of roundTo; the value is
\* given in hundredths.
RoundTo(c, hundredths) ==
  c.roundTo * ((2 * hundredths + 100 * c.roundTo) \div (200 * c.roundTo))

\* The upper end is clamped from below by the lower end, not by the floor.
Estimate(c, raw) ==
  LET midpoint == Clamp(raw, c.midpointFloor, c.midpointCeiling)
      lower == Clamp(RoundTo(c, midpoint * c.lowerPercent),
                     c.estimateFloor, c.estimateCeiling)
      upper == Clamp(RoundTo(c, midpoint * c.upperPercent),
                     lower, c.estimateCeiling)
  IN [midpoint |-> midpoint, lower |-> lower, upper |-> upper]

\* speed, depth and complexity are amounts, standards a set of names.
Quote(c, amounts, speed, standards, depth, complexity) ==
  Estimate(c, speed + MapThenSumSet(LAMBDA s : amounts[s], standards)
              + depth + complexity)
=============================================================================
