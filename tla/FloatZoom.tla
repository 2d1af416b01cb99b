------------------------------ MODULE FloatZoom -----------------------------
(***************************************************************************)
(* The arithmetic of img_data_size, a 32-bit float that the wheel and the  *)
(* keys change by 0.1, and of the width int(Width * size) that it gives.   *)
(*                                                                         *)
(* 0.1 is no binary fraction, so every step rounds.  Sizes are counted in  *)
(* 2^-26 tenths: then 0.1 is the integer Tenth, and so is every float that *)
(* is not below 1/16 and is a step's result.  Near zero a float is finer   *)
(* than this unit and the step is taken to be exact, as it is up to the    *)
(* error of the double 0.1.  Sizes stay below 4, where floats get coarser  *)
(* once more; TLC's integers end at 3.2.                                   *)
(***************************************************************************)
EXTENDS Integers

Tenth == 67108864  \* 2^26

Original == 10 * Tenth

\* The distance of the floats around a size x: 2^-23 for sizes from 1 to 2,
\* which is 80 units, and half or twice as much from one power of two to the
\* next.
Spacing(x) ==
  LET fits == {u \in {5, 10, 20, 40, 80, 160} :
                 u * 8388608 <= x \/ u * 8388608 <= -x}
  IN  IF fits = {} THEN 1 ELSE CHOOSE u \in fits : \A w \in fits : w <= u

\* The float nearest to x.  There are no ties: Tenth is no multiple of 5,
\* and a tie would be one.
Rounded(x) == LET u == Spacing(x) IN ((x + u \div 2) \div u) * u

\* Mutant: img_data_size is a double.
LargerInDouble(x) == x + Tenth

\* img_data_size += 0.1 and -= 0.1.
Larger(x) == Rounded(x + Tenth)
Smaller(x) == Rounded(x - Tenth)

\* How often 0.1 goes into a size, to the nearest.
Tenths(x) == (x + Tenth \div 2) \div Tenth

\* The float product of a width and a size that gives p whole pixels but for
\* `short' (pixels times units): the size being too small by a rounding, the
\* product rounds up to p unless more than half the distance of the floats
\* below p is missing.
LostPixel(p, short) ==
  \E q \in {2^m : m \in 0 .. 15} : p <= q /\ q < 2 * p /\ short > 20 * q

\* int(width * x), or 0 where that is not positive and nothing is drawn.
Pixels(width, x) ==
  LET t == Tenths(x)
      p == (width * t) \div 10
  IN  CASE t <= 0 -> 0
        [] t > 0 /\ (width * t) % 10 = 0
                 /\ LostPixel(p, width * (t * Tenth - x)) -> p - 1
        [] OTHER -> p

-----------------------------------------------------------------------------
(* What the rounding of the steps adds up to, used by the invariants.      *)

\* The sizes that steps from the original size lead to, after which the user
\* wants t tenths, are d units off.  One step's rounding error is the same
\* on the whole way from one power of two to the next, so the error grows and
\* shrinks with t; which power of two was crossed last decides between at
\* most four values, and eight at zero.  Good for sizes below 4.
DriftAbove(t, d) ==
  /\ t = 1 => d \in {-49, -9, 11, 51}
  /\ t \in 2 .. 5 => d + 4 * t \in {-40, 0, 20, 60}
  /\ t \in 6 .. 9 => d - 16 * t \in {-160, -120, -80, -40}
  /\ t \in 10 .. 19 => d - 16 * t \in {-160, -80}
  /\ t >= 20 => d = 1440 - 64 * t

IsDrift(t, d) ==
  /\ t > 0 => DriftAbove(t, d)
  /\ t = 0 => d \in {-51, -49, -11, -9, 9, 11, 49, 51}
  /\ t < 0 => DriftAbove(-t, -d)
=============================================================================
