--------------------------- MODULE FloatZoomProofs --------------------------
(***************************************************************************)
(* Facts about the arithmetic of img_data_size: what the distance of the   *)
(* floats is, that Rounded takes the nearest one, what a step does to the  *)
(* error of the steps before, and that Pixels is the product cut by int(). *)
(***************************************************************************)
EXTENDS FloatZoom, TLAPS

-----------------------------------------------------------------------------
(* Floats.                                                                 *)

LEMMA SpacingValues ==
  ASSUME NEW x \in Int
  PROVE  Spacing(x) \in {1, 5, 10, 20, 40, 80, 160}
<1> DEFINE S == {5, 10, 20, 40, 80, 160}
           fits == {u \in S : u * 8388608 <= x \/ u * 8388608 <= -x}
<1>1. CASE fits = {}
  BY <1>1 DEF Spacing
<1>2. CASE fits # {}
  <2>1. \E u \in fits : \A w \in fits : w <= u
    <3>1. CASE 160 \in fits
      BY <3>1
    <3>2. CASE 160 \notin fits /\ 80 \in fits
      BY <3>2
    <3>3. CASE {160, 80} \cap fits = {} /\ 40 \in fits
      BY <3>3
    <3>4. CASE {160, 80, 40} \cap fits = {} /\ 20 \in fits
      BY <3>4
    <3>5. CASE {160, 80, 40, 20} \cap fits = {} /\ 10 \in fits
      BY <3>5
    <3>6. CASE {160, 80, 40, 20, 10} \cap fits = {}
      BY <1>2, <3>6
    <3>. QED  BY <3>1, <3>2, <3>3, <3>4, <3>5, <3>6
  <2>2. (CHOOSE u \in fits : \A w \in fits : w <= u) \in fits
    BY <2>1
  <2>. QED  BY <1>2, <2>2 DEF Spacing
<1>. QED  BY <1>1, <1>2

\* From one power of two to the next the distance is the same.
LEMMA SpacingIs ==
  ASSUME NEW x \in Int, NEW u \in {5, 10, 20, 40, 80, 160},
         \/ u * 8388608 <= x /\ (x < 2 * u * 8388608 \/ u = 160)
         \/ u * 8388608 <= -x /\ (-x < 2 * u * 8388608 \/ u = 160)
  PROVE  Spacing(x) = u
<1> DEFINE fits == {w \in {5, 10, 20, 40, 80, 160} :
                      w * 8388608 <= x \/ w * 8388608 <= -x}
           best == CHOOSE w \in fits : \A z \in fits : z <= w
<1>1. u \in fits /\ \A z \in fits : z <= u
  BY SMT
<1>2. best \in fits /\ \A z \in fits : z <= best
  BY <1>1, SMT
<1>3. best = u
  <2>1. best \in Int /\ u \in Int /\ best <= u /\ u <= best
    BY <1>1, <1>2, SMT
  <2>. HIDE DEF best
  <2>. QED  BY <2>1, SMT
<1>4. fits # {}
  BY <1>1, SMT
<1>. QED  BY <1>3, <1>4, SMT DEF Spacing

LEMMA SpacingNearZero ==
  ASSUME NEW x \in Int, x < 5 * 8388608, -x < 5 * 8388608
  PROVE  Spacing(x) = 1
  BY SMT DEF Spacing

\* Rounded(x) is the multiple of the distance that is nearest to x.
LEMMA NearestMultiple ==
  ASSUME NEW x \in Int, NEW k \in Int
  PROVE  LET u == Spacing(x)
             Off(y) == IF y < x THEN x - y ELSE y - x
         IN  /\ \E n \in Int : Rounded(x) = n * u
             /\ Off(Rounded(x)) <= Off(k * u)
<1>1. ASSUME NEW u \in {1, 5, 10, 20, 40, 80, 160}
      PROVE  LET r == ((x + u \div 2) \div u) * u
                 Off(y) == IF y < x THEN x - y ELSE y - x
             IN  /\ \E n \in Int : r = n * u
                 /\ Off(r) <= Off(k * u)
  <2>1. (x + u \div 2) \div u \in Int
    BY SMT
  <2>2. CASE u = 1
    BY <2>2, SMT
  <2>3. CASE u = 5
    BY <2>3, SMT
  <2>4. CASE u = 10
    BY <2>4, SMT
  <2>5. CASE u = 20
    BY <2>5, SMT
  <2>6. CASE u = 40
    BY <2>6, SMT
  <2>7. CASE u = 80
    BY <2>7, SMT
  <2>8. CASE u = 160
    BY <2>8, SMT
  <2>. QED  BY <2>2, <2>3, <2>4, <2>5, <2>6, <2>7, <2>8
<1>. QED  BY <1>1, SpacingValues DEF Rounded

\* A float of the machine (IEEE 754 binary32), counted like sizes: 24 bits of
\* mantissa times the unit of a binade, or any number below 1/16, where the
\* units are finer than one.
Units == {5, 10, 20, 40, 80, 160}
Mantissa == 8388608  \* 2^23

IsFloat(y) ==
  \/ \E u \in Units, n \in Int :
       /\ -(2 * Mantissa) <= n /\ n <= 2 * Mantissa
       /\ y = n * u
  \/ -(5 * Mantissa) < y /\ y < 5 * Mantissa

Distance(y, x) == IF y < x THEN x - y ELSE y - x

\* The units are each other's multiples.
LEMMA UnitsDivide ==
  ASSUME NEW u \in Units, NEW w \in Units
  PROVE  2 * w <= u \/ (w \div u \in Int /\ w = (w \div u) * u)
<1>1. CASE u = 5
  BY <1>1, SMT DEF Units
<1>2. CASE u = 10
  BY <1>2, SMT DEF Units
<1>3. CASE u = 20
  BY <1>3, SMT DEF Units
<1>4. CASE u = 40
  BY <1>4, SMT DEF Units
<1>5. CASE u = 80
  BY <1>5, SMT DEF Units
<1>6. CASE u = 160
  BY <1>6, SMT DEF Units
<1>. QED  BY <1>1, <1>2, <1>3, <1>4, <1>5, <1>6, SMT DEF Units

\* A number of one binade lies on the multiples of a larger unit or below it.
LEMMA MantissaTimesUnit ==
  ASSUME NEW M \in Nat, NEW u \in Units, NEW w \in Units, NEW n \in Int,
         -(2 * M) <= n, n <= 2 * M
  PROVE  \/ \E k \in Int : n * w = k * u
         \/ -(M * u) <= n * w /\ n * w <= M * u
<1>1. CASE w \div u \in Int /\ w = (w \div u) * u
  <2> DEFINE m == w \div u
  <2>1. m \in Int /\ w = m * u /\ u \in Int
    BY <1>1 DEF Units
  <2>. HIDE DEF m
  <2>2. n * m \in Int /\ n * w = (n * m) * u
    BY <2>1, SMT
  <2>. QED  BY <2>2
<1>2. CASE 2 * w <= u
  <2>1. u \in Nat /\ w \in Nat
    BY SMT DEF Units
  <2>2. M * (2 * w) <= M * u
    BY <1>2, <2>1, SMT
  <2>3. n * w <= (2 * M) * w /\ -((2 * M) * w) <= n * w
    BY <2>1, SMT
  <2>. QED  BY <2>1, <2>2, <2>3, SMT
<1>. QED  BY <1>1, <1>2, UnitsDivide
\* Of two binades the lower one's numbers end where the upper one's begin.
LEMMA FloatsOfBinade ==
  ASSUME NEW y \in Int, IsFloat(y), NEW u \in Units
  PROVE  \/ \E k \in Int : y = k * u
         \/ -(Mantissa * u) <= y /\ y <= Mantissa * u
<1>1. Mantissa \in Nat
  BY SMT DEF Mantissa
<1>2. CASE -(5 * Mantissa) < y /\ y < 5 * Mantissa
  <2>1. u \in Int /\ 5 <= u
    BY SMT DEF Units
  <2>2. Mantissa * 5 <= Mantissa * u
    BY <1>1, <2>1, SMT
  <2>. QED  BY <1>1, <1>2, <2>1, <2>2, SMT
<1>3. ASSUME NEW w \in Units, NEW n \in Int, y = n * w,
             -(2 * Mantissa) <= n, n <= 2 * Mantissa
      PROVE  \/ \E k \in Int : y = k * u
             \/ -(Mantissa * u) <= y /\ y <= Mantissa * u
  BY <1>1, <1>3, MantissaTimesUnit
<1>. QED  BY <1>2, <1>3 DEF IsFloat

\* The rounding of the model is that of IEEE 754: for sizes from 1/16 to 4, on
\* both sides of zero, Rounded(x) is a float, and no float is nearer to x.
THEOREM RoundedIsNearestFloat ==
  ASSUME NEW x \in Int,
         \/ 5 * Mantissa <= x /\ x <= 320 * Mantissa
         \/ 5 * Mantissa <= -x /\ -x <= 320 * Mantissa
  PROVE  /\ IsFloat(Rounded(x))
         /\ \A y \in Int :
              IsFloat(y) => Distance(Rounded(x), x) <= Distance(y, x)
<1>1. PICK u \in Units :
         \/ Mantissa * u <= x /\ x <= 2 * (Mantissa * u)
            /\ (x < 2 * (Mantissa * u) \/ u = 160)
         \/ Mantissa * u <= -x /\ -x <= 2 * (Mantissa * u)
            /\ (-x < 2 * (Mantissa * u) \/ u = 160)
  BY SMT DEF Mantissa, Units
<1>2. Spacing(x) = u
  BY <1>1, SpacingIs, SMT DEF Mantissa, Units
<1> DEFINE n == (x + u \div 2) \div u
<1>3. n \in Int /\ Rounded(x) = n * u
  BY <1>2, SMT DEF Rounded, Units
<1>4. Mantissa \in Nat /\ u \in Nat \ {0}
  BY SMT DEF Mantissa, Units
<1>5. ASSUME NEW k \in Int
      PROVE  Distance(n * u, x) <= Distance(k * u, x)
  BY <1>2, <1>3, NearestMultiple, SMT DEF Distance
<1>. HIDE DEF n
<1>6. IsFloat(n * u)
  <2>1. -(2 * Mantissa) <= n /\ n <= 2 * Mantissa
    BY <1>1, SMT DEF n, Mantissa, Units
  <2>. QED  BY <1>3, <2>1 DEF IsFloat
<1>7. ASSUME NEW y \in Int, IsFloat(y)
      PROVE  Distance(n * u, x) <= Distance(y, x)
  <2>1. CASE \E k \in Int : y = k * u
    BY <1>5, <2>1
  <2>2. CASE -(Mantissa * u) <= y /\ y <= Mantissa * u
    <3> DEFINE a == Mantissa * u
               z == (-Mantissa) * u
    <3>1. a \in Nat /\ z = -a
      BY <1>4, SMT
    <3>2. Distance(n * u, x) <= Distance(a, x)
      BY <1>4, <1>5
    <3>3. Distance(n * u, x) <= Distance(z, x)
      <4>1. -Mantissa \in Int
        BY <1>4
      <4>. QED  BY <1>5, <4>1
    <3>4. Distance(a, x) <= Distance(y, x) \/ Distance(z, x) <= Distance(y, x)
      <4>1. a <= x \/ a <= -x
        BY <1>1
      <4>2. -a <= y /\ y <= a
        BY <2>2
      <4>. HIDE DEF a, z
      <4>. QED  BY <3>1, <4>1, <4>2, SMT DEF Distance
    <3>5. n * u \in Int
      BY <1>3, <1>4, SMT
    <3> DEFINE r == n * u
    <3>. HIDE DEF a, z, r
    <3>. QED  BY <3>1, <3>2, <3>3, <3>4, <3>5, SMT DEF Distance, r
  <2>. QED  BY <1>7, <2>1, <2>2, FloatsOfBinade
<1>. QED  BY <1>3, <1>6, <1>7

-----------------------------------------------------------------------------
(* The error of the steps.                                                 *)

\* A step from either neighbour of t tenths ends in one of the sizes that t
\* tenths can have.
LEMMA RoundedDrift ==
  ASSUME NEW t \in -39 .. 39, NEW d \in Int,
         \/ t > -39 /\ IsDrift(t - 1, d)
         \/ t < 39 /\ IsDrift(t + 1, d)
  PROVE  IsDrift(t, Rounded(t * Tenth + d) - t * Tenth)
<1> DEFINE y == t * Tenth + d
<1>1. y \in Int /\ t \in Int
  BY SMT DEF Tenth
<1>2. CASE t \in 20 .. 39 \/ t \in -39 .. -20
  <2>1. Spacing(y) = 160
    BY <1>1, <1>2, SpacingIs, SMT DEF IsDrift, DriftAbove, Tenth
  <2>2. Rounded(y) = ((y + 80) \div 160) * 160
    BY <2>1 DEF Rounded
  <2>. QED  BY <1>2, <2>2, SMT DEF IsDrift, DriftAbove, Tenth
<1>3. CASE t \in 11 .. 19 \/ (t = 10 /\ d >= 0)
           \/ t \in -19 .. -11 \/ (t = -10 /\ d <= 0)
  <2>1. Spacing(y) = 80
    BY <1>1, <1>3, SpacingIs, SMT DEF IsDrift, DriftAbove, Tenth
  <2>2. Rounded(y) = ((y + 40) \div 80) * 80
    BY <2>1 DEF Rounded
  <2>. QED  BY <1>3, <2>2, SMT DEF IsDrift, DriftAbove, Tenth
<1>4. CASE \/ t \in 6 .. 9 \/ (t = 10 /\ d < 0) \/ (t = 5 /\ d >= 0)
           \/ t \in -9 .. -6 \/ (t = -10 /\ d > 0) \/ (t = -5 /\ d <= 0)
  <2>1. Spacing(y) = 40
    BY <1>1, <1>4, SpacingIs, SMT DEF IsDrift, DriftAbove, Tenth
  <2>2. Rounded(y) = ((y + 20) \div 40) * 40
    BY <2>1 DEF Rounded
  <2>. QED  BY <1>4, <2>2, SMT DEF IsDrift, DriftAbove, Tenth
<1>5. CASE \/ t \in 3 .. 4 \/ (t = 5 /\ d < 0)
           \/ t \in -4 .. -3 \/ (t = -5 /\ d > 0)
  <2>1. Spacing(y) = 20
    BY <1>1, <1>5, SpacingIs, SMT DEF IsDrift, DriftAbove, Tenth
  <2>2. Rounded(y) = ((y + 10) \div 20) * 20
    BY <2>1 DEF Rounded
  <2>. QED  BY <1>5, <2>2, SMT DEF IsDrift, DriftAbove, Tenth
<1>6. CASE t \in {2, -2}
  <2>1. Spacing(y) = 10
    BY <1>1, <1>6, SpacingIs, SMT DEF IsDrift, DriftAbove, Tenth
  <2>2. Rounded(y) = ((y + 5) \div 10) * 10
    BY <2>1 DEF Rounded
  <2>. QED  BY <1>6, <2>2, SMT DEF IsDrift, DriftAbove, Tenth
<1>7. CASE t \in {1, -1}
  <2>1. Spacing(y) = 5
    BY <1>1, <1>7, SpacingIs, SMT DEF IsDrift, DriftAbove, Tenth
  <2>2. Rounded(y) = ((y + 2) \div 5) * 5
    BY <2>1 DEF Rounded
  <2>. QED  BY <1>7, <2>2, SMT DEF IsDrift, DriftAbove, Tenth
<1>8. CASE t = 0
  <2>1. y = d /\ d \in {-51, -49, -11, -9, 9, 11, 49, 51}
    <3>1. IsDrift(-1, d) \/ IsDrift(1, d)
      BY <1>8, SMT
    <3>2. IsDrift(1, d) => d \in {-49, -9, 11, 51}
      BY SMT DEF IsDrift, DriftAbove
    <3>3. IsDrift(-1, d) => DriftAbove(1, -d)
      BY SMT DEF IsDrift
    <3>4. DriftAbove(1, -d) => -d \in {-49, -9, 11, 51}
      BY SMT DEF DriftAbove
    <3>. QED  BY <1>8, <3>1, <3>2, <3>3, <3>4, SMT DEF Tenth
  <2>2. Spacing(y) = 1
    BY <1>1, <2>1, SpacingNearZero, SMT
  <2>3. Rounded(y) = y
    BY <1>1, <2>2, SMT DEF Rounded
  <2>. QED  BY <1>8, <2>1, <2>3, SMT DEF IsDrift, Tenth
<1>9. \/ t \in 20 .. 39 \/ t \in -39 .. -20
      \/ \/ t \in 11 .. 19 \/ (t = 10 /\ d >= 0)
         \/ t \in -19 .. -11 \/ (t = -10 /\ d <= 0)
      \/ \/ t \in 6 .. 9 \/ (t = 10 /\ d < 0) \/ (t = 5 /\ d >= 0)
         \/ t \in -9 .. -6 \/ (t = -10 /\ d > 0) \/ (t = -5 /\ d <= 0)
      \/ \/ t \in 3 .. 4 \/ (t = 5 /\ d < 0)
         \/ t \in -4 .. -3 \/ (t = -5 /\ d > 0)
      \/ t \in {2, -2} \/ t \in {1, -1} \/ t = 0
  BY <1>1, SMT
<1>. QED  BY <1>2, <1>3, <1>4, <1>5, <1>6, <1>7, <1>8, <1>9

\* So a step up or down leads from the sizes of t tenths to those of t + 1
\* or t - 1: the error does not grow with the number of steps.
LEMMA StepDrift ==
  ASSUME NEW t \in -39 .. 39, NEW x \in Int, IsDrift(t, x - t * Tenth)
  PROVE  /\ t < 39 => IsDrift(t + 1, Larger(x) - (t + 1) * Tenth)
         /\ t > -39 => IsDrift(t - 1, Smaller(x) - (t - 1) * Tenth)
<1> DEFINE d == x - t * Tenth
<1>1. d \in Int /\ x = t * Tenth + d /\ t \in Int
  BY SMT DEF Tenth
<1>2. /\ x + Tenth = (t + 1) * Tenth + d
      /\ x - Tenth = (t - 1) * Tenth + d
      /\ t = (t + 1) - 1 /\ t = (t - 1) + 1
  BY SMT DEF Tenth
<1>. HIDE DEF d
<1>3. ASSUME t < 39
      PROVE  IsDrift(t + 1, Rounded((t + 1) * Tenth + d) - (t + 1) * Tenth)
  <2> DEFINE s == t + 1
  <2>1. s \in -39 .. 39 /\ s > -39 /\ IsDrift(s - 1, d)
    BY <1>1, <1>2, <1>3 DEF d
  <2>. HIDE DEF s
  <2>2. IsDrift(s, Rounded(s * Tenth + d) - s * Tenth)
    BY <1>1, <2>1, RoundedDrift
  <2>. QED  BY <2>2 DEF s
<1>4. ASSUME t > -39
      PROVE  IsDrift(t - 1, Rounded((t - 1) * Tenth + d) - (t - 1) * Tenth)
  <2> DEFINE s == t - 1
  <2>1. s \in -39 .. 39 /\ s < 39 /\ IsDrift(s + 1, d)
    BY <1>1, <1>2, <1>4 DEF d
  <2>. HIDE DEF s
  <2>2. IsDrift(s, Rounded(s * Tenth + d) - s * Tenth)
    BY <1>1, <2>1, RoundedDrift
  <2>. QED  BY <2>2 DEF s
<1>. QED  BY <1>2, <1>3, <1>4 DEF Larger, Smaller

-----------------------------------------------------------------------------
(* The width that is drawn.                                                *)

\* The width that is drawn is never negative.
LEMMA PixelsType ==
  ASSUME NEW w \in Nat, NEW x \in Int
  PROVE  Pixels(w, x) \in Nat
<1> DEFINE t == Tenths(x)
           n == w * t
           p == n \div 10
           short == w * (t * Tenth - x)
<1>1. t \in Int
  BY DEF Tenths, Tenth
<1>2. CASE t <= 0
  BY <1>1, <1>2 DEF Pixels
<1>3. CASE t > 0
  <2>1. n \in Nat
    BY <1>1, <1>3
  <2>2. p \in Nat
    <3>. HIDE DEF n
    <3>. QED  BY <2>1
  <2>3. LostPixel(p, short) => p - 1 \in Nat
    <3>. HIDE DEF p, short
    <3>1. ASSUME NEW q, p <= q, q < 2 * p, q \in Int PROVE p - 1 \in Nat
      BY <2>2, <3>1
    <3>2. \A m \in 0 .. 15 : 2^m \in Int
      OBVIOUS
    <3>. QED  BY <3>1, <3>2 DEF LostPixel
  <2>4. CASE n % 10 = 0 /\ LostPixel(p, short)
    <3>1. Pixels(w, x) = p - 1
      BY <1>3, <2>4 DEF Pixels
    <3>. QED  BY <2>3, <2>4, <3>1
  <2>5. CASE ~(n % 10 = 0 /\ LostPixel(p, short))
    <3>1. ~(t <= 0)
      BY <1>1, <1>3
    <3>2. Pixels(w, x) = p
      BY <2>5, <3>1 DEF Pixels
    <3>. QED  BY <2>2, <3>2
  <2>. QED  BY <2>4, <2>5
<1>. QED  BY <1>1, <1>2, <1>3

LEMMA TenthsType ==
  ASSUME NEW x \in Int
  PROVE  Tenths(x) \in Int
  BY SMT DEF Tenths, Tenth

\* A product with a size, from the product with its tenths.
LEMMA ProductFromTenths ==
  ASSUME NEW w \in Nat, NEW t \in Int, NEW x \in Int
  PROVE  /\ w * (t * Tenth - x) \in Int
         /\ w * x = (w * t) * Tenth - w * (t * Tenth - x)
         /\ w * (t * Tenth - x) > 0 => x < t * Tenth
<1>1. Tenth \in Int
  BY SMT DEF Tenth
<1> DEFINE a == t * Tenth
           b == a - x
<1>2. a \in Int /\ b \in Int /\ x = a - b
  BY <1>1, SMT
<1>3. (w * t) * Tenth = w * a
  BY <1>1, SMT
<1>. HIDE DEF b
<1>4. w * b > 0 => b > 0
  BY <1>2, SMT
<1>. HIDE DEF a
<1>5. w * (a - b) = w * a - w * b
  BY <1>2, SMT
<1>6. w * x = w * a - w * b /\ w * b \in Int /\ (b > 0 => x < a)
  BY <1>2, <1>5, SMT
<1>. QED  BY <1>3, <1>4, <1>6 DEF a, b

\* Cutting a product that is less than a tenth of a pixel off.
LEMMA CutProduct ==
  ASSUME NEW m \in Int, NEW s \in Int, -Tenth < s, s < Tenth
  PROVE  (m * Tenth - s) \div (10 * Tenth)
            = IF m % 10 = 0 /\ s > 0 THEN m \div 10 - 1 ELSE m \div 10
<1> DEFINE q == m \div 10
           r == m % 10
<1>1. q \in Int /\ r \in 0 .. 9 /\ m = 10 * q + r
  BY SMT
<1>. HIDE DEF q, r
<1>2. ASSUME NEW e \in Int, NEW k \in Int,
             k * 671088640 <= e, e < k * 671088640 + 671088640
      PROVE  e \div (10 * Tenth) = k
  BY <1>2, SMT DEF Tenth
<1>3. -67108864 < s /\ s < 67108864 /\ m * Tenth - s \in Int
  BY SMT DEF Tenth
<1>4. m * Tenth - s = 671088640 * q + 67108864 * r - s
  BY <1>1, SMT DEF Tenth
<1>5. CASE r = 0 /\ s > 0
  <2>1. (m * Tenth - s) \div (10 * Tenth) = q - 1
    <3>1. /\ (q - 1) * 671088640 <= m * Tenth - s
          /\ m * Tenth - s < (q - 1) * 671088640 + 671088640
      BY <1>1, <1>3, <1>4, <1>5, SMT
    <3>. QED  BY <1>1, <1>2, <1>3, <3>1, SMT
  <2>. QED  BY <1>5, <2>1, SMT DEF q, r
<1>6. CASE ~(r = 0 /\ s > 0)
  <2>1. (m * Tenth - s) \div (10 * Tenth) = q
    <3>1. /\ q * 671088640 <= m * Tenth - s
          /\ m * Tenth - s < q * 671088640 + 671088640
      BY <1>1, <1>3, <1>4, <1>6, SMT
    <3>. QED  BY <1>1, <1>2, <1>3, <3>1, SMT
  <2>. QED  BY <1>6, <2>1, SMT DEF q, r
<1>. QED  BY <1>5, <1>6, SMT

\* The width drawn for a width w and a size x is what int() leaves of the
\* product, or, where the size is a little below a whole number of pixels, that
\* number if the float product rounds up to it.
TruncatesProduct(w, x) ==
  LET t == Tenths(x)
      exact == (w * x) \div (10 * Tenth)
  IN  \/ Pixels(w, x) = exact
      \/ /\ Pixels(w, x) = exact + 1
         /\ (w * t) % 10 = 0 /\ x < t * Tenth
         /\ ~LostPixel(exact + 1, w * (t * Tenth - x))

\* Pixels is the truncated float product for every size that is off its tenths
\* by less than a tenth of a pixel.
THEOREM PixelsIsTruncation ==
  ASSUME NEW w \in Nat, NEW x \in Int, Tenths(x) > 0,
         -Tenth < w * (Tenths(x) * Tenth - x),
         w * (Tenths(x) * Tenth - x) < Tenth
  PROVE  TruncatesProduct(w, x)
<1> DEFINE t == Tenths(x)
           n == w * t
           p == n \div 10
           short == w * (t * Tenth - x)
           exact == (w * x) \div (10 * Tenth)
<1>1. t \in Int /\ t > 0
  BY TenthsType
<1>2. n \in Int /\ short \in Int
  <2>1. short \in Int
    BY <1>1, ProductFromTenths
  <2>. HIDE DEF t, short
  <2>2. n \in Int
    BY <1>1
  <2>. QED  BY <2>1, <2>2
<1>3. /\ w * x = n * Tenth - short
      /\ short > 0 => x < t * Tenth
  BY <1>1, ProductFromTenths
<1>4. -Tenth < short /\ short < Tenth
  OBVIOUS
<1>5. Pixels(w, x) = IF n % 10 = 0 /\ LostPixel(p, short) THEN p - 1 ELSE p
  BY <1>1 DEF Pixels
<1>6. exact = IF n % 10 = 0 /\ short > 0 THEN p - 1 ELSE p
  <2>. HIDE DEF n, short
  <2>. QED  BY <1>2, <1>3, <1>4, CutProduct
<1>7. LostPixel(p, short) => short > 0
  <2>1. \A m \in 0 .. 15 : 2^m \in Int
    OBVIOUS
  <2>2. ASSUME NEW k \in Int, NEW s \in Int, NEW q \in Int,
               k <= q, q < 2 * k, s > 20 * q
        PROVE  s > 0
    BY <2>2
  <2>3. p \in Int
    BY <1>2
  <2>. HIDE DEF p, short
  <2>. QED  BY <1>2, <2>1, <2>2, <2>3 DEF LostPixel
<1>8. p \in Int
  <2>. HIDE DEF n
  <2>. QED  BY <1>2, SMT
<1>. HIDE DEF n, p, short, exact
<1>9. \/ Pixels(w, x) = exact
      \/ /\ Pixels(w, x) = exact + 1
         /\ n % 10 = 0 /\ x < t * Tenth
         /\ ~LostPixel(exact + 1, short)
  BY <1>3, <1>5, <1>6, <1>7, <1>8
<1>. QED  BY <1>9 DEF n, short, exact, TruncatesProduct

\* A size that is off by the rounding of the steps gives the width that is
\* wanted or one pixel less, and nothing where nothing is wanted.
LEMMA PixelsWanted ==
  ASSUME NEW w \in Nat, w > 10, NEW t \in -39 .. 39, NEW x \in Int,
         IsDrift(t, x - t * Tenth)
  PROVE  LET wanted == IF t > 0 THEN (w * t) \div 10 ELSE 0
         IN  \/ Pixels(w, x) = wanted
             \/ wanted > 1 /\ Pixels(w, x) = wanted - 1
<1>1. x - t * Tenth \in -1056 .. 1056
  BY SMT DEF IsDrift, DriftAbove, Tenth
<1>2. Tenths(x) = t
  BY <1>1, SMT DEF Tenths, Tenth
<1>3. CASE t <= 0
  BY <1>2, <1>3, SMT DEF Pixels
<1>4. CASE t > 0
  <2> DEFINE n == w * t
             p == n \div 10
  <2>1. n \in Nat /\ n > 10
    BY <1>4, SMT
  <2>2. Pixels(w, x) = p \/ (n % 10 = 0 /\ Pixels(w, x) = p - 1)
    BY <1>2, <1>4 DEF Pixels
  <2>3. n % 10 = 0 => p > 1
    <3>. HIDE DEF n
    <3>. QED  BY <2>1, SMT
  <2>. HIDE DEF n
  <2>. QED  BY <1>4, <2>2, <2>3 DEF n
<1>. QED  BY <1>3, <1>4, SMT

\* The drawn width is what int() leaves of the product, or the whole number
\* it rounds up to, for all sizes that the wheel leads to.
COROLLARY PixelsOfClicks ==
  ASSUME NEW w \in 0 .. 60000, NEW t \in 1 .. 39, NEW x \in Int,
         IsDrift(t, x - t * Tenth)
  PROVE  TruncatesProduct(w, x)
<1> DEFINE d == t * Tenth - x
<1>1. d \in Int /\ -1056 <= d /\ d <= 1056
  BY SMT DEF IsDrift, DriftAbove, Tenth
<1>2. Tenths(x) = t
  BY <1>1, SMT DEF Tenths, Tenth
<1>3. -Tenth < w * d /\ w * d < Tenth
  <2>. HIDE DEF d
  <2>1. w * d <= w * 1056 /\ -(w * 1056) <= w * d /\ w * d \in Int
    BY <1>1, SMT
  <2>2. w * 1056 <= 63360000 /\ w * 1056 \in Int
    BY SMT
  <2>3. -67108864 < w * d /\ w * d < 67108864
    BY <2>1, <2>2, SMT
  <2>. QED  BY <2>3 DEF Tenth
<1>4. w \in Nat /\ Tenths(x) > 0
  BY <1>2
<1>5. /\ -Tenth < w * (Tenths(x) * Tenth - x)
      /\ w * (Tenths(x) * Tenth - x) < Tenth
  BY <1>2, <1>3
<1>. QED  BY <1>4, <1>5, PixelsIsTruncation
=============================================================================
