----------------------------- MODULE Transforms -----------------------------
(***************************************************************************)
(* The transforms (bare_metal_foc/src/transforms.c) on Q16.16 numbers:     *)
(* sine and cosine by two power series, Clarke, Park and their inverses.   *)
(* Their 64-bit products are beyond TLC; FocProofs proves where the        *)
(* results lie.  How near the series come to the real sine is a matter of  *)
(* analysis and left out.                                                  *)
(***************************************************************************)
EXTENDS Integers

SQRT3     == 113512
PI        == 205887
PI_OVER_2 == 102944
PI_OVER_4 == 51472
TWO_PI    == 411775

\* FOC_park's angle of an encoder reading, and cos_approx's argument.
Theta(ticks)   == (ticks * TWO_PI) \div 65536
CosArgument(x) == PI_OVER_2 - x

\* sin_approx: the two loops; the half turn and the quarter turn folded.
Wrapped(x)  == x % TWO_PI
Negative(x) == Wrapped(x) >= PI
Half(x)     == IF Negative(x) THEN Wrapped(x) - PI ELSE Wrapped(x)
Folded(x)   == IF Half(x) > PI_OVER_2 THEN PI - Half(x) ELSE Half(x)

\* The series that is taken, and what it is given.
Series(x)   == IF Folded(x) <= PI_OVER_4 THEN "sin_raw" ELSE "cos_raw"
Argument(x) == IF Folded(x) <= PI_OVER_4 THEN Folded(x) ELSE PI_OVER_2 - Folded(x)

\* q16_mul(): the shift rounds down.
Mul(a, b) == (a * b) \div 65536

\* The two series, for arguments from 0.
SinRaw(x) ==
    LET x2 == Mul(x, x)
        x3 == Mul(x2, x)
        x5 == Mul(x3, x2)
        x7 == Mul(x5, x2)
    IN  x - (x3 \div 6) + (x5 \div 120) - (x7 \div 5040)

CosRaw(x) ==
    LET x2 == Mul(x, x)
        x4 == Mul(x2, x2)
        x6 == Mul(x4, x2)
    IN  65536 - (x2 \div 2) + (x4 \div 24) - (x6 \div 720)

\* sin_approx and cos_approx.
Magnitude(x) == IF Series(x) = "sin_raw" THEN SinRaw(Argument(x)) ELSE CosRaw(Argument(x))
Sine(x)      == IF Negative(x) THEN -Magnitude(x) ELSE Magnitude(x)
Cosine(x)    == Sine(CosArgument(x))

Park(alpha, beta, ticks) ==
    LET c == Cosine(Theta(ticks))
        s == Sine(Theta(ticks))
    IN  [d |-> Mul(c, alpha) + Mul(s, beta), q |-> Mul(-s, alpha) + Mul(c, beta)]

InvPark(d, q, ticks) ==
    LET c == Cosine(Theta(ticks))
        s == Sine(Theta(ticks))
    IN  [alpha |-> Mul(c, d) - Mul(s, q), beta |-> Mul(s, d) + Mul(c, q)]

\* The phase voltages va and vc.  vb is computed and dropped, although
\* transforms.h says that it is written.
InvClarke(alpha, beta) ==
    LET vb == (Mul(SQRT3, beta) - alpha) \div 2
    IN  [va |-> alpha, vc |-> -alpha - vb]

\* C's division, towards zero, and FOC_clarke's beta before it is narrowed
\* to 32 bits (exact for all currents below 8192 A: ClarkeFits).
Quotient(a, b)   == IF a >= 0 THEN a \div b ELSE -((-a) \div b)
ClarkeBeta(a, b) == Quotient((a + 2 * b) * 65536, SQRT3)
=============================================================================
