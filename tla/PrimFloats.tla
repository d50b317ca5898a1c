----------------------------- MODULE PrimFloats -----------------------------
(* The primitives of prim_floats.c that do more than one operator of C, on  *)
(* floats in words of every width: one bit of sign, EW of exponent and the  *)
(* others of mantissa (11 and 52 in a double).  What C and libm compute     *)
(* themselves (+, <, frexp, the rounding of an integer) is IEEE's.          *)
EXTENDS Words, FiniteSetsExt

CONSTANT EW

ASSUME EWAssumption == EW \in 2 .. Size - 2

MW == Size - EW
prec == MW + 1
emax == 2^(EW - 1)

----------------------------------------------------------------------------
(* IEEE *)

Magnitude(u) == u % Base
Negative(u) == u >= Base
Exponent(u) == Magnitude(u) \div 2^MW
Mantissa(u) == u % 2^MW
INFINITY == (2^EW - 1) * 2^MW

IsNan(u) == Magnitude(u) > INFINITY
IsInfinite(u) == Magnitude(u) = INFINITY
IsZero(u) == Magnitude(u) = 0

\* Floats that are not NaN are ordered as their magnitudes are, with a sign.
Order(u) == IF Negative(u) THEN -Magnitude(u) ELSE Magnitude(u)
Same(u, v) == ~IsNan(u) /\ ~IsNan(v) /\ Order(u) = Order(v)
Less(u, v) == ~IsNan(u) /\ ~IsNan(v) /\ Order(u) < Order(v)

\* A finite magnitude, in units of the least one.
Units(m) == IF m < 2^MW THEN m ELSE (2^MW + (m % 2^MW)) * 2^((m \div 2^MW) - 1)
One == (emax - 1) * 2^MW
OneHalf == (emax - 2) * 2^MW

\* frexp of a float that is neither 0, infinite nor NaN: a magnitude in
\* [0.5, 1) and a power of 2.
Frexp(u) ==
    LET up == Max({k \in 0 .. MW : Units(Magnitude(u)) * 2^k < 2^prec} \cup {0})
        low == Units(Magnitude(u)) * 2^up
    IN  IF Exponent(u) = 0
        THEN [frac |-> OneHalf + (low % 2^MW) + (IF Negative(u) THEN Base ELSE 0),
              e |-> 1 - (emax - 2) - up]
        ELSE [frac |-> OneHalf + Mantissa(u) + (IF Negative(u) THEN Base ELSE 0),
              e |-> Exponent(u) - (emax - 2)]

----------------------------------------------------------------------------
(* prim_floats.c *)

Ordering(below, above, same) ==
    IF below THEN Val_long(1) ELSE IF above THEN Val_long(2)
    ELSE IF same THEN Val_long(0) ELSE Val_long(3)

\* x and y are the addresses of the blocks of the floats.
prim_float_compare(x, y) == Ordering(x < y, x > y, x = y)

\* Two zeros have the same inverse when they have the same sign.
prim_float_equal(u, v) ==
    IF IsNan(u) THEN IsNan(v)
    ELSE Same(u, v) /\ (IsZero(u) => Negative(u) = Negative(v))

eshift == 2 * emax + prec

prim_float_frshiftexp(u) ==
    IF IsNan(u) \/ IsInfinite(u) \/ IsZero(u) THEN <<u, 0>>
    ELSE <<Frexp(u).frac, Frexp(u).e + eshift>>

\* Mutant: 0.5 itself is left out.
normfr_mantissa_open(u) ==
    LET f == Magnitude(u)
    IN  IF OneHalf < f /\ f < One THEN 2^MW + Mantissa(f) ELSE 0

prim_float_normfr_mantissa(u) ==
    LET f == Magnitude(u)
    IN  IF OneHalf <= f /\ f < One THEN 2^MW + Mantissa(f) ELSE 0

\* Mutant: without the line for -0.0.
next_up_zero(u) ==
    IF ~Less(u, INFINITY) THEN u
    ELSE IF Signed(u) >= 0 THEN Wrap(u + 1)
    ELSE Wrap(u - 1)

\* The bits of the float as an integer, one more or one less.
next_up(u) ==
    IF ~Less(u, INFINITY) THEN u
    ELSE IF Signed(u) >= 0 THEN Wrap(u + 1)
    ELSE IF Wrap(u + u) = 0 THEN 1
    ELSE Wrap(u - 1)

next_down(u) ==
    IF ~Less(INFINITY + Base, u) THEN u
    ELSE IF Signed(u) = 0 THEN Base + 1
    ELSE IF Signed(u) < 0 THEN Wrap(u + 1)
    ELSE Wrap(u - 1)
=============================================================================
