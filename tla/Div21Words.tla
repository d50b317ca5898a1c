----------------------------- MODULE Div21Words -----------------------------
(* The integers that the two backends divide, and the words they are in.    *)
(* The code has SIZE = 63 in words of 64 bits.                              *)
EXTENDS Integers

CONSTANTS
    SIZE,       \* bits of an integer
    Pow2        \* powers of two, up to SIZE

ASSUME SizeAssumption == SIZE \in Nat \ {0}

ASSUME Pow2Assumption ==
    /\ Pow2 \in [0 .. SIZE -> Nat \ {0}]
    /\ Pow2[0] = 1
    /\ \A n \in 0 .. SIZE - 1 : Pow2[n + 1] = 2 * Pow2[n]

Base == Pow2[SIZE]
Uint == 0 .. Base - 1
Words == 0 .. 2 * Base - 1

\* Arithmetic on unsigned long long, and on i64.
Wrap(n) == n % (2 * Base)
=============================================================================
