------------------------------- MODULE Words -------------------------------
(* The machine words of the primitives, and the OCaml representation of    *)
(* unboxed values in them (values.h). The code has LOG = 5: integers of 63 *)
(* bits in words of 64, which the algorithms split in halves of 31 or 32.  *)
(* The algorithms are those of the code for every LOG.                     *)
EXTENDS Integers

CONSTANT LOG

ASSUME LogAssumption == LOG \in Nat \ {0}

Half == 2^LOG - 1           \* 31
Size == 2 * Half + 1        \* 63
Base == 2^Size
Uint == 0 .. Base - 1
Words == 0 .. 2 * Base - 1

\* Conversion to unsigned long long; the word read as a signed one.
Wrap(n) == n % (2 * Base)
Signed(w) == IF w >= Base THEN w - 2 * Base ELSE w

\* Bits lo .. lo + n - 1 of a word.
Bits(w, lo, n) == (w \div 2^lo) % 2^n

Shl(w, n) == Wrap(w * 2^n)
Shr(w, n) == w \div 2^n

\* An `intnat` is signed: Long_val is an arithmetic shift.
Val_long(n) == Wrap(2 * n + 1)
Long_val(v) == Signed(v) \div 2
Unsigned_long_val(v) == v \div 2
=============================================================================
