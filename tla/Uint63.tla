------------------------------- MODULE Uint63 -------------------------------
(* What Rocq says of its primitive integers: the meaning that the semantics *)
(* of LambdaANF gives to the operators (apply_LambdaANF_primInt_operator).  *)
(* Enumerations are numbered as their constructors, a carry is              *)
(* <<constructor, integer>>, a product <<integer, integer>>.                *)
EXTENDS Words

Ordinal(b) == IF b THEN 1 ELSE 0
Eq == 0
Lt == 1
Gt == 2

\* The integer read in two's complement (Sint63).
Sint(x) == IF 2 * x >= Base THEN x - Base ELSE x
Uint_of(n) == n % Base
Abs(n) == IF n < 0 THEN -n ELSE n
\* Division rounds towards zero.
Quot(a, b) == IF (a < 0) = (b < 0) THEN Abs(a) \div Abs(b) ELSE -(Abs(a) \div Abs(b))

Compare(a, b) == IF a = b THEN Eq ELSE IF a < b THEN Lt ELSE Gt

Arithmetic(x, y) ==
    [add |-> Uint_of(x + y),
     sub |-> Uint_of(x - y),
     mul |-> Uint_of(x * y),
     div |-> IF y = 0 THEN 0 ELSE x \div y,
     mod |-> IF y = 0 THEN x ELSE x % y,
     lsl |-> IF y >= Size THEN 0 ELSE Uint_of(x * 2^y),
     lsr |-> IF y >= Size THEN 0 ELSE x \div 2^y]

Comparisons(x, y) ==
    [eqb |-> Ordinal(x = y),
     leb |-> Ordinal(x <= y),
     ltb |-> Ordinal(x < y),
     compare |-> Compare(x, y)]

SignedOperations(x, y) ==
    [divs |-> IF y = 0 THEN 0 ELSE Uint_of(Quot(Sint(x), Sint(y))),
     lesb |-> Ordinal(Sint(x) <= Sint(y)),
     ltsb |-> Ordinal(Sint(x) < Sint(y))]

SignedCompare(x, y) == Compare(Sint(x), Sint(y))

\* The constructor tells whether the result left the range of integers.
Carry(n) == <<IF n \in Uint THEN 0 ELSE 1, Uint_of(n)>>

Carries(x, y) ==
    [addc |-> Carry(x + y),
     addcarryc |-> Carry(x + y + 1),
     subc |-> Carry(x - y),
     subcarryc |-> Carry(x - y - 1)]

Mulc(x, y) == <<(x * y) \div Base, Uint_of(x * y)>>
Diveucl(x, y) == IF y = 0 THEN <<0, x>> ELSE <<x \div y, x % y>>

Zeros(x) ==
    [head0 |-> IF x = 0 THEN Size
               ELSE CHOOSE n \in 0 .. Size : 2 * 2^n * x >= Base /\ 2^n * x < Base,
     tail0 |-> IF x = 0 THEN Size
               ELSE CHOOSE n \in 0 .. Size : x % 2^n = 0 /\ (x \div 2^n) % 2 = 1]

\* The upper bits of the concatenation of x and y shifted by p.
Addmuldiv(p, x, y) ==
    IF p > Size THEN 0 ELSE Uint_of(x * 2^p + y \div 2^(Size - p))
=============================================================================
