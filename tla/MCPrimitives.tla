---------------------------- MODULE MCPrimitives ----------------------------
(* PrimitiveCalls on all pairs of integers of 7 bits and all floats of 8    *)
(* (4 of exponent, 3 of mantissa), in words of 8, and on strings of up to   *)
(* two words of two bytes and one character on each side of 128.            *)
EXTENDS PrimitiveCalls

\* No shift, one bit, up to the size, beyond the size, and the largest.
MCShifts == {0, 1, Size - 1, Size, Size + 1, Base - 1}

MCStrings == UNION {[1 .. n -> {65, 200}] : n \in 0 .. 4}

Just(integers, reals, texts) ==
    [integers |-> integers, floats |-> reals, strings |-> texts]

\* The second of two floats matters to comparisons only: zeros, the least
\* subnormal, 1, the largest, the infinities and a NaN.
Second == {0, Base, 1, Base + 1, One, INFINITY - 1, INFINITY, INFINITY + Base, INFINITY + 1}

MCArguments ==
    {Just({p}, {}, {}) : p \in Uint \X Uint}
    \cup {Just({}, {p}, {}) : p \in Words \X Second}
    \cup {Just({}, {}, {p}) : p \in MCStrings \X MCStrings}

\* A program that makes all the calls: integers on both sides of the upper
\* bit, a float and the same one again, two short strings.
MCTogether ==
    {Just({p, q}, {<<u, u>>}, {<<<<65>>, <<65>>>>}) :
        p \in (Base \div 2 .. Base \div 2 + 4) \X (Base \div 2 .. Base \div 2 + 4),
        q \in (Base \div 2 .. Base \div 2 + 4) \X (0 .. 4), u \in {One, Base + One}}
=============================================================================
