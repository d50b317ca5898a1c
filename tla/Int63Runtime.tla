---------------------------- MODULE Int63Runtime ----------------------------
(* The primitive integers of the C runtime (prim_int63.c), on words that    *)
(* hold tagged integers. A result is a word, or for a boxed one the words   *)
(* of the block: <<constructor, integer>> for a carry, <<integer, integer>> *)
(* for a pair. `value` is the signed type intnat: `<` and `<=` on two       *)
(* values, as opposed to two uintnat, compare signed words.                 *)
EXTENDS Words, Bitwise, SequencesExt

LOCAL U(v) == Unsigned_long_val(v)

prim_int63_add(x, y) == Val_long(U(x) + U(y))
prim_int63_sub(x, y) == Val_long(U(x) - U(y))
prim_int63_mul(x, y) == Val_long(U(x) * U(y))
prim_int63_div(x, y) == IF U(y) = 0 THEN Val_long(0) ELSE Val_long(U(x) \div U(y))
prim_int63_mod(x, y) == IF U(y) = 0 THEN x ELSE Val_long(U(x) % U(y))

\* Mutant: the integers read as unsigned, as in prim_int63_mods.
prim_int63_divsUnsigned(x, y) ==
    IF U(y) = 0 THEN Val_long(0) ELSE Val_long(U(x) \div U(y))

\* C's division of signed integers rounds towards zero.
prim_int63_divs(x, y) ==
    LET a == Long_val(x)
        b == Long_val(y)
        abs(n) == IF n < 0 THEN -n ELSE n
        q == abs(a) \div abs(b)
    IN  IF b = 0 THEN Val_long(0) ELSE Val_long(IF (a < 0) = (b < 0) THEN q ELSE -q)

prim_int63_lsl(x, y) == IF U(y) < Size THEN Val_long(Shl(U(x), U(y))) ELSE Val_long(0)
prim_int63_lsr(x, y) == IF U(y) < Size THEN Val_long(Shr(U(x), U(y))) ELSE Val_long(0)

mk_bool(b) == IF b THEN 3 ELSE 1

prim_int63_eqb(x, y) == mk_bool(U(x) = U(y))
prim_int63_leb(x, y) == mk_bool(Signed(x) <= Signed(y))
prim_int63_ltb(x, y) == mk_bool(Signed(x) < Signed(y))
prim_int63_lesb(x, y) == mk_bool(Long_val(x) <= Long_val(y))
prim_int63_ltsb(x, y) == mk_bool(Long_val(x) < Long_val(y))

\* Eq, Lt, Gt.
OfSign(d) == IF d = 0 THEN 1 ELSE IF d < 0 THEN 3 ELSE 5
prim_int63_compare(x, y) == OfSign(U(x) - U(y))

\* The function that PrimInt63.v registers for `compares`.
compares(x, y) == prim_int63_compare(x, y)

mk_C0(n) == <<0, n>>
mk_C1(n) == <<1, n>>

prim_int63_addc(x, y) ==
    LET r == Wrap(U(x) + U(y))
    IN  IF r < U(x) THEN mk_C1(Val_long(r)) ELSE mk_C0(Val_long(r))

\* r is a primint, compared with the tagged x.
prim_int63_addcarryc(x, y) ==
    LET r == Wrap(U(x) + U(y) + 1)
    IN  IF Signed(r) <= Signed(x) THEN mk_C1(Val_long(r)) ELSE mk_C0(Val_long(r))

prim_int63_subc(x, y) ==
    LET r == Wrap(U(x) - U(y))
    IN  IF Signed(y) <= Signed(x) THEN mk_C0(Val_long(r)) ELSE mk_C1(Val_long(r))

prim_int63_subcarryc(x, y) ==
    LET r == Wrap(U(x) - U(y) - 1)
    IN  IF Signed(y) < Signed(x) THEN mk_C0(Val_long(r)) ELSE mk_C1(Val_long(r))

\* What the sum of the middle products carries into the upper half.
MiddleCarryTooFar(sum, term) == IF sum < term THEN 2^(Half + 1) ELSE 0
MiddleCarry(sum, term) == IF sum < term THEN 2^Half ELSE 0

\* h * Base + l = x * y, if one of x and y has its upper bit clear.
mulc_aux(x, y) ==
    LET lx   == x % 2^Half
        ly   == y % 2^Half
        hx   == Shr(x, Half)
        hy   == Shr(y, Half)
        hxy  == Wrap(hx * hy)
        hxly == Wrap(hx * ly)
        lxhy == Wrap(lx * hy)
        l0   == (lx * ly) | Shl(hxy, 2 * Half)
        hl   == Wrap(hxly + lxhy) % Base
        h0   == Shr(hxy, 1) + MiddleCarry(hl, hxly)
        hl2  == Shl(hl, Half) % Base
        l    == (l0 + hl2) % Base
        h    == h0 + (IF l < hl2 THEN 1 ELSE 0) + Shr(hl, Half + 1)
    IN  <<Val_long(h), Val_long(l)>>

HasUpperBit(x) == Shr(x, 2 * Half) # 0

prim_int63_mulc(xp, yp) ==
    LET x  == U(xp)
        y  == U(yp)
        p  == mulc_aux(x, y ^^ (2^(2 * Half)))
        h  == U(p[1])
        l  == U(p[2])
        l2 == Wrap(l + Shl(x, 2 * Half))
    IN  IF HasUpperBit(x) /\ HasUpperBit(y)
        THEN <<Val_long(h + (IF l2 < l THEN 1 ELSE 0) + Shr(x, 1)), Val_long(l2)>>
        ELSE mulc_aux(x, y)

prim_int63_diveucl(xp, yp) ==
    LET x == U(xp)
        y == U(yp)
    IN  IF y = 0 THEN <<Val_long(0), Val_long(x)>>
        ELSE <<Val_long(x \div y), Val_long(x % y)>>

prim_int63_addmuldiv(pp, xp, yp) ==
    IF U(pp) > Size THEN Val_long(0)
    ELSE Val_long((Shl(U(xp), U(pp)) % Base) | Shr(U(yp), Size - U(pp)))

\* Binary searches: half of the word, then 16, 8, 4, 2, 1 bits; the state is
\* the word, shifted by what was skipped, and the number of bits skipped.
WidthsShort == [i \in 1 .. LOG - 1 |-> 2^(LOG - i)]
Widths == [i \in 1 .. LOG |-> 2^(LOG - i)]

prim_int63_head0(init) ==
    LET top(s) == s.x \div 2^Half
        skip(s, n) == IF Bits(s.x, Half + 1 - n, n) # 0 THEN s
                      ELSE [x |-> Shl(s.x, n) % Base, r |-> s.r + n]
        first == IF Bits(U(init), Half + 1, Half) = 0 THEN [x |-> U(init), r |-> Half]
                 ELSE [x |-> Shr(U(init), Half), r |-> 0]
        last == FoldLeft(skip, first, Widths)
    IN  Val_long(last.r + (IF top(last) % 2 = 0 THEN 1 ELSE 0))

prim_int63_tail0(init) ==
    LET skip(s, n) == IF Bits(s.x, 0, n) # 0 THEN s
                      ELSE [x |-> Shr(s.x, n), r |-> s.r + n]
        last == FoldLeft(skip, [x |-> U(init), r |-> 0], <<Half + 1>> \o Widths)
    IN  Val_long(last.r)
=============================================================================
