--------------------------- MODULE PrimitiveCalls ---------------------------
(* Calls of every primitive on the same arguments, in a program compiled to *)
(* C and, for integers, in one compiled to WebAssembly, against what Rocq's *)
(* libraries say of integers, floats and strings.                           *)
EXTENDS PrimFloats, PrimStrings

CONSTANTS
    Shifts,     \* first arguments tried for addmuldiv
    Arguments   \* what a run of the program calls the primitives on

ASSUME ShiftsAssumption == Shifts \subseteq Uint

ASSUME ArgumentsAssumption == \A a \in Arguments :
    /\ a.integers \subseteq Uint \X Uint
    /\ a.floats \subseteq Words \X Words
    /\ a.strings \subseteq Seq(0 .. 255) \X Seq(0 .. 255)

VARIABLES
    args,           \* pairs of integers, of floats and of strings
    runtime, wasm,  \* <<>>, or by pair of integers the results by name
    floats,         \* <<>>, or by pair of floats the results
    strings         \* <<>>, or by pair of strings the results

vars == <<args, runtime, wasm, floats, strings>>

Rocq == INSTANCE Uint63
C == INSTANCE Int63Runtime
W == INSTANCE Int63Wasm

\* The words that stand for the results in the C program.
OnRuntime(a, b) ==
    [add |-> C!prim_int63_add(a, b), sub |-> C!prim_int63_sub(a, b),
     mul |-> C!prim_int63_mul(a, b), div |-> C!prim_int63_div(a, b),
     mod |-> C!prim_int63_mod(a, b), lsl |-> C!prim_int63_lsl(a, b),
     lsr |-> C!prim_int63_lsr(a, b), divs |-> C!prim_int63_divs(a, b),
     eqb |-> C!prim_int63_eqb(a, b), leb |-> C!prim_int63_leb(a, b),
     ltb |-> C!prim_int63_ltb(a, b), lesb |-> C!prim_int63_lesb(a, b),
     ltsb |-> C!prim_int63_ltsb(a, b), compare |-> C!prim_int63_compare(a, b),
     compares |-> C!compares(a, b),
     addc |-> C!prim_int63_addc(a, b), addcarryc |-> C!prim_int63_addcarryc(a, b),
     subc |-> C!prim_int63_subc(a, b), subcarryc |-> C!prim_int63_subcarryc(a, b),
     mulc |-> C!prim_int63_mulc(a, b), diveucl |-> C!prim_int63_diveucl(a, b),
     head0 |-> C!prim_int63_head0(a), tail0 |-> C!prim_int63_tail0(a),
     addmuldiv |-> [p \in Shifts |-> C!prim_int63_addmuldiv(Val_long(p), a, b)]]

OnWasm(x, y) ==
    [add |-> W!add(x, y), sub |-> W!sub(x, y), mul |-> W!mul(x, y),
     div |-> W!div_instrs(x, y), mod |-> W!mod_instrs(x, y),
     lsl |-> W!shl_instrs(x, y), lsr |-> W!shr_instrs(x, y),
     eqb |-> W!boolean(x = y), leb |-> W!boolean(x <= y), ltb |-> W!boolean(x < y),
     compare |-> W!compare_instrs(x, y),
     addc |-> W!apply_add_carry_operation(x, y, FALSE),
     addcarryc |-> W!apply_add_carry_operation(x, y, TRUE),
     subc |-> W!apply_sub_carry_operation(x, y, FALSE),
     subcarryc |-> W!apply_sub_carry_operation(x, y, TRUE),
     mulc |-> W!mulc_instrs(x, y), diveucl |-> W!diveucl_instrs(x, y),
     head0 |-> W!head0_instrs(x), tail0 |-> W!tail0_instrs(x),
     addmuldiv |-> [p \in Shifts |-> W!addmuldiv_instrs(p, x, y)]]

\* Two blocks, the second allocated after the first.
OnFloats(u, v) ==
    [compare |-> prim_float_compare(1, 3),
     equal |-> prim_float_equal(u, v),
     frshiftexp |-> prim_float_frshiftexp(u),
     normfr_mantissa |-> prim_float_normfr_mantissa(prim_float_frshiftexp(u)[1]),
     next_up |-> next_up(u), next_down |-> next_down(u)]

\* Two strings that come from C, what is made of them, and a literal.
OnStrings(s, t) ==
    LET x == mk_ocaml_string(s)
        y == mk_ocaml_string(t)
    IN  [x |-> x, literal |-> compile_string(s),
         length |-> prim_string_length(x.block),
         get |-> [i \in 0 .. Len(s) - 1 |-> prim_string_get(x.block, Val_long(i))],
         cat |-> prim_string_cat(x.block, y.block),
         sub |-> prim_string_sub(x.block, Val_long(0), Val_long(Len(s))),
         make |-> [c \in ToSet(s) |-> prim_string_make(Val_long(1), Val_long(c))]]

Init ==
    /\ args \in Arguments
    /\ runtime = <<>>
    /\ wasm = <<>>
    /\ floats = <<>>
    /\ strings = <<>>

CallRuntime ==
    /\ runtime = <<>>
    /\ args.integers # {}
    /\ runtime' = [p \in args.integers |-> OnRuntime(Val_long(p[1]), Val_long(p[2]))]
    /\ UNCHANGED <<args, wasm, floats, strings>>

CallWasm ==
    /\ wasm = <<>>
    /\ args.integers # {}
    /\ wasm' = [p \in args.integers |-> OnWasm(p[1], p[2])]
    /\ UNCHANGED <<args, runtime, floats, strings>>

CallFloats ==
    /\ floats = <<>>
    /\ args.floats # {}
    /\ floats' = [p \in args.floats |-> OnFloats(p[1], p[2])]
    /\ UNCHANGED <<args, runtime, wasm, strings>>

CallStrings ==
    /\ strings = <<>>
    /\ args.strings # {}
    /\ strings' = [p \in args.strings |-> OnStrings(p[1], p[2])]
    /\ UNCHANGED <<args, runtime, wasm, floats>>

Next == CallRuntime \/ CallWasm \/ CallFloats \/ CallStrings

Spec == Init /\ [][Next]_vars

-----------------------------------------------------------------------------
\* The names of `meaning` have in `results` the meaning it gives them, when
\* `word` represents integers and constructors.
Means(results, meaning, word(_)) ==
    \A op \in DOMAIN meaning : results[op] = word(meaning[op])

Plain(n) == n
Pair(p, word(_)) == <<word(p[1]), word(p[2])>>
\* The constructor is in the header, the integer in the field.
Boxed(c) == <<c[1], Val_long(c[2])>>

\* The C primitives that do not depend on the order of unsigned tagged words
\* compute what Rocq says, signed division and comparisons included.
RuntimeArithmetic == \A p \in DOMAIN runtime :
    LET r == runtime[p] IN
    /\ Means(r, Rocq!Arithmetic(p[1], p[2]), Val_long)
    /\ Means(r, Rocq!SignedOperations(p[1], p[2]), Val_long)
    /\ r.eqb = Val_long(Rocq!Comparisons(p[1], p[2]).eqb)
    /\ r.compare = Val_long(Rocq!Comparisons(p[1], p[2]).compare)
    /\ r.diveucl = Pair(Rocq!Diveucl(p[1], p[2]), Val_long)

\* The binary searches of leading and trailing zeros and the double-word
\* shift of the C runtime are right at every width, at 0 and at the boundary.
RuntimeBits == \A p \in DOMAIN runtime :
    /\ Means(runtime[p], Rocq!Zeros(p[1]), Val_long)
    /\ \A n \in Shifts :
           runtime[p].addmuldiv[n] = Val_long(Rocq!Addmuldiv(n, p[1], p[2]))

\* The product by halves loses no carry when a factor has its upper bit clear
\* (the precondition stated above mulc_aux).
RuntimeProducts == \A p \in DOMAIN runtime :
    2 * p[1] < Base \/ 2 * p[2] < Base =>
        runtime[p].mulc = Pair(Rocq!Mulc(p[1], p[2]), Val_long)

\* The integer primitives of the C runtime, but for the claims that are
\* refuted below.
RuntimeRight == RuntimeArithmetic /\ RuntimeBits /\ RuntimeProducts

\* Everything the WebAssembly backend translates computes what Rocq says,
\* carries and products included.
WasmRight == \A p \in DOMAIN wasm :
    LET r == wasm[p]
        x == p[1]
        y == p[2]
    IN
    /\ Means(r, Rocq!Arithmetic(x, y), Plain)
    /\ Means(r, Rocq!Comparisons(x, y), Plain)
    /\ Means(r, Rocq!Carries(x, y), Plain)
    /\ Means(r, Rocq!Zeros(x), Plain)
    /\ r.mulc = Rocq!Mulc(x, y)
    /\ r.diveucl = Rocq!Diveucl(x, y)
    /\ \A n \in Shifts : r.addmuldiv[n] = Rocq!Addmuldiv(n, x, y)

-----------------------------------------------------------------------------
Finite(u) == Magnitude(u) < INFINITY
Ordered == {Order(w) : w \in {w \in Words : ~IsNan(w)}}

\* The next float is the least one above, through both zeros and to both
\* infinities, which next_up and next_down compute on the bits.
NextFloats == \A p \in DOMAIN floats :
    LET u == p[1]
        up == floats[p].next_up
        down == floats[p].next_down
        above == {n \in Ordered : n > Order(u)}
        below == {n \in Ordered : n < Order(u)}
        ends(there) == IsNan(u) \/ there = {}
    IN  /\ IF ends(above) THEN up = u ELSE ~IsNan(up) /\ Order(up) = Min(above)
        /\ IF ends(below) THEN down = u ELSE ~IsNan(down) /\ Order(down) = Max(below)

\* A float is its mantissa times a power of 2: what frshiftexp and
\* normfr_mantissa take apart has the value of the float, subnormal ones
\* included, with a mantissa of all its bits and an exponent that is not
\* negative.  Rocq computes the floats of its specification from the two.
Decomposed == \A p \in DOMAIN floats :
    LET u == p[1]
        m == floats[p].normfr_mantissa
        e == floats[p].frshiftexp[2]
    IN  Finite(u) /\ ~IsZero(u) =>
            /\ m \in 2^MW .. 2^prec - 1
            /\ e >= 0
            /\ Negative(floats[p].frshiftexp[1]) <=> Negative(u)
            /\ Units(Magnitude(u)) * 2^MW = m * 2^(e - eshift + emax - 3 + MW)

\* Two floats are equal when they are the same, zeros of both signs told apart
\* and NaNs not.
Identity == \A p \in DOMAIN floats :
    floats[p].equal <=> p[1] = p[2] \/ (IsNan(p[1]) /\ IsNan(p[2]))

\* The float primitives that work on bits, on classes and on exponents.
FloatsRight == NextFloats /\ Decomposed /\ Identity

\* The layout of OCaml's strings: whole words, zeros after the characters, and
\* in the last byte how many.
Filled(s) ==
    LET size == WordBytes * (Len(s) \div WordBytes + 1)
        zeros == size - 1 - Len(s)
    IN  s \o [k \in 1 .. zeros |-> 0] \o <<zeros>>

\* A string of C, the literal that generated code stores and what is
\* concatenated have the same bytes for the same string, of which length and
\* get give back the characters (those of ASCII), and a block from C or a
\* literal takes as many words as it has.
StringsRight == \A p \in DOMAIN strings :
    LET r == strings[p]
        s == p[1]
    IN  /\ r.x.block = Filled(s)
        /\ r.literal.block = r.x.block
        /\ r.cat.block = Filled(s \o p[2])
        /\ r.length = Val_long(Len(s))
        /\ \A i \in DOMAIN r.get : s[i + 1] < 128 => r.get[i] = Val_long(s[i + 1])
        /\ WordsOf(r.x.block) = r.x.asked
        /\ WordsOf(r.x.block) = r.x.taken
        /\ WordsOf(r.x.block) = r.literal.taken

-----------------------------------------------------------------------------
(* What a comment, an assertion, a trace or a test says of the primitives,  *)
(* and the C runtime does not do.                                           *)

\* "x * y = x << 62 + h << 63 + l": the product of any two integers.
ProductOfAny == \A p \in DOMAIN runtime :
    runtime[p].mulc = Pair(Rocq!Mulc(p[1], p[2]), Val_long)

\* "addc2 := 9223372036854775807 +c 2. (* = C1 1 *)"
CarriesSeen == \A p \in DOMAIN runtime :
    LET meant == Rocq!Carries(p[1], p[2])
    IN  \A op \in DOMAIN meant : runtime[p][op] = Boxed(meant[op])

\* leb and ltb compare unsigned integers.
ComparedUnsigned == \A p \in DOMAIN runtime :
    Means(runtime[p], Rocq!Comparisons(p[1], p[2]), Val_long)

\* compares is the "Signed comparison".
ComparedSigned == \A p \in DOMAIN runtime :
    runtime[p].compares = Val_long(Rocq!SignedCompare(p[1], p[2]))

\* "Comparing floats: %f and %f": their values.
ComparedByValue == \A p \in DOMAIN floats :
    floats[p].compare = Ordering(Less(p[1], p[2]), Less(p[2], p[1]), Same(p[1], p[2]))

\* "assert (words <= $limit - $alloc)" leaves room for the block that is
\* written, and the words that alloc goes over are those of the block.
RoomForBlock(new) == WordsOf(new.block) <= new.asked /\ WordsOf(new.block) <= new.taken
RoomForStrings == \A p \in DOMAIN strings :
    /\ RoomForBlock(strings[p].cat)
    /\ RoomForBlock(strings[p].sub)
    /\ \A c \in DOMAIN strings[p].make : RoomForBlock(strings[p].make[c])

\* "we're concatenating each char": make 1 c is the string of one c.
OneCharacter == \A p \in DOMAIN strings : \A c \in DOMAIN strings[p].make :
    strings[p].make[c].block = Filled(<<c>>)

\* One of these is as it is said to be, in a program that makes all calls.
\* Weaker than each of them: the state that refutes it refutes them all.
SomeAsDocumented ==
    runtime # <<>> /\ floats # <<>> /\ strings # <<>> =>
        \/ ProductOfAny
        \/ CarriesSeen
        \/ ComparedUnsigned
        \/ ComparedSigned
        \/ ComparedByValue
        \/ RoomForStrings
        \/ OneCharacter
=============================================================================
