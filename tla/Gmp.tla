--------------------------------- MODULE Gmp ---------------------------------
(* The numbers of certirocq_gmp.c: a small integer is a tagged word, any      *)
(* other a block with a number of gmp in it. An operation on two small ones   *)
(* looks for what leaves the small range; when one is in a block, gmp does    *)
(* the arithmetic and the result is in a block, however small it is.          *)
EXTENDS Integers

CONSTANTS
    Regs,       \* variables of the program
    Max_long,   \* 2^62 - 1 in the code
    Bound,      \* of the integers computed with, for TLC
    Exponents   \* that pow is called with

ASSUME MaxAssumption == Max_long \in Nat \ {0}
ASSUME BoundAssumption == Bound \in Nat /\ Max_long < Bound
ASSUME ExponentsAssumption == Exponents \subseteq Int

VARIABLES
    reg,        \* the value in each variable
    call,       \* the last operation, and what it was applied to
    answer,     \* the last answer to a question, untagged
    halted      \* the process was stopped by a signal

vars == <<reg, call, answer, halted>>

Min_long == -Max_long - 1
Small == Min_long .. Max_long

\* A tagged word has one bit less than a word: what does not fit wraps (and
\* does not: a mutant).
WrapNot(n) == n
Wrap(n) == Min_long + ((n - Min_long) % (2 * (Max_long + 1)))
Val_long(n) == [big |-> FALSE, n |-> Wrap(n)]
mk_gmp_int(n) == [big |-> TRUE, n |-> n]

Values == [big : {FALSE}, n : Small] \cup [big : {TRUE}, n : Int]

Is_long(x) == ~x.big
Longs(x, y) == Is_long(x) /\ Is_long(y)

Abs(m) == IF m < 0 THEN -m ELSE m
\* Division of C and mpz_tdiv_q: toward 0.
Quot(n, m) == IF (n < 0) = (m < 0) THEN Abs(n) \div Abs(m) ELSE -(Abs(n) \div Abs(m))
Rem(n, m) == IF n < 0 THEN -(Abs(n) % Abs(m)) ELSE Abs(n) % Abs(m)

-----------------------------------------------------------------------------
z_succ(x) ==
    IF Is_long(x) /\ x.n < Max_long THEN Val_long(x.n + 1) ELSE mk_gmp_int(x.n + 1)

\* (The boundary is off by one: a mutant.)
z_predLate(x) ==
    IF Is_long(x) /\ x.n >= Min_long THEN Val_long(x.n - 1) ELSE mk_gmp_int(x.n - 1)
z_pred(x) ==
    IF Is_long(x) /\ x.n > Min_long THEN Val_long(x.n - 1) ELSE mk_gmp_int(x.n - 1)

\* A block that holds 0 is copied, the number in it is not.
z_nat_pred(x) ==
    IF Is_long(x)
    THEN IF x.n = 0 THEN x ELSE Val_long(x.n - 1)
    ELSE IF x.n = 0 THEN mk_gmp_int(x.n) ELSE mk_gmp_int(x.n - 1)

\* At Min_long the number is looked for at the address that the word is.
z_absTraps(x) == Is_long(x) /\ x.n = Min_long
z_abs(x) == IF Is_long(x) THEN Val_long(Abs(x.n)) ELSE mk_gmp_int(Abs(x.n))

z_neg(x) == IF Is_long(x) /\ x.n < Max_long THEN Val_long(-x.n) ELSE mk_gmp_int(-x.n)

z_lognot(x) == IF Is_long(x) THEN Val_long(-x.n - 1) ELSE mk_gmp_int(-x.n - 1)

\* The result of + or - as a small integer if it is one.
Fitting(x, y, n) ==
    IF Longs(x, y) /\ n \in Small THEN Val_long(n) ELSE mk_gmp_int(n)
z_add(x, y) == Fitting(x, y, x.n + y.n)
z_sub(x, y) == Fitting(x, y, x.n - y.n)

z_mul(x, y) == mk_gmp_int(x.n * y.n)

z_div(x, y) == IF Longs(x, y) THEN Val_long(Quot(x.n, y.n)) ELSE mk_gmp_int(Quot(x.n, y.n))
z_rem(x, y) == IF Longs(x, y) THEN Val_long(Rem(x.n, y.n)) ELSE mk_gmp_int(Rem(x.n, y.n))

\* mpz_get_ui drops the sign of the exponent.
Power(n, k) == IF k = 0 THEN 1 ELSE n^k
z_pow(x, y) == mk_gmp_int(Power(x.n, Abs(y.n)))

z_max(x, y) == IF x.n > y.n THEN x ELSE y
z_min(x, y) == IF x.n < y.n THEN x ELSE y

\* Small integers are compared as prim_int63_compares does, others as mpz_cmp.
z_compare(x, y) ==
    IF x.n = y.n THEN 0
    ELSE IF Longs(x, y) THEN IF x.n < y.n THEN 1 ELSE 2
    ELSE IF x.n < y.n THEN -1 ELSE 1

mk_bool(b) == IF b THEN 1 ELSE 0

-----------------------------------------------------------------------------
Init ==
    /\ reg = [r \in Regs |-> Val_long(0)]
    /\ call = <<"none">>
    /\ answer = 0
    /\ halted = FALSE

Bounded == -Bound .. Bound

\* The call c returns x, answers n, or does not return.
Return(c, d, x) ==
    /\ ~halted
    /\ call' = c
    /\ x.n \in Bounded
    /\ reg' = [reg EXCEPT ![d] = x]
    /\ UNCHANGED halted
Store(c, d, x) == Return(c, d, x) /\ UNCHANGED answer
Tell(c, n) == ~halted /\ call' = c /\ answer' = n /\ UNCHANGED <<reg, halted>>
Trap(c) == ~halted /\ call' = c /\ halted' = TRUE /\ UNCHANGED <<reg, answer>>

Zero(d) == Store(<<"zero", d>>, d, Val_long(0))
One(d) == Store(<<"one", d>>, d, Val_long(1))
OfInt(d) == \E n \in Small : Store(<<"of_int", d>>, d, Val_long(n))
\* mpz_set_str writes to a number that malloc has returned and nothing has
\* initialized: it may do so anywhere.
OfString(d) ==
    \/ \E n \in Bounded : Store(<<"of_string", d>>, d, mk_gmp_int(n))
    \/ Trap(<<"of_string", d>>)

Succ(d, s) == Store(<<"succ", d, s>>, d, z_succ(reg[s]))
Pred(d, s) == Store(<<"pred", d, s>>, d, z_pred(reg[s]))
NatPred(d, s) == Store(<<"nat_pred", d, s>>, d, z_nat_pred(reg[s]))
\* The case that is called, and what it is called with.
z_is_zero(x) == x.n = 0
NatCase(d, s) ==
    /\ Return(<<"nat_case", d, s>>, d,
              IF z_is_zero(reg[s]) THEN reg[s] ELSE z_nat_pred(reg[s]))
    /\ answer' = mk_bool(~z_is_zero(reg[s]))
AbsOf(d, s) ==
    IF z_absTraps(reg[s])
    THEN Trap(<<"abs", d, s>>)
    ELSE Store(<<"abs", d, s>>, d, z_abs(reg[s]))
Neg(d, s) == Store(<<"neg", d, s>>, d, z_neg(reg[s]))
LogNot(d, s) == Store(<<"lognot", d, s>>, d, z_lognot(reg[s]))

Add(d, s, t) == Store(<<"add", d, s, t>>, d, z_add(reg[s], reg[t]))
Sub(d, s, t) == Store(<<"sub", d, s, t>>, d, z_sub(reg[s], reg[t]))
Mul(d, s, t) == Store(<<"mul", d, s, t>>, d, z_mul(reg[s], reg[t]))
Div(d, s, t) ==
    IF reg[t].n = 0
    THEN Trap(<<"div", d, s, t>>)
    ELSE Store(<<"div", d, s, t>>, d, z_div(reg[s], reg[t]))
RemOf(d, s, t) ==
    IF reg[t].n = 0
    THEN Trap(<<"rem", d, s, t>>)
    ELSE Store(<<"rem", d, s, t>>, d, z_rem(reg[s], reg[t]))
Pow(d, s, t) ==
    /\ reg[t].n \in Exponents
    /\ Store(<<"pow", d, s, t>>, d, z_pow(reg[s], reg[t]))
MaxOf(d, s, t) == Store(<<"max", d, s, t>>, d, z_max(reg[s], reg[t]))
MinOf(d, s, t) == Store(<<"min", d, s, t>>, d, z_min(reg[s], reg[t]))

Equal(s, t) == Tell(<<"equal", s, t>>, mk_bool(reg[s].n = reg[t].n))
Leq(s, t) == Tell(<<"leq", s, t>>, mk_bool(reg[s].n <= reg[t].n))
Geq(s, t) == Tell(<<"geq", s, t>>, mk_bool(reg[s].n >= reg[t].n))
Lt(s, t) == Tell(<<"lt", s, t>>, mk_bool(reg[s].n < reg[t].n))
Gt(s, t) == Tell(<<"gt", s, t>>, mk_bool(reg[s].n > reg[t].n))
Compare(s, t) == Tell(<<"compare", s, t>>, z_compare(reg[s], reg[t]))

Next ==
    \/ \E d \in Regs : Zero(d) \/ One(d) \/ OfInt(d) \/ OfString(d)
    \/ \E d, s \in Regs :
        \/ Succ(d, s) \/ Pred(d, s) \/ NatPred(d, s) \/ NatCase(d, s)
        \/ AbsOf(d, s) \/ Neg(d, s) \/ LogNot(d, s)
    \/ \E d, s, t \in Regs :
        \/ Add(d, s, t) \/ Sub(d, s, t) \/ Mul(d, s, t) \/ Div(d, s, t)
        \/ RemOf(d, s, t) \/ Pow(d, s, t) \/ MaxOf(d, s, t) \/ MinOf(d, s, t)
    \/ \E s, t \in Regs :
        Equal(s, t) \/ Leq(s, t) \/ Geq(s, t) \/ Lt(s, t) \/ Gt(s, t) \/ Compare(s, t)

Spec == Init /\ [][Next]_vars

-----------------------------------------------------------------------------
\* No tagged word holds an integer that does not fit in one.
TypeOK ==
    /\ reg \in [Regs -> Values]
    /\ halted \in BOOLEAN

\* The integers that the variables stand for.
integers == [r \in Regs |-> reg[r].n]

Numbers == INSTANCE GmpNumbers WITH z <- integers

\* Whatever is small and whatever is in a block, the integers are those that
\* the operations give, but for the edges GmpNumbers names.
ImplementsNumbers == Numbers!Spec
=============================================================================
