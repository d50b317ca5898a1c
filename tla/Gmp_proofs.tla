----------------------------- MODULE Gmp_proofs -----------------------------
(* The numbers of certirocq_gmp.c are the integers GmpNumbers promises,      *)
(* wherever the boundary between small and large ones is.                    *)
EXTENDS Gmp, TLAPS

-----------------------------------------------------------------------------
\* A number written as a multiple and a rest.
LEMMA Quotient ==
    ASSUME NEW m \in Nat \ {0}, NEW k \in Int, NEW r \in Nat, r < m
    PROVE  (k * m + r) % m = r
<1>1. k * m \in Int
  OBVIOUS
<1> QED
  BY <1>1

\* What tagging does: nothing to a small integer, and the next integer after
\* the largest becomes the smallest.
LEMMA Tagged ==
    /\ \A n \in Small : Val_long(n) \in Values /\ Val_long(n).n = n
    /\ Val_long(Max_long + 1) \in Values /\ Val_long(Max_long + 1).n = Min_long
<1> DEFINE m == 2 * (Max_long + 1)
<1>1. m \in Nat \ {0} /\ Min_long \in Int /\ Max_long \in Nat
  BY MaxAssumption DEF Min_long
<1>2. ASSUME NEW n \in Small PROVE Wrap(n) = n
  <2>1. n - Min_long \in Nat /\ n - Min_long < m /\ 0 * m + (n - Min_long) = n - Min_long
    BY <1>1 DEF Small, Min_long
  <2>2. (n - Min_long) % m = n - Min_long
    BY <1>1, <2>1, Quotient
  <2> QED BY <1>1, <2>1, <2>2 DEF Wrap, Small
<1>3. Wrap(Max_long + 1) = Min_long
  <2>1. Max_long + 1 - Min_long = 1 * m + 0
    BY <1>1 DEF Min_long
  <2>2. (Max_long + 1 - Min_long) % m = 0
    BY <1>1, <2>1, Quotient
  <2> QED BY <1>1, <2>2 DEF Wrap
<1>4. Min_long \in Small
  BY <1>1 DEF Small, Min_long
<1> QED
  BY <1>2, <1>3, <1>4 DEF Val_long, Values

\* Whatever is tagged, the word holds an integer that fits in it.
LEMMA TaggedInRange == \A n \in Int : Val_long(n) \in Values
<1> SUFFICES ASSUME NEW n \in Int PROVE Val_long(n) \in Values
  OBVIOUS
<1> DEFINE m == 2 * (Max_long + 1)
<1>1. m \in Nat \ {0} /\ Min_long \in Int /\ n - Min_long \in Int /\ m = Max_long - Min_long + 1
  BY MaxAssumption DEF Min_long
<1>2. (n - Min_long) % m \in 0 .. m - 1
  <2> HIDE DEF m
  <2> QED BY <1>1
<1>3. Wrap(n) \in Small
  BY <1>1, <1>2, MaxAssumption DEF Wrap, Small
<1> QED
  BY <1>3 DEF Val_long, Values

\* A number in a block is any integer.
LEMMA InBlock == \A n \in Int : mk_gmp_int(n) \in Values /\ mk_gmp_int(n).n = n
BY DEF mk_gmp_int, Values

\* A value is small, in the range of tagged words, or in a block.
LEMMA Representations ==
    ASSUME NEW x \in Values
    PROVE  /\ x.n \in Int
           /\ x.big \in BOOLEAN
           /\ Is_long(x) => x.n \in Small
<1>1. CASE x \in [big : {FALSE}, n : Small]
  <2>1. x.big = FALSE /\ x.n \in Small
    BY <1>1
  <2>2. x.n \in Int
    BY <2>1, MaxAssumption DEF Small, Min_long
  <2> QED BY <2>1, <2>2 DEF Is_long
<1>2. CASE x \in [big : {TRUE}, n : Int]
  <2>1. x.big = TRUE /\ x.n \in Int
    BY <1>2
  <2> QED BY <2>1 DEF Is_long
<1> QED
  BY <1>1, <1>2 DEF Values

-----------------------------------------------------------------------------
\* Division toward 0: the quotient leaves a rest, which the remainder is.
LEMMA Truncation ==
    ASSUME NEW n \in Int, NEW m \in Int \ {0}
    PROVE  /\ Quot(n, m) \in Int /\ Rem(n, m) \in Int
           /\ Numbers!Rest(n - Quot(n, m) * m, n, m)
           /\ Numbers!Rest(Rem(n, m), n, m)
           /\ (n - Rem(n, m)) % Numbers!Abs(m) = 0
           /\ Abs(Quot(n, m)) <= Abs(n)
           /\ Abs(Quot(n, m)) = Abs(n) /\ n # 0 => Abs(m) = 1
           /\ Abs(Rem(n, m)) <= Abs(n)
<1> DEFINE a == Abs(n)
           b == Abs(m)
<1>1. a \in Nat /\ b \in Nat \ {0}
  BY DEF Abs
<1>2. PICK q \in Nat, r \in Nat : a \div b = q /\ a % b = r /\ a = q * b + r /\ r < b
  <2> HIDE DEF a, b
  <2>1. a \div b \in Nat /\ a % b \in Nat /\ a = (a \div b) * b + (a % b) /\ a % b < b
    BY <1>1
  <2> QED BY <2>1
<1>3. q * b \in Nat /\ q <= q * b
  <2> HIDE DEF a, b
  <2>1. PICK c \in Nat : b = c + 1
    <3>1. b - 1 \in Nat /\ b = b - 1 + 1
      BY <1>1
    <3> QED BY <3>1
  <2>2. q * b = q * c + q /\ q * c \in Nat
    BY <2>1
  <2> QED BY <2>1, <2>2
<1>4. q = a /\ a # 0 => b = 1
  <2> SUFFICES ASSUME q = a, a # 0 PROVE b = 1
    OBVIOUS
  <2> HIDE DEF a, b
  <2>1. q * b <= q /\ q > 0
    BY <1>1, <1>2, <1>3
  <2>2. CASE b >= 2
    <3>1. PICK c \in Nat : b = c + 2
      <4>1. b - 2 \in Nat /\ b = b - 2 + 2
        BY <1>1, <2>2
      <4> QED BY <4>1
    <3>2. q * b = q * c + 2 * q /\ q * c \in Nat
      BY <3>1
    <3> QED BY <2>1, <3>2
  <2> QED BY <1>1, <2>2
<1>5. Quot(n, m) = (IF (n < 0) = (m < 0) THEN q ELSE -q)
  BY <1>2 DEF Quot
<1>6. Rem(n, m) = (IF n < 0 THEN -r ELSE r)
  BY <1>2 DEF Rem
<1>7. (q * b) % b = 0 /\ (-(q * b)) % b = 0
  <2> HIDE DEF a, b
  <2>1. q * b = q * b + 0 /\ -(q * b) = (-q) * b + 0
    BY <1>1, <1>2
  <2>2. (q * b + 0) % b = 0 /\ ((-q) * b + 0) % b = 0
    BY <1>1, <1>2, Quotient
  <2> QED BY <2>1, <2>2
<1>8. n - Quot(n, m) * m = (IF n < 0 THEN -r ELSE r)
  <2>1. CASE n < 0 /\ m < 0
    <3>1. n = -a /\ m = -b /\ Quot(n, m) = q
      BY <1>5, <2>1 DEF Abs
    <3>2. q * (-b) = -(q * b)
      BY <1>1
    <3>3. -a - -(q * b) = -r
      BY <1>1, <1>2, <1>3
    <3> QED BY <2>1, <3>1, <3>2, <3>3
  <2>2. CASE n < 0 /\ m > 0
    <3>1. n = -a /\ m = b /\ Quot(n, m) = -q
      BY <1>5, <2>2 DEF Abs
    <3>2. (-q) * b = -(q * b)
      BY <1>1
    <3>3. -a - -(q * b) = -r
      BY <1>1, <1>2, <1>3
    <3> QED BY <2>2, <3>1, <3>2, <3>3
  <2>3. CASE n >= 0 /\ m < 0
    <3>1. n = a /\ m = -b /\ Quot(n, m) = -q
      BY <1>5, <2>3 DEF Abs
    <3>2. (-q) * (-b) = q * b
      BY <1>1
    <3>3. a - q * b = r
      BY <1>1, <1>2, <1>3
    <3> QED BY <2>3, <3>1, <3>2, <3>3
  <2>4. CASE n >= 0 /\ m > 0
    <3>1. n = a /\ m = b /\ Quot(n, m) = q
      BY <1>5, <2>4 DEF Abs
    <3>2. a - q * b = r
      BY <1>1, <1>2, <1>3
    <3> QED BY <2>4, <3>1, <3>2
  <2> QED BY <2>1, <2>2, <2>3, <2>4
<1>9. Numbers!Rest(IF n < 0 THEN -r ELSE r, n, m)
  BY <1>2 DEF Numbers!Rest, Numbers!Abs, Abs
<1>10. (n - Rem(n, m)) % b = 0
  <2>1. n - Rem(n, m) = q * b \/ n - Rem(n, m) = -(q * b)
    <3>1. CASE n < 0
      BY <1>2, <1>3, <1>6, <3>1 DEF Abs
    <3>2. CASE ~(n < 0)
      BY <1>2, <1>3, <1>6, <3>2 DEF Abs
    <3> QED BY <3>1, <3>2
  <2> QED BY <1>7, <2>1
<1>11. Abs(Quot(n, m)) = q /\ Abs(Rem(n, m)) = r
  BY <1>5, <1>6 DEF Abs
<1>12. q <= a /\ r <= a
  <2> HIDE DEF a, b
  <2> QED BY <1>1, <1>2, <1>3
<1>13. Numbers!Abs(m) = b
  BY DEF Numbers!Abs, Abs
<1>14. n # 0 <=> a # 0
  BY DEF Abs
<1> QED
  BY <1>4, <1>5, <1>6, <1>8, <1>9, <1>10, <1>11, <1>12, <1>13, <1>14

-----------------------------------------------------------------------------
\* The value of each operation, as an integer: what GmpNumbers says of it.
LEMMA UnaryRight ==
    ASSUME NEW x \in Values
    PROVE  /\ z_succ(x) \in Values /\ z_succ(x).n = x.n + 1
           /\ z_pred(x) \in Values /\ z_pred(x).n = x.n - 1
           /\ z_nat_pred(x) \in Values
           /\ x.n >= 0 => z_nat_pred(x).n = IF x.n = 0 THEN 0 ELSE x.n - 1
           /\ ~z_absTraps(x) => z_abs(x) \in Values /\ z_abs(x).n = Abs(x.n)
           /\ z_neg(x) \in Values
           /\ z_neg(x).n = -x.n \/ (x.n = Min_long /\ z_neg(x).n = Min_long)
           /\ z_lognot(x) \in Values /\ z_lognot(x).n = -x.n - 1
<1> USE MaxAssumption, Representations, Tagged, InBlock DEF Min_long
<1>1. z_succ(x) \in Values /\ z_succ(x).n = x.n + 1
  BY DEF z_succ, Small
<1>2. z_pred(x) \in Values /\ z_pred(x).n = x.n - 1
  BY DEF z_pred, Small
<1>3. /\ z_nat_pred(x) \in Values
      /\ x.n >= 0 => z_nat_pred(x).n = IF x.n = 0 THEN 0 ELSE x.n - 1
  <2>1. CASE x.n = 0
    BY <2>1 DEF z_nat_pred
  <2>2. CASE ~Is_long(x)
    BY <2>2 DEF z_nat_pred
  <2>3. CASE Is_long(x) /\ x.n > 0
    BY <2>3 DEF z_nat_pred, Small
  <2>4. CASE Is_long(x) /\ x.n < 0
    <3>1. z_nat_pred(x) = Val_long(x.n - 1)
      BY <2>4 DEF z_nat_pred
    <3>2. Val_long(x.n - 1) \in Values
      BY <2>4, TaggedInRange
    <3> QED BY <2>4, <3>1, <3>2
  <2> QED BY <2>1, <2>2, <2>3, <2>4
<1>4. ~z_absTraps(x) => z_abs(x) \in Values /\ z_abs(x).n = Abs(x.n)
  BY DEF z_abs, z_absTraps, Small, Abs
<1>5. /\ z_neg(x) \in Values
      /\ z_neg(x).n = -x.n \/ (x.n = Min_long /\ z_neg(x).n = Min_long)
  <2>1. CASE Is_long(x) /\ x.n = Min_long
    <3>1. z_neg(x) = Val_long(Max_long + 1)
      BY <2>1 DEF z_neg
    <3> QED BY <2>1, <3>1
  <2>2. CASE Is_long(x) /\ x.n # Min_long
    BY <2>2 DEF z_neg, Small
  <2>3. CASE ~Is_long(x)
    BY <2>3 DEF z_neg
  <2> QED BY <2>1, <2>2, <2>3
<1>6. z_lognot(x) \in Values /\ z_lognot(x).n = -x.n - 1
  BY DEF z_lognot, Small
<1> QED
  BY <1>1, <1>2, <1>3, <1>4, <1>5, <1>6

\* What the operations of two numbers return, in whichever form they are.
LEMMA BinaryRight ==
    ASSUME NEW x \in Values, NEW y \in Values
    PROVE  /\ z_add(x, y) \in Values /\ z_add(x, y).n = x.n + y.n
           /\ z_sub(x, y) \in Values /\ z_sub(x, y).n = x.n - y.n
           /\ z_mul(x, y) \in Values /\ z_mul(x, y).n = x.n * y.n
           /\ z_max(x, y) \in Values /\ z_max(x, y).n = IF x.n > y.n THEN x.n ELSE y.n
           /\ z_min(x, y) \in Values /\ z_min(x, y).n = IF x.n < y.n THEN x.n ELSE y.n
           /\ z_compare(x, y) \in Numbers!Orders(x.n, y.n)
<1> USE Representations, Tagged, InBlock
<1>1. \A n \in Int : Fitting(x, y, n) \in Values /\ Fitting(x, y, n).n = n
  BY DEF Fitting
<1>2. x.n + y.n \in Int /\ x.n - y.n \in Int /\ x.n * y.n \in Int
  OBVIOUS
<1> QED
  BY <1>1, <1>2
  DEF z_add, z_sub, z_mul, z_max, z_min, z_compare, Numbers!Orders

\* The quotient and the remainder, with the one quotient that does not fit.
LEMMA DivideRight ==
    ASSUME NEW x \in Values, NEW y \in Values, y.n # 0
    PROVE  /\ z_div(x, y) \in Values
           /\ \/ Numbers!Rest(x.n - z_div(x, y).n * y.n, x.n, y.n)
              \/ x.n = Min_long /\ y.n = -1 /\ z_div(x, y).n = Min_long
           /\ z_rem(x, y) \in Values
           /\ Numbers!Rest(z_rem(x, y).n, x.n, y.n)
           /\ (x.n - z_rem(x, y).n) % Numbers!Abs(y.n) = 0
<1> DEFINE q == Quot(x.n, y.n)
           r == Rem(x.n, y.n)
<1>1. x.n \in Int /\ y.n \in Int \ {0}
  BY Representations
<1>2. /\ q \in Int /\ r \in Int
      /\ Numbers!Rest(x.n - q * y.n, x.n, y.n)
      /\ Numbers!Rest(r, x.n, y.n)
      /\ (x.n - r) % Numbers!Abs(y.n) = 0
      /\ Abs(q) <= Abs(x.n)
      /\ Abs(q) = Abs(x.n) /\ x.n # 0 => Abs(y.n) = 1
      /\ Abs(r) <= Abs(x.n)
  BY <1>1, Truncation
<1>3. CASE ~Longs(x, y)
  BY <1>2, <1>3, InBlock DEF z_div, z_rem
<1>4. CASE Longs(x, y)
  <2>1. x.n \in Small /\ y.n \in Small /\ Max_long \in Nat /\ Min_long = -Max_long - 1
    BY <1>4, Representations, MaxAssumption DEF Longs, Min_long
  <2>2. z_div(x, y) = Val_long(q) /\ z_rem(x, y) = Val_long(r)
    BY <1>4 DEF z_div, z_rem
  <2>3. r \in Small
    <3>1. r # Max_long + 1
      BY <1>1, <1>2, <2>1 DEF Rem, Abs, Small
    <3> HIDE DEF r
    <3> QED BY <1>1, <1>2, <2>1, <3>1 DEF Abs, Small
  <2>4. q \in Small \/ (q = Max_long + 1 /\ x.n = Min_long /\ y.n = -1)
    <3>1. q = Max_long + 1 => x.n = Min_long /\ Abs(y.n) = 1
      <4> HIDE DEF q
      <4> QED BY <1>1, <1>2, <2>1 DEF Abs, Small
    <3>2. q = Max_long + 1 => y.n < 0
      <4> DEFINE w == Abs(x.n) \div Abs(y.n)
      <4>1. Abs(x.n) \in Nat /\ Abs(y.n) \in Nat \ {0}
        BY <1>1 DEF Abs
      <4>2. w \in Nat
        BY <4>1
      <4>3. x.n < 0 /\ y.n > 0 => q = -w
        BY <1>1 DEF Quot
      <4> HIDE DEF q, w
      <4> QED BY <1>1, <1>2, <2>1, <3>1, <4>2, <4>3 DEF Abs
    <3>3. q # Max_long + 1 => q \in Small
      <4> HIDE DEF q
      <4> QED BY <1>1, <1>2, <2>1 DEF Abs, Small
    <3> HIDE DEF q
    <3> QED BY <1>1, <3>1, <3>2, <3>3 DEF Abs
  <2> HIDE DEF q, r
  <2> QED BY <1>2, <2>1, <2>2, <2>3, <2>4, Tagged
<1> QED
  BY <1>3, <1>4

-----------------------------------------------------------------------------
\* A call that returns x changes the integer of d and of nothing else.
LEMMA Returns ==
    ASSUME TypeOK, NEW c, NEW d \in Regs, NEW x \in Values, Return(c, d, x)
    PROVE  TypeOK' /\ Numbers!Changed(c, d) /\ integers'[d] = x.n
<1>1. reg' \in [Regs -> Values] /\ reg'[d] = x
  BY DEF TypeOK, Return
<1>2. \A r \in Regs : reg'[r].n \in Int
  BY <1>1, Representations
<1>3. \A r \in Regs \ {d} : reg'[r] = reg[r]
  BY DEF TypeOK, Return
<1> QED
  BY <1>1, <1>2, <1>3 DEF TypeOK, Return, Numbers!Changed, integers

\* The same, of a call that returns a number and no answer.
LEMMA Puts ==
    ASSUME TypeOK, NEW c, NEW d \in Regs, NEW x \in Values, Store(c, d, x)
    PROVE  TypeOK' /\ Numbers!Put(c, d, x.n)
BY Returns DEF Store, Numbers!Put

\* What each action does to the integers is what the operation of GmpNumbers
\* of the same name does, and no type changes.
LEMMA UnaryStep ==
    ASSUME TypeOK, NEW d \in Regs, NEW s \in Regs
    PROVE  /\ Succ(d, s) => TypeOK' /\ Numbers!succ(d, s)
           /\ Pred(d, s) => TypeOK' /\ Numbers!pred(d, s)
           /\ NatPred(d, s) => TypeOK' /\ Numbers!nat_pred(d, s)
           /\ NatCase(d, s) => TypeOK' /\ Numbers!nat_case(d, s)
           /\ AbsOf(d, s) => TypeOK' /\ Numbers!abs(d, s)
           /\ Neg(d, s) => TypeOK' /\ Numbers!neg(d, s)
           /\ LogNot(d, s) => TypeOK' /\ Numbers!lognot(d, s)
<1> DEFINE x == reg[s]
<1>1. x \in Values /\ integers[s] = x.n /\ x.n \in Int
  BY Representations DEF TypeOK, integers
<1> HIDE DEF x
<1>2. Succ(d, s) => TypeOK' /\ Numbers!succ(d, s)
  <2>1. z_succ(x) \in Values /\ z_succ(x).n = x.n + 1
    BY <1>1, UnaryRight
  <2>2. Succ(d, s) => Store(<<"succ", d, s>>, d, z_succ(x))
    BY DEF Succ, x
  <2> QED BY <1>1, <2>1, <2>2, Puts DEF Numbers!succ
<1>3. Pred(d, s) => TypeOK' /\ Numbers!pred(d, s)
  <2>1. z_pred(x) \in Values /\ z_pred(x).n = x.n - 1
    BY <1>1, UnaryRight
  <2>2. Pred(d, s) => Store(<<"pred", d, s>>, d, z_pred(x))
    BY DEF Pred, x
  <2> QED BY <1>1, <2>1, <2>2, Puts DEF Numbers!pred
<1>4. NatPred(d, s) => TypeOK' /\ Numbers!nat_pred(d, s)
  <2>1. z_nat_pred(x) \in Values /\ (x.n >= 0 => z_nat_pred(x).n = IF x.n = 0 THEN 0 ELSE x.n - 1)
    BY <1>1, UnaryRight
  <2>2. NatPred(d, s) => Return(<<"nat_pred", d, s>>, d, z_nat_pred(x)) /\ UNCHANGED answer
    BY DEF NatPred, Store, x
  <2> QED BY <1>1, <2>1, <2>2, Returns DEF Numbers!nat_pred, Numbers!NatPredOf
<1>5. NatCase(d, s) => TypeOK' /\ Numbers!nat_case(d, s)
  <2> DEFINE arg == IF z_is_zero(x) THEN x ELSE z_nat_pred(x)
  <2>1. arg \in Values /\ (x.n >= 0 => arg.n = IF x.n = 0 THEN 0 ELSE x.n - 1)
    BY <1>1, UnaryRight DEF z_is_zero
  <2> HIDE DEF arg
  <2>2. NatCase(d, s) => Return(<<"nat_case", d, s>>, d, arg) /\ answer' = mk_bool(~z_is_zero(x))
    BY DEF NatCase, arg, x
  <2> QED
    BY <1>1, <2>1, <2>2, Returns
    DEF Numbers!nat_case, Numbers!NatPredOf, Numbers!Truth, mk_bool, z_is_zero
<1>6. AbsOf(d, s) => TypeOK' /\ Numbers!abs(d, s)
  <2>1. CASE z_absTraps(x)
    BY <1>1, <2>1 DEF AbsOf, Trap, z_absTraps, Numbers!abs, Numbers!Trap, TypeOK,
       Min_long, Numbers!Min_long, x, integers
  <2>2. CASE ~z_absTraps(x)
    <3>1. AbsOf(d, s) => Store(<<"abs", d, s>>, d, z_abs(x))
      BY <2>2 DEF AbsOf, x
    <3>2. z_abs(x) \in Values /\ z_abs(x).n = Numbers!Abs(x.n)
      BY <1>1, <2>2, UnaryRight DEF Abs, Numbers!Abs
    <3> QED BY <1>1, <3>1, <3>2, Puts DEF Numbers!abs
  <2> QED BY <2>1, <2>2
<1>7. Neg(d, s) => TypeOK' /\ Numbers!neg(d, s)
  <2>1. Neg(d, s) => Store(<<"neg", d, s>>, d, z_neg(x))
    BY DEF Neg, x
  <2>2. Min_long = Numbers!Min_long
    BY DEF Min_long, Numbers!Min_long
  <2>3. /\ z_neg(x) \in Values
        /\ z_neg(x).n = -x.n \/ (x.n = Min_long /\ z_neg(x).n = Min_long)
    BY <1>1, UnaryRight
  <2> QED BY <1>1, <2>1, <2>2, <2>3, Puts DEF Numbers!neg
<1>8. LogNot(d, s) => TypeOK' /\ Numbers!lognot(d, s)
  <2>1. z_lognot(x) \in Values /\ z_lognot(x).n = -x.n - 1
    BY <1>1, UnaryRight
  <2>2. LogNot(d, s) => Store(<<"lognot", d, s>>, d, z_lognot(x))
    BY DEF LogNot, x
  <2> QED BY <1>1, <2>1, <2>2, Puts DEF Numbers!lognot
<1> QED
  BY <1>2, <1>3, <1>4, <1>5, <1>6, <1>7, <1>8

\* The actions of two numbers do what GmpNumbers says.
LEMMA BinaryStep ==
    ASSUME TypeOK, NEW d \in Regs, NEW s \in Regs, NEW t \in Regs
    PROVE  /\ Add(d, s, t) => TypeOK' /\ Numbers!add(d, s, t)
           /\ Sub(d, s, t) => TypeOK' /\ Numbers!sub(d, s, t)
           /\ Mul(d, s, t) => TypeOK' /\ Numbers!mul(d, s, t)
           /\ Div(d, s, t) => TypeOK' /\ Numbers!div(d, s, t)
           /\ RemOf(d, s, t) => TypeOK' /\ Numbers!rem(d, s, t)
           /\ Pow(d, s, t) => TypeOK' /\ Numbers!pow(d, s, t)
           /\ MaxOf(d, s, t) => TypeOK' /\ Numbers!max(d, s, t)
           /\ MinOf(d, s, t) => TypeOK' /\ Numbers!min(d, s, t)
<1> DEFINE x == reg[s]
           y == reg[t]
<1>1. /\ x \in Values /\ integers[s] = x.n /\ x.n \in Int
      /\ y \in Values /\ integers[t] = y.n /\ y.n \in Int
  BY Representations DEF TypeOK, integers
<1> HIDE DEF x, y
<1>2. Add(d, s, t) => TypeOK' /\ Numbers!add(d, s, t)
  <2>1. z_add(x, y) \in Values /\ z_add(x, y).n = x.n + y.n
    BY <1>1, BinaryRight
  <2>2. Add(d, s, t) => Store(<<"add", d, s, t>>, d, z_add(x, y))
    BY DEF Add, x, y
  <2> QED BY <1>1, <2>1, <2>2, Puts DEF Numbers!add
<1>3. Sub(d, s, t) => TypeOK' /\ Numbers!sub(d, s, t)
  <2>1. z_sub(x, y) \in Values /\ z_sub(x, y).n = x.n - y.n
    BY <1>1, BinaryRight
  <2>2. Sub(d, s, t) => Store(<<"sub", d, s, t>>, d, z_sub(x, y))
    BY DEF Sub, x, y
  <2> QED BY <1>1, <2>1, <2>2, Puts DEF Numbers!sub
<1>4. Mul(d, s, t) => TypeOK' /\ Numbers!mul(d, s, t)
  <2>1. z_mul(x, y) \in Values /\ z_mul(x, y).n = x.n * y.n
    BY <1>1, BinaryRight
  <2>2. Mul(d, s, t) => Store(<<"mul", d, s, t>>, d, z_mul(x, y))
    BY DEF Mul, x, y
  <2> QED BY <1>1, <2>1, <2>2, Puts DEF Numbers!mul
<1>5. MaxOf(d, s, t) => TypeOK' /\ Numbers!max(d, s, t)
  <2>1. z_max(x, y) \in Values /\ z_max(x, y).n = (IF x.n > y.n THEN x.n ELSE y.n)
    BY <1>1, BinaryRight
  <2>2. MaxOf(d, s, t) => Store(<<"max", d, s, t>>, d, z_max(x, y))
    BY DEF MaxOf, x, y
  <2> QED BY <1>1, <2>1, <2>2, Puts DEF Numbers!max
<1>6. MinOf(d, s, t) => TypeOK' /\ Numbers!min(d, s, t)
  <2>1. z_min(x, y) \in Values /\ z_min(x, y).n = (IF x.n < y.n THEN x.n ELSE y.n)
    BY <1>1, BinaryRight
  <2>2. MinOf(d, s, t) => Store(<<"min", d, s, t>>, d, z_min(x, y))
    BY DEF MinOf, x, y
  <2> QED BY <1>1, <2>1, <2>2, Puts DEF Numbers!min
<1>7. ASSUME y.n = 0, NEW c, Trap(c) PROVE TypeOK' /\ Numbers!Trap(c)
  BY <1>7 DEF Trap, Numbers!Trap, TypeOK, integers
<1>8. Div(d, s, t) => TypeOK' /\ Numbers!div(d, s, t)
  <2>1. CASE y.n = 0
    BY <1>1, <1>7, <2>1 DEF Div, Numbers!div, y
  <2>2. CASE y.n # 0
    <3>1. Div(d, s, t) => Return(<<"div", d, s, t>>, d, z_div(x, y)) /\ UNCHANGED answer
      BY <2>2 DEF Div, Store, x, y
    <3>2. /\ z_div(x, y) \in Values
          /\ \/ Numbers!Rest(x.n - z_div(x, y).n * y.n, x.n, y.n)
             \/ x.n = Min_long /\ y.n = -1 /\ z_div(x, y).n = Min_long
      BY <1>1, <2>2, DivideRight
    <3>3. Min_long = Numbers!Min_long
      BY DEF Min_long, Numbers!Min_long
    <3> QED
      BY <1>1, <2>2, <3>1, <3>2, <3>3, Returns DEF Numbers!div, Numbers!Put
  <2> QED BY <2>1, <2>2
<1>9. RemOf(d, s, t) => TypeOK' /\ Numbers!rem(d, s, t)
  <2>1. CASE y.n = 0
    BY <1>1, <1>7, <2>1 DEF RemOf, Numbers!rem, y
  <2>2. CASE y.n # 0
    <3>1. RemOf(d, s, t) => Return(<<"rem", d, s, t>>, d, z_rem(x, y)) /\ UNCHANGED answer
      BY <2>2 DEF RemOf, Store, x, y
    <3>2. /\ z_rem(x, y) \in Values
          /\ Numbers!Rest(z_rem(x, y).n, x.n, y.n)
          /\ (x.n - z_rem(x, y).n) % Numbers!Abs(y.n) = 0
      BY <1>1, <2>2, DivideRight
    <3> QED
      BY <1>1, <2>2, <3>1, <3>2, Returns DEF Numbers!rem
  <2> QED BY <2>1, <2>2
<1>10. Pow(d, s, t) => TypeOK' /\ Numbers!pow(d, s, t)
  <2> SUFFICES ASSUME Pow(d, s, t) PROVE TypeOK' /\ Numbers!pow(d, s, t)
    OBVIOUS
  <2> DEFINE p == z_pow(x, y)
  <2>1. Return(<<"pow", d, s, t>>, d, p) /\ UNCHANGED answer
    BY DEF Pow, Store, x, y
  <2>2. p.n = Power(x.n, Abs(y.n)) /\ p = mk_gmp_int(p.n)
    BY DEF z_pow, mk_gmp_int
  <2>3. p.n \in Int
    BY <2>1, BoundAssumption DEF Return, Bounded
  <2>4. p \in Values
    BY <2>2, <2>3, InBlock
  <2>5. y.n >= 0 => p.n = Numbers!Power(x.n, y.n)
    BY <1>1, <2>2 DEF Power, Numbers!Power, Abs
  <2> HIDE DEF p
  <2> QED BY <1>1, <2>1, <2>4, <2>5, Returns DEF Numbers!pow
<1> QED
  BY <1>2, <1>3, <1>4, <1>5, <1>6, <1>8, <1>9, <1>10

\* So do the questions.
LEMMA QuestionStep ==
    ASSUME TypeOK, NEW s \in Regs, NEW t \in Regs
    PROVE  /\ Equal(s, t) => TypeOK' /\ Numbers!equal(s, t)
           /\ Leq(s, t) => TypeOK' /\ Numbers!leq(s, t)
           /\ Geq(s, t) => TypeOK' /\ Numbers!geq(s, t)
           /\ Lt(s, t) => TypeOK' /\ Numbers!lt(s, t)
           /\ Gt(s, t) => TypeOK' /\ Numbers!gt(s, t)
           /\ Compare(s, t) => TypeOK' /\ Numbers!compare(s, t)
<1>1. /\ reg[s] \in Values /\ integers[s] = reg[s].n
      /\ reg[t] \in Values /\ integers[t] = reg[t].n
  BY DEF TypeOK, integers
<1>2. ASSUME NEW c, NEW n, Tell(c, n) PROVE TypeOK' /\ Numbers!Say(c, n)
  BY <1>2 DEF Tell, Numbers!Say, TypeOK, integers
<1>3. Compare(s, t) => TypeOK' /\ Numbers!compare(s, t)
  <2>1. z_compare(reg[s], reg[t]) \in Numbers!Orders(reg[s].n, reg[t].n)
    BY <1>1, BinaryRight
  <2> QED BY <1>1, <1>2, <2>1 DEF Compare, Numbers!compare
<1> USE DEF mk_bool, Numbers!Truth
<1>4. Equal(s, t) => TypeOK' /\ Numbers!equal(s, t)
  BY <1>1, <1>2 DEF Equal, Numbers!equal
<1>5. Leq(s, t) => TypeOK' /\ Numbers!leq(s, t)
  BY <1>1, <1>2 DEF Leq, Numbers!leq
<1>6. Geq(s, t) => TypeOK' /\ Numbers!geq(s, t)
  BY <1>1, <1>2 DEF Geq, Numbers!geq
<1>7. Lt(s, t) => TypeOK' /\ Numbers!lt(s, t)
  BY <1>1, <1>2 DEF Lt, Numbers!lt
<1>8. Gt(s, t) => TypeOK' /\ Numbers!gt(s, t)
  BY <1>1, <1>2 DEF Gt, Numbers!gt
<1> QED
  BY <1>3, <1>4, <1>5, <1>6, <1>7, <1>8

\* So do the constants and what comes from outside.
LEMMA SourceStep ==
    ASSUME TypeOK, NEW d \in Regs
    PROVE  /\ Zero(d) => TypeOK' /\ Numbers!zero(d)
           /\ One(d) => TypeOK' /\ Numbers!one(d)
           /\ OfInt(d) => TypeOK' /\ Numbers!of_int(d)
           /\ OfString(d) => TypeOK' /\ Numbers!of_string(d)
<1> USE DEF Store
<1>1. Zero(d) => TypeOK' /\ Numbers!zero(d)
  <2>1. Val_long(0) \in Values /\ Val_long(0).n = 0
    BY Tagged, MaxAssumption DEF Small, Min_long
  <2> QED BY <2>1, Returns DEF Zero, Numbers!zero, Numbers!Put
<1>2. One(d) => TypeOK' /\ Numbers!one(d)
  <2>1. Val_long(1) \in Values /\ Val_long(1).n = 1
    BY Tagged, MaxAssumption DEF Small, Min_long
  <2> QED BY <2>1, Returns DEF One, Numbers!one, Numbers!Put
<1>3. OfInt(d) => TypeOK' /\ Numbers!of_int(d)
  <2>1. \A n \in Small : Val_long(n) \in Values /\ Val_long(n).n \in Numbers!Min_long .. Max_long
    BY Tagged DEF Small, Min_long, Numbers!Min_long
  <2> QED BY <2>1, Returns DEF OfInt, Numbers!of_int
<1>4. OfString(d) => TypeOK' /\ Numbers!of_string(d)
  <2>1. \A n \in Bounded : mk_gmp_int(n) \in Values
    BY InBlock, BoundAssumption DEF Bounded
  <2>2. Trap(<<"of_string", d>>) => TypeOK' /\ Numbers!of_string(d)
    BY DEF Trap, Numbers!Trap, Numbers!of_string, TypeOK, integers
  <2> QED BY <2>1, <2>2, Returns DEF OfString, Numbers!of_string
<1> QED
  BY <1>1, <1>2, <1>3, <1>4

\* Every step keeps the types and is a step of GmpNumbers.
LEMMA Step ==
    ASSUME TypeOK, [Next]_vars
    PROVE  TypeOK' /\ [Numbers!Next]_(Numbers!vars)
<1>1. ASSUME NEW d \in Regs, Zero(d) \/ One(d) \/ OfInt(d) \/ OfString(d)
      PROVE  TypeOK' /\ Numbers!Next
  BY <1>1, SourceStep DEF Numbers!Next
<1>2. ASSUME NEW d \in Regs, NEW s \in Regs,
             \/ Succ(d, s) \/ Pred(d, s) \/ NatPred(d, s) \/ NatCase(d, s)
             \/ AbsOf(d, s) \/ Neg(d, s) \/ LogNot(d, s)
      PROVE  TypeOK' /\ Numbers!Next
  BY <1>2, UnaryStep DEF Numbers!Next
<1>3. ASSUME NEW d \in Regs, NEW s \in Regs, NEW t \in Regs,
             \/ Add(d, s, t) \/ Sub(d, s, t) \/ Mul(d, s, t) \/ Div(d, s, t)
             \/ RemOf(d, s, t) \/ Pow(d, s, t) \/ MaxOf(d, s, t) \/ MinOf(d, s, t)
      PROVE  TypeOK' /\ Numbers!Next
  BY <1>3, BinaryStep DEF Numbers!Next
<1>4. ASSUME NEW s \in Regs, NEW t \in Regs,
             \/ Equal(s, t) \/ Leq(s, t) \/ Geq(s, t)
             \/ Lt(s, t) \/ Gt(s, t) \/ Compare(s, t)
      PROVE  TypeOK' /\ Numbers!Next
  BY <1>4, QuestionStep DEF Numbers!Next
<1>5. CASE UNCHANGED vars
  BY <1>5 DEF vars, Numbers!vars, TypeOK, integers
<1> QED
  BY <1>1, <1>2, <1>3, <1>4, <1>5 DEF Next

\* The registers hold zeros at first, as those of GmpNumbers do.
LEMMA Start == Init => TypeOK /\ Numbers!Init
<1>1. Val_long(0) \in Values /\ Val_long(0).n = 0
  BY Tagged, MaxAssumption DEF Small, Min_long
<1> QED
  BY <1>1 DEF Init, TypeOK, Numbers!Init, integers

\* No tagged word ever holds an integer that does not fit in it.
THEOREM TypeCorrect == Spec => []TypeOK
BY Start, Step, PTL DEF Spec

\* Programs compute with the integers of GmpNumbers, wherever the boundary
\* between tagged words and blocks is.
THEOREM Implements == Spec => ImplementsNumbers
BY Start, Step, TypeCorrect, PTL DEF Spec, ImplementsNumbers, Numbers!Spec
=============================================================================
