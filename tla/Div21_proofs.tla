---------------------------- MODULE Div21_proofs ----------------------------
(* The division of the C runtime is right at every width: Div21 implements  *)
(* the comment above prim_int63_diveucl_21_long, for any SIZE.              *)
EXTENDS Div21, TLAPS

\* What is known of the low word during the loop: hi is the part of xl that
\* has been brought down, lo the part to come.
Split(hi, lo) ==
    /\ lo < Pow2[SIZE - i]
    /\ hi < Pow2[i]
    /\ xl = hi * Pow2[SIZE - i] + lo
    /\ nl = lo * Pow2[i]
    /\ q * y + nh = xh * Pow2[i] + hi

LoopInv ==
    /\ xh < y
    /\ nh < y
    /\ q < Pow2[i]
    /\ Pow2[i] * Pow2[SIZE - i] = Base
    /\ \E hi, lo \in Nat : Split(hi, lo)

IInv ==
    /\ TypeOK
    /\ pc = "call" => nh = 0 /\ nl = 0 /\ q = 0 /\ i = 0
    /\ pc = "loop" => LoopInv
    /\ DivisionRight

-----------------------------------------------------------------------------
\* The base of the integers is an even natural number, twice the weight of
\* the upper bit.
LEMMA Bases ==
    /\ Base \in Nat \ {0}
    /\ Pow2[SIZE - 1] \in Nat \ {0}
    /\ Base = 2 * Pow2[SIZE - 1]
<1>1. SIZE \in 0 .. SIZE /\ SIZE - 1 \in 0 .. SIZE - 1 /\ SIZE - 1 \in 0 .. SIZE
  BY SizeAssumption
<1>2. Pow2[SIZE - 1 + 1] = 2 * Pow2[SIZE - 1]
  BY <1>1, Pow2Assumption
<1>3. SIZE - 1 + 1 = SIZE
  BY SizeAssumption
<1> QED
  BY <1>1, <1>2, <1>3, Pow2Assumption DEF Base

\* A product of naturals is a natural, and grows with its factors.
LEMMA ProductGrows ==
    ASSUME NEW a \in Nat, NEW b \in Nat, NEW c \in Nat, a <= b
    PROVE  a * c <= b * c /\ a * c \in Nat /\ b * c \in Nat
<1> PICK d \in Nat : b = a + d
  <2>1. b - a \in Nat /\ b = a + (b - a)
    OBVIOUS
  <2> QED BY <2>1
<1>1. b * c = a * c + d * c
  OBVIOUS
<1>2. a * c \in Nat /\ d * c \in Nat
  OBVIOUS
<1> QED
  BY <1>1, <1>2

\* A word that is less than twice n, shifted down by n and masked by n.
LEMMA DivMod ==
    ASSUME NEW n \in Nat \ {0}, NEW a \in Nat, a < 2 * n
    PROVE  /\ a \div n = IF a >= n THEN 1 ELSE 0
           /\ a % n = IF a >= n THEN a - n ELSE a
<1>1. CASE a >= n
  <2>1. a = n * 1 + (a - n) /\ 0 <= a - n /\ a - n < n
    BY <1>1
  <2> QED BY <1>1, <2>1
<1>2. CASE a < n
  <2>1. a = n * 0 + a /\ 0 <= a
    OBVIOUS
  <2> QED BY <1>2, <2>1
<1> QED BY <1>1, <1>2

-----------------------------------------------------------------------------
\* The low word loses its upper bit, which is the next bit of xl: P is the
\* weight of what was brought down, L the weight of the next bit.
LEMMA LowTurn ==
    ASSUME NEW P \in Nat \ {0}, NEW L \in Nat \ {0}, NEW H \in Nat \ {0},
           P * L = H,
           NEW lo \in Nat, lo < 2 * L,
           NEW bit \in {0, 1}, bit = 1 <=> lo >= L
    PROVE  /\ lo * P \in Nat
           /\ lo * P < 2 * H
           /\ lo * P >= H <=> bit = 1
           /\ 2 * (lo * P) - bit * (2 * H) = (lo - bit * L) * (2 * P)
           /\ lo - bit * L \in 0 .. L - 1
           /\ 2 * (lo * P) - bit * (2 * H) \in 0 .. 2 * H - 1
<1> DEFINE low == lo * P
           rest == lo - bit * L
<1>1. bit \in {0, 1} /\ rest \in 0 .. L - 1 /\ lo = rest + bit * L
  <2>1. CASE lo >= L
    BY <2>1
  <2>2. CASE ~(lo >= L)
    BY <2>2
  <2> QED BY <2>1, <2>2
<1>2. low = rest * P + bit * H
  <2>1. CASE bit = 0
    BY <1>1, <2>1
  <2>2. CASE bit = 1
    <3>1. (rest + L) * P = rest * P + L * P
      BY <1>1
    <3>2. L * P = H
      OBVIOUS
    <3> QED BY <1>1, <2>2, <3>1, <3>2
  <2> QED BY <1>1, <2>1, <2>2
<1>3. rest * P \in 0 .. H - 1
  <2>1. rest * P <= (L - 1) * P /\ rest * P \in Nat
    BY <1>1, ProductGrows
  <2>2. (L - 1) * P = L * P - P
    OBVIOUS
  <2>3. L * P = H
    OBVIOUS
  <2> QED BY <1>1, <2>1, <2>2, <2>3
<1>4. low \in Nat /\ low < 2 * H /\ (low >= H <=> bit = 1)
  <2>1. CASE bit = 0
    BY <1>2, <1>3, <2>1
  <2>2. CASE bit = 1
    BY <1>2, <1>3, <2>2
  <2> QED BY <1>1, <2>1, <2>2
<1>5. 2 * low - bit * (2 * H) = 2 * (rest * P)
  <2>1. CASE bit = 0
    BY <1>2, <1>3, <2>1
  <2>2. CASE bit = 1
    BY <1>2, <1>3, <2>2
  <2> QED BY <1>1, <2>1, <2>2
<1>6. 2 * (rest * P) = rest * (2 * P)
  BY <1>1
<1> QED
  BY <1>1, <1>3, <1>4, <1>5, <1>6

\* The quotient and the remainder after a turn: s is the shifted remainder
\* with the bit that was brought down.
LEMMA HighTurn ==
    ASSUME NEW P \in Nat \ {0},
           NEW u \in Nat, NEW v \in Nat, NEW d \in Nat, u < d, v < P,
           NEW a \in Nat, NEW hi \in Nat, v * d + u = a * P + hi,
           NEW bit \in {0, 1},
           NEW s \in Nat, s = 2 * u + bit
    PROVE  /\ 2 * v + 1 < 2 * P
           /\ s >= d => /\ s - d \in 0 .. d - 1
                       /\ (2 * v + 1) * d + (s - d) = a * (2 * P) + (2 * hi + bit)
           /\ ~(s >= d) => (2 * v + 0) * d + s = a * (2 * P) + (2 * hi + bit)
<1>1. 2 * (v * d) + 2 * u = 2 * (a * P) + 2 * hi
  <2>1. v * d \in Nat /\ a * P \in Nat
    OBVIOUS
  <2> QED BY <2>1
<1>2. a * (2 * P) = 2 * (a * P) /\ a * P \in Nat
  OBVIOUS
<1>3. (2 * v + 1) * d = 2 * (v * d) + d /\ (2 * v + 0) * d = 2 * (v * d) /\ v * d \in Nat
  OBVIOUS
<1>4. ASSUME s >= d
      PROVE  s - d \in 0 .. d - 1 /\ (2 * v + 1) * d + (s - d) = a * (2 * P) + (2 * hi + bit)
  BY <1>1, <1>2, <1>3, <1>4
<1>5. (2 * v + 0) * d + s = a * (2 * P) + (2 * hi + bit)
  <2>1. (2 * v + 0) * d + s = 2 * (v * d) + (2 * u + bit)
    BY <1>3
  <2>2. 2 * (v * d) + (2 * u + bit) = (2 * (v * d) + 2 * u) + bit
    BY <1>3
  <2>3. (2 * (a * P) + 2 * hi) + bit = a * (2 * P) + (2 * hi + bit)
    BY <1>2
  <2> QED BY <1>1, <2>1, <2>2, <2>3
<1>6. 2 * v + 1 < 2 * P
  OBVIOUS
<1> QED
  BY <1>4, <1>5, <1>6

-----------------------------------------------------------------------------
\* At the start nothing has been brought down.
LEMMA StartInv == IInv /\ Start => IInv'
<1> SUFFICES ASSUME IInv, Start PROVE IInv'
  OBVIOUS
<1> USE SizeAssumption, Bases
<1>1. i = 0 /\ q = 0 /\ xl \in Nat /\ xl < Base /\ y \in Nat /\ xh \in Nat /\ xh < y
  BY DEF IInv, Start, TypeOK, Uint
<1>2. Pow2[0] = 1 /\ SIZE - 0 = SIZE
  BY Pow2Assumption
<1>3. TypeOK'
  BY DEF IInv, Start, TypeOK
<1>4. LoopInv'
  <2>1. Split(0, xl)'
    BY <1>1, <1>2 DEF Split, Start, Base
  <2>2. (q < Pow2[i] /\ Pow2[i] * Pow2[SIZE - i] = Base /\ nh < y)'
    BY <1>1, <1>2 DEF Start, Base
  <2> QED BY <1>1, <2>1, <2>2 DEF LoopInv, Start
<1> QED
  BY <1>3, <1>4 DEF IInv, Start, DivisionRight

\* A turn brings one bit down.
LEMMA TurnInv == IInv /\ Turn => IInv'
<1> SUFFICES ASSUME IInv, Turn PROVE IInv'
  OBVIOUS
<1> DEFINE P == Pow2[i]
           L == Pow2[SIZE - (i + 1)]
           H == Pow2[SIZE - 1]
<1>1. LoopInv /\ TypeOK /\ pc = "loop" /\ i \in 0 .. SIZE - 1
  BY SizeAssumption DEF IInv, Turn, TypeOK
<1>2. /\ xh \in Nat /\ xl \in Nat /\ y \in Nat /\ nh \in Nat /\ nl \in Nat /\ q \in Nat
      /\ y < Base /\ xh < y /\ nh < y /\ q < P
  BY <1>1, Bases DEF LoopInv, TypeOK, Uint
<1>3. /\ P \in Nat \ {0} /\ L \in Nat \ {0} /\ H \in Nat \ {0} /\ Base = 2 * H
      /\ Pow2[SIZE - i] = 2 * L /\ Pow2[i + 1] = 2 * P
  <2>1. /\ i \in 0 .. SIZE /\ SIZE - (i + 1) \in 0 .. SIZE - 1 /\ SIZE - (i + 1) \in 0 .. SIZE
        /\ SIZE - (i + 1) + 1 = SIZE - i
    BY <1>1, SizeAssumption
  <2> QED BY <1>1, <2>1, Pow2Assumption, Bases
<1>4. P * L = H /\ 2 * P <= Base
  <2>1. P * (2 * L) = 2 * H
    BY <1>1, <1>3 DEF LoopInv
  <2>2. P * (2 * L) = 2 * (P * L) /\ P * L \in Nat
    BY <1>3
  <2>3. 1 * P <= L * P /\ L * P = P * L
    BY <1>3, ProductGrows
  <2> QED BY <1>3, <2>1, <2>2, <2>3
<1>5. PICK hi \in Nat, lo \in Nat : Split(hi, lo)
  BY <1>1 DEF LoopInv
<1>6. lo < 2 * L /\ nl = lo * P /\ hi < P /\ xl = hi * (2 * L) + lo /\ q * y + nh = xh * P + hi
  BY <1>3, <1>5 DEF Split
<1>7. PICK bit \in {0, 1}, rest \in Int :
         bit = (IF lo >= L THEN 1 ELSE 0) /\ rest = lo - bit * L
  <2>1. CASE lo >= L
    <3>1. lo - 1 * L \in Int
      BY <1>3
    <3> QED BY <2>1, <3>1
  <2>2. CASE ~(lo >= L)
    <3>1. lo - 0 * L \in Int
      BY <1>3
    <3> QED BY <2>2, <3>1
  <2> QED BY <2>1, <2>2
<1>8. /\ nl \div H = bit
      /\ (2 * nl) % (2 * H) = rest * (2 * P)
      /\ rest \in 0 .. L - 1
      /\ (2 * nl) % (2 * H) \in 0 .. 2 * H - 1
  <2>1. /\ P \in Nat \ {0} /\ L \in Nat \ {0} /\ H \in Nat \ {0} /\ P * L = H
        /\ lo < 2 * L /\ (bit = 1 <=> lo >= L)
    BY <1>3, <1>4, <1>6, <1>7
  <2>2. /\ nl \in Nat /\ nl < 2 * H
        /\ nl >= H <=> bit = 1
        /\ 2 * nl - bit * (2 * H) = (lo - bit * L) * (2 * P)
        /\ lo - bit * L \in 0 .. L - 1
        /\ 2 * nl - bit * (2 * H) \in 0 .. 2 * H - 1
    <3> HIDE DEF P, L, H
    <3> QED BY <1>6, <1>7, <2>1, LowTurn, SMT
  <2> HIDE DEF P, L, H
  <2>3. nl \div H = bit
    BY <1>7, <2>1, <2>2, DivMod
  <2>4. (2 * nl) % (2 * H) = 2 * nl - bit * (2 * H)
    <3>1. 2 * H \in Nat \ {0} /\ 2 * nl \in Nat /\ 2 * nl < 2 * (2 * H)
      BY <2>1, <2>2
    <3>2. (2 * nl) % (2 * H) = IF 2 * nl >= 2 * H THEN 2 * nl - 2 * H ELSE 2 * nl
      BY <3>1, DivMod
    <3>3. CASE bit = 1
      BY <2>1, <2>2, <3>2, <3>3
    <3>4. CASE bit = 0
      BY <2>1, <2>2, <3>2, <3>4
    <3> QED BY <1>7, <3>3, <3>4
  <2> QED BY <1>7, <2>2, <2>3, <2>4
<1>9. nl' = rest * (2 * P) /\ nl' \in Uint
  BY <1>3, <1>8 DEF Turn, Low, Uint
<1>10. Wrap(2 * nh) = 2 * nh /\ Wrap(2 * q) = 2 * q
  <2>1. \A n \in Nat : n < 2 * Base => Wrap(n) = n
    <3> SUFFICES ASSUME NEW n \in Nat, n < 2 * Base PROVE Wrap(n) = n
      OBVIOUS
    <3>1. 2 * Base \in Nat \ {0} /\ n < 2 * (2 * Base) /\ ~(n >= 2 * Base)
      BY Bases
    <3> QED BY <3>1, DivMod DEF Wrap
  <2>2. 2 * nh \in Nat /\ 2 * nh < 2 * Base /\ 2 * q \in Nat /\ 2 * q < 2 * Base
    BY <1>2, <1>3, <1>4
  <2> QED BY <2>1, <2>2
<1>11. /\ Shifted = 2 * nh + bit
       /\ 2 * q + 1 < 2 * P
       /\ Shifted >= y => /\ Shifted - y \in 0 .. y - 1
                         /\ (2 * q + 1) * y + (Shifted - y) = xh * (2 * P) + (2 * hi + bit)
       /\ ~(Shifted >= y) => (2 * q + 0) * y + Shifted = xh * (2 * P) + (2 * hi + bit)
  <2>1. /\ P \in Nat \ {0} /\ nh \in Nat /\ q \in Nat /\ y \in Nat /\ nh < y /\ q < P
        /\ xh \in Nat /\ q * y + nh = xh * P + hi
    BY <1>2, <1>3, <1>6
  <2>2. Shifted \in Nat /\ Shifted = 2 * nh + bit
    BY <1>2, <1>7, <1>8, <1>10 DEF Shifted
  <2> HIDE DEF P, L, H
  <2> QED BY <1>7, <2>1, <2>2, HighTurn
<1>12. /\ nh' \in 0 .. y - 1
       /\ q' \in 0 .. 2 * P - 1
       /\ q' * y + nh' = xh * (2 * P) + (2 * hi + bit)
  <2>1. CASE Shifted >= y
    BY <1>2, <1>3, <1>10, <1>11, <2>1 DEF Turn, Fits
  <2>2. CASE ~(Shifted >= y)
    BY <1>2, <1>3, <1>7, <1>10, <1>11, <2>2 DEF Turn, Fits
  <2> QED BY <2>1, <2>2
<1>13. TypeOK'
  BY <1>1, <1>2, <1>3, <1>4, <1>9, <1>12, Bases, SizeAssumption DEF Turn, TypeOK, Uint
<1>14. LoopInv'
  <2>1. xl = (2 * hi + bit) * L + rest
    <3>1. CASE bit = 0
      BY <1>3, <1>6, <1>7, <3>1
    <3>2. CASE bit = 1
      <4>1. (2 * hi + 1) * L = hi * (2 * L) + L
        BY <1>3
      <4> QED BY <1>3, <1>6, <1>7, <3>2, <4>1
    <3> QED BY <1>7, <3>1, <3>2
  <2>2. 2 * hi + bit \in Nat /\ rest \in Nat /\ 2 * hi + bit < 2 * P /\ rest < L
    BY <1>3, <1>6, <1>7, <1>8
  <2>3. i' = i + 1 /\ y' = y /\ xh' = xh /\ xl' = xl
    BY DEF Turn
  <2>4. Split(2 * hi + bit, rest)'
    BY <1>3, <1>9, <1>12, <2>1, <2>2, <2>3 DEF Split
  <2>5. (Pow2[i] * Pow2[SIZE - i] = Base)'
    <3>1. (2 * P) * L = 2 * (P * L)
      BY <1>3
    <3> QED BY <1>3, <1>4, <2>3, <3>1 DEF Base
  <2>6. (q < Pow2[i] /\ nh < y /\ xh < y)'
    BY <1>2, <1>3, <1>12, <2>3
  <2> QED BY <2>2, <2>4, <2>5, <2>6 DEF LoopInv
<1> QED
  BY <1>1, <1>13, <1>14 DEF IInv, Turn, DivisionRight

\* At the end everything has been brought down.
LEMMA ReturnInv == IInv /\ Return => IInv'
<1> SUFFICES ASSUME IInv, Return PROVE IInv'
  OBVIOUS
<1>1. LoopInv /\ TypeOK /\ i = SIZE
  BY DEF IInv, Return
<1>2. Pow2[SIZE - i] = 1 /\ Pow2[i] = Base
  BY <1>1, SizeAssumption, Pow2Assumption DEF Base
<1>3. PICK hi \in Nat, lo \in Nat : Split(hi, lo)
  BY <1>1 DEF LoopInv
<1>4. lo = 0 /\ xl = hi
  BY <1>2, <1>3 DEF Split
<1>5. xh * Base + xl = q * y + nh /\ nh < y /\ xh < y
  BY <1>1, <1>2, <1>3, <1>4 DEF Split, LoopInv
<1>6. DivisionRight'
  BY <1>5 DEF DivisionRight, Return, Base
<1> QED
  BY <1>1, <1>6 DEF IInv, Return, TypeOK, Uint, Base

\* The loop of prim_int63_diveucl_21_long keeps xl split into what it has
\* brought down and what is to come.
THEOREM Invariant == Spec => []IInv
<1>1. Init => IInv
  BY Bases, SizeAssumption DEF Init, IInv, TypeOK, Uint, DivisionRight
<1>2. IInv /\ [Next]_vars => IInv'
  <2> SUFFICES ASSUME IInv, [Next]_vars PROVE IInv'
    OBVIOUS
  <2>1. CASE Reject
    BY <2>1, Bases DEF IInv, Reject, TypeOK, Uint, Base, DivisionRight
  <2>2. CASE Start
    BY <2>2, StartInv
  <2>3. CASE Turn
    BY <2>3, TurnInv
  <2>4. CASE Return
    BY <2>4, ReturnInv
  <2>5. CASE UNCHANGED vars
    BY <2>5 DEF IInv, TypeOK, LoopInv, Split, Uint, Base, DivisionRight, vars
  <2> QED BY <2>1, <2>2, <2>3, <2>4, <2>5 DEF Next
<1> QED
  BY <1>1, <1>2, PTL DEF Spec

\* Every result of prim_int63_diveucl_21 is the quotient and the remainder of
\* its arguments, or 0 and 0 when the quotient does not fit or y is 0, for
\* integers of any size.
THEOREM Division == Spec => []DivisionRight
<1>1. IInv => DivisionRight
  BY DEF IInv
<1> QED
  BY <1>1, Invariant, PTL

\* No local of the loop ever leaves the range of the integers.
THEOREM TypeCorrect == Spec => []TypeOK
<1>1. IInv => TypeOK
  BY DEF IInv
<1> QED
  BY <1>1, Invariant, PTL

\* The remainder of a number that is written as a multiple and a rest.
LEMMA Remainder ==
    ASSUME NEW m \in Nat \ {0}, NEW k \in Nat, NEW r \in Nat, r < m
    PROVE  (k * m + r) % m = r
<1>1. k * m \in Nat
  OBVIOUS
<1> QED
  BY <1>1

\* The invariant that the comment in the loop of prim_int63_diveucl_21_long
\* states holds at every turn, for integers of any size.
THEOREM Loop == Spec => []LoopInvariant
<1>1. IInv => LoopInvariant
  <2> SUFFICES ASSUME IInv, pc = "loop" PROVE LoopInvariant
    BY DEF LoopInvariant
  <2> DEFINE P == Pow2[i]
             L == Pow2[SIZE - i]
  <2>1. LoopInv /\ TypeOK
    BY DEF IInv
  <2>2. P \in Nat \ {0} /\ L \in Nat \ {0} /\ P * L = Base
    <3>1. i \in 0 .. SIZE /\ SIZE - i \in 0 .. SIZE
      BY <2>1, SizeAssumption DEF TypeOK
    <3> QED BY <2>1, <3>1, Pow2Assumption DEF LoopInv
  <2>3. PICK hi \in Nat, lo \in Nat : Split(hi, lo)
    BY <2>1 DEF LoopInv
  <2>4. lo < L /\ xl = hi * L + lo /\ nl = lo * P /\ q * y + nh = xh * P + hi
    BY <2>3 DEF Split
  <2>5. /\ nl \in Nat /\ nl < Base /\ Base \in Nat \ {0} /\ nh < y
        /\ xh \in Nat /\ q \in Nat /\ y \in Nat /\ nh \in Nat
    BY <2>1, Bases DEF TypeOK, Uint, LoopInv
  <2>6. xl % L = lo
    BY <2>2, <2>4, Remainder
  <2>7. xl * P = hi * Base + nl
    <3>1. (hi * L + lo) * P = hi * (P * L) + lo * P
      BY <2>2
    <3> QED BY <2>2, <2>4, <3>1
  <2>8. (xl * P) % Base = nl
    BY <2>5, <2>7, Remainder
  <2>9. (q * y + nh) * L + lo = xh * Base + xl
    <3>1. (xh * P + hi) * L + lo = xh * (P * L) + (hi * L + lo)
      BY <2>2, <2>5
    <3> QED BY <2>2, <2>4, <3>1
  <2> QED BY <2>5, <2>6, <2>8, <2>9 DEF LoopInvariant
<1> QED
  BY <1>1, Invariant, PTL
=============================================================================
