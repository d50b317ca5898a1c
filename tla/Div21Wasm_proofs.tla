-------------------------- MODULE Div21Wasm_proofs --------------------------
(* The division of the WebAssembly backend implements that of the C runtime *)
(* at every width, so that what is proved of the one holds of the other.    *)
EXTENDS Div21Wasm, TLAPS

Proved == INSTANCE Div21_proofs WITH
    nh <- tmp1, nl <- tmp2 % Base, q <- tmp4, i <- counter

\* The part of the types that the mapping needs.
Ranges ==
    /\ xh \in Uint /\ xl \in Uint /\ y \in Uint
    /\ tmp2 \in Words
    /\ tmp4 \in Nat
    /\ counter \in 0 .. SIZE

-----------------------------------------------------------------------------
\* The base of the integers is twice the weight of their upper bit.
LEMMA WordBases ==
    /\ Base \in Nat \ {0}
    /\ Pow2[SIZE - 1] \in Nat \ {0}
    /\ Base = 2 * Pow2[SIZE - 1]
<1>1. SIZE \in 0 .. SIZE /\ SIZE - 1 \in 0 .. SIZE - 1 /\ SIZE - 1 \in 0 .. SIZE
  BY SizeAssumption
<1>2. Pow2[SIZE - 1 + 1] = 2 * Pow2[SIZE - 1]
  BY <1>1, Pow2Assumption
<1>3. SIZE - 1 + 1 = SIZE
  BY SizeAssumption
<1> QED
  BY <1>1, <1>2, <1>3, Pow2Assumption DEF Base

\* The quotient and the remainder of a number written as a multiple and a rest.
LEMMA Quotient ==
    ASSUME NEW m \in Nat \ {0}, NEW k \in Nat, NEW r \in Nat, r < m
    PROVE  (k * m + r) % m = r /\ (k * m + r) \div m = k
<1>1. k * m \in Nat
  OBVIOUS
<1> QED
  BY <1>1

\* A word of the WebAssembly loop shifted without a mask: its upper bit is the
\* one that the C loop reads before it shifts, and what is left of it is what
\* the C loop keeps.
LEMMA UnmaskedShift ==
    ASSUME NEW H \in Nat \ {0}, NEW w \in 0 .. 4 * H - 1
    PROVE  /\ (2 * w) % (4 * H) \in 0 .. 4 * H - 1
           /\ ((2 * w) % (4 * H)) \div (2 * H) = (w % (2 * H)) \div H
           /\ ((2 * w) % (4 * H)) % (2 * H) = (2 * (w % (2 * H))) % (2 * H)
<1>1. PICK a \in 0 .. 1, b \in 0 .. 1, r \in 0 .. H - 1 : w = a * (2 * H) + (b * H + r)
  <2>1. CASE w < H
    <3>1. w = 0 * (2 * H) + (0 * H + w)
      OBVIOUS
    <3> QED BY <2>1, <3>1
  <2>2. CASE w >= H /\ w < 2 * H
    <3>1. w = 0 * (2 * H) + (1 * H + (w - H))
      OBVIOUS
    <3> QED BY <2>2, <3>1
  <2>3. CASE w >= 2 * H /\ w < 3 * H
    <3>1. w = 1 * (2 * H) + (0 * H + (w - 2 * H))
      OBVIOUS
    <3> QED BY <2>3, <3>1
  <2>4. CASE w >= 3 * H
    <3>1. w = 1 * (2 * H) + (1 * H + (w - 3 * H))
      OBVIOUS
    <3> QED BY <2>4, <3>1
  <2> QED BY <2>1, <2>2, <2>3, <2>4
<1>2. b * H + r \in Nat /\ b * H + r < 2 * H /\ b * (2 * H) + 2 * r \in 0 .. 4 * H - 1
  <2>1. CASE b = 0
    BY <2>1
  <2>2. CASE b = 1
    BY <2>2
  <2> QED BY <1>1, <2>1, <2>2
<1>3. w % (2 * H) = b * H + r
  BY <1>1, <1>2, Quotient
<1>4. (b * H + r) \div H = b
  BY Quotient
<1>5. (2 * w) % (4 * H) = b * (2 * H) + 2 * r
  <2>1. 2 * w = a * (4 * H) + (b * (2 * H) + 2 * r)
    <3>1. CASE a = 0 /\ b = 0
      BY <1>1, <3>1
    <3>2. CASE a = 0 /\ b = 1
      BY <1>1, <3>2
    <3>3. CASE a = 1 /\ b = 0
      BY <1>1, <3>3
    <3>4. CASE a = 1 /\ b = 1
      BY <1>1, <3>4
    <3> QED BY <1>1, <3>1, <3>2, <3>3, <3>4
  <2> QED BY <1>2, <2>1, Quotient
<1>6. (b * (2 * H) + 2 * r) \div (2 * H) = b /\ (b * (2 * H) + 2 * r) % (2 * H) = 2 * r
  BY Quotient
<1>7. (2 * (b * H + r)) % (2 * H) = 2 * r
  <2>1. 2 * (b * H + r) = b * (2 * H) + 2 * r
    <3>1. CASE b = 0
      BY <3>1
    <3>2. CASE b = 1
      BY <3>2
    <3> QED BY <1>1, <3>1, <3>2
  <2> QED BY <1>6, <2>1
<1> QED
  BY <1>2, <1>3, <1>4, <1>5, <1>6, <1>7

\* What a turn of the WebAssembly loop computes of the two words is what a turn
\* of the C loop computes of the word it masks.
LEMMA SameTurn ==
    ASSUME tmp2 \in Words
    PROVE  /\ Shl(tmp2) \in Words
           /\ Shl(tmp2) % Base = Runtime!Low
           /\ High(Shl(tmp2)) = Runtime!Shifted
<1> DEFINE H == Pow2[SIZE - 1]
<1>1. H \in Nat \ {0} /\ Base = 2 * H /\ 2 * Base = 4 * H
  BY WordBases
<1>2. tmp2 \in 0 .. 4 * H - 1
  BY <1>1 DEF Words
<1> HIDE DEF H
<1>3. /\ (2 * tmp2) % (4 * H) \in 0 .. 4 * H - 1
      /\ ((2 * tmp2) % (4 * H)) \div (2 * H) = (tmp2 % (2 * H)) \div H
      /\ ((2 * tmp2) % (4 * H)) % (2 * H) = (2 * (tmp2 % (2 * H))) % (2 * H)
  BY <1>1, <1>2, UnmaskedShift
<1>4. Shl(tmp2) = (2 * tmp2) % (4 * H)
  BY <1>1 DEF Shl, Wrap
<1>5. Words = 0 .. 4 * H - 1
  BY <1>1 DEF Words
<1>6. Runtime!Low = (2 * (tmp2 % (2 * H))) % (2 * H)
  BY <1>1 DEF Runtime!Low, Runtime!Base, Base
<1>7. Runtime!Shifted = Wrap(2 * tmp1) + (tmp2 % (2 * H)) \div H
  BY <1>1 DEF Runtime!Shifted, Runtime!Wrap, Runtime!Base, Wrap, Base, H
<1>8. High(Shl(tmp2)) = Wrap(2 * tmp1) + ((2 * tmp2) % (4 * H)) \div (2 * H)
  BY <1>1, <1>4 DEF High
<1> QED
  BY <1>1, <1>3, <1>4, <1>5, <1>6, <1>7, <1>8

\* Small words are not changed by the mapping.
LEMMA Unmasked == \A w \in Uint : w % Base = w /\ w \in Words
<1> SUFFICES ASSUME NEW w \in Uint PROVE w % Base = w /\ w \in Words
  OBVIOUS
<1>1. w \in Nat /\ w < Base /\ 0 * Base + w = w
  BY WordBases DEF Uint
<1>2. w % Base = w
  BY <1>1, WordBases, Quotient
<1> QED
  BY <1>1, <1>2, WordBases DEF Words

-----------------------------------------------------------------------------
\* The ranges hold at every step.
LEMMA RangesHold == Spec => []Ranges
<1>1. Init => Ranges
  BY WordBases, SizeAssumption DEF Init, Ranges, Words
<1>2. Ranges /\ [Next]_vars => Ranges'
  <2> SUFFICES ASSUME Ranges, [Next]_vars PROVE Ranges'
    OBVIOUS
  <2>1. CASE Reject
    BY <2>1 DEF Reject, Ranges, Uint, Words, Base
  <2>2. CASE Start
    <3>1. xl \in Words
      BY Unmasked DEF Ranges
    <3> QED BY <2>2, <3>1 DEF Start, Ranges, Uint, Words, Base
  <2>3. CASE diveucl_21_loop_body
    <3>1. tmp2' = Shl(tmp2) /\ counter' = counter + 1 /\ xl' = xl /\ counter < SIZE
      BY <2>3 DEF diveucl_21_loop_body, More
    <3>2. Shl(tmp2) \in Words
      BY SameTurn DEF Ranges
    <3>3. tmp4' \in Nat
      <4>1. Shl(tmp4) \in Nat
        BY WordBases DEF Ranges, Shl, Wrap
      <4>2. tmp4' = Shl(tmp4) + 1 \/ tmp4' = Shl(tmp4)
        BY <2>3 DEF diveucl_21_loop_body
      <4> QED BY <4>1, <4>2
    <3>4. xh' = xh /\ y' = y
      BY <2>3 DEF diveucl_21_loop_body
    <3> QED BY <3>1, <3>2, <3>3, <3>4, SizeAssumption DEF Ranges, Uint, Words, Base
  <2>4. CASE Return
    BY <2>4 DEF Return, Ranges, Uint, Words, Base
  <2>5. CASE UNCHANGED vars
    BY <2>5 DEF vars, Ranges, Uint, Words, Base
  <2> QED BY <2>1, <2>2, <2>3, <2>4, <2>5 DEF Next
<1> QED
  BY <1>1, <1>2, PTL DEF Spec

\* Every turn of the division of the WebAssembly backend is a turn of that of
\* the C runtime, and it starts and ends where the other does.
THEOREM Implements == Spec => ImplementsRuntime
<1>1. Init => Runtime!Init
  <2> SUFFICES ASSUME Init PROVE Runtime!Init
    OBVIOUS
  <2>1. tmp2 % Base = 0
    <3>1. 0 \in Uint /\ tmp2 = 0
      BY WordBases DEF Init, Uint
    <3> QED BY <3>1, Unmasked
  <2> QED BY <2>1 DEF Init, Runtime!Init, Uint, Runtime!Uint, Base, Runtime!Base
<1>2. Ranges /\ [Next]_vars => [Runtime!Next]_(Runtime!vars)
  <2> SUFFICES ASSUME Ranges, [Next]_vars
               PROVE  Runtime!Next \/ UNCHANGED Runtime!vars
    OBVIOUS
  <2>1. CASE Reject
    <3>1. Runtime!Reject
      BY <2>1 DEF Reject, Runtime!Reject
    <3> QED BY <3>1 DEF Runtime!Next
  <2>2. CASE Start
    <3>1. y > xh
      BY <2>2 DEF Start, Ranges, Uint
    <3>2. (tmp2 % Base)' = xl
      <4>1. xl % Base = xl
        BY Unmasked DEF Ranges
      <4> QED BY <2>2, <4>1 DEF Start, Base
    <3>3. Runtime!Start
      BY <2>2, <3>1, <3>2 DEF Start, Runtime!Start
    <3> QED BY <3>3 DEF Runtime!Next
  <2>3. CASE diveucl_21_loop_body
    <3>1. /\ Shl(tmp2) % Base = Runtime!Low
          /\ High(Shl(tmp2)) = Runtime!Shifted
      BY SameTurn DEF Ranges
    <3>2. Shl(tmp4) = Runtime!Wrap(2 * tmp4)
      BY DEF Shl, Wrap, Runtime!Wrap, Base, Runtime!Base
    <3>3. (tmp2 % Base)' = Runtime!Low
      BY <2>3, <3>1 DEF diveucl_21_loop_body, Base
    <3>4. tmp4' = Runtime!Wrap(2 * tmp4) + (IF Runtime!Fits THEN 1 ELSE 0)
      <4>1. Runtime!Wrap(2 * tmp4) \in Int
        BY WordBases DEF Ranges, Runtime!Wrap, Runtime!Base, Base
      <4>2. Runtime!Wrap(2 * tmp4) + 0 = Runtime!Wrap(2 * tmp4)
        BY <4>1
      <4> QED
        BY <2>3, <3>1, <3>2, <4>2 DEF diveucl_21_loop_body, Runtime!Fits, Fits
    <3>5. tmp1' = IF Runtime!Fits THEN Runtime!Shifted - y ELSE Runtime!Shifted
      BY <2>3, <3>1 DEF diveucl_21_loop_body, Runtime!Fits, Fits
    <3>6. Runtime!Turn
      BY <2>3, <3>3, <3>4, <3>5 DEF diveucl_21_loop_body, Runtime!Turn, More
    <3> QED BY <3>6 DEF Runtime!Next
  <2>4. CASE Return
    <3>1. counter = SIZE
      BY <2>4, SizeAssumption DEF Return, More, Ranges
    <3>2. Runtime!Return
      BY <2>4, <3>1 DEF Return, Runtime!Return
    <3> QED BY <3>2 DEF Runtime!Next
  <2>5. CASE UNCHANGED vars
    BY <2>5 DEF vars, Runtime!vars
  <2> QED BY <2>1, <2>2, <2>3, <2>4, <2>5 DEF Next
<1> QED
  BY <1>1, <1>2, RangesHold, PTL DEF Spec, ImplementsRuntime, Runtime!Spec

-----------------------------------------------------------------------------
\* The two instances of Div21 are one specification.
LEMMA SameSpec == Runtime!Spec => Proved!Spec
<1> USE DEF Runtime!Base, Proved!Base, Runtime!Uint, Proved!Uint, Runtime!Wrap, Proved!Wrap
<1>1. Runtime!Init => Proved!Init
  BY DEF Runtime!Init, Proved!Init
<1>2. Runtime!Shifted = Proved!Shifted /\ Runtime!Low = Proved!Low
  BY DEF Runtime!Shifted, Proved!Shifted, Runtime!Low, Proved!Low
<1>3. Runtime!Turn => Proved!Turn
  BY <1>2 DEF Runtime!Turn, Proved!Turn, Runtime!Fits, Proved!Fits
<1>4. Runtime!Next => Proved!Next
  BY <1>3 DEF Runtime!Next, Proved!Next, Runtime!Reject, Proved!Reject,
     Runtime!Start, Proved!Start, Runtime!Return, Proved!Return
<1>5. [Runtime!Next]_(Runtime!vars) => [Proved!Next]_(Proved!vars)
  BY <1>4 DEF Runtime!vars, Proved!vars
<1> QED
  BY <1>1, <1>5, PTL DEF Runtime!Spec, Proved!Spec

\* What is proved of the C runtime therefore holds of the WebAssembly backend.
LEMMA Inherited ==
    Spec => [](Proved!TypeOK /\ Proved!LoopInvariant /\ Proved!DivisionRight)
<1>1. Proved!Spec => []Proved!TypeOK
  BY SizeAssumption, Pow2Assumption, Proved!TypeCorrect
<1>2. Proved!Spec => []Proved!LoopInvariant
  BY SizeAssumption, Pow2Assumption, Proved!Loop
<1>3. Proved!Spec => []Proved!DivisionRight
  BY SizeAssumption, Pow2Assumption, Proved!Division
<1> QED
  BY <1>1, <1>2, <1>3, SameSpec, Implements, PTL DEF ImplementsRuntime

\* The results of diveucl_21_instrs are the quotient and the remainder, or 0
\* and 0 when the quotient does not fit or y is 0, at every width.
THEOREM Division == Spec => []DivisionRight
<1>1. Proved!DivisionRight => DivisionRight
  BY DEF Proved!DivisionRight, DivisionRight, Runtime!DivisionRight, Proved!Base, Runtime!Base
<1> QED
  BY <1>1, Inherited, PTL

\* The loop of the WebAssembly backend keeps the invariant that the comment in
\* the C loop states, although its low word is not masked.
THEOREM Loop == Spec => []LoopInvariant
<1>1. Proved!LoopInvariant => LoopInvariant
  BY DEF Proved!LoopInvariant, LoopInvariant, Runtime!LoopInvariant, Proved!Base, Runtime!Base
<1> QED
  BY <1>1, Inherited, PTL

\* What diveucl_21_instrs stores in a block without a mask is an integer, and
\* the word it does not mask never leaves its word.
THEOREM TypeCorrect == Spec => []TypeOK
<1>1. Proved!TypeOK /\ Ranges => TypeOK
  BY DEF Proved!TypeOK, TypeOK, Ranges, Proved!Uint, Uint, Proved!Base, Base
<1> QED
  BY <1>1, Inherited, RangesHold, PTL
=============================================================================
