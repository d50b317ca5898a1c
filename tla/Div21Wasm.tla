----------------------------- MODULE Div21Wasm -----------------------------
(* The same division as the WebAssembly backend translates it               *)
(* (diveucl_21_instrs): the low word is shifted without a mask, in 64 bits, *)
(* and the bit that enters the high word is read after the shift. It        *)
(* implements the loop of the C runtime.                                    *)
EXTENDS Div21Words

VARIABLES
    pc,                     \* as in Div21
    xh, xl, y,              \* the arguments
    tmp1, tmp2, tmp4, counter

vars == <<pc, xh, xl, y, tmp1, tmp2, tmp4, counter>>

Init ==
    /\ pc = "call"
    /\ xh \in Uint /\ xl \in Uint /\ y \in Uint
    /\ tmp1 = 0 /\ tmp2 = 0 /\ tmp4 = 0 /\ counter = 0

Reject ==
    /\ pc = "call"
    /\ y <= xh
    /\ pc' = "done"
    /\ UNCHANGED <<xh, xl, y, tmp1, tmp2, tmp4, counter>>

Start ==
    /\ pc = "call"
    /\ ~(y <= xh)
    /\ tmp1' = xh
    /\ tmp2' = xl
    /\ pc' = "loop"
    /\ UNCHANGED <<xh, xl, y, tmp4, counter>>

\* The loop is entered again (once too often: a mutant).
MoreOnce == counter <= SIZE
More == counter < SIZE

\* tmp1 with the bit at the top of the shifted low word (of the unshifted one:
\* a mutant).
HighBeforeShift(low) == Wrap(2 * tmp1) + tmp2 \div Base
High(low) == Wrap(2 * tmp1) + low \div Base

\* The divisor fits in the high word (is below it: a mutant).
FitsStrictly(high) == high > y
Fits(high) == high >= y

\* xl and q are shifted left, in 64 bits (with the mask of the C loop: a
\* mutant).
ShlMasked(w) == (2 * w) % Base
Shl(w) == Wrap(2 * w)

diveucl_21_loop_body ==
    /\ pc = "loop"
    /\ More
    /\ tmp2' = Shl(tmp2)
    /\ LET high == High(Shl(tmp2))
       IN  IF Fits(high)
           THEN tmp1' = high - y /\ tmp4' = Shl(tmp4) + 1
           ELSE tmp1' = high /\ tmp4' = Shl(tmp4)
    /\ counter' = counter + 1
    /\ UNCHANGED <<pc, xh, xl, y>>

Return ==
    /\ pc = "loop"
    /\ ~More
    /\ pc' = "done"
    /\ UNCHANGED <<xh, xl, y, tmp1, tmp2, tmp4, counter>>

Next == Reject \/ Start \/ diveucl_21_loop_body \/ Return

Spec == Init /\ [][Next]_vars

-----------------------------------------------------------------------------
\* The globals of the loop are words, and the two that are returned integers:
\* neither is masked before it is stored in a block.
TypeOK ==
    /\ pc \in {"call", "loop", "done"}
    /\ xh \in Uint /\ xl \in Uint /\ y \in Uint
    /\ tmp1 \in Uint /\ tmp2 \in Words /\ tmp4 \in Uint
    /\ counter \in 0 .. SIZE

Runtime == INSTANCE Div21 WITH
    nh <- tmp1, nl <- tmp2 % Base, q <- tmp4, i <- counter

\* Both backends divide alike, turn by turn: the upper bit of the unmasked
\* low word, which the C loop masks away, never enters the remainder.
ImplementsRuntime == Runtime!Spec

\* The invariant that the comment in the C loop states.
LoopInvariant == Runtime!LoopInvariant

\* The result is the quotient and the remainder when the quotient fits, and
\* 0 and 0 when it does not or y is 0.
DivisionRight == Runtime!DivisionRight
=============================================================================
