------------------------------- MODULE Div21 -------------------------------
(* The division of two integers by one in the C runtime                     *)
(* (prim_int63_diveucl_21): one bit of the quotient per turn of a loop.     *)
EXTENDS Div21Words

VARIABLES
    pc,             \* "call", "loop" or "done"
    xh, xl, y,      \* the arguments, untagged
    nh, nl, q, i    \* the locals; q and nh are the result

vars == <<pc, xh, xl, y, nh, nl, q, i>>

Init ==
    /\ pc = "call"
    /\ xh \in Uint /\ xl \in Uint /\ y \in Uint
    /\ nh = 0 /\ nl = 0 /\ q = 0 /\ i = 0

\* The quotient would not fit, or y is 0.
Reject ==
    /\ pc = "call"
    /\ y <= xh
    /\ pc' = "done"
    /\ UNCHANGED <<xh, xl, y, nh, nl, q, i>>

Start ==
    /\ pc = "call"
    /\ y > xh
    /\ nh' = xh
    /\ nl' = xl
    /\ pc' = "loop"
    /\ UNCHANGED <<xh, xl, y, q, i>>

\* nh with the next bit of xl, from the top of nl.
Shifted == Wrap(2 * nh) + nl \div Pow2[SIZE - 1]
Fits == Shifted >= y

\* The bits to come, below bit SIZE.
Low == (2 * nl) % Base

\* One turn: `|` is `+` here, the lower bit of a shifted word is clear.
Turn ==
    /\ pc = "loop"
    /\ i < SIZE
    /\ nh' = IF Fits THEN Shifted - y ELSE Shifted
    /\ nl' = Low
    /\ q' = Wrap(2 * q) + (IF Fits THEN 1 ELSE 0)
    /\ i' = i + 1
    /\ UNCHANGED <<pc, xh, xl, y>>

Return ==
    /\ pc = "loop"
    /\ i = SIZE
    /\ pc' = "done"
    /\ UNCHANGED <<xh, xl, y, nh, nl, q, i>>

Next == Reject \/ Start \/ Turn \/ Return

Spec == Init /\ [][Next]_vars

-----------------------------------------------------------------------------
\* No local leaves the range of the integers: q and nl never use the upper bit
\* of their words, and nh only inside a turn.
TypeOK ==
    /\ pc \in {"call", "loop", "done"}
    /\ xh \in Uint /\ xl \in Uint /\ y \in Uint
    /\ nh \in Uint /\ nl \in Uint /\ q \in Uint
    /\ i \in 0 .. SIZE

\* The invariant that the comment in the loop states: what is divided so far
\* is the quotient so far times y plus nh, and nl holds the bits to come.
LoopInvariant ==
    pc = "loop" =>
        /\ nh < y
        /\ nl = (xl * Pow2[i]) % Base
        /\ (q * y + nh) * Pow2[SIZE - i] + (xl % Pow2[SIZE - i]) = xh * Base + xl

\* The result is the quotient and the remainder when the quotient fits, and
\* 0 and 0 when it does not or y is 0: what the comment on the function says.
DivisionRight ==
    pc = "done" =>
        IF y > xh
        THEN xh * Base + xl = q * y + nh /\ nh < y
        ELSE q = 0 /\ nh = 0
=============================================================================
