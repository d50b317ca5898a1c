----------------------------- MODULE GmpNumbers -----------------------------
(* What a Rocq program may expect of the numbers of GMP.v: integers of any   *)
(* size. GMP.v has them as axioms; their names, and the three places where   *)
(* the C code does something else at the least small integer, are here.      *)
EXTENDS Integers

CONSTANTS
    Regs,       \* variables of the program
    Max_long    \* largest integer that is represented without a block

Min_long == -Max_long - 1

VARIABLES
    z,          \* the integer in each variable
    call,       \* the last operation, and what it was applied to
    answer,     \* the last answer to a question
    halted      \* the process was stopped by a trap

vars == <<z, call, answer, halted>>

Power(n, k) == IF k = 0 THEN 1 ELSE n^k
Abs(m) == IF m < 0 THEN -m ELSE m

\* r is what is left of n after division by m: smaller, and of the sign of n.
Rest(r, n, m) == Abs(r) < Abs(m) /\ (r = 0 \/ (r < 0 <=> n < 0))

\* An operation that is a call of c: it gives d some integer, it gives d the
\* integer n, it gives an answer, or it stops the process.
Changed(c, d) ==
    /\ ~halted
    /\ call' = c
    /\ z' \in [Regs -> Int]
    /\ \A r \in Regs \ {d} : z'[r] = z[r]
    /\ UNCHANGED halted
Put(c, d, n) == Changed(c, d) /\ z'[d] = n /\ UNCHANGED answer
Say(c, n) == ~halted /\ call' = c /\ answer' = n /\ UNCHANGED <<z, halted>>
Trap(c) == ~halted /\ call' = c /\ halted' = TRUE /\ UNCHANGED <<z, answer>>
Truth(b) == IF b THEN 1 ELSE 0

Init ==
    /\ z = [r \in Regs |-> 0]
    /\ call = <<"none">>
    /\ answer = 0
    /\ halted = FALSE

-----------------------------------------------------------------------------
zero(d) == Put(<<"zero", d>>, d, 0)
one(d) == Put(<<"one", d>>, d, 1)
of_int(d) ==
    Changed(<<"of_int", d>>, d) /\ z'[d] \in Min_long .. Max_long /\ UNCHANGED answer
\* The C code gives gmp a number that it has not initialized.
of_string(d) ==
    \/ Changed(<<"of_string", d>>, d) /\ UNCHANGED answer
    \/ Trap(<<"of_string", d>>)

succ(d, s) == Put(<<"succ", d, s>>, d, z[s] + 1)
pred(d, s) == Put(<<"pred", d, s>>, d, z[s] - 1)
\* Of natural numbers: nothing is said of negative ones.
NatPredOf(d, s) == z[s] >= 0 => z'[d] = IF z[s] = 0 THEN 0 ELSE z[s] - 1
nat_pred(d, s) ==
    Changed(<<"nat_pred", d, s>>, d) /\ NatPredOf(d, s) /\ UNCHANGED answer
\* Which case is called, and with what.
nat_case(d, s) ==
    /\ Changed(<<"nat_case", d, s>>, d)
    /\ NatPredOf(d, s)
    /\ answer' = Truth(z[s] # 0)
abs(d, s) ==
    \/ Put(<<"abs", d, s>>, d, Abs(z[s]))
    \/ z[s] = Min_long /\ Trap(<<"abs", d, s>>)
neg(d, s) ==
    \/ Put(<<"neg", d, s>>, d, -z[s])
    \/ z[s] = Min_long /\ Put(<<"neg", d, s>>, d, Min_long)
lognot(d, s) == Put(<<"lognot", d, s>>, d, -z[s] - 1)

add(d, s, t) == Put(<<"add", d, s, t>>, d, z[s] + z[t])
sub(d, s, t) == Put(<<"sub", d, s, t>>, d, z[s] - z[t])
mul(d, s, t) == Put(<<"mul", d, s, t>>, d, z[s] * z[t])
\* The quotient is the integer that leaves a rest.
div(d, s, t) ==
    \/ /\ z[t] # 0
       /\ Changed(<<"div", d, s, t>>, d) /\ UNCHANGED answer
       /\ Rest(z[s] - z'[d] * z[t], z[s], z[t])
    \/ z[s] = Min_long /\ z[t] = -1 /\ Put(<<"div", d, s, t>>, d, Min_long)
    \/ z[t] = 0 /\ Trap(<<"div", d, s, t>>)
rem(d, s, t) ==
    \/ /\ z[t] # 0
       /\ Changed(<<"rem", d, s, t>>, d) /\ UNCHANGED answer
       /\ Rest(z'[d], z[s], z[t])
       /\ (z[s] - z'[d]) % Abs(z[t]) = 0
    \/ z[t] = 0 /\ Trap(<<"rem", d, s, t>>)
pow(d, s, t) ==
    /\ Changed(<<"pow", d, s, t>>, d) /\ UNCHANGED answer
    /\ z[t] >= 0 => z'[d] = Power(z[s], z[t])
max(d, s, t) == Put(<<"max", d, s, t>>, d, IF z[s] > z[t] THEN z[s] ELSE z[t])
min(d, s, t) == Put(<<"min", d, s, t>>, d, IF z[s] < z[t] THEN z[s] ELSE z[t])

equal(s, t) == Say(<<"equal", s, t>>, Truth(z[s] = z[t]))
leq(s, t) == Say(<<"leq", s, t>>, Truth(z[s] <= z[t]))
geq(s, t) == Say(<<"geq", s, t>>, Truth(z[s] >= z[t]))
lt(s, t) == Say(<<"lt", s, t>>, Truth(z[s] < z[t]))
gt(s, t) == Say(<<"gt", s, t>>, Truth(z[s] > z[t]))
\* No more than this: 1 stands for "less" between two small integers, and for
\* "greater" when one is large.
Orders(n, m) == IF n = m THEN {0} ELSE IF n < m THEN {-1, 1} ELSE {1, 2}
compare(s, t) ==
    \E n \in Orders(z[s], z[t]) : Say(<<"compare", s, t>>, n)

Next ==
    \/ \E d \in Regs : zero(d) \/ one(d) \/ of_int(d) \/ of_string(d)
    \/ \E d, s \in Regs :
        \/ succ(d, s) \/ pred(d, s) \/ nat_pred(d, s) \/ nat_case(d, s)
        \/ abs(d, s) \/ neg(d, s) \/ lognot(d, s)
    \/ \E d, s, t \in Regs :
        \/ add(d, s, t) \/ sub(d, s, t) \/ mul(d, s, t) \/ div(d, s, t)
        \/ rem(d, s, t) \/ pow(d, s, t) \/ max(d, s, t) \/ min(d, s, t)
    \/ \E s, t \in Regs :
        equal(s, t) \/ leq(s, t) \/ geq(s, t) \/ lt(s, t) \/ gt(s, t) \/ compare(s, t)

Spec == Init /\ [][Next]_vars
=============================================================================
