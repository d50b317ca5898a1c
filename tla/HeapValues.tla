----------------------------- MODULE HeapValues -----------------------------
(* Values that the heap of src/runtime/gc_stack.c and its graph share. *)
EXTENDS Integers, FiniteSets

Unboxed == <<"int">>       \* an odd word
Out == <<"out">>           \* a pointer that is not into the heap
Ref(id) == <<"ref", id>>   \* in the graph: a pointer to object id
RawData == <<"raw">>       \* in the graph: a word of a No_scan object

\* Bound: the live values of a frame.
Slots == 1 .. 2
NewFrame(v) == <<v, Unboxed>>

\* What is reached from roots by succ in any number of steps, there being at
\* most n things to reach.
Closure(roots, succ(_), n) ==
    LET after[d \in 0 .. n] ==
            IF d = 0 THEN roots
            ELSE LET before == after[d - 1]
                 IN  before \cup UNION {succ(x) : x \in before}
    IN  after[n]
=============================================================================
