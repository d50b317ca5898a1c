----------------------------- MODULE HeapGraph -----------------------------
(***************************************************************************)
(* What the mutator sees of the heap: a stack of frames of live values and *)
(* the graph of the objects reachable from them, with no addresses, no     *)
(* generations and no collection.  It is the "graph of nodes reachable"    *)
(* that the interface of garbage_collect (src/runtime/gc_stack.h) promises *)
(* to preserve.                                                            *)
(***************************************************************************)
EXTENDS Integers, Sequences, Functions, HeapValues

CONSTANTS
    Ids,         \* identities of objects
    MaxFrames,   \* bound: depth of the shadow stack
    Sizes        \* bound: numbers of fields of the objects

VARIABLES
    stack,   \* the frames, the last one on top: tuples of live values
    objs     \* the reachable objects: identity |-> object

vars == <<stack, objs>>

----------------------------------------------------------------------------
(* Objects *)

\* An object holds values, or (No_scan_tag and above) raw data.
Scanned(fields) == [scan |-> TRUE, fields |-> fields]
NoScan(n) == [scan |-> FALSE, fields |-> [f \in 1 .. n |-> RawData]]

Live == Range(stack[Len(stack)])

RefsIn(values) == {id \in Ids : Ref(id) \in values}

\* The frames become st, and what they reach of ob is all that is left of it.
Become(st, ob) ==
    LET roots == UNION {RefsIn(Range(st[k])) : k \in DOMAIN st}
        fieldsOf(id) == RefsIn(Range(ob[id].fields))
    IN  /\ stack' = st
        /\ objs' = Restrict(ob, Closure(roots, fieldsOf, Cardinality(Ids)))

WithSlot(k, v) == [stack EXCEPT ![Len(stack)][k] = v]

----------------------------------------------------------------------------
(* Operations of the mutator *)

New(k, id, ob) ==
    /\ id \notin DOMAIN objs
    /\ Become(WithSlot(k, Ref(id)),
              [x \in DOMAIN objs \cup {id} |-> IF x = id THEN ob ELSE objs[x]])

\* Slot k gets field f of object id.
Load(k, id, f) == Become(WithSlot(k, objs[id].fields[f]), objs)

Store(id, f, v) == Become(stack, [objs EXCEPT ![id].fields[f] = v])

\* Slot k no longer holds a live object.
Drop(k) == Become(WithSlot(k, Unboxed), objs)

\* Call pushes a frame that holds the argument; Return pops it, and slot k
\* of the caller gets the result.
Call(v) ==
    /\ Len(stack) < MaxFrames
    /\ Become(Append(stack, NewFrame(v)), objs)

Return(k, v) ==
    /\ Len(stack) > 1
    /\ Become([SubSeq(stack, 1, Len(stack) - 1) EXCEPT ![Len(stack) - 1][k] = v], objs)

----------------------------------------------------------------------------

Contents == {NoScan(n) : n \in Sizes} \cup
            {Scanned(fs) : fs \in UNION {[1 .. n -> Live] : n \in Sizes}}

LiveScanned == {id \in RefsIn(Live) : objs[id].scan}

Init == stack = <<NewFrame(Unboxed)>> /\ objs = <<>>

Next ==
    \/ \E k \in Slots, id \in Ids, ob \in Contents : New(k, id, ob)
    \/ \E id \in LiveScanned : \E f \in DOMAIN objs[id].fields :
          \/ \E k \in Slots : Load(k, id, f)
          \/ \E v \in Live \cup {Unboxed, Out} : Store(id, f, v)
    \/ \E k \in Slots : Drop(k)
    \/ \E v \in Live : Call(v)
    \/ \E v \in Live, k \in Slots : Return(k, v)

Spec == Init /\ [][Next]_vars
=============================================================================
