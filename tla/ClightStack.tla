---------------------------- MODULE ClightStack ----------------------------
(***************************************************************************)
(* A program compiled by theories/Codegen/LambdaANF_to_Clight_stack.v as   *)
(* it runs: activations of C functions with their local variables, their   *)
(* array of roots and their frame of the shadow stack, the cached alloc    *)
(* and limit pointers, and the collector called on entry of a function and *)
(* after a call.  The collector keeps the contract that CheneyGC and       *)
(* Generations verify: it forwards the slots of the linked frames, and     *)
(* nothing else.                                                           *)
(***************************************************************************)
EXTENDS AnfCode

CONSTANTS
    Programs,   \* the programs that are compiled and run
    NURSERY,    \* words that are free after a collection
    MaxDepth    \* bound: activations that the C stack has room for

ASSUME ProgramsAssumption == \A p \in Programs : WellFormed(p)

ASSUME SizesAssumption == NURSERY \in Nat /\ MaxDepth \in Nat \ {0}

VARIABLES
    prog,       \* the program
    stack,      \* the activations, the running one last
    fp,         \* ti->fp: the activation whose frame is linked last, 0 for NULL
    avail,      \* ti->limit - ti->alloc
    nalloc,     \* ti->nalloc
    room,       \* ghost: the words of the nursery that hold no object
    pc          \* whether the program runs, and how it ended

vars == <<prog, stack, fp, avail, nalloc, room, pc>>

\* What a C variable or a slot holds: an odd word, an address that is right,
\* one from which a collection has moved the object, or nothing yet.
Immediate == "int"
Fresh == "fresh"
Stale == "stale"
Unset == "unset"
Usable == {Immediate, Fresh}

exps == prog.exps
Top == Len(stack)
a == stack[Top]
exp == exps[a.e]

Variables == UNION {Binds(exps[e]) \cup Range(exps[e].ys) : e \in DOMAIN exps}

\* A C function is entered: frame.next and frame.prev are not set yet.
Activation(f, args) ==
    LET params == prog.funs[f].params IN
    [at |-> "entry", f |-> f, e |-> prog.funs[f].body,
     locals |-> [x \in Variables \cup Range(params) |->
                    IF \E k \in DOMAIN params : params[k] = x
                    THEN args[CHOOSE k \in DOMAIN params : params[k] = x]
                    ELSE Unset],
     roots |-> [o \in 0 .. prog.size[f] - 1 |-> Unset],
     next |-> 0, prev |-> 0, avail |-> 0]

Init ==
    /\ prog \in {Compiled(p) : p \in Programs}
    /\ stack = <<Activation(prog.main, <<>>)>>
    /\ fp = 0
    /\ avail = NURSERY /\ nalloc = 0 /\ room = NURSERY
    /\ pc = "run"

----------------------------------------------------------------------------
(* The shadow stack *)

\* push_live_vars_offset and pop_live_vars_offset
Push(act, off, xs) ==
    [act EXCEPT !.roots = [o \in DOMAIN @ |->
        IF o \in off .. off + Len(xs) - 1 THEN act.locals[xs[o - off + 1]] ELSE @[o]]]

Pop(act, off, xs) ==
    [act EXCEPT !.locals = [x \in DOMAIN @ |->
        IF \E k \in DOMAIN xs : xs[k] = x
        THEN act.roots[off + (CHOOSE k \in DOMAIN xs : xs[k] = x) - 1] ELSE @[x]]]

update_stack(act, sp) == IF sp = 0 THEN act ELSE [act EXCEPT !.next = sp]
set_stack(sp, set) == IF sp = 0 \/ set THEN fp ELSE Top

\* Mutant: the frame stays linked.
reset_stack_never(sp, set) == fp

reset_stack(sp, set) == IF sp = 0 \/ set THEN fp ELSE a.prev

\* The running activation becomes act.
Running(act) == stack' = [stack EXCEPT ![Top] = act]

\* Its alloc and limit are read from the thread_info again.
Reloaded(act) == [act EXCEPT !.avail = avail]

----------------------------------------------------------------------------
(* The collector, for callers that have left nalloc behind *)

\* The activations whose frames are linked from frame k on.
Linked(k) ==
    LET after[d \in 0 .. Top] ==
            IF d = 0 THEN k
            ELSE IF after[d - 1] = 0 THEN 0 ELSE stack[after[d - 1]].prev
    IN  {after[d] : d \in 0 .. Top} \ {0}

Moved(v) == IF v = Fresh THEN Stale ELSE v

AfterCollection(k) ==
    LET act == stack[k]
        kept == IF k \in Linked(fp) THEN 0 .. act.next - 1 ELSE {}
    IN  [act EXCEPT !.locals = [x \in DOMAIN @ |-> Moved(@[x])],
                    !.roots = [o \in DOMAIN @ |->
                                  IF o \in kept THEN @[o] ELSE Moved(@[o])]]

garbage_collect(then) ==
    IF nalloc > NURSERY
    THEN pc' = "nurseryTooSmall" /\ UNCHANGED <<stack, avail, room>>
    ELSE /\ stack' = [k \in DOMAIN stack |->
                        IF k = Top THEN [AfterCollection(k) EXCEPT !.at = then]
                        ELSE AfterCollection(k)]
         /\ avail' = NURSERY /\ room' = NURSERY
         /\ UNCHANGED pc

Collect ==
    /\ pc = "run" /\ a.at \in {"entryGc", "callGc"}
    /\ garbage_collect(IF a.at = "entryGc" THEN "entryPop" ELSE "callPop")
    /\ UNCHANGED <<prog, fp, nalloc>>

----------------------------------------------------------------------------
(* Entry of a function: translate_fundefs *)

live == prog.live[a.f]

\* Loads alloc and limit, initialises the frame, and asks for the words that
\* are allocated before the first call unless they are there.
Enter ==
    /\ pc = "run" /\ a.at = "entry"
    /\ LET act == [Reloaded(a) EXCEPT !.next = 0, !.prev = fp]
           words == prog.words[a.e]
       IN  IF words = 0 \/ words <= act.avail
           THEN /\ Running([act EXCEPT !.at = "body"])
                /\ UNCHANGED <<fp, nalloc>>
           ELSE /\ Running([update_stack(Push(act, 0, live), Len(live))
                              EXCEPT !.at = "entryGc"])
                /\ fp' = set_stack(Len(live), FALSE)
                /\ nalloc' = words
    /\ UNCHANGED <<prog, avail, room, pc>>

EnterPop ==
    /\ pc = "run" /\ a.at = "entryPop"
    /\ Running([Reloaded(Pop(a, 0, live)) EXCEPT !.at = "body"])
    /\ fp' = reset_stack(Len(live), FALSE)
    /\ UNCHANGED <<prog, avail, nalloc, room, pc>>

----------------------------------------------------------------------------
(* Straight-line code: translate_body *)

Body(op) == pc = "run" /\ a.at = "body" /\ exp.op = op

\* Variable x gets v, n words are taken, and the code goes on.
Bind(v, n) ==
    /\ Running([a EXCEPT !.locals[exp.x] = v, !.avail = @ - n, !.e = exp.next])
    /\ room' = room - n
    /\ UNCHANGED <<prog, fp, avail, nalloc, pc>>

Construct ==
    /\ Body("constr")
    /\ IF exp.ys = <<>> THEN Bind(Immediate, 0) ELSE Bind(Fresh, 1 + Len(exp.ys))

\* A literal: an integer, or a float or string that is allocated.
Literal ==
    /\ Body("primval")
    /\ IF exp.words = 0 THEN Bind(Immediate, 0) ELSE Bind(Fresh, exp.words)

\* A field of an object that is where its address says.
Project ==
    /\ Body("proj")
    /\ \E v \in IF a.locals[exp.ys[1]] = Fresh THEN Usable ELSE {a.locals[exp.ys[1]]} :
          Bind(v, 0)

\* A primitive that does not get the thread_info.
Compute ==
    /\ Body("prim") /\ ~exp.alloc
    /\ \E v \in {Immediate} \cup {a.locals[y] : y \in Range(exp.ys)} : Bind(v, 0)

Switch ==
    /\ Body("case")
    /\ \E e \in exp.arms : Running([a EXCEPT !.e = e])
    /\ UNCHANGED <<prog, fp, avail, nalloc, room, pc>>

----------------------------------------------------------------------------
(* Calls *)

Args == [k \in DOMAIN exp.ys |-> a.locals[exp.ys[k]]]
Callee(f) == Activation(f, Args)

across == prog.across[a.e]
result == prog.result[a.e]

\* alloc and limit are written to the thread_info, what lives across the call
\* is pushed, and the frame is linked.
Saved == [update_stack(Push(a, 0, across), Len(across)) EXCEPT !.at = "call"]

\* Mutant: alloc and limit stay in the C variables.
CallFunctionUnpublished ==
    /\ Body("letapp") /\ Top < MaxDepth
    /\ \E f \in exp.fs : stack' = Append([stack EXCEPT ![Top] = Saved], Callee(f))
    /\ fp' = set_stack(Len(across), FALSE)
    /\ UNCHANGED <<prog, avail, nalloc, room, pc>>

CallFunction ==
    /\ Body("letapp")
    /\ IF Top < MaxDepth
       THEN /\ \E f \in exp.fs :
                   stack' = Append([stack EXCEPT ![Top] = Saved], Callee(f))
            /\ avail' = a.avail
            /\ fp' = set_stack(Len(across), FALSE)
            /\ UNCHANGED pc
       ELSE pc' = "stackOverflow" /\ UNCHANGED <<stack, avail, fp>>
    /\ UNCHANGED <<prog, nalloc, room>>

\* A primitive that gets the thread_info runs with at = "prim".
CallPrimitive ==
    /\ Body("prim") /\ exp.alloc
    /\ Running([Saved EXCEPT !.at = "prim"])
    /\ avail' = a.avail
    /\ fp' = set_stack(Len(across), FALSE)
    /\ UNCHANGED <<prog, nalloc, room, pc>>

\* It may collect any number of times, allocate, and return.
PrimitiveCollects ==
    /\ pc = "run" /\ a.at = "prim"
    /\ stack' = [k \in DOMAIN stack |-> AfterCollection(k)]
    /\ avail' = NURSERY /\ room' = NURSERY
    /\ UNCHANGED <<prog, fp, nalloc, pc>>

PrimitiveReturns ==
    /\ pc = "run" /\ a.at = "prim"
    /\ \E v \in Usable, n \in 0 .. avail :
          /\ Running([a EXCEPT !.at = "returned", !.locals[exp.x] = v])
          /\ avail' = avail - n /\ room' = room - n
    /\ UNCHANGED <<prog, fp, nalloc, pc>>

TailCall ==
    /\ Body("app")
    /\ \E f \in exp.fs : stack' = [stack EXCEPT ![Top] = Callee(f)]
    /\ avail' = a.avail
    /\ UNCHANGED <<prog, fp, nalloc, room, pc>>

Return ==
    /\ Body("halt")
    /\ avail' = a.avail
    /\ IF Top = 1
       THEN pc' = "done" /\ UNCHANGED stack
       ELSE LET caller == stack[Top - 1]
            IN  /\ stack' = [SubSeq(stack, 1, Top - 1) EXCEPT ![Top - 1] =
                               [caller EXCEPT !.at = "returned",
                                  !.locals[exps[caller.e].x] = a.locals[exp.ys[1]]]]
                /\ UNCHANGED pc
    /\ UNCHANGED <<prog, fp, nalloc, room>>

\* discard_stack: what was pushed before the call is popped.
Discarded(act) == [Pop(act, 0, across) EXCEPT !.at = "body", !.e = exp.next]

\* Mutant: the result of the call is not a root of the collection after it.
AfterCallForgets ==
    /\ pc = "run" /\ a.at = "returned"
    /\ LET act == Reloaded(a)
           words == prog.words[exp.next]
       IN  IF words = 0 \/ words <= act.avail
           THEN /\ Running(Discarded(act))
                /\ fp' = reset_stack(Len(across), FALSE)
                /\ UNCHANGED nalloc
           ELSE /\ Running([act EXCEPT !.at = "callGc",
                              !.roots = [o \in DOMAIN @ |->
                                 IF o \in Len(across) .. Len(across) + Len(result) - 1
                                 THEN a.locals[exp.x] ELSE @[o]]])
                /\ UNCHANGED fp
                /\ nalloc' = words
    /\ UNCHANGED <<prog, avail, room, pc>>

\* After the call, alloc and limit are read again; if the words until the
\* next call are not there, the result is pushed too and they are asked for.
AfterCall ==
    /\ pc = "run" /\ a.at = "returned"
    /\ LET act == Reloaded(a)
           words == prog.words[exp.next]
           off == Len(across)
           sp == off + Len(result)
       IN  IF words = 0 \/ words <= act.avail
           THEN /\ Running(Discarded(act))
                /\ fp' = reset_stack(off, FALSE)
                /\ UNCHANGED nalloc
           ELSE /\ Running([update_stack(Push(act, off, result), sp)
                              EXCEPT !.at = "callGc"])
                /\ fp' = set_stack(sp, off # 0)
                /\ nalloc' = words
    /\ UNCHANGED <<prog, avail, room, pc>>

AfterCallPop ==
    /\ pc = "run" /\ a.at = "callPop"
    /\ Running(Discarded(Reloaded(Pop(a, Len(across), result))))
    /\ fp' = reset_stack(Len(across) + Len(result), FALSE)
    /\ UNCHANGED <<prog, avail, nalloc, room, pc>>

Ended == pc # "run" /\ UNCHANGED vars

----------------------------------------------------------------------------

Next ==
    \/ Collect
    \/ Enter \/ EnterPop
    \/ Construct \/ Literal \/ Project \/ Compute \/ Switch
    \/ CallFunction \/ CallPrimitive \/ PrimitiveCollects \/ PrimitiveReturns
    \/ TailCall \/ Return \/ AfterCall \/ AfterCallPop
    \/ Ended

Spec == Init /\ [][Next]_vars

----------------------------------------------------------------------------
(* Properties *)

\* Slots, frames and activations refer to what exists, and the words left are
\* never negative.
TypeOK ==
    /\ Top \in 1 .. MaxDepth
    /\ \A k \in 1 .. Top : LET act == stack[k] IN
          /\ act.at \in {"entry", "entryGc", "entryPop", "body", "call", "prim",
                         "returned", "callGc", "callPop"}
          /\ act.e \in DOMAIN exps
          /\ Range(act.locals) \cup Range(act.roots) \subseteq Usable \cup {Stale, Unset}
          /\ act.next \in 0 .. Cardinality(DOMAIN act.roots)
          /\ act.prev \in 0 .. k - 1
    /\ fp \in 0 .. Top
    /\ avail \in 0 .. NURSERY /\ room \in 0 .. NURSERY
    /\ nalloc \in Nat
    /\ pc \in {"run", "done", "nurseryTooSmall", "stackOverflow"}

\* The code never goes on with an address that a collection has changed:
\* whatever the rest of the function reads was a root of every collection
\* since it was computed.
LiveFresh ==
    a.at = "body" => \A x \in prog.fv[a.e] : a.locals[x] \in Usable

\* The frames that ti->fp links are those of the activations that have saved
\* something for after a call or collection, each in its turn: a frame is
\* unlinked before its function returns or makes a tail call.
Saving(act) ==
    \/ act.at \in {"entryGc", "entryPop"}
       /\ prog.live[act.f] # <<>>
    \/ act.at \in {"call", "prim", "returned"} /\ prog.across[act.e] # <<>>
    \/ act.at \in {"callGc", "callPop"}
       /\ prog.across[act.e] \o prog.result[act.e] # <<>>

FramesLinked == Linked(fp) = {k \in 1 .. Top : Saving(stack[k])}

\* What the collector reads through a linked frame is inside the array of
\* roots, has been written, and is the address of an object or none.
RootsScannable ==
    \A k \in Linked(fp) : LET act == stack[k] IN
        \A o \in 0 .. act.next - 1 : o \in DOMAIN act.roots /\ act.roots[o] \in Usable

\* Until the next call, every allocation has its words: the check on entry,
\* or after the last call, was for all of them.
WordsThere == a.at = "body" => prog.words[a.e] <= a.avail

\* "This is only permitted if alloc+N+1 <= limit" (gc_stack.h): no object of
\* the running code is beyond the limit of the nursery.
WithinLimit == a.at = "body" => a.avail >= 0

\* The collector, a callee and a primitive find in the thread_info the alloc
\* pointer that the objects allocated so far have left, and the running code
\* in its own copy.
AllocPublished == room = IF a.at = "body" THEN a.avail ELSE avail
=============================================================================
