---------------------------- MODULE Generations ----------------------------
(***************************************************************************)
(* The generation policy of src/runtime/gc_stack.c: how many words every   *)
(* generation holds, how long its remembered set is, when the collector    *)
(* moves on to the next generation and when the program gives up.  The     *)
(* contents of the words are left to CheneyGC, which implements this       *)
(* module.                                                                 *)
(*                                                                         *)
(* A space is described by offsets from its start:                         *)
(*                                                                         *)
(*    0 ........... next ........... limit ............ rem_limit          *)
(*    |  allocated   |     free        |  remembered set  |                *)
(***************************************************************************)
EXTENDS Integers

CONSTANTS
    NURSERY_SIZE,   \* words of generation 0
    MAX_SPACES,     \* number of space descriptors in a heap
    RATIO,          \* size of generation j+1 / size of generation j
    Requests        \* words that a caller may ask garbage_collect for

ASSUME NurseryAssumption == NURSERY_SIZE \in Nat \ {0}
ASSUME SpacesAssumption == MAX_SPACES \in Nat /\ MAX_SPACES >= 2
ASSUME RatioAssumption == RATIO \in Nat /\ RATIO >= 2
ASSUME RequestsAssumption == Requests \subseteq Nat

VARIABLES
    created,     \* generations j with spaces[j].start # NULL
    next,        \* spaces[j].next - spaces[j].start
    limit,       \* spaces[j].limit - spaces[j].start
    rem_limit,   \* spaces[j].rem_limit - spaces[j].start: the size of j
    alloc,       \* ti->alloc - spaces[0].start, owned by the mutator
    ti_limit,    \* ti->limit - spaces[0].start, owned by the mutator
    nalloc,      \* ti->nalloc, the request of the last call
    pc,          \* where the single thread is
    i,           \* the generation being collected, into i+1
    p,           \* old to->next: where the copies of this round begin
    q            \* the remembered-set entry of generation i read next

vars == <<created, next, limit, rem_limit, alloc, ti_limit, nalloc, pc, i, p, q>>

Gens == 0 .. MAX_SPACES - 1

Collecting == {"create", "remset", "copy", "check"}

\* The ways the program stops: every exit(1) and failed assert of gc_stack.c.
Aborts == {"noMemory", "nurseryTooSmall", "outOfGenerations",
           "remsetAssertion", "modifyAssertion"}

Init ==
    /\ created = {0}
    /\ next = [j \in Gens |-> 0]
    /\ limit = [j \in Gens |-> IF j = 0 THEN NURSERY_SIZE ELSE 0]
    /\ rem_limit = limit
    /\ alloc = 0
    /\ ti_limit = NURSERY_SIZE
    /\ nalloc = 0
    /\ pc = "mutator"
    /\ i = 0 /\ p = 0 /\ q = 0

----------------------------------------------------------------------------
(* The mutator *)

\* Generated code and primitives take n words off the nursery.
Allocate(n) ==
    /\ pc = "mutator"
    /\ n <= ti_limit - alloc
    /\ alloc' = alloc + n
    /\ UNCHANGED <<created, next, limit, rem_limit, ti_limit, nalloc, pc, i, p, q>>

\* Mutant: the assertion is compiled out.
ModifyUnchecked ==
    /\ pc = "mutator"
    /\ ti_limit' = ti_limit - 1
    /\ UNCHANGED <<created, next, limit, rem_limit, alloc, nalloc, pc, i, p, q>>

\* The write barrier, for a value that is a pointer: one more entry at the
\* high end of the nursery.
Modify ==
    /\ pc = "mutator"
    /\ IF alloc < ti_limit
       THEN ti_limit' = ti_limit - 1 /\ UNCHANGED pc
       ELSE pc' = "modifyAssertion" /\ UNCHANGED ti_limit
    /\ UNCHANGED <<created, next, limit, rem_limit, alloc, nalloc, i, p, q>>

\* garbage_collect is called when the words asked for are not there.
GcCall(n) ==
    /\ pc = "mutator"
    /\ n > ti_limit - alloc
    /\ nalloc' = n
    /\ limit' = [limit EXCEPT ![0] = ti_limit]
    /\ next' = [next EXCEPT ![0] = alloc]
    /\ i' = 0
    /\ pc' = "create"
    /\ UNCHANGED <<created, rem_limit, alloc, ti_limit, p, q>>

----------------------------------------------------------------------------
(* The collector *)

\* create_space either fails, or gives generation j+1 its RATIO * w words.
CreateSpace(j) ==
    \/ /\ pc' = "noMemory"
       /\ UNCHANGED <<created, next, limit, rem_limit>>
    \/ /\ created' = created \cup {j + 1}
       /\ next' = [next EXCEPT ![j + 1] = 0]
       /\ limit' = [limit EXCEPT ![j + 1] = RATIO * rem_limit[j]]
       /\ rem_limit' = [rem_limit EXCEPT ![j + 1] = RATIO * rem_limit[j]]
       /\ pc' = "remset"

\* Mutant: generation i+1 is created anew in every collection.
CreateAlways ==
    /\ pc = "create"
    /\ CreateSpace(i)
    /\ p' = next[i + 1]
    /\ q' = limit[i]
    /\ UNCHANGED <<alloc, ti_limit, nalloc, i>>

\* The top of the loop, up to the assertion of forward_remset.
Create ==
    /\ pc = "create"
    /\ IF i + 1 \in created
       THEN /\ pc' = IF rem_limit[i] - limit[i] <= limit[i + 1]
                     THEN "remset" ELSE "remsetAssertion"
            /\ UNCHANGED <<created, next, limit, rem_limit>>
       ELSE CreateSpace(i)
    /\ p' = next[i + 1]
    /\ q' = limit[i]
    /\ UNCHANGED <<alloc, ti_limit, nalloc, i>>

\* Words of generation i that have not been copied yet: an object is copied
\* once, its header being 0 from then on.
Uncopied == next[i] - (next[i + 1] - p)

\* One entry of the remembered set.  It is dropped when its cell is in
\* from-space or keeps its value; a cell that changes is remembered in
\* generation i+1, and n words may have been copied for it (none when the
\* object was already forwarded).
SkipEntry ==
    /\ pc = "remset" /\ q < rem_limit[i]
    /\ q' = q + 1
    /\ UNCHANGED <<created, next, limit, rem_limit, alloc, ti_limit, nalloc, pc, i, p>>

KeepEntry(n) ==
    /\ pc = "remset" /\ q < rem_limit[i]
    /\ n <= Uncopied
    /\ next' = [next EXCEPT ![i + 1] = @ + n]
    /\ limit' = [limit EXCEPT ![i + 1] = @ - 1]
    /\ q' = q + 1
    /\ UNCHANGED <<created, rem_limit, alloc, ti_limit, nalloc, pc, i, p>>

RemsetDone ==
    /\ pc = "remset" /\ q = rem_limit[i]
    /\ pc' = "copy"
    /\ UNCHANGED <<created, next, limit, rem_limit, alloc, ti_limit, nalloc, i, p, q>>

\* forward_roots and do_scan copy an object of n words.
Copy(n) ==
    /\ pc = "copy"
    /\ n <= Uncopied
    /\ next' = [next EXCEPT ![i + 1] = @ + n]
    /\ UNCHANGED <<created, limit, rem_limit, alloc, ti_limit, nalloc, pc, i, p, q>>

\* Mutants: do_generation leaves one of the two pointers of from-space as is.
EndWithoutLimit ==
    /\ pc = "copy"
    /\ next' = [next EXCEPT ![i] = 0]
    /\ pc' = "check"
    /\ UNCHANGED <<created, limit, rem_limit, alloc, ti_limit, nalloc, i, p, q>>

EndWithoutNext ==
    /\ pc = "copy"
    /\ limit' = [limit EXCEPT ![i] = rem_limit[i]]
    /\ pc' = "check"
    /\ UNCHANGED <<created, next, rem_limit, alloc, ti_limit, nalloc, i, p, q>>

\* do_generation ends: generation i is empty, and so is its remembered set.
EndGeneration ==
    /\ pc = "copy"
    /\ next' = [next EXCEPT ![i] = 0]
    /\ limit' = [limit EXCEPT ![i] = rem_limit[i]]
    /\ pc' = "check"
    /\ UNCHANGED <<created, rem_limit, alloc, ti_limit, nalloc, i, p, q>>

\* Mutants: the room left is measured without the objects that are already in
\* the next generation, or without its remembered set.
RoomForObjectsAlone(j) == rem_limit[j] <= limit[j + 1]

RoomForWithoutRemset(j) == rem_limit[j] <= rem_limit[j + 1] - next[j + 1]

\* Even if all of generation j were live and remembered, the next
\* collection into j+1 would fit.
RoomFor(j) == rem_limit[j] <= limit[j + 1] - next[j + 1]

\* The mutator gets the whole nursery; the locals of the collector go out of
\* scope.
Return ==
    /\ alloc' = 0
    /\ ti_limit' = limit[0]
    /\ pc' = "mutator"
    /\ i' = 0 /\ p' = 0 /\ q' = 0

\* Mutant: the words that were asked for are not looked at.
ResumeAnyway == Return

Resume ==
    IF limit[0] < nalloc
    THEN pc' = "nurseryTooSmall" /\ UNCHANGED <<alloc, ti_limit, i, p, q>>
    ELSE Return

\* Mutant: the same generation is collected again.
SameGeneration ==
    /\ pc' = "create"
    /\ UNCHANGED <<i, alloc, ti_limit, p, q>>

\* i indexes the generation to collect next, if there is another one to
\* collect it into.
NextGeneration ==
    /\ IF i + 1 < MAX_SPACES - 1
       THEN i' = i + 1 /\ pc' = "create"
       ELSE pc' = "outOfGenerations" /\ UNCHANGED i
    /\ UNCHANGED <<alloc, ti_limit, p, q>>

\* Mutant: one word of room too few is accepted.
CheckOffByOne ==
    /\ pc = "check"
    /\ IF rem_limit[i] <= limit[i + 1] - next[i + 1] + 1
       THEN Resume ELSE NextGeneration
    /\ UNCHANGED <<created, next, limit, rem_limit, nalloc>>

Check ==
    /\ pc = "check"
    /\ IF RoomFor(i) THEN Resume ELSE NextGeneration
    /\ UNCHANGED <<created, next, limit, rem_limit, nalloc>>

\* The process has exited.
Halted ==
    /\ pc \in Aborts
    /\ UNCHANGED vars

----------------------------------------------------------------------------

Mutator ==
    \/ \E n \in 1 .. ti_limit - alloc : Allocate(n)
    \/ Modify
    \/ \E n \in Requests : GcCall(n)

Collector ==
    \/ Create
    \/ SkipEntry
    \/ \E n \in 0 .. Uncopied : KeepEntry(n)
    \/ RemsetDone
    \/ \E n \in 1 .. Uncopied : Copy(n)
    \/ EndGeneration
    \/ Check

Next == Mutator \/ Collector \/ Halted

Spec == Init /\ [][Next]_vars

\* A call of garbage_collect runs to its end on the thread that made it.
FairSpec == Spec /\ WF_vars(Collector)

----------------------------------------------------------------------------
(* Properties *)

\* Every pointer of a space descriptor and of the thread is inside its space.
TypeOK ==
    /\ created \subseteq Gens /\ 0 \in created
    /\ next \in [Gens -> Nat]
    /\ limit \in [Gens -> Nat]
    /\ rem_limit \in [Gens -> Nat]
    /\ alloc \in Nat
    /\ ti_limit \in Nat
    /\ nalloc \in Nat
    /\ pc \in {"mutator"} \cup Collecting \cup Aborts
    /\ i \in 0 .. MAX_SPACES - 2 /\ p \in Nat /\ q \in Nat

\* At every step of a collection, the objects copied into a generation and
\* the remembered set growing down towards them do not meet: the comment
\* "start <= next <= limit" of gc_stack.c, which forward relies on without a
\* test of its own.
NeverOverflow ==
    /\ \A j \in Gens : next[j] <= limit[j] /\ limit[j] <= rem_limit[j]
    /\ alloc <= ti_limit /\ ti_limit <= rem_limit[0]

\* Every generation has room in the next one for all of it and its remembered
\* set, "enough space in gen i+1 to guarantee that the NEXT collection into
\* i+1 will succeed", except while garbage_collect is using that room or,
\* having found too little, is about to empty the next generation too.
InUse(j) ==
    \/ j = i /\ pc \in {"remset", "copy", "check"}
    \/ j = i - 1 /\ pc \in {"create", "remset", "copy"}

RoomForNext ==
    pc \notin Aborts =>
        \A j \in Gens : j + 1 \in created => RoomFor(j) \/ InUse(j)

\* The assertion at the head of forward_remset never fails.
RemsetAssertionHolds == pc # "remsetAssertion"

\* The program gives up for want of nursery only when the request exceeds the
\* whole nursery: the remembered set does not eat into it after a collection.
NurseryLargeEnough == pc = "nurseryTooSmall" => nalloc > NURSERY_SIZE

\* While generation i is collected, all the younger ones are empty and
\* remember no cell, so that no pointer into them can be left behind.
YoungerEmpty == \A j \in Gens : j < i => next[j] = 0 /\ limit[j] = rem_limit[j]

\* When garbage_collect returns, the mutator has the words it asked for.
RequestServed ==
    [][pc # "mutator" /\ pc' = "mutator" => ti_limit' - alloc' >= nalloc]_vars

\* Nothing ever leaves the oldest generation, neither objects nor remembered
\* cells: it is the REMARK on the "potential flaw" of the policy.
OldestOnlyGrows ==
    [][/\ next'[MAX_SPACES - 1] >= next[MAX_SPACES - 1]
       /\ MAX_SPACES - 1 \in created =>
              limit'[MAX_SPACES - 1] <= limit[MAX_SPACES - 1]]_vars

\* A collection ends: it resumes the mutator or stops the program.
CollectionEnds == pc = "create" ~> pc \in {"mutator"} \cup Aborts
=============================================================================
