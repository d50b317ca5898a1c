----------------------------- MODULE ExportHeap -----------------------------
(***************************************************************************)
(* export_heap of src/runtime/gc_stack.c: what a value of the heap reaches *)
(* is collected into the oldest generation that exists, then into a space  *)
(* as large as that generation, then into one as large as what is left;    *)
(* the last one is the result.  The collections are those of CheneyGC, in  *)
(* another order and without its tests for room.                           *)
(*                                                                         *)
(* The two spaces take the two indexes after the last generation; nothing  *)
(* runs after an export.  A root that is unboxed is returned as it is, and *)
(* one outside the heap is left out.                                       *)
(***************************************************************************)
EXTENDS CheneyGC

VARIABLES
    phase,   \* where the live data goes: "none", "all" (garbage_collect_all),
             \* "fake" (fake_sp), "value" (value_sp)
    before   \* ghost: the graph of the root when export_heap is called

xvars == <<vars, phase, before>>

ExportInit == Init /\ phase = "none" /\ before = <<>>

\* Bound: two indexes are left for the two spaces.
IndexesLeft == Cardinality(created) + 2 <= MAX_SPACES

\* export_heap, and garbage_collect_all up to its loop: a frame with one root
\* takes the place of the shadow stack.
Export(v) ==
    /\ pc = "mutator" /\ IntoHeap(v) /\ IndexesLeft
    /\ frames' = <<NewFrame(v)>>
    /\ limit' = [limit EXCEPT ![0] = ti_limit]
    /\ next' = [next EXCEPT ![0] = alloc]
    /\ i' = 0
    /\ pc' = "level"
    /\ phase' = "all"
    /\ before' = Graph(mem, <<NewFrame(v)>>)
    /\ UNCHANGED <<created, rem_limit, alloc, ti_limit, nalloc, p, q, mem, cursors, fresh>>

\* do_generation from i to i+1, up to the assertion of forward_remset; start
\* and size are those of generation i+1.
Generation(start, size) ==
    /\ p' = start
    /\ q' = limit[i]
    /\ pc' = IF rem_limit[i] - limit[i] <= size THEN "remset" ELSE "remsetAssertion"

\* The next generation exists.
ToNextGeneration ==
    /\ pc = "level" /\ i + 1 \in created
    /\ Generation(next[i + 1], limit[i + 1])
    /\ UNCHANGED <<created, next, limit, rem_limit, alloc, ti_limit, nalloc, i>>
    /\ UNCHANGED <<mem, frames, cursors, fresh, phase, before>>

\* create_space, for the words that generation i has in use.
ToNewSpace(next_phase) ==
    /\ pc = "level" /\ i + 1 \notin created
    /\ phase' = next_phase
    /\ \/ /\ pc' = "noMemory"
          /\ UNCHANGED <<created, next, limit, rem_limit, mem, p, q>>
       \/ /\ created' = created \cup {i + 1}
          /\ next' = [next EXCEPT ![i + 1] = 0]
          /\ limit' = [limit EXCEPT ![i + 1] = next[i]]
          /\ rem_limit' = [rem_limit EXCEPT ![i + 1] = next[i]]
          /\ mem' = [mem EXCEPT ![i + 1] = Space(next[i])]
          /\ Generation(0, next[i])
    /\ UNCHANGED <<alloc, ti_limit, nalloc, i, frames, cursors, fresh, before>>

\* Mutant: the data is copied once, into a space as large as the generation.
ToFakeOnly == phase = "all" /\ ToNewSpace("value")

ToFake == phase = "all" /\ ToNewSpace("fake")
ToValue == phase = "fake" /\ ToNewSpace("value")

\* do_generation has ended, and the data is in generation i+1.
Onwards ==
    /\ pc = "check" /\ phase # "none"
    /\ i' = i + 1
    /\ pc' = "level"
    /\ UNCHANGED <<created, next, limit, rem_limit, alloc, ti_limit, nalloc, p, q>>
    /\ UNCHANGED <<mem, frames, cursors, fresh, phase, before>>

\* result_block: the first object of value_sp.
Result ==
    /\ pc = "level" /\ phase = "value"
    /\ pc' = "exported"
    /\ UNCHANGED <<created, next, limit, rem_limit, alloc, ti_limit, nalloc, i, p, q>>
    /\ UNCHANGED <<mem, frames, cursors, fresh, phase, before>>

Exported == pc = "exported" /\ UNCHANGED xvars

----------------------------------------------------------------------------

InCollection ==
    \/ phase = "none" /\ (Create \/ Check)
    \/ ForwardEntry \/ RemsetDone \/ ForwardRoot \/ ScanField \/ ScanNext \/ EndGeneration

Exporter == ToNextGeneration \/ ToFake \/ ToValue \/ Onwards \/ Result

ExportNext ==
    \/ (Mutator \/ InCollection \/ Halted) /\ UNCHANGED <<phase, before>>
    \/ \E v \in Live : Export(v)
    \/ Exporter
    \/ Exported

ExportSpec == ExportInit /\ [][ExportNext]_xvars

\* Both calls run to their end on the thread that made them.
ExportFairSpec ==
    ExportSpec /\ WF_xvars(Exporter \/ (InCollection /\ UNCHANGED <<phase, before>>))

----------------------------------------------------------------------------
(* Properties *)

\* "copies the dag [...] into a compact data structure [...] outside the heap.
\* All within-the-heap pointers will now be within the object; [...] records
\* outside the heap, those will point at their original locations"
\* (gc_stack.h): at every step the root still has the graph it had, and in the
\* end the block is full, starts with the root, and points nowhere else but
\* outside the heap.
ExportIsCopy ==
    /\ phase # "none" /\ pc \notin G!Aborts => Graph(mem, frames) = before
    /\ pc = "exported" =>
          /\ frames[1][1] = Ptr(i, 1)
          /\ next[i] = rem_limit[i]
          /\ \A v \in LivePtrs(mem, frames) : v[2] = i

\* A call of garbage_collect or of export_heap ends.
CallsEnd ==
    pc \in {"create", "level"} ~> pc \in {"mutator", "exported"} \cup G!Aborts
=============================================================================
