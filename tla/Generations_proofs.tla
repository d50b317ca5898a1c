------------------------ MODULE Generations_proofs -------------------------
(***************************************************************************)
(* Proofs about Generations, for every nursery size, number of spaces,     *)
(* ratio and set of requests.  The invariants do not hold by themselves:   *)
(* that a generation never overflows needs the room that the previous      *)
(* collections left, minus what the current one has used of it.            *)
(***************************************************************************)
EXTENDS Generations, TLAPS

USE NurseryAssumption, SpacesAssumption, RatioAssumption, RequestsAssumption

----------------------------------------------------------------------------
(* The inductive invariant *)

\* Generations are created in order, and are at least as large as the one
\* before; a generation that does not exist is all zeros (NULL pointers).
Shape ==
    /\ rem_limit[0] = NURSERY_SIZE
    /\ \A j \in Gens : j + 1 \in created =>
           j \in created /\ rem_limit[j] <= rem_limit[j + 1]
    /\ \A j \in Gens : j \notin created =>
           next[j] = 0 /\ limit[j] = 0 /\ rem_limit[j] = 0
    /\ pc \in Collecting => i \in created
    /\ pc \in {"remset", "copy", "check"} => i + 1 \in created

\* What the words of generation i that may still be copied, and the entries
\* of its remembered set that may still be kept, need in generation i+1.
Budget ==
    /\ pc \in {"remset", "copy"} => p <= next[i + 1] /\ Uncopied >= 0
    /\ pc = "remset" =>
           /\ limit[i] <= q /\ q <= rem_limit[i]
           /\ Uncopied + (rem_limit[i] - q) <= limit[i + 1] - next[i + 1]
    /\ pc = "copy" => Uncopied <= limit[i + 1] - next[i + 1]
    /\ pc = "check" => next[i] = 0 /\ limit[i] = rem_limit[i]

IInv ==
    /\ TypeOK
    /\ Shape
    /\ NeverOverflow
    /\ RoomForNext
    /\ Budget
    /\ YoungerEmpty
    /\ RemsetAssertionHolds
    /\ NurseryLargeEnough
----------------------------------------------------------------------------
(* The initial states *)

\* make_tinfo builds a heap that satisfies the inductive invariant.
LEMMA InitInv == Init => IInv
<1> SUFFICES ASSUME Init PROVE IInv
  OBVIOUS
<1>1. TypeOK
  BY DEF Init, TypeOK, Gens, Collecting, Aborts
<1>2. Shape
  <2>1. 0 \in Gens /\ \A j \in Gens : j + 1 # 0
    BY DEF Gens
  <2>2. rem_limit[0] = NURSERY_SIZE
    BY <2>1 DEF Init
  <2>3. \A j \in Gens : j + 1 \notin created
    BY <2>1 DEF Init
  <2>4. \A j \in Gens : j \notin created =>
           next[j] = 0 /\ limit[j] = 0 /\ rem_limit[j] = 0
    BY DEF Init
  <2>5. pc \notin Collecting
    BY DEF Init, Collecting
  <2> QED
    BY <2>2, <2>3, <2>4, <2>5 DEF Shape, Collecting
<1>3. NeverOverflow
  BY DEF Init, NeverOverflow, Gens
<1>4. RoomForNext
  BY DEF Init, RoomForNext, Gens
<1>5. Budget /\ YoungerEmpty /\ RemsetAssertionHolds /\ NurseryLargeEnough
  BY DEF Init, Budget, YoungerEmpty, RemsetAssertionHolds, NurseryLargeEnough
<1> QED
  BY <1>1, <1>2, <1>3, <1>4, <1>5 DEF IInv

----------------------------------------------------------------------------
(* The mutator *)

\* Taking words off the nursery disturbs nothing but ti->alloc <= ti->limit.
LEMMA AllocateInv ==
  ASSUME IInv, NEW n \in 1 .. ti_limit - alloc, Allocate(n)
  PROVE  IInv'
<1>1. TypeOK' /\ NeverOverflow'
  BY DEF IInv, TypeOK, NeverOverflow, Allocate
<1>2. Shape' /\ RoomForNext' /\ Budget' /\ YoungerEmpty'
  BY DEF IInv, Shape, RoomForNext, RoomFor, InUse, Budget, Uncopied, YoungerEmpty, Allocate
<1>3. RemsetAssertionHolds' /\ NurseryLargeEnough'
  BY DEF IInv, RemsetAssertionHolds, NurseryLargeEnough, Allocate
<1> QED
  BY <1>1, <1>2, <1>3 DEF IInv

\* certirocq_modify keeps ti->alloc <= ti->limit, because it asserts it first.
LEMMA ModifyInv ==
  ASSUME IInv, Modify
  PROVE  IInv'
<1>1. TypeOK' /\ NeverOverflow'
  <2>1. CASE alloc < ti_limit
    BY <2>1 DEF IInv, TypeOK, NeverOverflow, Modify
  <2>2. CASE ~(alloc < ti_limit)
    BY <2>2 DEF IInv, TypeOK, NeverOverflow, Modify, Aborts
  <2> QED
    BY <2>1, <2>2
<1>2. Shape' /\ RoomForNext' /\ Budget' /\ YoungerEmpty'
  <2>1. pc = "mutator" /\ pc' \in {"mutator", "modifyAssertion"}
    BY DEF Modify
  <2>2. Shape' /\ Budget'
    BY <2>1 DEF IInv, Shape, Budget, Modify, Collecting
  <2>3. RoomForNext'
    BY <2>1 DEF IInv, RoomForNext, RoomFor, InUse, Modify, Aborts
  <2>4. YoungerEmpty'
    BY DEF IInv, YoungerEmpty, Modify
  <2> QED
    BY <2>2, <2>3, <2>4
<1>3. RemsetAssertionHolds' /\ NurseryLargeEnough'
  BY DEF IInv, RemsetAssertionHolds, NurseryLargeEnough, Modify
<1> QED
  BY <1>1, <1>2, <1>3 DEF IInv

\* The entry of garbage_collect hands alloc and limit over to the nursery's
\* descriptor.
LEMMA GcCallInv ==
  ASSUME IInv, NEW n \in Requests, GcCall(n)
  PROVE  IInv'
<1> USE DEF GcCall
<1>1. 0 \in Gens /\ n \in Nat
  BY DEF Gens
<1>2. TypeOK'
  BY <1>1 DEF IInv, TypeOK, NeverOverflow, Collecting
<1>3. NeverOverflow'
  BY <1>1 DEF IInv, TypeOK, NeverOverflow
<1>4. Shape'
  BY <1>1 DEF IInv, TypeOK, Shape, Collecting
<1>5. RoomForNext'
  <2>1. \A j \in Gens : j + 1 \in created => RoomFor(j)
    BY DEF IInv, RoomForNext, InUse, Aborts
  <2>2. \A j \in Gens : j + 1 # 0
    BY DEF Gens
  <2>3. \A j \in Gens : j + 1 \in created => RoomFor(j)'
    BY <2>1, <2>2 DEF IInv, TypeOK, RoomFor, Gens
  <2> QED
    BY <2>3 DEF RoomForNext
<1>6. Budget' /\ YoungerEmpty'
  BY DEF Budget, YoungerEmpty, Gens
<1>7. RemsetAssertionHolds' /\ NurseryLargeEnough'
  BY DEF RemsetAssertionHolds, NurseryLargeEnough
<1> QED
  BY <1>2, <1>3, <1>4, <1>5, <1>6, <1>7 DEF IInv

----------------------------------------------------------------------------
(* The collector *)

\* The descriptors i and i+1 that a round of the collector works on.
LEMMA RoundIndices ==
  ASSUME TypeOK
  PROVE  i \in Gens /\ i + 1 \in Gens /\ i # i + 1
BY DEF TypeOK, Gens

\* A remembered cell that forward_remset drops only moves its read index.
LEMMA SkipEntryInv ==
  ASSUME IInv, SkipEntry
  PROVE  IInv'
<1> USE DEF SkipEntry
<1>1. TypeOK' /\ NeverOverflow' /\ Shape'
  BY DEF IInv, TypeOK, NeverOverflow, Shape, Collecting
<1>2. RoomForNext' /\ YoungerEmpty'
  BY DEF IInv, RoomForNext, RoomFor, InUse, YoungerEmpty
<1>3. Budget'
  BY RoundIndices DEF IInv, TypeOK, Budget, Uncopied
<1>4. RemsetAssertionHolds' /\ NurseryLargeEnough'
  BY DEF RemsetAssertionHolds, NurseryLargeEnough
<1> QED
  BY <1>1, <1>2, <1>3, <1>4 DEF IInv

\* The end of forward_remset hands what is left of the budget to the copies.
LEMMA RemsetDoneInv ==
  ASSUME IInv, RemsetDone
  PROVE  IInv'
<1> USE DEF RemsetDone
<1>1. TypeOK' /\ NeverOverflow' /\ Shape'
  BY DEF IInv, TypeOK, NeverOverflow, Shape, Collecting
<1>2. RoomForNext' /\ YoungerEmpty'
  BY DEF IInv, RoomForNext, RoomFor, InUse, YoungerEmpty, Aborts
<1>3. Budget'
  BY RoundIndices DEF IInv, TypeOK, Budget, Uncopied
<1>4. RemsetAssertionHolds' /\ NurseryLargeEnough'
  BY DEF RemsetAssertionHolds, NurseryLargeEnough
<1> QED
  BY <1>1, <1>2, <1>3, <1>4 DEF IInv

\* A remembered cell takes one word off the limit and its object n off the
\* room of generation i+1: both are in the budget of the round.
LEMMA KeepEntryInv ==
  ASSUME IInv, NEW n \in 0 .. Uncopied, KeepEntry(n)
  PROVE  IInv'
<1> USE DEF KeepEntry
<1>1. /\ i \in Gens /\ i + 1 \in Gens /\ i # i + 1
      /\ n \in Nat
  BY RoundIndices DEF IInv, TypeOK, Uncopied
<1>2. Budget' /\ limit'[i + 1] \in Nat /\ next'[i + 1] <= limit'[i + 1]
  BY <1>1 DEF IInv, TypeOK, Budget, Uncopied
<1>3. TypeOK' /\ NeverOverflow'
  BY <1>1, <1>2 DEF IInv, TypeOK, NeverOverflow
<1>4. Shape'
  BY <1>1 DEF IInv, TypeOK, Shape, Collecting
<1>5. RoomForNext'
  <2> SUFFICES ASSUME NEW j \in Gens, j + 1 \in created
               PROVE  RoomFor(j)' \/ InUse(j)'
    BY DEF RoomForNext
  <2>1. CASE j = i \/ j = i - 1
    BY <2>1 DEF InUse
  <2>2. CASE j # i /\ j # i - 1
    BY <1>1, <2>2 DEF IInv, TypeOK, RoomForNext, RoomFor, InUse, Aborts, Gens
  <2> QED
    BY <2>1, <2>2
<1>6. YoungerEmpty'
  <2> SUFFICES ASSUME NEW j \in Gens, j < i
               PROVE  (next[j] = 0 /\ limit[j] = rem_limit[j])'
    BY DEF YoungerEmpty
  <2>1. next'[j] = next[j] /\ limit'[j] = limit[j]
    BY <1>1 DEF IInv, TypeOK, Gens
  <2> QED
    BY <2>1 DEF IInv, YoungerEmpty
<1>7. RemsetAssertionHolds' /\ NurseryLargeEnough'
  BY DEF RemsetAssertionHolds, NurseryLargeEnough
<1> QED
  BY <1>2, <1>3, <1>4, <1>5, <1>6, <1>7 DEF IInv

\* forward_roots and do_scan stay inside the budget of the round.
LEMMA CopyInv ==
  ASSUME IInv, NEW n \in 1 .. Uncopied, Copy(n)
  PROVE  IInv'
<1> USE DEF Copy
<1>1. /\ i \in Gens /\ i + 1 \in Gens /\ i # i + 1
      /\ n \in Nat
  BY RoundIndices DEF IInv, TypeOK, Uncopied
<1>2. Budget' /\ next'[i + 1] <= limit'[i + 1]
  BY <1>1 DEF IInv, TypeOK, Budget, Uncopied
<1>3. TypeOK' /\ NeverOverflow'
  BY <1>1, <1>2 DEF IInv, TypeOK, NeverOverflow
<1>4. Shape'
  BY <1>1 DEF IInv, TypeOK, Shape, Collecting
<1>5. RoomForNext'
  <2> SUFFICES ASSUME NEW j \in Gens, j + 1 \in created
               PROVE  RoomFor(j)' \/ InUse(j)'
    BY DEF RoomForNext
  <2>1. CASE j = i \/ j = i - 1
    BY <2>1 DEF InUse
  <2>2. CASE j # i /\ j # i - 1
    BY <1>1, <2>2 DEF IInv, TypeOK, RoomForNext, RoomFor, InUse, Aborts, Gens
  <2> QED
    BY <2>1, <2>2
<1>6. YoungerEmpty'
  <2> SUFFICES ASSUME NEW j \in Gens, j < i
               PROVE  (next[j] = 0 /\ limit[j] = rem_limit[j])'
    BY DEF YoungerEmpty
  <2>1. next'[j] = next[j] /\ limit'[j] = limit[j]
    BY <1>1 DEF IInv, TypeOK, Gens
  <2> QED
    BY <2>1 DEF IInv, YoungerEmpty
<1>7. RemsetAssertionHolds' /\ NurseryLargeEnough'
  BY DEF RemsetAssertionHolds, NurseryLargeEnough
<1> QED
  BY <1>2, <1>3, <1>4, <1>5, <1>6, <1>7 DEF IInv

\* do_generation leaves generation i empty, with all of its words free.
LEMMA EndGenerationInv ==
  ASSUME IInv, EndGeneration
  PROVE  IInv'
<1> USE DEF EndGeneration
<1>1. i \in Gens /\ i + 1 \in Gens /\ i # i + 1
  BY RoundIndices DEF IInv
<1>2. TypeOK' /\ NeverOverflow'
  BY <1>1 DEF IInv, TypeOK, NeverOverflow, Collecting
<1>3. Shape'
  BY <1>1 DEF IInv, TypeOK, Shape, Collecting
<1>4. RoomForNext'
  <2> SUFFICES ASSUME NEW j \in Gens, j + 1 \in created
               PROVE  RoomFor(j)' \/ InUse(j)'
    BY DEF RoomForNext
  <2>1. CASE j = i
    BY <2>1 DEF InUse
  <2>2. CASE j = i - 1
    BY <1>1, <2>2 DEF IInv, TypeOK, Shape, RoomFor, Gens
  <2>3. CASE j # i /\ j # i - 1
    BY <1>1, <2>3 DEF IInv, TypeOK, RoomForNext, RoomFor, InUse, Aborts, Gens
  <2> QED
    BY <2>1, <2>2, <2>3
<1>5. Budget' /\ YoungerEmpty'
  BY <1>1 DEF IInv, TypeOK, Budget, YoungerEmpty, Gens
<1>6. RemsetAssertionHolds' /\ NurseryLargeEnough'
  BY DEF RemsetAssertionHolds, NurseryLargeEnough
<1> QED
  BY <1>2, <1>3, <1>4, <1>5, <1>6 DEF IInv

\* garbage_collect resumes only with room for the next collection; otherwise
\* the next round finds the generation it empties in use.
LEMMA CheckInv ==
  ASSUME IInv, Check
  PROVE  IInv'
<1> USE DEF Check
<1>1. i \in Gens /\ i + 1 \in Gens /\ 0 \in Gens
  BY RoundIndices DEF IInv, Gens
<1>2. next[i] = 0 /\ limit[i] = rem_limit[i] /\ i + 1 \in created
  BY DEF IInv, Budget, Shape
<1>3. limit[0] = NURSERY_SIZE
  <2>1. CASE i = 0
    BY <1>2, <2>1 DEF IInv, Shape
  <2>2. CASE i > 0
    BY <1>1, <2>2 DEF IInv, Shape, YoungerEmpty
  <2> QED
    BY <2>1, <2>2 DEF IInv, TypeOK
<1>4. CASE RoomFor(i) /\ limit[0] < nalloc
  BY <1>3, <1>4 DEF Resume, Return, IInv, TypeOK, Shape, NeverOverflow, RoomForNext, Budget,
     YoungerEmpty, RemsetAssertionHolds, NurseryLargeEnough, Aborts, Collecting
<1>5. CASE RoomFor(i) /\ ~(limit[0] < nalloc)
  <2> USE <1>5 DEF Resume, Return
  <2>1. TypeOK' /\ NeverOverflow'
    BY <1>1, <1>3 DEF IInv, TypeOK, NeverOverflow, Shape
  <2>2. Shape' /\ Budget' /\ YoungerEmpty'
    BY DEF IInv, Shape, Budget, YoungerEmpty, Gens, Collecting
  <2>3. RoomForNext'
    BY <1>1 DEF IInv, TypeOK, RoomForNext, RoomFor, InUse, Aborts
  <2>4. RemsetAssertionHolds' /\ NurseryLargeEnough'
    BY DEF RemsetAssertionHolds, NurseryLargeEnough
  <2> QED
    BY <2>1, <2>2, <2>3, <2>4 DEF IInv
<1>6. CASE ~RoomFor(i) /\ i + 1 < MAX_SPACES - 1
  <2> USE <1>6 DEF NextGeneration
  <2>1. TypeOK' /\ NeverOverflow'
    BY DEF IInv, TypeOK, NeverOverflow, Collecting
  <2>2. pc' = "create" /\ i' = i + 1
    OBVIOUS
  <2>6. Shape' /\ Budget'
    BY <1>2, <2>2 DEF IInv, Shape, Budget
  <2>3. YoungerEmpty'
    <3> SUFFICES ASSUME NEW j \in Gens, j < i + 1
                 PROVE  next[j] = 0 /\ limit[j] = rem_limit[j]
      BY DEF YoungerEmpty
    <3>1. j < i \/ j = i
      BY <1>1 DEF Gens
    <3> QED
      BY <1>2, <3>1 DEF IInv, YoungerEmpty
  <2>4. RoomForNext'
    BY <1>1 DEF IInv, TypeOK, RoomForNext, RoomFor, InUse, Aborts, Gens
  <2>5. RemsetAssertionHolds' /\ NurseryLargeEnough'
    BY DEF RemsetAssertionHolds, NurseryLargeEnough
  <2> QED
    BY <2>1, <2>6, <2>3, <2>4, <2>5 DEF IInv
<1>7. CASE ~RoomFor(i) /\ ~(i + 1 < MAX_SPACES - 1)
  BY <1>7 DEF NextGeneration, IInv, TypeOK, Shape, NeverOverflow, RoomForNext, Budget,
     YoungerEmpty, RemsetAssertionHolds, NurseryLargeEnough, Aborts, Collecting
<1> QED
  BY <1>4, <1>5, <1>6, <1>7

\* A generation is at least as large as the one it is created for.
LEMMA RatioGrows ==
  ASSUME NEW w \in Nat
  PROVE  RATIO * w \in Nat /\ w <= RATIO * w
<1>1. RATIO - 1 \in Nat /\ RATIO * w \in Nat
  OBVIOUS
<1>2. (RATIO - 1) * w \in Nat
  BY <1>1
<1>3. RATIO * w = (RATIO - 1) * w + w
  OBVIOUS
<1> QED
  BY <1>1, <1>2, <1>3

\* The top of the loop has room in generation i+1, new or not, for the whole of
\* generation i and its remembered set.
LEMMA CreateInv ==
  ASSUME IInv, Create
  PROVE  IInv'
<1>1. /\ i \in Gens /\ i + 1 \in Gens /\ i # i + 1
      /\ i \in created
      /\ pc = "create"
      /\ q' = limit[i] /\ p' = next[i + 1]
      /\ UNCHANGED <<alloc, ti_limit, nalloc, i>>
  BY RoundIndices DEF IInv, Shape, Collecting, Create
<1>2. CASE i + 1 \in created
  <2>6. ~InUse(i) /\ pc \notin Aborts
    BY <1>1 DEF InUse, Gens, Aborts
  <2>7. RoomFor(i)
    BY <1>1, <1>2, <2>6 DEF IInv, RoomForNext
  <2>8. rem_limit[i] - limit[i] <= limit[i + 1]
    BY <1>1, <2>7 DEF IInv, TypeOK, RoomFor
  <2>1. pc' = "remset" /\ UNCHANGED <<created, next, limit, rem_limit, alloc, ti_limit, nalloc, i>>
    BY <1>1, <1>2, <2>8 DEF Create
  <2>2. TypeOK' /\ NeverOverflow' /\ Shape'
    BY <1>1, <1>2, <2>1 DEF IInv, TypeOK, NeverOverflow, Shape, Collecting
  <2>3. RoomForNext' /\ YoungerEmpty'
    <3>1. \A j \in Gens : RoomFor(j)' <=> RoomFor(j)
      BY <2>1 DEF RoomFor
    <3> QED
      BY <1>1, <2>1, <2>6, <3>1 DEF IInv, RoomForNext, InUse, YoungerEmpty
  <2>4. Budget'
    BY <1>1, <1>2, <2>1, <2>7 DEF IInv, TypeOK, NeverOverflow, RoomFor, Budget, Uncopied
  <2>5. RemsetAssertionHolds' /\ NurseryLargeEnough'
    BY <2>1 DEF RemsetAssertionHolds, NurseryLargeEnough
  <2> QED
    BY <2>2, <2>3, <2>4, <2>5 DEF IInv
<1>3. CASE i + 1 \notin created /\ pc' = "noMemory"
  <2>1. UNCHANGED <<created, next, limit, rem_limit, alloc, ti_limit, nalloc, i>>
    BY <1>1, <1>3 DEF Create, CreateSpace
  <2>2. TypeOK' /\ NeverOverflow'
    BY <1>1, <1>3, <2>1 DEF IInv, TypeOK, NeverOverflow, Aborts
  <2>3. Shape' /\ Budget' /\ RoomForNext' /\ YoungerEmpty'
    BY <1>3, <2>1 DEF IInv, Shape, Budget, RoomForNext, YoungerEmpty, Aborts, Collecting
  <2>4. RemsetAssertionHolds' /\ NurseryLargeEnough'
    BY <1>3 DEF RemsetAssertionHolds, NurseryLargeEnough
  <2> QED
    BY <2>2, <2>3, <2>4 DEF IInv
<1>4. CASE i + 1 \notin created /\ pc' # "noMemory"
  <2> DEFINE w == RATIO * rem_limit[i]
  <2>1. /\ pc' = "remset"
        /\ created' = created \cup {i + 1}
        /\ next' = [next EXCEPT ![i + 1] = 0]
        /\ limit' = [limit EXCEPT ![i + 1] = w]
        /\ rem_limit' = [rem_limit EXCEPT ![i + 1] = w]
        /\ UNCHANGED <<alloc, ti_limit, nalloc, i>>
    BY <1>1, <1>4 DEF Create, CreateSpace
  <2>2. w \in Nat /\ rem_limit[i] <= w
    BY <1>1, RatioGrows DEF IInv, TypeOK
  <2>3. next[i + 1] = 0 /\ i + 2 \notin created
    <3>1. (i + 1) + 1 = i + 2
      BY <1>1 DEF Gens
    <3> QED
      BY <1>1, <1>4, <3>1 DEF IInv, Shape
  <2> HIDE DEF w
  <2>4. TypeOK' /\ NeverOverflow'
    BY <1>1, <2>1, <2>2 DEF IInv, TypeOK, NeverOverflow, Gens, Collecting
  <2>9. /\ \A j \in Gens : j # i + 1 =>
              next'[j] = next[j] /\ limit'[j] = limit[j] /\ rem_limit'[j] = rem_limit[j]
        /\ rem_limit'[i + 1] = w /\ limit'[i + 1] = w
    BY <1>1, <2>1 DEF IInv, TypeOK
  <2>5. Shape'
    <3>1. rem_limit'[0] = NURSERY_SIZE
      BY <1>1, <2>9 DEF IInv, Shape, Gens
    <3>2. ASSUME NEW j \in Gens, j + 1 \in created'
          PROVE  j \in created' /\ rem_limit'[j] <= rem_limit'[j + 1]
      <4>1. CASE j = i
        BY <1>1, <2>1, <2>2, <2>9, <4>1
      <4>2. CASE j # i
        <5>1. j + 1 \in created /\ j \in created /\ j # i + 1 /\ j + 1 # i + 1
          BY <1>1, <1>4, <2>1, <3>2, <4>2 DEF IInv, Shape, Gens
        <5>2. j + 1 \in Gens
          BY <5>1 DEF IInv, TypeOK
        <5> QED
          BY <2>1, <2>9, <5>1, <5>2 DEF IInv, Shape
      <4> QED
        BY <4>1, <4>2
    <3>3. ASSUME NEW j \in Gens, j \notin created'
          PROVE  next'[j] = 0 /\ limit'[j] = 0 /\ rem_limit'[j] = 0
      BY <2>1, <2>9, <3>3 DEF IInv, Shape
    <3> QED
      BY <1>1, <2>1, <3>1, <3>2, <3>3 DEF Shape
  <2>6. RoomForNext'
    <3> SUFFICES ASSUME NEW j \in Gens, j + 1 \in created', j # i, j # i - 1
                 PROVE  RoomFor(j)'
      BY <2>1 DEF RoomForNext, InUse
    <3>1. j + 1 \in created /\ j # i + 1 /\ j + 1 # i + 1
      <4>1. j + 1 # i + 1
        BY <1>1 DEF Gens
      <4>2. j + 1 \in created
        BY <2>1, <4>1
      <4>3. j = i + 1 => j + 1 = i + 2
        BY <1>1 DEF Gens
      <4> QED
        BY <2>3, <4>1, <4>2, <4>3
    <3>2. ~InUse(j) /\ pc \notin Aborts
      BY <1>1 DEF InUse, Aborts
    <3>3. RoomFor(j) /\ j + 1 \in Gens
      BY <3>1, <3>2 DEF IInv, TypeOK, RoomForNext
    <3> QED
      BY <2>9, <3>1, <3>3 DEF RoomFor
  <2>10. YoungerEmpty'
    <3> SUFFICES ASSUME NEW j \in Gens, j < i
                 PROVE  (next[j] = 0 /\ limit[j] = rem_limit[j])'
      BY <2>1 DEF YoungerEmpty
    <3>1. j # i + 1
      BY <1>1 DEF Gens
    <3> QED
      BY <2>9, <3>1 DEF IInv, YoungerEmpty
  <2>7. Budget'
    BY <1>1, <2>1, <2>2, <2>3 DEF IInv, TypeOK, NeverOverflow, Budget, Uncopied
  <2>8. RemsetAssertionHolds' /\ NurseryLargeEnough'
    BY <2>1 DEF RemsetAssertionHolds, NurseryLargeEnough
  <2> QED
    BY <2>4, <2>5, <2>6, <2>7, <2>8, <2>10 DEF IInv
<1> QED
  BY <1>2, <1>3, <1>4

----------------------------------------------------------------------------
(* The theorems *)

\* Every step of the mutator and of the collector preserves the invariant.
LEMMA NextInv ==
  ASSUME IInv, [Next]_vars
  PROVE  IInv'
<1>1. CASE Mutator
  BY <1>1, AllocateInv, ModifyInv, GcCallInv DEF Mutator
<1>2. CASE Collector
  BY <1>2, CreateInv, SkipEntryInv, KeepEntryInv, RemsetDoneInv, CopyInv,
     EndGenerationInv, CheckInv DEF Collector
<1>3. CASE UNCHANGED vars
  BY <1>3 DEF vars, IInv, TypeOK, Shape, NeverOverflow, RoomForNext, RoomFor, InUse,
     Budget, Uncopied, YoungerEmpty, RemsetAssertionHolds, NurseryLargeEnough
<1> QED
  BY <1>1, <1>2, <1>3 DEF Next, Halted

\* The inductive invariant holds in every reachable state.
THEOREM Invariance == Spec => []IInv
<1>1. Init => IInv
  BY InitInv
<1>2. IInv /\ [Next]_vars => IInv'
  BY NextInv
<1> QED
  BY <1>1, <1>2, PTL DEF Spec

\* Every pointer of a descriptor and of the thread stays inside its space.
THEOREM TypeCorrect == Spec => []TypeOK
<1>1. IInv => TypeOK
  BY DEF IInv
<1> QED
  BY <1>1, Invariance, PTL

\* forward never writes beyond the space it copies into, nor into its
\* remembered set, whatever the mutator allocates and stores.
THEOREM Safety == Spec => []NeverOverflow
<1>1. IInv => NeverOverflow
  BY DEF IInv
<1> QED
  BY <1>1, Invariance, PTL

\* The room that garbage_collect means to leave for the next collection is
\* there, for every pair of generations.
THEOREM Room == Spec => []RoomForNext
<1>1. IInv => RoomForNext
  BY DEF IInv
<1> QED
  BY <1>1, Invariance, PTL

\* The assertion of forward_remset cannot fail when garbage_collect runs it.
THEOREM AssertionSafe == Spec => []RemsetAssertionHolds
<1>1. IInv => RemsetAssertionHolds
  BY DEF IInv
<1> QED
  BY <1>1, Invariance, PTL

\* A request that fits the nursery never stops the program in resume.
THEOREM NurserySafe == Spec => []NurseryLargeEnough
<1>1. IInv => NurseryLargeEnough
  BY DEF IInv
<1> QED
  BY <1>1, Invariance, PTL

\* A collection empties every generation that it has gone through.
THEOREM YoungerSafe == Spec => []YoungerEmpty
<1>1. IInv => YoungerEmpty
  BY DEF IInv
<1> QED
  BY <1>1, Invariance, PTL

\* garbage_collect returns with the words that it was asked for.
THEOREM Served == Spec => RequestServed
<1>1. ASSUME IInv, [Next]_vars, pc # "mutator", pc' = "mutator"
      PROVE  ti_limit' - alloc' >= nalloc
  <2>1. Collector
    BY <1>1 DEF Next, vars, Mutator, Allocate, Modify, GcCall, Halted
  <2>2. Check /\ RoomFor(i) /\ Resume
    BY <1>1, <2>1 DEF Collector, Create, CreateSpace, SkipEntry, KeepEntry, RemsetDone,
       Copy, EndGeneration, Check, NextGeneration
  <2>3. limit[0] >= nalloc /\ alloc' = 0 /\ ti_limit' = limit[0]
    <3>1. 0 \in Gens
      BY DEF Gens
    <3> QED
      BY <1>1, <2>2, <3>1 DEF Resume, Return, IInv, TypeOK
  <2> QED
    BY <1>1, <2>3 DEF IInv, TypeOK
<1> QED
  BY <1>1, Invariance, PTL DEF Spec, RequestServed

\* What reached the oldest generation stays there: garbage_collect never makes
\* room in it.
THEOREM OldestGrows == Spec => OldestOnlyGrows
<1> DEFINE last == MAX_SPACES - 1
           Grows == /\ next'[last] >= next[last]
                    /\ last \in created => limit'[last] <= limit[last]
<1>1. ASSUME IInv, [Next]_vars
      PROVE  Grows
  <2>1. /\ last \in Gens /\ last # 0 /\ last # i /\ i + 1 \in Gens
        /\ next[last] \in Nat /\ limit[last] \in Nat
    BY <1>1 DEF IInv, TypeOK, Gens
  <2> HIDE DEF last
  <2>2. CASE UNCHANGED <<next, limit>>
    BY <2>1, <2>2
  <2>3. CASE \E n \in Requests : GcCall(n)
    BY <1>1, <2>1, <2>3 DEF GcCall, IInv, TypeOK
  <2>4. CASE Create
    <3>1. CASE i + 1 \in created \/ pc' = "noMemory"
      <4>1. UNCHANGED <<next, limit>>
        BY <2>4, <3>1 DEF Create, CreateSpace
      <4> QED
        BY <4>1, <2>2
    <3>2. CASE i + 1 \notin created /\ pc' # "noMemory"
      <4> DEFINE w == RATIO * rem_limit[i]
      <4>1. /\ next' = [next EXCEPT ![i + 1] = 0]
            /\ limit' = [limit EXCEPT ![i + 1] = w]
        BY <2>4, <3>2 DEF Create, CreateSpace
      <4> HIDE DEF w
      <4>2. next[i + 1] = 0
        BY <1>1, <2>1, <3>2 DEF IInv, Shape
      <4>3. next'[last] = next[last]
        BY <1>1, <2>1, <4>1, <4>2 DEF IInv, TypeOK
      <4>4. last # i + 1 => limit'[last] = limit[last]
        BY <1>1, <2>1, <4>1 DEF IInv, TypeOK
      <4>5. CASE last = i + 1
        BY <2>1, <3>2, <4>3, <4>5
      <4>6. CASE last # i + 1
        BY <2>1, <4>3, <4>4, <4>6
      <4> QED
        BY <4>5, <4>6
    <3> QED
      BY <3>1, <3>2
  <2>5. CASE \E n \in 0 .. Uncopied : KeepEntry(n)
    <3>1. PICK n \in 0 .. Uncopied : KeepEntry(n)
      BY <2>5
    <3>2. n \in Nat
      BY <1>1, <2>1, <3>1 DEF Uncopied, IInv, TypeOK
    <3>3. /\ next' = [next EXCEPT ![i + 1] = next[i + 1] + n]
          /\ limit' = [limit EXCEPT ![i + 1] = limit[i + 1] - 1]
      BY <3>1 DEF KeepEntry
    <3> QED
      BY <1>1, <2>1, <3>2, <3>3 DEF IInv, TypeOK
  <2>6. CASE \E n \in 1 .. Uncopied : Copy(n)
    <3>1. PICK n \in 1 .. Uncopied : Copy(n)
      BY <2>6
    <3>2. n \in Nat
      BY <1>1, <2>1, <3>1 DEF Uncopied, IInv, TypeOK
    <3> QED
      BY <1>1, <2>1, <3>1, <3>2 DEF Copy, IInv, TypeOK
  <2>7. CASE EndGeneration
    BY <1>1, <2>1, <2>7 DEF EndGeneration, IInv, TypeOK
  <2> QED
    BY <1>1, <2>2, <2>3, <2>4, <2>5, <2>6, <2>7
    DEF Next, vars, Mutator, Collector, Allocate, Modify, SkipEntry, RemsetDone,
        Check, Halted
<1>2. IInv /\ [Next]_vars => [Grows]_vars
  BY <1>1
<1> QED
  BY <1>2, Invariance, PTL DEF Spec, OldestOnlyGrows
=============================================================================
