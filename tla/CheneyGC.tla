------------------------------ MODULE CheneyGC ------------------------------
(***************************************************************************)
(* The copying collector of src/runtime/gc_stack.c, word by word: the      *)
(* mutator allocates, loads, stores through the write barrier, and pushes  *)
(* and pops frames of the shadow stack; garbage_collect forwards the       *)
(* remembered set, then the roots, then scans what it has copied.          *)
(*                                                                         *)
(* A header carries the identity of its object, a ghost that the program   *)
(* does not have and that no action reads: it says which object a word is  *)
(* about wherever the collector has put it.                                *)
(***************************************************************************)
EXTENDS Integers, Sequences, FiniteSets, Functions, HeapValues

CONSTANTS
    NURSERY_SIZE, MAX_SPACES, RATIO, Requests,   \* as in Generations
    Ids,         \* bound: the objects that a run allocates, 1 .. n
    MaxFrames,   \* bound: depth of the shadow stack
    Sizes,       \* bound: numbers of fields of the objects
    Kinds,       \* bound: TRUE for objects of values, FALSE for raw data
    MayStore(_, _)   \* MayStore(g, h): the mutator may store a pointer into
                     \* generation h in a cell of generation g

ASSUME GenerationsAssumption ==
    /\ NURSERY_SIZE \in Nat \ {0}
    /\ MAX_SPACES \in Nat /\ MAX_SPACES >= 2
    /\ RATIO \in Nat /\ RATIO >= 2
    /\ Requests \subseteq Nat

\* An object has a field, where its copy is found.
ASSUME ObjectsAssumption ==
    IsFiniteSet(Ids) /\ Sizes \subseteq Nat \ {0} /\ Kinds \subseteq BOOLEAN

VARIABLES
    created, next, limit, rem_limit, alloc, ti_limit, nalloc, pc, i, p, q,
                 \* as in Generations
    mem,         \* mem[g][o]: word o of generation g
    frames,      \* ti->fp: the frames of roots, the last one on top
    fr,          \* forward_roots: the frame that is read, 0 after the last
    s,           \* do_scan: offset in generation i+1 of a header
    j,           \* the slot of the frame, or the field of the object, at hand
    fresh        \* the identity of the next object

policy == <<created, next, limit, rem_limit, alloc, ti_limit, nalloc, pc, i, p, q>>
cursors == <<fr, s, j>>
vars == <<policy, mem, frames, cursors, fresh>>

G == INSTANCE Generations

----------------------------------------------------------------------------
(* Words *)

Ptr(g, o) == <<"ptr", g, o>>            \* points to the first field
Hdr(id, n, scan) == <<"hdr", id, n, scan>>
Forwarded == <<"hdr0">>                 \* the header 0 of a copied object
Cell(g, o) == <<"cell", g, o>>          \* an entry of a remembered set
Junk == <<"junk">>                      \* not initialised, or left behind

\* A word of raw data that has the bits of a pointer into the nursery.
Raw == Ptr(0, 1)

IsPtr(v) == v = Out \/ v[1] = "ptr"
IntoHeap(v) == v[1] = "ptr"
IsHeader(w) == w[1] = "hdr"

\* v[1] = "ptr" below: the object v points to, in the memory m.
HeaderIn(m, v) == m[v[2]][v[3] - 1]
FieldIn(m, v, f) == m[v[2]][v[3] + f - 1]
Written(m, g, o, w) == [m EXCEPT ![g][o] = w]

Space(n) == [o \in 0 .. n - 1 |-> Junk]    \* n words
Top == Len(frames)
Live == Range(frames[Top])

Init ==
    /\ G!Init
    /\ mem = [g \in G!Gens |-> Space(rem_limit[g])]
    /\ frames = <<NewFrame(Unboxed)>>
    /\ fr = 0 /\ s = 0 /\ j = 1
    /\ fresh = 1

----------------------------------------------------------------------------
(* The mutator *)

WithSlot(k, v) == [frames EXCEPT ![Top][k] = v]

\* Slot k gets a new object.
New(k, fields, scan) ==
    /\ fresh \in Ids
    /\ G!Allocate(1 + Len(fields))
    /\ mem' = [mem EXCEPT ![0] = [o \in DOMAIN @ |->
                 IF o = alloc THEN Hdr(fresh, Len(fields), scan)
                 ELSE IF o \in alloc + 1 .. alloc + Len(fields)
                      THEN fields[o - alloc] ELSE @[o]]]
    /\ frames' = WithSlot(k, Ptr(0, alloc + 1))
    /\ fresh' = fresh + 1
    /\ UNCHANGED cursors

Load(k, v, f) ==
    /\ pc = "mutator"
    /\ frames' = WithSlot(k, FieldIn(mem, v, f))
    /\ UNCHANGED <<policy, mem, cursors, fresh>>

\* certirocq_modify: the cell is remembered if the value is a pointer, into
\* the heap or not.
Store(v, f, val) ==
    LET g == v[2]
        o == v[3] + f - 1
    IN  /\ pc = "mutator"
        /\ IntoHeap(val) => MayStore(g, val[2])
        /\ IF IsPtr(val)
           THEN G!Modify
           ELSE /\ pc' = IF alloc < ti_limit THEN pc ELSE "modifyAssertion"
                /\ UNCHANGED <<created, next, limit, rem_limit, alloc, ti_limit,
                               nalloc, i, p, q>>
        /\ mem' = IF alloc < ti_limit
                  THEN LET m == Written(mem, g, o, val)
                       IN  IF IsPtr(val) THEN Written(m, 0, ti_limit - 1, Cell(g, o))
                                         ELSE m
                  ELSE mem
        /\ UNCHANGED <<frames, cursors, fresh>>

Drop(k) ==
    /\ pc = "mutator"
    /\ frames' = WithSlot(k, Unboxed)
    /\ UNCHANGED <<policy, mem, cursors, fresh>>

Call(v) ==
    /\ pc = "mutator" /\ Top < MaxFrames
    /\ frames' = Append(frames, NewFrame(v))
    /\ UNCHANGED <<policy, mem, cursors, fresh>>

Return(k, v) ==
    /\ pc = "mutator" /\ Top > 1
    /\ frames' = [SubSeq(frames, 1, Top - 1) EXCEPT ![Top - 1][k] = v]
    /\ UNCHANGED <<policy, mem, cursors, fresh>>

GcCall(n) ==
    /\ G!GcCall(n)
    /\ UNCHANGED <<mem, frames, cursors, fresh>>

----------------------------------------------------------------------------
(* forward *)

\* v points into the allocated part or the free part of from-space.
Is_from(v) == IntoHeap(v) /\ v[2] = i /\ v[3] < limit[i]

\* Mutant: the header of a copied object is not set to 0.
ForwardUnmarked(v) ==
    IF ~Is_from(v) THEN [mem |-> mem, next |-> next[i + 1], val |-> v]
    ELSE LET sz == HeaderIn(mem, v)[3]
             at == next[i + 1]
         IN  [mem |-> [mem EXCEPT ![i + 1] = [o \in DOMAIN @ |->
                           IF o \in at .. at + sz THEN mem[i][v[3] - 1 + o - at]
                           ELSE @[o]]],
              next |-> at + 1 + sz,
              val |-> Ptr(i + 1, at + 1)]

\* The memory, the next free word of generation i+1 and the new value of a
\* word v that is forwarded.
Forward(v) ==
    IF ~Is_from(v) THEN [mem |-> mem, next |-> next[i + 1], val |-> v]
    ELSE IF HeaderIn(mem, v) = Forwarded
    THEN [mem |-> mem, next |-> next[i + 1], val |-> FieldIn(mem, v, 1)]
    ELSE LET hd == HeaderIn(mem, v)
             sz == hd[3]
             at == next[i + 1]
             newv == Ptr(i + 1, at + 1)
             copied == [mem EXCEPT ![i + 1] = [o \in DOMAIN @ |->
                           IF o \in at .. at + sz THEN mem[i][v[3] - 1 + o - at]
                           ELSE @[o]]]
         IN  [mem |-> Written(Written(copied, i, v[3] - 1, Forwarded), i, v[3], newv),
              next |-> at + 1 + sz,
              val |-> newv]

----------------------------------------------------------------------------
(* The collector *)

Create ==
    /\ G!Create
    /\ mem' = IF created' = created THEN mem
              ELSE [mem EXCEPT ![i + 1] = Space(rem_limit'[i + 1])]
    /\ UNCHANGED <<frames, cursors, fresh>>

\* Mutants: a cell that changes is not remembered in generation i+1, or the
\* remembered set is not looked at.
ForwardEntryForgets ==
    /\ pc = "remset" /\ q < rem_limit[i]
    /\ LET c == mem[i][q]
           f == Forward(mem[c[2]][c[3]])
       IN  IF c[2] = i /\ c[3] < limit[i]
           THEN UNCHANGED <<mem, next>>
           ELSE /\ next' = [next EXCEPT ![i + 1] = f.next]
                /\ mem' = Written(f.mem, c[2], c[3], f.val)
    /\ q' = q + 1
    /\ UNCHANGED <<created, limit, rem_limit, alloc, ti_limit, nalloc, pc, i, p>>
    /\ UNCHANGED <<frames, cursors, fresh>>

SkipEntry == G!SkipEntry /\ UNCHANGED <<mem, frames, cursors, fresh>>

\* One entry of the remembered set of generation i.
ForwardEntry ==
    /\ pc = "remset" /\ q < rem_limit[i]
    /\ LET c == mem[i][q]
           f == Forward(mem[c[2]][c[3]])
           to == limit[i + 1] - 1
           m == Written(f.mem, c[2], c[3], f.val)
       IN  IF c[2] = i /\ c[3] < limit[i]
           THEN UNCHANGED <<mem, next, limit>>
           ELSE /\ next' = [next EXCEPT ![i + 1] = f.next]
                /\ IF f.val # mem[c[2]][c[3]]
                   THEN /\ mem' = Written(m, i + 1, to, c)
                        /\ limit' = [limit EXCEPT ![i + 1] = to]
                   ELSE mem' = m /\ UNCHANGED limit
    /\ q' = q + 1
    /\ UNCHANGED <<created, rem_limit, alloc, ti_limit, nalloc, pc, i, p>>
    /\ UNCHANGED <<frames, cursors, fresh>>

RemsetDone ==
    /\ G!RemsetDone
    /\ fr' = Top /\ j' = 1
    /\ UNCHANGED <<mem, frames, s, fresh>>

\* One slot of one frame, from the top of the stack down.
ForwardRoot ==
    /\ pc = "copy" /\ fr > 0
    /\ LET f == Forward(frames[fr][j])
       IN  /\ frames' = [frames EXCEPT ![fr][j] = f.val]
           /\ mem' = f.mem
           /\ next' = [next EXCEPT ![i + 1] = f.next]
    /\ IF j < Len(frames[fr])
       THEN j' = j + 1 /\ UNCHANGED <<fr, s>>
       ELSE j' = 1 /\ fr' = fr - 1 /\ s' = p
    /\ UNCHANGED <<created, limit, rem_limit, alloc, ti_limit, nalloc, pc, i, p, q>>
    /\ UNCHANGED fresh

Scanning == pc = "copy" /\ fr = 0 /\ s < next[i + 1]

\* Mutants: the fields of raw data are forwarded too, or the scan stays at the
\* first field.
ScanFieldOfAny ==
    /\ Scanning
    /\ j <= mem[i + 1][s][3]
    /\ LET f == Forward(mem[i + 1][s + j])
       IN  /\ mem' = Written(f.mem, i + 1, s + j, f.val)
           /\ next' = [next EXCEPT ![i + 1] = f.next]
    /\ j' = j + 1
    /\ UNCHANGED <<created, limit, rem_limit, alloc, ti_limit, nalloc, pc, i, p, q>>
    /\ UNCHANGED <<frames, fr, s, fresh>>

ScanSameField ==
    /\ Scanning
    /\ mem[i + 1][s][4] /\ j <= mem[i + 1][s][3]
    /\ LET f == Forward(mem[i + 1][s + j])
       IN  /\ mem' = Written(f.mem, i + 1, s + j, f.val)
           /\ next' = [next EXCEPT ![i + 1] = f.next]
    /\ UNCHANGED <<created, limit, rem_limit, alloc, ti_limit, nalloc, pc, i, p, q>>
    /\ UNCHANGED <<frames, cursors, fresh>>

\* One field of the object at s, or the step to the next object.
ScanField ==
    /\ Scanning
    /\ mem[i + 1][s][4] /\ j <= mem[i + 1][s][3]
    /\ LET f == Forward(mem[i + 1][s + j])
       IN  /\ mem' = Written(f.mem, i + 1, s + j, f.val)
           /\ next' = [next EXCEPT ![i + 1] = f.next]
    /\ j' = j + 1
    /\ UNCHANGED <<created, limit, rem_limit, alloc, ti_limit, nalloc, pc, i, p, q>>
    /\ UNCHANGED <<frames, fr, s, fresh>>

\* Mutant: the header is counted twice.
ScanNextPast ==
    /\ Scanning
    /\ ~(mem[i + 1][s][4] /\ j <= mem[i + 1][s][3])
    /\ s' = s + 2 + mem[i + 1][s][3]
    /\ j' = 1
    /\ UNCHANGED <<policy, mem, frames, fr, fresh>>

ScanNext ==
    /\ Scanning
    /\ ~(mem[i + 1][s][4] /\ j <= mem[i + 1][s][3])
    /\ s' = s + 1 + mem[i + 1][s][3]
    /\ j' = 1
    /\ UNCHANGED <<policy, mem, frames, fr, fresh>>

\* The scan has caught up with next.  The words of from-space are not read
\* any more: they become Junk, so that a pointer left behind is seen.
EndGeneration ==
    /\ pc = "copy" /\ fr = 0 /\ ~Scanning
    /\ G!EndGeneration
    /\ mem' = [mem EXCEPT ![i] = Space(rem_limit[i])]
    /\ s' = 0
    /\ UNCHANGED <<frames, fr, j, fresh>>

Check == G!Check /\ UNCHANGED <<mem, frames, cursors, fresh>>

Halted == pc \in G!Aborts /\ UNCHANGED vars

----------------------------------------------------------------------------

\* The objects whose fields the mutator has access to.
LiveScanned ==
    {v \in Live : pc = "mutator" /\ IntoHeap(v) /\ HeaderIn(mem, v)[4]}

Mutator ==
    \/ \E k \in Slots, n \in Sizes :
          \/ TRUE \in Kinds /\ \E fields \in [1 .. n -> Live] : New(k, fields, TRUE)
          \/ FALSE \in Kinds /\ New(k, [f \in 1 .. n |-> Raw], FALSE)
    \/ \E v \in LiveScanned : \E f \in 1 .. HeaderIn(mem, v)[3] :
          \/ \E k \in Slots : Load(k, v, f)
          \/ \E val \in Live \cup {Unboxed, Out} : Store(v, f, val)
    \/ \E k \in Slots : Drop(k)
    \/ \E v \in Live : Call(v)
    \/ \E v \in Live, k \in Slots : Return(k, v)
    \/ \E n \in Requests : GcCall(n)

Collector ==
    \/ Create
    \/ ForwardEntry
    \/ RemsetDone
    \/ ForwardRoot
    \/ ScanField
    \/ ScanNext
    \/ EndGeneration
    \/ Check

Next == Mutator \/ Collector \/ Halted

Spec == Init /\ [][Next]_vars

----------------------------------------------------------------------------
(* The graph behind the words of a memory m and the frames st *)

\* Where the object is now: the program will find it there by the end of the
\* collection.
Resolve(m, v) ==
    IF HeaderIn(m, v) = Forwarded THEN FieldIn(m, v, 1) ELSE v

PointersIn(m, values) == {Resolve(m, v) : v \in {w \in values : IntoHeap(w)}}

FieldsOf(m, v) ==
    LET hd == HeaderIn(m, v)
    IN  IF IsHeader(hd) /\ hd[4] THEN {FieldIn(m, v, f) : f \in 1 .. hd[3]} ELSE {}

LivePtrs(m, st) ==
    LET children(v) == PointersIn(m, FieldsOf(m, v))
        roots == UNION {Range(st[k]) : k \in DOMAIN st}
    IN  Closure(PointersIn(m, roots), children, Cardinality(Ids))

Identity(m, v) ==
    LET hd == HeaderIn(m, Resolve(m, v)) IN IF IsHeader(hd) THEN hd[2] ELSE 0

ValueOf(m, v) == IF IntoHeap(v) THEN Ref(Identity(m, v)) ELSE v

ObjectAt(m, v) ==
    LET hd == HeaderIn(m, v)
        word(f) == FieldIn(m, v, f)
    IN  IF ~IsHeader(hd) THEN Junk
        ELSE [scan |-> hd[4],
              fields |-> [f \in 1 .. hd[3] |->
                            IF hd[4] THEN ValueOf(m, word(f))
                            ELSE IF word(f) = Raw THEN RawData ELSE word(f)]]

\* The frames and the reachable objects, as HeapGraph has them.
Graph(m, st) ==
    LET live == LivePtrs(m, st)
        at(id) == CHOOSE v \in live : Identity(m, v) = id
    IN  [stack |-> [k \in DOMAIN st |-> [l \in Slots |-> ValueOf(m, st[k][l])]],
         objs |-> [id \in {Identity(m, v) : v \in live} |-> ObjectAt(m, at(id))]]

----------------------------------------------------------------------------
(* Properties *)

\* Every generation is made of words, and the cursors are inside the
\* generation, the frame or the object that they go through.
TypeOK ==
    /\ G!TypeOK
    /\ \A g \in G!Gens : DOMAIN mem[g] = 0 .. rem_limit[g] - 1
    /\ \A g \in G!Gens : \A o \in DOMAIN mem[g] :
          mem[g][o][1] \in {"int", "out", "ptr", "hdr", "hdr0", "cell", "junk"}
    /\ \A k \in DOMAIN frames : \A l \in Slots :
          frames[k][l] \in {Unboxed, Out} \/ IntoHeap(frames[k][l])
    /\ fr \in 0 .. Top /\ s \in 0 .. next[i + 1]
    /\ pc = "copy" => IF fr > 0 THEN j \in Slots
                      ELSE Scanning => j \in 1 .. mem[i + 1][s][3] + 1
    /\ fresh \in Nat

\* The collector keeps to its policy: what is copied out of a generation, at
\* every forward, is never more than what the generation held, and the
\* remembered set of the next one never longer.
PolicyRefined == G!Spec

\* Two live pointers to one object are still to one object: it is not copied
\* twice, however many roots, fields and remembered cells reach it.
SharingPreserved ==
    LET live == LivePtrs(mem, frames)
    IN  \A v, w \in live : Identity(mem, v) = Identity(mem, w) => v = w

\* Every live cell that points into a younger generation is in the
\* remembered set of a generation that is collected no later than that one.
RemsetOf(g) ==
    LET first == IF g = 0 THEN ti_limit ELSE limit[g]
    IN  {mem[g][o] : o \in first .. rem_limit[g] - 1}

RememberedSetComplete ==
    pc = "mutator" =>
        \A v \in LivePtrs(mem, frames) :
            HeaderIn(mem, v)[4] => \A f \in 1 .. HeaderIn(mem, v)[3] :
                LET w == FieldIn(mem, v, f)
                IN  IntoHeap(w) /\ w[2] < v[2] =>
                        \E g \in 0 .. w[2] : Cell(v[2], v[3] + f - 1) \in RemsetOf(g)
=============================================================================
