------------------------- MODULE CheneyGraph_proofs -------------------------
(* No step of the collector changes the graph of the live objects, and every *)
(* step of the mutator does to it what it means, for every heap.  What       *)
(* export_heap gives out is a copy of that graph, and of nothing else.       *)
EXTENDS CheneyGraph, ExportHeap, CheneyGC_proofs

-----------------------------------------------------------------------------
(* What a stack st reaches of the objects ob *)

RootIds(st) == UNION {H!RefsIn(Range(st[a])) : a \in DOMAIN st}
FieldIds(ob, id) == H!RefsIn(Range(ob[id].fields))

ReachIds(st, ob) ==
    LET fieldsOf(id) == FieldIds(ob, id)
    IN  Closure(RootIds(st), fieldsOf, Cardinality(Ids))

\* f[d] is what is reached in d steps.
WideIds(ob, b) == b \cup UNION {FieldIds(ob, id) : id \in b}
IdSteps(f, st, ob, n) == f = [d \in 0 .. n |-> IF d = 0 THEN RootIds(st) ELSE WideIds(ob, f[d - 1])]

\* There is such a function.
LEMMA IdStepsExist == ASSUME NEW st, NEW ob PROVE \A n \in Nat : \E f : IdSteps(f, st, ob, n)
<1> DEFINE T == {n \in Nat : ~ \E f : IdSteps(f, st, ob, n)}
<1>1. SUFFICES ASSUME T # {} PROVE FALSE
  OBVIOUS
<1>2. PICK n \in T : \A m \in T : n <= m
  BY <1>1, LeastNat, T \subseteq Nat
<1>3. CASE n = 0
  <2> DEFINE f == [d \in 0 .. 0 |-> RootIds(st)]
  <2>1. \A d \in 0 .. 0 : d = 0
    OBVIOUS
  <2>2. IdSteps(f, st, ob, 0)
    BY <2>1 DEF IdSteps
  <2> QED BY <1>2, <1>3, <2>2
<1>4. CASE n # 0
  <2>1. n - 1 \in Nat /\ ~ (n <= n - 1)
    BY <1>2, <1>4
  <2>2. PICK g : IdSteps(g, st, ob, n - 1)
    BY <1>2, <2>1
  <2> DEFINE f == [d \in 0 .. n |-> IF d = 0 THEN RootIds(st) ELSE WideIds(ob, g[d - 1])]
  <2>3. ASSUME NEW d \in 0 .. n, d # 0 PROVE f[d - 1] = g[d - 1]
    <3> DEFINE e == d - 1
    <3>1. e \in 0 .. n - 1 /\ e \in 0 .. n
      BY <1>2, <2>3
    <3> HIDE DEF e
    <3>2. g[e] = IF e = 0 THEN RootIds(st) ELSE WideIds(ob, g[e - 1])
      BY <2>2, <3>1 DEF IdSteps
    <3>3. f[e] = g[e]
      BY <3>1, <3>2
    <3> QED BY <3>3 DEF e
  <2>4. f = [d \in 0 .. n |-> IF d = 0 THEN RootIds(st) ELSE WideIds(ob, f[d - 1])]
    BY <2>3
  <2>5. IdSteps(f, st, ob, n)
    <3> HIDE DEF f
    <3> QED BY <2>4 DEF IdSteps
  <2> QED BY <1>2, <2>5
<1> QED
  BY <1>3, <1>4

\* It is what Closure computes.
LEMMA ReachSteps ==
    ASSUME NEW st, NEW ob
    PROVE  \E f : IdSteps(f, st, ob, Cardinality(Ids)) /\ ReachIds(st, ob) = f[Cardinality(Ids)]
<1> DEFINE n == Cardinality(Ids)
           Eq(f) == f = [d \in 0 .. n |-> IF d = 0 THEN RootIds(st) ELSE WideIds(ob, f[d - 1])]
           after == CHOOSE f : Eq(f)
<1>1. n \in Nat
  BY ObjectsAssumption, FS_CardinalityType
<1>2. PICK h : IdSteps(h, st, ob, n)
  <2> HIDE DEF n
  <2> QED BY <1>1, IdStepsExist
<1>3. ReachIds(st, ob) = after[n]
  BY DEF ReachIds, Closure, WideIds
<1>4. Eq(h)
  BY <1>2 DEF IdSteps
<1> HIDE DEF Eq
<1>5. Eq(after)
  BY <1>4
<1> HIDE DEF after
<1>6. IdSteps(after, st, ob, n)
  BY <1>5 DEF Eq, IdSteps
<1> QED
  BY <1>3, <1>6

\* The identities of U are closed under what is reached from st.
IsClosed(U, st, ob) ==
    RootIds(st) \subseteq U /\ \A id \in U : FieldIds(ob, id) \subseteq U

\* As many steps as there are identities reach all there is to reach.
LEMMA ReachIsLeast ==
    ASSUME NEW st, NEW ob
    PROVE  /\ IsClosed(ReachIds(st, ob), st, ob)
           /\ \A U : IsClosed(U, st, ob) => ReachIds(st, ob) \subseteq U
<1> DEFINE n == Cardinality(Ids)
<1>1. PICK f : IdSteps(f, st, ob, n) /\ ReachIds(st, ob) = f[n]
  BY ReachSteps
<1>2. n \in Nat /\ IsFiniteSet(Ids)
  BY ObjectsAssumption, FS_CardinalityType
<1> HIDE DEF n
<1>3. /\ f[0] = RootIds(st)
      /\ \A d \in 0 .. n : d # 0 => f[d] = WideIds(ob, f[d - 1])
  BY <1>1, <1>2 DEF IdSteps
<1>4. \A d \in 0 .. n : f[d] \subseteq Ids
  <2>1. RootIds(st) \subseteq Ids /\ \A id : FieldIds(ob, id) \subseteq Ids
    BY DEF RootIds, FieldIds, H!RefsIn
  <2> DEFINE T == {d \in Nat : d <= n /\ ~ (f[d] \subseteq Ids)}
  <2>2. T = {}
    <3>1. SUFFICES ASSUME T # {} PROVE FALSE
      OBVIOUS
    <3>2. PICK d \in T : \A e \in T : d <= e
      BY <3>1, LeastNat, T \subseteq Nat
    <3>3. d # 0
      BY <1>3, <2>1, <3>2
    <3>4. d - 1 \in Nat /\ d - 1 <= n /\ ~ (d <= d - 1) /\ d \in 0 .. n
      BY <1>2, <3>2, <3>3
    <3>5. f[d - 1] \subseteq Ids
      BY <3>2, <3>4
    <3>6. f[d] \subseteq Ids
      BY <1>3, <2>1, <3>3, <3>4, <3>5 DEF WideIds
    <3> QED BY <3>2, <3>6
  <2> QED BY <1>2, <2>2
<1>5. ASSUME NEW d \in 0 .. n, d # n, WideIds(ob, f[d]) # f[d]
      PROVE  f[d] \subseteq f[d + 1] /\ Cardinality(f[d + 1]) > Cardinality(f[d])
  <2>1. d + 1 \in 0 .. n /\ d + 1 # 0 /\ d + 1 - 1 = d
    BY <1>2, <1>5
  <2>2. f[d + 1] = WideIds(ob, f[d])
    BY <1>3, <2>1
  <2>3. f[d] \subseteq f[d + 1] /\ f[d] # f[d + 1]
    BY <1>5, <2>2 DEF WideIds
  <2>4. IsFiniteSet(f[d + 1])
    BY <1>2, <1>4, <2>1, FS_Subset
  <2>5. Cardinality(f[d]) <= Cardinality(f[d + 1]) /\ Cardinality(f[d]) # Cardinality(f[d + 1])
    BY <2>3, <2>4, FS_Subset
  <2>6. Cardinality(f[d]) \in Nat /\ Cardinality(f[d + 1]) \in Nat
    BY <2>3, <2>4, FS_Subset, FS_CardinalityType
  <2> QED BY <2>3, <2>5, <2>6
<1>6. \A d \in 0 .. n : WideIds(ob, f[d]) = f[d] \/ Cardinality(f[d]) >= d
  <2> DEFINE T == {d \in Nat : d <= n /\ ~ (WideIds(ob, f[d]) = f[d] \/ Cardinality(f[d]) >= d)}
  <2>2. T = {}
    <3>1. SUFFICES ASSUME T # {} PROVE FALSE
      OBVIOUS
    <3>2. PICK d \in T : \A e \in T : d <= e
      BY <3>1, LeastNat, T \subseteq Nat
    <3>a. d \in 0 .. n
      BY <1>2, <3>2
    <3>3. Cardinality(f[d]) \in Nat
      BY <1>2, <1>4, <3>a, FS_Subset, FS_CardinalityType
    <3>4. d # 0
      BY <3>2, <3>3
    <3> DEFINE e == d - 1
    <3>5. e \in Nat /\ e <= n /\ ~ (d <= e) /\ e \in 0 .. n /\ e # n /\ e + 1 = d
      BY <1>2, <3>4, <3>a
    <3> HIDE DEF e
    <3>6. WideIds(ob, f[e]) = f[e] \/ Cardinality(f[e]) >= e
      BY <3>2, <3>5
    <3>7. f[d] = WideIds(ob, f[e])
      BY <1>3, <3>4, <3>a DEF e
    <3>8. CASE WideIds(ob, f[e]) = f[e]
      BY <3>2, <3>7, <3>8
    <3>9. CASE WideIds(ob, f[e]) # f[e]
      <4>1. Cardinality(f[d]) > Cardinality(f[e])
        BY <1>5, <3>5, <3>9
      <4>2. Cardinality(f[e]) \in Nat
        BY <1>2, <1>4, <3>5, FS_Subset, FS_CardinalityType
      <4>3. Cardinality(f[d]) >= d
        BY <3>3, <3>5, <3>6, <3>9, <4>1, <4>2
      <4> QED BY <3>2, <4>3
    <3> QED BY <3>8, <3>9
  <2> QED BY <1>2, <2>2
<1>7. WideIds(ob, f[n]) = f[n]
  <2>1. n \in 0 .. n
    BY <1>2
  <2>2. CASE Cardinality(f[n]) >= n
    <3>1. f[n] \subseteq Ids
      BY <1>4, <2>1
    <3>2. f[n] = Ids
      <4>1. Cardinality(f[n]) <= Cardinality(Ids) /\ Cardinality(f[n]) \in Nat
        BY <1>2, <3>1, FS_Subset, FS_CardinalityType
      <4>2. Cardinality(f[n]) = Cardinality(Ids)
        BY <1>2, <2>2, <4>1 DEF n
      <4> QED BY <1>2, <3>1, <4>2, FS_Subset
    <3> QED BY <3>2 DEF WideIds, FieldIds, H!RefsIn
  <2> QED BY <1>6, <2>1, <2>2
<1>8. \A d \in 0 .. n : f[0] \subseteq f[d]
  <2> DEFINE T == {d \in Nat : d <= n /\ ~ (f[0] \subseteq f[d])}
  <2>1. SUFFICES ASSUME T # {} PROVE FALSE
    BY <1>2
  <2>2. PICK d \in T : \A e \in T : d <= e
    BY <2>1, LeastNat, T \subseteq Nat
  <2>3. d # 0
    BY <2>2
  <2>4. d - 1 \in Nat /\ d - 1 <= n /\ ~ (d <= d - 1) /\ d \in 0 .. n
    BY <1>2, <2>2, <2>3
  <2>5. f[0] \subseteq f[d - 1]
    BY <2>2, <2>4
  <2>6. f[0] \subseteq f[d]
    BY <1>3, <2>3, <2>4, <2>5 DEF WideIds
  <2> QED BY <2>2, <2>6
<1>9. IsClosed(f[n], st, ob)
  <2>1. n \in 0 .. n
    BY <1>2
  <2> QED BY <1>3, <1>7, <1>8, <2>1 DEF IsClosed, WideIds
<1>10. ASSUME NEW U, IsClosed(U, st, ob) PROVE f[n] \subseteq U
  <2> DEFINE T == {d \in Nat : d <= n /\ ~ (f[d] \subseteq U)}
  <2>1. T = {}
    <3>1. SUFFICES ASSUME T # {} PROVE FALSE
      OBVIOUS
    <3>2. PICK d \in T : \A e \in T : d <= e
      BY <3>1, LeastNat, T \subseteq Nat
    <3>3. d # 0
      BY <1>3, <1>10, <3>2 DEF IsClosed
    <3>4. d - 1 \in Nat /\ d - 1 <= n /\ ~ (d <= d - 1) /\ d \in 0 .. n
      BY <1>2, <3>2, <3>3
    <3>5. f[d - 1] \subseteq U
      BY <3>2, <3>4
    <3>6. f[d] \subseteq U
      BY <1>3, <1>10, <3>3, <3>4, <3>5 DEF WideIds, IsClosed
    <3> QED BY <3>2, <3>6
  <2> QED BY <1>2, <2>1
<1> QED
  BY <1>1, <1>9, <1>10

\* Nothing is reached but what is in a closed set, whatever is beyond it.
LEMMA SameReach ==
    ASSUME NEW U, NEW st, NEW ob, NEW ob2, IsClosed(U, st, ob), \A id \in U : ob2[id] = ob[id]
    PROVE  /\ ReachIds(st, ob2) = ReachIds(st, ob) /\ ReachIds(st, ob) \subseteq U
           /\ Restrict(ob2, ReachIds(st, ob2)) = Restrict(ob, ReachIds(st, ob))
<1> DEFINE k1 == ReachIds(st, ob)
           k2 == ReachIds(st, ob2)
<1>1. IsClosed(k1, st, ob) /\ k1 \subseteq U
  BY ReachIsLeast
<1>2. \A id \in U : FieldIds(ob2, id) = FieldIds(ob, id)
  BY DEF FieldIds
<1>3. IsClosed(U, st, ob2) /\ IsClosed(k1, st, ob2)
  BY <1>1, <1>2 DEF IsClosed
<1>4. k2 \subseteq k1 /\ k2 \subseteq U
  BY <1>3, ReachIsLeast
<1>5. IsClosed(k2, st, ob2)
  BY ReachIsLeast
<1>6. IsClosed(k2, st, ob)
  BY <1>2, <1>4, <1>5 DEF IsClosed
<1>7. k1 \subseteq k2
  BY <1>6, ReachIsLeast
<1>8. k1 = k2
  BY <1>4, <1>7
<1> HIDE DEF k1, k2
<1>9. Restrict(ob2, k2) = Restrict(ob, k1)
  BY <1>1, <1>8 DEF Restrict
<1> QED
  BY <1>1, <1>8, <1>9 DEF k1, k2

-----------------------------------------------------------------------------
(* The objects of a memory *)

SettledPtrs(m, e) == {v \in {Ptr(g, o) : g \in Gens, o \in Nat} : Settled(m, e, v)}

\* All of them, live or not, and the frames, as HeapGraph has them.
AllObjs(m, e) ==
    [id \in {Identity(m, v) : v \in SettledPtrs(m, e)} |->
        ObjectAt(m, CHOOSE v \in SettledPtrs(m, e) : Identity(m, v) = id)]

StackOf(m, st) == [a \in DOMAIN st |-> [l \in Slots |-> ValueOf(m, st[a][l])]]

\* An object has one identity, and an identity one object.
LEMMA Identities ==
    ASSUME NEW m, NEW e, NEW r, NEW n, NEW k, Readable(m, e, r, n, k)
    PROVE  /\ \A v : Settled(m, e, v) => /\ v \in SettledPtrs(m, e) /\ IntoHeap(v)
                                         /\ Resolve(m, v) = v /\ IsVal(m, e, v)
                                         /\ IsHeader(HeaderIn(m, v))
                                         /\ Identity(m, v) = HeaderIn(m, v)[2]
                                         /\ Identity(m, v) \in Given(n)
           /\ \A v, w : Settled(m, e, v) /\ Settled(m, e, w) /\ Identity(m, v) = Identity(m, w) => v = w
<1>1. ASSUME NEW v, Settled(m, e, v)
      PROVE  /\ v \in SettledPtrs(m, e) /\ IntoHeap(v) /\ Resolve(m, v) = v /\ IsVal(m, e, v)
             /\ IsHeader(HeaderIn(m, v))
             /\ Identity(m, v) = HeaderIn(m, v)[2] /\ Identity(m, v) \in Given(n)
             /\ v = Ptr(v[2], v[3]) /\ v[3] \in Nat /\ IsHead(m, e, v[2], v[3] - 1)
             /\ Identity(m, v) = m[v[2]][v[3] - 1][2] /\ m[v[2]][v[3] - 1] # Forwarded
  <2>1. Resolve(m, v) = v /\ IsObj(m, e, v) /\ HeaderIn(m, v) # Forwarded
    BY <1>1 DEF Settled, Resolve
  <2>2. /\ v = Ptr(v[2], v[3]) /\ v[3] \in Nat /\ IsHead(m, e, v[2], v[3] - 1)
        /\ IsHeader(HeaderIn(m, v)) /\ HeaderIn(m, v) = m[v[2]][v[3] - 1]
        /\ HeaderIn(m, v)[2] \in Given(n)
    BY <1>1, SettledFields
  <2>3. Identity(m, v) = HeaderIn(m, v)[2]
    BY <2>1, <2>2 DEF Identity
  <2>4. v \in SettledPtrs(m, e)
    BY <1>1, <2>2 DEF SettledPtrs, IsHead
  <2>5. IntoHeap(v) /\ IsVal(m, e, v)
    BY <2>1 DEF IsObj, IsVal
  <2> QED BY <2>1, <2>2, <2>3, <2>4, <2>5
<1>2. ASSUME NEW v, NEW w, Settled(m, e, v), Settled(m, e, w), Identity(m, v) = Identity(m, w)
      PROVE  v = w
  <2>1. v[2] = w[2] /\ v[3] - 1 = w[3] - 1
    <3>1. Unique(m, e)
      BY DEF Readable
    <3> QED BY <1>1, <1>2, <3>1 DEF Unique
  <2>2. v[3] \in Nat /\ w[3] \in Nat /\ v = Ptr(v[2], v[3]) /\ w = Ptr(w[2], w[3])
    BY <1>1, <1>2
  <2> QED BY <2>1, <2>2
<1> QED
  BY <1>1, <1>2

\* What AllObjs has for them.
LEMMA Objs ==
    ASSUME NEW m, NEW e, NEW r, NEW n, NEW k, Readable(m, e, r, n, k)
    PROVE  /\ DOMAIN AllObjs(m, e) = {Identity(m, v) : v \in SettledPtrs(m, e)}
           /\ \A v : Settled(m, e, v) => /\ Identity(m, v) \in DOMAIN AllObjs(m, e)
                                         /\ AllObjs(m, e)[Identity(m, v)] = ObjectAt(m, v)
           /\ \A id \in DOMAIN AllObjs(m, e) : \E v : Settled(m, e, v) /\ Identity(m, v) = id
<1>1. DOMAIN AllObjs(m, e) = {Identity(m, v) : v \in SettledPtrs(m, e)}
  BY DEF AllObjs
<1>2. ASSUME NEW v, Settled(m, e, v)
      PROVE  /\ Identity(m, v) \in DOMAIN AllObjs(m, e)
             /\ AllObjs(m, e)[Identity(m, v)] = ObjectAt(m, v)
  <2>1. v \in SettledPtrs(m, e)
    BY <1>2, Identities
  <2> DEFINE id == Identity(m, v)
             u == CHOOSE x \in SettledPtrs(m, e) : Identity(m, x) = id
  <2>2. u \in SettledPtrs(m, e) /\ Identity(m, u) = id
    BY <2>1
  <2>3. u = v
    <3>1. Settled(m, e, u)
      BY <2>2 DEF SettledPtrs
    <3> QED BY <1>2, <2>2, <3>1, Identities
  <2>4. id \in DOMAIN AllObjs(m, e)
    BY <1>1, <2>1
  <2>5. AllObjs(m, e)[id] = ObjectAt(m, u)
    BY <2>4 DEF AllObjs
  <2> QED BY <2>3, <2>4, <2>5
<1>3. ASSUME NEW id \in DOMAIN AllObjs(m, e) PROVE \E v : Settled(m, e, v) /\ Identity(m, v) = id
  BY <1>1 DEF SettledPtrs
<1> QED
  BY <1>1, <1>2, <1>3

\* The reference to an object is to what the value is resolved to.
LEMMA ValueFacts ==
    ASSUME NEW m, NEW e, NEW r, NEW n, NEW k, Readable(m, e, r, n, k), NEW w, IsVal(m, e, w)
    PROVE  /\ IntoHeap(w) => /\ Settled(m, e, Resolve(m, w))
                             /\ Identity(m, w) = Identity(m, Resolve(m, w))
                             /\ Identity(m, w) \in Given(n)
                             /\ ValueOf(m, w) = Ref(Identity(m, w))
           /\ ~ IntoHeap(w) => w \in {Unboxed, Out} /\ ValueOf(m, w) = w
<1>1. CASE IntoHeap(w)
  <2>1. Settled(m, e, Resolve(m, w))
    BY <1>1, ResolveSettles
  <2>2. Resolve(m, Resolve(m, w)) = Resolve(m, w) /\ Identity(m, Resolve(m, w)) \in Given(n)
    BY <2>1, Identities
  <2>3. Identity(m, w) = Identity(m, Resolve(m, w))
    BY <2>2 DEF Identity
  <2> QED BY <1>1, <2>1, <2>2, <2>3 DEF ValueOf
<1>2. CASE ~ IntoHeap(w)
  <2>1. w \in {Unboxed, Out}
    BY <1>2 DEF IsVal, IsObj
  <2> QED BY <1>2, <2>1 DEF ValueOf
<1> QED
  BY <1>1, <1>2

\* The values of HeapGraph are those that the graph is made of.
LEMMA SameValues ==
    /\ \A S : H!RefsIn(S) = {id \in Ids : Ref(id) \in S}
    /\ H!Unboxed = Unboxed /\ H!Out = Out /\ H!RawData = RawData /\ H!Slots = Slots
    /\ \A v : H!NewFrame(v) = NewFrame(v)
    /\ \A id : H!Ref(id) = Ref(id)
BY DEF H!RefsIn, H!Ref, Ref, H!Unboxed, Unboxed, H!Out, Out, H!RawData, RawData, H!Slots, Slots,
       H!NewFrame, NewFrame

\* What tells references apart.
LEMMA References ==
    /\ \A id : Ref(id)[1] = "ref" /\ Ref(id)[2] = id
    /\ Unboxed[1] = "int" /\ Out[1] = "out" /\ RawData[1] = "raw"
BY DEF Ref, Unboxed, Out, RawData

\* The identities that values refer to.
LEMMA IdsOfValues ==
    ASSUME NEW m, NEW e, NEW r, NEW n, NEW k, Readable(m, e, r, n, k),
           NEW values, \A w \in values : IsVal(m, e, w)
    PROVE  H!RefsIn({ValueOf(m, w) : w \in values}) = {Identity(m, v) : v \in PointersIn(m, values)}
<1>1. ASSUME NEW id \in H!RefsIn({ValueOf(m, w) : w \in values})
      PROVE  id \in {Identity(m, v) : v \in PointersIn(m, values)}
  <2>1. PICK w \in values : Ref(id) = ValueOf(m, w)
    BY <1>1, SameValues
  <2>2. IsVal(m, e, w)
    OBVIOUS
  <2>3. IntoHeap(w)
    BY <2>1, <2>2, ValueFacts, References
  <2>4. Identity(m, Resolve(m, w)) = id
    BY <2>1, <2>2, <2>3, ValueFacts, References
  <2>5. Resolve(m, w) \in PointersIn(m, values)
    BY <2>3 DEF PointersIn
  <2> QED BY <2>4, <2>5
<1>2. ASSUME NEW v \in PointersIn(m, values)
      PROVE  Identity(m, v) \in H!RefsIn({ValueOf(m, w) : w \in values})
  <2>1. PICK w \in values : IntoHeap(w) /\ v = Resolve(m, w)
    BY DEF PointersIn
  <2>2. IsVal(m, e, w)
    OBVIOUS
  <2>3. ValueOf(m, w) = Ref(Identity(m, v)) /\ Identity(m, v) \in Ids
    BY <2>1, <2>2, ValueFacts DEF Given
  <2> QED BY <2>3, SameValues
<1> QED
  BY <1>1, <1>2

\* The identities that an object refers to.
LEMMA IdsOfFields ==
    ASSUME NEW m, NEW e, NEW r, NEW n, NEW k, Readable(m, e, r, n, k), NEW v, Settled(m, e, v)
    PROVE  FieldIds(AllObjs(m, e), Identity(m, v)) = {Identity(m, u) : u \in Children(m, v)}
<1> DEFINE hd == HeaderIn(m, v)
           fields == ObjectAt(m, v).fields
           all == AllObjs(m, e)
<1>1. /\ v = Ptr(v[2], v[3]) /\ v[3] \in Nat /\ IsHead(m, e, v[2], v[3] - 1)
      /\ IsHeader(hd) /\ hd[3] \in Nat
      /\ \A f \in 1 .. hd[3] : v[3] + f - 1 \in 0 .. e[v[2]] - 1
  BY SettledFields
<1>2. all[Identity(m, v)] = ObjectAt(m, v)
  BY Objs
<1>3. fields = [f \in 1 .. hd[3] |-> IF hd[4] THEN ValueOf(m, FieldIn(m, v, f))
                                     ELSE IF FieldIn(m, v, f) = Raw THEN RawData ELSE FieldIn(m, v, f)]
  BY <1>1 DEF ObjectAt
<1>4. FieldIds(all, Identity(m, v)) = H!RefsIn(Range(fields))
  BY <1>2 DEF FieldIds
<1>5. CASE hd[4]
  <2>1. Range(fields) = {ValueOf(m, w) : w \in FieldsOf(m, v)}
    <3>1. FieldsOf(m, v) = {FieldIn(m, v, f) : f \in 1 .. hd[3]}
      BY <1>1, <1>5 DEF FieldsOf
    <3>2. \A f \in 1 .. hd[3] : fields[f] = ValueOf(m, FieldIn(m, v, f))
      BY <1>3, <1>5
    <3>3. DOMAIN fields = 1 .. hd[3]
      BY <1>3
    <3> HIDE DEF fields, hd
    <3> QED BY <3>1, <3>2, <3>3 DEF Range
  <2>2. \A w \in FieldsOf(m, v) : IsVal(m, e, w)
    BY FieldsAreValues
  <2>3. H!RefsIn({ValueOf(m, w) : w \in FieldsOf(m, v)}) = {Identity(m, u) : u \in PointersIn(m, FieldsOf(m, v))}
    BY <2>2, IdsOfValues
  <2> QED BY <1>4, <2>1, <2>3 DEF Children
<1>6. CASE ~ hd[4]
  <2>1. FieldsOf(m, v) = {}
    BY <1>6 DEF FieldsOf
  <2>2. Children(m, v) = {}
    BY <2>1 DEF Children, PointersIn
  <2>3. ASSUME NEW id, Ref(id) \in Range(fields) PROVE FALSE
    <3>1. PICK f \in DOMAIN fields : Ref(id) = fields[f]
      BY <2>3 DEF Range
    <3>2. f \in 1 .. hd[3] /\ Ref(id) = IF FieldIn(m, v, f) = Raw THEN RawData ELSE FieldIn(m, v, f)
      BY <1>3, <1>6, <3>1
    <3>3. FieldIn(m, v, f) = Ref(id)
      BY <3>2, References
    <3>4. FieldIn(m, v, f)[1] \in Tags
      <4> DEFINE o == v[3] + f - 1
      <4>1. v[2] \in Gens /\ o \in 0 .. e[v[2]] - 1
        BY <1>1, <3>2 DEF IsHead
      <4>2. e[v[2]] \in Nat /\ r[v[2]] \in Nat /\ e[v[2]] <= r[v[2]] /\ Tagged(m, r)
        BY <4>1 DEF Readable, Sized
      <4> HIDE DEF o
      <4>3. m[v[2]][o][1] \in Tags
        BY <4>1, <4>2 DEF Tagged
      <4> QED BY <4>3 DEF FieldIn, o
    <3> QED BY <3>3, <3>4, References DEF Tags
  <2>4. H!RefsIn(Range(fields)) = {}
    BY <2>3, SameValues
  <2> QED BY <1>4, <2>2, <2>4
<1> QED
  BY <1>5, <1>6

\* The identities that the frames refer to.
LEMMA IdsOfRoots ==
    ASSUME NEW m, NEW e, NEW r, NEW n, NEW k, Readable(m, e, r, n, k), NEW st, Roots(m, e, st)
    PROVE  RootIds(StackOf(m, st)) = {Identity(m, v) : v \in RootPtrs(m, st)}
<1> DEFINE sk == StackOf(m, st)
           values == UNION {Range(st[a]) : a \in DOMAIN st}
<1>1. DOMAIN sk = DOMAIN st /\ \A a \in DOMAIN st : sk[a] = [l \in Slots |-> ValueOf(m, st[a][l])]
  BY DEF StackOf
<1> HIDE DEF sk
<1>2. ASSUME NEW a \in DOMAIN st PROVE Range(sk[a]) = {ValueOf(m, w) : w \in Range(st[a])}
  <2>1. st[a] \in [Slots -> Values]
    BY RootsAreValues
  <2>2. DOMAIN st[a] = Slots /\ DOMAIN sk[a] = Slots
    BY <1>1, <2>1
  <2>3. \A l \in Slots : sk[a][l] = ValueOf(m, st[a][l])
    BY <1>1
  <2> QED BY <2>2, <2>3 DEF Range
<1>3. RootIds(sk) = H!RefsIn({ValueOf(m, w) : w \in values})
  <2>1. ASSUME NEW id \in RootIds(sk) PROVE id \in H!RefsIn({ValueOf(m, w) : w \in values})
    <3>1. PICK a \in DOMAIN st : id \in H!RefsIn(Range(sk[a]))
      BY <1>1, <2>1 DEF RootIds
    <3>2. id \in Ids /\ Ref(id) \in {ValueOf(m, w) : w \in Range(st[a])}
      BY <1>2, <3>1, SameValues
    <3> QED BY <3>2, SameValues
  <2>2. ASSUME NEW id \in H!RefsIn({ValueOf(m, w) : w \in values}) PROVE id \in RootIds(sk)
    <3>1. id \in Ids /\ Ref(id) \in {ValueOf(m, w) : w \in values}
      BY <2>2, SameValues
    <3>2. PICK a \in DOMAIN st : \E w \in Range(st[a]) : Ref(id) = ValueOf(m, w)
      BY <3>1
    <3>3. Ref(id) \in Range(sk[a])
      BY <1>2, <3>2
    <3>4. id \in H!RefsIn(Range(sk[a]))
      BY <3>1, <3>3, SameValues
    <3> QED BY <1>1, <3>4 DEF RootIds
  <2> QED BY <2>1, <2>2
<1>4. \A w \in values : IsVal(m, e, w)
  BY RootsAreValues
<1> HIDE DEF values
<1>5. H!RefsIn({ValueOf(m, w) : w \in values}) = {Identity(m, v) : v \in PointersIn(m, values)}
  BY <1>4, IdsOfValues
<1> QED
  BY <1>3, <1>5 DEF sk, values, RootPtrs

\* The search through pointers finds what the search through identities does.
LEMMA SameSearch ==
    ASSUME NEW m, NEW e, NEW r, NEW n, NEW k, Readable(m, e, r, n, k), NEW st, Roots(m, e, st)
    PROVE  ReachIds(StackOf(m, st), AllObjs(m, e)) = {Identity(m, v) : v \in LivePtrs(m, st)}
<1> DEFINE z == Cardinality(Ids)
           sk == StackOf(m, st)
           all == AllObjs(m, e)
<1>1. PICK f : Reached(f, m, st, z) /\ LivePtrs(m, st) = f[z]
  BY LiveReached
<1>2. PICK g : IdSteps(g, sk, all, z) /\ ReachIds(sk, all) = g[z]
  BY ReachSteps
<1>3. z \in Nat
  BY ObjectsAssumption, FS_CardinalityType
<1> HIDE DEF z
<1>4. \A d \in 0 .. z : \A v \in f[d] : Settled(m, e, v)
  BY <1>1, <1>3, ReachedSettled
<1>5. RootIds(sk) = {Identity(m, v) : v \in RootPtrs(m, st)}
  BY IdsOfRoots
<1>6. \A v : Settled(m, e, v) => FieldIds(all, Identity(m, v)) = {Identity(m, u) : u \in Children(m, v)}
  BY IdsOfFields
<1> HIDE DEF sk, all
<1> DEFINE T == {d \in Nat : d <= z /\ g[d] # {Identity(m, v) : v \in f[d]}}
<1>7. T = {}
  <2>1. SUFFICES ASSUME T # {} PROVE FALSE
    OBVIOUS
  <2>2. PICK d \in T : \A a \in T : d <= a
    BY <2>1, LeastNat, T \subseteq Nat
  <2>3. d \in 0 .. z
    BY <1>3, <2>2
  <2>4. CASE d = 0
    <3>1. g[d] = RootIds(sk) /\ f[d] = RootPtrs(m, st)
      BY <1>1, <1>2, <2>3, <2>4 DEF IdSteps, Reached
    <3> QED BY <1>5, <2>2, <3>1
  <2>5. CASE d # 0
    <3> DEFINE a == d - 1
    <3>1. a \in Nat /\ a <= z /\ ~ (d <= a) /\ a \in 0 .. z
      BY <1>3, <2>2, <2>3, <2>5
    <3>2. g[d] = WideIds(all, g[a]) /\ f[d] = Grown(m, f[a])
      BY <1>1, <1>2, <2>3, <2>5 DEF IdSteps, Reached
    <3> HIDE DEF a
    <3>3. g[a] = {Identity(m, v) : v \in f[a]}
      BY <2>2, <3>1
    <3>4. \A v \in f[a] : FieldIds(all, Identity(m, v)) = {Identity(m, u) : u \in Children(m, v)}
      BY <1>4, <1>6, <3>1
    <3>5. WideIds(all, g[a]) = {Identity(m, v) : v \in Grown(m, f[a])}
      <4>1. ASSUME NEW id \in WideIds(all, g[a]) PROVE id \in {Identity(m, v) : v \in Grown(m, f[a])}
        <5>1. CASE id \in g[a]
          BY <3>3, <5>1 DEF Grown
        <5>2. CASE id \notin g[a]
          <6>1. PICK id2 \in g[a] : id \in FieldIds(all, id2)
            BY <4>1, <5>2 DEF WideIds
          <6>2. PICK v \in f[a] : id2 = Identity(m, v)
            BY <3>3, <6>1
          <6>3. id \in {Identity(m, u) : u \in Children(m, v)}
            BY <3>4, <6>1, <6>2
          <6> QED BY <6>2, <6>3 DEF Grown
        <5> QED BY <5>1, <5>2
      <4>2. ASSUME NEW v \in Grown(m, f[a]) PROVE Identity(m, v) \in WideIds(all, g[a])
        <5>1. CASE v \in f[a]
          BY <3>3, <5>1 DEF WideIds
        <5>2. CASE v \notin f[a]
          <6>1. PICK u \in f[a] : v \in Children(m, u)
            BY <4>2, <5>2 DEF Grown
          <6>2. Identity(m, v) \in FieldIds(all, Identity(m, u)) /\ Identity(m, u) \in g[a]
            BY <3>3, <3>4, <6>1
          <6> QED BY <6>2 DEF WideIds
        <5> QED BY <5>1, <5>2
      <4> QED BY <4>1, <4>2
    <3> QED BY <2>2, <3>2, <3>5
  <2> QED BY <2>4, <2>5
<1>8. g[z] = {Identity(m, v) : v \in f[z]}
  BY <1>3, <1>7
<1> QED
  BY <1>1, <1>2, <1>8 DEF sk, all

\* The graph is the frames and what they reach of all objects.
View(m, e, st) ==
    [stack |-> StackOf(m, st),
     objs |-> Restrict(AllObjs(m, e), ReachIds(StackOf(m, st), AllObjs(m, e)))]

LEMMA GraphIs ==
    ASSUME NEW m, NEW e, NEW r, NEW n, NEW k, Readable(m, e, r, n, k), NEW st, Roots(m, e, st)
    PROVE  Graph(m, st) = View(m, e, st)
<1> DEFINE live == LivePtrs(m, st)
           ids == {Identity(m, v) : v \in live}
           all == AllObjs(m, e)
           at(id) == CHOOSE v \in live : Identity(m, v) = id
<1>1. \A v \in live : Settled(m, e, v)
  BY LiveSettled
<1>2. ReachIds(StackOf(m, st), all) = ids
  BY SameSearch
<1> HIDE DEF live
<1>3. ASSUME NEW id \in ids PROVE ObjectAt(m, at(id)) = all[id]
  <2>1. at(id) \in live /\ Identity(m, at(id)) = id
    <3>1. \E v \in live : Identity(m, v) = id
      OBVIOUS
    <3> QED BY <3>1
  <2>2. Settled(m, e, at(id))
    BY <1>1, <2>1
  <2> HIDE DEF at
  <2>3. all[Identity(m, at(id))] = ObjectAt(m, at(id))
    BY <2>2, Objs
  <2> QED BY <2>1, <2>3
<1>4. [id \in ids |-> ObjectAt(m, at(id))] = Restrict(all, ids)
  BY <1>3 DEF Restrict
<1>5. Graph(m, st) = [stack |-> StackOf(m, st), objs |-> [id \in ids |-> ObjectAt(m, at(id))]]
  BY DEF Graph, StackOf, live
<1> HIDE DEF ids, at, all
<1>6. View(m, e, st) = [stack |-> StackOf(m, st), objs |-> Restrict(all, ids)]
  BY <1>2 DEF View, all
<1> QED
  BY <1>4, <1>5, <1>6

-----------------------------------------------------------------------------
(* What does not change the graph *)

\* The values of (m, e) are values of (m2, e2) and refer to what they did, and
\* the objects of (m2, e2) are objects of (m, e), with the same contents.
ValuesKept(m, e, m2, e2) ==
    \A w : IsVal(m, e, w) => IsVal(m2, e2, w) /\ ValueOf(m2, w) = ValueOf(m, w)

ObjectsKept(m, e, m2, e2) ==
    \A v2 : Settled(m2, e2, v2) =>
        \E v : /\ Settled(m, e, v) /\ Identity(m, v) = Identity(m2, v2)
               /\ ObjectAt(m2, v2) = ObjectAt(m, v)

Alike(m, e, m2, e2) == ValuesKept(m, e, m2, e2) /\ ObjectsKept(m, e, m2, e2)

\* A memory is like itself.
LEMMA AlikeSelf == ASSUME NEW m, NEW e PROVE Alike(m, e, m, e)
BY DEF Alike, ValuesKept, ObjectsKept

\* What is like a memory that is like m is like m.
LEMMA AlikeAgain ==
    ASSUME NEW m, NEW e, NEW m2, NEW e2, NEW m3, NEW e3,
           Alike(m, e, m2, e2), Alike(m2, e2, m3, e3)
    PROVE  Alike(m, e, m3, e3)
<1>1. ValuesKept(m, e, m3, e3)
  BY DEF Alike, ValuesKept
<1>2. ASSUME NEW v3, Settled(m3, e3, v3)
      PROVE  \E v : /\ Settled(m, e, v) /\ Identity(m, v) = Identity(m3, v3)
                    /\ ObjectAt(m3, v3) = ObjectAt(m, v)
  <2>1. PICK v2 : /\ Settled(m2, e2, v2) /\ Identity(m2, v2) = Identity(m3, v3)
                  /\ ObjectAt(m3, v3) = ObjectAt(m2, v2)
    BY <1>2 DEF Alike, ObjectsKept
  <2>2. PICK v : /\ Settled(m, e, v) /\ Identity(m, v) = Identity(m2, v2)
                 /\ ObjectAt(m2, v2) = ObjectAt(m, v)
    BY <2>1 DEF Alike, ObjectsKept
  <2> QED BY <2>1, <2>2
<1> QED
  BY <1>1, <1>2 DEF Alike, ObjectsKept

\* All that is reached is among the objects.
LEMMA ObjsClosed ==
    ASSUME NEW m, NEW e, NEW r, NEW n, NEW k, Readable(m, e, r, n, k), NEW st, Roots(m, e, st)
    PROVE  IsClosed(DOMAIN AllObjs(m, e), StackOf(m, st), AllObjs(m, e))
<1> DEFINE U == DOMAIN AllObjs(m, e)
           values == UNION {Range(st[a]) : a \in DOMAIN st}
<1>1. ASSUME NEW S, \A w \in S : IsVal(m, e, w)
      PROVE  {Identity(m, v) : v \in PointersIn(m, S)} \subseteq U
  <2>1. SUFFICES ASSUME NEW v \in PointersIn(m, S) PROVE Identity(m, v) \in U
    OBVIOUS
  <2>2. PICK w \in S : IntoHeap(w) /\ v = Resolve(m, w)
    BY DEF PointersIn
  <2>3. IsVal(m, e, w)
    BY <1>1
  <2>4. Settled(m, e, v)
    BY <2>2, <2>3, ResolveSettles
  <2> QED BY <2>4, Objs
<1>2. \A w \in values : IsVal(m, e, w)
  BY RootsAreValues
<1> HIDE DEF values
<1>3. RootIds(StackOf(m, st)) \subseteq U
  <2>1. RootIds(StackOf(m, st)) = {Identity(m, v) : v \in PointersIn(m, values)}
    BY IdsOfRoots DEF RootPtrs, values
  <2> QED BY <1>1, <1>2, <2>1
<1>4. ASSUME NEW id \in U PROVE FieldIds(AllObjs(m, e), id) \subseteq U
  <2>1. PICK v : Settled(m, e, v) /\ Identity(m, v) = id
    BY Objs
  <2>2. FieldIds(AllObjs(m, e), id) = {Identity(m, u) : u \in PointersIn(m, FieldsOf(m, v))}
    BY <2>1, IdsOfFields DEF Children
  <2>3. \A w \in FieldsOf(m, v) : IsVal(m, e, w)
    BY <2>1, FieldsAreValues
  <2> QED BY <1>1, <2>2, <2>3
<1> QED
  BY <1>3, <1>4 DEF IsClosed

\* The graph is the same if the frames are and objects are kept.
LEMMA GraphKept ==
    ASSUME NEW m, NEW e, NEW r, NEW n, NEW k, Readable(m, e, r, n, k), NEW st, Roots(m, e, st),
           NEW m2, NEW e2, NEW r2, NEW n2, NEW k2, Readable(m2, e2, r2, n2, k2),
           NEW st2, Roots(m2, e2, st2),
           StackOf(m2, st2) = StackOf(m, st), ObjectsKept(m, e, m2, e2)
    PROVE  Graph(m2, st2) = Graph(m, st)
<1> DEFINE all == AllObjs(m, e)
           all2 == AllObjs(m2, e2)
           U == DOMAIN all2
           sk == StackOf(m, st)
<1>1. Graph(m, st) = View(m, e, st) /\ Graph(m2, st2) = View(m2, e2, st2)
  BY GraphIs
<1>2. IsClosed(U, sk, all2)
  BY ObjsClosed
<1>3. ASSUME NEW id \in U PROVE all[id] = all2[id]
  <2>1. PICK v2 : Settled(m2, e2, v2) /\ Identity(m2, v2) = id
    BY Objs
  <2>2. PICK v : /\ Settled(m, e, v) /\ Identity(m, v) = Identity(m2, v2)
                 /\ ObjectAt(m2, v2) = ObjectAt(m, v)
    BY <2>1 DEF ObjectsKept
  <2>3. all2[id] = ObjectAt(m2, v2)
    BY <2>1, Objs
  <2>4. all[id] = ObjectAt(m, v)
    BY <2>1, <2>2, Objs
  <2> QED BY <2>2, <2>3, <2>4
<1> HIDE DEF all, all2, U, sk
<1>4. Restrict(all, ReachIds(sk, all)) = Restrict(all2, ReachIds(sk, all2))
  BY <1>2, <1>3, SameReach
<1>5. View(m, e, st) = [stack |-> sk, objs |-> Restrict(all, ReachIds(sk, all))]
  BY DEF View, sk, all
<1>6. View(m2, e2, st2) = [stack |-> sk, objs |-> Restrict(all2, ReachIds(sk, all2))]
  BY DEF View, sk, all2
<1> QED
  BY <1>1, <1>4, <1>5, <1>6

\* Two settled pointers whose headers and words are the same are to the same
\* object.
LEMMA SameObject ==
    ASSUME NEW m, NEW e, NEW r, NEW n, NEW k, Readable(m, e, r, n, k), NEW v, Settled(m, e, v),
           NEW m2, NEW v2, Resolve(m2, v2) = v2, HeaderIn(m2, v2) = HeaderIn(m, v),
           \A f \in 1 .. HeaderIn(m, v)[3] :
              IF HeaderIn(m, v)[4] THEN ValueOf(m2, FieldIn(m2, v2, f)) = ValueOf(m, FieldIn(m, v, f))
              ELSE FieldIn(m2, v2, f) = FieldIn(m, v, f)
    PROVE  Identity(m, v) = Identity(m2, v2) /\ ObjectAt(m2, v2) = ObjectAt(m, v)
<1> DEFINE hd == HeaderIn(m, v)
           old(f) == IF hd[4] THEN ValueOf(m, FieldIn(m, v, f))
                     ELSE IF FieldIn(m, v, f) = Raw THEN RawData ELSE FieldIn(m, v, f)
           new(f) == IF hd[4] THEN ValueOf(m2, FieldIn(m2, v2, f))
                     ELSE IF FieldIn(m2, v2, f) = Raw THEN RawData ELSE FieldIn(m2, v2, f)
<1>1. IsHeader(hd)
  BY Identities
<1>2. Identity(m, v) = Identity(m2, v2)
  <2>1. Identity(m2, v2) = hd[2]
    BY <1>1 DEF Identity
  <2>2. Identity(m, v) = hd[2]
    BY Identities
  <2> QED BY <2>1, <2>2
<1>3. /\ ObjectAt(m, v) = [scan |-> hd[4], fields |-> [f \in 1 .. hd[3] |-> old(f)]]
      /\ ObjectAt(m2, v2) = [scan |-> hd[4], fields |-> [f \in 1 .. hd[3] |-> new(f)]]
  BY <1>1 DEF ObjectAt
<1>4. \A f \in 1 .. hd[3] : old(f) = new(f)
  OBVIOUS
<1> HIDE DEF hd, old, new
<1>5. [f \in 1 .. hd[3] |-> old(f)] = [f \in 1 .. hd[3] |-> new(f)]
  BY <1>4
<1> QED
  BY <1>2, <1>3, <1>5

\* Where headers are kept, values are.
LEMMA KeptValues ==
    ASSUME NEW m, NEW e, NEW r, NEW n, NEW k, Readable(m, e, r, n, k), NEW m2, Keeps(m, m2, e)
    PROVE  /\ ValuesKept(m, e, m2, e)
           /\ \A v : IsVal(m, e, v) /\ IntoHeap(v) => HeaderIn(m2, v) = HeaderIn(m, v)
           /\ \A v : Settled(m2, e, v) => Settled(m, e, v) /\ Resolve(m2, v) = v
<1>1. FromOnly(m, e, k)
  BY DEF Readable
<1>2. /\ \A v : IsObj(m2, e, v) <=> IsObj(m, e, v)
      /\ \A v : IsVal(m2, e, v) <=> IsVal(m, e, v)
  BY <1>1, KeptObjects
<1>3. ASSUME NEW v, IsObj(m, e, v)
      PROVE  /\ HeaderIn(m2, v) = HeaderIn(m, v)
             /\ HeaderIn(m, v) = Forwarded => FieldIn(m2, v, 1) = FieldIn(m, v, 1)
                                              /\ IsObj(m, e, FieldIn(m, v, 1))
  <2> DEFINE h == v[3] - 1
  <2>1. v[3] \in Nat /\ IsHead(m, e, v[2], h)
    BY <1>3 DEF IsObj
  <2>2. v[3] + 1 - 1 = h + 1
    BY <2>1
  <2>3. /\ m2[v[2]][h] = m[v[2]][h]
        /\ m[v[2]][h] = Forwarded => m2[v[2]][h + 1] = m[v[2]][h + 1] /\ IsObj(m, e, m[v[2]][h + 1])
    <3> HIDE DEF h
    <3> QED BY <1>1, <2>1 DEF Keeps, FromOnly
  <2> QED BY <2>2, <2>3 DEF HeaderIn, FieldIn
<1>4. ASSUME NEW v, IsObj(m, e, v)
      PROVE  Identity(m2, v) = Identity(m, v)
  <2>1. Resolve(m2, v) = Resolve(m, v) /\ IsObj(m, e, Resolve(m, v))
    BY <1>3, <1>4 DEF Resolve
  <2>2. HeaderIn(m2, Resolve(m, v)) = HeaderIn(m, Resolve(m, v))
    BY <1>3, <2>1
  <2> QED BY <2>1, <2>2 DEF Identity
<1>5. ValuesKept(m, e, m2, e)
  <2> SUFFICES ASSUME NEW w, IsVal(m, e, w) PROVE IsVal(m2, e, w) /\ ValueOf(m2, w) = ValueOf(m, w)
    BY DEF ValuesKept
  <2>1. IntoHeap(w) => IsObj(m, e, w)
    BY DEF IsVal, IntoHeap, Unboxed, Out
  <2> QED BY <1>2, <1>4, <2>1 DEF ValueOf
<1>6. \A v : IsVal(m, e, v) /\ IntoHeap(v) => HeaderIn(m2, v) = HeaderIn(m, v)
  <2> SUFFICES ASSUME NEW v, IsVal(m, e, v), IntoHeap(v) PROVE HeaderIn(m2, v) = HeaderIn(m, v)
    OBVIOUS
  <2>1. IsObj(m, e, v)
    BY DEF IsVal, IntoHeap, Unboxed, Out
  <2> QED BY <1>3, <2>1
<1>7. \A v : Settled(m2, e, v) => Settled(m, e, v) /\ Resolve(m2, v) = v
  BY <1>2, <1>3 DEF Settled, Resolve
<1> QED
  BY <1>5, <1>6, <1>7

\* Where the words in use are kept, all is.
SameWords(m, m2, e) == \A g \in Gens : \A o \in 0 .. e[g] - 1 : m2[g][o] = m[g][o]

LEMMA SameWordsAlike ==
    ASSUME NEW m, NEW e, NEW r, NEW n, NEW k, Readable(m, e, r, n, k), NEW m2, SameWords(m, m2, e)
    PROVE  Alike(m, e, m2, e)
<1>1. n \in Nat /\ Sized(m, e, r) /\ Layout(m, e, n)
  BY DEF Readable
<1>2. Keeps(m, m2, e)
  <2>1. \A g, h : IsHead(m, e, g, h) <=> IsHead(m2, e, g, h)
    BY DEF IsHead, SameWords
  <2>2. ASSUME NEW g, NEW h, IsHead(m, e, g, h)
        PROVE  m2[g][h] = m[g][h] /\ m2[g][h + 1] = m[g][h + 1]
    <3>1. /\ g \in Gens /\ h \in Nat /\ e[g] \in Nat
          /\ SizeAt(m, g, h) \in Nat \ {0} /\ h + SizeAt(m, g, h) < e[g]
      BY <1>1, <2>2, HeadFacts
    <3>2. h \in 0 .. e[g] - 1 /\ h + 1 \in 0 .. e[g] - 1
      BY <3>1
    <3> QED BY <3>1, <3>2 DEF SameWords
  <2> QED BY <2>1, <2>2 DEF Keeps
<1>3. ValuesKept(m, e, m2, e)
  BY <1>2, KeptValues
<1>4. ASSUME NEW v, Settled(m2, e, v)
      PROVE  /\ Settled(m, e, v) /\ Identity(m, v) = Identity(m2, v)
             /\ ObjectAt(m2, v) = ObjectAt(m, v)
  <2>1. Settled(m, e, v) /\ Resolve(m2, v) = v
    BY <1>2, <1>4, KeptValues
  <2>2. HeaderIn(m2, v) = HeaderIn(m, v)
    <3>1. IsVal(m, e, v) /\ IntoHeap(v)
      BY <2>1, Identities
    <3> QED BY <1>2, <3>1, KeptValues
  <2>3. ASSUME NEW f \in 1 .. HeaderIn(m, v)[3]
        PROVE  /\ FieldIn(m2, v, f) = FieldIn(m, v, f)
               /\ HeaderIn(m, v)[4] => IsVal(m, e, FieldIn(m, v, f))
    <3>1. /\ IsHead(m, e, v[2], v[3] - 1) /\ v[3] + f - 1 \in 0 .. e[v[2]] - 1
          /\ HeaderIn(m, v)[4] => IsVal(m, e, FieldIn(m, v, f))
      BY <2>1, SettledFields
    <3> QED BY <3>1 DEF SameWords, FieldIn, IsHead
  <2>4. \A f \in 1 .. HeaderIn(m, v)[3] :
           IF HeaderIn(m, v)[4] THEN ValueOf(m2, FieldIn(m2, v, f)) = ValueOf(m, FieldIn(m, v, f))
           ELSE FieldIn(m2, v, f) = FieldIn(m, v, f)
    BY <1>3, <2>3 DEF ValuesKept
  <2>5. Identity(m, v) = Identity(m2, v) /\ ObjectAt(m2, v) = ObjectAt(m, v)
    BY <2>1, <2>2, <2>4, SameObject
  <2> QED BY <2>1, <2>5
<1>5. ObjectsKept(m, e, m2, e)
  BY <1>4 DEF ObjectsKept
<1> QED
  BY <1>3, <1>5 DEF Alike

\* A field is written: no other field of an object is.
LEMMA FieldWritten ==
    ASSUME NEW m, NEW e, NEW r, NEW n, NEW k, Readable(m, e, r, n, k),
           NEW g, NEW h, NEW o, Field(m, e, g, h, o), NEW w, IsVal(m, e, w),
           NEW m2, m2 = Written(m, g, o, w)
    PROVE  /\ Keeps(m, m2, e) /\ m2[g][o] = w
           /\ \A v : Settled(m, e, v) =>
                 /\ HeaderIn(m2, v) = HeaderIn(m, v)
                 /\ \A f \in 1 .. HeaderIn(m, v)[3] :
                       IF v[2] = g /\ v[3] + f - 1 = o
                       THEN v[3] - 1 = h /\ HeaderIn(m, v)[4] /\ FieldIn(m2, v, f) = w
                       ELSE FieldIn(m2, v, f) = FieldIn(m, v, f)
<1>1. n \in Nat /\ Sized(m, e, r) /\ Layout(m, e, n)
  BY DEF Readable
<1>2. /\ IsHead(m, e, g, h) /\ m[g][h] # Forwarded /\ m[g][h][4] /\ o \in h + 1 .. h + m[g][h][3]
      /\ g \in Gens /\ h \in Nat /\ h < e[g] /\ e[g] \in Nat /\ r[g] \in Nat /\ e[g] <= r[g]
      /\ SizeAt(m, g, h) = m[g][h][3] /\ SizeAt(m, g, h) \in Nat \ {0} /\ h + SizeAt(m, g, h) < e[g]
  BY <1>1, HeadFacts DEF Field
<1>3. o \in 0 .. r[g] - 1 /\ o \in h .. h + SizeAt(m, g, h)
  BY <1>2
<1>4. w[1] \notin HeaderTags
  BY ValueTags
<1>5. /\ Keeps(m, m2, e) /\ m2[g][o] = w
      /\ \A g2 \in Gens : \A o2 \in 0 .. r[g2] - 1 : g2 # g \/ o2 # o => m2[g2][o2] = m[g2][o2]
  <2>1. o >= e[g] \/ \E h1 : Field(m, e, g, h1, o)
    OBVIOUS
  <2> QED BY <1>1, <1>2, <1>3, <1>4, <2>1, WrittenKeeps
<1>6. ASSUME NEW v, Settled(m, e, v)
      PROVE  /\ HeaderIn(m2, v) = HeaderIn(m, v)
             /\ \A f \in 1 .. HeaderIn(m, v)[3] :
                   IF v[2] = g /\ v[3] + f - 1 = o
                   THEN v[3] - 1 = h /\ HeaderIn(m, v)[4] /\ FieldIn(m2, v, f) = w
                   ELSE FieldIn(m2, v, f) = FieldIn(m, v, f)
  <2>1. IsVal(m, e, v) /\ IntoHeap(v)
    BY <1>6, Identities
  <2>2. HeaderIn(m2, v) = HeaderIn(m, v)
    BY <1>5, <2>1, KeptValues
  <2>3. SUFFICES ASSUME NEW f \in 1 .. HeaderIn(m, v)[3]
                 PROVE  IF v[2] = g /\ v[3] + f - 1 = o
                        THEN v[3] - 1 = h /\ HeaderIn(m, v)[4] /\ FieldIn(m2, v, f) = w
                        ELSE FieldIn(m2, v, f) = FieldIn(m, v, f)
    BY <2>2
  <2> DEFINE h1 == v[3] - 1
             o1 == v[3] + f - 1
  <2>4. /\ IsHead(m, e, v[2], h1) /\ HeaderIn(m, v) = m[v[2]][h1]
        /\ o1 \in 0 .. e[v[2]] - 1 /\ o1 \in h1 + 1 .. h1 + SizeAt(m, v[2], h1)
    BY <1>6, SettledFields
  <2>5. /\ v[2] \in Gens /\ e[v[2]] \in Nat /\ r[v[2]] \in Nat /\ e[v[2]] <= r[v[2]]
        /\ h1 \in Nat /\ SizeAt(m, v[2], h1) \in Nat
    BY <1>1, <2>4, HeadFacts
  <2>6. FieldIn(m2, v, f) = m2[v[2]][o1] /\ FieldIn(m, v, f) = m[v[2]][o1]
    BY DEF FieldIn
  <2> HIDE DEF h1, o1
  <2>7. CASE v[2] = g /\ o1 = o
    <3>1. o1 \in h1 .. h1 + SizeAt(m, v[2], h1)
      BY <2>4, <2>5
    <3>2. h1 = h
      BY <1>1, <1>2, <1>3, <2>4, <2>7, <3>1, Apart
    <3> QED BY <1>2, <1>5, <2>4, <2>6, <2>7, <3>2 DEF h1, o1
  <2>8. CASE ~ (v[2] = g /\ o1 = o)
    <3>1. o1 \in 0 .. r[v[2]] - 1
      BY <2>4, <2>5
    <3>2. m2[v[2]][o1] = m[v[2]][o1]
      BY <1>5, <2>5, <2>8, <3>1
    <3> QED BY <2>6, <2>8, <3>2 DEF o1
  <2> QED BY <2>7, <2>8
<1> QED
  BY <1>5, <1>6

\* A pointer to a copy of an object is as good as a pointer to the object.
LEMMA WriteAlike ==
    ASSUME NEW m, NEW e, NEW r, NEW n, NEW k, Readable(m, e, r, n, k),
           NEW g, NEW h, NEW o, Field(m, e, g, h, o), NEW w, IsVal(m, e, w),
           ValueOf(m, w) = ValueOf(m, m[g][o]), NEW m2, m2 = Written(m, g, o, w)
    PROVE  Alike(m, e, m2, e)
<1>1. /\ Keeps(m, m2, e) /\ m2[g][o] = w
      /\ \A v : Settled(m, e, v) =>
            /\ HeaderIn(m2, v) = HeaderIn(m, v)
            /\ \A f \in 1 .. HeaderIn(m, v)[3] :
                  IF v[2] = g /\ v[3] + f - 1 = o
                  THEN v[3] - 1 = h /\ HeaderIn(m, v)[4] /\ FieldIn(m2, v, f) = w
                  ELSE FieldIn(m2, v, f) = FieldIn(m, v, f)
  BY FieldWritten
<1>2. ValuesKept(m, e, m2, e)
  BY <1>1, KeptValues
<1>3. ASSUME NEW v, Settled(m2, e, v)
      PROVE  /\ Settled(m, e, v) /\ Identity(m, v) = Identity(m2, v)
             /\ ObjectAt(m2, v) = ObjectAt(m, v)
  <2>1. Settled(m, e, v) /\ Resolve(m2, v) = v
    BY <1>1, <1>3, KeptValues
  <2>2. HeaderIn(m2, v) = HeaderIn(m, v)
    BY <1>1, <2>1
  <2>3. ASSUME NEW f \in 1 .. HeaderIn(m, v)[3]
        PROVE  IF HeaderIn(m, v)[4] THEN ValueOf(m2, FieldIn(m2, v, f)) = ValueOf(m, FieldIn(m, v, f))
               ELSE FieldIn(m2, v, f) = FieldIn(m, v, f)
    <3>1. HeaderIn(m, v)[4] => IsVal(m, e, FieldIn(m, v, f))
      BY <2>1, SettledFields
    <3>2. CASE v[2] = g /\ v[3] + f - 1 = o
      <4>1. HeaderIn(m, v)[4] /\ FieldIn(m2, v, f) = w
        BY <1>1, <2>1, <3>2
      <4>2. FieldIn(m, v, f) = m[g][o]
        BY <3>2 DEF FieldIn
      <4>3. ValueOf(m2, w) = ValueOf(m, w)
        BY <1>2 DEF ValuesKept
      <4> QED BY <4>1, <4>2, <4>3
    <3>3. CASE ~ (v[2] = g /\ v[3] + f - 1 = o)
      <4>1. FieldIn(m2, v, f) = FieldIn(m, v, f)
        BY <1>1, <2>1, <3>3
      <4> QED BY <1>2, <3>1, <4>1 DEF ValuesKept
    <3> QED BY <3>2, <3>3
  <2>4. Identity(m, v) = Identity(m2, v) /\ ObjectAt(m2, v) = ObjectAt(m, v)
    BY <2>1, <2>2, <2>3, SameObject
  <2> QED BY <2>1, <2>4
<1>4. ObjectsKept(m, e, m2, e)
  BY <1>3 DEF ObjectsKept
<1> QED
  BY <1>2, <1>4 DEF Alike

-----------------------------------------------------------------------------
(* What forward does to the graph *)

\* The object at h0 of generation k is copied, as CopyMoves has it.
CopyStep(m, m3, e, e2, k, t, r, n, h0, sz, v0) ==
    /\ Copying(m, CopyOf(m, k, t, h0, e[t], sz), e, e2, k, t, r, n, h0, sz)
    /\ v0 = Ptr(t, e[t] + 1) /\ m3 = MarkedAs(CopyOf(m, k, t, h0, e[t], sz), k, h0, v0)
    /\ Readable(m, e, r, n, k) /\ Readable(m3, e2, r, n, k)

\* Every word that is in use after that, and where it is from.
LEMMA CopyWords ==
    ASSUME NEW m, NEW m3, NEW e, NEW e2, NEW k, NEW t, NEW r, NEW n, NEW h0, NEW sz, NEW v0,
           CopyStep(m, m3, e, e2, k, t, r, n, h0, sz, v0)
    PROVE  /\ \A g, h : IsHead(m3, e2, g, h) <=> IsHead(m, e, g, h) \/ (g = t /\ h = e[t])
           /\ \A g, h : IsHead(m, e, g, h) /\ ~ (g = k /\ h = h0) =>
                 m3[g][h] = m[g][h] /\ (m[g][h] = Forwarded => m3[g][h + 1] = m[g][h + 1])
           /\ m3[k][h0] = Forwarded /\ m3[k][h0 + 1] = v0
           /\ m3[t][e[t]] = m[k][h0] /\ \A f \in 1 .. sz : m3[t][e[t] + f] = m[k][h0 + f]
           /\ \A g \in Gens : \A o \in 0 .. e[g] - 1 :
                 g # k \/ o \notin {h0, h0 + 1} => m3[g][o] = m[g][o]
           /\ k # t /\ e[t] \in Nat /\ h0 \in Nat /\ sz \in Nat
<1> DEFINE at == e[t]
           m2 == CopyOf(m, k, t, h0, at, sz)
<1>0. /\ Copying(m, m2, e, e2, k, t, r, n, h0, sz)
      /\ v0 = Ptr(t, at + 1) /\ m3 = MarkedAs(m2, k, h0, v0)
      /\ n \in Nat /\ Follows(k, t) /\ Sized(m, e, r) /\ Layout(m, e, n) /\ FromOnly(m, e, k)
      /\ IsHead(m, e, k, h0) /\ m[k][h0] # Forwarded /\ sz = m[k][h0][3]
      /\ Longer(e, e2, t, sz)
  BY DEF CopyStep, Copying, Readable
<1> HIDE DEF m2
<1>1. /\ Sized(m2, e2, r) /\ Appended(m, m2, e, e2, t, sz)
      /\ m2[t][at] = m[k][h0] /\ m[k][h0] \in Headers(n)
      /\ CopiedWords(m, m2, r, k, t, h0, at, sz)
  BY <1>0, CopyAppends
<1>2. Appending(m, m2, e, e2, r, n, t, sz)
  BY <1>0, <1>1 DEF Appending
<1>3. /\ k \in Gens /\ t \in Gens /\ t = k + 1 /\ k # t
      /\ at \in Nat /\ sz \in Nat /\ sz # 0 /\ r[t] \in Nat /\ h0 \in Nat
      /\ h0 + sz < e[k] /\ e[k] \in Nat /\ at + sz < r[t]
  <2>1. h0 \in Nat /\ h0 + SizeAt(m, k, h0) < e[k] /\ SizeAt(m, k, h0) = sz /\ e[k] \in Nat
    BY <1>0, HeadFacts
  <2>2. k \in Gens /\ t \in Gens /\ t = k + 1 /\ k # t
    BY <1>0 DEF Follows, Gens
  <2>3. at \in Nat /\ sz \in Nat /\ sz # 0 /\ r[t] \in Nat
    BY <1>0, <1>1, <2>2 DEF Sized, Appended
  <2>4. at + 1 + sz <= r[t]
    BY <1>0 DEF Copying, Fits
  <2> QED BY <2>1, <2>2, <2>3, <2>4
<1>4. /\ \A g, h : IsHead(m2, e2, g, h) <=> IsHead(m, e, g, h) \/ (g = t /\ h = at)
      /\ \A g, h : IsHead(m, e, g, h) => m2[g][h] = m[g][h] /\ m2[g][h + 1] = m[g][h + 1]
  BY <1>2, AppendedHeads
<1>5. Layout(m2, e2, n) /\ FromOnly(m2, e2, k)
  BY <1>0, <1>2, AppendedObjects, AppendedLayout
<1>6. IsObj(m2, e2, v0) /\ v0[2] = t /\ HeaderIn(m2, v0)[3] = sz
  <2>1. v0[1] = "ptr" /\ v0[2] = t /\ v0[3] = at + 1
    BY <1>0, WordParts
  <2>2. v0[3] - 1 = at /\ v0[3] \in Nat
    BY <1>3, <2>1
  <2> QED BY <1>0, <1>1, <1>4, <2>1, <2>2 DEF IsObj, IntoHeap, HeaderIn
<1>7. IsHead(m2, e2, k, h0) /\ m2[k][h0] = m[k][h0]
  BY <1>0, <1>4
<1>8. Marked(m2, m3, e2, k, h0, v0)
  BY <1>0, <1>1, <1>5, <1>6, <1>7, MarkedWords
<1>9. Marking(m2, m3, e2, k, r, n, h0, v0)
  BY <1>0, <1>1, <1>5, <1>8 DEF Marking
<1>10. /\ \A g, h : IsHead(m3, e2, g, h) <=> IsHead(m2, e2, g, h)
       /\ \A g, h : IsHead(m2, e2, g, h) /\ ~ (g = k /\ h = h0) =>
             m3[g][h] = m2[g][h] /\ (m2[g][h] = Forwarded => m3[g][h + 1] = m2[g][h + 1])
  BY <1>9, MarkedHeads
<1>11. /\ m3[k][h0] = Forwarded /\ m3[k][h0 + 1] = v0
       /\ \A g \in Gens : \A o \in 0 .. e2[g] - 1 :
             g # k \/ o \notin {h0, h0 + 1} => m3[g][o] = m2[g][o]
  BY <1>8 DEF Marked
<1>12. \A g, h : IsHead(m3, e2, g, h) <=> IsHead(m, e, g, h) \/ (g = t /\ h = at)
  BY <1>4, <1>10
<1>13. \A g, h : IsHead(m, e, g, h) /\ ~ (g = k /\ h = h0) =>
          m3[g][h] = m[g][h] /\ (m[g][h] = Forwarded => m3[g][h + 1] = m[g][h + 1])
  BY <1>4, <1>10
<1>14. ASSUME NEW f \in 0 .. sz PROVE m3[t][at + f] = m[k][h0 + f]
  <2>1. /\ at + f \in 0 .. r[t] - 1 /\ at + f \in at .. at + sz /\ h0 + (at + f) - at = h0 + f
        /\ at + f \in 0 .. (at + 1 + sz) - 1
    <3> HIDE DEF at
    <3> QED BY <1>3
  <2>2. m2[t][at + f] = m[k][h0 + (at + f) - at]
    BY <1>1, <2>1 DEF CopiedWords
  <2>3. e2[t] = at + 1 + sz
    BY <1>0 DEF Longer
  <2>4. m3[t][at + f] = m2[t][at + f]
    BY <1>3, <1>11, <2>1, <2>3
  <2> QED BY <2>1, <2>2, <2>4
<1>15. m3[t][at] = m[k][h0] /\ \A f \in 1 .. sz : m3[t][at + f] = m[k][h0 + f]
  <2>1. 0 \in 0 .. sz /\ at + 0 = at /\ h0 + 0 = h0 /\ \A f \in 1 .. sz : f \in 0 .. sz
    <3> HIDE DEF at
    <3> QED BY <1>3
  <2>2. m3[t][at + 0] = m[k][h0 + 0]
    BY <1>14, <2>1
  <2> QED BY <1>14, <2>1, <2>2
<1>16. ASSUME NEW g \in Gens, NEW o \in 0 .. e[g] - 1, g # k \/ o \notin {h0, h0 + 1}
       PROVE  m3[g][o] = m[g][o]
  <2>1. m2[g][o] = m[g][o]
    BY <1>1 DEF Appended
  <2>2. o \in 0 .. e2[g] - 1
    <3>1. CASE g = t
      <4>1. e2[g] = at + 1 + sz /\ o \in 0 .. at - 1
        BY <1>0, <3>1 DEF Longer
      <4> HIDE DEF at
      <4> QED BY <1>3, <4>1
    <3>2. CASE g # t
      BY <1>0, <3>2 DEF Longer
    <3> QED BY <3>1, <3>2
  <2> QED BY <1>11, <1>16, <2>1, <2>2
<1> QED
  BY <1>3, <1>11, <1>12, <1>13, <1>15, <1>16

\* A copy is as good as the object, and every value refers to what it did.
LEMMA CopyAlike ==
    ASSUME NEW m, NEW m3, NEW e, NEW e2, NEW k, NEW t, NEW r, NEW n, NEW h0, NEW sz, NEW v0,
           CopyStep(m, m3, e, e2, k, t, r, n, h0, sz, v0),
           \A w : IsVal(m, e, w) => IsVal(m3, e2, w)
    PROVE  /\ Alike(m, e, m3, e2)
           /\ ValueOf(m3, v0) = ValueOf(m, Ptr(k, h0 + 1))
<1> DEFINE at == e[t]
           u == Ptr(k, h0 + 1)
<1>0. /\ IsHead(m, e, k, h0) /\ m[k][h0] # Forwarded /\ sz = m[k][h0][3]
      /\ v0 = Ptr(t, at + 1) /\ Readable(m, e, r, n, k) /\ Readable(m3, e2, r, n, k)
      /\ FromOnly(m, e, k) /\ n \in Nat /\ Sized(m, e, r) /\ Layout(m, e, n)
  BY DEF CopyStep, Copying, Readable
<1>1. /\ \A g, h : IsHead(m3, e2, g, h) <=> IsHead(m, e, g, h) \/ (g = t /\ h = at)
      /\ \A g, h : IsHead(m, e, g, h) /\ ~ (g = k /\ h = h0) =>
            m3[g][h] = m[g][h] /\ (m[g][h] = Forwarded => m3[g][h + 1] = m[g][h + 1])
      /\ m3[k][h0] = Forwarded /\ m3[k][h0 + 1] = v0
      /\ m3[t][at] = m[k][h0] /\ \A f \in 1 .. sz : m3[t][at + f] = m[k][h0 + f]
      /\ \A g \in Gens : \A o \in 0 .. e[g] - 1 :
            g # k \/ o \notin {h0, h0 + 1} => m3[g][o] = m[g][o]
      /\ k # t /\ at \in Nat /\ h0 \in Nat /\ sz \in Nat
  BY CopyWords
<1>2. /\ v0[1] = "ptr" /\ v0[2] = t /\ v0[3] = at + 1 /\ v0[3] - 1 = at
      /\ u[1] = "ptr" /\ u[2] = k /\ u[3] = h0 + 1 /\ u[3] - 1 = h0 /\ u[3] + 1 - 1 = h0 + 1
  <2>1. /\ v0[1] = "ptr" /\ v0[2] = t /\ v0[3] = at + 1
        /\ u[1] = "ptr" /\ u[2] = k /\ u[3] = h0 + 1
    BY <1>0, WordParts
  <2> HIDE DEF u, at
  <2> DEFINE x == u[3]
             y == v0[3]
  <2>2. x = h0 + 1 /\ h0 \in Nat /\ y = at + 1 /\ at \in Nat
    BY <1>1, <2>1
  <2>3. x - 1 = h0 /\ x + 1 - 1 = h0 + 1 /\ y - 1 = at
    <3> HIDE DEF x, y
    <3> QED BY <2>2
  <2> QED BY <2>1, <2>3
<1>3. /\ HeaderIn(m3, v0) = m[k][h0] /\ HeaderIn(m, u) = m[k][h0]
      /\ HeaderIn(m3, u) = Forwarded /\ FieldIn(m3, u, 1) = v0
  BY <1>1, <1>2 DEF HeaderIn, FieldIn
<1>4. Settled(m, e, u) /\ Resolve(m, u) = u
  <2>1. IsObj(m, e, u)
    BY <1>0, <1>1, <1>2 DEF IsObj, IntoHeap
  <2> QED BY <1>0, <1>3, <2>1 DEF Settled, Resolve
<1>5. Resolve(m3, v0) = v0 /\ Resolve(m3, u) = v0
  BY <1>0, <1>3 DEF Resolve
<1>6. /\ IsHeader(m[k][h0]) /\ Identity(m, u) = m[k][h0][2]
      /\ Identity(m3, v0) = m[k][h0][2] /\ Identity(m3, u) = m[k][h0][2]
  <2>1. IsHeader(m[k][h0])
    BY <1>0, <1>3, <1>4, Identities
  <2> QED BY <1>3, <1>4, <1>5, <2>1 DEF Identity
<1>7. ValueOf(m3, v0) = ValueOf(m, u)
  BY <1>2, <1>6 DEF ValueOf, IntoHeap
<1>8. ASSUME NEW w, IsObj(m, e, w), w # u
      PROVE  /\ HeaderIn(m3, w) = HeaderIn(m, w)
             /\ HeaderIn(m, w) = Forwarded =>
                   /\ FieldIn(m3, w, 1) = FieldIn(m, w, 1)
                   /\ IsObj(m, e, FieldIn(m, w, 1)) /\ FieldIn(m, w, 1) # u
  <2> DEFINE h == w[3] - 1
  <2>1. IsHead(m, e, w[2], h) /\ w[3] \in Nat /\ w = Ptr(w[2], w[3])
    BY <1>8 DEF IsObj
  <2>2. ~ (w[2] = k /\ h = h0)
    <3>1. SUFFICES ASSUME w[2] = k, w[3] - 1 = h0 PROVE FALSE
      OBVIOUS
    <3>2. w[3] = h0 + 1
      BY <1>1, <2>1, <3>1
    <3> QED BY <1>8, <2>1, <3>1, <3>2
  <2>3. w[3] + 1 - 1 = h + 1
    BY <2>1
  <2> HIDE DEF h
  <2>4. m3[w[2]][h] = m[w[2]][h] /\ (m[w[2]][h] = Forwarded => m3[w[2]][h + 1] = m[w[2]][h + 1])
    BY <1>1, <2>1, <2>2
  <2>5. HeaderIn(m, w) = m[w[2]][h] /\ HeaderIn(m3, w) = m3[w[2]][h]
    BY DEF HeaderIn, h
  <2>6. FieldIn(m, w, 1) = m[w[2]][h + 1] /\ FieldIn(m3, w, 1) = m3[w[2]][h + 1]
    BY <2>3 DEF FieldIn
  <2>7. ASSUME m[w[2]][h] = Forwarded
        PROVE  IsObj(m, e, m[w[2]][h + 1]) /\ m[w[2]][h + 1] # u
    <3>1. IsObj(m, e, m[w[2]][h + 1]) /\ m[w[2]][h + 1][2] = k + 1
      BY <1>0, <2>1, <2>7 DEF FromOnly
    <3>2. k \in Int
      BY <1>0 DEF IsHead, Gens
    <3>3. k + 1 # k
      BY <3>2
    <3> QED BY <1>2, <3>1, <3>3
  <2> QED BY <2>4, <2>5, <2>6, <2>7
<1>9. ASSUME NEW w, IsObj(m, e, w) PROVE Identity(m3, w) = Identity(m, w)
  <2>1. CASE w = u
    BY <1>6, <2>1
  <2>2. CASE w # u /\ HeaderIn(m, w) # Forwarded
    BY <1>8, <1>9, <2>2 DEF Identity, Resolve
  <2>3. CASE w # u /\ HeaderIn(m, w) = Forwarded
    <3> DEFINE x == FieldIn(m, w, 1)
    <3>1. Resolve(m3, w) = x /\ Resolve(m, w) = x /\ IsObj(m, e, x) /\ x # u
      BY <1>8, <1>9, <2>3 DEF Resolve
    <3>2. HeaderIn(m3, x) = HeaderIn(m, x)
      BY <1>8, <3>1
    <3> QED BY <3>1, <3>2 DEF Identity
  <2> QED BY <2>1, <2>2, <2>3
<1>10. ValuesKept(m, e, m3, e2)
  <2> SUFFICES ASSUME NEW w, IsVal(m, e, w) PROVE ValueOf(m3, w) = ValueOf(m, w)
    BY DEF ValuesKept
  <2>1. IntoHeap(w) => IsObj(m, e, w)
    BY DEF IsVal, IntoHeap, Unboxed, Out
  <2> QED BY <1>9, <2>1 DEF ValueOf
<1>11. ASSUME NEW v3, Settled(m3, e2, v3)
       PROVE  \E v : /\ Settled(m, e, v) /\ Identity(m, v) = Identity(m3, v3)
                     /\ ObjectAt(m3, v3) = ObjectAt(m, v)
  <2> DEFINE h == v3[3] - 1
  <2>1. /\ IsHead(m3, e2, v3[2], h) /\ v3 = Ptr(v3[2], v3[3]) /\ v3[3] \in Nat /\ IntoHeap(v3)
        /\ HeaderIn(m3, v3) = m3[v3[2]][h] /\ HeaderIn(m3, v3) # Forwarded
        /\ Resolve(m3, v3) = v3
    BY <1>11 DEF Settled, IsObj, HeaderIn, Resolve
  <2>2. CASE v3[2] = t /\ h = at
    <3>1. v3 = v0
      <4>1. v3[3] = at + 1
        <5>1. v3[3] = h + 1
          BY <2>1
        <5> QED BY <2>2, <5>1
      <4> QED BY <1>0, <2>1, <2>2, <4>1
    <3>2. ASSUME NEW f \in 1 .. HeaderIn(m, u)[3]
          PROVE  FieldIn(m3, v0, f) = FieldIn(m, u, f)
      <4>1. f \in 1 .. sz /\ v0[3] + f - 1 = at + f /\ u[3] + f - 1 = h0 + f
        <5>1. f \in 1 .. sz /\ f \in Int
          BY <1>0, <1>3
        <5>2. at + 1 + f - 1 = at + f /\ h0 + 1 + f - 1 = h0 + f
          <6> HIDE DEF at
          <6> QED BY <1>1, <5>1
        <5> QED BY <1>2, <5>1, <5>2
      <4> QED BY <1>1, <1>2, <4>1 DEF FieldIn
    <3>3. ASSUME NEW f \in 1 .. HeaderIn(m, u)[3], HeaderIn(m, u)[4]
          PROVE  ValueOf(m3, FieldIn(m3, v0, f)) = ValueOf(m, FieldIn(m, u, f))
      <4>1. IsVal(m, e, FieldIn(m, u, f))
        BY <1>0, <1>4, <3>3, SettledFields
      <4> QED BY <1>10, <3>2, <4>1 DEF ValuesKept
    <3>4. Identity(m, u) = Identity(m3, v0) /\ ObjectAt(m3, v0) = ObjectAt(m, u)
      <4> HIDE DEF u
      <4> QED BY <1>0, <1>3, <1>4, <1>5, <3>2, <3>3, SameObject
    <3> QED BY <1>4, <3>1, <3>4
  <2>3. CASE ~ (v3[2] = t /\ h = at)
    <3>1. IsHead(m, e, v3[2], h)
      BY <1>1, <2>1, <2>3
    <3>2. ~ (v3[2] = k /\ h = h0)
      BY <1>1, <2>1
    <3>3. m3[v3[2]][h] = m[v3[2]][h]
      BY <1>1, <3>1, <3>2
    <3>4. Settled(m, e, v3) /\ HeaderIn(m3, v3) = HeaderIn(m, v3)
      BY <2>1, <3>1, <3>3 DEF Settled, IsObj, HeaderIn
    <3>5. ASSUME NEW f \in 1 .. HeaderIn(m, v3)[3]
          PROVE  /\ FieldIn(m3, v3, f) = FieldIn(m, v3, f)
                 /\ HeaderIn(m, v3)[4] => IsVal(m, e, FieldIn(m, v3, f))
      <4> DEFINE o == v3[3] + f - 1
      <4>1. /\ o \in 0 .. e[v3[2]] - 1 /\ o \in h + 1 .. h + SizeAt(m, v3[2], h)
            /\ HeaderIn(m, v3)[4] => IsVal(m, e, FieldIn(m, v3, f))
        BY <1>0, <3>4, SettledFields
      <4>2. h \in Nat /\ SizeAt(m, v3[2], h) \in Nat /\ v3[2] \in Gens
        BY <1>0, <3>1, HeadFacts
      <4>3. SizeAt(m, k, h0) \in Nat /\ SizeAt(m, k, h0) # 0
        BY <1>0, HeadFacts
      <4> HIDE DEF o, h
      <4>4. v3[2] # k \/ o \notin {h0, h0 + 1}
        <5>1. SUFFICES ASSUME v3[2] = k, o \in {h0, h0 + 1} PROVE FALSE
          OBVIOUS
        <5>2. o \in h0 .. h0 + SizeAt(m, k, h0)
          BY <1>1, <4>3, <5>1
        <5>3. o \in h .. h + SizeAt(m, k, h)
          BY <4>1, <4>2, <5>1
        <5>4. h = h0
          BY <1>0, <3>1, <5>1, <5>2, <5>3, Apart
        <5> QED BY <3>2, <5>1, <5>4
      <4>5. m3[v3[2]][o] = m[v3[2]][o]
        BY <1>1, <4>1, <4>2, <4>4
      <4> QED BY <4>1, <4>5 DEF FieldIn, o
    <3>6. ASSUME NEW f \in 1 .. HeaderIn(m, v3)[3], HeaderIn(m, v3)[4]
          PROVE  ValueOf(m3, FieldIn(m3, v3, f)) = ValueOf(m, FieldIn(m, v3, f))
      BY <1>10, <3>5, <3>6 DEF ValuesKept
    <3>7. Identity(m, v3) = Identity(m3, v3) /\ ObjectAt(m3, v3) = ObjectAt(m, v3)
      BY <1>0, <2>1, <3>4, <3>5, <3>6, SameObject
    <3> QED BY <3>4, <3>7
  <2> QED BY <2>2, <2>3
<1>12. ObjectsKept(m, e, m3, e2)
  BY <1>11 DEF ObjectsKept
<1> QED
  BY <1>7, <1>10, <1>12 DEF Alike

\* A pointer to an object of generation i that is not copied yet: it is.
LEMMA ForwardCopies ==
    ASSUME Bounds, HeapInv, Going, NEW v, IsVal(mem, Ends, v), NEW f, f = Forward(v),
           NEW e2, e2 = EndsAfter(f), ForwardedHeap(v, f, e2),
           Into(v, i), HeaderIn(mem, v) # Forwarded,
           NEW h0, h0 = v[3] - 1, NEW sz, sz = HeaderIn(mem, v)[3],
           NEW v0, v0 = Ptr(i + 1, next[i + 1] + 1)
    PROVE  /\ CopyStep(mem, f.mem, Ends, e2, i, i + 1, rem_limit, fresh, h0, sz, v0)
           /\ f.val = v0 /\ v = Ptr(i, h0 + 1) /\ HeaderIn(mem, v) = mem[i][h0]
<1> DEFINE t == i + 1
           m2 == CopyOf(mem, i, t, h0, next[t], sz)
<1>1. Objects /\ Counted /\ Source = i
  BY DEF HeapInv, Source
<1>2. Readable(mem, Ends, rem_limit, fresh, i)
  BY <1>1, ReadableNow
<1>3. Readable(f.mem, e2, rem_limit, fresh, i)
  BY DEF ForwardedHeap, Heap, Readable
<1>4. /\ i \in Gens /\ i \in Nat /\ t \in Gens /\ next[t] \in Nat
      /\ Ends[t] = next[t] /\ DOMAIN Ends = Gens
  BY PolicyFacts, EndsFacts
<1>5. /\ f.mem = MarkedAs(m2, i, h0, v0)
      /\ f.next = next[t] + 1 + sz
      /\ f.val = v0
      /\ IsHead(mem, Ends, i, h0) /\ mem[i][h0] # Forwarded /\ sz = mem[i][h0][3]
  BY <1>1, ForwardNew
<1>6. sz \in Nat /\ next[t] + 1 + sz <= rem_limit[t]
  BY <1>1, <1>5, CopyFits
<1>7. e2[t] = f.next /\ \A g \in Gens : g # t => e2[g] = Ends[g]
  BY DEF ForwardedHeap, Forwarding
<1>8. Fits(Ends, rem_limit, t, sz) /\ Longer(Ends, e2, t, sz)
  BY <1>4, <1>5, <1>6, <1>7 DEF Fits, Longer
<1>9. v0 = Ptr(t, Ends[t] + 1) /\ m2 = CopyOf(mem, i, t, h0, Ends[t], sz)
  BY <1>4
<1>10. v = Ptr(i, h0 + 1) /\ HeaderIn(mem, v) = mem[i][h0]
  <2>1. IsObj(mem, Ends, v) /\ v[2] = i
    BY DEF Into, IsVal, IntoHeap, Unboxed, Out
  <2>2. v = Ptr(v[2], v[3]) /\ v[3] \in Nat
    BY <2>1 DEF IsObj
  <2>3. v[3] = h0 + 1
    BY <2>2
  <2> QED BY <2>1, <2>2, <2>3 DEF HeaderIn
<1> HIDE DEF m2
<1>11. Follows(i, t) /\ fresh \in Nat /\ Sized(mem, Ends, rem_limit) /\ Layout(mem, Ends, fresh)
  BY <1>1, <1>4 DEF Follows, Objects
<1>12. Copying(mem, m2, Ends, e2, i, t, rem_limit, fresh, h0, sz)
  BY <1>5, <1>8, <1>9, <1>11 DEF Copying
<1> QED
  BY <1>2, <1>3, <1>5, <1>9, <1>10, <1>12 DEF CopyStep

\* forward changes neither what a value refers to nor the objects.
LEMMA ForwardAlike ==
    ASSUME Bounds, HeapInv, Going, NEW v, IsVal(mem, Ends, v), NEW f, f = Forward(v),
           NEW e2, e2 = EndsAfter(f), ForwardedHeap(v, f, e2)
    PROVE  /\ Alike(mem, Ends, f.mem, e2) /\ ValueOf(f.mem, f.val) = ValueOf(mem, v)
           /\ Readable(f.mem, e2, rem_limit, fresh, i)
<1> DEFINE t == i + 1
<1>1. Objects /\ Counted /\ Source = i
  BY DEF HeapInv, Source
<1>2. Readable(mem, Ends, rem_limit, fresh, i)
  BY <1>1, ReadableNow
<1>3. Readable(f.mem, e2, rem_limit, fresh, i)
  BY DEF ForwardedHeap, Heap, Readable
<1>4. /\ i \in Gens /\ i \in Nat /\ t \in Gens /\ next[t] \in Nat
      /\ Ends[t] = next[t] /\ DOMAIN Ends = Gens
  BY PolicyFacts, EndsFacts
<1>5. ASSUME f.next = next[t] PROVE e2 = Ends
  BY <1>4, <1>5 DEF Ends, EndsAfter
<1>6. CASE ~ Into(v, i)
  <2> DEFINE f1 == [mem |-> mem, next |-> next[t], val |-> v]
  <2>1. f = f1
    BY <1>1, <1>6, ForwardOther
  <2>2. f.mem = mem /\ f.next = next[t] /\ f.val = v
    BY <2>1
  <2>3. e2 = Ends
    BY <1>5, <2>2
  <2> QED BY <1>3, <2>2, <2>3, AlikeSelf
<1>7. CASE Into(v, i) /\ HeaderIn(mem, v) = Forwarded
  <2> DEFINE w == FieldIn(mem, v, 1)
             f1 == [mem |-> mem, next |-> next[t], val |-> w]
  <2>1. f = f1
    BY <1>1, <1>7, ForwardAgain
  <2>2. f.mem = mem /\ f.next = next[t] /\ f.val = w
    BY <2>1
  <2>3. e2 = Ends
    BY <1>5, <2>2
  <2>4. IntoHeap(v) /\ w = Resolve(mem, v)
    BY <1>7 DEF Into, Resolve
  <2>5. Settled(mem, Ends, w) /\ ValueOf(mem, v) = Ref(Identity(mem, w))
    BY <1>2, <2>4, ValueFacts
  <2>6. IntoHeap(w)
    BY <1>2, <2>5, Identities
  <2>7. ValueOf(mem, w) = ValueOf(mem, v)
    BY <2>5, <2>6 DEF ValueOf
  <2> QED BY <1>3, <2>2, <2>3, <2>7, AlikeSelf
<1>8. CASE Into(v, i) /\ HeaderIn(mem, v) # Forwarded
  <2>1. PICK h0, sz, v0 : h0 = v[3] - 1 /\ sz = HeaderIn(mem, v)[3] /\ v0 = Ptr(t, next[t] + 1)
    OBVIOUS
  <2>2. /\ CopyStep(mem, f.mem, Ends, e2, i, t, rem_limit, fresh, h0, sz, v0)
        /\ f.val = v0 /\ v = Ptr(i, h0 + 1)
    BY <1>8, <2>1, ForwardCopies
  <2>3. \A w : IsVal(mem, Ends, w) => IsVal(f.mem, e2, w)
    <3>1. Moved(mem, f.mem, Ends, e2, i, t, rem_limit, fresh)
      BY DEF ForwardedHeap, Forwarding
    <3> QED BY <3>1 DEF Moved
  <2>4. Alike(mem, Ends, f.mem, e2) /\ ValueOf(f.mem, v0) = ValueOf(mem, Ptr(i, h0 + 1))
    BY <2>2, <2>3, CopyAlike
  <2> QED BY <1>3, <2>2, <2>4
<1> QED
  BY <1>6, <1>7, <1>8

-----------------------------------------------------------------------------
(* The steps of the collector *)

\* The heap of the next state is readable.
LEMMA ReadableThen ==
    ASSUME HeapInv'
    PROVE  Readable(mem', Ends', rem_limit', fresh', Source') /\ Roots(mem', Ends', frames')
BY DEF HeapInv, Objects, Readable

\* A step that keeps the frames and the objects keeps the graph.
LEMMA GraphStep ==
    ASSUME HeapInv, HeapInv', StackOf(mem', frames') = StackOf(mem, frames),
           ObjectsKept(mem, Ends, mem', Ends')
    PROVE  Graph(mem', frames') = Graph(mem, frames)
<1>1. Readable(mem, Ends, rem_limit, fresh, Source) /\ Roots(mem, Ends, frames)
  BY ReadableNow
<1>2. Readable(mem', Ends', rem_limit', fresh', Source') /\ Roots(mem', Ends', frames')
  BY ReadableThen
<1> QED
  BY <1>1, <1>2, GraphKept

\* Frames that are left alone are, if values are.
LEMMA StackKept ==
    ASSUME HeapInv, UNCHANGED frames, NEW m2, NEW e2, ValuesKept(mem, Ends, m2, e2)
    PROVE  StackOf(m2, frames') = StackOf(mem, frames)
<1>1. ASSUME NEW a \in DOMAIN frames, NEW l \in Slots
      PROVE  ValueOf(m2, frames[a][l]) = ValueOf(mem, frames[a][l])
  BY DEF HeapInv, Roots, ValuesKept
<1> QED
  BY <1>1 DEF StackOf

\* So a step whose memory is like the one before keeps the graph.
LEMMA AlikeStep ==
    ASSUME HeapInv, HeapInv', UNCHANGED frames, Alike(mem, Ends, mem', Ends')
    PROVE  Graph(mem', frames') = Graph(mem, frames)
<1>1. StackOf(mem', frames') = StackOf(mem, frames)
  BY StackKept DEF Alike
<1> QED
  BY <1>1, GraphStep DEF Alike

\* What comes out of a slot of a frame, and where it is written.
LEMMA ForwardedSlot ==
    ASSUME Bounds, HeapInv, ForwardRoot, NEW v, v = frames[fr][j], NEW f, f = Forward(v)
    PROVE  /\ Going /\ IsVal(mem, Ends, v) /\ mem' = f.mem /\ Ends' = EndsAfter(f)
           /\ ForwardedHeap(v, f, EndsAfter(f))
           /\ fr \in DOMAIN frames /\ j \in Slots /\ DOMAIN frames' = DOMAIN frames
           /\ \A a \in DOMAIN frames : \A l \in Slots :
                 frames'[a][l] = IF a = fr /\ l = j THEN f.val ELSE frames[a][l]
<1> DEFINE t == i + 1
<1>1. /\ pc = "copy" /\ fr > 0 /\ frames' = [frames EXCEPT ![fr][j] = f.val]
      /\ mem' = f.mem /\ next' = [next EXCEPT ![t] = f.next]
      /\ UNCHANGED <<alloc, pc, i, p>>
  BY DEF ForwardRoot
<1>2. Going
  BY <1>1 DEF Going
<1>3. Ends' = EndsAfter(f)
  BY <1>1, <1>2, NextEnds
<1>4. /\ frames \in Seq([Slots -> Values]) /\ Top \in Nat /\ DOMAIN frames = 1 .. Top
      /\ fr \in DOMAIN frames /\ j \in Slots /\ IsVal(mem, Ends, v)
  <2>1. frames \in Seq([Slots -> Values]) /\ Top \in Nat /\ DOMAIN frames = 1 .. Top
    BY DEF HeapInv, Roots, Top
  <2>2. fr \in DOMAIN frames /\ j \in Slots
    BY <1>1, <2>1 DEF HeapInv, Cursors
  <2> QED BY <2>1, <2>2 DEF HeapInv, Roots
<1>5. Edge \in Nat /\ Edge <= next[t] + 1
  <2> DEFINE z == next[t]
  <2>1. Edge = p + 1 /\ p \in Nat /\ p <= z /\ z \in Nat
    BY <1>1, <1>2, PolicyFacts DEF Edge
  <2> HIDE DEF z
  <2>2. Edge \in Nat /\ Edge <= z + 1
    BY <2>1
  <2> QED BY <2>2 DEF z
<1>6. ForwardedHeap(v, f, EndsAfter(f))
  BY <1>2, <1>4, <1>5, ForwardHeap DEF EndsAfter
<1>7. ASSUME NEW a \in DOMAIN frames, NEW l \in Slots
      PROVE  frames'[a][l] = IF a = fr /\ l = j THEN f.val ELSE frames[a][l]
  <2>1. frames[a] \in [Slots -> Values]
    BY <1>4
  <2> QED BY <1>1, <1>4, <2>1
<1>8. DOMAIN frames' = DOMAIN frames
  BY <1>1
<1> QED
  BY <1>1, <1>2, <1>3, <1>4, <1>6, <1>7, <1>8

\* A slot of a frame is forwarded.
LEMMA ForwardRootGraph ==
    ASSUME Bounds, HeapInv, HeapInv', ForwardRoot
    PROVE  Graph(mem', frames') = Graph(mem, frames)
<1>1. PICK v, f : v = frames[fr][j] /\ f = Forward(v)
  OBVIOUS
<1>2. /\ Going /\ IsVal(mem, Ends, v) /\ mem' = f.mem /\ Ends' = EndsAfter(f)
      /\ ForwardedHeap(v, f, EndsAfter(f)) /\ DOMAIN frames' = DOMAIN frames
      /\ \A a \in DOMAIN frames : \A l \in Slots :
            frames'[a][l] = IF a = fr /\ l = j THEN f.val ELSE frames[a][l]
  BY <1>1, ForwardedSlot
<1>3. Alike(mem, Ends, mem', Ends') /\ ValueOf(mem', f.val) = ValueOf(mem, v)
  BY <1>1, <1>2, ForwardAlike
<1>4. ASSUME NEW a \in DOMAIN frames, NEW l \in Slots
      PROVE  ValueOf(mem', frames'[a][l]) = ValueOf(mem, frames[a][l])
  <2>1. IsVal(mem, Ends, frames[a][l])
    BY DEF HeapInv, Roots
  <2>2. frames'[a][l] = IF a = fr /\ l = j THEN f.val ELSE frames[a][l]
    BY <1>2
  <2> QED BY <1>1, <1>3, <2>1, <2>2 DEF Alike, ValuesKept
<1>5. StackOf(mem', frames') = StackOf(mem, frames)
  BY <1>2, <1>4 DEF StackOf
<1> QED
  BY <1>3, <1>5, GraphStep DEF Alike

\* A field of a copy, or a cell of an older generation, is forwarded.
LEMMA UpdatedAlike ==
    ASSUME Bounds, HeapInv, Going, NEW g, NEW h, NEW o, IsVal(mem, Ends, mem[g][o]),
           NEW f, f = Forward(mem[g][o]), NEW e2, e2 = EndsAfter(f),
           NEW m2, m2 = Written(f.mem, g, o, f.val), Updated(g, h, o, f, e2, m2)
    PROVE  Alike(mem, Ends, m2, e2) /\ Readable(m2, e2, rem_limit, fresh, i)
<1>2. /\ ForwardedHeap(mem[g][o], f, e2) /\ Readable(m2, e2, rem_limit, fresh, i)
      /\ Field(f.mem, e2, g, h, o) /\ f.mem[g][o] = mem[g][o]
  BY DEF Updated, Heap, Readable
<1>4. /\ Alike(mem, Ends, f.mem, e2) /\ ValueOf(f.mem, f.val) = ValueOf(mem, mem[g][o])
      /\ Readable(f.mem, e2, rem_limit, fresh, i)
  BY <1>2, ForwardAlike
<1>5. IsVal(f.mem, e2, f.val)
  BY <1>2 DEF ForwardedHeap, Forwarding
<1>6. ValueOf(f.mem, f.val) = ValueOf(f.mem, f.mem[g][o])
  BY <1>2, <1>4 DEF Alike, ValuesKept
<1>7. Alike(f.mem, e2, m2, e2)
  BY <1>2, <1>4, <1>5, <1>6, WriteAlike
<1> QED
  BY <1>2, <1>4, <1>7, AlikeAgain

\* What comes out of a field of a copy.
LEMMA ForwardedField ==
    ASSUME Bounds, HeapInv, ScanField, NEW v, v = mem[i + 1][s + j], NEW f, f = Forward(v)
    PROVE  /\ Going /\ IsVal(mem, Ends, v) /\ Ends' = EndsAfter(f) /\ UNCHANGED frames
           /\ Field(mem, Ends, i + 1, s, s + j) /\ mem' = Written(f.mem, i + 1, s + j, f.val)
           /\ Updated(i + 1, s, s + j, f, EndsAfter(f), mem')
<1> DEFINE t == i + 1
           o == s + j
<1>1. /\ pc = "copy" /\ fr = 0
      /\ mem' = Written(f.mem, t, o, f.val) /\ next' = [next EXCEPT ![t] = f.next]
      /\ UNCHANGED <<alloc, pc, i, p, frames>>
  BY DEF ScanField, Scanning
<1>2. /\ Going /\ Field(mem, Ends, t, s, o) /\ s \in Nat /\ j \in Nat /\ j > 0
      /\ j <= mem[t][s][3] /\ s + mem[t][s][3] < next[t] /\ next[t] \in Nat
      /\ mem[t][s][3] \in Nat
  BY ScannedField
<1>3. Ends' = EndsAfter(f) /\ i \in Nat
  BY <1>1, <1>2, NextEnds
<1>4. Edge \in Nat /\ Edge <= next[t] + 1
  <2> DEFINE y == next[t]
             z == mem[t][s][3]
  <2>1. Edge = s + j /\ s \in Nat /\ j \in Nat /\ j <= z /\ s + z < y /\ y \in Nat /\ z \in Nat
    BY <1>1, <1>2 DEF Edge
  <2> HIDE DEF y, z
  <2>2. Edge \in Nat /\ Edge <= y + 1
    BY <2>1
  <2> QED BY <2>2 DEF y
<1>5. t # i
  BY <1>3
<1> HIDE DEF o
<1>6. f = Forward(mem[t][o])
  BY DEF o
<1>7. Updating(t, s, o, f, EndsAfter(f), mem')
  BY <1>1, <1>2, <1>4, <1>5, <1>6 DEF Updating
<1>8. IsVal(mem, Ends, mem[t][o]) /\ v = mem[t][o]
  BY <1>2 DEF HeapInv, Fields, o
<1>9. Updated(t, s, o, f, EndsAfter(f), mem')
  BY <1>7, FieldForwarded
<1> QED
  BY <1>1, <1>2, <1>3, <1>8, <1>9 DEF o

\* A field of a copy is forwarded.
LEMMA ScanFieldGraph ==
    ASSUME Bounds, HeapInv, HeapInv', ScanField
    PROVE  Graph(mem', frames') = Graph(mem, frames)
<1>1. PICK o, f : o = s + j /\ f = Forward(mem[i + 1][o])
  OBVIOUS
<1>2. /\ Going /\ IsVal(mem, Ends, mem[i + 1][o]) /\ Ends' = EndsAfter(f) /\ UNCHANGED frames
      /\ mem' = Written(f.mem, i + 1, o, f.val)
      /\ Updated(i + 1, s, o, f, EndsAfter(f), mem')
  BY <1>1, ForwardedField
<1>3. Alike(mem, Ends, mem', Ends')
  BY <1>1, <1>2, UpdatedAlike
<1> QED
  BY <1>2, <1>3, AlikeStep

\* One entry of the remembered set.
LEMMA ForwardEntryGraph ==
    ASSUME Bounds, HeapInv, HeapInv', ForwardEntry
    PROVE  Graph(mem', frames') = Graph(mem, frames)
<1> DEFINE t == i + 1
           c == mem[i][q]
           f == Forward(mem[c[2]][c[3]])
           e2 == EndsAfter(f)
           m == Written(f.mem, c[2], c[3], f.val)
           to == limit[t] - 1
<1>1. pc = "remset" /\ q < rem_limit[i] /\ UNCHANGED frames
  BY DEF ForwardEntry
<1>2. /\ c[2] = i => c[3] < limit[i]
      /\ c[2] # i => \E h : Field(mem, Ends, c[2], h, c[3])
  BY <1>1, EntryFacts
<1>3. CASE c[2] = i
  <2>1. mem' = mem
    BY <1>2, <1>3 DEF ForwardEntry
  <2> QED BY <1>1, <2>1
<1>4. CASE c[2] # i
  <2>1. EntryStep(c, f, e2, m)
    BY DEF EntryStep
  <2>2. \/ f.val = mem[c[2]][c[3]] /\ mem' = m
        \/ f.val # mem[c[2]][c[3]] /\ mem' = Written(m, t, to, c)
    BY <1>4 DEF ForwardEntry
  <2>3. f = Forward(mem[c[2]][c[3]]) /\ e2 = EndsAfter(f) /\ m = Written(f.mem, c[2], c[3], f.val)
    OBVIOUS
  <2>4. IsVal(mem, Ends, mem[c[2]][c[3]])
    BY <1>2, <1>4 DEF HeapInv, Fields
  <2> HIDE DEF c, f, e2, m
  <2>5. PICK h : Updated(c[2], h, c[3], f, e2, m)
    BY <1>4, <2>1, OlderEntry
  <2>6. /\ Ends' = e2 /\ Going /\ e2[t] = f.next /\ f.next < limit[t] /\ f.next \in Nat
        /\ t \in Gens
    BY <1>4, <2>1, OlderEntry
  <2>7. Alike(mem, Ends, m, e2) /\ Readable(m, e2, rem_limit, fresh, i)
    BY <2>3, <2>4, <2>5, <2>6, UpdatedAlike
  <2>8. CASE mem' = m
    BY <1>1, <2>6, <2>7, <2>8, AlikeStep
  <2>9. CASE mem' = Written(m, t, to, c)
    <3>1. SameWords(m, mem', e2)
      <4> SUFFICES ASSUME NEW g \in Gens, NEW o \in 0 .. e2[g] - 1 PROVE mem'[g][o] = m[g][o]
        BY DEF SameWords
      <4>1. DOMAIN m = Gens /\ e2[g] \in Nat /\ rem_limit[g] \in Nat /\ e2[g] <= rem_limit[g]
            /\ DOMAIN m[g] = 0 .. rem_limit[g] - 1
        BY <2>7 DEF Readable, Sized
      <4>2. g # t \/ o # to
        <5>1. SUFFICES ASSUME g = t, o = to PROVE FALSE
          OBVIOUS
        <5> DEFINE x == limit[t]
                   y == f.next
        <5>2. x \in Nat /\ y \in Nat /\ y < x /\ o \in 0 .. y - 1 /\ o = x - 1
          BY <2>6, <5>1, PolicyFacts
        <5> HIDE DEF x, y
        <5> QED BY <5>2
      <4>3. o \in DOMAIN m[g]
        BY <4>1
      <4> HIDE DEF to
      <4> QED BY <2>9, <4>1, <4>2, <4>3 DEF Written
    <3>2. Alike(m, e2, mem', e2)
      BY <2>7, <3>1, SameWordsAlike
    <3>3. Alike(mem, Ends, mem', Ends')
      BY <2>6, <2>7, <3>2, AlikeAgain
    <3> QED BY <1>1, <3>3, AlikeStep
  <2> QED BY <2>2, <2>8, <2>9
<1> QED
  BY <1>3, <1>4

\* A collection begins.
LEMMA RoundGraph ==
    ASSUME HeapInv, HeapInv', RoundBegins
    PROVE  Graph(mem', frames') = Graph(mem, frames)
<1> DEFINE t == i + 1
<1>1. /\ Ends' = Ends /\ \A g \in Gens : g # t => mem'[g] = mem[g]
      /\ mem' = mem \/ Ends[t] = 0
      /\ UNCHANGED frames
  BY DEF RoundBegins
<1>2. SameWords(mem, mem', Ends)
  <2> SUFFICES ASSUME NEW g \in Gens, NEW o \in 0 .. Ends[g] - 1 PROVE mem'[g][o] = mem[g][o]
    BY DEF SameWords
  <2>1. g # t \/ Ends[t] # 0
    OBVIOUS
  <2> QED BY <1>1, <2>1
<1>3. Alike(mem, Ends, mem', Ends')
  BY <1>1, <1>2, ReadableNow, SameWordsAlike
<1> QED
  BY <1>1, <1>3, AlikeStep

\* Generation i+1 is created.
LEMMA CreateGraph ==
    ASSUME Bounds, Bounds', HeapInv, HeapInv', Create
    PROVE  Graph(mem', frames') = Graph(mem, frames)
<1> DEFINE t == i + 1
<1>1. UNCHANGED frames /\ mem' = IF created' = created THEN mem
                                 ELSE [mem EXCEPT ![t] = Space(rem_limit'[t])]
  BY DEF Create
<1>2. CASE pc' = "remset"
  BY <1>2, CreatedSpace, RoundGraph
<1>3. CASE pc' # "remset"
  <2>1. created' = created
    BY <1>3 DEF Create, G!Create, G!CreateSpace
  <2> QED BY <1>1, <2>1
<1> QED
  BY <1>2, <1>3

\* When generation i is emptied, the values that are not into it refer to what
\* they did, and the objects that are left are those that were out of it.
LEMMA EndKeeps ==
    ASSUME Bounds, HeapInv, EndGeneration
    PROVE  /\ \A w : IsVal(mem, Ends, w) /\ ~ Into(w, i) => ValueOf(mem', w) = ValueOf(mem, w)
           /\ \A v : Settled(mem', Ends', v) =>
                 /\ Settled(mem, Ends, v) /\ Identity(mem, v) = Identity(mem', v)
                 /\ ObjectAt(mem', v) = ObjectAt(mem, v) /\ v[2] # i
<1>1. /\ pc = "copy" /\ pc' = "check" /\ next' = [next EXCEPT ![i] = 0]
      /\ mem' = [mem EXCEPT ![i] = Space(rem_limit[i])] /\ UNCHANGED frames
  BY DEF EndGeneration, G!EndGeneration
<1>2. Going /\ ~ Owned /\ ~ Owned' /\ Source = i
  BY <1>1 DEF Going, Owned, Source
<1>3. Readable(mem, Ends, rem_limit, fresh, i)
  BY <1>2, ReadableNow
<1>4. /\ i \in Gens /\ DOMAIN mem = Gens /\ FromOnly(mem, Ends, i)
      /\ fresh \in Nat /\ Sized(mem, Ends, rem_limit)
  BY <1>3, PolicyFacts DEF Readable, Sized
<1>5. /\ \A g, h, o : Field(mem, Ends, g, h, o) /\ g # i => ~ Into(mem[g][o], i)
      /\ \A a \in DOMAIN frames : \A l \in Slots : ~ Into(frames[a][l], i)
  BY NothingLeft
<1>6. /\ Ends'[i] = 0 /\ \A g \in Gens : g # i => Ends'[g] = Ends[g]
      /\ \A g \in Gens : g # i => mem'[g] = mem[g]
  <2>1. \A g \in Gens : Ends'[g] = next'[g] /\ Ends[g] = next[g]
    BY <1>2 DEF Ends
  <2>2. next = [g \in Gens |-> next[g]]
    BY PolicyFacts
  <2> QED BY <1>1, <1>4, <2>1, <2>2
<1>7. ASSUME NEW w, IsObj(mem, Ends, w), ~ Into(w, i)
      PROVE  /\ HeaderIn(mem', w) = HeaderIn(mem, w) /\ Identity(mem', w) = Identity(mem, w)
             /\ Resolve(mem', w) = w
  <2> DEFINE h == w[3] - 1
  <2>1. IntoHeap(w) /\ w[2] # i /\ w[2] \in Gens /\ IsHead(mem, Ends, w[2], h)
    BY <1>7 DEF IsObj, Into, IsHead
  <2> HIDE DEF h
  <2>2. mem'[w[2]][h] = mem[w[2]][h] /\ mem[w[2]][h] # Forwarded
    BY <1>4, <1>6, <2>1 DEF FromOnly
  <2>3. HeaderIn(mem', w) = HeaderIn(mem, w) /\ HeaderIn(mem, w) # Forwarded
    BY <2>2 DEF HeaderIn, h
  <2> QED BY <2>3 DEF Identity, Resolve
<1>8. ASSUME NEW w, IsVal(mem, Ends, w), ~ Into(w, i) PROVE ValueOf(mem', w) = ValueOf(mem, w)
  <2>1. IntoHeap(w) => IsObj(mem, Ends, w)
    BY <1>8 DEF IsVal, IntoHeap, Unboxed, Out
  <2> QED BY <1>7, <1>8, <2>1 DEF ValueOf
<1>9. ASSUME NEW v, Settled(mem', Ends', v)
      PROVE  /\ Settled(mem, Ends, v) /\ Identity(mem, v) = Identity(mem', v)
             /\ ObjectAt(mem', v) = ObjectAt(mem, v) /\ v[2] # i
  <2> DEFINE h == v[3] - 1
  <2>1. /\ IsHead(mem', Ends', v[2], h) /\ v = Ptr(v[2], v[3]) /\ v[3] \in Nat /\ IntoHeap(v)
        /\ HeaderIn(mem', v) = mem'[v[2]][h] /\ HeaderIn(mem', v) # Forwarded
    BY <1>9 DEF Settled, IsObj, HeaderIn
  <2>2. v[2] \in Gens /\ v[2] # i /\ mem'[v[2]] = mem[v[2]]
    <3>1. h \in 0 .. Ends'[v[2]] - 1 /\ v[2] \in Gens
      BY <2>1 DEF IsHead
    <3>2. v[2] # i
      BY <1>6, <3>1
    <3> QED BY <1>6, <3>1, <3>2
  <2>3. IsHead(mem, Ends, v[2], h) /\ HeaderIn(mem, v) = HeaderIn(mem', v)
    BY <1>6, <2>1, <2>2 DEF IsHead, HeaderIn
  <2>4. Settled(mem, Ends, v) /\ ~ Into(v, i)
    BY <2>1, <2>2, <2>3 DEF Settled, IsObj, Into
  <2>5. Resolve(mem', v) = v
    BY <1>7, <2>4 DEF Settled
  <2>6. \A f : FieldIn(mem', v, f) = FieldIn(mem, v, f)
    BY <2>2 DEF FieldIn
  <2>7. ASSUME NEW f \in 1 .. HeaderIn(mem, v)[3], HeaderIn(mem, v)[4]
        PROVE  ValueOf(mem', FieldIn(mem', v, f)) = ValueOf(mem, FieldIn(mem, v, f))
    <3>1. Field(mem, Ends, v[2], h, v[3] + f - 1) /\ IsVal(mem, Ends, FieldIn(mem, v, f))
      BY <1>3, <2>4, <2>7, SettledFields
    <3>2. ~ Into(FieldIn(mem, v, f), i)
      BY <1>5, <2>2, <3>1 DEF FieldIn
    <3> QED BY <1>8, <2>6, <3>1, <3>2
  <2>8. Identity(mem, v) = Identity(mem', v) /\ ObjectAt(mem', v) = ObjectAt(mem, v)
    BY <1>3, <2>3, <2>4, <2>5, <2>6, <2>7, SameObject
  <2> QED BY <2>2, <2>4, <2>8
<1> QED
  BY <1>8, <1>9

\* The objects that are still in from-space are not live.
LEMMA EndGenerationGraph ==
    ASSUME Bounds, HeapInv, HeapInv', EndGeneration
    PROVE  Graph(mem', frames') = Graph(mem, frames)
<1>1. UNCHANGED frames /\ \A a \in DOMAIN frames : \A l \in Slots : ~ Into(frames[a][l], i)
  BY NothingLeft DEF EndGeneration
<1>2. StackOf(mem', frames') = StackOf(mem, frames)
  <2>1. ASSUME NEW a \in DOMAIN frames, NEW l \in Slots
        PROVE  ValueOf(mem', frames[a][l]) = ValueOf(mem, frames[a][l])
    BY <1>1, EndKeeps DEF HeapInv, Roots
  <2> QED BY <1>1, <2>1 DEF StackOf
<1>3. ObjectsKept(mem, Ends, mem', Ends')
  BY EndKeeps DEF ObjectsKept
<1> QED
  BY <1>2, <1>3, GraphStep

\* No step of the collector changes the graph, nor does a step of the mutator
\* that calls it.
LEMMA CollectorGraph ==
    ASSUME Bounds, Bounds', HeapInv, HeapInv',
           Collector \/ Halted \/ UNCHANGED vars \/ \E n \in Requests : GcCall(n)
    PROVE  Graph(mem', frames') = Graph(mem, frames)
<1>1. ASSUME RemsetDone \/ ScanNext \/ Check \/ Halted \/ UNCHANGED vars \/ \E n \in Requests : GcCall(n)
      PROVE  mem' = mem /\ frames' = frames
  BY <1>1 DEF RemsetDone, ScanNext, Check, Halted, vars, GcCall
<1> QED
  BY <1>1, ForwardEntryGraph, CreateGraph, EndGenerationGraph, ScanFieldGraph, ForwardRootGraph
     DEF Collector

-----------------------------------------------------------------------------
(* The steps of the mutator *)

\* graph is what it should be: the objects that the frames reach.
GraphRight == graph = Graph(mem, frames)

LEMMA GraphNow ==
    ASSUME HeapInv, GraphRight
    PROVE  /\ graph.stack = StackOf(mem, frames)
           /\ DOMAIN graph.objs = ReachIds(graph.stack, AllObjs(mem, Ends))
           /\ \A id \in DOMAIN graph.objs : graph.objs[id] = AllObjs(mem, Ends)[id]
           /\ IsClosed(DOMAIN graph.objs, graph.stack, AllObjs(mem, Ends))
           /\ DOMAIN graph.objs \subseteq DOMAIN AllObjs(mem, Ends)
<1> DEFINE all == AllObjs(mem, Ends)
           sk == StackOf(mem, frames)
           K == ReachIds(sk, all)
<1>1. Readable(mem, Ends, rem_limit, fresh, Source) /\ Roots(mem, Ends, frames)
  BY ReadableNow
<1>2. graph = [stack |-> sk, objs |-> Restrict(all, K)]
  BY <1>1, GraphIs DEF GraphRight, View
<1>3. IsClosed(DOMAIN all, sk, all)
  BY <1>1, ObjsClosed
<1> HIDE DEF all, sk
<1>4. IsClosed(K, sk, all) /\ K \subseteq DOMAIN all
  BY <1>3, ReachIsLeast
<1> HIDE DEF K
<1>5. graph.stack = sk /\ graph.objs = [x \in K |-> all[x]]
  BY <1>2 DEF Restrict
<1>6. DOMAIN graph.objs = K /\ \A id \in K : graph.objs[id] = all[id]
  BY <1>5
<1> QED
  BY <1>4, <1>5, <1>6 DEF all, sk, K

\* A step to the frames st1 and the objects ob1 is one of HeapGraph if that is
\* what the next memory has of what it reaches.
LEMMA BecomeStep ==
    ASSUME HeapInv', GraphRight', NEW U, NEW st1, NEW ob1,
           StackOf(mem', frames') = st1, IsClosed(U, st1, ob1),
           \A id \in U : AllObjs(mem', Ends')[id] = ob1[id]
    PROVE  H!Become(st1, ob1)
<1> DEFINE all == AllObjs(mem', Ends')
           K == ReachIds(st1, ob1)
<1>1. Readable(mem', Ends', rem_limit', fresh', Source') /\ Roots(mem', Ends', frames')
  BY ReadableThen
<1>2. graph' = View(mem', Ends', frames')
  BY <1>1, GraphIs DEF GraphRight
<1>3. graph' = [stack |-> st1, objs |-> Restrict(all, ReachIds(st1, all))]
  BY <1>2 DEF View
<1>4. Restrict(all, ReachIds(st1, all)) = Restrict(ob1, ReachIds(st1, ob1))
  <2> HIDE DEF all
  <2> QED BY SameReach DEF all
<1>5. graph'.stack = st1 /\ graph'.objs = Restrict(ob1, K)
  <2> HIDE DEF all, K
  <2> QED BY <1>3, <1>4 DEF K
<1>6. H!Become(st1, ob1) <=> graph'.stack = st1 /\ graph'.objs = Restrict(ob1, K)
  BY DEF H!Become, ReachIds, RootIds, FieldIds, H!Closure, Closure,
         Range, H!Range, Restrict, H!Restrict, Cardinality, H!Cardinality
<1> QED
  BY <1>5, <1>6

\* A value that refers to nothing but the objects of the graph.
Known(w) ==
    IsVal(mem, Ends, w) /\ \A id \in Ids : ValueOf(mem, w) = Ref(id) => id \in DOMAIN graph.objs

\* What the frames refer to, as RootIds has it.
LEMMA RootsIn ==
    ASSUME NEW st, NEW K
    PROVE  RootIds(st) \subseteq K <=>
              \A a \in DOMAIN st : \A l \in DOMAIN st[a] : \A id \in Ids : st[a][l] = Ref(id) => id \in K
<1>1. RootIds(st) = UNION {{id \in Ids : Ref(id) \in Range(st[a])} : a \in DOMAIN st}
  BY SameValues, Zenon DEF RootIds
<1>2. \A id : id \in RootIds(st) <=>
         id \in Ids /\ \E a \in DOMAIN st : \E l \in DOMAIN st[a] : st[a][l] = Ref(id)
  BY <1>1 DEF Range
<1> QED
  BY <1>2

\* Every slot of every frame is such a value.
LEMMA KnownRoots ==
    ASSUME HeapInv, GraphRight
    PROVE  /\ \A a \in DOMAIN frames : \A l \in Slots : Known(frames[a][l])
           /\ Known(Unboxed) /\ Known(Out)
<1> DEFINE sk == StackOf(mem, frames)
<1>1. graph.stack = sk /\ RootIds(sk) \subseteq DOMAIN graph.objs
  BY GraphNow DEF IsClosed
<1>2. \A a \in DOMAIN sk : \A l \in DOMAIN sk[a] : \A id \in Ids :
         sk[a][l] = Ref(id) => id \in DOMAIN graph.objs
  <2> HIDE DEF sk
  <2> QED BY <1>1, RootsIn
<1>3. ASSUME NEW a \in DOMAIN frames, NEW l \in Slots PROVE Known(frames[a][l])
  <2>1. a \in DOMAIN sk /\ l \in DOMAIN sk[a] /\ sk[a][l] = ValueOf(mem, frames[a][l])
    BY DEF StackOf
  <2>2. IsVal(mem, Ends, frames[a][l])
    BY DEF HeapInv, Roots
  <2> QED BY <1>2, <2>1, <2>2 DEF Known
<1>4. Known(Unboxed) /\ Known(Out)
  BY References, WordParts DEF Known, IsVal, ValueOf, IntoHeap
<1> QED
  BY <1>3, <1>4

\* The live values of the top frame are the live values of HeapGraph.
LEMMA LiveValues ==
    ASSUME HeapInv, GraphRight
    PROVE  /\ Len(graph.stack) = Top /\ Top \in DOMAIN frames
           /\ \A w \in Live : Known(w) /\ ValueOf(mem, w) \in H!Live
<1>1. graph.stack = StackOf(mem, frames)
  BY GraphNow
<1>2. frames \in Seq([Slots -> Values]) /\ Top \in Nat /\ Top > 0 /\ DOMAIN frames = 1 .. Top
  BY DEF HeapInv, Roots, Top
<1>3. Len(graph.stack) = Top
  <2>1. graph.stack = [a \in 1 .. Top |-> [l \in Slots |-> ValueOf(mem, frames[a][l])]]
    BY <1>1, <1>2 DEF StackOf
  <2> DEFINE S == {graph.stack[a] : a \in 1 .. Top}
  <2>2. graph.stack \in [1 .. Top -> S]
    BY <2>1
  <2> HIDE DEF S
  <2> QED BY <1>2, <2>2, TupleLength
<1>4. Top \in DOMAIN frames
  BY <1>2
<1>5. ASSUME NEW w \in Live PROVE Known(w) /\ ValueOf(mem, w) \in H!Live
  <2>1. DOMAIN frames[Top] = Slots
    BY <1>2, <1>4
  <2>2. PICK l \in Slots : w = frames[Top][l]
    BY <1>5, <2>1 DEF Live, Range
  <2>3. graph.stack[Top] = [x \in Slots |-> ValueOf(mem, frames[Top][x])]
    BY <1>1, <1>4 DEF StackOf
  <2>4. ValueOf(mem, w) \in H!Range(graph.stack[Top])
    BY <2>2, <2>3 DEF H!Range
  <2> QED BY <1>3, <1>4, <2>2, <2>4, KnownRoots DEF H!Live
<1> QED
  BY <1>3, <1>4, <1>5

\* An object whose fields the mutator has access to, in the graph.
LEMMA ScannedObject ==
    ASSUME Bounds, HeapInv, GraphRight, NEW v \in LiveScanned,
           NEW id, id = Identity(mem, v), NEW n, n = HeaderIn(mem, v)[3]
    PROVE  /\ id \in H!LiveScanned /\ id \in Ids /\ id \in DOMAIN graph.objs
           /\ Settled(mem, Ends, v) /\ n \in Nat
           /\ graph.objs[id] = [scan |-> TRUE, fields |-> [f \in 1 .. n |-> ValueOf(mem, FieldIn(mem, v, f))]]
           /\ \A f \in 1 .. n : Known(FieldIn(mem, v, f))
<1> DEFINE all == AllObjs(mem, Ends)
           K == DOMAIN graph.objs
<1>1. pc = "mutator" /\ IntoHeap(v) /\ HeaderIn(mem, v)[4] /\ v \in Live /\ ~ Going
  BY DEF LiveScanned, Going
<1>2. Readable(mem, Ends, rem_limit, fresh, Source)
  BY ReadableNow
<1>3. Known(v) /\ ValueOf(mem, v) \in H!Live
  BY <1>1, LiveValues
<1>4. Settled(mem, Ends, v)
  <2>1. IsObj(mem, Ends, v)
    BY <1>1, <1>3, WordParts DEF Known, IsVal, IntoHeap
  <2>2. IsHead(mem, Ends, v[2], v[3] - 1)
    BY <2>1 DEF IsObj
  <2>3. HeaderIn(mem, v) # Forwarded
    BY <1>1, <2>2, MutatorFacts DEF HeaderIn
  <2> QED BY <2>1, <2>3 DEF Settled
<1>5. ValueOf(mem, v) = Ref(id) /\ id \in Ids
  <2>1. id \in Given(fresh)
    BY <1>2, <1>4, Identities
  <2> QED BY <1>1, <2>1 DEF ValueOf, Given
<1>6. id \in K
  BY <1>3, <1>5 DEF Known
<1>7. graph.objs[id] = all[id] /\ all[id] = ObjectAt(mem, v)
  <2>1. graph.objs[id] = all[id]
    BY <1>6, GraphNow
  <2>2. all[id] = ObjectAt(mem, v)
    BY <1>2, <1>4, Objs
  <2> QED BY <2>1, <2>2
<1>8. /\ IsHeader(HeaderIn(mem, v)) /\ n \in Nat /\ HeaderIn(mem, v)[4] = TRUE
      /\ \A f \in 1 .. n : IsVal(mem, Ends, FieldIn(mem, v, f))
  BY <1>1, <1>2, <1>4, SettledFields
<1>9. graph.objs[id] = [scan |-> TRUE, fields |-> [f \in 1 .. n |-> ValueOf(mem, FieldIn(mem, v, f))]]
  BY <1>7, <1>8 DEF ObjectAt
<1>10. id \in H!LiveScanned
  <2>1. id \in H!RefsIn(H!Live)
    <3>1. H!RefsIn(H!Live) = {x \in Ids : Ref(x) \in H!Live}
      BY SameValues
    <3> QED BY <1>3, <1>5, <3>1
  <2> QED BY <1>9, <2>1 DEF H!LiveScanned
<1>11. ASSUME NEW f \in 1 .. n PROVE Known(FieldIn(mem, v, f))
  <2>1. FieldIds(all, id) \subseteq K
    BY <1>6, GraphNow DEF IsClosed
  <2>2. ASSUME NEW x \in Ids, ValueOf(mem, FieldIn(mem, v, f)) = Ref(x) PROVE x \in K
    <3>1. Ref(x) \in Range(all[id].fields)
      <4> DEFINE vals == [y \in 1 .. n |-> ValueOf(mem, FieldIn(mem, v, y))]
      <4>0. all[id] = [scan |-> TRUE, fields |-> vals]
        <5> HIDE DEF all
        <5> QED BY <1>7, <1>9
      <4>1. all[id].fields = vals
        <5> HIDE DEF all, vals
        <5> QED BY <4>0
      <4> DEFINE fs == all[id].fields
      <4>2. f \in DOMAIN fs /\ fs[f] = Ref(x)
        BY <2>2, <4>1
      <4> HIDE DEF fs
      <4>3. Ref(x) \in Range(fs)
        BY <4>2 DEF Range
      <4> QED BY <4>3 DEF fs
    <3>2. FieldIds(all, id) = {y \in Ids : Ref(y) \in Range(all[id].fields)}
      BY SameValues DEF FieldIds
    <3> HIDE DEF all, K
    <3> QED BY <2>1, <3>1, <3>2
  <2> QED BY <1>8, <2>2 DEF Known
<1> QED
  BY <1>4, <1>5, <1>6, <1>8, <1>9, <1>10, <1>11

\* The values of the frames when slot l of frame a gets w.
Slotted(st, a, l, w) == [st EXCEPT ![a][l] = w]

LEMMA StackWith ==
    ASSUME NEW m, NEW e, NEW st, Roots(m, e, st), NEW a \in DOMAIN st, NEW l \in Slots, NEW w
    PROVE  StackOf(m, Slotted(st, a, l, w)) = Slotted(StackOf(m, st), a, l, ValueOf(m, w))
<1> DEFINE st2 == [st EXCEPT ![a][l] = w]
           sk == StackOf(m, st)
<1>1. DOMAIN st2 = DOMAIN st /\ DOMAIN sk = DOMAIN st
  BY DEF StackOf
<1>2. \A b \in DOMAIN st : DOMAIN st[b] = Slots /\ sk[b] = [x \in Slots |-> ValueOf(m, st[b][x])]
  BY DEF Roots, StackOf
<1>3. ASSUME NEW b \in DOMAIN st
      PROVE  [x \in Slots |-> ValueOf(m, st2[b][x])] = [sk EXCEPT ![a][l] = ValueOf(m, w)][b]
  <2>1. CASE b # a
    <3>1. st2[b] = st[b] /\ [sk EXCEPT ![a][l] = ValueOf(m, w)][b] = sk[b]
      BY <1>1, <2>1
    <3> QED BY <1>2, <3>1
  <2>2. CASE b = a
    <3>1. /\ st2[b] = [st[a] EXCEPT ![l] = w]
          /\ [sk EXCEPT ![a][l] = ValueOf(m, w)][b] = [sk[a] EXCEPT ![l] = ValueOf(m, w)]
      BY <1>1, <2>2
    <3>2. sk[a] = [x \in Slots |-> ValueOf(m, st[a][x])] /\ DOMAIN st[a] = Slots
      BY <1>2
    <3>3. [sk[a] EXCEPT ![l] = ValueOf(m, w)] =
             [x \in Slots |-> IF x = l THEN ValueOf(m, w) ELSE ValueOf(m, st[a][x])]
      BY <3>2
    <3>4. \A x \in Slots : st2[b][x] = IF x = l THEN w ELSE st[a][x]
      BY <3>1, <3>2
    <3> HIDE DEF st2, sk
    <3> QED BY <3>1, <3>3, <3>4
  <2> QED BY <2>1, <2>2
<1>4. DOMAIN [sk EXCEPT ![a][l] = ValueOf(m, w)] = DOMAIN st
  BY <1>1
<1>5. [sk EXCEPT ![a][l] = ValueOf(m, w)] = [b \in DOMAIN st |-> [sk EXCEPT ![a][l] = ValueOf(m, w)][b]]
  BY <1>4
<1>6. StackOf(m, st2) = [b \in DOMAIN st |-> [x \in Slots |-> ValueOf(m, st2[b][x])]]
  BY <1>1 DEF StackOf
<1> HIDE DEF sk, st2
<1> QED
  BY <1>3, <1>5, <1>6 DEF sk, st2, Slotted

\* A step that leaves the heap alone, and has nothing in the frames that the
\* graph does not have.
LEMMA ReadStep ==
    ASSUME HeapInv, HeapInv', GraphRight, GraphRight', mem' = mem, Ends' = Ends,
           \A a \in DOMAIN frames' : \A l \in Slots : Known(frames'[a][l]),
           NEW sk, sk = StackOf(mem, frames')
    PROVE  H!Become(sk, graph.objs)
<1> DEFINE K == DOMAIN graph.objs
           all == AllObjs(mem, Ends)
           ob == graph.objs
<1>1. RootIds(sk) \subseteq K
  <2>1. ASSUME NEW a \in DOMAIN sk, NEW l \in DOMAIN sk[a], NEW id \in Ids, sk[a][l] = Ref(id)
        PROVE  id \in K
    <3>1. a \in DOMAIN frames' /\ l \in Slots /\ sk[a][l] = ValueOf(mem, frames'[a][l])
      BY <2>1 DEF StackOf
    <3> QED BY <2>1, <3>1 DEF Known
  <2> HIDE DEF K
  <2> QED BY <2>1, RootsIn
<1>2. \A id \in K : ob[id] = all[id]
  BY GraphNow
<1>3. \A id \in K : FieldIds(all, id) \subseteq K
  BY GraphNow DEF IsClosed
<1>4. all = AllObjs(mem', Ends') /\ sk = StackOf(mem', frames')
  OBVIOUS
<1> HIDE DEF K, all, ob
<1>5. \A id \in K : FieldIds(ob, id) \subseteq K
  BY <1>2, <1>3 DEF FieldIds
<1>6. IsClosed(K, sk, ob)
  BY <1>1, <1>5 DEF IsClosed
<1>7. \A id \in K : AllObjs(mem', Ends')[id] = ob[id]
  BY <1>2, <1>4
<1>8. H!Become(sk, ob)
  BY <1>4, <1>6, <1>7, BecomeStep
<1> QED
  BY <1>8 DEF ob

\* The mutator does not move the words in use when the policy does not.
LEMMA EndsKept == ASSUME UNCHANGED policy PROVE Ends' = Ends
BY DEF policy, Ends, Owned

\* A slot of the top frame changes.
LEMMA SlotStep ==
    ASSUME HeapInv, HeapInv', GraphRight, GraphRight', UNCHANGED <<policy, mem>>,
           NEW l \in Slots, NEW w, Known(w), frames' = WithSlot(l, w)
    PROVE  H!Become(H!WithSlot(l, ValueOf(mem, w)), graph.objs)
<1>1. Roots(mem, Ends, frames) /\ Sized(mem, Ends, rem_limit)
  BY DEF HeapInv, Objects
<1>2. Top \in DOMAIN frames /\ Len(graph.stack) = Top /\ graph.stack = StackOf(mem, frames)
  BY LiveValues, GraphNow
<1>3. Ends' = Ends
  BY EndsKept
<1>4. IsVal(mem, Ends, w) /\ frames' = [frames EXCEPT ![Top][l] = w]
  BY DEF Known, WithSlot
<1>5. StackOf(mem, frames') = [StackOf(mem, frames) EXCEPT ![Top][l] = ValueOf(mem, w)]
  <2>1. StackOf(mem, Slotted(frames, Top, l, w)) =
           Slotted(StackOf(mem, frames), Top, l, ValueOf(mem, w))
    BY <1>1, <1>2, StackWith
  <2> QED BY <1>4, <2>1 DEF Slotted
<1>6. \A a \in DOMAIN frames' : \A x \in Slots : Known(frames'[a][x])
  <2>1. DOMAIN frames' = DOMAIN frames
    BY <1>4
  <2>2. \A b \in DOMAIN frames : \A x \in Slots :
           frames'[b][x] = IF b = Top /\ x = l THEN w ELSE frames[b][x]
    BY <1>1, <1>2, <1>4, SlotRoots
  <2> QED BY <2>1, <2>2, KnownRoots
<1>7. H!WithSlot(l, ValueOf(mem, w)) = StackOf(mem, frames')
  BY <1>2, <1>5 DEF H!WithSlot
<1> DEFINE sk == StackOf(mem, frames')
<1>8. sk = StackOf(mem, frames')
  OBVIOUS
<1>9. H!WithSlot(l, ValueOf(mem, w)) = sk
  BY <1>7
<1> HIDE DEF sk
<1>10. H!Become(sk, graph.objs)
  BY <1>3, <1>6, <1>8, ReadStep
<1> QED
  BY <1>9, <1>10

\* Loading a field.
LEMMA LoadGraph ==
    ASSUME Bounds, HeapInv, HeapInv', GraphRight, GraphRight',
           NEW v \in LiveScanned, NEW f \in 1 .. HeaderIn(mem, v)[3],
           NEW l \in Slots, Load(l, v, f)
    PROVE  H!Next
<1> DEFINE w == FieldIn(mem, v, f)
           id == Identity(mem, v)
           n == HeaderIn(mem, v)[3]
<1>1. /\ id \in H!LiveScanned
      /\ graph.objs[id] = [scan |-> TRUE, fields |-> [x \in 1 .. n |-> ValueOf(mem, FieldIn(mem, v, x))]]
      /\ Known(w)
  BY ScannedObject
<1>2. f \in DOMAIN graph.objs[id].fields /\ graph.objs[id].fields[f] = ValueOf(mem, w)
  <2> DEFINE fs == graph.objs[id].fields
             vals == [x \in 1 .. n |-> ValueOf(mem, FieldIn(mem, v, x))]
  <2>1. vals[f] = ValueOf(mem, w) /\ f \in DOMAIN vals
    OBVIOUS
  <2>2. fs = vals
    <3> HIDE DEF vals, id
    <3> QED BY <1>1 DEF vals
  <2> HIDE DEF vals, id, w
  <2> QED BY <2>1, <2>2
<1>3. UNCHANGED <<policy, mem>> /\ frames' = WithSlot(l, w)
  BY DEF Load
<1> HIDE DEF w, id
<1>4. H!Become(H!WithSlot(l, ValueOf(mem, w)), graph.objs)
  BY <1>1, <1>3, SlotStep
<1>5. H!Load(l, id, f)
  BY <1>2, <1>4 DEF H!Load
<1>6. l \in H!Slots
  BY SameValues
<1> QED
  BY <1>1, <1>2, <1>5, <1>6 DEF H!Next

\* Clearing a slot.
LEMMA DropGraph ==
    ASSUME HeapInv, HeapInv', GraphRight, GraphRight', NEW l \in Slots, Drop(l)
    PROVE  H!Next
<1>1. UNCHANGED <<policy, mem>> /\ frames' = WithSlot(l, Unboxed) /\ Known(Unboxed)
  BY KnownRoots DEF Drop
<1>2. ValueOf(mem, Unboxed) = H!Unboxed /\ l \in H!Slots
  BY SameValues, WordParts DEF ValueOf, IntoHeap
<1>3. H!Drop(l)
  BY <1>1, <1>2, SlotStep DEF H!Drop
<1> QED
  BY <1>2, <1>3 DEF H!Next

\* The values of a stack of frames are one too.
Seen(m) == {ValueOf(m, w) : w \in Values}

FrameOf(m, frame) == [l \in Slots |-> ValueOf(m, frame[l])]

StackIs(m, st, sk, n) ==
    /\ sk \in Seq([Slots -> Seen(m)]) /\ Len(sk) = n
    /\ n \in Nat /\ Len(st) = n /\ DOMAIN st = 1 .. n
    /\ \A a \in 1 .. n : sk[a] = FrameOf(m, st[a])

LEMMA StackSeq ==
    ASSUME NEW m, NEW st \in Seq([Slots -> Values])
    PROVE  StackIs(m, st, StackOf(m, st), Len(st))
<1> DEFINE n == Len(st)
           sk == StackOf(m, st)
           F == [Slots -> Seen(m)]
<1>1. n \in Nat /\ DOMAIN st = 1 .. n
  BY LenProperties
<1>2. \A a \in 1 .. n : st[a] \in [Slots -> Values]
  BY ElementOfSeq
<1>3. sk = [a \in 1 .. n |-> [l \in Slots |-> ValueOf(m, st[a][l])]]
  BY <1>1 DEF StackOf
<1> HIDE DEF n, sk
<1>4. \A a \in 1 .. n : [l \in Slots |-> ValueOf(m, st[a][l])] \in F
  BY <1>2 DEF Seen
<1> HIDE DEF F
<1>5. sk \in [1 .. n -> F]
  BY <1>3, <1>4
<1>6. sk \in Seq(F)
  BY <1>1, <1>5, SeqDef
<1>7. Len(sk) = n
  BY <1>1, <1>5, TupleLength
<1>8. \A a \in 1 .. n : sk[a] = [l \in Slots |-> ValueOf(m, st[a][l])]
  BY <1>3
<1>9. StackIs(m, st, sk, n)
  BY <1>1, <1>6, <1>7, <1>8 DEF StackIs, FrameOf, F, n
<1> QED
  BY <1>9 DEF n, sk

\* A frame more.
LEMMA StackPush ==
    ASSUME NEW m, NEW st \in Seq([Slots -> Values]), NEW v \in Values
    PROVE  /\ StackOf(m, Append(st, NewFrame(v))) = Append(StackOf(m, st), NewFrame(ValueOf(m, v)))
           /\ Append(st, NewFrame(v)) \in Seq([Slots -> Values])
<1> DEFINE fr0 == NewFrame(v)
           fr1 == NewFrame(ValueOf(m, v))
           st2 == Append(st, fr0)
           n == Len(st)
           V == Values
           W == Seen(m)
           sk == StackOf(m, st)
           sk2 == StackOf(m, st2)
<1>1. /\ fr0 \in [Slots -> V] /\ fr1 \in [Slots -> W]
      /\ FrameOf(m, fr0) = fr1
  <2>1. Unboxed \in V /\ ValueOf(m, Unboxed) = Unboxed
    BY WordParts DEF ValueOf, IntoHeap, Values
  <2>2. Unboxed \in W /\ ValueOf(m, v) \in W
    BY <2>1 DEF Seen
  <2>3. fr0 \in [Slots -> V] /\ fr0[1] = v /\ fr0[2] = Unboxed
    <3> HIDE DEF V
    <3> QED BY <2>1 DEF NewFrame, Slots, V
  <2>4. fr1 \in [Slots -> W] /\ fr1[1] = ValueOf(m, v) /\ fr1[2] = Unboxed
    <3> HIDE DEF W
    <3> QED BY <2>2 DEF NewFrame, Slots
  <2> HIDE DEF fr0, fr1, V, W
  <2>5. \A l \in Slots : ValueOf(m, fr0[l]) = fr1[l]
    BY <2>1, <2>3, <2>4 DEF Slots
  <2> QED BY <2>3, <2>4, <2>5 DEF FrameOf
<1>2. /\ sk \in Seq([Slots -> W]) /\ Len(sk) = n /\ n \in Nat /\ DOMAIN st = 1 .. n
      /\ \A a \in 1 .. n : sk[a] = FrameOf(m, st[a])
  BY StackSeq DEF StackIs
<1> HIDE DEF fr0, fr1, V, W
<1>3. /\ st2 \in Seq([Slots -> V]) /\ Len(st2) = n + 1
      /\ \A a \in 1 .. n : st2[a] = st[a]
      /\ st2[n + 1] = fr0
  BY <1>1, AppendProperties DEF V
<1>4. /\ sk2 \in Seq([Slots -> W]) /\ Len(sk2) = n + 1
      /\ \A a \in 1 .. n + 1 : sk2[a] = FrameOf(m, st2[a])
  <2> HIDE DEF st2
  <2> QED BY <1>3, StackSeq DEF StackIs, V, W
<1> DEFINE sk3 == Append(sk, fr1)
<1>5. /\ sk3 \in Seq([Slots -> W]) /\ Len(sk3) = n + 1
      /\ \A a \in 1 .. n : sk3[a] = sk[a]
      /\ sk3[n + 1] = fr1
  <2> HIDE DEF sk, n
  <2> QED BY <1>1, <1>2, AppendProperties
<1> HIDE DEF sk, sk2, sk3, st2, n
<1>6. \A a \in 1 .. n + 1 : sk2[a] = sk3[a]
  <2> TAKE a \in 1 .. n + 1
  <2>1. CASE a \in 1 .. n
    BY <1>2, <1>3, <1>4, <1>5, <2>1
  <2>2. CASE a = n + 1
    BY <1>1, <1>3, <1>4, <1>5, <2>2
  <2> QED BY <1>2, <2>1, <2>2
<1>7. sk2 = sk3
  BY <1>4, <1>5, <1>6, SeqEqual
<1> QED
  BY <1>3, <1>7 DEF sk2, sk3, sk, st2, fr0, fr1, V

\* A frame less.
LEMMA StackPop ==
    ASSUME NEW m, NEW st \in Seq([Slots -> Values]), NEW n1 \in Nat, Len(st) = n1 + 1
    PROVE  /\ StackOf(m, SubSeq(st, 1, n1)) = SubSeq(StackOf(m, st), 1, n1)
           /\ SubSeq(st, 1, n1) \in Seq([Slots -> Values]) /\ DOMAIN SubSeq(st, 1, n1) = 1 .. n1
           /\ \A a \in 1 .. n1 : SubSeq(st, 1, n1)[a] = st[a]
<1> DEFINE V == [Slots -> Values]
           W == [Slots -> Seen(m)]
           sk == StackOf(m, st)
           st2 == SubSeq(st, 1, n1)
           sk2 == StackOf(m, st2)
           sk3 == SubSeq(sk, 1, n1)
<1>1. /\ sk \in Seq(W) /\ Len(sk) = n1 + 1
      /\ \A a \in 1 .. n1 + 1 : sk[a] = FrameOf(m, st[a])
  BY StackSeq DEF StackIs
<1>2. ASSUME NEW S, NEW t \in Seq(S), Len(t) = n1 + 1
      PROVE  /\ SubSeq(t, 1, n1) \in Seq(S) /\ Len(SubSeq(t, 1, n1)) = n1
             /\ \A a \in 1 .. n1 : SubSeq(t, 1, n1)[a] = t[a]
  <2>1. \A a \in 1 .. n1 : t[a] \in S
    <3>1. \A a \in 1 .. n1 : a \in 1 .. Len(t)
      BY <1>2
    <3> QED BY <3>1, ElementOfSeq
  <2>2. 1 \in Int /\ n1 \in Int
    OBVIOUS
  <2> DEFINE u == SubSeq(t, 1, n1)
  <2>3. /\ u \in Seq(S) /\ Len(u) = IF 1 <= n1 THEN n1 - 1 + 1 ELSE 0
        /\ \A a \in 1 .. n1 - 1 + 1 : u[a] = t[1 + a - 1]
    BY <2>1, <2>2, SubSeqProperties
  <2> HIDE DEF u
  <2>4. Len(u) = n1
    BY <2>3
  <2>5. \A a \in 1 .. n1 : u[a] = t[a]
    <3>1. \A a \in 1 .. n1 : a \in 1 .. n1 - 1 + 1 /\ 1 + a - 1 = a
      OBVIOUS
    <3> QED BY <2>3, <3>1
  <2> QED BY <2>3, <2>4, <2>5 DEF u
<1> HIDE DEF V, W, sk
<1>3. st2 \in Seq(V) /\ Len(st2) = n1 /\ \A a \in 1 .. n1 : st2[a] = st[a]
  BY <1>2 DEF V
<1>4. sk3 \in Seq(W) /\ Len(sk3) = n1 /\ \A a \in 1 .. n1 : sk3[a] = sk[a]
  BY <1>1, <1>2
<1> HIDE DEF st2, sk3
<1>5. /\ sk2 \in Seq(W) /\ Len(sk2) = n1 /\ DOMAIN st2 = 1 .. n1
      /\ \A a \in 1 .. n1 : sk2[a] = FrameOf(m, st2[a])
  BY <1>3, StackSeq DEF StackIs, V, W
<1> HIDE DEF sk2
<1>6. \A a \in 1 .. n1 : sk2[a] = sk3[a]
  <2> TAKE a \in 1 .. n1
  <2>1. a \in 1 .. n1 + 1
    OBVIOUS
  <2> QED BY <1>1, <1>3, <1>4, <1>5, <2>1
<1>7. sk2 = sk3
  BY <1>4, <1>5, <1>6, SeqEqual
<1> QED
  BY <1>3, <1>5, <1>7 DEF sk2, sk3, sk, st2, V

\* Calling a function.
LEMMA CallGraph ==
    ASSUME HeapInv, HeapInv', GraphRight, GraphRight', NEW v \in Live, Call(v)
    PROVE  H!Next
<1> DEFINE u == ValueOf(mem, v)
           sk == StackOf(mem, frames')
<1>1. /\ UNCHANGED <<policy, mem>> /\ Top < MaxFrames
      /\ frames' = Append(frames, NewFrame(v)) /\ Top = Len(frames)
  BY DEF Call, Top
<1>2. /\ Len(graph.stack) = Top /\ Known(v) /\ u \in H!Live
      /\ graph.stack = StackOf(mem, frames)
  BY LiveValues, GraphNow
<1>3. frames \in Seq([Slots -> Values]) /\ v \in Values
  <2>1. Sized(mem, Ends, rem_limit) /\ Roots(mem, Ends, frames) /\ IsVal(mem, Ends, v)
    BY <1>2 DEF HeapInv, Objects, Known
  <2> QED BY <2>1, RootValues DEF Roots
<1>4. sk = Append(graph.stack, NewFrame(u))
  BY <1>1, <1>2, <1>3, StackPush
<1>5. \A a \in DOMAIN frames' : \A l \in Slots : Known(frames'[a][l])
  <2>1. NewFrame(v) \in [Slots -> Values]
    <3>1. Unboxed \in Values
      BY DEF Values
    <3> QED BY <1>3, <3>1 DEF NewFrame, Slots
  <2> DEFINE frame == NewFrame(v)
             n == Len(frames)
  <2>2. frame[1] = v /\ frame[2] = Unboxed
    BY DEF NewFrame
  <2>3. n \in Nat /\ DOMAIN frames = 1 .. n
    BY <1>3, LenProperties
  <2> HIDE DEF frame
  <2>4. /\ frames' \in Seq([Slots -> Values]) /\ Len(frames') = n + 1
        /\ \A a \in 1 .. n : frames'[a] = frames[a]
        /\ frames'[n + 1] = frame
    BY <1>1, <1>3, <2>1, AppendProperties DEF frame
  <2>5. DOMAIN frames' = 1 .. n + 1
    BY <2>4, LenProperties
  <2> HIDE DEF n
  <2>6. ASSUME NEW a \in DOMAIN frames', NEW l \in Slots PROVE Known(frames'[a][l])
    <3>1. CASE a \in 1 .. n
      BY <2>3, <2>4, <3>1, KnownRoots
    <3>2. CASE a = n + 1
      <4>1. frame[l] = v \/ frame[l] = Unboxed
        BY <2>2 DEF Slots
      <4> QED BY <1>2, <2>4, <3>2, <4>1, KnownRoots
    <3> QED BY <2>3, <2>5, <3>1, <3>2
  <2> QED BY <2>6
<1>6. Ends' = Ends /\ mem' = mem
  BY <1>1, EndsKept
<1>7. sk = StackOf(mem, frames')
  OBVIOUS
<1> HIDE DEF sk, u
<1>8. H!Become(sk, graph.objs)
  BY <1>5, <1>6, <1>7, ReadStep
<1>9. H!Call(u)
  BY <1>1, <1>2, <1>4, <1>8, SameValues DEF H!Call
<1> QED
  BY <1>2, <1>9 DEF H!Next

\* Returning from it.
LEMMA ReturnGraph ==
    ASSUME HeapInv, HeapInv', GraphRight, GraphRight', NEW v \in Live, NEW l \in Slots, Return(l, v)
    PROVE  H!Next
<1> DEFINE u == ValueOf(mem, v)
           n1 == Top - 1
           st == SubSeq(frames, 1, n1)
           st1 == SubSeq(graph.stack, 1, n1)
           sk == StackOf(mem, frames')
<1>1. /\ UNCHANGED <<policy, mem>> /\ Top > 1
      /\ frames' = [st EXCEPT ![n1][l] = v] /\ Top = Len(frames)
  BY DEF Return, Top
<1>2. /\ Len(graph.stack) = Top /\ Known(v) /\ u \in H!Live
      /\ graph.stack = StackOf(mem, frames)
  BY LiveValues, GraphNow
<1>3. Sized(mem, Ends, rem_limit) /\ Roots(mem, Ends, frames) /\ IsVal(mem, Ends, v)
  BY <1>2 DEF HeapInv, Objects, Known
<1>4. frames \in Seq([Slots -> Values])
  BY <1>3 DEF Roots
<1>5. Top \in Nat /\ DOMAIN frames = 1 .. Top
  BY <1>1, <1>4, LenProperties
<1>6. n1 \in Nat /\ n1 > 0 /\ Top = n1 + 1 /\ \A a \in 1 .. n1 : a \in DOMAIN frames
  BY <1>1, <1>5
<1> HIDE DEF n1
<1>7. /\ StackOf(mem, st) = st1 /\ st \in Seq([Slots -> Values])
      /\ DOMAIN st = 1 .. n1 /\ \A a \in 1 .. n1 : st[a] = frames[a]
  <2>1. Len(frames) = n1 + 1 /\ n1 \in Nat
    BY <1>1, <1>6
  <2>2. /\ StackOf(mem, SubSeq(frames, 1, n1)) = SubSeq(StackOf(mem, frames), 1, n1)
        /\ SubSeq(frames, 1, n1) \in Seq([Slots -> Values])
        /\ DOMAIN SubSeq(frames, 1, n1) = 1 .. n1
        /\ \A a \in 1 .. n1 : SubSeq(frames, 1, n1)[a] = frames[a]
    BY <1>4, <2>1, StackPop, Zenon
  <2> QED BY <1>2, <2>2
<1> HIDE DEF st, st1
<1>8. Roots(mem, Ends, st) /\ n1 \in DOMAIN st
  <2>1. Len(st) = n1
    <3>1. st \in [1 .. n1 -> [Slots -> Values]]
      BY <1>7, LenProperties
    <3> QED BY <1>6, <3>1, TupleLength
  <2>2. \A a \in DOMAIN st : \A x \in Slots : IsVal(mem, Ends, st[a][x])
    BY <1>3, <1>6, <1>7 DEF Roots
  <2> QED BY <1>6, <1>7, <2>1, <2>2 DEF Roots
<1>9. sk = [st1 EXCEPT ![n1][l] = u]
  <2>1. StackOf(mem, Slotted(st, n1, l, v)) = Slotted(StackOf(mem, st), n1, l, ValueOf(mem, v))
    BY <1>8, StackWith
  <2> QED BY <1>1, <1>7, <2>1 DEF Slotted
<1>10. \A a \in DOMAIN frames' : \A x \in Slots : Known(frames'[a][x])
  <2>1. DOMAIN frames' = DOMAIN st
    BY <1>1
  <2>2. \A b \in DOMAIN st : \A x \in Slots :
           frames'[b][x] = IF b = n1 /\ x = l THEN v ELSE st[b][x]
    BY <1>1, <1>3, <1>8, SlotRoots
  <2> QED BY <1>2, <1>6, <1>7, <2>1, <2>2, KnownRoots
<1>11. Ends' = Ends /\ mem' = mem
  BY <1>1, EndsKept
<1>12. sk = StackOf(mem, frames')
  OBVIOUS
<1> HIDE DEF sk, u
<1>13. H!Become(sk, graph.objs)
  BY <1>10, <1>11, <1>12, ReadStep
<1>14. Len(graph.stack) > 1 /\ Len(graph.stack) - 1 = n1
  BY <1>1, <1>2 DEF n1
<1>15. H!Return(l, u)
  BY <1>9, <1>13, <1>14, SameValues DEF H!Return, st1
<1>16. l \in H!Slots
  BY SameValues
<1> QED
  BY <1>2, <1>15, <1>16 DEF H!Next

\* One of them.
LEMMA ObjOf ==
    ASSUME NEW m, NEW e, NEW r, NEW n, NEW k, Readable(m, e, r, n, k),
           NEW v, Settled(m, e, v), NEW id, Identity(m, v) = id
    PROVE  id \in DOMAIN AllObjs(m, e) /\ AllObjs(m, e)[id] = ObjectAt(m, v)
BY Objs

\* Memories that are alike have the same objects.
LEMMA SameObjs ==
    ASSUME NEW m, NEW e, NEW r, NEW n, NEW k, Readable(m, e, r, n, k),
           NEW m2, NEW e2, NEW r2, NEW n2, NEW k2, Readable(m2, e2, r2, n2, k2),
           Alike(m, e, m2, e2), NEW id \in DOMAIN AllObjs(m, e)
    PROVE  AllObjs(m2, e2)[id] = AllObjs(m, e)[id]
<1>1. PICK v : Settled(m, e, v) /\ Identity(m, v) = id
  BY Objs
<1>2. IsVal(m, e, v) /\ IntoHeap(v)
  BY <1>1, Identities
<1>3. IsVal(m2, e2, v) /\ ValueOf(m2, v) = ValueOf(m, v)
  BY <1>2 DEF Alike, ValuesKept
<1> DEFINE v2 == Resolve(m2, v)
<1>4. Settled(m2, e2, v2) /\ Identity(m2, v) = Identity(m2, v2)
  BY <1>2, <1>3, ValueFacts
<1>5. Identity(m2, v2) = id
  <2>1. Ref(Identity(m2, v)) = Ref(Identity(m, v))
    BY <1>2, <1>3 DEF ValueOf
  <2>2. Identity(m2, v) = Identity(m, v)
    BY <2>1, References
  <2> QED BY <1>1, <1>4, <2>2
<1> HIDE DEF v2
<1>6. PICK v3 : /\ Settled(m, e, v3) /\ Identity(m, v3) = Identity(m2, v2)
                /\ ObjectAt(m2, v2) = ObjectAt(m, v3)
  BY <1>4 DEF Alike, ObjectsKept
<1>7. AllObjs(m2, e2)[id] = ObjectAt(m2, v2)
  BY <1>4, <1>5, ObjOf
<1>8. AllObjs(m, e)[id] = ObjectAt(m, v3)
  BY <1>5, <1>6, Objs
<1> QED
  BY <1>6, <1>7, <1>8

\* What the objects are when field x of object v, which has n0, gets w.
StoredIn(m, e, v, n0, x, w, id) ==
    IF id = Identity(m, v)
    THEN [scan |-> TRUE,
          fields |-> [f \in 1 .. n0 |-> IF f = x THEN ValueOf(m, w) ELSE ValueOf(m, FieldIn(m, v, f))]]
    ELSE AllObjs(m, e)[id]

LEMMA StoredObjs ==
    ASSUME NEW m, NEW e, NEW r, NEW n, NEW k, Readable(m, e, r, n, k),
           NEW v, Settled(m, e, v), NEW n0, n0 = HeaderIn(m, v)[3], NEW x \in 1 .. n0,
           NEW g, NEW h, NEW o, g = v[2], h = v[3] - 1, o = v[3] + x - 1,
           Field(m, e, g, h, o), NEW w, IsVal(m, e, w),
           NEW m2, m2 = Written(m, g, o, w), Readable(m2, e, r, n, k),
           NEW id \in DOMAIN AllObjs(m, e)
    PROVE  id \in DOMAIN AllObjs(m2, e) /\ AllObjs(m2, e)[id] = StoredIn(m, e, v, n0, x, w, id)
<1>1. /\ Keeps(m, m2, e) /\ m2[g][o] = w
      /\ \A v1 : Settled(m, e, v1) =>
            /\ HeaderIn(m2, v1) = HeaderIn(m, v1)
            /\ \A f \in 1 .. HeaderIn(m, v1)[3] :
                  IF v1[2] = g /\ v1[3] + f - 1 = o
                  THEN v1[3] - 1 = h /\ HeaderIn(m, v1)[4] /\ FieldIn(m2, v1, f) = w
                  ELSE FieldIn(m2, v1, f) = FieldIn(m, v1, f)
  BY FieldWritten
<1>2. ValuesKept(m, e, m2, e)
  BY <1>1, KeptValues
<1>3. PICK v1 : Settled(m, e, v1) /\ Identity(m, v1) = id
  BY Objs
<1>4. Settled(m2, e, v1) /\ HeaderIn(m2, v1) = HeaderIn(m, v1)
  <2>1. IsVal(m, e, v1) /\ IntoHeap(v1)
    BY <1>3, Identities
  <2>2. IsVal(m2, e, v1)
    BY <1>2, <2>1 DEF ValuesKept
  <2>3. HeaderIn(m2, v1) = HeaderIn(m, v1)
    BY <1>1, <1>3
  <2> QED BY <1>3, <2>1, <2>2, <2>3, WordParts DEF Settled, IsVal, IntoHeap
<1>5. Identity(m2, v1) = id /\ AllObjs(m, e)[id] = ObjectAt(m, v1)
  <2>1. Identity(m2, v1) = HeaderIn(m2, v1)[2] /\ Identity(m, v1) = HeaderIn(m, v1)[2]
    BY <1>3, <1>4, Identities
  <2>2. AllObjs(m, e)[id] = ObjectAt(m, v1)
    BY <1>3, ObjOf
  <2> QED BY <1>3, <1>4, <2>1, <2>2
<1>6. id \in DOMAIN AllObjs(m2, e) /\ AllObjs(m2, e)[id] = ObjectAt(m2, v1)
  BY <1>4, <1>5, ObjOf
<1>7. /\ v1 = Ptr(v1[2], v1[3]) /\ v1[3] \in Nat /\ IsHeader(HeaderIn(m, v1))
      /\ HeaderIn(m, v1)[3] \in Nat
      /\ v = Ptr(v[2], v[3]) /\ v[3] \in Nat
      /\ HeaderIn(m, v1)[4] \in BOOLEAN
      /\ \A f \in 1 .. HeaderIn(m, v1)[3] : HeaderIn(m, v1)[4] => IsVal(m, e, FieldIn(m, v1, f))
  BY <1>3, SettledFields
<1>8. CASE v1 # v
  <2>1. id # Identity(m, v)
    BY <1>3, <1>8, Identities
  <2>2. ASSUME NEW f \in 1 .. HeaderIn(m, v1)[3] PROVE FieldIn(m2, v1, f) = FieldIn(m, v1, f)
    <3>1. ~ (v1[2] = g /\ v1[3] - 1 = h)
      BY <1>7, <1>8
    <3> QED BY <1>1, <1>3, <3>1
  <2>3. \A f \in 1 .. HeaderIn(m, v1)[3] :
           IF HeaderIn(m, v1)[4] THEN ValueOf(m2, FieldIn(m2, v1, f)) = ValueOf(m, FieldIn(m, v1, f))
           ELSE FieldIn(m2, v1, f) = FieldIn(m, v1, f)
    BY <1>2, <1>7, <2>2 DEF ValuesKept
  <2>4. Resolve(m2, v1) = v1
    BY <1>4 DEF Settled, Resolve
  <2>5. ObjectAt(m2, v1) = ObjectAt(m, v1)
    BY <1>3, <1>4, <2>3, <2>4, SameObject
  <2> QED BY <1>5, <1>6, <2>1, <2>5 DEF StoredIn
<1>9. CASE v1 = v
  <2>1. HeaderIn(m, v)[4] = TRUE /\ x \in 1 .. HeaderIn(m, v)[3]
    <3>1. HeaderIn(m, v)[4]
      BY DEF Field, HeaderIn
    <3> QED BY <1>7, <1>9, <3>1
  <2> DEFINE new == [f \in 1 .. n0 |-> ValueOf(m2, FieldIn(m2, v, f))]
             old == [f \in 1 .. n0 |-> IF f = x THEN ValueOf(m, w) ELSE ValueOf(m, FieldIn(m, v, f))]
  <2>2. ObjectAt(m2, v) = [scan |-> TRUE, fields |-> new]
    <3>1. HeaderIn(m2, v) = HeaderIn(m, v) /\ IsHeader(HeaderIn(m, v))
      BY <1>4, <1>7, <1>9
    <3> QED BY <2>1, <3>1 DEF ObjectAt
  <2>3. ASSUME NEW f \in 1 .. n0
        PROVE  ValueOf(m2, FieldIn(m2, v, f)) = IF f = x THEN ValueOf(m, w) ELSE ValueOf(m, FieldIn(m, v, f))
    <3>1. CASE f = x
      <4>1. FieldIn(m2, v, f) = w
        BY <1>1, <3>1 DEF FieldIn
      <4> QED BY <1>2, <3>1, <4>1 DEF ValuesKept
    <3>2. CASE f # x
      <4>1. ~ (v[2] = g /\ v[3] + f - 1 = o)
        BY <1>7, <3>2
      <4>2. FieldIn(m2, v, f) = FieldIn(m, v, f)
        BY <1>1, <4>1
      <4>3. IsVal(m, e, FieldIn(m, v, f))
        BY <1>7, <1>9, <2>1
      <4> QED BY <1>2, <3>2, <4>2, <4>3 DEF ValuesKept
    <3> QED BY <3>1, <3>2
  <2>4. new = old
    BY <2>3
  <2>5. id = Identity(m, v)
    BY <1>3, <1>9
  <2> HIDE DEF new
  <2> QED BY <1>6, <1>9, <2>2, <2>4, <2>5 DEF StoredIn
<1> QED
  BY <1>8, <1>9

\* What the mutator may store.
LEMMA Storable ==
    ASSUME HeapInv, GraphRight, NEW val \in Live \cup {Unboxed, Out}
    PROVE  Known(val) /\ ValueOf(mem, val) \in H!Live \cup {H!Unboxed, H!Out}
<1>1. CASE val \in Live
  BY <1>1, LiveValues
<1>2. CASE val \in {Unboxed, Out}
  <2>1. ValueOf(mem, val) = val
    BY <1>2, WordParts DEF ValueOf, IntoHeap
  <2> QED BY <1>2, <2>1, KnownRoots, SameValues
<1> QED
  BY <1>1, <1>2

\* A store changes a word in use, and no other.
LEMMA StoredWords ==
    ASSUME Bounds, HeapInv, HeapInv', NEW v \in LiveScanned, NEW n, n = HeaderIn(mem, v)[3],
           NEW f \in 1 .. n, NEW val, IsVal(mem, Ends, val), Store(v, f, val), alloc < ti_limit,
           NEW m1, m1 = Written(mem, v[2], v[3] + f - 1, val)
    PROVE  /\ UNCHANGED frames /\ Ends' = Ends
           /\ Field(mem, Ends, v[2], v[3] - 1, v[3] + f - 1)
           /\ Readable(mem, Ends, rem_limit, fresh, MAX_SPACES)
           /\ Readable(m1, Ends, rem_limit, fresh, MAX_SPACES)
           /\ Alike(m1, Ends, mem', Ends)
<1> DEFINE g == v[2]
           h == v[3] - 1
           o == v[3] + f - 1
           x == ti_limit - 1
           c == Cell(g, o)
<1>1. /\ pc = "mutator" /\ pc' = "mutator" /\ UNCHANGED <<next, alloc, rem_limit, fresh, frames>>
      /\ IsPtr(val) => mem' = Written(m1, 0, x, c)
      /\ ~ IsPtr(val) => mem' = m1
  BY StorePolicy
<1>2. ~ Going /\ Owned /\ Field(mem, Ends, g, h, o)
  BY ScannedFacts
<1>3. Ends' = Ends
  BY <1>1, <1>2 DEF Ends, Owned
<1>4. Heap(mem, Ends, Starts, rem_limit, fresh, MAX_SPACES)
  BY <1>2, MutatorFacts
<1> HIDE DEF g, h, o, x, c
<1>5. Heap(m1, Ends, Starts, rem_limit, fresh, MAX_SPACES)
  BY <1>2, <1>4, WriteHeap DEF g, o
<1>6. /\ Readable(mem, Ends, rem_limit, fresh, MAX_SPACES)
      /\ Readable(m1, Ends, rem_limit, fresh, MAX_SPACES)
  BY <1>4, <1>5 DEF Heap, Readable
<1>7. CASE ~ IsPtr(val)
  <2>1. Alike(m1, Ends, mem', Ends)
    BY <1>1, <1>7, AlikeSelf
  <2> QED BY <1>1, <1>2, <1>3, <1>6, <2>1 DEF g, h, o
<1>8. CASE IsPtr(val)
  <2>1. 0 \in Gens /\ Ends[0] = alloc /\ alloc \in Nat /\ ti_limit \in Nat /\ Ends[0] <= x
    <3>1. 0 \in Gens /\ Ends[0] = alloc /\ Starts[0] = ti_limit
      BY <1>2, PolicyFacts, EndsFacts
    <3>2. Ends[0] \in Nat /\ Starts[0] \in Nat
      BY <3>1, EndsFacts
    <3> QED BY <3>1, <3>2 DEF x
  <2>2. \A g1 \in Gens : \A o1 \in 0 .. Ends[g1] - 1 : g1 # 0 \/ o1 # x
    BY <2>1
  <2>3. SameWords(m1, mem', Ends)
    <3>1. mem' = Written(m1, 0, x, c)
      BY <1>1, <1>8
    <3>2. /\ DOMAIN m1 = Gens
          /\ \A g1 \in Gens : \A o1 \in 0 .. Ends[g1] - 1 : o1 \in DOMAIN m1[g1]
      <4>1. Sized(m1, Ends, rem_limit)
        BY <1>5 DEF Heap
      <4> QED BY <4>1 DEF Sized
    <3> QED BY <2>2, <3>1, <3>2 DEF SameWords, Written
  <2>4. Alike(m1, Ends, mem', Ends)
    BY <1>6, <2>3, SameWordsAlike
  <2> QED BY <1>1, <1>2, <1>3, <1>6, <2>4 DEF g, h, o
<1> QED
  BY <1>7, <1>8

\* Storing a value in a field of an object.
LEMMA StoreGraph ==
    ASSUME Bounds, HeapInv, HeapInv', GraphRight, GraphRight', NEW v \in LiveScanned,
           NEW n, n = HeaderIn(mem, v)[3], NEW f \in 1 .. n,
           NEW val \in Live \cup {Unboxed, Out}, Store(v, f, val), alloc < ti_limit
    PROVE  H!Next
<1> DEFINE m1 == Written(mem, v[2], v[3] + f - 1, val)
           id == Identity(mem, v)
           u == ValueOf(mem, val)
           K == DOMAIN graph.objs
           ob == graph.objs
           all == AllObjs(mem, Ends)
           vals == [y \in 1 .. n |-> ValueOf(mem, FieldIn(mem, v, y))]
           new == [y \in 1 .. n |-> IF y = f THEN u ELSE ValueOf(mem, FieldIn(mem, v, y))]
           ob1 == [ob EXCEPT ![id].fields[f] = u]
           sk == graph.stack
<1>1. /\ Known(val) /\ u \in H!Live \cup {H!Unboxed, H!Out} /\ IsVal(mem, Ends, val)
  BY Storable DEF Known
<1>2. /\ UNCHANGED frames /\ Ends' = Ends
      /\ Field(mem, Ends, v[2], v[3] - 1, v[3] + f - 1)
      /\ Readable(mem, Ends, rem_limit, fresh, MAX_SPACES)
      /\ Readable(m1, Ends, rem_limit, fresh, MAX_SPACES)
      /\ Alike(m1, Ends, mem', Ends)
  <2> HIDE DEF m1
  <2> QED BY <1>1, StoredWords DEF m1
<1>3. /\ id \in H!LiveScanned /\ id \in Ids /\ id \in K /\ Settled(mem, Ends, v) /\ n \in Nat
      /\ ob[id] = [scan |-> TRUE, fields |-> vals]
      /\ \A y \in 1 .. n : Known(FieldIn(mem, v, y))
  BY ScannedObject
<1>4. Readable(mem', Ends, rem_limit', fresh', Source')
  BY <1>2, ReadableThen
<1> HIDE DEF K, all, vals, new, ob, m1
<1>5. /\ sk = StackOf(mem, frames) /\ RootIds(sk) \subseteq K
      /\ \A y \in K : ob[y] = all[y] /\ FieldIds(all, y) \subseteq K /\ y \in DOMAIN all
  BY GraphNow DEF IsClosed, K, ob, all
<1>6. ob1[id] = [scan |-> TRUE, fields |-> new] /\ \A y \in K : y # id => ob1[y] = ob[y]
  <2>1. ob1[id] = [ob[id] EXCEPT !.fields[f] = u]
    BY <1>3 DEF K, ob
  <2>2. [ob[id] EXCEPT !.fields[f] = u] = [scan |-> TRUE, fields |-> [vals EXCEPT ![f] = u]]
    <3> DEFINE it == ob[id]
               next1 == [vals EXCEPT ![f] = u]
    <3>1. it = [scan |-> TRUE, fields |-> vals]
      BY <1>3
    <3> HIDE DEF it
    <3>2. it.fields = vals
      BY <3>1
    <3>3. [it.fields EXCEPT ![f] = u] = next1
      BY <3>2
    <3> HIDE DEF next1
    <3> DEFINE yes == TRUE
    <3>4. it = [scan |-> yes, fields |-> vals]
      BY <3>1
    <3> HIDE DEF vals, yes
    <3>5. [it EXCEPT !.fields = next1] = [scan |-> yes, fields |-> next1]
      BY <3>4
    <3> QED BY <3>3, <3>5 DEF it, next1, yes
  <2>3. [vals EXCEPT ![f] = u] = new
    BY DEF vals, new
  <2>4. \A y \in K : y # id => ob1[y] = ob[y]
    BY DEF K, ob
  <2> HIDE DEF ob1
  <2> QED BY <2>1, <2>2, <2>3, <2>4
<1> HIDE DEF ob1
<1>7. ASSUME NEW y \in K PROVE AllObjs(mem', Ends)[y] = ob1[y]
  <2>1. y \in DOMAIN AllObjs(m1, Ends) /\ AllObjs(m1, Ends)[y] = StoredIn(mem, Ends, v, n, f, val, y)
    <3>1. y \in DOMAIN AllObjs(mem, Ends)
      BY <1>5 DEF all
    <3> QED BY <1>1, <1>2, <1>3, <3>1, StoredObjs DEF m1
  <2>2. AllObjs(mem', Ends)[y] = AllObjs(m1, Ends)[y]
    BY <1>2, <1>4, <2>1, SameObjs
  <2>3. CASE y = id
    BY <1>6, <2>1, <2>2, <2>3 DEF StoredIn, new
  <2>4. CASE y # id
    BY <1>5, <1>6, <2>1, <2>2, <2>4 DEF StoredIn, all
  <2> QED BY <2>3, <2>4
<1>8. ASSUME NEW y \in K PROVE FieldIds(ob1, y) \subseteq K
  <2>1. CASE y # id
    BY <1>5, <1>6, <2>1 DEF FieldIds
  <2>2. CASE y = id
    <3>1. FieldIds(ob1, y) = {z \in Ids : Ref(z) \in Range(new)}
      BY <1>6, <2>2, SameValues DEF FieldIds
    <3>2. ASSUME NEW z \in Ids, Ref(z) \in Range(new) PROVE z \in K
      <4>1. PICK a \in 1 .. n : Ref(z) = new[a]
        BY <3>2 DEF Range, new
      <4>2. new[a] = u \/ new[a] = ValueOf(mem, FieldIn(mem, v, a))
        BY DEF new
      <4>3. Known(FieldIn(mem, v, a))
        BY <1>3
      <4> QED BY <1>1, <4>1, <4>2, <4>3 DEF Known, K
    <3> QED BY <3>1, <3>2
  <2> QED BY <2>1, <2>2
<1>9. IsClosed(K, sk, ob1)
  BY <1>5, <1>8 DEF IsClosed
<1>10. StackOf(mem', frames') = sk
  <2>1. ValuesKept(mem, Ends, m1, Ends)
    <3> DEFINE g == v[2]
               h == v[3] - 1
               o == v[3] + f - 1
    <3>1. Field(mem, Ends, g, h, o) /\ m1 = Written(mem, g, o, val)
      BY <1>2 DEF m1
    <3> HIDE DEF g, h, o
    <3>2. Keeps(mem, m1, Ends)
      BY <1>1, <1>2, <3>1, FieldWritten
    <3> QED BY <1>2, <3>2, KeptValues
  <2>2. ValuesKept(mem, Ends, mem', Ends)
    BY <1>2, <2>1 DEF Alike, ValuesKept
  <2> QED BY <1>2, <1>5, <2>2, StackKept
<1>11. H!Become(sk, ob1)
  <2>1. \A y \in K : AllObjs(mem', Ends')[y] = ob1[y]
    BY <1>2, <1>7
  <2> QED BY <1>9, <1>10, <2>1, BecomeStep
<1>12. f \in DOMAIN graph.objs[id].fields
  <2>1. graph.objs[id].fields = vals
    <3>1. graph.objs[id] = [scan |-> TRUE, fields |-> vals]
      BY <1>3 DEF ob
    <3> HIDE DEF id
    <3> QED BY <3>1
  <2>2. f \in DOMAIN vals
    BY DEF vals
  <2> HIDE DEF id
  <2> QED BY <2>1, <2>2
<1>13. H!Store(id, f, u)
  BY <1>11 DEF H!Store, ob1, ob
<1> HIDE DEF id, u
<1> QED
  BY <1>1, <1>3, <1>12, <1>13 DEF H!Next

\* An object more leaves values and objects as they are.
LEMMA AppendedKeeps ==
    ASSUME NEW m, NEW e, NEW r, NEW n, NEW k, Readable(m, e, r, n, k),
           NEW m2, NEW e2, NEW n2, NEW g1, NEW sz, Appending(m, m2, e, e2, r, n2, g1, sz),
           NEW k2, Readable(m2, e2, r, n2, k2)
    PROVE  /\ ValuesKept(m, e, m2, e2)
           /\ \A id \in DOMAIN AllObjs(m, e) : AllObjs(m2, e2)[id] = AllObjs(m, e)[id]
<1>1. FromOnly(m, e, k)
  BY DEF Readable
<1>2. \A g, h : IsHead(m, e, g, h) => m2[g][h] = m[g][h] /\ m2[g][h + 1] = m[g][h + 1]
  BY AppendedHeads
<1>3. /\ \A v : IsObj(m, e, v) => IsObj(m2, e2, v)
      /\ \A v : IsVal(m, e, v) => IsVal(m2, e2, v)
  BY <1>1, AppendedObjects
<1>4. ASSUME NEW v, IsObj(m, e, v)
      PROVE  HeaderIn(m2, v) = HeaderIn(m, v) /\ Resolve(m2, v) = Resolve(m, v)
  <2>1. IsHead(m, e, v[2], v[3] - 1) /\ v[3] \in Nat
    BY <1>4 DEF IsObj
  <2>2. v[3] + 1 - 1 = v[3] - 1 + 1
    BY <2>1
  <2>3. HeaderIn(m2, v) = HeaderIn(m, v) /\ FieldIn(m2, v, 1) = FieldIn(m, v, 1)
    BY <1>2, <2>1, <2>2 DEF HeaderIn, FieldIn
  <2> QED BY <2>3 DEF Resolve
<1>5. ASSUME NEW w, IsVal(m, e, w) PROVE ValueOf(m2, w) = ValueOf(m, w)
  <2>1. CASE ~ IntoHeap(w)
    BY <2>1 DEF ValueOf
  <2>2. CASE IntoHeap(w)
    <3>1. IsObj(m, e, w)
      BY <1>5, <2>2, WordParts DEF IsVal, IntoHeap
    <3>2. Settled(m, e, Resolve(m, w))
      BY <1>5, <2>2, ResolveSettles
    <3> DEFINE u == Resolve(m, w)
    <3>3. IsObj(m, e, u)
      BY <3>2 DEF Settled
    <3>4. Resolve(m2, w) = u
      BY <1>4, <3>1
    <3>5. HeaderIn(m2, u) = HeaderIn(m, u)
      BY <1>4, <3>3
    <3>6. Identity(m2, w) = Identity(m, w)
      BY <3>4, <3>5 DEF Identity
    <3> QED BY <2>2, <3>6 DEF ValueOf
  <2> QED BY <2>1, <2>2
<1>6. ValuesKept(m, e, m2, e2)
  BY <1>3, <1>5 DEF ValuesKept
<1>7. ASSUME NEW id \in DOMAIN AllObjs(m, e)
      PROVE  AllObjs(m2, e2)[id] = AllObjs(m, e)[id]
  <2>1. PICK v : Settled(m, e, v) /\ Identity(m, v) = id
    BY Objs
  <2>2. IsObj(m, e, v) /\ HeaderIn(m, v) # Forwarded
    BY <2>1 DEF Settled
  <2>3. HeaderIn(m2, v) = HeaderIn(m, v) /\ Settled(m2, e2, v) /\ Resolve(m2, v) = v
    BY <1>3, <1>4, <2>2 DEF Settled, Resolve
  <2>4. ASSUME NEW f \in 1 .. HeaderIn(m, v)[3]
        PROVE  /\ FieldIn(m2, v, f) = FieldIn(m, v, f)
               /\ HeaderIn(m, v)[4] => IsVal(m, e, FieldIn(m, v, f))
    <3>1. /\ v[3] + f - 1 \in 0 .. e[v[2]] - 1 /\ IsHead(m, e, v[2], v[3] - 1)
          /\ HeaderIn(m, v)[4] => IsVal(m, e, FieldIn(m, v, f))
      BY <2>1, SettledFields
    <3>2. v[2] \in Gens
      BY <3>1 DEF IsHead
    <3>3. Appended(m, m2, e, e2, g1, sz)
      BY DEF Appending
    <3> QED BY <3>1, <3>2, <3>3 DEF Appended, FieldIn
  <2>5. \A f \in 1 .. HeaderIn(m, v)[3] :
           IF HeaderIn(m, v)[4] THEN ValueOf(m2, FieldIn(m2, v, f)) = ValueOf(m, FieldIn(m, v, f))
           ELSE FieldIn(m2, v, f) = FieldIn(m, v, f)
    BY <1>5, <2>4
  <2>6. Identity(m, v) = Identity(m2, v) /\ ObjectAt(m2, v) = ObjectAt(m, v)
    BY <2>1, <2>3, <2>5, SameObject
  <2>7. AllObjs(m, e)[id] = ObjectAt(m, v)
    BY <2>1, ObjOf
  <2>8. AllObjs(m2, e2)[id] = ObjectAt(m2, v)
    BY <2>1, <2>3, <2>6, ObjOf
  <2> QED BY <2>6, <2>7, <2>8
<1> QED
  BY <1>6, <1>7

\* The object that is new: what the program has in its fields, and how the
\* graph has it.
Made(l, n, fields, scan) ==
    /\ NewObject(l, n, fields, scan) /\ n \in Sizes /\ scan \in BOOLEAN
    /\ \/ scan /\ fields \in [1 .. n -> Live]
       \/ ~ scan /\ fields = [x \in 1 .. n |-> Raw]

MadeOf(n, fields, scan) ==
    [scan |-> scan, fields |-> [f \in 1 .. n |-> IF scan THEN ValueOf(mem, fields[f]) ELSE RawData]]

\* It is one that HeapGraph makes.
LEMMA MadeContents ==
    ASSUME HeapInv, GraphRight, NEW l, NEW n, NEW fields, NEW scan, Made(l, n, fields, scan)
    PROVE  /\ MadeOf(n, fields, scan) \in H!Contents
           /\ \A f \in 1 .. n : \A id \in Ids :
                 MadeOf(n, fields, scan).fields[f] = Ref(id) => id \in DOMAIN graph.objs
<1> DEFINE vals == [f \in 1 .. n |-> IF scan THEN ValueOf(mem, fields[f]) ELSE RawData]
<1>1. MadeOf(n, fields, scan) = [scan |-> scan, fields |-> vals]
  BY DEF MadeOf
<1>2. MadeOf(n, fields, scan).fields = vals
  <2> HIDE DEF vals
  <2> QED BY <1>1
<1>3. CASE scan
  <2>1. scan = TRUE /\ n \in Sizes /\ fields \in [1 .. n -> Live]
    BY <1>3 DEF Made
  <2>2. \A f \in 1 .. n : Known(fields[f]) /\ ValueOf(mem, fields[f]) \in H!Live
    BY <2>1, LiveValues
  <2>3. vals \in [1 .. n -> H!Live]
    BY <2>1, <2>2
  <2>4. \A f \in 1 .. n : vals[f] = ValueOf(mem, fields[f])
    BY <2>1
  <2> HIDE DEF vals
  <2>5. H!Scanned(vals) \in H!Contents
    BY <2>1, <2>3 DEF H!Contents
  <2>6. MadeOf(n, fields, scan) \in H!Contents
    BY <1>1, <2>1, <2>5 DEF H!Scanned
  <2> QED BY <1>2, <2>2, <2>4, <2>6 DEF Known
<1>4. CASE ~ scan
  <2>1. scan = FALSE /\ n \in Sizes
    BY <1>4 DEF Made
  <2>2. vals = [f \in 1 .. n |-> RawData]
    BY <2>1
  <2> HIDE DEF vals
  <2>3. MadeOf(n, fields, scan) = H!NoScan(n)
    BY <1>1, <2>1, <2>2, SameValues DEF H!NoScan
  <2>4. H!NoScan(n) \in H!Contents
    BY <2>1 DEF H!Contents
  <2> QED BY <1>2, <2>2, <2>3, <2>4, References
<1> QED
  BY <1>3, <1>4

\* The memory with it.
LEMMA MadeWords ==
    ASSUME Bounds, HeapInv, HeapInv', NEW l, NEW n, NEW fields, NEW scan,
           Made(l, n, fields, scan), NEW v0, v0 = Ptr(0, alloc + 1)
    PROVE  /\ ValuesKept(mem, Ends, mem', Ends')
           /\ \A id \in DOMAIN AllObjs(mem, Ends) : AllObjs(mem', Ends')[id] = AllObjs(mem, Ends)[id]
           /\ ValueOf(mem', v0) = Ref(fresh)
           /\ AllObjs(mem', Ends')[fresh] = MadeOf(n, fields, scan)
           /\ frames' = WithSlot(l, v0)
<1>1. /\ NewObject(l, n, fields, scan) /\ scan \in BOOLEAN
      /\ \/ scan /\ fields \in [1 .. n -> Live]
         \/ ~ scan /\ fields = [x \in 1 .. n |-> Raw]
  BY DEF Made
<1>2. /\ pc = "mutator" /\ rem_limit' = rem_limit /\ fresh' = fresh + 1 /\ frames' = WithSlot(l, v0)
      /\ Appending(mem, mem', Ends, Ends', rem_limit, fresh + 1, 0, n)
      /\ mem'[0][alloc] = Hdr(fresh, n, scan)
      /\ \A x \in 1 .. n : mem'[0][alloc + x] = fields[x]
      /\ Ends[0] = alloc /\ alloc \in Nat
  BY <1>1, NewWords
<1>3. n \in Nat \ {0}
  BY <1>1 DEF NewObject
<1>4. /\ Readable(mem, Ends, rem_limit, fresh, Source)
      /\ Readable(mem', Ends', rem_limit, fresh + 1, Source')
  BY <1>2, ReadableNow, ReadableThen
<1>5. /\ ValuesKept(mem, Ends, mem', Ends')
      /\ \A id \in DOMAIN AllObjs(mem, Ends) : AllObjs(mem', Ends')[id] = AllObjs(mem, Ends)[id]
  BY <1>2, <1>4, AppendedKeeps
<1>6. IntoHeap(v0) /\ v0[2] = 0 /\ v0[3] = alloc + 1 /\ v0 = Ptr(v0[2], v0[3])
  BY WordParts DEF IntoHeap
<1>7. v0[3] - 1 = alloc /\ \A x \in 1 .. n : v0[3] + x - 1 = alloc + x
  BY <1>2, <1>3, <1>6
<1>8. HeaderIn(mem', v0) = Hdr(fresh, n, scan)
  BY <1>2, <1>6, <1>7 DEF HeaderIn
<1>9. \A x \in 1 .. n : FieldIn(mem', v0, x) = fields[x]
  BY <1>2, <1>6, <1>7 DEF FieldIn
<1>10. /\ HeaderIn(mem', v0) # Forwarded /\ IsHeader(HeaderIn(mem', v0))
       /\ HeaderIn(mem', v0)[2] = fresh /\ HeaderIn(mem', v0)[3] = n
       /\ HeaderIn(mem', v0)[4] = scan
  BY <1>8, WordParts DEF IsHeader
<1>11. Settled(mem', Ends', v0)
  <2>1. IsHead(mem', Ends', 0, alloc)
    BY <1>2, AppendedHeads
  <2>2. IsObj(mem', Ends', v0)
    BY <1>2, <1>6, <1>7, <2>1 DEF IsObj
  <2> QED BY <1>10, <2>2 DEF Settled
<1>12. Identity(mem', v0) = fresh
  BY <1>4, <1>10, <1>11, Identities
<1>13. AllObjs(mem', Ends')[fresh] = ObjectAt(mem', v0)
  BY <1>4, <1>11, <1>12, ObjOf
<1>14. ObjectAt(mem', v0) = MadeOf(n, fields, scan)
  <2> DEFINE word(f) == FieldIn(mem', v0, f)
             old == [f \in 1 .. n |-> IF scan THEN ValueOf(mem', word(f))
                                      ELSE IF word(f) = Raw THEN RawData ELSE word(f)]
             new == [f \in 1 .. n |-> IF scan THEN ValueOf(mem, fields[f]) ELSE RawData]
  <2>1. ObjectAt(mem', v0) = [scan |-> scan, fields |-> old]
    BY <1>10 DEF ObjectAt
  <2>2. ASSUME NEW f \in 1 .. n PROVE old[f] = new[f]
    <3>1. CASE scan
      <4>1. fields \in [1 .. n -> Live] /\ pc = "mutator"
        BY <1>1, <1>2, <3>1
      <4>2. IsVal(mem, Ends, fields[f])
        BY <1>1, <3>1 DEF NewObject
      <4>3. ValueOf(mem', fields[f]) = ValueOf(mem, fields[f])
        BY <1>5, <4>2 DEF ValuesKept
      <4> QED BY <1>9, <3>1, <4>3
    <3>2. CASE ~ scan
      <4>1. fields[f] = Raw
        BY <1>1, <3>2
      <4> QED BY <1>9, <3>2, <4>1
    <3> QED BY <3>1, <3>2
  <2>3. old = new
    <3>1. DOMAIN old = 1 .. n /\ DOMAIN new = 1 .. n
      OBVIOUS
    <3>2. old = [f \in 1 .. n |-> old[f]] /\ new = [f \in 1 .. n |-> new[f]]
      OBVIOUS
    <3> HIDE DEF old, new
    <3> QED BY <2>2, <3>2
  <2> HIDE DEF old
  <2> QED BY <2>1, <2>3 DEF MadeOf
<1>15. ValueOf(mem', v0) = Ref(fresh)
  BY <1>6, <1>12 DEF ValueOf
<1> QED
  BY <1>2, <1>5, <1>13, <1>14, <1>15

\* Allocating an object.
LEMMA NewGraph ==
    ASSUME Bounds, HeapInv, HeapInv', GraphRight, GraphRight', fresh \in Ids,
           NEW l, NEW n, NEW fields, NEW scan, Made(l, n, fields, scan)
    PROVE  H!Next
<1> DEFINE v0 == Ptr(0, alloc + 1)
           it == MadeOf(n, fields, scan)
           K == DOMAIN graph.objs
           K1 == K \cup {fresh}
           ob1 == [x \in K1 |-> IF x = fresh THEN it ELSE graph.objs[x]]
           sk == graph.stack
           st1 == [sk EXCEPT ![Top][l] = Ref(fresh)]
           all == AllObjs(mem, Ends)
<1>1. /\ ValuesKept(mem, Ends, mem', Ends')
      /\ \A id \in DOMAIN all : AllObjs(mem', Ends')[id] = all[id]
      /\ ValueOf(mem', v0) = Ref(fresh)
      /\ AllObjs(mem', Ends')[fresh] = it
      /\ frames' = WithSlot(l, v0)
  BY MadeWords
<1>2. /\ it \in H!Contents
      /\ \A f \in 1 .. n : \A id \in Ids : it.fields[f] = Ref(id) => id \in K
  BY MadeContents
<1>3. l \in Slots
  BY DEF Made, NewObject
<1>4. Top \in DOMAIN frames /\ Len(sk) = Top
  BY LiveValues
<1> HIDE DEF v0, it, all, K
<1>5. /\ sk = StackOf(mem, frames) /\ RootIds(sk) \subseteq K
      /\ \A y \in K : graph.objs[y] = all[y] /\ FieldIds(all, y) \subseteq K /\ y \in DOMAIN all
  BY GraphNow DEF IsClosed, K, all
<1>6. fresh \notin K
  <2>1. Readable(mem, Ends, rem_limit, fresh, Source) /\ fresh \in Nat
    BY ReadableNow DEF Readable
  <2>2. ASSUME fresh \in K PROVE FALSE
    <3>1. PICK v : Settled(mem, Ends, v) /\ Identity(mem, v) = fresh
      BY <1>5, <2>1, <2>2, Objs DEF all
    <3>2. fresh \in Given(fresh)
      BY <2>1, <3>1, Identities
    <3> QED BY <2>1, <3>2 DEF Given
  <2> QED BY <2>2
<1>7. StackOf(mem', frames') = st1
  <2>1. Roots(mem', Ends', frames)
    <3>1. Roots(mem, Ends, frames)
      BY DEF HeapInv
    <3> QED BY <1>1, <3>1 DEF Roots, ValuesKept
  <2>2. StackOf(mem', Slotted(frames, Top, l, v0)) = Slotted(StackOf(mem', frames), Top, l, ValueOf(mem', v0))
    BY <1>3, <1>4, <2>1, StackWith
  <2>3. StackOf(mem', frames) = sk
    <3>1. \A a \in DOMAIN frames : \A x \in Slots : ValueOf(mem', frames[a][x]) = ValueOf(mem, frames[a][x])
      BY <1>1 DEF HeapInv, Roots, ValuesKept
    <3> QED BY <1>5, <3>1 DEF StackOf
  <2>4. frames' = [frames EXCEPT ![Top][l] = v0]
    BY <1>1 DEF WithSlot
  <2> QED BY <1>1, <2>2, <2>3, <2>4 DEF Slotted
<1>8. ASSUME NEW y \in K1 PROVE AllObjs(mem', Ends')[y] = ob1[y]
  <2>1. CASE y = fresh
    BY <1>1, <2>1
  <2>2. CASE y # fresh
    BY <1>1, <1>5, <2>2
  <2> QED BY <2>1, <2>2
<1>9. ASSUME NEW y \in K1 PROVE FieldIds(ob1, y) \subseteq K1
  <2>1. CASE y # fresh
    <3>1. y \in K /\ ob1[y] = all[y]
      BY <1>5, <2>1
    <3> HIDE DEF ob1
    <3> QED BY <1>5, <3>1 DEF FieldIds
  <2>2. CASE y = fresh
    <3>1. ob1[y] = it
      BY <2>2
    <3>2. FieldIds(ob1, y) = {z \in Ids : Ref(z) \in Range(it.fields)}
      <4> HIDE DEF ob1
      <4> QED BY <3>1, SameValues DEF FieldIds
    <3>3. it.fields = [f \in 1 .. n |-> IF scan THEN ValueOf(mem, fields[f]) ELSE RawData]
      BY DEF it, MadeOf
    <3>4. DOMAIN it.fields = 1 .. n
      BY <3>3
    <3>5. ASSUME NEW z \in Ids, Ref(z) \in Range(it.fields) PROVE z \in K
      <4>1. PICK f \in 1 .. n : it.fields[f] = Ref(z)
        BY <3>4, <3>5 DEF Range
      <4> QED BY <1>2, <4>1
    <3> QED BY <3>2, <3>5
  <2> QED BY <2>1, <2>2
<1>10. RootIds(st1) \subseteq K1
  <2>1. \A a \in DOMAIN sk : \A x \in DOMAIN sk[a] : \A id \in Ids : sk[a][x] = Ref(id) => id \in K
    BY <1>5, RootsIn
  <2>2. ASSUME NEW a \in DOMAIN st1, NEW x \in DOMAIN st1[a], NEW id \in Ids, st1[a][x] = Ref(id)
        PROVE  id \in K1
    <3>1. a \in DOMAIN sk /\ DOMAIN sk[a] = Slots /\ Top \in DOMAIN sk /\ DOMAIN sk[Top] = Slots
      <4>1. a \in DOMAIN sk
        BY <2>2
      <4> QED BY <1>4, <1>5, <4>1 DEF StackOf
    <3>2. st1[a] = IF a = Top THEN [sk[Top] EXCEPT ![l] = Ref(fresh)] ELSE sk[a]
      BY <3>1
    <3>3. DOMAIN st1[a] = Slots
      BY <3>1, <3>2
    <3>4. st1[a][x] = sk[a][x] \/ st1[a][x] = Ref(fresh)
      BY <2>2, <3>1, <3>2, <3>3
    <3> HIDE DEF st1
    <3>5. CASE st1[a][x] = sk[a][x]
      BY <2>1, <2>2, <3>1, <3>3, <3>5
    <3>6. CASE st1[a][x] = Ref(fresh)
      <4>1. Ref(id) = Ref(fresh)
        BY <2>2, <3>6
      <4>2. id = fresh
        BY <4>1, References
      <4> QED BY <4>2
    <3> QED BY <3>4, <3>5, <3>6
  <2> HIDE DEF st1, K1
  <2> QED BY <2>2, RootsIn
<1> HIDE DEF K1, ob1, st1
<1>11. IsClosed(K1, st1, ob1)
  BY <1>9, <1>10 DEF IsClosed
<1>12. H!Become(st1, ob1)
  BY <1>7, <1>8, <1>11, BecomeStep
<1>13. H!New(l, fresh, it)
  <2>1. H!WithSlot(l, H!Ref(fresh)) = st1
    BY <1>4, SameValues DEF H!WithSlot, st1
  <2>2. ob1 = [x \in DOMAIN graph.objs \cup {fresh} |-> IF x = fresh THEN it ELSE graph.objs[x]]
    BY DEF ob1, K1, K
  <2> QED BY <1>6, <1>12, <2>1, <2>2 DEF H!New, K
<1>14. l \in H!Slots
  BY <1>3, SameValues
<1> QED
  BY <1>2, <1>13, <1>14 DEF H!Next

-----------------------------------------------------------------------------
(* The refinement *)

\* Nothing is allocated yet.
LEMMA GraphStart ==
    ASSUME GraphInit
    PROVE  HeapInv /\ GraphRight /\ H!Init
<1>1. Init /\ GraphRight /\ HeapInv
  BY HeapInitInv DEF GraphInit, GraphRight
<1>2. Readable(mem, Ends, rem_limit, fresh, Source) /\ Roots(mem, Ends, frames)
  BY <1>1, ReadableNow
<1> DEFINE all == AllObjs(mem, Ends)
           sk == StackOf(mem, frames)
           K == ReachIds(sk, all)
           frame == NewFrame(Unboxed)
<1>3. graph = [stack |-> sk, objs |-> Restrict(all, K)]
  BY <1>1, <1>2, GraphIs DEF GraphRight, View
<1>4. K = {}
  <2>1. IsClosed(DOMAIN all, sk, all)
    BY <1>2, ObjsClosed
  <2>2. K \subseteq DOMAIN all
    <3> HIDE DEF all, sk
    <3> QED BY <2>1, ReachIsLeast
  <2>3. DOMAIN all = {}
    <3>1. \A g \in Gens : Ends[g] = 0
      BY <1>1 DEF Init, G!Init, G!Gens, Gens, Ends
    <3>2. \A g, h : ~ IsHead(mem, Ends, g, h)
      BY <3>1 DEF IsHead
    <3>3. \A v : ~ Settled(mem, Ends, v)
      BY <3>2 DEF Settled, IsObj
    <3> QED BY <1>2, <3>3, Objs
  <2> HIDE DEF all, K
  <2> QED BY <2>2, <2>3
<1>5. sk = <<frame>>
  <2>1. frames = <<frame>>
    BY <1>1 DEF Init
  <2>2. frames \in Seq([Slots -> Values]) /\ Len(frames) = 1 /\ frames[1] = frame
    <3>1. frames \in Seq([Slots -> Values])
      BY <1>2 DEF Roots
    <3> HIDE DEF frame
    <3> QED BY <2>1, <3>1
  <2>3. StackIs(mem, frames, sk, 1)
    BY <2>2, StackSeq
  <2>4. FrameOf(mem, frame) = frame
    <3>1. ValueOf(mem, Unboxed) = Unboxed
      BY WordParts DEF ValueOf, IntoHeap
    <3>2. \A l \in Slots : frame[l] = Unboxed
      BY DEF NewFrame, Slots
    <3>3. frame = [l \in Slots |-> frame[l]]
      BY DEF NewFrame, Slots
    <3> HIDE DEF frame
    <3> QED BY <3>1, <3>2, <3>3 DEF FrameOf
  <2> HIDE DEF sk, frame
  <2>5. sk \in Seq([Slots -> Seen(mem)]) /\ Len(sk) = 1 /\ sk[1] = frame
    BY <2>2, <2>3, <2>4 DEF StackIs
  <2>6. sk \in [1 .. 1 -> [Slots -> Seen(mem)]]
    BY <2>5, LenProperties
  <2> QED BY <2>5, <2>6
<1>6. graph.objs = <<>>
  <2>1. graph.objs = [x \in {} |-> all[x]]
    <3> HIDE DEF all, K, sk
    <3> QED BY <1>3, <1>4 DEF Restrict
  <2> QED BY <2>1
<1>7. graph.stack = <<frame>>
  <2> HIDE DEF sk
  <2> QED BY <1>3, <1>5
<1> QED
  BY <1>1, <1>6, <1>7, SameValues DEF H!Init

\* The mutator does what HeapGraph has it do.
LEMMA MutatorGraph ==
    ASSUME Bounds, HeapInv, HeapInv', GraphRight, GraphRight', Mutator
    PROVE  H!Next \/ graph' = graph
<1>1. ASSUME NEW l \in Slots, NEW n \in Sizes, NEW fields, NEW scan \in BOOLEAN,
             New(l, fields, scan),
             \/ scan /\ fields \in [1 .. n -> Live]
             \/ ~ scan /\ fields = [x \in 1 .. n |-> Raw]
      PROVE  H!Next
  <2>1. NewObject(l, n, fields, scan)
    BY <1>1, MadeObject
  <2>2. Made(l, n, fields, scan)
    BY <1>1, <2>1 DEF Made
  <2>3. fresh \in Ids
    BY <1>1 DEF New
  <2> QED BY <2>2, <2>3, NewGraph
<1>2. ASSUME NEW l \in Slots, NEW n \in Sizes, NEW fields \in [1 .. n -> Live], New(l, fields, TRUE)
      PROVE  H!Next
  BY <1>1, <1>2
<1>3. ASSUME NEW l \in Slots, NEW n \in Sizes, New(l, [x \in 1 .. n |-> Raw], FALSE)
      PROVE  H!Next
  <2> DEFINE fields == [x \in 1 .. n |-> Raw]
  <2>1. New(l, fields, FALSE) /\ fields = [x \in 1 .. n |-> Raw]
    BY <1>3
  <2> HIDE DEF fields
  <2> QED BY <1>1, <2>1
<1>4. ASSUME NEW v \in LiveScanned, NEW f \in 1 .. HeaderIn(mem, v)[3],
             NEW val \in Live \cup {Unboxed, Out}, Store(v, f, val)
      PROVE  H!Next \/ graph' = graph
  <2>1. CASE alloc < ti_limit
    BY <1>4, <2>1, StoreGraph
  <2>2. CASE ~ (alloc < ti_limit)
    <3>1. mem' = mem /\ frames' = frames
      BY <1>4, <2>2, StorePolicy
    <3> QED BY <3>1 DEF GraphRight
  <2> QED BY <2>1, <2>2
<1>5. ASSUME NEW n \in Requests, GcCall(n) PROVE graph' = graph
  BY <1>5 DEF GcCall, GraphRight
<1> QED
  BY <1>2, <1>3, <1>4, <1>5, LoadGraph, DropGraph, CallGraph, ReturnGraph DEF Mutator

\* Every step is a step of HeapGraph or leaves the graph alone.
LEMMA GraphNextIs ==
    ASSUME StoresYoung, GP!IInv, HeapInv, GraphRight, [GraphNext]_GraphVars
    PROVE  GP!IInv' /\ HeapInv' /\ GraphRight' /\ [H!Next]_(H!vars)
<1>1. [Next]_vars /\ (graph' = Graph(mem', frames') \/ UNCHANGED <<vars, graph>>)
  BY DEF GraphNext, GraphVars
<1>2. GP!IInv' /\ HeapInv'
  BY <1>1, StepInv
<1> Bounds /\ Bounds'
  BY <1>2, BoundsHold, BoundsNext
<1>3. GraphRight'
  <2>1. CASE UNCHANGED <<vars, graph>>
    BY <2>1 DEF GraphRight, vars
  <2>2. CASE graph' = Graph(mem', frames')
    BY <2>2 DEF GraphRight
  <2> QED BY <1>1, <2>1, <2>2
<1>4. CASE Mutator
  BY <1>2, <1>3, <1>4, MutatorGraph DEF H!vars
<1>5. CASE Collector \/ Halted \/ UNCHANGED vars
  <2>1. Graph(mem', frames') = Graph(mem, frames)
    BY <1>2, <1>5, CollectorGraph
  <2>2. graph' = graph
    BY <1>3, <2>1 DEF GraphRight
  <2> QED BY <1>2, <1>3, <2>2 DEF H!vars
<1> QED
  BY <1>1, <1>4, <1>5 DEF Next

\* "The after graph of nodes reachable [...] is isomorphic to the before
\* graph": every behaviour of the mutator and the collector on words is one of
\* the mutator alone on the graph of its objects.
THEOREM GraphIsPreserved == StoresYoung => (GraphSpec => GraphPreserved)
<1> SUFFICES ASSUME StoresYoung PROVE GraphSpec => GraphPreserved
  OBVIOUS
<1> DEFINE Right == GP!IInv /\ HeapInv /\ GraphRight
<1>1. GraphInit => Right /\ H!Init
  BY PolicyInit, GraphStart DEF GraphInit
<1>2. Right /\ [GraphNext]_GraphVars => Right' /\ [H!Next]_(H!vars)
  BY GraphNextIs
<1> QED
  BY <1>1, <1>2, PTL DEF GraphSpec, GraphPreserved, H!Spec

-----------------------------------------------------------------------------
(* What a collection does to the offsets *)

\* A step of a collection of generation i changes the offsets of generation i+1
\* only.
Onto ==
    /\ Going /\ UNCHANGED <<created, rem_limit, alloc, ti_limit, i, p>>
    /\ next' = [g \in Gens |-> next'[g]] /\ limit' = [g \in Gens |-> limit'[g]]
    /\ \A g \in Gens : g # i + 1 => next'[g] = next[g] /\ limit'[g] = limit[g]

\* What is left is enough to go on.
LEMMA OntoBounds ==
    ASSUME Bounds, Onto, NEW n \in Nat, NEW d \in {0, 1}, n <= GP!Uncopied,
           next'[i + 1] = next[i + 1] + n, limit'[i + 1] = limit[i + 1] - d,
           GP!Uncopied + d <= limit[i + 1] - next[i + 1],
           q' \in Nat, pc' \in {"remset", "copy"},
           pc' = "remset" =>
              /\ pc = "remset" /\ q' = q + 1 /\ q' <= rem_limit[i]
              /\ \/ GP!Uncopied + (rem_limit[i] - q) <= limit[i + 1] - next[i + 1]
                 \/ d = 0 /\ OnlySkips'
    PROVE  Bounds' /\ Going'
<1> DEFINE t == i + 1
           a == next[i]
           b == next[t]
           l == limit[t]
           r == rem_limit[i]
<1>1. /\ i \in Gens /\ i \in Nat /\ t \in Gens /\ 0 \in Gens /\ p \in Nat /\ q \in Nat
      /\ a \in Nat /\ b \in Nat /\ l \in Nat /\ r \in Nat /\ b <= l /\ l <= rem_limit[t]
      /\ p <= b /\ t # i /\ rem_limit[t] \in Nat
  BY PolicyFacts DEF Onto
<1>2. GP!Uncopied = a - (b - p)
  BY DEF GP!Uncopied
<1>3. /\ i' = i /\ p' = p /\ rem_limit' = rem_limit /\ created' = created
      /\ next'[i] = a /\ next'[t] = b + n /\ limit'[t] = l - d /\ limit'[i] = limit[i]
  BY <1>1 DEF Onto
<1>4. GP!Uncopied' = a - ((b + n) - p)
  BY <1>3 DEF GP!Uncopied
<1>5. n <= a - (b - p) /\ (a - (b - p)) + d <= l - b /\ d \in Nat
  BY <1>2
<1> HIDE DEF a, b, l, r
<1>6. /\ p <= b + n /\ b + n \in Nat /\ l - d \in Nat /\ b + n <= l - d
      /\ a - ((b + n) - p) \in Nat /\ a - ((b + n) - p) <= (l - d) - (b + n)
      /\ l - d <= l
  BY <1>1, <1>5
<1>7. l - d <= rem_limit[t]
  BY <1>1, <1>5
<1>8. ASSUME NEW g \in Gens
      PROVE  /\ next'[g] \in Nat /\ limit'[g] \in Nat /\ rem_limit'[g] \in Nat
             /\ next'[g] <= limit'[g] /\ limit'[g] <= rem_limit'[g]
             /\ g < i' => next'[g] = 0 /\ limit'[g] = rem_limit'[g]
             /\ g \notin created' => next'[g] = 0 /\ limit'[g] = 0 /\ rem_limit'[g] = 0
  <2>1. CASE g = t
    <3>1. ~ (g < i)
      BY <1>1, <2>1
    <3>2. g \notin created => b + n = 0 /\ l - d = 0 /\ rem_limit[g] = 0
      <4>1. g \notin created => b = 0 /\ l = 0 /\ rem_limit[g] = 0
        BY <1>1, <2>1, PolicyFacts DEF b, l
      <4> QED BY <1>1, <1>6, <4>1
    <3> QED BY <1>1, <1>3, <1>6, <1>7, <2>1, <3>1, <3>2
  <2>2. CASE g # t
    BY <1>3, <2>2, PolicyFacts DEF Onto
  <2> QED BY <2>1, <2>2
<1>9. next' = [g \in Gens |-> next'[g]] /\ limit' = [g \in Gens |-> limit'[g]]
      /\ rem_limit' = [g \in Gens |-> rem_limit'[g]]
  BY <1>3, PolicyFacts DEF Onto
<1>10. /\ alloc' \in Nat /\ ti_limit' \in Nat /\ alloc' <= ti_limit' /\ ti_limit' <= rem_limit'[0]
  BY <1>3, PolicyFacts DEF Onto
<1>11. /\ p' <= next'[i' + 1] /\ limit'[i' + 1] <= rem_limit'[i' + 1]
       /\ GP!Uncopied' \in Nat /\ GP!Uncopied' <= limit'[i' + 1] - next'[i' + 1]
  BY <1>3, <1>4, <1>6, <1>7
<1>12. pc' = "remset" =>
          /\ limit'[i'] <= q' /\ q' <= rem_limit'[i']
          /\ \/ GP!Uncopied' + (rem_limit'[i'] - q') <= limit'[i' + 1] - next'[i' + 1]
             \/ OnlySkips'
  <2>1. SUFFICES ASSUME pc' = "remset"
                 PROVE  /\ limit'[i'] <= q' /\ q' <= rem_limit'[i']
                        /\ \/ GP!Uncopied' + (rem_limit'[i'] - q') <= limit'[i' + 1] - next'[i' + 1]
                           \/ OnlySkips'
    OBVIOUS
  <2>2. /\ pc = "remset" /\ q' = q + 1 /\ q' <= rem_limit[i]
        /\ limit[i] <= q /\ limit[i] \in Nat
        /\ \/ (a - (b - p)) + (r - q) <= l - b
           \/ d = 0 /\ OnlySkips'
    BY <1>1, <1>2, <2>1, PolicyFacts DEF a, b, l, r
  <2>3. limit'[i'] <= q' /\ q' <= rem_limit'[i']
    BY <1>1, <1>3, <2>2
  <2>4. (a - (b - p)) + (r - q) <= l - b =>
           (a - ((b + n) - p)) + (r - (q + 1)) <= (l - d) - (b + n)
    BY <1>1, <1>5
  <2>5. rem_limit'[i'] = r
    BY <1>3 DEF r
  <2> QED BY <1>3, <1>4, <2>2, <2>3, <2>4, <2>5
<1>13. pc' # "check"
  OBVIOUS
<1>14. Going'
  BY DEF Going
<1> QED
  BY <1>1, <1>3, <1>8, <1>9, <1>10, <1>11, <1>12, <1>13, <1>14 DEF Bounds

\* The steps that forward nothing, or one value.
InRound == ForwardEntry \/ RemsetDone \/ ForwardRoot \/ ScanField \/ ScanNext

\* They keep the offsets in order, and leave room for what is left to copy.
LEMMA RoundBounds ==
    ASSUME Bounds, HeapInv, InRound
    PROVE  Bounds' /\ Going' /\ Onto
<1> DEFINE t == i + 1
<1>1. Going /\ UNCHANGED <<created, rem_limit, alloc, ti_limit, i, p>>
  BY DEF InRound, ForwardEntry, RemsetDone, G!RemsetDone, ForwardRoot, ScanField, ScanNext,
         Scanning, policy, Going
<1>2. /\ GP!Uncopied \in Nat /\ GP!Uncopied <= limit[t] - next[t] /\ p \in Nat /\ q \in Nat
      /\ next[t] \in Nat /\ limit[t] \in Nat /\ i \in Gens /\ t \in Gens
      /\ next = [g \in Gens |-> next[g]] /\ limit = [g \in Gens |-> limit[g]]
      /\ rem_limit[i] \in Nat /\ i \in Nat
  BY <1>1, PolicyFacts
<1>3. ASSUME NEW n \in Nat, NEW d \in {0, 1}, n <= GP!Uncopied,
             next' = [next EXCEPT ![t] = @ + n], limit' = [limit EXCEPT ![t] = @ - d]
      PROVE  Onto /\ next'[t] = next[t] + n /\ limit'[t] = limit[t] - d
  BY <1>1, <1>2, <1>3 DEF Onto
<1>4. ASSUME UNCHANGED <<next, limit>>
      PROVE  Onto /\ next'[t] = next[t] + 0 /\ limit'[t] = limit[t] - 0
  BY <1>1, <1>2, <1>4 DEF Onto
<1>5. CASE RemsetDone \/ ScanNext
  <2>1. UNCHANGED <<next, limit, q>> /\ pc' = "copy"
    BY <1>5 DEF RemsetDone, G!RemsetDone, ScanNext, Scanning, policy
  <2>2. 0 <= GP!Uncopied /\ GP!Uncopied + 0 <= limit[t] - next[t]
    BY <1>2
  <2> QED BY <1>2, <1>4, <2>1, <2>2, OntoBounds
<1>6. CASE ForwardRoot \/ ScanField
  <2>1. pc = "copy" /\ pc' = "copy" /\ UNCHANGED <<q, limit>>
    BY <1>6 DEF ForwardRoot, ScanField, Scanning
  <2>2. PolicyStep
    BY <1>6, RootPolicy, ScanPolicy
  <2>3. UNCHANGED next \/ \E n \in 1 .. GP!Uncopied : GP!Copy(n)
    BY <2>1, <2>2 DEF PolicyStep, GP!Next, GP!Mutator, GP!Collector, GP!Halted, GP!Aborts, GP!vars,
       GP!Allocate, GP!Modify, GP!GcCall, GP!Create, GP!SkipEntry, GP!KeepEntry, GP!RemsetDone,
       GP!EndGeneration, GP!Check
  <2>4. CASE UNCHANGED next
    <3>1. 0 <= GP!Uncopied /\ GP!Uncopied + 0 <= limit[t] - next[t]
      BY <1>2
    <3> QED BY <1>2, <1>4, <2>1, <2>4, <3>1, OntoBounds
  <2>5. ASSUME NEW n \in 1 .. GP!Uncopied, GP!Copy(n) PROVE Bounds' /\ Going' /\ Onto
    <3>1. n \in Nat /\ n <= GP!Uncopied /\ GP!Uncopied + 0 <= limit[t] - next[t]
      BY <1>2
    <3>2. next' = [next EXCEPT ![t] = @ + n]
      BY <2>5 DEF GP!Copy
    <3>3. limit' = [limit EXCEPT ![t] = @ - 0]
      BY <1>2, <2>1
    <3>4. Onto /\ next'[t] = next[t] + n /\ limit'[t] = limit[t] - 0
      BY <1>3, <3>1, <3>2, <3>3
    <3> QED BY <1>2, <2>1, <3>1, <3>4, OntoBounds
  <2> QED BY <2>3, <2>4, <2>5
<1>7. CASE ForwardEntry
  <2> DEFINE c == mem[i][q]
  <2>1. pc = "remset" /\ pc' = "remset" /\ q < rem_limit[i] /\ q' = q + 1
    BY <1>7 DEF ForwardEntry
  <2>2. q' \in Nat /\ q' <= rem_limit[i]
    BY <1>2, <2>1
  <2>3. CASE c[2] = i
    <3>1. UNCHANGED <<mem, next, limit>>
      <4>1. c[2] = i => c[3] < limit[i]
        BY <2>1, EntryFacts
      <4> QED BY <1>7, <2>3, <4>1 DEF ForwardEntry
    <3>2. 0 <= GP!Uncopied /\ GP!Uncopied + 0 <= limit[t] - next[t]
      BY <1>2
    <3>3. OnlySkips => OnlySkips'
      <4>1. q' .. rem_limit'[i'] - 1 \subseteq q .. rem_limit[i] - 1
        BY <1>1, <1>2, <2>1
      <4> QED BY <1>1, <3>1, <4>1 DEF OnlySkips
    <3>4. \/ GP!Uncopied + (rem_limit[i] - q) <= limit[t] - next[t]
          \/ OnlySkips'
      BY <2>1, <3>3, PolicyFacts
    <3> QED BY <1>2, <1>4, <2>1, <2>2, <3>1, <3>2, <3>4, OntoBounds
  <2>4. CASE c[2] # i
    <3>1. ~ OnlySkips
      <4>1. q \in q .. rem_limit[i] - 1
        BY <1>2, <2>1
      <4> QED BY <2>4, <4>1 DEF OnlySkips
    <3>2. GP!Uncopied + (rem_limit[i] - q) <= limit[t] - next[t]
      BY <2>1, <3>1, PolicyFacts
    <3>3. GP!Uncopied + 1 <= limit[t] - next[t] /\ GP!Uncopied + 0 <= limit[t] - next[t]
      <4> DEFINE u == GP!Uncopied
                 x == limit[t]
                 y == next[t]
                 z == rem_limit[i]
      <4>1. u + (z - q) <= x - y /\ q < z /\ u \in Nat /\ x \in Nat /\ y \in Nat /\ z \in Nat /\ q \in Nat
        BY <1>2, <2>1, <3>2
      <4> HIDE DEF u, x, y, z
      <4>2. u + 1 <= x - y /\ u + 0 <= x - y
        BY <4>1
      <4> QED BY <4>2 DEF u, x, y
    <3>4. GP!SkipEntry \/ \E n \in 0 .. GP!Uncopied : GP!KeepEntry(n)
      <4>1. PolicyStep
        BY <1>7, EntryPolicy
      <4>2. q' # q
        BY <1>2, <2>1
      <4> QED BY <2>1, <4>1, <4>2
          DEF PolicyStep, GP!Next, GP!Mutator, GP!Collector, GP!Halted, GP!Aborts, GP!vars,
              GP!Allocate, GP!Modify, GP!GcCall, GP!Create, GP!Copy, GP!RemsetDone,
              GP!EndGeneration, GP!Check
    <3>5. CASE GP!SkipEntry
      <4>1. UNCHANGED <<next, limit>> /\ 0 <= GP!Uncopied
        BY <1>2, <3>5 DEF GP!SkipEntry
      <4> QED BY <1>2, <1>4, <2>1, <2>2, <3>2, <3>3, <4>1, OntoBounds
    <3>6. ASSUME NEW n \in 0 .. GP!Uncopied, GP!KeepEntry(n) PROVE Bounds' /\ Going' /\ Onto
      <4>1. n \in Nat /\ n <= GP!Uncopied
        BY <1>2
      <4>2. next' = [next EXCEPT ![t] = @ + n] /\ limit' = [limit EXCEPT ![t] = @ - 1]
        BY <3>6 DEF GP!KeepEntry
      <4>3. Onto /\ next'[t] = next[t] + n /\ limit'[t] = limit[t] - 1
        BY <1>3, <4>1, <4>2
      <4> QED BY <1>2, <2>1, <2>2, <3>2, <3>3, <4>1, <4>3, OntoBounds
    <3> QED BY <3>4, <3>5, <3>6
  <2> QED BY <2>3, <2>4
<1> QED
  BY <1>5, <1>6, <1>7 DEF InRound

\* The end of a collection.
LEMMA EndBounds ==
    ASSUME Bounds, EndGeneration
    PROVE  /\ Bounds' /\ Going /\ pc' = "check" /\ UNCHANGED <<created, rem_limit, i, p>>
           /\ next'[i] = 0 /\ limit'[i] = rem_limit[i]
           /\ \A g \in Gens : g # i => next'[g] = next[g] /\ limit'[g] = limit[g]
<1>1. /\ pc = "copy" /\ pc' = "check" /\ next' = [next EXCEPT ![i] = 0]
      /\ limit' = [limit EXCEPT ![i] = rem_limit[i]]
      /\ UNCHANGED <<created, rem_limit, alloc, ti_limit, i, p, q>>
  BY DEF EndGeneration, G!EndGeneration
<1>2. /\ i \in Gens /\ i \in Nat /\ i + 1 \in Gens /\ rem_limit[i] \in Nat
      /\ next = [g \in Gens |-> next[g]] /\ limit = [g \in Gens |-> limit[g]]
  BY PolicyFacts
<1>3. /\ next'[i] = 0 /\ limit'[i] = rem_limit[i]
      /\ \A g \in Gens : g # i => next'[g] = next[g] /\ limit'[g] = limit[g]
      /\ next' = [g \in Gens |-> next'[g]] /\ limit' = [g \in Gens |-> limit'[g]]
  BY <1>1, <1>2
<1>4. ASSUME NEW g \in Gens
      PROVE  /\ next'[g] \in Nat /\ limit'[g] \in Nat /\ rem_limit'[g] \in Nat
             /\ next'[g] <= limit'[g] /\ limit'[g] <= rem_limit'[g]
             /\ g < i' => next'[g] = 0 /\ limit'[g] = rem_limit'[g]
             /\ g \notin created' => next'[g] = 0 /\ limit'[g] = 0 /\ rem_limit'[g] = 0
  <2>1. CASE g = i
    BY <1>1, <1>2, <1>3, <2>1, PolicyFacts
  <2>2. CASE g # i
    BY <1>1, <1>3, <2>2, PolicyFacts
  <2> QED BY <2>1, <2>2
<1>5. Going /\ ~ Going' /\ pc' # "remset"
  BY <1>1 DEF Going
<1>6. /\ i' \in Gens /\ i' \in Nat /\ i' + 1 \in Gens /\ 0 \in Gens /\ p' \in Nat /\ q' \in Nat
      /\ rem_limit' = [g \in Gens |-> rem_limit'[g]]
      /\ alloc' \in Nat /\ ti_limit' \in Nat /\ alloc' <= ti_limit' /\ ti_limit' <= rem_limit'[0]
      /\ next'[i'] = 0 /\ limit'[i'] = rem_limit'[i']
  BY <1>1, <1>3, PolicyFacts
<1> QED
  BY <1>1, <1>3, <1>4, <1>5, <1>6 DEF Bounds

-----------------------------------------------------------------------------
(* The spaces during an export *)

\* export_heap goes on; value_sp is the result, or will be at once.
Exporting == phase # "none" /\ pc \notin G!Aborts
Over == phase = "value" /\ pc \in {"level", "exported"}

\* The generations are followed by fake_sp, then by value_sp, and what is
\* exported is in the last of them from the end of garbage_collect_all on.
Spaces ==
    \E m \in Gens :
        /\ created = 0 .. m
        /\ phase = "all" => m + 2 \in Gens
        /\ phase = "fake" => m + 1 \in Gens
        /\ IF pc \in {"level", "exported"} THEN i <= m /\ (phase # "all" => i = m)
           ELSE i + 1 <= m /\ (phase # "all" => i + 1 = m)

Places ==
    /\ phase \in {"all", "fake", "value"}
    /\ pc \in {"level", "remset", "copy", "check", "exported"}
    /\ pc = "exported" => phase = "value"
    /\ Spaces

\* Every generation that garbage_collect_all has still to collect has room for
\* all of it in the next one.
Rooms ==
    phase = "all" =>
        \A g \in Gens : g + 1 \in created /\ (IF pc = "level" THEN i <= g ELSE i < g) =>
            rem_limit[g] <= limit[g + 1] - next[g + 1]

\* fake_sp and value_sp have the words that the space before has in use, and
\* nothing is copied for the remembered set of that one.
TwoSpaces ==
    phase # "all" /\ Going =>
        /\ p = 0 /\ limit[i + 1] = next[i] /\ rem_limit[i + 1] = next[i]
        /\ pc = "remset" => next[i + 1] = 0 /\ OnlySkips

ExportBounds == (~ Over => Bounds) /\ Places /\ Rooms /\ TwoSpaces

\* The offsets when a collection begins.
LEMMA StartBounds ==
    ASSUME Bounds, pc' = "remset", UNCHANGED <<alloc, ti_limit, i>>,
           p' = next'[i + 1], q' = limit[i], created \subseteq created', i + 1 \in created',
           next' = [g \in Gens |-> next'[g]], limit' = [g \in Gens |-> limit'[g]],
           rem_limit' = [g \in Gens |-> rem_limit'[g]],
           \A g \in Gens : g # i + 1 =>
              next'[g] = next[g] /\ limit'[g] = limit[g] /\ rem_limit'[g] = rem_limit[g],
           next'[i + 1] \in Nat, limit'[i + 1] \in Nat, rem_limit'[i + 1] \in Nat,
           limit'[i + 1] <= rem_limit'[i + 1], next[i] <= limit'[i + 1] - next'[i + 1],
           ti_limit <= rem_limit'[0],
           rem_limit[i] <= limit'[i + 1] - next'[i + 1] \/ OnlySkips'
    PROVE  Bounds'
<1> DEFINE t == i + 1
           a == next[i]
           b == next'[t]
           l == limit'[t]
           r == rem_limit[i]
<1>1. /\ i \in Gens /\ i \in Nat /\ t \in Gens /\ 0 \in Gens /\ t # i
      /\ a \in Nat /\ b \in Nat /\ l \in Nat /\ r \in Nat /\ limit[i] \in Nat
      /\ a <= limit[i] /\ limit[i] <= r
  BY PolicyFacts
<1>2. next'[i] = a /\ limit'[i] = limit[i] /\ rem_limit'[i] = r
  BY <1>1
<1>3. GP!Uncopied' = a - (b - b)
  BY <1>1, <1>2 DEF GP!Uncopied
<1>4. a <= l - b /\ p' = b
  OBVIOUS
<1>5. r <= l - b \/ OnlySkips'
  OBVIOUS
<1> HIDE DEF a, b, l, r
<1>6. b <= l /\ a - (b - b) \in Nat /\ a - (b - b) <= l - b
      /\ (r <= l - b => (a - (b - b)) + (r - limit[i]) <= l - b)
  BY <1>1, <1>4
<1>7. ASSUME NEW g \in Gens
      PROVE  /\ next'[g] \in Nat /\ limit'[g] \in Nat /\ rem_limit'[g] \in Nat
             /\ next'[g] <= limit'[g] /\ limit'[g] <= rem_limit'[g]
             /\ g < i' => next'[g] = 0 /\ limit'[g] = rem_limit'[g]
             /\ g \notin created' => next'[g] = 0 /\ limit'[g] = 0 /\ rem_limit'[g] = 0
  <2>1. CASE g = t
    BY <1>1, <1>6, <2>1 DEF b, l
  <2>2. CASE g # t
    BY <2>2, PolicyFacts
  <2> QED BY <2>1, <2>2
<1>8. /\ i' + 1 = t /\ next'[t] = b /\ limit'[t] = l
  BY DEF b, l
<1>9. /\ p' <= next'[i' + 1] /\ limit'[i' + 1] <= rem_limit'[i' + 1]
      /\ GP!Uncopied' \in Nat /\ GP!Uncopied' <= limit'[i' + 1] - next'[i' + 1]
  BY <1>1, <1>3, <1>4, <1>6, <1>8
<1>10. /\ limit'[i'] <= q' /\ q' <= rem_limit'[i']
       /\ \/ GP!Uncopied' + (rem_limit'[i'] - q') <= limit'[i' + 1] - next'[i' + 1]
          \/ OnlySkips'
  BY <1>1, <1>2, <1>3, <1>5, <1>6, <1>8
<1>11. /\ i' \in Gens /\ i' \in Nat /\ i' + 1 \in Gens /\ 0 \in Gens /\ p' \in Nat /\ q' \in Nat
       /\ alloc' \in Nat /\ ti_limit' \in Nat /\ alloc' <= ti_limit' /\ ti_limit' <= rem_limit'[0]
  BY <1>1, <1>4, PolicyFacts
<1>12. pc' # "check"
  OBVIOUS
<1> QED
  BY <1>7, <1>9, <1>10, <1>11, <1>12 DEF Bounds

\* The generations that there are follow each other.
LEMMA Consecutive == ASSUME GP!IInv PROVE \E m \in Gens : created = 0 .. m
<1>1. /\ created \subseteq Gens /\ 0 \in created
      /\ \A g \in Gens : g + 1 \in created => g \in created
      /\ MAX_SPACES \in Nat
  BY GenerationsAssumption DEF GP!IInv, GP!TypeOK, GP!Shape, GP!Gens, Gens
<1> DEFINE T == {n \in Nat : n \notin created}
<1>2. T # {}
  <2>1. MAX_SPACES \in T
    BY <1>1 DEF Gens
  <2> QED BY <2>1
<1>3. PICK n \in T : \A k \in T : n <= k
  BY <1>2, LeastNat, T \subseteq Nat
<1>4. n \in Nat /\ n # 0 /\ n \notin created
  BY <1>1, <1>3
<1>5. \A k \in Nat : k < n => k \in created
  BY <1>3, <1>4
<1> DEFINE U == {k \in Nat : k >= n /\ k \in created}
<1>6. U = {}
  <2>1. SUFFICES ASSUME U # {} PROVE FALSE
    OBVIOUS
  <2>2. PICK k \in U : \A l \in U : k <= l
    BY <2>1, LeastNat, U \subseteq Nat
  <2>3. k \in Nat /\ k >= n /\ k # n /\ k \in created /\ k \in Gens
    BY <1>1, <1>4, <2>2
  <2>4. k - 1 \in Nat /\ k - 1 \in Gens /\ (k - 1) + 1 = k /\ k - 1 >= n /\ ~ (k <= k - 1)
    BY <1>1, <1>4, <2>3 DEF Gens
  <2>5. k - 1 \in created
    BY <1>1, <2>3, <2>4
  <2> QED BY <2>2, <2>4, <2>5
<1>7. n - 1 \in created /\ n - 1 \in Nat
  BY <1>4, <1>5
<1>8. created = 0 .. n - 1
  <2>1. ASSUME NEW k \in created PROVE k \in 0 .. n - 1
    <3>1. k \in Nat
      BY <1>1 DEF Gens
    <3>2. k \notin U
      BY <1>6
    <3> QED BY <1>4, <3>1, <3>2
  <2>2. ASSUME NEW k \in 0 .. n - 1 PROVE k \in created
    BY <1>4, <1>5, <2>2
  <2> QED BY <2>1, <2>2
<1> QED
  BY <1>1, <1>7, <1>8

\* What the generations are when export_heap is called.
LEMMA ExportStarts ==
    ASSUME GP!IInv, HeapInv, NEW v, Export(v)
    PROVE  ExportBounds' /\ ~ Going /\ ~ Going' /\ Ends' = Ends /\ Starts' = Starts
<1>0. Bounds
  BY BoundsHold
<1>1. /\ pc = "mutator" /\ pc' = "level" /\ i' = 0 /\ phase' = "all"
      /\ limit' = [limit EXCEPT ![0] = ti_limit] /\ next' = [next EXCEPT ![0] = alloc]
      /\ UNCHANGED <<created, rem_limit, alloc, ti_limit, p, q>>
      /\ Cardinality(created) + 2 <= MAX_SPACES
  BY DEF Export, IndexesLeft
<1>2. ~ Going /\ ~ Going' /\ Owned /\ ~ Owned'
  BY <1>1 DEF Going, Owned
<1>3. /\ 0 \in Gens /\ next = [g \in Gens |-> next[g]] /\ limit = [g \in Gens |-> limit[g]]
      /\ rem_limit = [g \in Gens |-> rem_limit[g]]
  BY <1>0, PolicyFacts
<1>4. /\ next'[0] = alloc /\ limit'[0] = ti_limit
      /\ \A g \in Gens : g # 0 => next'[g] = next[g] /\ limit'[g] = limit[g]
      /\ next' = [g \in Gens |-> next'[g]] /\ limit' = [g \in Gens |-> limit'[g]]
  BY <1>1, <1>3
<1>5. Ends' = Ends /\ Starts' = Starts
  BY <1>2, <1>4 DEF Ends, Starts
<1>6. PICK m \in Gens : created = 0 .. m
  BY Consecutive
<1>7. m \in Nat /\ m + 2 \in Gens /\ 1 \in Gens /\ MAX_SPACES \in Nat
  <2>1. m \in Nat /\ MAX_SPACES \in Nat
    BY GenerationsAssumption DEF Gens
  <2>2. Cardinality(0 .. m) = m - 0 + 1
    BY <2>1, FS_Interval
  <2> QED BY <1>1, <1>6, <2>1, <2>2 DEF Gens
<1>8. Bounds'
  <2>1. ASSUME NEW g \in Gens
        PROVE  /\ next'[g] \in Nat /\ limit'[g] \in Nat /\ rem_limit'[g] \in Nat
               /\ next'[g] <= limit'[g] /\ limit'[g] <= rem_limit'[g]
               /\ g < i' => next'[g] = 0 /\ limit'[g] = rem_limit'[g]
               /\ g \notin created' => next'[g] = 0 /\ limit'[g] = 0 /\ rem_limit'[g] = 0
    <3>1. ~ (g < i')
      BY <1>1 DEF Gens
    <3>2. CASE g = 0
      <4>1. 0 \in created
        BY <1>6, <1>7
      <4> QED BY <1>0, <1>1, <1>4, <3>1, <3>2, <4>1, PolicyFacts
    <3>3. CASE g # 0
      BY <1>0, <1>1, <1>4, <3>1, <3>3, PolicyFacts
    <3> QED BY <3>2, <3>3
  <2>2. /\ i' \in Gens /\ i' \in Nat /\ i' + 1 \in Gens /\ p' \in Nat /\ q' \in Nat
        /\ alloc' \in Nat /\ ti_limit' \in Nat /\ alloc' <= ti_limit' /\ ti_limit' <= rem_limit'[0]
        /\ rem_limit' = [g \in Gens |-> rem_limit'[g]]
    BY <1>0, <1>1, <1>3, <1>7, PolicyFacts
  <2>3. pc' # "remset" /\ pc' # "check"
    BY <1>1
  <2> QED BY <1>2, <1>3, <1>4, <2>1, <2>2, <2>3 DEF Bounds
<1>9. Places'
  <2>1. /\ created' = 0 .. m /\ phase' = "all" /\ pc' = "level" /\ i' <= m
    BY <1>1, <1>6, <1>7
  <2> QED BY <1>7, <2>1 DEF Places, Spaces
<1>10. Rooms'
  <2> SUFFICES ASSUME NEW g \in Gens, g + 1 \in created
               PROVE  rem_limit[g] <= limit'[g + 1] - next'[g + 1]
    BY <1>1 DEF Rooms
  <2>1. g + 1 \in Gens /\ g + 1 # 0
    BY <1>6, <1>7 DEF Gens
  <2>2. GP!RoomFor(g)
    BY <1>1 DEF GP!IInv, GP!RoomForNext, GP!InUse, GP!Aborts, GP!Gens, Gens
  <2> QED BY <1>4, <2>1, <2>2 DEF GP!RoomFor
<1>11. TwoSpaces'
  BY <1>1 DEF TwoSpaces
<1> QED
  BY <1>2, <1>5, <1>8, <1>9, <1>10, <1>11 DEF ExportBounds

\* The next generation is collected into.
LEMMA NextStarts ==
    ASSUME ExportBounds, HeapInv, ToNextGeneration, pc' \notin G!Aborts
    PROVE  ExportBounds' /\ RoundBegins /\ Bounds /\ phase = "all"
<1> DEFINE t == i + 1
<1>1. /\ pc = "level" /\ t \in created /\ p' = next[t] /\ q' = limit[i] /\ pc' = "remset"
      /\ UNCHANGED <<created, next, limit, rem_limit, alloc, ti_limit, i>>
      /\ UNCHANGED <<mem, frames, cursors, fresh, phase>>
  BY DEF ToNextGeneration, Generation, G!Aborts
<1>2. PICK m \in Gens :
         /\ created = 0 .. m /\ (phase = "all" => m + 2 \in Gens)
         /\ i <= m /\ (phase # "all" => i = m)
  BY <1>1 DEF ExportBounds, Places, Spaces
<1>3. phase = "all" /\ Bounds /\ m \in Nat /\ t <= m
  <2>1. m \in Nat /\ t <= m
    BY <1>1, <1>2 DEF Gens
  <2>2. phase = "all"
    BY <1>2, <2>1
  <2> QED BY <2>1, <2>2 DEF ExportBounds, Over
<1>4. /\ i \in Gens /\ i \in Nat /\ t \in Gens /\ DOMAIN mem = Gens
      /\ \A g \in Gens : /\ next[g] \in Nat /\ limit[g] \in Nat /\ rem_limit[g] \in Nat
                         /\ next[g] <= limit[g] /\ limit[g] <= rem_limit[g]
      /\ next = [g \in Gens |-> next[g]] /\ limit = [g \in Gens |-> limit[g]]
      /\ rem_limit = [g \in Gens |-> rem_limit[g]] /\ ti_limit <= rem_limit[0]
  BY <1>3, PolicyFacts DEF HeapInv, Objects, Sized
<1>5. rem_limit[i] <= limit[t] - next[t]
  BY <1>1, <1>3, <1>4 DEF ExportBounds, Rooms
<1>6. next[i] <= limit[t] - next[t]
  <2> DEFINE a == next[i]
             r == rem_limit[i]
             d == limit[t]
             b == next[t]
             l == limit[i]
  <2>1. a \in Nat /\ r \in Nat /\ d \in Nat /\ b \in Nat /\ l \in Nat /\ a <= l /\ l <= r /\ r <= d - b
    BY <1>4, <1>5
  <2> HIDE DEF a, r, d, b, l
  <2>2. a <= d - b
    BY <2>1
  <2> QED BY <2>2 DEF a, d, b
<1>7. Bounds'
  <2>1. /\ next' = [g \in Gens |-> next'[g]] /\ limit' = [g \in Gens |-> limit'[g]]
        /\ rem_limit' = [g \in Gens |-> rem_limit'[g]]
        /\ \A g \in Gens : g # t =>
              next'[g] = next[g] /\ limit'[g] = limit[g] /\ rem_limit'[g] = rem_limit[g]
        /\ next'[t] = next[t] /\ limit'[t] = limit[t] /\ rem_limit'[t] = rem_limit[t]
        /\ p' = next'[t] /\ created \subseteq created' /\ t \in created' /\ ti_limit <= rem_limit'[0]
        /\ next'[t] \in Nat /\ limit'[t] \in Nat /\ rem_limit'[t] \in Nat
        /\ limit'[t] <= rem_limit'[t]
    BY <1>1, <1>4
  <2>2. next[i] <= limit'[t] - next'[t] /\ rem_limit[i] <= limit'[t] - next'[t]
    BY <1>5, <1>6, <2>1
  <2> QED BY <1>1, <1>3, <2>1, <2>2, StartBounds
<1>8. Places'
  <2>1. /\ created' = 0 .. m /\ i' + 1 <= m /\ phase' = "all" /\ pc' = "remset"
    BY <1>1, <1>2, <1>3
  <2> QED BY <1>2, <1>3, <2>1 DEF Places, Spaces
<1>9. Rooms'
  <2> SUFFICES ASSUME NEW g \in Gens, g + 1 \in created, i < g
               PROVE  rem_limit[g] <= limit[g + 1] - next[g + 1]
    BY <1>1 DEF Rooms
  <2>1. i <= g
    BY <1>4 DEF Gens
  <2> QED BY <1>1, <1>3, <2>1 DEF ExportBounds, Rooms
<1>10. TwoSpaces'
  BY <1>1, <1>3 DEF TwoSpaces
<1>11. ~ Over'
  BY <1>1, <1>3 DEF Over
<1>12. ~ Going /\ ~ Owned /\ ~ Owned'
  BY <1>1 DEF Going, Owned
<1>13. Ends' = Ends /\ Starts' = Starts
  BY <1>1, <1>12 DEF Ends, Starts
<1>14. RoundBegins
  BY <1>1, <1>4, <1>12, <1>13 DEF RoundBegins
<1> QED
  BY <1>3, <1>7, <1>8, <1>9, <1>10, <1>11, <1>14 DEF ExportBounds

\* So is a space that is created for it.
LEMMA SpaceStarts ==
    ASSUME ExportBounds, HeapInv, NEW ph, ToNewSpace(ph), pc' \notin G!Aborts,
           (phase = "all" /\ ph = "fake") \/ (phase = "fake" /\ ph = "value")
    PROVE  ExportBounds' /\ RoundBegins /\ next'[i + 1] = 0 /\ phase' = ph
<1> DEFINE t == i + 1
<1>1. /\ pc = "level" /\ t \notin created /\ p' = 0 /\ q' = limit[i] /\ pc' = "remset"
      /\ created' = created \cup {t}
      /\ next' = [next EXCEPT ![t] = 0] /\ limit' = [limit EXCEPT ![t] = next[i]]
      /\ rem_limit' = [rem_limit EXCEPT ![t] = next[i]]
      /\ mem' = [mem EXCEPT ![t] = Space(next[i])]
      /\ UNCHANGED <<alloc, ti_limit, i, frames, cursors, fresh>> /\ phase' = ph
  BY DEF ToNewSpace, Generation, G!Aborts
<1>2. PICK m \in Gens :
         /\ created = 0 .. m /\ (phase = "all" => m + 2 \in Gens) /\ (phase = "fake" => m + 1 \in Gens)
         /\ i <= m /\ (phase # "all" => i = m)
  BY <1>1 DEF ExportBounds, Places, Spaces
<1>3. Bounds
  BY DEF ExportBounds, Over
<1>4. /\ i \in Gens /\ i \in Nat /\ t \in Gens /\ DOMAIN mem = Gens /\ t # i /\ 0 \in Gens
      /\ \A g \in Gens : /\ next[g] \in Nat /\ limit[g] \in Nat /\ rem_limit[g] \in Nat
                         /\ next[g] <= limit[g] /\ limit[g] <= rem_limit[g]
      /\ next = [g \in Gens |-> next[g]] /\ limit = [g \in Gens |-> limit[g]]
      /\ rem_limit = [g \in Gens |-> rem_limit[g]] /\ ti_limit <= rem_limit[0]
      /\ next[t] = 0 /\ Sized(mem, Ends, rem_limit)
  <2>1. Sized(mem, Ends, rem_limit) /\ DOMAIN mem = Gens
    BY DEF HeapInv, Objects, Sized
  <2>2. /\ i \in Gens /\ i \in Nat /\ t \in Gens /\ 0 \in Gens
        /\ \A g \in Gens : /\ next[g] \in Nat /\ limit[g] \in Nat /\ rem_limit[g] \in Nat
                           /\ next[g] <= limit[g] /\ limit[g] <= rem_limit[g]
        /\ next = [g \in Gens |-> next[g]] /\ limit = [g \in Gens |-> limit[g]]
        /\ rem_limit = [g \in Gens |-> rem_limit[g]] /\ ti_limit <= rem_limit[0]
    BY <1>3, PolicyFacts
  <2>3. t # i
    BY <2>2
  <2>4. next[t] = 0
    BY <1>1, <1>3, <2>2, PolicyFacts
  <2> QED BY <2>1, <2>2, <2>3, <2>4
<1>5. i = m /\ created = 0 .. i /\ created' = 0 .. t
  <2>1. m \in Nat
    BY <1>2 DEF Gens
  <2>2. i = m
    BY <1>1, <1>2, <1>4, <2>1
  <2>3. 0 .. t = (0 .. i) \cup {t}
    BY <1>4
  <2> QED BY <1>1, <1>2, <2>2, <2>3
<1>6. /\ next'[t] = 0 /\ limit'[t] = next[i] /\ rem_limit'[t] = next[i]
      /\ \A g \in Gens : g # t => /\ next'[g] = next[g] /\ limit'[g] = limit[g]
                                  /\ rem_limit'[g] = rem_limit[g] /\ mem'[g] = mem[g]
      /\ next' = [g \in Gens |-> next'[g]] /\ limit' = [g \in Gens |-> limit'[g]]
      /\ rem_limit' = [g \in Gens |-> rem_limit'[g]]
      /\ DOMAIN mem' = Gens /\ mem'[t] = Space(next[i]) /\ next' = next
  BY <1>1, <1>4
<1>7. ~ Going /\ ~ Owned /\ ~ Owned' /\ Going'
  BY <1>1 DEF Going, Owned
<1>8. /\ Ends' = Ends /\ \A g \in Gens : g # t => Starts'[g] = Starts[g]
      /\ Starts'[t] = next[i] /\ Ends[t] = 0 /\ Starts[i] = limit[i]
      /\ \A g \in Gens : Ends[g] = next[g]
  BY <1>4, <1>6, <1>7 DEF Ends, Starts
<1>9. OnlySkips'
  <2> SUFFICES ASSUME NEW x \in limit[i] .. rem_limit[i] - 1 PROVE mem[i][x][2] = i
    BY <1>1, <1>4, <1>6 DEF OnlySkips
  <2> DEFINE c == mem[i][x]
  <2>1. Entry(mem, Ends, i, c)
    BY <1>4, <1>8 DEF HeapInv, Entries
  <2>2. c[2] \in Gens /\ c[2] >= i /\ \E h : IsHead(mem, Ends, c[2], h)
    BY <2>1 DEF Entry
  <2>3. Ends[c[2]] # 0
    BY <2>2 DEF IsHead
  <2>4. c[2] \in created
    BY <1>3, <1>8, <2>2, <2>3, PolicyFacts
  <2> QED BY <1>4, <1>5, <2>2, <2>4
<1>10. Bounds'
  <2>1. /\ p' = next'[t] /\ created \subseteq created' /\ t \in created' /\ ti_limit <= rem_limit'[0]
        /\ next'[t] \in Nat /\ limit'[t] \in Nat /\ rem_limit'[t] \in Nat
        /\ limit'[t] <= rem_limit'[t] /\ next[i] <= limit'[t] - next'[t]
    BY <1>1, <1>4, <1>6
  <2> QED BY <1>1, <1>3, <1>6, <1>9, <2>1, StartBounds
<1>11. Places'
  <2>1. /\ created' = 0 .. t /\ i' + 1 <= t /\ i' + 1 = t /\ t \in Gens /\ pc' = "remset"
        /\ phase' = ph /\ (ph = "fake" => t + 1 \in Gens) /\ ph \in {"fake", "value"}
    BY <1>1, <1>2, <1>4, <1>5
  <2> QED BY <2>1 DEF Places, Spaces
<1>12. Rooms' /\ ~ Over'
  BY <1>1 DEF Rooms, Over
<1>13. TwoSpaces'
  <2>1. p' = 0 /\ limit'[i'+1] = next'[i'] /\ rem_limit'[i'+1] = next'[i'] /\ next'[i'+1] = 0
    BY <1>1, <1>4, <1>6
  <2> QED BY <1>9, <2>1 DEF TwoSpaces
<1>14. RoundBegins
  BY <1>1, <1>4, <1>6, <1>7, <1>8 DEF RoundBegins
<1> QED
  BY <1>1, <1>6, <1>10, <1>11, <1>12, <1>13, <1>14 DEF ExportBounds

\* The data is in the next generation.
LEMMA OnwardBounds ==
    ASSUME ExportBounds, Onwards
    PROVE  ExportBounds' /\ ~ Going /\ ~ Going' /\ Ends' = Ends /\ Starts' = Starts
<1>1. /\ pc = "check" /\ pc' = "level" /\ i' = i + 1
      /\ UNCHANGED <<created, next, limit, rem_limit, alloc, ti_limit, p, q, phase>>
  BY DEF Onwards
<1>2. ~ Going /\ ~ Going' /\ ~ Owned /\ ~ Owned' /\ Bounds
  BY <1>1 DEF Going, Owned, ExportBounds, Over
<1>3. Ends' = Ends /\ Starts' = Starts
  BY <1>1, <1>2 DEF Ends, Starts
<1>4. PICK m \in Gens :
         /\ created = 0 .. m /\ (phase = "all" => m + 2 \in Gens) /\ (phase = "fake" => m + 1 \in Gens)
         /\ i + 1 <= m /\ (phase # "all" => i + 1 = m)
  BY <1>1 DEF ExportBounds, Places, Spaces
<1>5. Places'
  BY <1>1, <1>4 DEF ExportBounds, Places, Spaces
<1>6. i \in Nat /\ i + 1 \in Gens /\ m \in Nat
  BY <1>2, <1>4, PolicyFacts DEF Gens
<1>7. ~ Over' => Bounds'
  <2> SUFFICES ASSUME ~ Over' PROVE Bounds'
    OBVIOUS
  <2>1. i' + 1 \in Gens
    <3>1. phase \in {"all", "fake"}
      BY <1>1 DEF Over, ExportBounds, Places
    <3>2. m + 1 \in Gens \/ (m + 2 \in Gens /\ i + 1 <= m)
      BY <1>4, <3>1
    <3> QED BY <1>1, <1>4, <1>6, <3>1, <3>2, GenerationsAssumption DEF Gens
  <2>2. ASSUME NEW g \in Gens, g < i' PROVE next'[g] = 0 /\ limit'[g] = rem_limit'[g]
    <3>1. g < i \/ g = i
      BY <1>1, <1>6, <2>2 DEF Gens
    <3> QED BY <1>1, <1>2, <3>1, PolicyFacts
  <2>3. i' \in Gens /\ i' \in Nat
    BY <1>1, <1>6
  <2>4. pc' # "remset" /\ pc' # "check"
    BY <1>1
  <2> QED BY <1>1, <1>2, <2>1, <2>2, <2>3, <2>4, PolicyFacts DEF Bounds
<1>8. Rooms'
  <2> SUFFICES ASSUME phase = "all", NEW g \in Gens, g + 1 \in created, i + 1 <= g
               PROVE  rem_limit[g] <= limit[g + 1] - next[g + 1]
    BY <1>1 DEF Rooms
  <2>1. i < g
    BY <1>6 DEF Gens
  <2> QED BY <1>1, <2>1 DEF ExportBounds, Rooms
<1>9. TwoSpaces'
  BY <1>2 DEF TwoSpaces
<1> QED
  BY <1>2, <1>3, <1>5, <1>7, <1>8, <1>9 DEF ExportBounds

\* value_sp is given out.
LEMMA ResultBounds ==
    ASSUME ExportBounds, Result
    PROVE  ExportBounds' /\ ~ Going /\ ~ Going' /\ Ends' = Ends /\ Starts' = Starts
<1>1. /\ pc = "level" /\ pc' = "exported" /\ phase = "value"
      /\ UNCHANGED <<created, next, limit, rem_limit, alloc, ti_limit, i, p, q, phase>>
  BY DEF Result
<1>2. ~ Going /\ ~ Going' /\ ~ Owned /\ ~ Owned' /\ Over'
  BY <1>1 DEF Going, Owned, Over
<1>3. Ends' = Ends /\ Starts' = Starts
  BY <1>1, <1>2 DEF Ends, Starts
<1>4. Places' /\ Rooms' /\ TwoSpaces'
  BY <1>1, <1>2 DEF ExportBounds, Places, Spaces, Rooms, TwoSpaces
<1> QED
  BY <1>2, <1>3, <1>4 DEF ExportBounds

\* An entry of generation i itself is skipped.
LEMMA SkippedEntry ==
    ASSUME Bounds, HeapInv, ForwardEntry, OnlySkips
    PROVE  UNCHANGED <<mem, next, limit>> /\ (pc' = "remset" => OnlySkips')
<1> DEFINE c == mem[i][q]
<1>1. /\ pc = "remset" /\ q < rem_limit[i] /\ q' = q + 1 /\ UNCHANGED <<i, rem_limit>>
      /\ c[2] = i /\ c[3] < limit[i] => UNCHANGED <<mem, next, limit>>
  BY DEF ForwardEntry
<1>2. q \in Nat /\ rem_limit[i] \in Nat
  BY PolicyFacts
<1>3. c[2] = i
  <2>1. q \in q .. rem_limit[i] - 1
    BY <1>1, <1>2
  <2> QED BY <2>1 DEF OnlySkips
<1>4. c[3] < limit[i]
  BY <1>1, <1>3, EntryFacts
<1>5. UNCHANGED <<mem, next, limit>>
  BY <1>1, <1>3, <1>4
<1>6. q' .. rem_limit'[i'] - 1 \subseteq q .. rem_limit[i] - 1
  BY <1>1, <1>2
<1> QED
  BY <1>1, <1>5, <1>6 DEF OnlySkips

\* A step of a collection.
LEMMA RoundExport ==
    ASSUME ExportBounds, HeapInv, InRound, UNCHANGED phase
    PROVE  ExportBounds' /\ Bounds /\ Bounds' /\ Going /\ Going' /\ Onto
<1>1. pc \in {"remset", "copy"} /\ pc' \in {"remset", "copy"} /\ (pc' = "remset" => ForwardEntry)
  BY DEF InRound, ForwardEntry, RemsetDone, G!RemsetDone, ForwardRoot, ScanField, ScanNext,
         Scanning, policy
<1>2. Bounds
  BY <1>1 DEF ExportBounds, Over
<1>3. Bounds' /\ Going /\ Going' /\ Onto
  BY <1>2, RoundBounds DEF Onto
<1>4. /\ UNCHANGED <<created, rem_limit, i, p>>
      /\ \A g \in Gens : g # i + 1 => next'[g] = next[g] /\ limit'[g] = limit[g]
  BY <1>3 DEF Onto
<1>5. i \in Nat /\ i \in Gens
  BY <1>2, PolicyFacts
<1>6. PICK m \in Gens :
         /\ created = 0 .. m /\ (phase = "all" => m + 2 \in Gens) /\ (phase = "fake" => m + 1 \in Gens)
         /\ i + 1 <= m /\ (phase # "all" => i + 1 = m)
  BY <1>1 DEF ExportBounds, Places, Spaces
<1>7. Places'
  <2>1. Spaces'
    BY <1>1, <1>4, <1>6 DEF Spaces
  <2> QED BY <1>1, <2>1 DEF ExportBounds, Places
<1>8. Rooms'
  <2> SUFFICES ASSUME phase = "all", NEW g \in Gens, g + 1 \in created, i < g
               PROVE  rem_limit[g] <= limit'[g + 1] - next'[g + 1]
    BY <1>1, <1>4 DEF Rooms
  <2>1. g + 1 \in Gens /\ g + 1 # i + 1
    BY <1>5, <1>6, GenerationsAssumption DEF Gens
  <2>2. rem_limit[g] <= limit[g + 1] - next[g + 1]
    BY <1>1 DEF ExportBounds, Rooms
  <2> QED BY <1>4, <2>1, <2>2
<1>9. TwoSpaces'
  <2> SUFFICES ASSUME phase # "all"
               PROVE  /\ p' = 0 /\ limit'[i + 1] = next'[i] /\ rem_limit'[i + 1] = next'[i]
                      /\ pc' = "remset" => next'[i + 1] = 0 /\ OnlySkips'
    BY <1>4 DEF TwoSpaces
  <2>1. /\ p = 0 /\ limit[i + 1] = next[i] /\ rem_limit[i + 1] = next[i]
        /\ pc = "remset" => next[i + 1] = 0 /\ OnlySkips
    BY <1>3 DEF ExportBounds, TwoSpaces
  <2>2. p' = 0 /\ next'[i] = next[i] /\ rem_limit' = rem_limit
    BY <1>4, <1>5, <2>1
  <2>3. CASE ForwardEntry
    <3>1. pc = "remset"
      BY <2>3 DEF ForwardEntry
    <3> QED BY <1>2, <2>1, <2>2, <2>3, <3>1, SkippedEntry
  <2>4. CASE ~ ForwardEntry
    <3>1. limit' = limit /\ pc' # "remset"
      BY <1>1, <2>4 DEF InRound, RemsetDone, G!RemsetDone, ForwardRoot, ScanField, ScanNext, policy
    <3> QED BY <2>1, <2>2, <3>1
  <2> QED BY <2>3, <2>4
<1> QED
  BY <1>2, <1>3, <1>7, <1>8, <1>9 DEF ExportBounds

\* Its end.
LEMMA EndExport ==
    ASSUME ExportBounds, EndGeneration, UNCHANGED phase
    PROVE  ExportBounds' /\ Bounds /\ Bounds' /\ Going /\ ~ Going'
<1>1. pc = "copy" /\ pc' = "check"
  BY DEF EndGeneration, G!EndGeneration
<1>2. Bounds
  BY <1>1 DEF ExportBounds, Over
<1>3. /\ Bounds' /\ Going /\ UNCHANGED <<created, rem_limit, i, p>>
      /\ \A g \in Gens : g # i => next'[g] = next[g] /\ limit'[g] = limit[g]
  BY <1>2, EndBounds
<1>4. ~ Going' /\ TwoSpaces'
  <2>1. ~ Going'
    BY <1>1 DEF Going
  <2> QED BY <2>1 DEF TwoSpaces
<1>5. i \in Nat /\ pc' = "check"
  BY <1>1, <1>2, PolicyFacts
<1>6. PICK m \in Gens :
         /\ created = 0 .. m /\ (phase = "all" => m + 2 \in Gens) /\ (phase = "fake" => m + 1 \in Gens)
         /\ i + 1 <= m /\ (phase # "all" => i + 1 = m)
  BY <1>1 DEF ExportBounds, Places, Spaces
<1>7. Places'
  <2>1. Spaces'
    BY <1>3, <1>5, <1>6 DEF Spaces
  <2> QED BY <1>5, <2>1 DEF ExportBounds, Places
<1>8. Rooms'
  <2> SUFFICES ASSUME phase = "all", NEW g \in Gens, g + 1 \in created, i < g
               PROVE  rem_limit[g] <= limit'[g + 1] - next'[g + 1]
    BY <1>3, <1>5 DEF Rooms
  <2>1. g + 1 \in Gens /\ g + 1 # i
    BY <1>5, <1>6, GenerationsAssumption DEF Gens
  <2>2. rem_limit[g] <= limit[g + 1] - next[g + 1]
    BY <1>1 DEF ExportBounds, Rooms
  <2> QED BY <1>3, <2>1, <2>2
<1> QED
  BY <1>2, <1>3, <1>4, <1>7, <1>8 DEF ExportBounds

-----------------------------------------------------------------------------
(* The objects that are live *)

\* The identities in the graph are those of the live pointers: every root is
\* among them, and every pointer in an object that is.
LEMMA LiveIdentities ==
    ASSUME NEW m, NEW e, NEW r, NEW n, NEW k, Readable(m, e, r, n, k), NEW st, Roots(m, e, st),
           NEW D, D = DOMAIN Graph(m, st).objs
    PROVE  /\ \A a \in DOMAIN st : \A l \in Slots : IntoHeap(st[a][l]) => Identity(m, st[a][l]) \in D
           /\ \A v : Settled(m, e, v) /\ Identity(m, v) \in D =>
                 \A w \in FieldsOf(m, v) : IntoHeap(w) => Identity(m, w) \in D
           /\ \A id \in D : \E v \in LivePtrs(m, st) : Settled(m, e, v) /\ Identity(m, v) = id
<1> DEFINE sk == StackOf(m, st)
           ob == AllObjs(m, e)
<1>1. D = {Identity(m, v) : v \in LivePtrs(m, st)}
  BY DEF Graph
<1>2. D = ReachIds(sk, ob)
  BY <1>1, SameSearch
<1>3. IsClosed(D, sk, ob)
  BY <1>2, ReachIsLeast
<1>4. ASSUME NEW a \in DOMAIN st, NEW l \in Slots, IntoHeap(st[a][l])
      PROVE  Identity(m, st[a][l]) \in D
  <2> DEFINE w == st[a][l]
  <2>1. st[a] \in [Slots -> Values] /\ IsVal(m, e, w)
    BY RootsAreValues DEF Roots
  <2>2. w \in Range(st[a])
    BY <2>1 DEF Range
  <2>3. w \in UNION {Range(st[b]) : b \in DOMAIN st}
    BY <2>2
  <2>4. Resolve(m, w) \in RootPtrs(m, st)
    BY <1>4, <2>3 DEF RootPtrs, PointersIn
  <2>5. Identity(m, Resolve(m, w)) \in RootIds(sk)
    BY <2>4, IdsOfRoots
  <2>6. Identity(m, w) = Identity(m, Resolve(m, w))
    BY <1>4, <2>1, ValueFacts
  <2> QED BY <1>3, <2>5, <2>6 DEF IsClosed
<1>5. ASSUME NEW v, Settled(m, e, v), Identity(m, v) \in D, NEW w \in FieldsOf(m, v), IntoHeap(w)
      PROVE  Identity(m, w) \in D
  <2>1. IsVal(m, e, w)
    BY <1>5, FieldsAreValues
  <2>2. Resolve(m, w) \in Children(m, v)
    BY <1>5 DEF Children, PointersIn
  <2>3. Identity(m, Resolve(m, w)) \in FieldIds(ob, Identity(m, v))
    BY <1>5, <2>2, IdsOfFields
  <2>4. Identity(m, w) = Identity(m, Resolve(m, w))
    BY <1>5, <2>1, ValueFacts
  <2> QED BY <1>3, <1>5, <2>3, <2>4 DEF IsClosed
<1>6. ASSUME NEW id \in D PROVE \E v \in LivePtrs(m, st) : Settled(m, e, v) /\ Identity(m, v) = id
  BY <1>1, LiveSettled
<1> QED
  BY <1>4, <1>5, <1>6

\* Out of generation i, forward adds at most a copy of what it is given.
LEMMA ForwardSettled ==
    ASSUME Bounds, HeapInv, Going, NEW v, IsVal(mem, Ends, v), NEW f, f = Forward(v),
           NEW e2, e2 = EndsAfter(f), ForwardedHeap(v, f, e2),
           NEW u, Settled(f.mem, e2, u), u[2] # i
    PROVE  \/ Settled(mem, Ends, u) /\ Identity(mem, u) = Identity(f.mem, u)
           \/ IntoHeap(v) /\ Identity(f.mem, u) = Identity(mem, v)
<1> DEFINE t == i + 1
           h == u[3] - 1
<1>1. Objects /\ Counted /\ Source = i
  BY DEF HeapInv, Source
<1>2. Readable(mem, Ends, rem_limit, fresh, i) /\ Readable(f.mem, e2, rem_limit, fresh, i)
  BY <1>1, ReadableNow, ForwardAlike
<1>3. i \in Gens /\ t \in Gens /\ next[t] \in Nat /\ Ends[t] = next[t] /\ DOMAIN Ends = Gens
  BY PolicyFacts, EndsFacts
<1>4. CASE f.mem = mem /\ f.next = next[t]
  <2>1. e2 = Ends
    BY <1>3, <1>4 DEF Ends, EndsAfter
  <2> QED BY <1>4, <2>1
<1>5. CASE ~ Into(v, i)
  <2> DEFINE f1 == [mem |-> mem, next |-> next[t], val |-> v]
  <2>1. f = f1
    BY <1>1, <1>5, ForwardOther
  <2> QED BY <1>4, <2>1
<1>6. CASE Into(v, i) /\ HeaderIn(mem, v) = Forwarded
  <2> DEFINE f1 == [mem |-> mem, next |-> next[t], val |-> FieldIn(mem, v, 1)]
  <2>1. f = f1
    BY <1>1, <1>6, ForwardAgain
  <2> QED BY <1>4, <2>1
<1>7. CASE Into(v, i) /\ HeaderIn(mem, v) # Forwarded
  <2>1. PICK h0, sz, v0 : h0 = v[3] - 1 /\ sz = HeaderIn(mem, v)[3] /\ v0 = Ptr(t, next[t] + 1)
    OBVIOUS
  <2>2. /\ CopyStep(mem, f.mem, Ends, e2, i, t, rem_limit, fresh, h0, sz, v0)
        /\ HeaderIn(mem, v) = mem[i][h0]
    BY <1>7, <2>1, ForwardCopies
  <2>3. /\ IsHead(f.mem, e2, u[2], h) <=> IsHead(mem, Ends, u[2], h) \/ (u[2] = t /\ h = Ends[t])
        /\ IsHead(mem, Ends, u[2], h) => f.mem[u[2]][h] = mem[u[2]][h]
        /\ f.mem[t][Ends[t]] = mem[i][h0]
    BY <2>2, CopyWords
  <2>4. /\ IsHead(f.mem, e2, u[2], h) /\ u = Ptr(u[2], u[3]) /\ u[3] \in Nat /\ IntoHeap(u)
        /\ HeaderIn(f.mem, u) = f.mem[u[2]][h] /\ HeaderIn(f.mem, u) # Forwarded
    BY DEF Settled, IsObj, HeaderIn
  <2>5. Identity(f.mem, u) = f.mem[u[2]][h][2]
    BY <1>2, <2>4, Identities
  <2>6. CASE IsHead(mem, Ends, u[2], h)
    <3>1. HeaderIn(mem, u) = f.mem[u[2]][h]
      BY <2>3, <2>6 DEF HeaderIn
    <3>2. Settled(mem, Ends, u)
      BY <2>4, <2>6, <3>1 DEF Settled, IsObj
    <3> QED BY <1>2, <2>5, <3>1, <3>2, Identities
  <2>7. CASE u[2] = t /\ h = Ends[t]
    <3>1. f.mem[u[2]][h] = HeaderIn(mem, v)
      BY <2>2, <2>3, <2>7
    <3>2. IntoHeap(v) /\ Settled(mem, Ends, v)
      BY <1>7 DEF Into, IsVal, Settled, IntoHeap, Unboxed, Out
    <3>3. Identity(mem, v) = HeaderIn(mem, v)[2]
      BY <1>2, <3>2, Identities
    <3> QED BY <2>5, <3>1, <3>2, <3>3
  <2> QED BY <2>3, <2>4, <2>6, <2>7
<1> QED
  BY <1>5, <1>6, <1>7

\* Where headers are kept, so are the identities of what is settled.
LEMMA KeptSettled ==
    ASSUME NEW m, NEW m2, NEW e, SameObjects(m, m2, e), NEW u, Settled(m2, e, u)
    PROVE  Settled(m, e, u) /\ Identity(m, u) = Identity(m2, u)
<1> DEFINE h == u[3] - 1
<1>1. /\ IsHead(m2, e, u[2], h) /\ u = Ptr(u[2], u[3]) /\ u[3] \in Nat /\ IntoHeap(u)
      /\ HeaderIn(m2, u) # Forwarded
  BY DEF Settled, IsObj
<1>2. IsHead(m, e, u[2], h) /\ HeaderIn(m2, u) = HeaderIn(m, u)
  BY <1>1 DEF SameObjects, HeaderIn
<1>3. Resolve(m, u) = u /\ Resolve(m2, u) = u
  BY <1>1, <1>2 DEF Resolve
<1> QED
  BY <1>1, <1>2, <1>3 DEF Settled, IsObj, Identity

-----------------------------------------------------------------------------
(* What an export keeps *)

\* The root is in the first slot of the only frame.  value_sp is empty before it
\* is forwarded, so that its copy is the first object there.
Rooted ==
    /\ Len(frames) = 1 /\ IntoHeap(frames[1][1])
    /\ phase = "value" =>
          /\ pc = "copy" => IF fr = 1 /\ j = 1 THEN next[i + 1] = 0
                            ELSE frames[1][1] = Ptr(i + 1, 1)
          /\ pc = "check" => frames[1][1] = Ptr(i + 1, 1)
          /\ pc \in {"level", "exported"} => frames[1][1] = Ptr(i, 1)

\* Nothing that is not live is left once garbage_collect_all has copied to
\* fake_sp, but in the generation that is being copied.
AllLive ==
    phase # "all" =>
        \A v : Settled(mem, Ends, v) =>
            Identity(mem, v) \in DOMAIN before.objs \/ (phase = "fake" /\ Going /\ v[2] = i)

\* The objects of fake_sp follow each other from its first word on.
HeadFirst(g) == next[g] = 0 \/ IsHead(mem, Ends, g, 0)

Headed ==
    /\ phase # "all" /\ pc = "check" => HeadFirst(i + 1)
    /\ phase # "all" /\ pc = "level" => HeadFirst(i)
    /\ phase = "value" /\ Going => HeadFirst(i)

\* value_sp is full at the end, and nothing is anywhere else.
Filled ==
    /\ phase = "value" /\ pc = "check" => next[i + 1] = rem_limit[i + 1]
    /\ Over => i \in Gens /\ next[i] = rem_limit[i] /\ \A g \in Gens : g # i => next[g] = 0

\* A step of a collection that neither forwards a root nor scans a field changes
\* no word, if the remembered set is of generation i alone.
LEMMA StillStep ==
    ASSUME Bounds, HeapInv, InRound, pc = "remset" => OnlySkips, ~ ForwardRoot, ~ ScanField
    PROVE  mem' = mem /\ Ends' = Ends /\ UNCHANGED frames /\ next' = next
<1>1. UNCHANGED frames /\ mem' = mem /\ next' = next
  <2>1. CASE ForwardEntry
    <3>1. pc = "remset" /\ UNCHANGED frames
      BY <2>1 DEF ForwardEntry
    <3> QED BY <2>1, <3>1, SkippedEntry
  <2>2. CASE RemsetDone
    BY <2>2 DEF RemsetDone, G!RemsetDone
  <2>3. CASE ScanNext
    BY <2>3 DEF ScanNext, policy
  <2> QED BY <2>1, <2>2, <2>3 DEF InRound
<1>2. pc # "mutator" /\ pc # "modifyAssertion" /\ pc' # "mutator" /\ pc' # "modifyAssertion"
  BY DEF InRound, ForwardEntry, RemsetDone, G!RemsetDone, ScanNext, Scanning, policy
<1> QED
  BY <1>1, <1>2 DEF Ends, Owned

\* What forward adds is live if what it is given is.
LEMMA MovedLive ==
    ASSUME Bounds, HeapInv, Going, AllLive, phase \in {"fake", "value"},
           NEW v, IsVal(mem, Ends, v), NEW f, f = Forward(v), ForwardedHeap(v, f, EndsAfter(f)),
           IntoHeap(v) => Identity(mem, v) \in DOMAIN before.objs,
           NEW u, Settled(f.mem, EndsAfter(f), u)
    PROVE  Identity(f.mem, u) \in DOMAIN before.objs \/ (phase = "fake" /\ u[2] = i)
<1>1. CASE u[2] # i
  <2>1. \/ Settled(mem, Ends, u) /\ Identity(mem, u) = Identity(f.mem, u)
        \/ IntoHeap(v) /\ Identity(f.mem, u) = Identity(mem, v)
    BY <1>1, ForwardSettled
  <2> QED BY <1>1, <2>1 DEF AllLive
<1>2. CASE phase = "value"
  <2>1. ObjectsKept(mem, Ends, f.mem, EndsAfter(f))
    BY ForwardAlike DEF Alike
  <2>2. PICK w : Settled(mem, Ends, w) /\ Identity(mem, w) = Identity(f.mem, u)
    BY <2>1 DEF ObjectsKept
  <2> QED BY <1>2, <2>2 DEF AllLive
<1> QED
  BY <1>1, <1>2

\* No step of a collection brings back what is not live.
LEMMA RoundLive ==
    ASSUME ExportBounds, HeapInv, InRound, UNCHANGED <<phase, before>>,
           Graph(mem, frames) = before, AllLive
    PROVE  AllLive'
<1> DEFINE D == DOMAIN before.objs
<1>1. Bounds /\ Going /\ Going' /\ i' = i
  BY RoundExport DEF Onto
<1> SUFFICES ASSUME phase # "all", NEW u, Settled(mem', Ends', u)
             PROVE  Identity(mem', u) \in D \/ (phase = "fake" /\ u[2] = i)
  BY <1>1 DEF AllLive
<1>2. phase \in {"fake", "value"} /\ (pc = "remset" => OnlySkips)
  BY <1>1 DEF ExportBounds, Places, TwoSpaces
<1>3. Readable(mem, Ends, rem_limit, fresh, i) /\ Roots(mem, Ends, frames)
  BY <1>1, ReadableNow DEF Source
<1>4. D = DOMAIN Graph(mem, frames).objs
  OBVIOUS
<1> HIDE DEF D
<1>5. CASE ForwardRoot
  <2>1. PICK v, f : v = frames[fr][j] /\ f = Forward(v)
    OBVIOUS
  <2>2. /\ IsVal(mem, Ends, v) /\ mem' = f.mem /\ Ends' = EndsAfter(f)
        /\ ForwardedHeap(v, f, EndsAfter(f)) /\ fr \in DOMAIN frames /\ j \in Slots
    BY <1>1, <1>5, <2>1, ForwardedSlot
  <2>3. IntoHeap(v) => Identity(mem, v) \in D
    BY <1>3, <1>4, <2>1, <2>2, LiveIdentities
  <2> QED BY <1>1, <1>2, <2>1, <2>2, <2>3, MovedLive DEF D
<1>6. CASE ScanField
  <2> DEFINE c == Ptr(i + 1, s + 1)
             hd == mem[i + 1][s]
  <2>1. PICK v, f : v = mem[i + 1][s + j] /\ f = Forward(v)
    OBVIOUS
  <2>2. /\ IsVal(mem, Ends, v) /\ Ends' = EndsAfter(f) /\ Field(mem, Ends, i + 1, s, s + j)
        /\ Updated(i + 1, s, s + j, f, EndsAfter(f), mem')
    BY <1>1, <1>6, <2>1, ForwardedField
  <2>3. /\ ForwardedHeap(v, f, EndsAfter(f)) /\ SameObjects(f.mem, mem', EndsAfter(f))
    BY <2>1, <2>2 DEF Updated
  <2>4. /\ s \in Nat /\ j \in Nat /\ j > 0 /\ j <= hd[3] /\ hd[3] \in Nat /\ i \in Nat
        /\ IsHead(mem, Ends, i + 1, s) /\ hd # Forwarded /\ hd[4]
    BY <1>1, <1>6, <2>2, ScannedField, PolicyFacts DEF Field
  <2>5. /\ c[2] = i + 1 /\ c[3] = s + 1 /\ IntoHeap(c) /\ c = Ptr(c[2], c[3])
        /\ c[3] - 1 = s /\ c[3] \in Nat /\ c[3] + j - 1 = s + j
    BY <2>4 DEF Ptr, IntoHeap
  <2> HIDE DEF c
  <2>6. Settled(mem, Ends, c) /\ HeaderIn(mem, c) = hd /\ FieldIn(mem, c, j) = v /\ c[2] # i
    BY <2>1, <2>4, <2>5 DEF Settled, IsObj, HeaderIn, FieldIn
  <2>7. Identity(mem, c) \in D /\ IsHeader(hd)
    BY <1>2, <1>3, <2>6, SettledFields DEF AllLive, D
  <2>8. v \in FieldsOf(mem, c)
    <3>1. j \in 1 .. hd[3]
      BY <2>4
    <3>2. FieldsOf(mem, c) = {FieldIn(mem, c, x) : x \in 1 .. hd[3]}
      BY <2>4, <2>6, <2>7 DEF FieldsOf
    <3> QED BY <2>6, <3>1, <3>2
  <2>9. IntoHeap(v) => Identity(mem, v) \in D
    BY <1>3, <1>4, <2>6, <2>7, <2>8, LiveIdentities
  <2>10. Settled(f.mem, EndsAfter(f), u) /\ Identity(f.mem, u) = Identity(mem', u)
    BY <2>2, <2>3, KeptSettled
  <2> QED BY <1>1, <1>2, <2>1, <2>2, <2>3, <2>9, <2>10, MovedLive DEF D
<1>7. CASE ~ ForwardRoot /\ ~ ScanField
  <2>1. mem' = mem /\ Ends' = Ends
    BY <1>1, <1>2, <1>7, StillStep
  <2> QED BY <2>1 DEF AllLive, D
<1> QED
  BY <1>5, <1>6, <1>7

\* From fake_sp on, objects are in the space being copied and in the next one,
\* which is empty until then.
LEMMA TwoPlaces ==
    ASSUME ExportBounds, Bounds, phase # "all", NEW g, NEW h, IsHead(mem, Ends, g, h)
    PROVE  /\ g \in Gens /\ next[g] # 0 /\ g >= i
           /\ pc \in {"level", "exported"} => g = i
           /\ pc \notin {"level", "exported"} => g \in {i, i + 1}
<1>1. /\ g \in Gens /\ h \in 0 .. Ends[g] - 1 /\ i \in Nat /\ i \in Gens
  BY PolicyFacts DEF IsHead
<1>2. Ends[g] = next[g] /\ next[g] \in Nat
  BY <1>1, EndsFacts, PolicyFacts DEF ExportBounds, Places, Owned
<1>3. next[g] # 0
  BY <1>1, <1>2
<1>4. ~ (g < i) /\ g \in created
  BY <1>1, <1>3, PolicyFacts
<1>5. PICK m \in Gens :
         /\ created = 0 .. m
         /\ IF pc \in {"level", "exported"} THEN i = m ELSE i + 1 = m
  BY DEF ExportBounds, Places, Spaces
<1> QED
  BY <1>1, <1>3, <1>4, <1>5 DEF Gens

\* No object is taken away by a step of a collection.
LEMMA RoundHeads ==
    ASSUME Bounds, HeapInv, InRound, pc = "remset" => OnlySkips, Going,
           NEW g, NEW h, IsHead(mem, Ends, g, h)
    PROVE  IsHead(mem', Ends', g, h)
<1>1. CASE ForwardRoot
  <2>1. PICK v, f : v = frames[fr][j] /\ f = Forward(v)
    OBVIOUS
  <2>2. mem' = f.mem /\ Ends' = EndsAfter(f) /\ ForwardedHeap(v, f, EndsAfter(f))
    BY <1>1, <2>1, ForwardedSlot
  <2>3. Moved(mem, f.mem, Ends, EndsAfter(f), i, i + 1, rem_limit, fresh)
    BY <2>2 DEF ForwardedHeap, Forwarding
  <2> QED BY <2>2, <2>3 DEF Moved
<1>2. CASE ScanField
  <2>1. PICK v, f : v = mem[i + 1][s + j] /\ f = Forward(v)
    OBVIOUS
  <2>2. Ends' = EndsAfter(f) /\ Updated(i + 1, s, s + j, f, EndsAfter(f), mem')
    BY <1>2, <2>1, ForwardedField
  <2>3. /\ Moved(mem, f.mem, Ends, EndsAfter(f), i, i + 1, rem_limit, fresh)
        /\ SameObjects(f.mem, mem', EndsAfter(f))
    BY <2>2 DEF Updated, ForwardedHeap, Forwarding
  <2>4. IsHead(f.mem, EndsAfter(f), g, h)
    BY <2>3 DEF Moved
  <2> QED BY <2>2, <2>3, <2>4 DEF SameObjects
<1>3. CASE ~ ForwardRoot /\ ~ ScanField
  BY <1>3, StillStep
<1> QED
  BY <1>1, <1>2, <1>3

\* Nor is the first one of what is copied.
LEMMA RoundHeaded ==
    ASSUME ExportBounds, HeapInv, InRound, UNCHANGED phase, Headed
    PROVE  Headed'
<1>1. Bounds /\ Going /\ Going' /\ i' = i /\ \A g \in Gens : g # i + 1 => next'[g] = next[g]
  BY RoundExport DEF Onto
<1>2. i \in Gens /\ i # i + 1 /\ pc' # "check" /\ pc' # "level"
  BY <1>1, PolicyFacts DEF Going
<1>3. ASSUME phase = "value" PROVE HeadFirst(i)'
  <2>1. next[i] = 0 \/ IsHead(mem, Ends, i, 0)
    BY <1>1, <1>3 DEF Headed, HeadFirst
  <2>2. pc = "remset" => OnlySkips
    BY <1>1, <1>3 DEF ExportBounds, TwoSpaces
  <2>3. IsHead(mem, Ends, i, 0) => IsHead(mem', Ends', i, 0)
    BY <1>1, <2>2, RoundHeads
  <2> QED BY <1>1, <1>2, <2>1, <2>3 DEF HeadFirst
<1> QED
  BY <1>1, <1>2, <1>3 DEF Headed

\* The root, which is in the space that is copied, is copied first.
LEMMA RootCopied ==
    ASSUME ExportBounds, Bounds, HeapInv, pc = "copy", phase = "value", next[i + 1] = 0,
           NEW v, IsVal(mem, Ends, v), IntoHeap(v)
    PROVE  Forward(v).val = Ptr(i + 1, 1)
<1> DEFINE h == v[3] - 1
<1>1. Going /\ Objects /\ Counted /\ Source = i
  BY DEF Going, HeapInv, Source
<1>2. /\ IsHead(mem, Ends, v[2], h) /\ v = Ptr(v[2], v[3]) /\ v[3] \in Nat /\ IsObj(mem, Ends, v)
  BY DEF IsVal, IsObj, IntoHeap, Unboxed, Out
<1>3. v[2] = i /\ i \in Gens /\ i + 1 \in Gens
  <2>1. v[2] \in {i, i + 1} /\ next[v[2]] # 0
    BY <1>2, TwoPlaces
  <2> QED BY <2>1, PolicyFacts
<1>4. Into(v, i)
  BY <1>3 DEF Into
<1>5. p = 0
  BY <1>1 DEF ExportBounds, TwoSpaces
<1>6. Copied(mem, Ends, i) = {}
  <2>1. Cardinality(Copied(mem, Ends, i)) = 0 - 0
    BY <1>1, <1>5 DEF Counted
  <2>2. IsFiniteSet(Copied(mem, Ends, i))
    BY <1>1, <1>3, CopiedRoom DEF Objects
  <2> QED BY <2>1, <2>2, FS_EmptySet
<1>7. HeaderIn(mem, v) # Forwarded
  <2>1. SUFFICES ASSUME mem[i][h] = Forwarded PROVE FALSE
    BY <1>3 DEF HeaderIn
  <2>2. /\ h \in Nat /\ h < Ends[i] /\ Ends[i] \in Nat /\ SizeAt(mem, i, h) \in Nat
    BY <1>1, <1>2, <1>3, HeadFacts DEF Objects
  <2>3. h \in 0 .. Ends[i] - 1 /\ h \in h .. h + SizeAt(mem, i, h)
    BY <2>2
  <2>4. IsHead(mem, Ends, i, h)
    BY <1>2, <1>3
  <2> HIDE DEF h
  <2>5. h \in Copied(mem, Ends, i)
    BY <2>1, <2>3, <2>4 DEF Copied
  <2> QED BY <1>6, <2>5
<1>8. Forward(v).val = Ptr(i + 1, next[i + 1] + 1)
  BY <1>1, <1>4, <1>7, ForwardNew
<1> QED
  BY <1>8

\* The root stays where it should be.
LEMMA RoundRooted ==
    ASSUME ExportBounds, HeapInv, HeapInv', InRound, UNCHANGED phase, Rooted
    PROVE  Rooted'
<1>1. Bounds /\ Going /\ Going' /\ i' = i
  BY RoundExport DEF Onto
<1>2. /\ frames \in Seq([Slots -> Values]) /\ frames' \in Seq([Slots -> Values])
      /\ Len(frames) = 1 /\ IntoHeap(frames[1][1]) /\ 1 \in Slots
  BY DEF HeapInv, Roots, Rooted, Slots
<1>3. DOMAIN frames = {1} /\ frames[1] \in [Slots -> Values]
  <2>1. DOMAIN frames = 1 .. 1 /\ 1 .. 1 = {1}
    BY <1>2
  <2> QED BY <1>2, <2>1, ElementOfSeq
<1>4. CASE ~ ForwardRoot
  <2>1. UNCHANGED frames
    BY <1>4 DEF InRound, ForwardEntry, RemsetDone, ScanField, ScanNext
  <2>2. ASSUME phase = "value", pc' = "copy"
        PROVE  IF fr' = 1 /\ j' = 1 THEN next'[i + 1] = 0 ELSE frames[1][1] = Ptr(i + 1, 1)
    <3>1. CASE RemsetDone
      <4>1. pc = "remset" /\ next' = next /\ fr' = Top /\ j' = 1
        BY <3>1 DEF RemsetDone, G!RemsetDone
      <4>2. next[i + 1] = 0
        BY <1>1, <2>2, <4>1 DEF ExportBounds, TwoSpaces
      <4> QED BY <1>2, <4>1, <4>2 DEF Top
    <3>2. CASE ScanField \/ ScanNext
      <4>1. pc = "copy" /\ fr = 0 /\ fr' = 0
        BY <3>2 DEF ScanField, ScanNext, Scanning
      <4> QED BY <2>2, <4>1 DEF Rooted
    <3>3. CASE ForwardEntry
      BY <2>2, <3>3 DEF ForwardEntry
    <3> QED BY <1>4, <3>1, <3>2, <3>3 DEF InRound
  <2> QED BY <1>1, <1>2, <2>1, <2>2 DEF Rooted, Going
<1>5. CASE ForwardRoot
  <2>1. PICK v, f : v = frames[fr][j] /\ f = Forward(v)
    OBVIOUS
  <2>2. /\ IsVal(mem, Ends, v) /\ ForwardedHeap(v, f, EndsAfter(f))
        /\ fr \in DOMAIN frames /\ j \in Slots /\ DOMAIN frames' = DOMAIN frames
        /\ \A a \in DOMAIN frames : \A l \in Slots :
              frames'[a][l] = IF a = fr /\ l = j THEN f.val ELSE frames[a][l]
    BY <1>5, <1>1, <2>1, ForwardedSlot
  <2>3. fr = 1 /\ frames'[1][1] = IF j = 1 THEN f.val ELSE frames[1][1]
    BY <1>2, <1>3, <2>2
  <2>4. Len(frames') = 1
    BY <1>2, <1>3, <2>2
  <2>5. IntoHeap(frames'[1][1])
    <3>1. CASE j = 1
      <4>1. IntoHeap(v)
        BY <1>2, <2>1, <2>3, <3>1
      <4>2. /\ Into(v, i) => Into(f.val, i + 1)
            /\ ~ Into(v, i) => f = [mem |-> mem, next |-> next[i + 1], val |-> v]
        BY <2>2 DEF ForwardedHeap, Forwarding
      <4>3. ~ Into(v, i) => f.val = v
        BY <4>2
      <4> QED BY <2>3, <3>1, <4>1, <4>2, <4>3 DEF Into
    <3> QED BY <1>2, <2>3, <3>1
  <2>6. /\ pc = "copy" /\ pc' = "copy"
        /\ \/ j < Len(frames[fr]) /\ j' = j + 1 /\ fr' = fr
           \/ ~ (j < Len(frames[fr])) /\ j' = 1 /\ fr' = fr - 1
    BY <1>5 DEF ForwardRoot
  <2>7. ASSUME phase = "value" PROVE frames'[1][1] = Ptr(i + 1, 1) /\ ~ (fr' = 1 /\ j' = 1)
    <3>1. Len(frames[fr]) = 2
      BY <1>3, <2>3, FrameLength
    <3>2. ~ (fr' = 1 /\ j' = 1)
      BY <2>2, <2>3, <2>6, <3>1 DEF Slots
    <3>3. CASE j = 1
      <4>1. next[i + 1] = 0
        BY <2>3, <2>6, <2>7, <3>3 DEF Rooted
      <4>2. v = frames[1][1]
        BY <2>1, <2>3, <3>3
      <4>3. f.val = Ptr(i + 1, 1)
        BY <1>1, <1>2, <2>1, <2>2, <2>6, <2>7, <4>1, <4>2, RootCopied
      <4> QED BY <2>3, <3>2, <3>3, <4>3
    <3>4. CASE j # 1
      BY <2>3, <2>6, <2>7, <3>2, <3>4 DEF Rooted
    <3> QED BY <3>3, <3>4
  <2> QED BY <1>1, <2>4, <2>5, <2>6, <2>7 DEF Rooted
<1> QED
  BY <1>4, <1>5

-----------------------------------------------------------------------------
(* The end of a collection of an export *)

\* What is left when a generation is emptied: the words of the next one.
LEMMA EndWords ==
    ASSUME ExportBounds, HeapInv, EndGeneration, UNCHANGED phase
    PROVE  /\ Bounds /\ Going /\ i' = i /\ i \in Gens /\ i + 1 \in Gens /\ i \in Nat
           /\ pc = "copy" /\ pc' = "check" /\ fr = 0 /\ UNCHANGED <<frames, rem_limit>>
           /\ next'[i + 1] = next[i + 1] /\ next[i + 1] \in Nat
           /\ IsHead(mem, Ends, i + 1, 0) => IsHead(mem', Ends', i + 1, 0)
           /\ phase # "all" => p = 0 /\ HeadFirst(i + 1)
<1> DEFINE t == i + 1
<1>1. /\ Bounds /\ Going /\ pc = "copy" /\ pc' = "check" /\ fr = 0
      /\ UNCHANGED <<frames, rem_limit, i>> /\ mem' = [mem EXCEPT ![i] = Space(rem_limit[i])]
  BY EndExport, EndBounds DEF EndGeneration, G!EndGeneration
<1>2. i \in Gens /\ t \in Gens /\ i \in Nat /\ t # i /\ next[t] \in Nat /\ DOMAIN mem = Gens
  BY <1>1, PolicyFacts DEF HeapInv, Objects, Sized
<1>3. next'[t] = next[t]
  BY <1>1, <1>2, EndBounds
<1>4. mem'[t] = mem[t] /\ Ends[t] = next[t] /\ Ends'[t] = next'[t]
  BY <1>1, <1>2 DEF Ends, Owned
<1>5. IsHead(mem, Ends, t, 0) => IsHead(mem', Ends', t, 0)
  BY <1>3, <1>4 DEF IsHead
<1>6. phase # "all" => p = 0
  BY <1>1 DEF ExportBounds, TwoSpaces
<1>7. p = next[t] \/ IsHead(mem, Ends, t, p)
  BY <1>1 DEF HeapInv, Cursors
<1> QED
  BY <1>1, <1>2, <1>3, <1>5, <1>6, <1>7 DEF HeadFirst

\* What is copied starts at the first word, with the root in the end.
LEMMA EndHeaded ==
    ASSUME ExportBounds, HeapInv, EndGeneration, UNCHANGED phase, Rooted
    PROVE  Headed' /\ Rooted'
<1>1. Headed'
  BY EndWords DEF Headed, HeadFirst, Going
<1>2. ~ (fr = 1) /\ pc = "copy"
  BY EndWords
<1>3. phase = "value" => frames[1][1] = Ptr(i + 1, 1)
  BY <1>2 DEF Rooted
<1>4. Rooted'
  BY <1>3, EndWords DEF Rooted
<1> QED
  BY <1>1, <1>4

\* What is left is live.
LEMMA EndLive ==
    ASSUME ExportBounds, HeapInv, EndGeneration, UNCHANGED <<phase, before>>, AllLive
    PROVE  AllLive'
<1>1. Bounds
  BY EndWords
<1> SUFFICES ASSUME phase # "all", NEW u, Settled(mem', Ends', u)
             PROVE  Identity(mem', u) \in DOMAIN before.objs
  BY DEF AllLive
<1>2. Settled(mem, Ends, u) /\ Identity(mem, u) = Identity(mem', u) /\ u[2] # i
  BY <1>1, EndKeeps
<1> QED
  BY <1>2 DEF AllLive

\* A generation whose objects have all been copied, the first one being at its
\* first word, has had every word copied.
LEMMA AllCopied ==
    ASSUME NEW m, NEW e, NEW r, NEW n \in Nat, NEW g \in Gens, Sized(m, e, r), Layout(m, e, n),
           e[g] = 0 \/ IsHead(m, e, g, 0),
           \A h : IsHead(m, e, g, h) => m[g][h] = Forwarded
    PROVE  Copied(m, e, g) = 0 .. e[g] - 1
<1> DEFINE E == e[g]
           C == Copied(m, e, g)
           T == {o \in 0 .. E - 1 : o \notin C}
<1>1. E \in Nat /\ C \subseteq 0 .. E - 1
  BY DEF Sized, Copied
<1>2. ASSUME NEW o \in 0 .. E - 1, NEW h, IsHead(m, e, g, h), o \in h .. h + SizeAt(m, g, h)
      PROVE  o \in C
  BY <1>2 DEF Copied
<1> HIDE DEF C
<1>3. T = {}
  <2>1. SUFFICES ASSUME T # {} PROVE FALSE
    OBVIOUS
  <2>2. T \subseteq Nat
    BY <1>1
  <2>3. PICK o \in T : \A x \in T : o <= x
    BY <2>1, <2>2, LeastNat
  <2>4. o \in Nat /\ o < E /\ o \in 0 .. E - 1 /\ o \notin C
    BY <1>1, <2>3
  <2>5. ~ IsHead(m, e, g, o)
    <3>1. SUFFICES ASSUME IsHead(m, e, g, o) PROVE FALSE
      OBVIOUS
    <3>2. SizeAt(m, g, o) \in Nat
      BY <3>1, HeadFacts
    <3>3. o \in o .. o + SizeAt(m, g, o)
      BY <2>4, <3>2
    <3> QED BY <1>2, <2>4, <3>1, <3>3
  <2>6. o # 0
    BY <2>4, <2>5
  <2>7. o - 1 \in 0 .. E - 1 /\ o - 1 \in Nat /\ ~ (o <= o - 1)
    BY <1>1, <2>4, <2>6
  <2>8. o - 1 \in C
    BY <2>3, <2>7
  <2>9. PICK h : IsHead(m, e, g, h) /\ o - 1 \in h .. h + SizeAt(m, g, h)
    BY <2>8 DEF C, Copied
  <2>10. /\ h \in Nat /\ SizeAt(m, g, h) \in Nat
         /\ h + 1 + SizeAt(m, g, h) = E \/ IsHead(m, e, g, h + 1 + SizeAt(m, g, h))
    BY <2>9, HeadFacts DEF Layout
  <2>11. o \notin h .. h + SizeAt(m, g, h)
    BY <1>2, <2>4, <2>9
  <2>12. o = h + 1 + SizeAt(m, g, h)
    <3> DEFINE z == SizeAt(m, g, h)
    <3>1. z \in Nat /\ h \in Nat /\ o \in Nat /\ o - 1 \in h .. h + z /\ o \notin h .. h + z
      BY <2>4, <2>9, <2>10, <2>11
    <3> HIDE DEF z
    <3>2. o = h + 1 + z
      BY <3>1
    <3> QED BY <3>2 DEF z
  <2> QED BY <2>4, <2>5, <2>10, <2>12
<1> QED
  BY <1>1, <1>3 DEF C

\* What fake_sp holds is live, so all of it has been copied into value_sp.
LEMMA EndFilled ==
    ASSUME ExportBounds, HeapInv, HeapInv', EndGeneration, UNCHANGED <<phase, before>>,
           Graph(mem', frames') = before, AllLive, Headed
    PROVE  Filled'
<1> DEFINE t == i + 1
<1>1. /\ Bounds /\ Going /\ i' = i /\ i \in Gens /\ t \in Gens /\ pc' = "check"
      /\ UNCHANGED rem_limit /\ next'[t] = next[t] /\ next[t] \in Nat
      /\ phase # "all" => p = 0
  BY EndWords
<1>2. ~ Over'
  BY <1>1 DEF Over
<1> SUFFICES ASSUME phase = "value" PROVE next[t] = rem_limit[t]
  BY <1>1, <1>2 DEF Filled
<1>3. rem_limit[t] = next[i] /\ p = 0 /\ HeadFirst(i)
  BY <1>1 DEF ExportBounds, TwoSpaces, Headed
<1>4. Readable(mem, Ends, rem_limit, fresh, i) /\ Counted /\ Ends[i] = next[i] /\ next[i] \in Nat
  BY <1>1, ReadableNow, EndsFacts, PolicyFacts DEF HeapInv, Source
<1>5. ASSUME NEW h, IsHead(mem, Ends, i, h), mem[i][h] # Forwarded PROVE FALSE
  <2> DEFINE v == Ptr(i, h + 1)
  <2>1. h \in Nat
    BY <1>1, <1>4, <1>5 DEF IsHead
  <2>2. v[2] = i /\ v[3] = h + 1 /\ v[3] - 1 = h /\ v[3] \in Nat /\ IntoHeap(v) /\ v = Ptr(v[2], v[3])
    BY <2>1 DEF Ptr, IntoHeap
  <2> HIDE DEF v
  <2>3. Settled(mem, Ends, v)
    BY <1>5, <2>2 DEF Settled, IsObj, HeaderIn
  <2>4. Identity(mem, v) \in DOMAIN before.objs
    BY <2>3 DEF AllLive
  <2>5. Readable(mem', Ends', rem_limit', fresh', Source') /\ Roots(mem', Ends', frames')
    BY ReadableThen
  <2>6. PICK u \in LivePtrs(mem', frames') :
           Settled(mem', Ends', u) /\ Identity(mem', u) = Identity(mem, v)
    BY <2>4, <2>5, LiveIdentities
  <2>7. Settled(mem, Ends, u) /\ Identity(mem, u) = Identity(mem', u) /\ u[2] # i
    BY <1>1, <2>6, EndKeeps
  <2>8. u = v
    BY <1>4, <2>3, <2>6, <2>7, Identities
  <2> QED BY <2>2, <2>7, <2>8
<1>6. Copied(mem, Ends, i) = 0 .. next[i] - 1
  BY <1>1, <1>3, <1>4, <1>5, AllCopied DEF HeadFirst, Readable
<1>7. Cardinality(Copied(mem, Ends, i)) = next[i]
  <2> DEFINE n == next[i]
  <2>1. n \in Nat
    BY <1>4
  <2> HIDE DEF n
  <2>2. Cardinality(0 .. n - 1) = n
    <3>1. Cardinality(0 .. n - 1) = IF 0 > n - 1 THEN 0 ELSE (n - 1) - 0 + 1
      BY <2>1, FS_Interval
    <3> QED BY <2>1, <3>1
  <2> QED BY <1>6, <2>2 DEF n
<1>8. next[i] = next[t] - 0
  BY <1>1, <1>3, <1>4, <1>7 DEF Counted
<1> QED
  BY <1>1, <1>3, <1>8

-----------------------------------------------------------------------------
(* The export keeps the graph, and leaves nothing but it *)

\* What holds while export_heap goes on.
Kept ==
    /\ HeapInv /\ ExportBounds
    /\ Graph(mem, frames) = before
    /\ Rooted /\ AllLive /\ Headed /\ Filled

ExportInv ==
    /\ phase = "none" => GP!IInv /\ HeapInv
    /\ Exporting => Kept

\* A step of a collection keeps it.
LEMMA RoundKept ==
    ASSUME Kept, InRound, UNCHANGED <<phase, before>>
    PROVE  Kept'
<1>1. HeapInv /\ ExportBounds /\ Graph(mem, frames) = before /\ Rooted /\ AllLive /\ Headed
  BY DEF Kept
<1>2. ExportBounds' /\ Bounds /\ Going'
  BY <1>1, RoundExport
<1>3. HeapInv'
  BY <1>1, <1>2, ForwardEntryInv, RemsetDoneInv, ForwardRootInv, ScanFieldInv, ScanNextInv DEF InRound
<1>4. Graph(mem', frames') = Graph(mem, frames)
  <2>1. RemsetDone \/ ScanNext => mem' = mem /\ frames' = frames
    BY DEF RemsetDone, ScanNext
  <2> QED BY <1>1, <1>2, <1>3, <2>1, ForwardEntryGraph, ForwardRootGraph, ScanFieldGraph DEF InRound
<1>5. Rooted' /\ AllLive' /\ Headed'
  BY <1>1, <1>3, RoundRooted, RoundLive, RoundHeaded
<1>6. Filled'
  BY <1>2 DEF Filled, Over, Going
<1> QED
  BY <1>1, <1>2, <1>3, <1>4, <1>5, <1>6 DEF Kept

\* So does the end of one.
LEMMA EndKept ==
    ASSUME Kept, EndGeneration, UNCHANGED <<phase, before>>
    PROVE  Kept'
<1>1. HeapInv /\ ExportBounds /\ Graph(mem, frames) = before /\ Rooted /\ AllLive /\ Headed
  BY DEF Kept
<1>2. ExportBounds' /\ Bounds /\ Bounds'
  BY <1>1, EndExport
<1>3. HeapInv'
  BY <1>1, <1>2, EndGenerationInv
<1>4. Graph(mem', frames') = before
  BY <1>1, <1>2, <1>3, EndGenerationGraph
<1>5. Rooted' /\ Headed' /\ AllLive'
  BY <1>1, EndHeaded, EndLive
<1>6. Filled'
  BY <1>1, <1>3, <1>4, EndFilled
<1> QED
  BY <1>1, <1>2, <1>3, <1>4, <1>5, <1>6 DEF Kept

\* And the beginning of one, into the next generation.
LEMMA NextKept ==
    ASSUME Kept, ToNextGeneration, pc' \notin G!Aborts
    PROVE  Kept'
<1>1. HeapInv /\ ExportBounds /\ Graph(mem, frames) = before /\ Rooted
  BY DEF Kept
<1>2. ExportBounds' /\ RoundBegins /\ Bounds /\ phase = "all"
  BY <1>1, NextStarts
<1>3. HeapInv'
  BY <1>1, <1>2, RoundInv
<1>4. Graph(mem', frames') = Graph(mem, frames)
  BY <1>1, <1>2, <1>3, RoundGraph
<1>5. UNCHANGED <<phase, before, frames>>
  BY DEF ToNextGeneration
<1>6. Rooted' /\ AllLive' /\ Headed' /\ Filled'
  BY <1>1, <1>2, <1>5 DEF Rooted, AllLive, Headed, Filled, Over
<1> QED
  BY <1>1, <1>2, <1>3, <1>4, <1>5, <1>6 DEF Kept

\* No word in use changes when a generation is created.
LEMMA BeginWords ==
    ASSUME RoundBegins
    PROVE  SameWords(mem, mem', Ends) /\ Ends' = Ends
<1> DEFINE t == i + 1
<1>1. /\ Ends' = Ends /\ \A g \in Gens : g # t => mem'[g] = mem[g]
      /\ mem' = mem \/ Ends[t] = 0
  BY DEF RoundBegins
<1>2. ASSUME NEW g \in Gens, NEW o \in 0 .. Ends[g] - 1 PROVE mem'[g][o] = mem[g][o]
  <2>1. g # t \/ Ends[t] # 0
    OBVIOUS
  <2> QED BY <1>1, <2>1
<1> QED
  BY <1>1, <1>2 DEF SameWords

\* Or into a new space, where nothing is yet.
LEMMA SpaceKept ==
    ASSUME Kept, NEW ph, ToNewSpace(ph), pc' \notin G!Aborts,
           (phase = "all" /\ ph = "fake") \/ (phase = "fake" /\ ph = "value")
    PROVE  Kept'
<1>1. HeapInv /\ ExportBounds /\ Graph(mem, frames) = before /\ Rooted /\ AllLive /\ Headed
  BY DEF Kept
<1>2. ExportBounds' /\ RoundBegins /\ next'[i + 1] = 0 /\ phase' = ph
  BY <1>1, SpaceStarts
<1>3. pc = "level" /\ i + 1 \notin created /\ pc' = "remset" /\ UNCHANGED <<i, frames, before>>
      /\ next' = [next EXCEPT ![i + 1] = 0]
  BY <1>2 DEF ToNewSpace, RoundBegins, G!Aborts
<1>4. Bounds /\ ~ Going /\ Going'
  BY <1>1, <1>3 DEF ExportBounds, Over, Going
<1>5. HeapInv'
  BY <1>1, <1>2, <1>4, RoundInv
<1>6. Graph(mem', frames') = Graph(mem, frames)
  BY <1>1, <1>2, <1>5, RoundGraph
<1>7. SameWords(mem, mem', Ends) /\ Ends' = Ends
  BY <1>2, BeginWords
<1>8. Rooted' /\ Filled'
  BY <1>1, <1>3 DEF Rooted, Filled, Over
<1>9. Ends = [g \in Gens |-> next[g]] /\ i \in Gens /\ i \in Nat /\ \A g \in Gens : next[g] \in Nat
  BY <1>3, <1>4, PolicyFacts DEF Ends, Owned
<1>10. AllLive'
  <2> SUFFICES ASSUME NEW u, Settled(mem', Ends', u)
               PROVE  Identity(mem', u) \in DOMAIN before.objs \/ (ph = "fake" /\ u[2] = i)
    BY <1>2, <1>3, <1>4 DEF AllLive
  <2>1. CASE ph = "fake"
    <3> DEFINE g == u[2]
    <3>1. g \in Gens /\ next[g] # 0
      BY <1>7, <1>9 DEF Settled, IsObj, IsHead
    <3>2. ~ (g < i) /\ g \in created
      BY <1>4, <3>1, PolicyFacts
    <3>3. PICK m \in Gens : created = 0 .. m
      BY <1>1 DEF ExportBounds, Places, Spaces
    <3>4. g = i
      <4>1. g \in Nat /\ m \in Nat /\ g <= m
        BY <3>1, <3>2, <3>3 DEF Gens
      <4>2. ~ (i + 1 <= m)
        BY <1>3, <1>9, <3>3, <4>1
      <4> HIDE DEF g
      <4> QED BY <1>9, <3>2, <4>1, <4>2
    <3> QED BY <2>1, <3>4
  <2>2. CASE ph = "value"
    <3>1. ObjectsKept(mem, Ends, mem', Ends')
      BY <1>1, <1>7, ReadableNow, SameWordsAlike DEF Alike
    <3>2. PICK v : Settled(mem, Ends, v) /\ Identity(mem, v) = Identity(mem', u)
      BY <3>1 DEF ObjectsKept
    <3>3. phase = "fake"
      BY <2>2
    <3> QED BY <1>1, <1>4, <3>2, <3>3 DEF AllLive
  <2> QED BY <2>1, <2>2
<1>11. Headed'
  <2> SUFFICES ASSUME ph = "value" PROVE next'[i] = 0 \/ IsHead(mem', Ends', i, 0)
    BY <1>2, <1>3 DEF Headed, HeadFirst
  <2>1. next[i] = 0 \/ IsHead(mem, Ends, i, 0)
    BY <1>1, <1>3 DEF Headed, HeadFirst
  <2>2. next'[i] = next[i] /\ mem'[i] = mem[i]
    <3>1. i # i + 1
      BY <1>9
    <3> QED BY <1>2, <1>3, <1>4, <1>9, <3>1, PolicyFacts DEF RoundBegins
  <2> QED BY <1>7, <2>1, <2>2 DEF IsHead
<1> QED
  BY <1>1, <1>2, <1>3, <1>5, <1>6, <1>8, <1>10, <1>11 DEF Kept

\* The collections go on from the generation that the data is in.
LEMMA OnwardKept ==
    ASSUME Kept, Onwards
    PROVE  Kept'
<1>1. /\ HeapInv /\ ExportBounds /\ Graph(mem, frames) = before
      /\ Rooted /\ AllLive /\ Headed /\ Filled
  BY DEF Kept
<1>2. /\ pc = "check" /\ i' = i + 1 /\ pc' = "level"
      /\ UNCHANGED <<created, next, rem_limit, mem, frames, cursors, fresh, phase, before>>
  BY DEF Onwards
<1>3. ExportBounds' /\ ~ Going /\ ~ Going' /\ Ends' = Ends /\ Starts' = Starts
  BY <1>1, OnwardBounds
<1>4. HeapInv'
  <2>1. Roots(mem, Ends, frames')
    BY <1>1, <1>2 DEF HeapInv
  <2> QED BY <1>1, <1>2, <1>3, <2>1, Quiet
<1>5. Rooted'
  BY <1>1, <1>2 DEF Rooted
<1>6. AllLive'
  BY <1>1, <1>2, <1>3 DEF AllLive
<1>7. Headed'
  BY <1>1, <1>2, <1>3 DEF Headed, HeadFirst
<1>8. Filled'
  <2> SUFFICES ASSUME phase = "value"
               PROVE  /\ i + 1 \in Gens /\ next[i + 1] = rem_limit[i + 1]
                      /\ \A g \in Gens : g # i + 1 => next[g] = 0
    BY <1>2 DEF Filled, Over
  <2>1. next[i + 1] = rem_limit[i + 1] /\ Bounds
    BY <1>1, <1>2 DEF Filled, ExportBounds, Over
  <2>2. PICK m \in Gens : created = 0 .. m /\ i + 1 = m
    BY <1>1, <1>2 DEF ExportBounds, Places, Spaces
  <2>3. ASSUME NEW g \in Gens, g # i + 1 PROVE next[g] = 0
    <3>1. i \in Nat /\ g \in Nat
      BY <2>1, PolicyFacts DEF Gens
    <3>2. g < i \/ g = i \/ g \notin created
      BY <2>2, <2>3, <3>1
    <3> QED BY <1>2, <2>1, <3>2, PolicyFacts
  <2> QED BY <2>1, <2>2, <2>3
<1> QED
  BY <1>1, <1>2, <1>3, <1>4, <1>5, <1>6, <1>7, <1>8 DEF Kept

\* The result is given out.
LEMMA ResultKept ==
    ASSUME Kept, Result
    PROVE  Kept'
<1>1. /\ HeapInv /\ ExportBounds /\ Graph(mem, frames) = before
      /\ Rooted /\ AllLive /\ Filled
  BY DEF Kept
<1>2. /\ pc = "level" /\ pc' = "exported" /\ phase = "value"
      /\ UNCHANGED <<next, rem_limit, i, mem, frames, cursors, fresh, phase, before>>
  BY DEF Result
<1>3. ExportBounds' /\ ~ Going /\ ~ Going' /\ Ends' = Ends /\ Starts' = Starts
  BY <1>1, ResultBounds
<1>4. HeapInv'
  <2>1. Roots(mem, Ends, frames')
    BY <1>1, <1>2 DEF HeapInv
  <2> QED BY <1>1, <1>2, <1>3, <2>1, Quiet
<1>5. Rooted'
  BY <1>1, <1>2 DEF Rooted
<1>6. AllLive'
  BY <1>1, <1>2, <1>3 DEF AllLive
<1>7. Headed'
  BY <1>2, <1>3 DEF Headed
<1>8. Filled'
  BY <1>1, <1>2 DEF Filled, Over
<1> QED
  BY <1>1, <1>2, <1>3, <1>4, <1>5, <1>6, <1>7, <1>8 DEF Kept

\* A frame of one value is a shadow stack.
LEMMA OneFrame ==
    ASSUME NEW m, NEW e, NEW r, Sized(m, e, r), NEW v, IsVal(m, e, v),
           NEW st, st = <<NewFrame(v)>>
    PROVE  Roots(m, e, st) /\ Len(st) = 1 /\ st[1][1] = v
<1>1. v \in Values /\ Unboxed \in Values
  BY RootValues DEF Values
<1>2. PICK a : a = NewFrame(v)
  OBVIOUS
<1>3. a \in [Slots -> Values] /\ a[1] = v /\ a[2] = Unboxed
  BY <1>1, <1>2 DEF NewFrame, Slots
<1>4. st \in Seq([Slots -> Values]) /\ Len(st) = 1 /\ DOMAIN st = {1} /\ st[1] = a
  BY <1>2, <1>3
<1>5. \A l \in Slots : IsVal(m, e, a[l])
  BY <1>3 DEF Slots, IsVal
<1> QED
  BY <1>3, <1>4, <1>5 DEF Roots

\* export_heap is called.
LEMMA ExportKept ==
    ASSUME GP!IInv, HeapInv, NEW v \in Live, Export(v)
    PROVE  Kept' /\ phase' = "all"
<1>1. /\ pc = "mutator" /\ IntoHeap(v) /\ pc' = "level" /\ phase' = "all"
      /\ frames' = <<NewFrame(v)>> /\ before' = Graph(mem, <<NewFrame(v)>>)
      /\ UNCHANGED <<mem, rem_limit, fresh, cursors>>
  BY DEF Export
<1>2. ExportBounds' /\ ~ Going /\ ~ Going' /\ Ends' = Ends /\ Starts' = Starts
  BY ExportStarts
<1>3. IsVal(mem, Ends, v) /\ Sized(mem, Ends, rem_limit)
  BY <1>2, BoundsHold, MutatorFacts DEF HeapInv, Objects
<1>4. Roots(mem, Ends, frames') /\ Len(frames') = 1 /\ frames'[1][1] = v
  BY <1>1, <1>3, OneFrame
<1>5. HeapInv'
  BY <1>1, <1>2, <1>4, Quiet
<1>6. Graph(mem', frames') = before'
  BY <1>1
<1>7. Rooted' /\ AllLive' /\ Headed' /\ Filled'
  BY <1>1, <1>4 DEF Rooted, AllLive, Headed, Filled, Over
<1> QED
  BY <1>1, <1>2, <1>5, <1>6, <1>7 DEF Kept

\* The stuttering steps.
LEMMA StutterKept ==
    ASSUME Kept, UNCHANGED xvars
    PROVE  Kept'
<1>1. /\ UNCHANGED <<created, next, limit, rem_limit, alloc, ti_limit, nalloc, pc, i, p, q,
                     mem, frames, fr, s, j, fresh, phase, before>>
      /\ UNCHANGED vars
  BY DEF xvars, vars, policy, cursors
<1>2. HeapInv'
  BY <1>1, StutterInv DEF Kept
<1>3. Ends' = Ends /\ Going' = Going /\ Over' = Over /\ OnlySkips' = OnlySkips
  BY <1>1 DEF Ends, Owned, Going, Over, OnlySkips
<1>4. Bounds' = Bounds
  BY <1>1, <1>3 DEF Bounds, GP!Uncopied
<1>5. ExportBounds'
  BY <1>1, <1>3, <1>4 DEF Kept, ExportBounds, Places, Spaces, Rooms, TwoSpaces
<1>6. Rooted' /\ AllLive' /\ Headed' /\ Filled'
  BY <1>1, <1>3 DEF Kept, Rooted, AllLive, Headed, HeadFirst, Filled
<1>7. Graph(mem', frames') = before'
  BY <1>1 DEF Kept
<1> QED
  BY <1>2, <1>5, <1>6, <1>7 DEF Kept

\* Where the program is when a step is taken.
LEMMA StepAt ==
    /\ Mutator => pc = "mutator"
    /\ InRound => pc \in {"remset", "copy"}
    /\ EndGeneration => pc = "copy"
    /\ InCollection => phase = "none" \/ InRound \/ EndGeneration
    /\ Exporter => pc = "level" \/ (pc = "check" /\ phase # "none")
<1>1. ASSUME Mutator PROVE pc = "mutator"
  <2>1. \A k, fields, scan : New(k, fields, scan) => pc = "mutator"
    BY DEF New, G!Allocate
  <2>2. \A k, v, f : Load(k, v, f) => pc = "mutator"
    BY DEF Load
  <2>3. \A v, f, val : Store(v, f, val) => pc = "mutator"
    BY DEF Store
  <2>4. \A k, v : /\ Drop(k) => pc = "mutator"
                  /\ Call(v) => pc = "mutator"
                  /\ Return(k, v) => pc = "mutator"
    BY DEF Drop, Call, Return
  <2>5. \A n : GcCall(n) => pc = "mutator"
    BY DEF GcCall, G!GcCall
  <2> QED BY <1>1, <2>1, <2>2, <2>3, <2>4, <2>5 DEF Mutator
<1>2. InRound => pc \in {"remset", "copy"}
  BY DEF InRound, ForwardEntry, RemsetDone, G!RemsetDone, ForwardRoot, ScanField, ScanNext, Scanning
<1>3. EndGeneration => pc = "copy"
  BY DEF EndGeneration
<1>4. InCollection => phase = "none" \/ InRound \/ EndGeneration
  BY DEF InCollection, InRound
<1>5. Exporter => pc = "level" \/ (pc = "check" /\ phase # "none")
  BY DEF Exporter, ToNextGeneration, ToFake, ToValue, ToNewSpace, Onwards, Result
<1> QED
  BY <1>1, <1>2, <1>3, <1>4, <1>5

\* No step is taken once the program has stopped.
LEMMA StoppedKept ==
    ASSUME pc \in G!Aborts, phase # "none", [ExportNext]_xvars
    PROVE  pc' = pc /\ phase' = phase
<1>1. pc \notin {"mutator", "remset", "copy", "check", "level", "exported"}
  BY DEF G!Aborts
<1>2. ~ Mutator /\ ~ InCollection /\ ~ Exporter
  BY <1>1, StepAt
<1>3. \A v : ~ Export(v)
  BY <1>1 DEF Export
<1>4. (Halted /\ UNCHANGED <<phase, before>>) \/ UNCHANGED xvars
  BY <1>2, <1>3 DEF ExportNext, Exported
<1> QED
  BY <1>4 DEF Halted, xvars, vars, policy

\* A step before export_heap is called, or its call.
LEMMA BeforeStep ==
    ASSUME StoresYoung, ExportInv, phase = "none", [ExportNext]_xvars
    PROVE  ExportInv'
<1>1. GP!IInv /\ HeapInv
  BY DEF ExportInv
<1>2. pc \notin {"level", "exported"}
  BY <1>1 DEF GP!IInv, GP!TypeOK, GP!Collecting, GP!Aborts
<1>3. CASE \E v \in Live : Export(v)
  BY <1>1, <1>3, ExportKept DEF ExportInv
<1>4. CASE [Next]_vars /\ UNCHANGED <<phase, before>>
  <2>1. GP!IInv' /\ HeapInv'
    BY <1>1, <1>4, StepInv
  <2> QED BY <1>4, <2>1 DEF ExportInv, Exporting
<1>5. ~ Exporter /\ ~ Exported
  BY <1>2, StepAt DEF Exported
<1>6. InCollection => Collector
  BY DEF InCollection, Collector
<1>7. (Mutator \/ InCollection \/ Halted) => Next
  BY <1>6 DEF Next
<1>8. UNCHANGED xvars => UNCHANGED vars /\ UNCHANGED <<phase, before>>
  BY DEF xvars
<1> QED
  BY <1>3, <1>4, <1>5, <1>7, <1>8 DEF ExportNext

\* A step of export_heap.
LEMMA WhileStep ==
    ASSUME Exporting, Kept, [ExportNext]_xvars
    PROVE  ExportInv'
<1>1. phase # "none" /\ pc \in {"level", "remset", "copy", "check", "exported"}
  BY DEF Exporting, Kept, ExportBounds, Places
<1>2. ~ Mutator /\ ~ Halted /\ \A v : ~ Export(v)
  BY <1>1, StepAt DEF Halted, Export, G!Aborts
<1>3. CASE InCollection /\ UNCHANGED <<phase, before>>
  <2>1. InRound \/ EndGeneration
    BY <1>1, <1>3, StepAt
  <2>2. Kept'
    BY <1>3, <2>1, RoundKept, EndKept
  <2> QED BY <1>1, <1>3, <2>2 DEF ExportInv
<1>4. CASE Exporter
  <2>1. phase' # "none"
    BY <1>1, <1>4 DEF Exporter, ToNextGeneration, ToFake, ToValue, ToNewSpace, Onwards, Result
  <2>2. ASSUME pc' \notin G!Aborts PROVE Kept'
    <3>1. ASSUME ToNextGeneration PROVE Kept'
      BY <2>2, <3>1, NextKept
    <3>2. ASSUME ToFake PROVE Kept'
      BY <2>2, <3>2, SpaceKept DEF ToFake
    <3>3. ASSUME ToValue PROVE Kept'
      BY <2>2, <3>3, SpaceKept DEF ToValue
    <3>4. ASSUME Onwards \/ Result PROVE Kept'
      BY <3>4, OnwardKept, ResultKept
    <3> QED BY <1>4, <3>1, <3>2, <3>3, <3>4 DEF Exporter
  <2> QED BY <2>1, <2>2 DEF ExportInv, Exporting
<1>5. CASE UNCHANGED xvars
  <2>1. Kept'
    BY <1>5, StutterKept
  <2>2. phase' = phase
    BY <1>5 DEF xvars
  <2> QED BY <1>1, <2>1, <2>2 DEF ExportInv
<1> QED
  BY <1>2, <1>3, <1>4, <1>5 DEF ExportNext, Exported

\* Every step keeps the invariant.
LEMMA ExportStep ==
    ASSUME StoresYoung, ExportInv, [ExportNext]_xvars
    PROVE  ExportInv'
<1>1. CASE phase = "none"
  BY <1>1, BeforeStep
<1>2. CASE phase # "none" /\ pc \in G!Aborts
  BY <1>2, StoppedKept DEF ExportInv, Exporting
<1>3. CASE Exporting
  BY <1>3, WhileStep DEF ExportInv
<1> QED
  BY <1>1, <1>2, <1>3 DEF Exporting

\* What is live when the export is done is in value_sp.
LEMMA ExportedAlone ==
    ASSUME Kept, pc = "exported", NEW v \in LivePtrs(mem, frames)
    PROVE  v[2] = i
<1>1. Over
  BY DEF Kept, ExportBounds, Places, Over
<1>2. \A g \in Gens : g # i => next[g] = 0
  BY <1>1 DEF Kept, Filled
<1>3. Settled(mem, Ends, v)
  BY ReadableNow, LiveSettled DEF Kept
<1>4. v[2] \in Gens /\ Ends[v[2]] # 0
  BY <1>3 DEF Settled, IsObj, IsHead
<1>5. Ends[v[2]] = next[v[2]]
  BY <1>4 DEF Ends, Owned
<1> QED
  BY <1>2, <1>4, <1>5

\* What export_heap gives out is a copy of what its argument reaches, and it is
\* the graph of the root at every step of the two collections before: compact,
\* full, the root first, and closed.
THEOREM ExportIsACopy == StoresYoung => (ExportSpec => []ExportIsCopy)
<1> SUFFICES ASSUME StoresYoung PROVE ExportSpec => []ExportIsCopy
  OBVIOUS
<1>1. ExportInit => ExportInv
  BY PolicyInit, HeapInitInv DEF ExportInit, ExportInv, Exporting
<1>2. ExportInv /\ [ExportNext]_xvars => ExportInv'
  BY ExportStep
<1>3. ExportInv => ExportIsCopy
  <2> SUFFICES ASSUME ExportInv PROVE ExportIsCopy
    OBVIOUS
  <2>1. phase # "none" /\ pc \notin G!Aborts => Kept
    BY DEF ExportInv, Exporting
  <2>2. ASSUME pc = "exported" PROVE Kept /\ phase = "value"
    <3>1. phase # "none"
      BY <2>2 DEF ExportInv, GP!IInv, GP!TypeOK, GP!Collecting, GP!Aborts
    <3>2. pc \notin G!Aborts
      BY <2>2 DEF G!Aborts
    <3> QED BY <2>1, <2>2, <3>1, <3>2 DEF Kept, ExportBounds, Places
  <2>3. ASSUME pc = "exported" PROVE frames[1][1] = Ptr(i, 1) /\ next[i] = rem_limit[i]
    BY <2>2, <2>3 DEF Kept, Rooted, Filled, Over
  <2>4. ASSUME pc = "exported" PROVE \A v \in LivePtrs(mem, frames) : v[2] = i
    BY <2>2, <2>4, ExportedAlone
  <2> QED BY <2>1, <2>3, <2>4 DEF ExportIsCopy, Kept
<1> QED
  BY <1>1, <1>2, <1>3, PTL DEF ExportSpec
=============================================================================
