------------------------- MODULE ClightStack_proofs -------------------------
(* The generated code keeps its side of the contract of the collector, for   *)
(* every program, nursery and depth of the C stack: what it holds across a   *)
(* collection is in the slots of the frames that are linked, and nothing is  *)
(* allocated that was not asked for.  First, what the analyses of AnfCode    *)
(* compute: the recursive functions satisfy their equations, and the lists   *)
(* that are pushed are the sets that they come from.                         *)
(*                                                                           *)
(* Induction is by least counterexamples: the library states that < is well  *)
(* founded on Nat, and that a set then has a minimal element, with no        *)
(* operator as a parameter.                                                  *)
EXTENDS ClightStack, WellFoundedInduction, FiniteSetTheorems, SequenceTheorems, TLAPS

-----------------------------------------------------------------------------
(* Induction *)

\* Every set of naturals that is not empty has a least element.
LEMMA Least ==
    ASSUME NEW T, T \subseteq Nat, T # {}
    PROVE  \E n \in T : \A m \in T : n <= m
<1> DEFINE R == OpToRel(<, Nat)
<1>1. IsWellFoundedOn(R, Nat)
  BY NatLessThanWellFounded
<1>2. \A x, y \in Nat : <<x, y>> \in R <=> x < y
  BY DEF OpToRel
<1> HIDE DEF R
<1>3. PICK n \in T : \A m \in T : ~ (<<m, n>> \in R)
  BY <1>1, WFMin
<1>4. ASSUME NEW m \in T PROVE n <= m
  <2>1. m \in Nat /\ n \in Nat
    OBVIOUS
  <2>2. ~ (m < n)
    BY <1>2, <1>3, <2>1
  <2> QED BY <2>1, <2>2
<1> QED
  BY <1>4

\* step[e] gives the value at e from a function that has the values below e.
Recursive(E, V, step) ==
    /\ E \subseteq Nat
    /\ V # {}
    /\ step \in [E -> [[E -> V] -> V]]
    /\ \A e \in E : \A f, g \in [E -> V] :
          (\A d \in E : d < e => f[d] = g[d]) => step[e][f] = step[e][g]

Solution(h, E, V, step) == h \in [E -> V] /\ h = [e \in E |-> step[e][h]]

\* A function on naturals, each value of which depends on the values below it,
\* exists.
LEMMA Recursion ==
    ASSUME NEW E, NEW V, NEW step, Recursive(E, V, step)
    PROVE  \E h : Solution(h, E, V, step)
<1> USE DEF Recursive, Solution
<1> PICK v0 \in V : TRUE
  OBVIOUS
<1> DEFINE Good(n, h) == \A e \in E : e < n => h[e] = step[e][h]
<1>1. ASSUME NEW n \in Nat, NEW f \in [E -> V], NEW g \in [E -> V], Good(n, f), Good(n, g),
             NEW e \in E, e < n
      PROVE  f[e] = g[e]
  <2> DEFINE T == {d \in E : d < n /\ f[d] # g[d]}
  <2>1. SUFFICES ASSUME T # {} PROVE FALSE
    BY <1>1
  <2>2. PICK d \in T : \A c \in T : d <= c
    BY <2>1, Least, T \subseteq Nat
  <2>3. \A c \in E : c < d => f[c] = g[c]
    BY <2>2, n \in Nat
  <2>4. step[d][f] = step[d][g]
    BY <2>2, <2>3
  <2> QED
    BY <1>1, <2>2, <2>4
<1>2. \A n \in Nat : \E h \in [E -> V] : Good(n, h)
  <2> DEFINE T == {n \in Nat : ~ \E h \in [E -> V] : Good(n, h)}
  <2>1. SUFFICES ASSUME T # {} PROVE FALSE
    OBVIOUS
  <2>2. PICK n \in T : \A m \in T : n <= m
    BY <2>1, Least, T \subseteq Nat
  <2>3. CASE n = 0
    <3>1. Good(0, [e \in E |-> v0]) /\ [e \in E |-> v0] \in [E -> V]
      OBVIOUS
    <3> QED BY <2>2, <2>3, <3>1
  <2>4. CASE n # 0
    <3>1. n - 1 \in Nat /\ ~ (n <= n - 1)
      BY <2>2, <2>4
    <3>2. PICK h \in [E -> V] : Good(n - 1, h)
      BY <2>2, <3>1
    <3> DEFINE g == [e \in E |-> IF e = n - 1 THEN step[e][h] ELSE h[e]]
    <3>3. g \in [E -> V]
      OBVIOUS
    <3>4. ASSUME NEW e \in E, e < n PROVE g[e] = step[e][g]
      <4>1. \A d \in E : d < e => h[d] = g[d]
        BY <3>4, <2>2
      <4>2. step[e][h] = step[e][g]
        BY <3>3, <4>1
      <4>3. g[e] = step[e][h]
        BY <3>2, <3>4, <2>2
      <4> QED BY <4>2, <4>3
    <3>5. Good(n, g)
      BY <3>4
    <3> QED BY <2>2, <3>3, <3>5
  <2> QED
    BY <2>3, <2>4
<1> DEFINE H(n) == CHOOSE h \in [E -> V] : Good(n, h)
<1>3. \A n \in Nat : H(n) \in [E -> V] /\ Good(n, H(n))
  BY <1>2
<1> DEFINE F == [e \in E |-> H(e + 1)[e]]
<1> HIDE DEF H
<1>4. F \in [E -> V]
  BY <1>3
<1>5. ASSUME NEW e \in E PROVE F[e] = step[e][F]
  <2>1. ASSUME NEW d \in E, d < e PROVE F[d] = H(e + 1)[d]
    <3>1. d + 1 \in Nat /\ e + 1 \in Nat /\ d < d + 1
      OBVIOUS
    <3>2. H(d + 1) \in [E -> V] /\ H(e + 1) \in [E -> V]
      BY <1>3, <3>1
    <3>3. Good(d + 1, H(d + 1)) /\ Good(e + 1, H(e + 1))
      BY <1>3, <3>1
    <3>4. Good(d + 1, H(e + 1))
      BY <2>1, <3>3
    <3>5. H(d + 1)[d] = H(e + 1)[d]
      BY <1>1, <3>1, <3>2, <3>3, <3>4
    <3> QED BY <3>5
  <2>2. step[e][F] = step[e][H(e + 1)]
    BY <1>3, <1>4, <2>1
  <2>3. H(e + 1)[e] = step[e][H(e + 1)]
    BY <1>3
  <2> QED BY <2>2, <2>3
<1> QED
  BY <1>4, <1>5

\* Two functions are equal if each value follows from those below it.
LEMMA SameValues ==
    ASSUME NEW E, E \subseteq Nat, NEW f, NEW g, DOMAIN f = E, DOMAIN g = E,
           f = [e \in E |-> f[e]], g = [e \in E |-> g[e]],
           \A e \in E : (\A d \in E : d < e => f[d] = g[d]) => f[e] = g[e]
    PROVE  f = g
<1> DEFINE T == {e \in E : f[e] # g[e]}
<1>1. SUFFICES ASSUME T # {} PROVE FALSE
  OBVIOUS
<1>2. PICK e \in T : \A d \in T : e <= d
  BY <1>1, Least, T \subseteq Nat
<1>3. \A d \in E : d < e => f[d] = g[d]
  BY <1>2, e \in Nat
<1> QED
  BY <1>2, <1>3

\* A finite set of naturals that is not empty has a greatest element.
LEMMA Greatest ==
    ASSUME NEW S, S \subseteq Nat, IsFiniteSet(S), S # {}
    PROVE  \E n \in S : \A m \in S : m <= n
<1> DEFINE Bad(A) == A # {} /\ ~ \E n \in A : \A m \in A : m <= n
           T == {k \in Nat : \E A \in SUBSET S : Bad(A) /\ Cardinality(A) = k}
<1>1. \A A \in SUBSET S : IsFiniteSet(A) /\ Cardinality(A) \in Nat
  BY FS_Subset, FS_CardinalityType
<1>2. SUFFICES ASSUME T # {} PROVE FALSE
  BY <1>1
<1>3. PICK k \in T : \A l \in T : k <= l
  BY <1>2, Least, T \subseteq Nat
<1>4. PICK A \in SUBSET S : Bad(A) /\ Cardinality(A) = k
  BY <1>3
<1>5. PICK x \in A : TRUE
  BY <1>4
<1> DEFINE B == A \ {x}
<1>6. Cardinality(B) = k - 1 /\ Cardinality(B) \in Nat /\ B \in SUBSET S
  BY <1>1, <1>4, <1>5, FS_RemoveElement
<1>7. ~ Bad(B)
  BY <1>3, <1>6
<1>8. CASE B = {}
  BY <1>4, <1>5, <1>8
<1>9. CASE B # {}
  <2>1. PICK n \in B : \A m \in B : m <= n
    BY <1>7, <1>9
  <2>2. n \in Nat /\ x \in Nat
    OBVIOUS
  <2>3. CASE x <= n
    BY <1>4, <2>1, <2>3
  <2>4. CASE n <= x
    <3>1. \A m \in A : m <= x
      BY <2>1, <2>2, <2>4
    <3> QED BY <1>4, <1>5, <3>1
  <2> QED
    BY <2>2, <2>3, <2>4
<1> QED
  BY <1>8, <1>9

-----------------------------------------------------------------------------
(* Lists of variables *)

\* PS.elements: a list without repetitions of the elements of the set.
LEMMA ElementsOfSet ==
    ASSUME NEW S, S \subseteq Nat, IsFiniteSet(S)
    PROVE  /\ Elements(S) \in Seq(Nat)
           /\ Len(Elements(S)) = Cardinality(S)
           /\ Range(Elements(S)) = S
<1> DEFINE Enum(A, xs) == /\ xs \in [1 .. Cardinality(A) -> A]
                          /\ \A k, l \in DOMAIN xs : k < l => xs[k] < xs[l]
           T == {k \in Nat : \E A \in SUBSET S : Cardinality(A) = k /\ ~ \E xs : Enum(A, xs)}
<1>1. \A A \in SUBSET S : IsFiniteSet(A) /\ Cardinality(A) \in Nat
  BY FS_Subset, FS_CardinalityType
<1>2. \E xs : Enum(S, xs)
  <2>1. SUFFICES ASSUME T # {} PROVE FALSE
    BY <1>1
  <2>2. PICK k \in T : \A l \in T : k <= l
    BY <2>1, Least, T \subseteq Nat
  <2>3. PICK A \in SUBSET S : Cardinality(A) = k /\ ~ \E xs : Enum(A, xs)
    BY <2>2
  <2>4. CASE A = {}
    <3>1. Cardinality(A) = 0
      BY <2>4, FS_EmptySet
    <3>2. Enum(A, [i \in 1 .. 0 |-> 0])
      BY <3>1
    <3> QED BY <2>3, <3>2
  <2>5. CASE A # {}
    <3>1. PICK x \in A : \A m \in A : m <= x
      BY <1>1, <2>5, Greatest
    <3> DEFINE B == A \ {x}
    <3>2. Cardinality(B) = k - 1 /\ Cardinality(B) \in Nat /\ B \in SUBSET S
      BY <1>1, <2>3, <3>1, FS_RemoveElement
    <3>3. PICK ys : Enum(B, ys)
      <4>1. k - 1 \notin T
        BY <2>2
      <4> HIDE DEF Enum
      <4> QED BY <3>2, <4>1
    <3> DEFINE xs == [i \in 1 .. k |-> IF i = k THEN x ELSE ys[i]]
    <3>4. \A i \in 1 .. k : i # k => i \in DOMAIN ys /\ ys[i] \in B
      <4>1. ys \in [1 .. k - 1 -> B]
        BY <3>2, <3>3
      <4>2. k \in Nat
        OBVIOUS
      <4> QED BY <4>1, <4>2
    <3>5. xs \in [1 .. k -> A]
      BY <3>4
    <3>6. ASSUME NEW i \in 1 .. k, NEW j \in 1 .. k, i < j PROVE xs[i] < xs[j]
      <4>1. i # k /\ i \in DOMAIN ys /\ ys[i] \in B /\ xs[i] = ys[i]
        BY <3>4, <3>6
      <4>2. CASE j = k
        <5>1. xs[j] = x /\ ys[i] <= x /\ ys[i] # x /\ ys[i] \in Nat /\ x \in Nat
          BY <3>1, <4>1, <4>2
        <5> QED BY <4>1, <5>1
      <4>3. CASE j # k
        BY <3>3, <3>4, <3>6, <4>1, <4>3
      <4> QED BY <4>2, <4>3
    <3>7. Enum(A, xs)
      BY <2>3, <3>5, <3>6
    <3> QED BY <2>3, <3>7
  <2> QED
    BY <2>4, <2>5
<1> DEFINE xs == Elements(S)
           n == Cardinality(S)
<1>3. Enum(S, xs)
  BY <1>2 DEF Elements
<1> HIDE DEF xs
<1>4. n \in Nat
  BY <1>1
<1>5. xs \in Seq(Nat) /\ Len(xs) = n
  <2>1. xs \in [1 .. n -> Nat]
    BY <1>3
  <2>2. xs \in Seq(Nat)
    BY <1>4, <2>1, SeqDef
  <2> QED BY <1>4, <2>1, <2>2, LenProperties
<1>6. Range(xs) = S
  <2>1. xs \in Injection(1 .. n, S)
    <3>1. xs \in [1 .. n -> S]
      BY <1>3
    <3>2. ASSUME NEW k \in 1 .. n, NEW l \in 1 .. n, xs[k] = xs[l] PROVE k = l
      <4>1. xs[k] \in Nat /\ xs[l] \in Nat
        BY <3>1
      <4>2. ~ (xs[k] < xs[l]) /\ ~ (xs[l] < xs[k])
        BY <3>2, <4>1
      <4>3. ~ (k < l) /\ ~ (l < k)
        BY <1>3, <4>2
      <4> QED BY <1>4, <4>3
    <3> QED BY <3>1, <3>2 DEF Injection, IsInjective
  <2>2. Cardinality(1 .. n) = n
    BY <1>4, FS_Interval
  <2>3. xs \in Surjection(1 .. n, S)
    BY <2>1, <2>2, FS_Injection
  <2>4. DOMAIN xs = 1 .. n /\ \A i \in 1 .. n : xs[i] \in S
    BY <1>3
  <2>5. \A t \in S : \E i \in 1 .. n : xs[i] = t
    BY <2>3 DEF Surjection
  <2> QED BY <2>4, <2>5 DEF Range
<1> QED
  BY <1>5, <1>6 DEF xs

\* The largest number of a finite set is one of them.
LEMMA LargestOfSet ==
    ASSUME NEW S, S \subseteq Nat, IsFiniteSet(S), S # {}
    PROVE  Largest(S) \in S /\ \A m \in S : m <= Largest(S)
BY Greatest DEF Largest

-----------------------------------------------------------------------------
(* The analyses *)

\* Subexpressions come first, and are finitely many.
LEMMA Subexpressions ==
    ASSUME NEW code, Numbered(code)
    PROVE  /\ DOMAIN code \subseteq Nat
           /\ \A e \in DOMAIN code : /\ Subs(code[e]) \subseteq DOMAIN code
                                     /\ \A d \in Subs(code[e]) : d < e
                                     /\ IsFiniteSet(Subs(code[e]))
<1>1. DOMAIN code \subseteq Nat
  BY DEF Numbered
<1>2. \A e \in DOMAIN code : Subs(code[e]) \subseteq DOMAIN code \cap 0 .. e - 1
  BY DEF Numbered
<1>3. ASSUME NEW e \in DOMAIN code PROVE IsFiniteSet(Subs(code[e]))
  <2>1. IsFiniteSet(0 .. e - 1)
    BY <1>1, FS_Interval
  <2> QED BY <1>2, <2>1, FS_Subset
<1> QED
  BY <1>1, <1>2, <1>3

\* The largest of finitely many values, or 0.
LEMMA LargestValue ==
    ASSUME NEW D, IsFiniteSet(D), NEW f, \A d \in D : f[d] \in Nat
    PROVE  LET A == {0} \cup {f[d] : d \in D}
           IN  /\ A \subseteq Nat /\ IsFiniteSet(A)
               /\ Largest(A) \in Nat
               /\ \A d \in D : f[d] <= Largest(A)
<1> DEFINE B == {f[d] : d \in D}
           A == {0} \cup B
<1>1. [d \in D |-> f[d]] \in Surjection(D, B)
  BY DEF Surjection
<1>2. IsFiniteSet(B)
  <2> HIDE DEF B
  <2> QED BY <1>1, FS_Surjection
<1>3. A \subseteq Nat /\ A # {}
  OBVIOUS
<1>4. IsFiniteSet(A)
  <2> HIDE DEF B
  <2> QED BY <1>2, FS_Singleton, FS_Union
<1>5. Largest(A) \in A /\ \A m \in A : m <= Largest(A)
  <2> HIDE DEF A
  <2> QED BY <1>3, <1>4, LargestOfSet
<1> QED
  BY <1>3, <1>4, <1>5

\* exp_fv: what an expression reads, and what the rest of the code reads
\* except what it binds; a finite set of variables.
LEMMA FreeVarsEquation ==
    ASSUME NEW code, Numbered(code)
    PROVE  /\ FreeVars(code) \in [DOMAIN code -> FiniteSubsetsOf(Nat)]
           /\ \A e \in DOMAIN code :
                FreeVars(code)[e] =
                    Range(code[e].ys) \cup
                    ((UNION {FreeVars(code)[d] : d \in Subs(code[e])}) \ Binds(code[e]))
<1> DEFINE E == DOMAIN code
           V == FiniteSubsetsOf(Nat)
           rest(e, f) == UNION {f[d] : d \in Subs(code[e])}
           body(e, f) == Range(code[e].ys) \cup (rest(e, f) \ Binds(code[e]))
           step == [e \in E |-> [f \in [E -> V] |-> body(e, f)]]
<1>1. E \subseteq Nat /\ \A e \in E : Subs(code[e]) \subseteq E \cap 0 .. e - 1
  BY DEF Numbered
<1>2. {} \in V
  BY FS_EmptySet DEF FiniteSubsetsOf
<1>3. ASSUME NEW e \in E, NEW f \in [E -> V] PROVE body(e, f) \in V
  <2>1. code[e].ys \in Seq(Nat)
    BY DEF Numbered
  <2>2. Range(code[e].ys) \in V
    <3> DEFINE ys == code[e].ys
    <3>1. ys \in [1 .. Len(ys) -> Nat] /\ Len(ys) \in Nat
      BY <2>1, LenProperties
    <3>2. ys \in Surjection(1 .. Len(ys), Range(ys))
      BY <3>1 DEF Surjection, Range
    <3>3. IsFiniteSet(1 .. Len(ys))
      BY <3>1, FS_Interval
    <3>4. IsFiniteSet(Range(ys))
      BY <3>2, <3>3, FS_Surjection
    <3>5. Range(ys) \subseteq Nat
      BY <3>1 DEF Range
    <3> QED BY <3>4, <3>5 DEF FiniteSubsetsOf
  <2>3. rest(e, f) \in V
    <3> DEFINE D == Subs(code[e])
               A == {f[d] : d \in D}
    <3>1. IsFiniteSet(0 .. e - 1)
      BY <1>1, FS_Interval
    <3>2. IsFiniteSet(D)
      BY <1>1, <3>1, FS_Subset
    <3>3. [d \in D |-> f[d]] \in Surjection(D, A)
      BY DEF Surjection
    <3>4. IsFiniteSet(A)
      <4> HIDE DEF D, A
      <4> QED BY <3>2, <3>3, FS_Surjection
    <3>5. \A X \in A : X \in V
      BY <1>1
    <3>6. \A X \in A : IsFiniteSet(X) /\ X \subseteq Nat
      BY <3>5 DEF FiniteSubsetsOf
    <3>7. IsFiniteSet(UNION A)
      <4> HIDE DEF A
      <4> QED BY <3>4, <3>6, FS_UNION
    <3> QED BY <3>6, <3>7 DEF FiniteSubsetsOf
  <2>4. rest(e, f) \ Binds(code[e]) \in V
    <3> HIDE DEF rest
    <3> QED BY <2>3, FS_Difference DEF FiniteSubsetsOf
  <2> HIDE DEF rest
  <2> QED BY <2>2, <2>4, FS_Union DEF FiniteSubsetsOf
<1>4. ASSUME NEW e \in E, NEW f, NEW g, \A d \in E : d < e => f[d] = g[d]
      PROVE  body(e, f) = body(e, g)
  <2>1. \A d \in Subs(code[e]) : f[d] = g[d]
    BY <1>1, <1>4
  <2>2. rest(e, f) = rest(e, g)
    BY <2>1
  <2> HIDE DEF rest
  <2> QED BY <2>2
<1>5. Recursive(E, V, step)
  <2>1. V # {}
    BY <1>2
  <2>2. step \in [E -> [[E -> V] -> V]]
    BY <1>3
  <2>3. \A e \in E : \A f, g \in [E -> V] :
            (\A d \in E : d < e => f[d] = g[d]) => step[e][f] = step[e][g]
    <3> HIDE DEF body
    <3> QED BY <1>4
  <2> HIDE DEF V, step, E
  <2> QED BY <1>1, <2>1, <2>2, <2>3 DEF Recursive
<1>6. PICK h : Solution(h, E, V, step)
  <2> HIDE DEF V, step, E
  <2> QED BY <1>5, Recursion
<1>7. h \in [E -> V] /\ h = [e \in E |-> body(e, h)]
  BY <1>6 DEF Solution
<1> HIDE DEF body
<1>8. ASSUME NEW f, f = [e \in E |-> body(e, f)] PROVE f = h
  <2>1. ASSUME NEW e \in E, \A d \in E : d < e => f[d] = h[d] PROVE f[e] = h[e]
    BY <1>4, <1>7, <1>8, <2>1
  <2> QED BY <1>1, <1>7, <1>8, <2>1, SameValues
<1>9. FreeVars(code) = h
  <2> DEFINE Eq(f) == f = [e \in E |-> body(e, f)]
  <2>1. FreeVars(code) = CHOOSE f : Eq(f)
    BY DEF FreeVars, body
  <2>2. Eq(h) /\ \A f : Eq(f) => f = h
    BY <1>7, <1>8
  <2> HIDE DEF Eq
  <2> QED BY <2>1, <2>2
<1> QED
  BY <1>7, <1>9 DEF body

\* max_allocs: a constructor takes its header and its fields, a branch as many
\* words as its largest arm, and a call starts again from 0.
LEMMA MaxAllocsEquations ==
    ASSUME NEW code, Numbered(code)
    PROVE  /\ MaxAllocs(code) \in [DOMAIN code -> Nat]
           /\ \A e \in DOMAIN code : LET node == code[e]
                                         words == MaxAllocs(code) IN
                /\ node.op = "constr" /\ node.ys = <<>> => words[e] = words[node.next]
                /\ node.op = "constr" /\ node.ys # <<>> =>
                      words[e] = 1 + words[node.next] + Len(node.ys)
                /\ node.op = "case" => \A d \in node.arms : words[d] <= words[e]
                /\ node.op \in {"letapp", "app", "halt"} => words[e] = 0
                /\ node.op \in {"proj", "primval", "prim"} => words[e] = words[node.next]
<1> DEFINE E == DOMAIN code
           arms(e, f) == Largest({0} \cup {f[d] : d \in code[e].arms})
           body(e, f) == LET node == code[e] IN
                CASE node.op = "constr" ->
                        IF node.ys = <<>> THEN f[node.next]
                        ELSE 1 + f[node.next] + Len(node.ys)
                  [] node.op = "case" -> arms(e, f)
                  [] node.op \in {"letapp", "app", "halt"} -> 0
                  [] OTHER -> f[node.next]
           step == [e \in E |-> [f \in [E -> Nat] |-> body(e, f)]]
<1>1. E \subseteq Nat
  BY Subexpressions
<1>2. ASSUME NEW e \in E
      PROVE  /\ code[e].op = "case" => code[e].arms = Subs(code[e])
             /\ code[e].op \notin {"case", "letapp", "app", "halt"} =>
                   code[e].next \in E /\ code[e].next < e
  BY Subexpressions DEF Subs
<1>3. ASSUME NEW e \in E, NEW f \in [E -> Nat] PROVE body(e, f) \in Nat
  <2>1. ASSUME code[e].op = "case" PROVE arms(e, f) \in Nat
    <3>1. IsFiniteSet(code[e].arms) /\ \A d \in code[e].arms : f[d] \in Nat
      BY <1>2, <2>1, Subexpressions
    <3> QED BY <3>1, LargestValue
  <2>2. Len(code[e].ys) \in Nat
    BY DEF Numbered
  <2> HIDE DEF arms
  <2> QED BY <1>2, <2>1, <2>2
<1>4. ASSUME NEW e \in E, NEW f, NEW g, \A d \in E : d < e => f[d] = g[d]
      PROVE  body(e, f) = body(e, g)
  <2>1. code[e].op = "case" => arms(e, f) = arms(e, g)
    <3>1. SUFFICES ASSUME code[e].op = "case"
                   PROVE  {f[d] : d \in code[e].arms} = {g[d] : d \in code[e].arms}
      OBVIOUS
    <3>2. \A d \in code[e].arms : f[d] = g[d]
      BY <1>2, <1>4, <3>1, Subexpressions
    <3> QED BY <3>2
  <2> HIDE DEF arms
  <2> QED BY <1>2, <1>4, <2>1
<1>5. Recursive(E, Nat, step)
  <2>1. step \in [E -> [[E -> Nat] -> Nat]]
    <3> HIDE DEF body
    <3> QED BY <1>3
  <2>2. \A e \in E : \A f, g \in [E -> Nat] :
            (\A d \in E : d < e => f[d] = g[d]) => step[e][f] = step[e][g]
    <3> HIDE DEF body
    <3> QED BY <1>4
  <2> HIDE DEF step, E
  <2> QED BY <1>1, <2>1, <2>2 DEF Recursive
<1>6. PICK h : Solution(h, E, Nat, step)
  <2> HIDE DEF step, E
  <2> QED BY <1>5, Recursion
<1> HIDE DEF body
<1>7. h \in [E -> Nat] /\ h = [e \in E |-> body(e, h)]
  BY <1>6 DEF Solution
<1>8. ASSUME NEW f, f = [e \in E |-> body(e, f)] PROVE f = h
  <2>1. ASSUME NEW e \in E, \A d \in E : d < e => f[d] = h[d] PROVE f[e] = h[e]
    BY <1>4, <1>7, <1>8, <2>1
  <2> QED BY <1>1, <1>7, <1>8, <2>1, SameValues
<1>9. MaxAllocs(code) = h
  <2> DEFINE Eq(f) == f = [e \in E |-> body(e, f)]
  <2>1. MaxAllocs(code) = CHOOSE f : Eq(f)
    BY DEF MaxAllocs, body
  <2>2. Eq(h) /\ \A f : Eq(f) => f = h
    BY <1>7, <1>8
  <2> HIDE DEF Eq
  <2> QED BY <2>1, <2>2
<1>10. \A e \in E : h[e] = body(e, h)
  BY <1>7
<1>11. ASSUME NEW e \in E, code[e].op = "case", NEW d \in code[e].arms
       PROVE  h[d] <= h[e]
  <2>1. h[e] = arms(e, h)
    BY <1>10, <1>11 DEF body
  <2>2. IsFiniteSet(code[e].arms) /\ \A c \in code[e].arms : h[c] \in Nat
    BY <1>2, <1>7, <1>11, Subexpressions
  <2> QED BY <1>11, <2>1, <2>2, LargestValue
<1> HIDE DEF arms
<1>12. ASSUME NEW e \in E
       PROVE  LET node == code[e] IN
                /\ node.op = "constr" /\ node.ys = <<>> => h[e] = h[node.next]
                /\ node.op = "constr" /\ node.ys # <<>> => h[e] = 1 + h[node.next] + Len(node.ys)
                /\ node.op \in {"letapp", "app", "halt"} => h[e] = 0
                /\ node.op \in {"proj", "primval", "prim"} => h[e] = h[node.next]
  BY <1>10 DEF body
<1> QED
  BY <1>7, <1>9, <1>11, <1>12

\* What an expression reads, what its parts read, and what they may not.
LEMMA FreeVarsBounds ==
    ASSUME NEW code, Numbered(code), NEW e \in DOMAIN code
    PROVE  /\ FreeVars(code)[e] \subseteq Nat /\ IsFiniteSet(FreeVars(code)[e])
           /\ \A k \in DOMAIN code[e].ys : code[e].ys[k] \in FreeVars(code)[e]
           /\ \A d \in Subs(code[e]) :
                FreeVars(code)[d] \subseteq FreeVars(code)[e] \cup Binds(code[e])
<1>1. FreeVars(code)[e] \in FiniteSubsetsOf(Nat)
  BY FreeVarsEquation
<1>2. FreeVars(code)[e] = Range(code[e].ys) \cup
          ((UNION {FreeVars(code)[d] : d \in Subs(code[e])}) \ Binds(code[e]))
  BY FreeVarsEquation
<1>3. \A k \in DOMAIN code[e].ys : code[e].ys[k] \in Range(code[e].ys)
  BY DEF Range
<1> QED
  BY <1>1, <1>2, <1>3 DEF FiniteSubsetsOf

\* The variables that the code binds or reads.
NamesOf(code) == UNION {Binds(code[e]) \cup Range(code[e].ys) : e \in DOMAIN code}

\* They are all there is to read.
LEMMA FreeVarsAreNames ==
    ASSUME NEW code, Numbered(code), NEW e \in DOMAIN code
    PROVE  FreeVars(code)[e] \subseteq NamesOf(code)
<1> DEFINE T == {d \in DOMAIN code : ~ (FreeVars(code)[d] \subseteq NamesOf(code))}
<1>1. SUFFICES ASSUME T # {} PROVE FALSE
  OBVIOUS
<1>2. DOMAIN code \subseteq Nat
  BY Subexpressions
<1>3. PICK d \in T : \A b \in T : d <= b
  BY <1>1, <1>2, Least, T \subseteq Nat
<1>4. \A b \in Subs(code[d]) : FreeVars(code)[b] \subseteq NamesOf(code)
  BY <1>2, <1>3, Subexpressions
<1>5. Range(code[d].ys) \subseteq NamesOf(code)
  BY DEF NamesOf
<1>6. FreeVars(code)[d] = Range(code[d].ys) \cup
          ((UNION {FreeVars(code)[b] : b \in Subs(code[d])}) \ Binds(code[d]))
  BY FreeVarsEquation
<1> QED
  BY <1>3, <1>4, <1>5, <1>6

\* What a call pushes: what the code after it reads, except its result, which
\* is pushed on top of that if it is read.
LEMMA PushedAtCall ==
    ASSUME NEW code, Numbered(code), NEW e \in DOMAIN code, Calls(code[e])
    PROVE  LET x == code[e].x
               next == code[e].next IN
           /\ x \in Nat /\ next \in DOMAIN code /\ next \in Subs(code[e])
           /\ LiveAcross(code, e) \in Seq(Nat)
           /\ Range(LiveAcross(code, e)) = FreeVars(code)[next] \ {x}
           /\ FreeVars(code)[next] \ {x} \subseteq FreeVars(code)[e]
           /\ Result(code, e) = IF x \in FreeVars(code)[next] THEN <<x>> ELSE <<>>
           /\ SlotsAt(code, e) \in Nat
<1> DEFINE x == code[e].x
           next == code[e].next
           S == FreeVars(code)[next] \ {x}
<1>1. Subs(code[e]) = {next} /\ Binds(code[e]) = {x}
  BY DEF Calls, Subs, Binds
<1>2. x \in Nat /\ next \in DOMAIN code
  BY <1>1, Subexpressions DEF Numbered
<1>3. S \subseteq Nat /\ IsFiniteSet(S)
  BY <1>2, FreeVarsBounds, FS_Difference
<1>4. S \subseteq FreeVars(code)[e]
  BY <1>1, FreeVarsBounds
<1>5. Elements(S) \in Seq(Nat) /\ Range(Elements(S)) = S /\ Len(Elements(S)) \in Nat
  <2> HIDE DEF S
  <2>1. Elements(S) \in Seq(Nat) /\ Range(Elements(S)) = S
    BY <1>3, ElementsOfSet
  <2> QED BY <2>1, LenProperties
<1>6. LiveAcross(code, e) = Elements(S)
  BY DEF LiveAcross
<1>7. Len(Result(code, e)) \in Nat
  BY DEF Result
<1>8. SlotsAt(code, e) \in Nat
  BY <1>5, <1>6, <1>7 DEF SlotsAt
<1> QED
  BY <1>1, <1>2, <1>4, <1>5, <1>6, <1>8 DEF Result

\* The slots of an expression are enough for each of its parts, and for its
\* call if it is one.
LEMMA SlotsEquations ==
    ASSUME NEW code, Numbered(code)
    PROVE  /\ Slots(code) \in [DOMAIN code -> Nat]
           /\ \A e \in DOMAIN code :
                /\ \A d \in Subs(code[e]) : Slots(code)[d] <= Slots(code)[e]
                /\ Calls(code[e]) => SlotsAt(code, e) <= Slots(code)[e]
<1> DEFINE E == DOMAIN code
           A(e, f) == {0} \cup {f[d] : d \in Subs(code[e])}
           own(e) == IF Calls(code[e]) THEN {SlotsAt(code, e)} ELSE {}
           body(e, f) == Largest(A(e, f) \cup own(e))
           step == [e \in E |-> [f \in [E -> Nat] |-> body(e, f)]]
<1>1. E \subseteq Nat
  BY Subexpressions
<1>2. ASSUME NEW e \in E, NEW f, \A d \in Subs(code[e]) : f[d] \in Nat
      PROVE  body(e, f) \in Nat /\ \A n \in A(e, f) \cup own(e) : n <= body(e, f)
  <2>1. own(e) \subseteq Nat /\ IsFiniteSet(own(e))
    <3>1. CASE Calls(code[e])
      <4>1. SlotsAt(code, e) \in Nat
        BY <3>1, PushedAtCall
      <4> QED BY <3>1, <4>1, FS_Singleton
    <3>2. CASE ~ Calls(code[e])
      BY <3>2, FS_EmptySet
    <3> QED BY <3>1, <3>2
  <2>2. A(e, f) \subseteq Nat /\ IsFiniteSet(A(e, f)) /\ 0 \in A(e, f)
    <3>1. IsFiniteSet(Subs(code[e]))
      BY Subexpressions
    <3> QED BY <1>2, <3>1, LargestValue
  <2> HIDE DEF A, own
  <2>3. A(e, f) \cup own(e) \subseteq Nat /\ IsFiniteSet(A(e, f) \cup own(e))
    BY <2>1, <2>2, FS_Union
  <2>4. A(e, f) \cup own(e) # {}
    BY <2>2
  <2> QED BY <2>3, <2>4, LargestOfSet
<1>3. ASSUME NEW e \in E, NEW f \in [E -> Nat] PROVE body(e, f) \in Nat
  <2>1. \A d \in Subs(code[e]) : f[d] \in Nat
    BY Subexpressions
  <2> HIDE DEF body
  <2> QED BY <1>2, <2>1
<1>4. ASSUME NEW e \in E, NEW f, NEW g, \A d \in E : d < e => f[d] = g[d]
      PROVE  body(e, f) = body(e, g)
  <2>1. \A d \in Subs(code[e]) : f[d] = g[d]
    BY <1>4, Subexpressions
  <2>2. A(e, f) = A(e, g)
    BY <2>1
  <2> HIDE DEF A
  <2> QED BY <2>2
<1>5. Recursive(E, Nat, step)
  <2>1. step \in [E -> [[E -> Nat] -> Nat]]
    <3> HIDE DEF body
    <3> QED BY <1>3
  <2>2. \A e \in E : \A f, g \in [E -> Nat] :
            (\A d \in E : d < e => f[d] = g[d]) => step[e][f] = step[e][g]
    <3> HIDE DEF body
    <3> QED BY <1>4
  <2> HIDE DEF step, E
  <2> QED BY <1>1, <2>1, <2>2 DEF Recursive
<1>6. PICK h : Solution(h, E, Nat, step)
  <2> HIDE DEF step, E
  <2> QED BY <1>5, Recursion
<1> HIDE DEF body
<1>7. h \in [E -> Nat] /\ h = [e \in E |-> body(e, h)]
  BY <1>6 DEF Solution
<1>8. ASSUME NEW f, f = [e \in E |-> body(e, f)] PROVE f = h
  <2>1. ASSUME NEW e \in E, \A d \in E : d < e => f[d] = h[d] PROVE f[e] = h[e]
    BY <1>4, <1>7, <1>8, <2>1
  <2> QED BY <1>1, <1>7, <1>8, <2>1, SameValues
<1>9. Slots(code) = h
  <2> DEFINE Eq(f) == f = [e \in E |-> body(e, f)]
  <2>1. Slots(code) = CHOOSE f : Eq(f)
    BY DEF Slots, body
  <2>2. Eq(h) /\ \A f : Eq(f) => f = h
    BY <1>7, <1>8
  <2> HIDE DEF Eq
  <2> QED BY <2>1, <2>2
<1>10. ASSUME NEW e \in E PROVE \A n \in A(e, h) \cup own(e) : n <= h[e]
  <2>1. \A d \in Subs(code[e]) : h[d] \in Nat
    BY <1>7, Subexpressions
  <2>2. h[e] = body(e, h)
    BY <1>7
  <2> QED BY <1>2, <2>1, <2>2
<1> QED
  BY <1>7, <1>9, <1>10

-----------------------------------------------------------------------------
(* What the code generator knows of a compiled program c *)

\* Every expression: its parts are expressions, what they read is read or
\* bound here, and their slots are slots of this one.
ExpFacts(c, e) ==
    LET node == c.exps[e] IN
    /\ node.op \in {"constr", "case", "proj", "letapp", "app", "primval", "prim", "halt"}
    /\ node.ys \in Seq(Nat) /\ \A k \in DOMAIN node.ys : node.ys[k] \in c.fv[e]
    /\ node.op \in {"case", "proj", "halt"} => Len(node.ys) = 1
    /\ node.op = "primval" => node.words \in Nat
    /\ node.op \in {"letapp", "app"} =>
          \A f \in node.fs : f \in DOMAIN c.funs /\ Len(node.ys) = Len(c.funs[f].params)
    /\ c.fv[e] \subseteq Nat /\ Binds(node) \subseteq Nat
    /\ c.fv[e] \cup Binds(node) \subseteq NamesOf(c.exps)
    /\ \A d \in Subs(node) : /\ d \in DOMAIN c.exps
                            /\ c.fv[d] \subseteq c.fv[e] \cup Binds(node)
                            /\ Slots(c.exps)[d] <= Slots(c.exps)[e]
    /\ Slots(c.exps)[e] \in Nat

\* The words that an expression takes until the next call.
WordFacts(c, e) ==
    LET node == c.exps[e]
        words == c.words IN
    /\ words[e] \in Nat
    /\ node.op = "constr" /\ node.ys = <<>> => words[e] = words[node.next]
    /\ node.op = "constr" /\ node.ys # <<>> => words[e] = 1 + words[node.next] + Len(node.ys)
    /\ node.op = "case" => \A d \in node.arms : words[d] <= words[e]
    /\ node.op \in {"letapp", "app", "halt"} => words[e] = 0
    /\ node.op \in {"proj", "primval", "prim"} => words[e] = words[node.next]

\* A call: what is pushed is what is read after it, and there are slots for it.
CallFacts(c, e) ==
    LET node == c.exps[e] IN
    Calls(node) =>
        /\ node.x \in Nat /\ node.next \in Subs(node)
        /\ c.across[e] \in Seq(Nat)
        /\ Range(c.across[e]) = c.fv[node.next] \ {node.x}
        /\ c.fv[node.next] \ {node.x} \subseteq c.fv[e]
        /\ c.result[e] = IF node.x \in c.fv[node.next] THEN <<node.x>> ELSE <<>>
        /\ Len(c.across[e]) <= Slots(c.exps)[e]
        /\ c.words[node.next] # 0 =>
              Len(c.across[e]) + Len(c.result[e]) <= Slots(c.exps)[e]

\* A function: what it reads are parameters, and its array of roots has a slot
\* for each of them, and the slots of its body.
FunFacts(c, f) ==
    LET fun == c.funs[f] IN
    /\ fun.params \in Seq(Nat) /\ fun.body \in DOMAIN c.exps
    /\ c.fv[fun.body] \subseteq Range(fun.params)
    /\ c.live[f] \in Seq(Nat) /\ Range(c.live[f]) = c.fv[fun.body]
    /\ c.size[f] \in Nat /\ Len(c.live[f]) <= c.size[f]
    /\ Slots(c.exps)[fun.body] <= c.size[f]

CodeFacts(c) ==
    /\ \A e \in DOMAIN c.exps : ExpFacts(c, e) /\ WordFacts(c, e) /\ CallFacts(c, e)
    /\ \A f \in DOMAIN c.funs : FunFacts(c, f)
    /\ c.main \in DOMAIN c.funs /\ c.funs[c.main].params = <<>>

\* The fields of a compiled program.
LEMMA CompiledFields ==
    ASSUME NEW p
    PROVE  LET c == Compiled(p) IN
           /\ c.exps = p.exps /\ c.funs = p.funs /\ c.main = p.main
           /\ c.fv = FreeVars(p.exps) /\ c.words = MaxAllocs(p.exps)
           /\ \A e \in DOMAIN p.exps : Calls(p.exps[e]) =>
                 c.across[e] = LiveAcross(p.exps, e) /\ c.result[e] = Result(p.exps, e)
           /\ \A f \in DOMAIN p.funs :
                 c.live[f] = LiveParams(p, f) /\ c.size[f] = RootSize(p, f)
BY DEF Compiled

\* The analyses are right: max_allocs counts every word that is allocated
\* until the next call, the lists that are pushed are what is read afterwards,
\* and the array of roots of a function has room for all of them.
THEOREM CompiledCode ==
    ASSUME NEW p, WellFormed(p)
    PROVE  CodeFacts(Compiled(p))
<1> DEFINE c == Compiled(p)
<1>1. Numbered(p.exps)
  BY DEF WellFormed
<1>2. /\ c.exps = p.exps /\ c.funs = p.funs /\ c.main = p.main
      /\ c.fv = FreeVars(p.exps) /\ c.words = MaxAllocs(p.exps)
  BY CompiledFields
<1>3. ASSUME NEW e \in DOMAIN p.exps, Calls(p.exps[e])
      PROVE  c.across[e] = LiveAcross(p.exps, e) /\ c.result[e] = Result(p.exps, e)
  BY <1>3, CompiledFields
<1>4. ASSUME NEW f \in DOMAIN p.funs
      PROVE  c.live[f] = LiveParams(p, f) /\ c.size[f] = RootSize(p, f)
  BY CompiledFields
<1> HIDE DEF c
<1>5. ASSUME NEW e \in DOMAIN c.exps PROVE ExpFacts(c, e)
  <2> DEFINE node == p.exps[e]
  <2>1. /\ node.op \in {"constr", "case", "proj", "letapp", "app", "primval", "prim", "halt"}
        /\ node.ys \in Seq(Nat) /\ Binds(node) \subseteq Nat
    BY <1>1, <1>2 DEF Numbered
  <2>2. /\ node.op \in {"case", "proj", "halt"} => Len(node.ys) = 1
        /\ node.op = "primval" => node.words \in Nat
        /\ node.op \in {"letapp", "app"} =>
              \A f \in node.fs : f \in DOMAIN p.funs /\ Len(node.ys) = Len(p.funs[f].params)
    BY <1>2 DEF WellFormed
  <2>3. /\ FreeVars(p.exps)[e] \subseteq Nat
        /\ \A k \in DOMAIN node.ys : node.ys[k] \in FreeVars(p.exps)[e]
        /\ \A d \in Subs(node) : FreeVars(p.exps)[d] \subseteq FreeVars(p.exps)[e] \cup Binds(node)
    BY <1>1, <1>2, FreeVarsBounds
  <2>4. \A d \in Subs(node) : d \in DOMAIN p.exps /\ Slots(p.exps)[d] <= Slots(p.exps)[e]
    BY <1>1, <1>2, Subexpressions, SlotsEquations
  <2>5. Slots(p.exps)[e] \in Nat
    BY <1>1, <1>2, SlotsEquations
  <2>6. FreeVars(p.exps)[e] \cup Binds(node) \subseteq NamesOf(p.exps)
    BY <1>1, <1>2, FreeVarsAreNames DEF NamesOf
  <2> QED BY <1>2, <2>1, <2>2, <2>3, <2>4, <2>5, <2>6 DEF ExpFacts
<1>6. ASSUME NEW e \in DOMAIN c.exps PROVE WordFacts(c, e)
  BY <1>1, <1>2, MaxAllocsEquations DEF WordFacts
<1>7. ASSUME NEW e \in DOMAIN c.exps PROVE CallFacts(c, e)
  <2> DEFINE node == p.exps[e]
             over == LiveAcross(p.exps, e)
  <2> SUFFICES ASSUME Calls(node) PROVE CallFacts(c, e)
    BY <1>2 DEF CallFacts
  <2>1. /\ node.x \in Nat /\ node.next \in DOMAIN p.exps /\ node.next \in Subs(node)
        /\ over \in Seq(Nat)
        /\ Range(over) = FreeVars(p.exps)[node.next] \ {node.x}
        /\ FreeVars(p.exps)[node.next] \ {node.x} \subseteq FreeVars(p.exps)[e]
        /\ Result(p.exps, e) = IF node.x \in FreeVars(p.exps)[node.next]
                               THEN <<node.x>> ELSE <<>>
        /\ SlotsAt(p.exps, e) \in Nat
    BY <1>1, <1>2, PushedAtCall
  <2>2. SlotsAt(p.exps, e) <= Slots(p.exps)[e] /\ Slots(p.exps)[e] \in Nat
    BY <1>1, <1>2, SlotsEquations
  <2>3. Len(over) \in Nat /\ Len(Result(p.exps, e)) \in Nat
    BY <2>1 DEF Result
  <2>4. /\ Len(over) <= Slots(p.exps)[e]
        /\ MaxAllocs(p.exps)[node.next] # 0 =>
              Len(over) + Len(Result(p.exps, e)) <= Slots(p.exps)[e]
    <3> DEFINE m == Len(over)
               n == Len(Result(p.exps, e))
               slots == Slots(p.exps)[e]
    <3>1. SlotsAt(p.exps, e) = m + (IF MaxAllocs(p.exps)[node.next] = 0 THEN 0 ELSE n)
      BY DEF SlotsAt
    <3>2. m \in Nat /\ n \in Nat /\ slots \in Nat /\ SlotsAt(p.exps, e) <= slots
      BY <2>2, <2>3
    <3> HIDE DEF m, n, slots, node
    <3>3. CASE MaxAllocs(p.exps)[node.next] = 0
      BY <3>1, <3>2, <3>3 DEF m, slots
    <3>4. CASE MaxAllocs(p.exps)[node.next] # 0
      <4>1. m + n <= slots /\ m <= slots
        BY <3>1, <3>2, <3>4
      <4> QED BY <4>1 DEF m, n, slots
    <3> QED BY <3>3, <3>4
  <2>5. c.across[e] = over /\ c.result[e] = Result(p.exps, e)
    BY <1>2, <1>3
  <2> HIDE DEF over
  <2> QED BY <1>2, <2>1, <2>4, <2>5 DEF CallFacts
<1>8. ASSUME NEW f \in DOMAIN c.funs PROVE FunFacts(c, f)
  <2> DEFINE fun == p.funs[f]
             S == FreeVars(p.exps)[fun.body]
             params == Range(fun.params)
  <2>1. fun.params \in Seq(Nat) /\ fun.body \in DOMAIN p.exps /\ S \subseteq params
    BY <1>2 DEF WellFormed
  <2>2. S \subseteq Nat /\ IsFiniteSet(S)
    BY <1>1, <2>1, FreeVarsBounds
  <2>3. S \cap params = S
    BY <2>1
  <2>4. LiveParams(p, f) = Elements(S)
    <3> HIDE DEF S, params
    <3>1. LiveParams(p, f) = Elements(S \cap params)
      BY DEF LiveParams, S, params
    <3> QED BY <2>3, <3>1
  <2>5. Elements(S) \in Seq(Nat) /\ Range(Elements(S)) = S
    <3> HIDE DEF S
    <3> QED BY <2>2, ElementsOfSet
  <2>6. Len(LiveParams(p, f)) \in Nat /\ Slots(p.exps)[fun.body] \in Nat
    BY <1>1, <2>1, <2>4, <2>5, SlotsEquations
  <2>7. /\ RootSize(p, f) \in Nat
        /\ Len(LiveParams(p, f)) <= RootSize(p, f)
        /\ Slots(p.exps)[fun.body] <= RootSize(p, f)
    BY <2>6 DEF RootSize, Larger
  <2>8. c.live[f] = LiveParams(p, f) /\ c.size[f] = RootSize(p, f)
    BY <1>2, <1>4
  <2> QED BY <1>2, <2>1, <2>4, <2>5, <2>7, <2>8 DEF FunFacts
<1>9. c.main \in DOMAIN c.funs /\ c.funs[c.main].params = <<>>
  BY <1>2 DEF WellFormed
<1> QED
  BY <1>5, <1>6, <1>7, <1>8, <1>9 DEF CodeFacts, c

-----------------------------------------------------------------------------
(* The inductive invariant, of a compiled program c *)

Ats == {"entry", "entryGc", "entryPop", "body", "call", "prim", "returned", "callGc",
        "callPop"}

Contents == Usable \cup {Stale, Unset}

\* The variables of function f.
Names(c, f) == NamesOf(c.exps) \cup Range(c.funs[f].params)

Activations(c) ==
    [at : Ats, f : DOMAIN c.funs, e : DOMAIN c.exps,
     locals : UNION {[Names(c, f) -> Contents] : f \in DOMAIN c.funs},
     roots : UNION {[0 .. c.size[f] - 1 -> Contents] : f \in DOMAIN c.funs},
     next : Nat, prev : Nat, avail : Int]

\* The slots that an activation has written and not popped.
Pushed(c, act) ==
    IF act.at \in {"entryGc", "entryPop"} THEN Len(c.live[act.f])
    ELSE IF act.at \in {"call", "prim", "returned"} THEN Len(c.across[act.e])
    ELSE IF act.at \in {"callGc", "callPop"}
         THEN Len(c.across[act.e]) + Len(c.result[act.e]) ELSE 0

\* An activation is in the code of its function, whose array of roots has the
\* slots that this code needs.
Typed(c, act) ==
    /\ act \in Activations(c)
    /\ act.locals \in [Names(c, act.f) -> Contents]
    /\ act.roots \in [0 .. c.size[act.f] - 1 -> Contents]
    /\ act.next <= c.size[act.f]
    /\ Slots(c.exps)[act.e] <= c.size[act.f]
    /\ act.at \in {"entry", "entryGc", "entryPop"} => act.e = c.funs[act.f].body
    /\ act.at \in {"call", "prim", "returned", "callGc", "callPop"} => Calls(c.exps[act.e])

\* What the rest of its code reads is in its variables while it runs and in
\* its slots while it waits; the slots are those that frame.next delimits.
Holds(c, act) ==
    /\ Pushed(c, act) > 0 => act.next = Pushed(c, act)
    /\ \A o \in 0 .. Pushed(c, act) - 1 : act.roots[o] \in Usable
    /\ act.at \in {"entry", "body"} => \A x \in c.fv[act.e] : act.locals[x] \in Usable
    /\ act.at = "returned" => act.locals[c.exps[act.e].x] \in Usable
    /\ act.at = "entry" => act.prev = 0

\* Frame m is the one below position k of the stack: the last, before k, of an
\* activation that has pushed something.
Below(c, st, k, m) ==
    /\ m \in 0 .. k - 1
    /\ m # 0 => Pushed(c, st[m]) > 0
    /\ \A j \in m + 1 .. k - 1 : Pushed(c, st[j]) = 0

\* The chain of frames that starts at l goes through just those activations.
Chained(c, st, l) ==
    /\ \A k \in 1 .. Len(st) : st[k].at # "entry" => Below(c, st, k, st[k].prev)
    /\ Below(c, st, Len(st) + 1, l)

StackOK(c, st, l) ==
    /\ st \in Seq(Activations(c)) /\ Len(st) \in 1 .. MaxDepth
    /\ \A k \in 1 .. Len(st) : Typed(c, st[k]) /\ Holds(c, st[k])
    /\ \A k \in 1 .. Len(st) : st[k].at = "call" <=> k < Len(st)
    /\ Chained(c, st, l)

IsCompiled(c) == \E p \in Programs : c = Compiled(p)

StackInv == IsCompiled(prog) /\ StackOK(prog, stack, fp) /\ avail \in Int

-----------------------------------------------------------------------------
(* Activations *)

\* What the translation knows of the program that runs.
LEMMA CompiledIsSound == \A c : IsCompiled(c) => CodeFacts(c)
BY ProgramsAssumption, CompiledCode DEF IsCompiled

\* Every expression needs a number of slots.
LEMMA CompiledSlots ==
    \A c : IsCompiled(c) => Slots(c.exps) \in [DOMAIN c.exps -> Nat]
BY ProgramsAssumption, CompiledFields, SlotsEquations DEF IsCompiled, WellFormed

\* The slots that are pushed are a number, none in running code.
LEMMA PushedNumber ==
    ASSUME NEW c, CodeFacts(c), NEW act, Typed(c, act)
    PROVE  /\ Pushed(c, act) \in Nat
           /\ act.at \in {"entry", "body"} => Pushed(c, act) = 0
<1>1. act.f \in DOMAIN c.funs /\ act.e \in DOMAIN c.exps
  BY DEF Typed, Activations
<1>2. act.at \in {"entryGc", "entryPop"} => Len(c.live[act.f]) \in Nat
  BY <1>1 DEF CodeFacts, FunFacts
<1>3. act.at \in {"call", "prim", "returned", "callGc", "callPop"} =>
          Len(c.across[act.e]) \in Nat /\ Len(c.result[act.e]) \in Nat
  <2> SUFFICES ASSUME act.at \in {"call", "prim", "returned", "callGc", "callPop"}
               PROVE  Len(c.across[act.e]) \in Nat /\ Len(c.result[act.e]) \in Nat
    OBVIOUS
  <2>1. Calls(c.exps[act.e]) /\ CallFacts(c, act.e)
    BY <1>1 DEF Typed, CodeFacts
  <2> QED BY <2>1 DEF CallFacts
<1>4. CASE act.at \in {"entryGc", "entryPop"}
  BY <1>2, <1>4 DEF Pushed
<1>5. CASE act.at \in {"call", "prim", "returned"}
  BY <1>3, <1>5 DEF Pushed
<1>6. CASE act.at \in {"callGc", "callPop"}
  <2> DEFINE m == Len(c.across[act.e])
             n == Len(c.result[act.e])
  <2>1. Pushed(c, act) = m + n
    BY <1>6 DEF Pushed
  <2>2. m \in Nat /\ n \in Nat
    BY <1>3, <1>6
  <2> HIDE DEF m, n
  <2> QED BY <1>6, <2>1, <2>2
<1>7. CASE act.at \notin {"entryGc", "entryPop", "call", "prim", "returned", "callGc",
                         "callPop"}
  BY <1>7 DEF Pushed
<1> QED
  BY <1>4, <1>5, <1>6, <1>7

\* An activation with the fields that its type asks for is one.
LEMMA IsTyped ==
    ASSUME NEW c, NEW act,
           act = [at |-> act.at, f |-> act.f, e |-> act.e, locals |-> act.locals,
                  roots |-> act.roots, next |-> act.next, prev |-> act.prev,
                  avail |-> act.avail],
           act.at \in Ats, act.f \in DOMAIN c.funs, act.e \in DOMAIN c.exps,
           act.locals \in [Names(c, act.f) -> Contents],
           act.roots \in [0 .. c.size[act.f] - 1 -> Contents],
           act.next \in Nat, act.prev \in Nat, act.avail \in Int
    PROVE  act \in Activations(c)
BY DEF Activations

-----------------------------------------------------------------------------
(* Stacks *)

\* The running activation becomes act, and the chain starts where act says.
LEMMA TopChanges ==
    ASSUME NEW c, CodeFacts(c), NEW st, NEW l, StackOK(c, st, l),
           NEW act, Typed(c, act), Holds(c, act), act.at # "call",
           act.at # "entry" => Below(c, st, Len(st), act.prev),
           NEW m, IF Pushed(c, act) > 0 THEN m = Len(st) ELSE Below(c, st, Len(st), m)
    PROVE  StackOK(c, [st EXCEPT ![Len(st)] = act], m)
<1> DEFINE n == Len(st)
           st2 == [st EXCEPT ![n] = act]
<1>1. st \in Seq(Activations(c)) /\ n \in 1 .. MaxDepth /\ n \in 1 .. Len(st) /\ n \in Nat
  BY SizesAssumption DEF StackOK
<1>2. act \in Activations(c)
  BY DEF Typed
<1>3. /\ st2 \in Seq(Activations(c)) /\ Len(st2) = n
      /\ st2[n] = act /\ \A k \in 1 .. n - 1 : st2[k] = st[k]
  BY <1>1, <1>2, ExceptSeq
<1> HIDE DEF st2
<1>4. \A k \in 1 .. n : Typed(c, st2[k]) /\ Holds(c, st2[k])
  BY <1>1, <1>3 DEF StackOK
<1>5. \A k \in 1 .. n : st2[k].at = "call" <=> k < n
  BY <1>1, <1>3 DEF StackOK
<1>6. ASSUME NEW k \in 1 .. n, NEW b, Below(c, st, k, b)
      PROVE  Below(c, st2, k, b)
  BY <1>1, <1>3, <1>6 DEF Below
<1>7. ASSUME NEW k \in 1 .. n, st2[k].at # "entry"
      PROVE  Below(c, st2, k, st2[k].prev)
  <2>1. CASE k = n
    BY <1>1, <1>3, <1>6, <1>7, <2>1
  <2>2. CASE k # n
    <3>1. st2[k] = st[k]
      BY <1>1, <1>3, <2>2
    <3>2. Below(c, st, k, st[k].prev)
      BY <1>1, <1>7, <3>1 DEF StackOK, Chained
    <3> QED BY <1>6, <3>1, <3>2
  <2> QED BY <2>1, <2>2
<1>8. Below(c, st2, n + 1, m)
  <2>1. CASE Pushed(c, act) > 0
    BY <1>1, <1>3, <2>1 DEF Below
  <2>2. CASE ~ (Pushed(c, act) > 0)
    <3>1. Pushed(c, act) = 0
      BY <2>2, PushedNumber
    <3>2. Below(c, st2, n, m)
      BY <1>1, <1>6, <2>2
    <3> QED BY <1>1, <1>3, <3>1, <3>2 DEF Below
  <2> QED BY <2>1, <2>2
<1> QED
  BY <1>1, <1>3, <1>4, <1>5, <1>7, <1>8 DEF StackOK, Chained, st2

\* What is below the running activation: the frame that the chain starts with,
\* or the one after it if that is its own.
LEMMA BelowTop ==
    ASSUME NEW c, CodeFacts(c), NEW st, NEW l, StackOK(c, st, l)
    PROVE  LET n == Len(st) IN
           /\ n \in 1 .. n /\ st[n] \in Activations(c) /\ Typed(c, st[n]) /\ Holds(c, st[n])
           /\ st[n].at # "call"
           /\ Pushed(c, st[n]) = 0 => Below(c, st, n, l)
           /\ Pushed(c, st[n]) > 0 => l = n
           /\ st[n].at # "entry" => Below(c, st, n, st[n].prev)
<1> DEFINE n == Len(st)
<1>1. n \in 1 .. n /\ n \in Nat
  BY SizesAssumption DEF StackOK
<1>2. Typed(c, st[n]) /\ Holds(c, st[n]) /\ st[n].at # "call"
  BY <1>1 DEF StackOK
<1>3. st[n].at # "entry" => Below(c, st, n, st[n].prev)
  BY <1>1 DEF StackOK, Chained
<1>4. Below(c, st, n + 1, l)
  BY DEF StackOK, Chained
<1>5. Pushed(c, st[n]) = 0 => Below(c, st, n, l)
  BY <1>1, <1>4 DEF Below
<1>6. Pushed(c, st[n]) > 0 => l = n
  BY <1>1, <1>2, <1>4, PushedNumber DEF Below
<1> QED
  BY <1>1, <1>2, <1>3, <1>5, <1>6 DEF Typed

\* The running activation waits in act for a callee, new.
LEMMA Pushes ==
    ASSUME NEW c, CodeFacts(c), NEW st, NEW l, StackOK(c, st, l), Len(st) < MaxDepth,
           NEW act, Typed(c, act), Holds(c, act), act.at = "call",
           Below(c, st, Len(st), act.prev),
           NEW m, IF Pushed(c, act) > 0 THEN m = Len(st) ELSE Below(c, st, Len(st), m),
           NEW new, Typed(c, new), Holds(c, new), new.at = "entry"
    PROVE  StackOK(c, Append([st EXCEPT ![Len(st)] = act], new), m)
<1> DEFINE n == Len(st)
           st1 == [st EXCEPT ![n] = act]
           st2 == Append(st1, new)
<1>1. st \in Seq(Activations(c)) /\ n \in 1 .. Len(st) /\ n \in Nat /\ n + 1 \in 1 .. MaxDepth
  BY SizesAssumption DEF StackOK
<1>2. act \in Activations(c) /\ new \in Activations(c)
  BY DEF Typed
<1>3. /\ st1 \in Seq(Activations(c)) /\ Len(st1) = n
      /\ st1[n] = act /\ \A k \in 1 .. n - 1 : st1[k] = st[k]
  BY <1>1, <1>2, ExceptSeq
<1> HIDE DEF st1
<1>4. /\ st2 \in Seq(Activations(c)) /\ Len(st2) = n + 1
      /\ st2[n + 1] = new /\ st2[n] = act /\ \A k \in 1 .. n - 1 : st2[k] = st[k]
  BY <1>1, <1>2, <1>3, AppendProperties
<1> HIDE DEF st2
<1>5. \A k \in 1 .. n + 1 : Typed(c, st2[k]) /\ Holds(c, st2[k])
  BY <1>1, <1>4 DEF StackOK
<1>6. \A k \in 1 .. n + 1 : st2[k].at = "call" <=> k < n + 1
  BY <1>1, <1>4 DEF StackOK
<1>7. ASSUME NEW k \in 1 .. n, NEW b, Below(c, st, k, b)
      PROVE  Below(c, st2, k, b)
  BY <1>1, <1>4, <1>7 DEF Below
<1>8. ASSUME NEW k \in 1 .. n + 1, st2[k].at # "entry"
      PROVE  Below(c, st2, k, st2[k].prev)
  <2>1. CASE k = n
    BY <1>1, <1>4, <1>7, <2>1
  <2>2. CASE k # n
    <3>1. k \in 1 .. n - 1 /\ k \in 1 .. n /\ st2[k] = st[k]
      BY <1>1, <1>4, <1>8, <2>2
    <3>2. Below(c, st, k, st[k].prev)
      BY <1>1, <1>8, <3>1 DEF StackOK, Chained
    <3> QED BY <1>7, <3>1, <3>2
  <2> QED BY <2>1, <2>2
<1>9. Below(c, st2, n + 1, m)
  <2>1. CASE Pushed(c, act) > 0
    BY <1>1, <1>4, <2>1 DEF Below
  <2>2. CASE ~ (Pushed(c, act) > 0)
    <3>1. Pushed(c, act) = 0
      BY <2>2, PushedNumber
    <3>2. Below(c, st2, n, m)
      BY <1>1, <1>7, <2>2
    <3> QED BY <1>1, <1>4, <3>1, <3>2 DEF Below
  <2> QED BY <2>1, <2>2
<1>10. Below(c, st2, n + 2, m)
  <2>1. Pushed(c, new) = 0
    BY PushedNumber
  <2> QED BY <1>1, <1>4, <1>9, <2>1 DEF Below
<1>11. (n + 1) + 1 = n + 2
  BY <1>1
<1>12. Chained(c, st2, m)
  BY <1>4, <1>8, <1>10, <1>11 DEF Chained
<1>13. StackOK(c, st2, m)
  BY <1>1, <1>4, <1>5, <1>6, <1>12 DEF StackOK
<1> QED
  BY <1>13 DEF st2, st1

\* The running activation, which has pushed nothing, returns to act.
LEMMA Returns ==
    ASSUME NEW c, CodeFacts(c), NEW st, NEW l, StackOK(c, st, l), Len(st) # 1,
           Pushed(c, st[Len(st)]) = 0,
           NEW act, Typed(c, act), Holds(c, act), act.at \notin {"call", "entry"},
           act.prev = st[Len(st) - 1].prev,
           Pushed(c, act) = Pushed(c, st[Len(st) - 1])
    PROVE  StackOK(c, [SubSeq(st, 1, Len(st) - 1) EXCEPT ![Len(st) - 1] = act], l)
<1> DEFINE n == Len(st)
           st1 == SubSeq(st, 1, n - 1)
           st2 == [st1 EXCEPT ![n - 1] = act]
<1>1. /\ st \in Seq(Activations(c)) /\ n \in 1 .. Len(st) /\ n \in Nat
      /\ n - 1 \in 1 .. MaxDepth /\ n - 1 \in 1 .. n /\ n - 1 \in Nat
  <2>1. st \in Seq(Activations(c)) /\ n \in 1 .. MaxDepth /\ n # 1
    BY DEF StackOK
  <2> HIDE DEF n
  <2>2. n \in Nat /\ n >= 2 /\ MaxDepth \in Nat /\ n <= MaxDepth
    BY <2>1, SizesAssumption
  <2>3. n \in 1 .. n /\ n - 1 \in 1 .. MaxDepth /\ n - 1 \in 1 .. n /\ n - 1 \in Nat
    BY <2>2
  <2> QED BY <2>1, <2>2, <2>3 DEF n
<1>2. act \in Activations(c)
  BY DEF Typed
<1>3. /\ st1 \in Seq(Activations(c)) /\ Len(st1) = n - 1
      /\ \A k \in 1 .. n - 1 : st1[k] = st[k]
  BY <1>1, SubSeqProperties
<1> HIDE DEF st1
<1>4. /\ st2 \in Seq(Activations(c)) /\ Len(st2) = n - 1
      /\ st2[n - 1] = act /\ \A k \in 1 .. n - 2 : st2[k] = st[k]
  BY <1>1, <1>2, <1>3, ExceptSeq
<1> HIDE DEF st2
<1>5. \A k \in 1 .. n - 1 : Typed(c, st2[k]) /\ Holds(c, st2[k])
  BY <1>1, <1>4 DEF StackOK
<1>6. \A k \in 1 .. n - 1 : st2[k].at = "call" <=> k < n - 1
  BY <1>1, <1>4 DEF StackOK
<1>7. \A k \in 1 .. n - 1 : Pushed(c, st2[k]) = Pushed(c, st[k]) /\ st2[k].prev = st[k].prev
  BY <1>1, <1>4
<1>8. ASSUME NEW k \in 1 .. n, NEW b, Below(c, st, k, b)
      PROVE  Below(c, st2, k, b)
  BY <1>1, <1>7, <1>8 DEF Below
<1>9. ASSUME NEW k \in 1 .. n - 1, st2[k].at # "entry"
      PROVE  Below(c, st2, k, st2[k].prev)
  <2>1. k \in 1 .. n /\ st[k].at # "entry"
    <3>1. st[n - 1].at = "call"
      BY <1>1 DEF StackOK
    <3> QED BY <1>1, <1>4, <1>9, <3>1
  <2>2. Below(c, st, k, st[k].prev)
    BY <1>1, <2>1 DEF StackOK, Chained
  <2> QED BY <1>7, <1>8, <2>1, <2>2
<1>10. Below(c, st2, n, l)
  <2>1. Below(c, st, n, l)
    BY BelowTop
  <2> QED BY <1>1, <1>8, <2>1
<1>11. (n - 1) + 1 = n
  BY <1>1
<1>12. Chained(c, st2, l)
  BY <1>4, <1>9, <1>10, <1>11 DEF Chained
<1>13. StackOK(c, st2, l)
  BY <1>1, <1>4, <1>5, <1>6, <1>12 DEF StackOK
<1> QED
  BY <1>13 DEF st2, st1

\* Every activation is replaced by one that has pushed as much, at the same
\* place but for the running one.
LEMMA AllChange ==
    ASSUME NEW c, CodeFacts(c), NEW st, NEW l, StackOK(c, st, l),
           NEW st2, st2 \in Seq(Activations(c)), Len(st2) = Len(st),
           \A k \in 1 .. Len(st) :
               /\ Typed(c, st2[k]) /\ Holds(c, st2[k])
               /\ st2[k].at = "call" <=> st[k].at = "call"
               /\ st2[k].at = "entry" <=> st[k].at = "entry"
               /\ st2[k].prev = st[k].prev
               /\ Pushed(c, st2[k]) = Pushed(c, st[k])
    PROVE  StackOK(c, st2, l)
<1> DEFINE n == Len(st)
<1>1. n \in 1 .. MaxDepth /\ n \in Nat
  BY SizesAssumption DEF StackOK
<1>2. ASSUME NEW k \in 1 .. n + 1, NEW b, Below(c, st, k, b)
      PROVE  Below(c, st2, k, b)
  BY <1>1, <1>2 DEF Below
<1>3. ASSUME NEW k \in 1 .. n, st2[k].at # "entry"
      PROVE  Below(c, st2, k, st2[k].prev)
  <2>1. Below(c, st, k, st[k].prev)
    BY <1>3 DEF StackOK, Chained
  <2> QED BY <1>1, <1>2, <2>1
<1>4. Below(c, st2, n + 1, l)
  BY <1>1, <1>2 DEF StackOK, Chained
<1>5. \A k \in 1 .. n : st2[k].at = "call" <=> k < n
  BY DEF StackOK
<1> QED
  BY <1>1, <1>3, <1>4, <1>5 DEF StackOK, Chained

-----------------------------------------------------------------------------
(* What the code does to an activation *)

\* A record with some fields of an activation replaced by others of their type.
LEMMA ActivationFields ==
    ASSUME NEW c, NEW act \in Activations(c)
    PROVE  /\ act.at \in Ats /\ act.f \in DOMAIN c.funs /\ act.e \in DOMAIN c.exps
           /\ act.next \in Nat /\ act.prev \in Nat /\ act.avail \in Int
BY DEF Activations

\* What an expression reads is in the variables of every function.
LEMMA Readable ==
    ASSUME NEW c, CodeFacts(c), NEW act, Typed(c, act)
    PROVE  /\ c.fv[act.e] \subseteq DOMAIN act.locals
           /\ Binds(c.exps[act.e]) \subseteq DOMAIN act.locals
           /\ \A k \in DOMAIN c.exps[act.e].ys : c.exps[act.e].ys[k] \in c.fv[act.e]
<1>1. act.e \in DOMAIN c.exps /\ DOMAIN act.locals = Names(c, act.f)
  BY DEF Typed, Activations
<1>2. ExpFacts(c, act.e)
  BY <1>1 DEF CodeFacts
<1> QED
  BY <1>1, <1>2 DEF ExpFacts, Names

\* An activation at another place, after what it holds has been pushed.
Waiting(act, off, xs, at) ==
    [update_stack(Push(act, off, xs), off + Len(xs)) EXCEPT !.at = at]

\* push_live_vars_offset writes the slots from off on, and update_stack lets
\* frame.next delimit them.
LEMMA PushFields ==
    ASSUME NEW c, CodeFacts(c), NEW act, Typed(c, act),
           NEW xs \in Seq(Nat), Range(xs) \subseteq DOMAIN act.locals,
           NEW off \in Nat, off + Len(xs) <= c.size[act.f], NEW at \in Ats,
           NEW act2, act2 = Waiting(act, off, xs, at)
    PROVE  /\ act2 \in Activations(c)
           /\ act2.at = at /\ act2.f = act.f /\ act2.e = act.e
           /\ act2.locals = act.locals /\ act2.prev = act.prev /\ act2.avail = act.avail
           /\ act2.next <= c.size[act.f] /\ (off + Len(xs) # 0 => act2.next = off + Len(xs))
           /\ act2.roots \in [0 .. c.size[act.f] - 1 -> Contents]
           /\ \A o \in 0 .. off - 1 : act2.roots[o] = act.roots[o]
           /\ (\A x \in Range(xs) : act.locals[x] \in Usable) =>
                 \A o \in off .. off + Len(xs) - 1 : act2.roots[o] \in Usable
<1> DEFINE sp == off + Len(xs)
           size == c.size[act.f]
           roots == [o \in DOMAIN act.roots |->
                        IF o \in off .. off + Len(xs) - 1
                        THEN act.locals[xs[o - off + 1]] ELSE act.roots[o]]
           act1 == [act EXCEPT !.roots = roots]
<1>1. /\ act \in Activations(c) /\ act.f \in DOMAIN c.funs
      /\ act.locals \in [Names(c, act.f) -> Contents]
      /\ act.roots \in [0 .. size - 1 -> Contents] /\ act.next <= size
  BY DEF Typed, Activations
<1>2. size \in Nat
  BY <1>1 DEF CodeFacts, FunFacts
<1>3. Push(act, off, xs) = act1
  BY DEF Push
<1>4. \A o \in off .. sp - 1 : /\ o - off + 1 \in DOMAIN xs
                               /\ roots[o] = act.locals[xs[o - off + 1]]
  <2> SUFFICES ASSUME NEW o \in off .. sp - 1
               PROVE  /\ o - off + 1 \in DOMAIN xs
                      /\ roots[o] = act.locals[xs[o - off + 1]]
    OBVIOUS
  <2>1. DOMAIN xs = 1 .. Len(xs) /\ Len(xs) \in Nat
    OBVIOUS
  <2>2. o - off + 1 \in DOMAIN xs
    BY <2>1
  <2>3. o \in DOMAIN act.roots /\ o \in off .. off + Len(xs) - 1
    BY <1>1, <1>2
  <2> QED BY <2>2, <2>3
<1>5. \A o \in DOMAIN act.roots : o \notin off .. sp - 1 => roots[o] = act.roots[o]
  OBVIOUS
<1>6. roots \in [0 .. size - 1 -> Contents]
  <2>1. ASSUME NEW o \in 0 .. size - 1
        PROVE  roots[o] \in Contents
    <3>1. CASE o \in off .. sp - 1
      <4>1. xs[o - off + 1] \in Range(xs)
        BY <1>4, <3>1 DEF Range
      <4>2. xs[o - off + 1] \in Names(c, act.f)
        BY <1>1, <4>1
      <4> QED BY <1>1, <1>4, <3>1, <4>2
    <3>2. CASE o \notin off .. sp - 1
      BY <1>1, <1>5, <3>2
    <3> QED BY <3>1, <3>2
  <2> QED BY <1>1, <2>1
<1> HIDE DEF roots
<1>7. /\ act1 \in Activations(c) /\ act1.roots = roots /\ act1.f = act.f /\ act1.e = act.e
      /\ act1.locals = act.locals /\ act1.prev = act.prev /\ act1.avail = act.avail
      /\ act1.next = act.next
  BY <1>1, <1>6 DEF Activations
<1> HIDE DEF act1
<1>12. act2 = [update_stack(act1, sp) EXCEPT !.at = at]
  BY <1>3 DEF Waiting
<1>8. /\ act2 \in Activations(c) /\ act2.at = at /\ act2.f = act.f /\ act2.e = act.e
      /\ act2.locals = act.locals /\ act2.prev = act.prev /\ act2.avail = act.avail
      /\ act2.roots = roots
      /\ act2.next = IF sp = 0 THEN act.next ELSE sp
  <2>3. act2 = [update_stack(act1, sp) EXCEPT !.at = at] /\ sp \in Nat
    BY <1>12
  <2> HIDE DEF sp
  <2>1. CASE sp = 0
    BY <1>7, <2>3, <2>1 DEF Activations, update_stack
  <2>2. CASE sp # 0
    BY <1>7, <2>3, <2>2 DEF Activations, update_stack
  <2> QED BY <2>1, <2>2
<1>9. act2.next <= size /\ (sp # 0 => act2.next = sp)
  BY <1>1, <1>8
<1>10. \A o \in 0 .. off - 1 : act2.roots[o] = act.roots[o]
  <2> SUFFICES ASSUME NEW o \in 0 .. off - 1 PROVE roots[o] = act.roots[o]
    BY <1>8
  <2>1. Len(xs) \in Nat
    OBVIOUS
  <2> QED BY <1>1, <1>2, <1>5, <2>1
<1>11. ASSUME \A x \in Range(xs) : act.locals[x] \in Usable, NEW o \in off .. sp - 1
       PROVE  act2.roots[o] \in Usable
  BY <1>4, <1>8, <1>11 DEF Range
<1> QED
  BY <1>6, <1>8, <1>9, <1>10, <1>11

\* pop_live_vars_offset reads them back into the same variables.
LEMMA PopFields ==
    ASSUME NEW c, CodeFacts(c), NEW act, Typed(c, act),
           NEW xs \in Seq(Nat), NEW off \in Nat, off + Len(xs) <= c.size[act.f],
           NEW act2, act2 = Pop(act, off, xs)
    PROVE  /\ Typed(c, act2) /\ act2.at = act.at /\ act2.f = act.f /\ act2.e = act.e
           /\ act2.roots = act.roots /\ act2.next = act.next /\ act2.prev = act.prev
           /\ act2.avail = act.avail
           /\ \A x \in Names(c, act.f) : x \notin Range(xs) => act2.locals[x] = act.locals[x]
           /\ (\A o \in off .. off + Len(xs) - 1 : act.roots[o] \in Usable) =>
                 \A x \in Names(c, act.f) : x \in Range(xs) => act2.locals[x] \in Usable
<1> DEFINE size == c.size[act.f]
           N == Names(c, act.f)
           slot(x) == off + (CHOOSE k \in DOMAIN xs : xs[k] = x) - 1
           locals == [x \in DOMAIN act.locals |->
                         IF \E k \in DOMAIN xs : xs[k] = x
                         THEN act.roots[slot(x)] ELSE act.locals[x]]
           act1 == [act EXCEPT !.locals = locals]
<1>1. /\ act \in Activations(c) /\ act.f \in DOMAIN c.funs
      /\ act.locals \in [N -> Contents] /\ act.roots \in [0 .. size - 1 -> Contents]
  BY DEF Typed, Activations
<1>2. size \in Nat
  BY <1>1 DEF CodeFacts, FunFacts
<1>3. Pop(act, off, xs) = act1
  BY DEF Pop
<1>4. ASSUME NEW x \in N, x \in Range(xs)
      PROVE  slot(x) \in off .. off + Len(xs) - 1 /\ locals[x] = act.roots[slot(x)]
  <2>1. \E k \in DOMAIN xs : xs[k] = x
    BY <1>4 DEF Range
  <2>2. (CHOOSE k \in DOMAIN xs : xs[k] = x) \in DOMAIN xs
    BY <2>1
  <2>3. DOMAIN xs = 1 .. Len(xs) /\ Len(xs) \in Nat
    OBVIOUS
  <2>4. slot(x) \in off .. off + Len(xs) - 1
    BY <2>2, <2>3
  <2> QED BY <1>1, <2>1, <2>4
<1>5. ASSUME NEW x \in N, x \notin Range(xs)
      PROVE  locals[x] = act.locals[x]
  <2>1. ~ \E k \in DOMAIN xs : xs[k] = x
    BY <1>5 DEF Range
  <2> QED BY <1>1, <2>1
<1>6. locals \in [N -> Contents]
  <2>1. ASSUME NEW x \in N
        PROVE  locals[x] \in Contents
    <3>1. CASE x \in Range(xs)
      <4>1. slot(x) \in off .. off + Len(xs) - 1 /\ locals[x] = act.roots[slot(x)]
        BY <1>4, <3>1
      <4>2. Len(xs) \in Nat
        OBVIOUS
      <4> HIDE DEF slot, locals
      <4>3. slot(x) \in 0 .. size - 1
        BY <1>2, <4>1, <4>2
      <4> QED BY <1>1, <4>1, <4>3
    <3>2. CASE x \notin Range(xs)
      <4>1. locals[x] = act.locals[x]
        BY <1>5, <3>2
      <4> HIDE DEF locals
      <4> QED BY <1>1, <4>1
    <3> QED BY <3>1, <3>2
  <2> QED BY <1>1, <2>1
<1>7. /\ \A x \in N : x \notin Range(xs) => locals[x] = act.locals[x]
      /\ (\A o \in off .. off + Len(xs) - 1 : act.roots[o] \in Usable) =>
            \A x \in N : x \in Range(xs) => locals[x] \in Usable
  <2> HIDE DEF locals, slot
  <2> QED BY <1>4, <1>5
<1> HIDE DEF locals
<1>8. /\ act1 \in Activations(c) /\ act1.locals = locals /\ act1.at = act.at
      /\ act1.f = act.f /\ act1.e = act.e /\ act1.roots = act.roots
      /\ act1.next = act.next /\ act1.prev = act.prev /\ act1.avail = act.avail
  BY <1>1, <1>6 DEF Activations
<1> HIDE DEF act1
<1>9. Typed(c, act1)
  BY <1>6, <1>8 DEF Typed
<1> QED
  BY <1>3, <1>7, <1>8, <1>9

-----------------------------------------------------------------------------
(* The steps *)

\* An activation that is entered has its arguments in its parameters.
LEMMA NewActivation ==
    ASSUME IsCompiled(prog), NEW f \in DOMAIN prog.funs, NEW args,
           args \in [DOMAIN prog.funs[f].params -> Usable]
    PROVE  LET new == Activation(f, args) IN
           /\ Typed(prog, new) /\ Holds(prog, new)
           /\ new.at = "entry" /\ new.prev = 0 /\ new.f = f
<1> DEFINE new == Activation(f, args)
           params == prog.funs[f].params
           body == prog.funs[f].body
           N == Names(prog, f)
           size == prog.size[f]
           first(x) == CHOOSE k \in DOMAIN params : params[k] = x
           locals == [x \in N |-> IF \E k \in DOMAIN params : params[k] = x
                                  THEN args[first(x)] ELSE Unset]
           roots == [o \in 0 .. size - 1 |-> Unset]
<1>1. CodeFacts(prog)
  BY CompiledIsSound
<1>2. FunFacts(prog, f)
  BY <1>1 DEF CodeFacts
<1>3. Variables \cup Range(params) = N
  BY DEF Variables, exps, Names, NamesOf
<1>4. new = [at |-> "entry", f |-> f, e |-> body, locals |-> locals, roots |-> roots,
             next |-> 0, prev |-> 0, avail |-> 0]
  BY <1>3 DEF Activation
<1>5. \A x \in N : /\ x \in Range(params) => locals[x] \in Usable
                   /\ locals[x] \in Contents
  <2> SUFFICES ASSUME NEW x \in N
               PROVE  /\ x \in Range(params) => locals[x] \in Usable
                      /\ locals[x] \in Contents
    OBVIOUS
  <2>1. CASE \E k \in DOMAIN params : params[k] = x
    <3>1. first(x) \in DOMAIN params
      BY <2>1
    <3> QED BY <2>1, <3>1 DEF Contents
  <2>2. CASE ~ \E k \in DOMAIN params : params[k] = x
    BY <2>2 DEF Range, Contents
  <2> QED BY <2>1, <2>2
<1>6. locals \in [N -> Contents] /\ roots \in [0 .. size - 1 -> Contents]
  BY <1>5 DEF Contents
<1>7. \A x \in prog.fv[body] : locals[x] \in Usable
  <2>1. prog.fv[body] \subseteq Range(params) /\ Range(params) \subseteq N
    BY <1>2 DEF FunFacts, Names
  <2> QED BY <1>5, <2>1
<1> HIDE DEF locals, roots, new
<1>8. /\ new.at = "entry" /\ new.f = f /\ new.e = body /\ new.locals = locals
      /\ new.roots = roots /\ new.next = 0 /\ new.prev = 0
  BY <1>4
<1>9. new \in Activations(prog)
  BY <1>2, <1>4, <1>6 DEF Activations, FunFacts, Ats
<1>10. Typed(prog, new)
  BY <1>2, <1>6, <1>8, <1>9 DEF Typed, FunFacts
<1>11. Holds(prog, new)
  <2>1. Pushed(prog, new) = 0
    BY <1>8 DEF Pushed
  <2> QED BY <1>7, <1>8, <2>1 DEF Holds
<1> QED
  BY <1>8, <1>10, <1>11 DEF new

\* A program starts with one activation, and no frame is linked.
LEMMA InitStack == Init => StackInv
<1> SUFFICES ASSUME Init PROVE StackInv
  OBVIOUS
<1> DEFINE new == Activation(prog.main, <<>>)
<1>1. IsCompiled(prog)
  BY DEF Init, IsCompiled
<1>2. prog.main \in DOMAIN prog.funs /\ prog.funs[prog.main].params = <<>>
  BY <1>1, CompiledIsSound DEF CodeFacts
<1>3. Typed(prog, new) /\ Holds(prog, new) /\ new.at = "entry"
  <2>1. <<>> \in [DOMAIN prog.funs[prog.main].params -> Usable]
    BY <1>2
  <2> QED BY <1>1, <1>2, <2>1, NewActivation
<1>4. Pushed(prog, new) = 0
  BY <1>3 DEF Pushed
<1> HIDE DEF new
<1>5. stack = <<new>> /\ fp = 0
  BY DEF Init, new
<1>6. Below(prog, <<new>>, 2, 0)
  BY <1>4 DEF Below
<1>7. StackOK(prog, <<new>>, 0)
  <2>1. <<new>> \in Seq(Activations(prog)) /\ Len(<<new>>) = 1 /\ <<new>>[1] = new
    BY <1>3 DEF Typed
  <2>2. 1 \in 1 .. MaxDepth
    BY SizesAssumption
  <2>3. Chained(prog, <<new>>, 0)
    BY <1>3, <1>6, <2>1 DEF Chained
  <2> QED BY <1>3, <2>1, <2>2, <2>3 DEF StackOK
<1>8. avail \in Int
  BY SizesAssumption DEF Init
<1> QED
  BY <1>1, <1>5, <1>7, <1>8 DEF StackInv

\* What is known of the activation that runs.
LEMMA TopFacts ==
    ASSUME StackInv
    PROVE  /\ CodeFacts(prog)
           /\ Top \in Nat /\ Top \in 1 .. Top
           /\ a \in Activations(prog) /\ Typed(prog, a) /\ Holds(prog, a) /\ a.at # "call"
           /\ ExpFacts(prog, a.e) /\ WordFacts(prog, a.e) /\ CallFacts(prog, a.e)
           /\ FunFacts(prog, a.f)
           /\ Pushed(prog, a) = 0 => Below(prog, stack, Top, fp)
           /\ Pushed(prog, a) > 0 => fp = Top
           /\ a.at # "entry" => Below(prog, stack, Top, a.prev)
           /\ a.at \in Ats /\ a.f \in DOMAIN prog.funs /\ a.e \in DOMAIN prog.exps
           /\ a.next \in Nat /\ a.prev \in Nat /\ a.avail \in Int
<1>1. CodeFacts(prog) /\ StackOK(prog, stack, fp)
  BY CompiledIsSound DEF StackInv
<1>2. Top \in Nat /\ Top \in 1 .. Top
  BY <1>1, SizesAssumption DEF StackOK, Top
<1>3. /\ a \in Activations(prog) /\ Typed(prog, a) /\ Holds(prog, a) /\ a.at # "call"
      /\ Pushed(prog, a) = 0 => Below(prog, stack, Top, fp)
      /\ Pushed(prog, a) > 0 => fp = Top
      /\ a.at # "entry" => Below(prog, stack, Top, a.prev)
  BY <1>1, BelowTop DEF a, Top
<1>4. /\ a.at \in Ats /\ a.f \in DOMAIN prog.funs /\ a.e \in DOMAIN prog.exps
      /\ a.next \in Nat /\ a.prev \in Nat /\ a.avail \in Int
  BY <1>3, ActivationFields
<1>5. /\ ExpFacts(prog, a.e) /\ WordFacts(prog, a.e) /\ CallFacts(prog, a.e)
      /\ FunFacts(prog, a.f)
  BY <1>1, <1>4 DEF CodeFacts
<1> QED
  BY <1>1, <1>2, <1>3, <1>4, <1>5

\* The running activation becomes act.
LEMMA TopSteps ==
    ASSUME StackInv, NEW act, Typed(prog, act), Holds(prog, act), act.at # "call",
           act.at # "entry" => Below(prog, stack, Top, act.prev),
           IF Pushed(prog, act) > 0 THEN fp' = Top ELSE Below(prog, stack, Top, fp'),
           stack' = [stack EXCEPT ![Top] = act], prog' = prog, avail' \in Int
    PROVE  StackInv'
<1>1. CodeFacts(prog) /\ StackOK(prog, stack, fp) /\ IsCompiled(prog)
  BY CompiledIsSound DEF StackInv
<1>2. StackOK(prog, [stack EXCEPT ![Len(stack)] = act], fp')
  BY <1>1, TopChanges DEF Top
<1> QED
  BY <1>1, <1>2 DEF StackInv, Top

\* A function is entered.
LEMMA EnterStep == StackInv /\ Enter => StackInv'
<1> SUFFICES ASSUME StackInv, Enter PROVE StackInv'
  OBVIOUS
<1> DEFINE act0 == [Reloaded(a) EXCEPT !.next = 0, !.prev = fp]
           act1 == [act0 EXCEPT !.at = "body"]
           act2 == [update_stack(Push(act0, 0, live), Len(live)) EXCEPT !.at = "entryGc"]
<1>1. /\ CodeFacts(prog) /\ Top \in Nat /\ a \in Activations(prog) /\ Typed(prog, a)
      /\ Holds(prog, a) /\ FunFacts(prog, a.f)
  BY TopFacts
<1>2. a.at = "entry" /\ Pushed(prog, a) = 0 /\ Below(prog, stack, Top, fp)
  <2>1. a.at = "entry"
    BY DEF Enter
  <2> QED BY <2>1, TopFacts DEF Pushed
<1>3. fp \in Nat /\ avail \in Int
  BY <1>1, <1>2 DEF Below, StackInv
<1>4. /\ act0 \in Activations(prog) /\ act0.at = "entry" /\ act0.f = a.f /\ act0.e = a.e
      /\ act0.locals = a.locals /\ act0.roots = a.roots /\ act0.next = 0 /\ act0.prev = fp
  BY <1>1, <1>2, <1>3 DEF Activations, Reloaded
<1>5. Typed(prog, act0)
  <2>1. 0 <= prog.size[a.f]
    BY <1>1 DEF FunFacts
  <2> HIDE DEF act0
  <2> QED BY <1>1, <1>2, <1>4, <2>1 DEF Typed
<1>6. prog' = prog /\ avail' = avail
  BY DEF Enter
<1>7. CASE Running(act1) /\ UNCHANGED <<fp, nalloc>>
  <2>1. /\ act1 \in Activations(prog) /\ act1.at = "body" /\ act1.f = a.f /\ act1.e = a.e
        /\ act1.locals = a.locals /\ act1.roots = a.roots /\ act1.next = 0 /\ act1.prev = fp
    BY <1>4 DEF Activations, Ats
  <2> HIDE DEF act1, act0
  <2>2. Pushed(prog, act1) = 0
    BY <2>1 DEF Pushed
  <2>3. Typed(prog, act1)
    BY <1>4, <1>5, <2>1 DEF Typed
  <2>4. Holds(prog, act1)
    BY <1>1, <1>2, <2>1, <2>2 DEF Holds
  <2> QED
    <3>1. fp' = fp /\ avail' \in Int /\ stack' = [stack EXCEPT ![Top] = act1]
      BY <1>3, <1>6, <1>7 DEF Running
    <3>2. /\ act1.at # "call" /\ Below(prog, stack, Top, act1.prev)
          /\ IF Pushed(prog, act1) > 0 THEN fp' = Top ELSE Below(prog, stack, Top, fp')
      BY <1>2, <2>1, <2>2, <3>1
    <3> QED
      BY <1>6, <2>3, <2>4, <3>1, <3>2, TopSteps
<1>8. CASE Running(act2) /\ fp' = set_stack(Len(live), FALSE)
  <2> DEFINE n == Len(live)
  <2>1. live \in Seq(Nat) /\ n \in Nat /\ 0 + n = n /\ n <= prog.size[a.f] /\
        Range(live) = prog.fv[a.e]
    BY <1>1, <1>2 DEF FunFacts, live, Typed
  <2>2. Range(live) \subseteq DOMAIN a.locals /\ \A x \in Range(live) : a.locals[x] \in Usable
    BY <1>1, <1>2, <2>1, Readable DEF Holds
  <2>3. /\ act2 \in Activations(prog)
        /\ act2.at = "entryGc" /\ act2.f = a.f /\ act2.e = a.e
        /\ act2.locals = a.locals /\ act2.prev = fp
        /\ act2.next <= prog.size[a.f] /\ (n # 0 => act2.next = n)
        /\ act2.roots \in [0 .. prog.size[a.f] - 1 -> Contents]
        /\ \A o \in 0 .. n - 1 : act2.roots[o] \in Usable
    <3> HIDE DEF act0
    <3>1. "entryGc" \in Ats /\ 0 \in Nat
      BY DEF Ats
    <3>2. Range(live) \subseteq DOMAIN act0.locals /\ n <= prog.size[act0.f]
      BY <1>4, <2>1, <2>2
    <3>3. act2 = Waiting(act0, 0, live, "entryGc")
      BY <2>1 DEF Waiting
    <3> HIDE DEF act2
    <3>4. /\ act2 \in Activations(prog)
          /\ act2.at = "entryGc" /\ act2.f = act0.f /\ act2.e = act0.e
          /\ act2.locals = act0.locals /\ act2.prev = act0.prev
          /\ act2.next <= prog.size[act0.f] /\ (0 + n # 0 => act2.next = 0 + n)
          /\ act2.roots \in [0 .. prog.size[act0.f] - 1 -> Contents]
          /\ \A o \in 0 .. 0 + n - 1 : act2.roots[o] \in Usable
      BY <1>1, <1>4, <1>5, <2>1, <2>2, <3>1, <3>2, <3>3, PushFields
    <3> QED BY <1>4, <2>1, <3>4
  <2> HIDE DEF act2, act0
  <2>4. Pushed(prog, act2) = n
    BY <2>3 DEF Pushed, live
  <2>5. Typed(prog, act2)
    BY <1>4, <1>5, <2>3 DEF Typed
  <2>7. Holds(prog, act2)
    <3> HIDE DEF n
    <3> QED BY <2>1, <2>3, <2>4 DEF Holds
  <2>8. IF n > 0 THEN fp' = Top ELSE fp' = fp
    <3> HIDE DEF n
    <3> QED BY <1>8, <2>1 DEF set_stack, n
  <2> HIDE DEF n
  <2> QED
    BY <1>2, <1>3, <1>6, <1>8, <2>3, <2>4, <2>5, <2>7, <2>8, TopSteps DEF Running
<1> QED
  BY <1>7, <1>8 DEF Enter

\* The running activation goes on, or on again, with what it has saved unlinked.
LEMMA BodySteps ==
    ASSUME StackInv, a.at # "entry", NEW act, act \in Activations(prog),
           act.at = "body", act.f = a.f, act.roots = a.roots, act.next = a.next,
           act.prev = a.prev, act.locals \in [Names(prog, a.f) -> Contents],
           Slots(prog.exps)[act.e] <= prog.size[a.f],
           \A x \in prog.fv[act.e] : act.locals[x] \in Usable,
           fp' = (IF Pushed(prog, a) = 0 THEN fp ELSE a.prev),
           stack' = [stack EXCEPT ![Top] = act], prog' = prog, avail' \in Int
    PROVE  StackInv'
<1>1. /\ CodeFacts(prog) /\ Typed(prog, a) /\ Holds(prog, a)
      /\ Pushed(prog, a) = 0 => Below(prog, stack, Top, fp)
      /\ Below(prog, stack, Top, a.prev)
  BY TopFacts
<1>2. Typed(prog, act)
  BY <1>1 DEF Typed
<1>3. Pushed(prog, act) = 0
  BY DEF Pushed
<1>4. Holds(prog, act)
  BY <1>3 DEF Holds
<1>5. Below(prog, stack, Top, fp') /\ Below(prog, stack, Top, act.prev)
  BY <1>1
<1>6. act.at # "call" /\ IF Pushed(prog, act) > 0 THEN fp' = Top ELSE Below(prog, stack, Top, fp')
  BY <1>3, <1>5
<1> QED
  BY <1>2, <1>4, <1>5, <1>6, TopSteps

\* alloc and limit are read again.
LEMMA ReloadedFields ==
    ASSUME StackInv, NEW act, Typed(prog, act)
    PROVE  LET act2 == Reloaded(act) IN
           /\ Typed(prog, act2) /\ act2.at = act.at /\ act2.f = act.f /\ act2.e = act.e
           /\ act2.locals = act.locals /\ act2.roots = act.roots /\ act2.next = act.next
           /\ act2.prev = act.prev /\ act2.avail = avail
<1> DEFINE act2 == Reloaded(act)
<1>1. act \in Activations(prog) /\ avail \in Int
  BY DEF Typed, StackInv
<1>2. /\ act2 \in Activations(prog) /\ act2.at = act.at /\ act2.f = act.f /\ act2.e = act.e
      /\ act2.locals = act.locals /\ act2.roots = act.roots /\ act2.next = act.next
      /\ act2.prev = act.prev /\ act2.avail = avail
  BY <1>1 DEF Activations, Reloaded
<1> HIDE DEF act2
<1>3. Typed(prog, act2)
  BY <1>2 DEF Typed
<1> QED
  BY <1>2, <1>3 DEF act2

\* The collection on entry is over.
LEMMA EnterPopStep == StackInv /\ EnterPop => StackInv'
<1> SUFFICES ASSUME StackInv, EnterPop PROVE StackInv'
  OBVIOUS
<1> DEFINE act1 == Pop(a, 0, live)
           act2 == Reloaded(act1)
           act3 == [act2 EXCEPT !.at = "body"]
           n == Len(live)
<1>1. /\ CodeFacts(prog) /\ Typed(prog, a) /\ Holds(prog, a) /\ FunFacts(prog, a.f)
  BY TopFacts
<1>2. a.at = "entryPop" /\ prog' = prog /\ avail' = avail /\ avail \in Int
  BY DEF EnterPop, StackInv
<1>3. /\ live \in Seq(Nat) /\ n \in Nat /\ 0 + n <= prog.size[a.f]
      /\ Range(live) = prog.fv[a.e] /\ Pushed(prog, a) = n
  BY <1>1, <1>2 DEF FunFacts, live, Typed, Pushed
<1>4. /\ Typed(prog, act1) /\ act1.at = a.at /\ act1.f = a.f /\ act1.e = a.e
      /\ act1.roots = a.roots /\ act1.next = a.next /\ act1.prev = a.prev
      /\ \A x \in Names(prog, a.f) : x \in Range(live) => act1.locals[x] \in Usable
  <2>1. \A o \in 0 .. 0 + n - 1 : a.roots[o] \in Usable
    BY <1>1, <1>3 DEF Holds
  <2> QED BY <1>1, <1>3, <2>1, PopFields
<1> HIDE DEF act1
<1>5. \A x \in prog.fv[a.e] : act1.locals[x] \in Usable
  <2>1. prog.fv[a.e] \subseteq Names(prog, a.f)
    BY <1>1, Readable DEF Typed
  <2> QED BY <1>3, <1>4, <2>1
<1>6. /\ Typed(prog, act2) /\ act2.at = act1.at /\ act2.f = act1.f /\ act2.e = act1.e
      /\ act2.locals = act1.locals /\ act2.roots = act1.roots /\ act2.next = act1.next
      /\ act2.prev = act1.prev
  BY <1>4, ReloadedFields
<1> HIDE DEF act2
<1>7. /\ act3 \in Activations(prog) /\ act3.at = "body" /\ act3.f = a.f /\ act3.e = a.e
      /\ act3.roots = a.roots /\ act3.next = a.next /\ act3.prev = a.prev
      /\ act3.locals = act1.locals
  <2>1. act2 \in Activations(prog)
    BY <1>6 DEF Typed
  <2> QED BY <1>4, <1>6, <2>1 DEF Activations, Ats
<1>8. stack' = [stack EXCEPT ![Top] = act3]
  BY DEF EnterPop, Running, act2, act1
<1> HIDE DEF act3
<1>9. fp' = IF Pushed(prog, a) = 0 THEN fp ELSE a.prev
  BY <1>3 DEF EnterPop, reset_stack
<1>10. act3.locals \in [Names(prog, a.f) -> Contents]
  BY <1>4, <1>7 DEF Typed
<1>11. Slots(prog.exps)[act3.e] <= prog.size[a.f]
  BY <1>1, <1>7 DEF Typed
<1> QED
  BY <1>2, <1>5, <1>7, <1>8, <1>9, <1>10, <1>11, BodySteps

\* Running code has what it reads, and reads only variables.
LEMMA BodyFacts ==
    ASSUME StackInv, a.at = "body"
    PROVE  /\ \A x \in prog.fv[a.e] : a.locals[x] \in Usable
           /\ \A k \in DOMAIN exp.ys : a.locals[exp.ys[k]] \in Usable
           /\ Pushed(prog, a) = 0 /\ exp = prog.exps[a.e]
           /\ prog.fv[a.e] \cup Binds(exp) \subseteq Names(prog, a.f)
<1>1. CodeFacts(prog) /\ Typed(prog, a) /\ Holds(prog, a)
  BY TopFacts
<1>2. Pushed(prog, a) = 0 /\ exp = prog.exps[a.e]
  BY DEF Pushed, exp, exps
<1>3. \A x \in prog.fv[a.e] : a.locals[x] \in Usable
  BY <1>1 DEF Holds
<1>4. DOMAIN a.locals = Names(prog, a.f)
  BY <1>1 DEF Typed
<1> QED
  BY <1>1, <1>2, <1>3, <1>4, Readable

\* A variable gets a value.
LEMMA BindSteps ==
    ASSUME StackInv, a.at = "body", exp.op \in {"constr", "proj", "primval", "prim"},
           NEW v \in Usable, NEW n \in Int, Bind(v, n)
    PROVE  StackInv'
<1> DEFINE act == [a EXCEPT !.locals[exp.x] = v, !.avail = @ - n, !.e = exp.next]
           N == Names(prog, a.f)
<1>1. /\ Typed(prog, a) /\ a \in Activations(prog) /\ ExpFacts(prog, a.e) /\ a.avail \in Int
      /\ a.locals \in [N -> Contents]
  BY TopFacts DEF Typed
<1>2. /\ \A x \in prog.fv[a.e] : a.locals[x] \in Usable
      /\ Pushed(prog, a) = 0 /\ exp = prog.exps[a.e]
      /\ prog.fv[a.e] \cup Binds(exp) \subseteq N
  BY BodyFacts
<1>3. Subs(exp) = {exp.next} /\ Binds(exp) = {exp.x}
  BY DEF Subs, Binds
<1>4. /\ exp.next \in DOMAIN prog.exps /\ prog.fv[exp.next] \subseteq prog.fv[a.e] \cup {exp.x}
      /\ Slots(prog.exps)[exp.next] <= Slots(prog.exps)[a.e]
  BY <1>1, <1>2, <1>3 DEF ExpFacts
<1>5. Slots(prog.exps)[exp.next] <= prog.size[a.f]
  <2>1. /\ Slots(prog.exps)[a.e] \in Nat /\ Slots(prog.exps)[exp.next] \in Nat
        /\ prog.size[a.f] \in Nat
    <3>1. Slots(prog.exps) \in [DOMAIN prog.exps -> Nat]
      BY CompiledSlots DEF StackInv
    <3> QED BY <1>4, <3>1, TopFacts DEF FunFacts
  <2> QED BY <1>1, <1>4, <2>1 DEF Typed
<1> DEFINE locals == [a.locals EXCEPT ![exp.x] = v]
<1>6. /\ locals \in [N -> Contents] /\ locals[exp.x] = v
      /\ \A x \in N : x # exp.x => locals[x] = a.locals[x]
  BY <1>1, <1>2, <1>3 DEF Contents
<1>7. act = [a EXCEPT !.locals = locals, !.avail = a.avail - n, !.e = exp.next]
  BY <1>1 DEF Activations
<1>13. stack' = [stack EXCEPT ![Top] = act] /\ prog' = prog /\ fp' = fp /\ avail' = avail
  BY DEF Bind, Running
<1> HIDE DEF locals, act
<1>8. /\ act \in Activations(prog) /\ act.at = "body" /\ act.f = a.f /\ act.e = exp.next
      /\ act.locals = locals /\ act.roots = a.roots /\ act.next = a.next /\ act.prev = a.prev
  <2>1. locals \in UNION {[Names(prog, f) -> Contents] : f \in DOMAIN prog.funs}
    BY <1>6, TopFacts
  <2>2. a.avail - n \in Int
    BY <1>1
  <2> QED BY <1>1, <1>4, <1>7, <2>1, <2>2 DEF Activations
<1>9. stack' = [stack EXCEPT ![Top] = act] /\ prog' = prog /\ fp' = fp /\ avail' = avail
  BY <1>13
<1>10. \A x \in prog.fv[exp.next] : locals[x] \in Usable
  BY <1>2, <1>3, <1>4, <1>6
<1>11. avail' \in Int
  BY <1>9 DEF StackInv
<1>12. fp' = (IF Pushed(prog, a) = 0 THEN fp ELSE a.prev) /\ a.at # "entry"
  BY <1>2, <1>9
<1> QED
  BY <1>5, <1>6, <1>8, <1>9, <1>10, <1>11, <1>12, BodySteps

\* What is computed is an integer, an address of a new object or of one that
\* is read where its address says.
LEMMA StraightLineStep ==
    StackInv /\ (Construct \/ Literal \/ Project \/ Compute) => StackInv'
<1> SUFFICES ASSUME StackInv, Construct \/ Literal \/ Project \/ Compute PROVE StackInv'
  OBVIOUS
<1>1. a.at = "body"
  BY DEF Construct, Literal, Project, Compute, Body
<1>2. /\ ExpFacts(prog, a.e) /\ exp = prog.exps[a.e]
      /\ \A k \in DOMAIN exp.ys : a.locals[exp.ys[k]] \in Usable
  BY <1>1, TopFacts, BodyFacts
<1>3. CASE Construct
  <2>1. exp.op = "constr" /\ Len(exp.ys) \in Nat
    BY <1>2, <1>3 DEF Construct, Body, ExpFacts
  <2>2. \E v \in Usable, n \in Int : Bind(v, n)
    <3>1. CASE exp.ys = <<>>
      BY <1>3, <3>1 DEF Construct, Usable
    <3>2. CASE exp.ys # <<>>
      <4>1. Bind(Fresh, 1 + Len(exp.ys)) /\ 1 + Len(exp.ys) \in Int /\ Fresh \in Usable
        BY <1>3, <2>1, <3>2 DEF Construct, Usable
      <4> QED BY <4>1
    <3> QED BY <3>1, <3>2
  <2> QED BY <1>1, <2>1, <2>2, BindSteps
<1>4. CASE Literal
  <2>1. exp.op = "primval" /\ exp.words \in Nat
    BY <1>2, <1>4 DEF Literal, Body, ExpFacts
  <2>2. \E v \in Usable, n \in Int : Bind(v, n)
    BY <1>4, <2>1 DEF Literal, Usable
  <2> QED BY <1>1, <2>1, <2>2, BindSteps
<1>5. CASE Project
  <2>1. exp.op = "proj" /\ 1 \in DOMAIN exp.ys
    <3>1. exp.op = "proj"
      BY <1>5 DEF Project, Body
    <3>2. exp.ys \in Seq(Nat) /\ Len(exp.ys) = 1
      BY <1>2, <3>1 DEF ExpFacts
    <3> QED BY <3>1, <3>2
  <2>2. a.locals[exp.ys[1]] \in Usable
    BY <1>2, <2>1
  <2>3. \E v \in Usable : Bind(v, 0)
    BY <1>5, <2>2 DEF Project
  <2> QED BY <1>1, <2>1, <2>3, BindSteps
<1>6. CASE Compute
  <2>1. exp.op = "prim"
    BY <1>6 DEF Compute, Body
  <2>2. {Immediate} \cup {a.locals[y] : y \in Range(exp.ys)} \subseteq Usable
    BY <1>2 DEF Usable, Range
  <2>3. \E v \in Usable : Bind(v, 0)
    BY <1>6, <2>2 DEF Compute
  <2> QED BY <1>1, <2>1, <2>3, BindSteps
<1> QED
  BY <1>3, <1>4, <1>5, <1>6

\* An arm of a switch is taken.
LEMMA SwitchStep == StackInv /\ Switch => StackInv'
<1> SUFFICES ASSUME StackInv, Switch PROVE StackInv'
  OBVIOUS
<1>1. a.at = "body" /\ exp.op = "case" /\ prog' = prog /\ fp' = fp /\ avail' = avail
  BY DEF Switch, Body
<1>2. PICK e \in exp.arms : Running([a EXCEPT !.e = e])
  BY DEF Switch
<1> DEFINE act == [a EXCEPT !.e = e]
<1>3. /\ Typed(prog, a) /\ a \in Activations(prog) /\ ExpFacts(prog, a.e)
      /\ a.locals \in [Names(prog, a.f) -> Contents] /\ avail' \in Int
  BY <1>1, TopFacts DEF Typed, StackInv
<1>4. /\ \A x \in prog.fv[a.e] : a.locals[x] \in Usable
      /\ Pushed(prog, a) = 0 /\ exp = prog.exps[a.e]
  BY <1>1, BodyFacts
<1>5. Subs(exp) = exp.arms /\ Binds(exp) = {}
  BY <1>1 DEF Subs, Binds
<1>6. /\ e \in DOMAIN prog.exps /\ prog.fv[e] \subseteq prog.fv[a.e]
      /\ Slots(prog.exps)[e] <= Slots(prog.exps)[a.e]
  BY <1>2, <1>3, <1>4, <1>5 DEF ExpFacts
<1>7. Slots(prog.exps)[e] <= prog.size[a.f]
  <2>1. /\ Slots(prog.exps)[a.e] \in Nat /\ Slots(prog.exps)[e] \in Nat
        /\ prog.size[a.f] \in Nat
    <3>1. Slots(prog.exps) \in [DOMAIN prog.exps -> Nat]
      BY CompiledSlots DEF StackInv
    <3> QED BY <1>6, <3>1, TopFacts DEF FunFacts
  <2> QED BY <1>3, <1>6, <2>1 DEF Typed
<1>8. /\ act \in Activations(prog) /\ act.at = "body" /\ act.f = a.f /\ act.e = e
      /\ act.locals = a.locals /\ act.roots = a.roots /\ act.next = a.next
      /\ act.prev = a.prev
  BY <1>1, <1>3, <1>6 DEF Activations
<1>9. stack' = [stack EXCEPT ![Top] = act]
  BY <1>2 DEF Running
<1> HIDE DEF act
<1>10. \A x \in prog.fv[e] : act.locals[x] \in Usable
  BY <1>4, <1>6, <1>8
<1>11. fp' = (IF Pushed(prog, a) = 0 THEN fp ELSE a.prev) /\ a.at # "entry"
  BY <1>1, <1>4
<1> QED
  BY <1>1, <1>3, <1>7, <1>8, <1>9, <1>10, <1>11, BodySteps

\* Before a call, what is read after it is pushed.
LEMMA SavedFields ==
    ASSUME StackInv, a.at = "body", Calls(exp)
    PROVE  /\ Typed(prog, Saved) /\ Holds(prog, Saved) /\ Saved.at = "call"
           /\ Saved.f = a.f /\ Saved.e = a.e /\ Saved.locals = a.locals
           /\ Saved.prev = a.prev /\ Saved.avail = a.avail
           /\ Pushed(prog, Saved) = Len(across) /\ Len(across) \in Nat
           /\ IF Len(across) > 0 THEN set_stack(Len(across), FALSE) = Top
                                 ELSE set_stack(Len(across), FALSE) = fp
<1> DEFINE n == Len(across)
<1>1. /\ CodeFacts(prog) /\ Typed(prog, a) /\ Holds(prog, a) /\ CallFacts(prog, a.e)
      /\ a.f \in DOMAIN prog.funs /\ a.e \in DOMAIN prog.exps
  BY TopFacts
<1>2. /\ \A x \in prog.fv[a.e] : a.locals[x] \in Usable
      /\ exp = prog.exps[a.e]
  BY BodyFacts
<1>3. /\ across \in Seq(Nat) /\ n \in Nat /\ n <= Slots(prog.exps)[a.e]
      /\ Range(across) \subseteq prog.fv[a.e]
  BY <1>1, <1>2 DEF CallFacts, across
<1>4. n <= prog.size[a.f]
  <2>1. Slots(prog.exps)[a.e] \in Nat /\ prog.size[a.f] \in Nat
    <3>1. Slots(prog.exps) \in [DOMAIN prog.exps -> Nat]
      BY CompiledSlots DEF StackInv
    <3> QED BY <1>1, <3>1, TopFacts DEF FunFacts
  <2> QED BY <1>1, <1>3, <2>1 DEF Typed
<1>5. /\ CodeFacts(prog) /\ Typed(prog, a) /\ across \in Seq(Nat)
      /\ 0 \in Nat /\ 0 + Len(across) <= prog.size[a.f] /\ "call" \in Ats
      /\ Range(across) \subseteq DOMAIN a.locals
      /\ \A x \in Range(across) : a.locals[x] \in Usable
  BY <1>1, <1>2, <1>3, <1>4, Readable DEF Ats
<1>6. Saved = Waiting(a, 0, across, "call")
  BY <1>3 DEF Saved, Waiting
<1>7. /\ Saved \in Activations(prog)
      /\ Saved.at = "call" /\ Saved.f = a.f /\ Saved.e = a.e
      /\ Saved.locals = a.locals /\ Saved.prev = a.prev /\ Saved.avail = a.avail
      /\ Saved.next <= prog.size[a.f]
      /\ (0 + Len(across) # 0 => Saved.next = 0 + Len(across))
      /\ Saved.roots \in [0 .. prog.size[a.f] - 1 -> Contents]
      /\ \A o \in 0 .. 0 + Len(across) - 1 : Saved.roots[o] \in Usable
  <2> HIDE DEF n
  <2>1. /\ Saved \in Activations(prog)
        /\ Saved.at = "call" /\ Saved.f = a.f /\ Saved.e = a.e
        /\ Saved.locals = a.locals /\ Saved.prev = a.prev /\ Saved.avail = a.avail
        /\ Saved.roots \in [0 .. prog.size[a.f] - 1 -> Contents]
    BY <1>5, <1>6, PushFields
  <2>2. /\ Saved.next <= prog.size[a.f]
        /\ (0 + Len(across) # 0 => Saved.next = 0 + Len(across))
    BY <1>5, <1>6, PushFields
  <2>3. \A o \in 0 .. 0 + Len(across) - 1 : Saved.roots[o] \in Usable
    BY <1>5, <1>6, PushFields
  <2> QED BY <2>1, <2>2, <2>3
<1>8. Typed(prog, Saved)
  BY <1>1, <1>2, <1>7 DEF Typed
<1>9. Pushed(prog, Saved) = n
  BY <1>7 DEF Pushed, across
<1>10. Holds(prog, Saved)
  <2>1. (n # 0 => Saved.next = n) /\ \A o \in 0 .. n - 1 : Saved.roots[o] \in Usable
    BY <1>3, <1>7
  <2> HIDE DEF n
  <2> QED BY <1>3, <1>7, <1>9, <2>1 DEF Holds
<1>11. IF n > 0 THEN set_stack(n, FALSE) = Top ELSE set_stack(n, FALSE) = fp
  <2> HIDE DEF n
  <2> QED BY <1>3 DEF set_stack
<1> QED
  BY <1>3, <1>7, <1>8, <1>9, <1>10, <1>11

\* A primitive gets the thread_info.
LEMMA CallPrimitiveStep == StackInv /\ CallPrimitive => StackInv'
<1> SUFFICES ASSUME StackInv, CallPrimitive PROVE StackInv'
  OBVIOUS
<1> DEFINE act == [Saved EXCEPT !.at = "prim"]
<1>1. /\ a.at = "body" /\ Calls(exp) /\ prog' = prog /\ avail' = a.avail
      /\ fp' = set_stack(Len(across), FALSE) /\ stack' = [stack EXCEPT ![Top] = act]
  BY DEF CallPrimitive, Body, Calls, Running
<1>2. /\ Typed(prog, Saved) /\ Holds(prog, Saved) /\ Saved.at = "call"
      /\ Saved.f = a.f /\ Saved.e = a.e /\ Saved.locals = a.locals
      /\ Saved.prev = a.prev
      /\ Pushed(prog, Saved) = Len(across) /\ Len(across) \in Nat
      /\ IF Len(across) > 0 THEN fp' = Top ELSE fp' = fp
  BY <1>1, SavedFields
<1>3. /\ Below(prog, stack, Top, a.prev) /\ a.avail \in Int
      /\ Below(prog, stack, Top, fp)
  BY <1>1, BodyFacts, TopFacts
<1>4. /\ act \in Activations(prog) /\ act.at = "prim" /\ act.f = Saved.f /\ act.e = Saved.e
      /\ act.locals = Saved.locals /\ act.roots = Saved.roots /\ act.next = Saved.next
      /\ act.prev = Saved.prev
  BY <1>2 DEF Typed, Activations, Ats
<1> HIDE DEF act
<1>5. Pushed(prog, act) = Len(across) /\ Pushed(prog, act) = Pushed(prog, Saved)
  BY <1>2, <1>4 DEF Pushed, across
<1>6. Typed(prog, act) /\ Holds(prog, act)
  BY <1>2, <1>4, <1>5 DEF Typed, Holds
<1>7. /\ act.at # "call" /\ Below(prog, stack, Top, act.prev)
      /\ IF Pushed(prog, act) > 0 THEN fp' = Top ELSE Below(prog, stack, Top, fp')
  BY <1>2, <1>3, <1>4, <1>5
<1> QED
  BY <1>1, <1>3, <1>6, <1>7, TopSteps

\* A callee gets its arguments.
LEMMA CalleeIsNew ==
    ASSUME StackInv, a.at = "body", exp.op \in {"letapp", "app"}, NEW f \in exp.fs
    PROVE  /\ Typed(prog, Callee(f)) /\ Holds(prog, Callee(f))
           /\ Callee(f).at = "entry" /\ Callee(f).prev = 0
<1>1. /\ ExpFacts(prog, a.e) /\ exp = prog.exps[a.e] /\ IsCompiled(prog)
      /\ \A k \in DOMAIN exp.ys : a.locals[exp.ys[k]] \in Usable
  BY BodyFacts, TopFacts DEF StackInv
<1>2. /\ f \in DOMAIN prog.funs /\ exp.ys \in Seq(Nat)
      /\ Len(exp.ys) = Len(prog.funs[f].params)
  BY <1>1 DEF ExpFacts
<1>3. prog.funs[f].params \in Seq(Nat)
  BY <1>2, TopFacts DEF CodeFacts, FunFacts
<1>4. DOMAIN exp.ys = DOMAIN prog.funs[f].params
  BY <1>2, <1>3
<1>5. Args \in [DOMAIN prog.funs[f].params -> Usable]
  BY <1>1, <1>4 DEF Args
<1> QED
  BY <1>1, <1>2, <1>5, NewActivation DEF Callee

\* A call: the caller waits below its callee.
LEMMA CallFunctionStep == StackInv /\ CallFunction => StackInv'
<1> SUFFICES ASSUME StackInv, CallFunction PROVE StackInv'
  OBVIOUS
<1>1. a.at = "body" /\ exp.op = "letapp" /\ Calls(exp) /\ prog' = prog
  BY DEF CallFunction, Body, Calls
<1>2. CASE Top < MaxDepth
  <2>1. PICK f \in exp.fs :
        /\ stack' = Append([stack EXCEPT ![Len(stack)] = Saved], Callee(f))
        /\ avail' = a.avail /\ fp' = set_stack(Len(across), FALSE)
    BY <1>2 DEF CallFunction, Top
  <2>2. /\ Typed(prog, Saved) /\ Holds(prog, Saved) /\ Saved.at = "call"
        /\ Saved.prev = a.prev /\ Pushed(prog, Saved) = Len(across) /\ Len(across) \in Nat
        /\ IF Len(across) > 0 THEN fp' = Top ELSE fp' = fp
    BY <1>1, <2>1, SavedFields
  <2>3. /\ Below(prog, stack, Top, a.prev) /\ Below(prog, stack, Top, fp)
        /\ a.avail \in Int /\ CodeFacts(prog)
    BY <1>1, BodyFacts, TopFacts
  <2>4. Typed(prog, Callee(f)) /\ Holds(prog, Callee(f)) /\ Callee(f).at = "entry"
    BY <1>1, CalleeIsNew
  <2>5. /\ StackOK(prog, stack, fp) /\ IsCompiled(prog) /\ Len(stack) < MaxDepth
        /\ Below(prog, stack, Len(stack), Saved.prev)
        /\ IF Pushed(prog, Saved) > 0 THEN fp' = Len(stack)
           ELSE Below(prog, stack, Len(stack), fp')
    BY <1>2, <2>2, <2>3 DEF StackInv, Top
  <2>6. StackOK(prog, stack', fp')
    BY <2>1, <2>2, <2>3, <2>4, <2>5, Pushes
  <2> QED
    BY <1>1, <2>1, <2>3, <2>5, <2>6 DEF StackInv
<1>3. CASE ~ (Top < MaxDepth)
  BY <1>1, <1>3 DEF CallFunction, StackInv
<1> QED
  BY <1>2, <1>3

\* A tail call takes the place of its caller.
LEMMA TailCallStep == StackInv /\ TailCall => StackInv'
<1> SUFFICES ASSUME StackInv, TailCall PROVE StackInv'
  OBVIOUS
<1>0. PICK f \in exp.fs : stack' = [stack EXCEPT ![Top] = Callee(f)]
  BY DEF TailCall
<1> DEFINE callee == Callee(f)
<1>1. /\ a.at = "body" /\ exp.op = "app" /\ prog' = prog /\ avail' = a.avail /\ fp' = fp
      /\ stack' = [stack EXCEPT ![Top] = callee]
  BY <1>0 DEF TailCall, Body
<1>2. Typed(prog, callee) /\ Holds(prog, callee) /\ callee.at = "entry"
  BY <1>1, CalleeIsNew
<1> HIDE DEF callee
<1>3. Pushed(prog, callee) = 0
  BY <1>2 DEF Pushed
<1>4. a.avail \in Int /\ Below(prog, stack, Top, fp')
  BY <1>1, BodyFacts, TopFacts
<1>5. /\ callee.at # "call" /\ (callee.at # "entry" => Below(prog, stack, Top, callee.prev))
      /\ IF Pushed(prog, callee) > 0 THEN fp' = Top ELSE Below(prog, stack, Top, fp')
  BY <1>2, <1>3, <1>4
<1> QED
  BY <1>1, <1>2, <1>4, <1>5, TopSteps

\* A result arrives.
Answered(c, act, v) == [act EXCEPT !.at = "returned", !.locals[c.exps[act.e].x] = v]

\* It waits no more, and holds what it held and the result.
LEMMA ResultFields ==
    ASSUME NEW c, CodeFacts(c), NEW act, Typed(c, act), Holds(c, act),
           act.at \in {"call", "prim"}, NEW v \in Usable,
           NEW act2, act2 = Answered(c, act, v)
    PROVE  /\ Typed(c, act2) /\ Holds(c, act2) /\ act2.at = "returned" /\ act2.prev = act.prev
           /\ act2.e = act.e /\ Pushed(c, act2) = Pushed(c, act)
<1> DEFINE x == c.exps[act.e].x
           locals == [act.locals EXCEPT ![x] = v]
<1>1. act \in Activations(c) /\ act.locals \in [Names(c, act.f) -> Contents]
  BY DEF Typed
<1>2. x \in Names(c, act.f)
  <2>1. Calls(c.exps[act.e])
    BY DEF Typed
  <2>2. x \in Binds(c.exps[act.e])
    BY <2>1 DEF Calls, Binds
  <2> QED BY <1>1, <2>2, Readable
<1>3. locals \in [Names(c, act.f) -> Contents] /\ locals[x] = v
  BY <1>1, <1>2 DEF Contents
<1>4. act2 = [act EXCEPT !.at = "returned", !.locals = locals]
  BY <1>1 DEF Activations, Answered
<1> HIDE DEF locals
<1>5. locals \in UNION {[Names(c, f) -> Contents] : f \in DOMAIN c.funs}
  BY <1>1, <1>3, ActivationFields
<1>6. /\ act2 \in Activations(c) /\ act2.at = "returned" /\ act2.f = act.f /\ act2.e = act.e
      /\ act2.locals = locals /\ act2.roots = act.roots /\ act2.next = act.next
      /\ act2.prev = act.prev
  BY <1>1, <1>4, <1>5 DEF Activations, Ats
<1>7. Pushed(c, act2) = Pushed(c, act)
  <2>1. Pushed(c, act) = Len(c.across[act.e])
    BY DEF Pushed
  <2>2. Pushed(c, act2) = Len(c.across[act.e])
    BY <1>6 DEF Pushed
  <2> QED BY <2>1, <2>2
<1>8. Typed(c, act2)
  BY <1>3, <1>6 DEF Typed
<1>9. Holds(c, act2)
  BY <1>3, <1>6, <1>7 DEF Holds
<1> QED
  BY <1>6, <1>7, <1>8, <1>9

\* A primitive returns.
LEMMA PrimitiveReturnsStep == StackInv /\ PrimitiveReturns => StackInv'
<1> SUFFICES ASSUME StackInv, PrimitiveReturns PROVE StackInv'
  OBVIOUS
<1>1. PICK v \in Usable, n \in 0 .. avail :
          /\ Running([a EXCEPT !.at = "returned", !.locals[exp.x] = v])
          /\ avail' = avail - n /\ room' = room - n
  BY DEF PrimitiveReturns
<1> DEFINE act == Answered(prog, a, v)
<1>2. a.at = "prim" /\ prog' = prog /\ fp' = fp /\ stack' = [stack EXCEPT ![Top] = act]
  BY <1>1 DEF PrimitiveReturns, Running, exp, exps, Answered
<1>3. avail' \in Int
  BY <1>1 DEF StackInv
<1>4. /\ CodeFacts(prog) /\ Typed(prog, a) /\ Holds(prog, a)
      /\ Pushed(prog, a) = 0 => Below(prog, stack, Top, fp)
      /\ Pushed(prog, a) > 0 => fp = Top
      /\ Below(prog, stack, Top, a.prev)
  BY <1>2, TopFacts
<1>5. /\ Typed(prog, act) /\ Holds(prog, act) /\ act.at = "returned" /\ act.prev = a.prev
      /\ Pushed(prog, act) = Pushed(prog, a)
  BY <1>2, <1>4, ResultFields
<1> HIDE DEF act
<1>6. Pushed(prog, a) \in Nat
  BY <1>4, PushedNumber
<1>7. IF Pushed(prog, act) > 0 THEN fp' = Top ELSE Below(prog, stack, Top, fp')
  BY <1>2, <1>4, <1>5, <1>6
<1> QED
  BY <1>2, <1>3, <1>4, <1>5, <1>7, TopSteps

\* A function returns, to a caller whose frame is as it was.
LEMMA ReturnStep == StackInv /\ Return => StackInv'
<1> SUFFICES ASSUME StackInv, Return PROVE StackInv'
  OBVIOUS
<1>1. a.at = "body" /\ exp.op = "halt" /\ prog' = prog /\ avail' = a.avail /\ fp' = fp
  BY DEF Return, Body
<1>2. /\ CodeFacts(prog) /\ IsCompiled(prog) /\ StackOK(prog, stack, fp) /\ a.avail \in Int
      /\ ExpFacts(prog, a.e) /\ Pushed(prog, a) = 0 /\ exp = prog.exps[a.e]
      /\ \A k \in DOMAIN exp.ys : a.locals[exp.ys[k]] \in Usable
  BY <1>1, TopFacts, BodyFacts DEF StackInv
<1>3. CASE Top = 1
  BY <1>1, <1>2, <1>3 DEF Return, StackInv
<1>4. CASE Top # 1
  <2> DEFINE caller == stack[Top - 1]
             v == a.locals[exp.ys[1]]
             act == Answered(prog, caller, v)
  <2>1. stack' = [SubSeq(stack, 1, Len(stack) - 1) EXCEPT ![Len(stack) - 1] = act]
    BY <1>4 DEF Return, exps, Top, Answered
  <2>2. v \in Usable
    <3>1. exp.ys \in Seq(Nat) /\ Len(exp.ys) = 1
      BY <1>1, <1>2 DEF ExpFacts
    <3> QED BY <1>2, <3>1
  <2>3. Typed(prog, caller) /\ Holds(prog, caller) /\ caller.at = "call"
    <3>1. Top \in Nat /\ Top \in 1 .. Top
      BY TopFacts
    <3>2. Top - 1 \in 1 .. Len(stack) /\ Top - 1 < Len(stack)
      BY <1>4, <3>1 DEF Top
    <3> QED BY <1>2, <3>2 DEF StackOK
  <2> HIDE DEF v, caller
  <2>4. /\ Typed(prog, act) /\ Holds(prog, act) /\ act.at = "returned"
        /\ act.prev = caller.prev /\ Pushed(prog, act) = Pushed(prog, caller)
    BY <1>2, <2>2, <2>3, ResultFields
  <2> HIDE DEF act
  <2>5. /\ act.prev = stack[Len(stack) - 1].prev
        /\ Pushed(prog, act) = Pushed(prog, stack[Len(stack) - 1])
        /\ act.at \notin {"call", "entry"}
        /\ Len(stack) # 1 /\ Pushed(prog, stack[Len(stack)]) = 0
    BY <1>2, <1>4, <2>4 DEF caller, Top, a
  <2>6. StackOK(prog, stack', fp)
    BY <1>2, <2>1, <2>4, <2>5, Returns
  <2> QED
    BY <1>1, <1>2, <2>6 DEF StackInv
<1> QED
  BY <1>3, <1>4

\* What is pushed around the call that the running activation is at.
LEMMA CallTop ==
    ASSUME StackInv, Calls(exp)
    PROVE  /\ exp = prog.exps[a.e] /\ exp.x \in Nat /\ exp.next \in Subs(exp)
           /\ Binds(exp) = {exp.x}
           /\ across \in Seq(Nat) /\ Len(across) \in Nat
           /\ Len(across) <= Slots(prog.exps)[a.e]
           /\ Range(across) = prog.fv[exp.next] \ {exp.x}
           /\ prog.fv[exp.next] \ {exp.x} \subseteq prog.fv[a.e]
           /\ result = IF exp.x \in prog.fv[exp.next] THEN <<exp.x>> ELSE <<>>
           /\ result \in Seq(Nat) /\ Len(result) \in {0, 1}
           /\ prog.words[exp.next] # 0 =>
                 Len(across) + Len(result) <= Slots(prog.exps)[a.e]
<1>1. CallFacts(prog, a.e) /\ exp = prog.exps[a.e]
  BY TopFacts DEF exp, exps
<1>2. across = prog.across[a.e] /\ result = prog.result[a.e]
  BY DEF across, result
<1>3. Binds(exp) = {exp.x}
  BY DEF Calls, Binds
<1> HIDE DEF across, result, exp
<1>4. /\ exp.x \in Nat /\ exp.next \in Subs(exp)
      /\ across \in Seq(Nat) /\ Len(across) <= Slots(prog.exps)[a.e]
      /\ Range(across) = prog.fv[exp.next] \ {exp.x}
      /\ prog.fv[exp.next] \ {exp.x} \subseteq prog.fv[a.e]
      /\ result = IF exp.x \in prog.fv[exp.next] THEN <<exp.x>> ELSE <<>>
      /\ prog.words[exp.next] # 0 => Len(across) + Len(result) <= Slots(prog.exps)[a.e]
  BY <1>1, <1>2 DEF CallFacts
<1>5. result \in Seq(Nat) /\ Len(result) \in {0, 1}
  <2>1. CASE exp.x \in prog.fv[exp.next]
    <3>1. result = <<exp.x>>
      BY <1>4, <2>1
    <3> QED BY <1>4, <3>1
  <2>2. CASE exp.x \notin prog.fv[exp.next]
    <3>1. result = <<>>
      BY <1>4, <2>2
    <3> QED BY <3>1
  <2> QED BY <2>1, <2>2
<1> QED
  BY <1>1, <1>3, <1>4, <1>5

\* After a call what was pushed before it is popped, and the rest of the code
\* reads nothing but that and the result.
LEMMA DiscardedFields ==
    ASSUME StackInv, Calls(exp), NEW act, Typed(prog, act), act.f = a.f,
           \A o \in 0 .. Len(across) - 1 : act.roots[o] \in Usable,
           exp.x \in prog.fv[exp.next] => act.locals[exp.x] \in Usable
    PROVE  LET act2 == Discarded(act) IN
           /\ act2 \in Activations(prog) /\ act2.at = "body" /\ act2.f = a.f
           /\ act2.roots = act.roots /\ act2.next = act.next /\ act2.prev = act.prev
           /\ act2.locals \in [Names(prog, a.f) -> Contents]
           /\ Slots(prog.exps)[act2.e] <= prog.size[a.f]
           /\ \A x \in prog.fv[act2.e] : act2.locals[x] \in Usable
<1> DEFINE act1 == Pop(act, 0, across)
           act2 == Discarded(act)
           N == Names(prog, a.f)
<1>1. /\ CodeFacts(prog) /\ Typed(prog, a) /\ CallFacts(prog, a.e) /\ ExpFacts(prog, a.e)
      /\ a.f \in DOMAIN prog.funs /\ a.e \in DOMAIN prog.exps /\ exp = prog.exps[a.e]
  BY TopFacts DEF exp, exps
<1>2. /\ across \in Seq(Nat) /\ Len(across) \in Nat /\ Len(across) <= Slots(prog.exps)[a.e]
      /\ Range(across) = prog.fv[exp.next] \ {exp.x}
      /\ prog.fv[exp.next] \ {exp.x} \subseteq prog.fv[a.e]
      /\ exp.next \in Subs(exp) /\ Binds(exp) = {exp.x}
  BY CallTop
<1>3. /\ Slots(prog.exps)[a.e] <= prog.size[a.f]
      /\ Slots(prog.exps)[exp.next] <= Slots(prog.exps)[a.e]
      /\ exp.next \in DOMAIN prog.exps
      /\ prog.fv[exp.next] \subseteq N
  <2>1. prog.fv[a.e] \cup Binds(exp) \subseteq N
    BY <1>1, Readable DEF Typed
  <2> QED BY <1>1, <1>2, <2>1 DEF ExpFacts, Typed
<1>4. Slots(prog.exps)[a.e] \in Nat /\ Slots(prog.exps)[exp.next] \in Nat /\ prog.size[a.f] \in Nat
  <2>1. Slots(prog.exps) \in [DOMAIN prog.exps -> Nat]
    BY CompiledSlots DEF StackInv
  <2> QED BY <1>1, <1>3, <2>1, TopFacts DEF FunFacts
<1>5. 0 \in Nat /\ 0 + Len(across) <= prog.size[act.f]
  BY <1>2, <1>3, <1>4
<1>6. \A o \in 0 .. 0 + Len(across) - 1 : act.roots[o] \in Usable
  BY <1>2
<1>7. /\ Typed(prog, act1) /\ act1.at = act.at /\ act1.f = a.f
      /\ act1.roots = act.roots /\ act1.next = act.next /\ act1.prev = act.prev
      /\ act1.avail = act.avail
  BY <1>1, <1>2, <1>5, PopFields
<1>8. /\ \A x \in N : x \notin Range(across) => act1.locals[x] = act.locals[x]
      /\ \A x \in N : x \in Range(across) => act1.locals[x] \in Usable
  BY <1>1, <1>2, <1>5, <1>6, PopFields
<1>9. act2 = [act1 EXCEPT !.at = "body", !.e = exp.next]
  BY DEF Discarded
<1> HIDE DEF act1, act2
<1>10. act1 \in Activations(prog) /\ act1.locals \in [N -> Contents]
  BY <1>7 DEF Typed
<1>11. /\ act2 \in Activations(prog) /\ act2.at = "body" /\ act2.f = act1.f
       /\ act2.e = exp.next /\ act2.locals = act1.locals
       /\ act2.roots = act1.roots /\ act2.next = act1.next /\ act2.prev = act1.prev
  BY <1>3, <1>9, <1>10 DEF Activations, Ats
<1>12. Slots(prog.exps)[exp.next] <= prog.size[a.f]
  BY <1>3, <1>4
<1>13. \A x \in prog.fv[exp.next] : act1.locals[x] \in Usable
  BY <1>2, <1>3, <1>8
<1> QED
  BY <1>7, <1>10, <1>11, <1>12, <1>13 DEF act2

\* A call has returned, and the code goes on or asks for the words that it
\* allocates until the next one.
LEMMA AfterCallStep == StackInv /\ AfterCall => StackInv'
<1> SUFFICES ASSUME StackInv, AfterCall PROVE StackInv'
  OBVIOUS
<1> DEFINE act == Reloaded(a)
           act1 == Discarded(act)
           act2 == [update_stack(Push(act, Len(across), result), Len(across) + Len(result))
                      EXCEPT !.at = "callGc"]
           off == Len(across)
           n == Len(result)
           words == prog.words[exp.next]
<1>1. /\ CodeFacts(prog) /\ Typed(prog, a) /\ Holds(prog, a) /\ CallFacts(prog, a.e)
      /\ Pushed(prog, a) = 0 => Below(prog, stack, Top, fp)
      /\ Pushed(prog, a) > 0 => fp = Top
      /\ a.f \in DOMAIN prog.funs /\ a.e \in DOMAIN prog.exps /\ exp = prog.exps[a.e]
  BY TopFacts DEF exp, exps
<1>2. a.at = "returned" /\ prog' = prog /\ avail' = avail /\ avail' \in Int
  BY DEF AfterCall, StackInv
<1>3. /\ Calls(exp) /\ Below(prog, stack, Top, a.prev)
      /\ Pushed(prog, a) = off /\ a.locals[exp.x] \in Usable
  BY <1>1, <1>2, TopFacts DEF Typed, Pushed, Holds, across
<1>4. /\ across \in Seq(Nat) /\ off \in Nat /\ result \in Seq(Nat) /\ n \in {0, 1}
      /\ result = IF exp.x \in prog.fv[exp.next] THEN <<exp.x>> ELSE <<>>
      /\ exp.x \in Nat
  BY <1>3, CallTop
<1>5. \A o \in 0 .. off - 1 : a.roots[o] \in Usable
  BY <1>1, <1>3 DEF Holds
<1>6. /\ Typed(prog, act) /\ act.at = a.at /\ act.f = a.f /\ act.e = a.e
      /\ act.locals = a.locals /\ act.roots = a.roots /\ act.next = a.next
      /\ act.prev = a.prev
  BY <1>1, ReloadedFields
<1> HIDE DEF act
<1>7. CASE Running(act1) /\ fp' = reset_stack(off, FALSE)
  <2>1. /\ act1 \in Activations(prog) /\ act1.at = "body" /\ act1.f = a.f
        /\ act1.roots = act.roots /\ act1.next = act.next /\ act1.prev = act.prev
        /\ act1.locals \in [Names(prog, a.f) -> Contents]
        /\ Slots(prog.exps)[act1.e] <= prog.size[a.f]
        /\ \A x \in prog.fv[act1.e] : act1.locals[x] \in Usable
    BY <1>3, <1>5, <1>6, DiscardedFields
  <2> HIDE DEF act1
  <2>2. fp' = (IF Pushed(prog, a) = 0 THEN fp ELSE a.prev) /\ a.at # "entry"
    <3> HIDE DEF off
    <3> QED BY <1>2, <1>3, <1>7 DEF reset_stack
  <2>3. stack' = [stack EXCEPT ![Top] = act1]
    BY <1>7 DEF Running
  <2> QED
    BY <1>2, <1>6, <2>1, <2>2, <2>3, BodySteps
<1>8. CASE /\ Running(act2) /\ words # 0
           /\ fp' = set_stack(off + n, off # 0)
  <2>1. off + n <= prog.size[a.f]
    <3>1. off + n <= Slots(prog.exps)[a.e]
      BY <1>3, <1>8, CallTop
    <3>2. Slots(prog.exps)[a.e] \in Nat /\ prog.size[a.f] \in Nat
      <4>1. Slots(prog.exps) \in [DOMAIN prog.exps -> Nat]
        BY CompiledSlots DEF StackInv
      <4> QED BY <1>1, <4>1, TopFacts DEF FunFacts
    <3>3. Slots(prog.exps)[a.e] <= prog.size[a.f]
      BY <1>1 DEF Typed
    <3> HIDE DEF off, n
    <3> QED BY <1>4, <3>1, <3>2, <3>3
  <2>2. act2 = Waiting(act, Len(across), result, "callGc")
    BY DEF Waiting
  <2> HIDE DEF act2
  <2>3. /\ CodeFacts(prog) /\ Typed(prog, act) /\ result \in Seq(Nat)
        /\ Len(across) \in Nat /\ Len(across) + Len(result) <= prog.size[act.f]
        /\ "callGc" \in Ats
        /\ Range(result) \subseteq DOMAIN act.locals
        /\ \A x \in Range(result) : act.locals[x] \in Usable
    <3>1. exp.x \in DOMAIN a.locals
      <4>1. exp.x \in Binds(exp)
        BY <1>3 DEF Calls, Binds
      <4> QED BY <1>1, <4>1, Readable
    <3>2. Range(result) \subseteq {exp.x}
      BY <1>4 DEF Range
    <3> QED BY <1>1, <1>3, <1>4, <1>6, <2>1, <3>1, <3>2 DEF Ats
  <2>4. /\ act2 \in Activations(prog)
        /\ act2.at = "callGc" /\ act2.f = act.f /\ act2.e = act.e
        /\ act2.locals = act.locals /\ act2.prev = act.prev
        /\ act2.roots \in [0 .. prog.size[act.f] - 1 -> Contents]
    BY <2>2, <2>3, PushFields
  <2>5. /\ act2.next <= prog.size[act.f]
        /\ (Len(across) + Len(result) # 0 => act2.next = Len(across) + Len(result))
    BY <2>2, <2>3, PushFields
  <2>6. \A o \in 0 .. Len(across) - 1 : act2.roots[o] = act.roots[o]
    BY <2>2, <2>3, PushFields
  <2>7. \A o \in Len(across) .. Len(across) + Len(result) - 1 : act2.roots[o] \in Usable
    BY <2>2, <2>3, PushFields
  <2>8. Pushed(prog, act2) = off + n
    BY <1>6, <2>4 DEF Pushed, across, result
  <2>9. Typed(prog, act2)
    BY <1>1, <1>3, <1>6, <2>4, <2>5 DEF Typed
  <2>10. \A o \in 0 .. off + n - 1 : act2.roots[o] \in Usable
    <3> SUFFICES ASSUME NEW o \in 0 .. off + n - 1 PROVE act2.roots[o] \in Usable
      OBVIOUS
    <3>1. off \in Nat /\ n \in Nat
      BY <1>4
    <3>2. o \in 0 .. off - 1 \/ o \in off .. off + n - 1
      <4> HIDE DEF off, n
      <4> QED BY <3>1
    <3> QED BY <1>5, <1>6, <2>6, <2>7, <3>2
  <2>11. Holds(prog, act2)
    <3>1. off + n # 0 => act2.next = off + n
      BY <2>5
    <3> DEFINE sp == off + n
    <3>2. sp > 0 => sp # 0
      OBVIOUS
    <3>3. Pushed(prog, act2) = sp /\ (sp # 0 => act2.next = sp)
          /\ \A o \in 0 .. sp - 1 : act2.roots[o] \in Usable
      BY <2>8, <2>10, <3>1
    <3> HIDE DEF sp
    <3> QED BY <2>4, <3>2, <3>3 DEF Holds
  <2>12. IF off + n > 0 THEN fp' = Top ELSE fp' = fp /\ off = 0
    <3> HIDE DEF off, n
    <3>1. off \in Nat /\ n \in Nat
      BY <1>4
    <3>2. CASE off > 0
      BY <1>1, <1>3, <1>8, <3>1, <3>2 DEF set_stack
    <3>3. CASE off = 0
      BY <1>8, <3>1, <3>3 DEF set_stack
    <3> QED BY <3>1, <3>2, <3>3
  <2>13. /\ act2.at # "call" /\ Below(prog, stack, Top, act2.prev)
         /\ IF Pushed(prog, act2) > 0 THEN fp' = Top ELSE Below(prog, stack, Top, fp')
    <3> HIDE DEF off, n
    <3> QED BY <1>1, <1>3, <1>6, <2>4, <2>8, <2>12
  <2>14. stack' = [stack EXCEPT ![Top] = act2]
    BY <1>8 DEF Running
  <2> QED
    BY <1>2, <2>9, <2>11, <2>13, <2>14, TopSteps
<1> QED
  BY <1>7, <1>8 DEF AfterCall, act

\* The collection after a call is over.
LEMMA AfterCallPopStep == StackInv /\ AfterCallPop => StackInv'
<1> SUFFICES ASSUME StackInv, AfterCallPop PROVE StackInv'
  OBVIOUS
<1> DEFINE off == Len(across)
           n == Len(result)
           act1 == Pop(a, Len(across), result)
           act2 == Reloaded(act1)
           act3 == Discarded(act2)
<1>1. /\ CodeFacts(prog) /\ Typed(prog, a) /\ Holds(prog, a) /\ CallFacts(prog, a.e)
      /\ a.f \in DOMAIN prog.funs /\ a.e \in DOMAIN prog.exps /\ exp = prog.exps[a.e]
  BY TopFacts DEF exp, exps
<1>2. a.at = "callPop" /\ prog' = prog /\ avail' = avail /\ avail' \in Int
  BY DEF AfterCallPop, StackInv
<1>3. Calls(exp) /\ Pushed(prog, a) = off + n
  BY <1>1, <1>2 DEF Typed, Pushed, across, result
<1>4. /\ off \in Nat /\ result \in Seq(Nat) /\ n \in {0, 1}
      /\ result = IF exp.x \in prog.fv[exp.next] THEN <<exp.x>> ELSE <<>>
  BY <1>3, CallTop
<1>5. off + n <= prog.size[a.f]
  <2>1. Pushed(prog, a) > 0 => a.next = Pushed(prog, a) /\ a.next <= prog.size[a.f]
    BY <1>1 DEF Holds, Typed
  <2>2. prog.size[a.f] \in Nat
    BY <1>1, TopFacts DEF FunFacts
  <2> HIDE DEF off, n
  <2> QED BY <1>3, <1>4, <2>1, <2>2
<1>6. \A o \in 0 .. off + n - 1 : a.roots[o] \in Usable
  BY <1>1, <1>3 DEF Holds
<1>7. /\ \A o \in 0 .. off - 1 : a.roots[o] \in Usable
      /\ \A o \in off .. off + n - 1 : a.roots[o] \in Usable
  <2> HIDE DEF off, n
  <2> QED BY <1>4, <1>6
<1>8. /\ Typed(prog, act1) /\ act1.at = a.at /\ act1.f = a.f /\ act1.e = a.e
      /\ act1.roots = a.roots /\ act1.next = a.next /\ act1.prev = a.prev
  <2>1. /\ CodeFacts(prog) /\ Typed(prog, a) /\ result \in Seq(Nat)
        /\ Len(across) \in Nat /\ Len(across) + Len(result) <= prog.size[a.f]
        /\ act1 = Pop(a, Len(across), result)
    BY <1>1, <1>4, <1>5
  <2> HIDE DEF act1, off, n
  <2> QED BY <2>1, PopFields
<1>9. \A x \in Names(prog, a.f) : x \in Range(result) => act1.locals[x] \in Usable
  <2>1. Len(across) \in Nat /\ Len(across) + Len(result) <= prog.size[a.f]
    BY <1>4, <1>5
  <2> QED BY <1>1, <1>4, <1>7, <2>1, PopFields
<1> HIDE DEF act1
<1>10. exp.x \in prog.fv[exp.next] => act1.locals[exp.x] \in Usable
  <2>1. exp.x \in Names(prog, a.f)
    <3>1. exp.x \in Binds(exp)
      BY <1>3 DEF Calls, Binds
    <3> QED BY <1>1, <3>1, Readable DEF Typed
  <2>2. exp.x \in prog.fv[exp.next] => exp.x \in Range(result)
    BY <1>4 DEF Range
  <2> QED BY <1>9, <2>1, <2>2
<1>11. /\ Typed(prog, act2) /\ act2.at = a.at /\ act2.f = a.f /\ act2.e = a.e
       /\ act2.locals = act1.locals /\ act2.roots = a.roots /\ act2.next = a.next
       /\ act2.prev = a.prev
  BY <1>8, ReloadedFields
<1> HIDE DEF act2
<1>12. /\ act3 \in Activations(prog) /\ act3.at = "body" /\ act3.f = a.f
       /\ act3.roots = act2.roots /\ act3.next = act2.next /\ act3.prev = act2.prev
       /\ act3.locals \in [Names(prog, a.f) -> Contents]
       /\ Slots(prog.exps)[act3.e] <= prog.size[a.f]
       /\ \A x \in prog.fv[act3.e] : act3.locals[x] \in Usable
  BY <1>3, <1>7, <1>10, <1>11, DiscardedFields
<1>13. stack' = [stack EXCEPT ![Top] = act3]
  BY DEF AfterCallPop, Running, act2, act1
<1> HIDE DEF act3
<1>14. fp' = (IF Pushed(prog, a) = 0 THEN fp ELSE a.prev) /\ a.at # "entry"
  <2>1. fp' = reset_stack(off + n, FALSE)
    BY DEF AfterCallPop
  <2> HIDE DEF off, n
  <2> QED BY <1>2, <1>3, <2>1 DEF reset_stack
<1> QED
  BY <1>2, <1>11, <1>12, <1>13, <1>14, BodySteps

-----------------------------------------------------------------------------
(* What the collector reads *)

\* The frames on the way of a chain that starts at K.
Chain(n, K, prev, after) ==
    /\ after[0] = K
    /\ \A d \in 1 .. n : /\ after[d - 1] = 0 => after[d] = 0
                         /\ after[d - 1] \in 1 .. n => after[d] = prev[after[d - 1]]

\* Each goes to the last member of F before it.
Descends(F, prev) ==
    \A j \in F : /\ prev[j] \in {0} \cup F /\ prev[j] < j
                 /\ \A i \in F : i < j => i <= prev[j]

Visits(n, F, after) == {after[d] : d \in 0 .. n} \ {0} = F

\* A chain that goes from K down, each time to the last member of F before,
\* goes through all of F.
LEMMA ChainVisits ==
    ASSUME NEW n \in Nat, NEW F, F \subseteq 1 .. n, NEW prev,
           NEW K \in {0} \cup F, \A i \in F : i <= K,
           Descends(F, prev), NEW after, Chain(n, K, prev, after)
    PROVE  Visits(n, F, after)
<1> DEFINE reached(j) == \E e \in 0 .. n : after[e] = j
           P(d) == /\ after[d] \in {0} \cup F
                   /\ after[d] # 0 => after[d] <= n - d
                   /\ \A j \in F : j > after[d] => reached(j)
           Bad == {d \in 0 .. n : ~ P(d)}
<1>1. after[0] = K
  BY DEF Chain
<1>2. \A j \in F : j \in Nat /\ j > 0 /\ j <= n
  OBVIOUS
<1>3. P(0)
  <2> HIDE DEF reached
  <2>1. n - 0 = n /\ \A j \in F : ~ (j > K)
    BY <1>2
  <2> QED BY <1>1, <1>2, <2>1
<1>4. ASSUME NEW d \in 1 .. n, P(d - 1) PROVE P(d)
  <2> DEFINE m == after[d - 1]
  <2>1. d - 1 \in 0 .. n /\ d \in Nat
    OBVIOUS
  <2>2. reached(m)
    BY <2>1
  <2>3. /\ m = 0 => after[d] = 0
        /\ m \in F => after[d] = prev[m]
    BY DEF Chain
  <2>4. /\ m \in {0} \cup F
        /\ m # 0 => m <= n - (d - 1)
        /\ \A j \in F : j > m => reached(j)
    BY <1>4
  <2> HIDE DEF m, reached
  <2>5. CASE m = 0
    BY <2>3, <2>4, <2>5
  <2>6. CASE m # 0
    <3>1. m \in F /\ m <= n - (d - 1) /\ after[d] = prev[m]
      BY <2>3, <2>4, <2>6
    <3>2. /\ prev[m] \in {0} \cup F /\ prev[m] < m
          /\ \A i \in F : i < m => i <= prev[m]
      BY <3>1 DEF Descends
    <3>3. m \in Nat /\ prev[m] \in Nat
      <4>1. m \in Nat
        BY <1>2, <3>1
      <4>2. prev[m] \in F => prev[m] \in Nat
        BY <1>2
      <4> QED BY <3>2, <4>1, <4>2
    <3>4. prev[m] # 0 => prev[m] <= n - d
      BY <2>1, <3>1, <3>2, <3>3
    <3>5. ASSUME NEW j \in F, j > prev[m] PROVE reached(j)
      <4>1. j \in Nat
        BY <1>2
      <4>2. ~ (j < m)
        BY <3>2, <3>3, <3>5, <4>1
      <4>3. j = m \/ j > m
        BY <3>3, <4>1, <4>2
      <4> QED BY <2>2, <2>4, <4>3
    <3> QED BY <3>1, <3>2, <3>4, <3>5
  <2> QED BY <2>5, <2>6
<1> HIDE DEF P
<1>5. \A d \in 0 .. n : P(d)
  <2> SUFFICES ASSUME Bad # {} PROVE FALSE
    OBVIOUS
  <2>1. PICK d \in Bad : \A e \in Bad : d <= e
    <3>1. Bad \subseteq Nat
      OBVIOUS
    <3> HIDE DEF Bad
    <3> QED BY <3>1, Least
  <2>2. d \in 0 .. n /\ ~ P(d)
    OBVIOUS
  <2>3. d # 0
    BY <1>3, <2>2
  <2>4. d \in 1 .. n /\ d - 1 \in 0 .. n /\ ~ (d <= d - 1)
    BY <2>2, <2>3
  <2>5. P(d - 1)
    BY <2>1, <2>4
  <2> QED BY <1>4, <2>2, <2>4, <2>5
<1>6. \A d \in 0 .. n : after[d] \in {0} \cup F
  BY <1>5 DEF P
<1>7. \A j \in F : reached(j)
  <2>1. P(n)
    BY <1>5
  <2>2. after[n] = 0 /\ \A j \in F : j > after[n] => reached(j)
    <3>1. after[n] # 0 => after[n] <= 0 /\ after[n] \in F
      BY <2>1 DEF P
    <3>2. \A j \in F : j > after[n] => reached(j)
      BY <2>1 DEF P
    <3> HIDE DEF reached
    <3>3. after[n] \in F => after[n] \in 1 .. n
      OBVIOUS
    <3> QED BY <3>1, <3>2, <3>3
  <2> HIDE DEF reached
  <2> QED BY <1>2, <2>2
<1>8. \A j \in F : j # 0
  BY <1>2
<1> QED
  BY <1>6, <1>7, <1>8 DEF Visits

\* The frames that are linked from ti->fp on are those of the activations that
\* have pushed something.
LEMMA LinkedPushed ==
    ASSUME StackInv
    PROVE  Linked(fp) = {k \in 1 .. Top : Pushed(prog, stack[k]) > 0}
<1> DEFINE n == Top
           F == {k \in 1 .. n : Pushed(prog, stack[k]) > 0}
           E == 0 .. n
           prev == [j \in 1 .. n |-> stack[j].prev]
           body(d, f) == IF d = 0 THEN fp ELSE IF f[d - 1] = 0 THEN 0 ELSE stack[f[d - 1]].prev
           step == [d \in E |-> [f \in [E -> E] |-> body(d, f)]]
<1>1. n \in Nat /\ CodeFacts(prog) /\ StackOK(prog, stack, fp) /\ n = Len(stack)
  BY TopFacts DEF StackInv, Top
<1>2. \A k \in 1 .. n : Typed(prog, stack[k]) /\ Holds(prog, stack[k])
  BY <1>1 DEF StackOK
<1> HIDE DEF n
<1>3. \A k \in 1 .. n : /\ Pushed(prog, stack[k]) \in Nat
                        /\ stack[k].at = "entry" => Pushed(prog, stack[k]) = 0 /\ stack[k].prev = 0
  BY <1>1, <1>2, PushedNumber DEF Holds
<1>4. ASSUME NEW k \in 1 .. n + 1, NEW m, Below(prog, stack, k, m)
      PROVE  m \in {0} \cup F /\ m < k /\ m \in 0 .. n /\ \A i \in F : i < k => i <= m
  BY <1>1, <1>4 DEF Below
<1>5. fp \in {0} \cup F /\ fp \in E /\ \A i \in F : i <= fp
  <2>1. Below(prog, stack, n + 1, fp) /\ n + 1 \in 1 .. n + 1
    BY <1>1 DEF StackOK, Chained
  <2> HIDE DEF F
  <2>2. \A i \in F : i < n + 1
    BY <1>1 DEF F
  <2> QED BY <1>4, <2>1, <2>2
<1>6. ASSUME NEW j \in 1 .. n, stack[j].at # "entry" PROVE Below(prog, stack, j, stack[j].prev)
  BY <1>1, <1>6 DEF StackOK, Chained
<1>7. \A j \in F : /\ prev[j] \in {0} \cup F /\ prev[j] < j
                   /\ \A i \in F : i < j => i <= prev[j]
  <2> SUFFICES ASSUME NEW j \in F
               PROVE  /\ prev[j] \in {0} \cup F /\ prev[j] < j
                      /\ \A i \in F : i < j => i <= prev[j]
    OBVIOUS
  <2>1. j \in 1 .. n /\ j \in 1 .. n + 1 /\ stack[j].at # "entry" /\ prev[j] = stack[j].prev
    BY <1>1, <1>3
  <2>2. Below(prog, stack, j, stack[j].prev)
    BY <1>6, <2>1
  <2> HIDE DEF F
  <2> QED BY <1>4, <2>1, <2>2
<1>8. ASSUME NEW j \in 1 .. n PROVE stack[j].prev \in E
  <2>1. CASE stack[j].at = "entry"
    BY <1>1, <1>3, <2>1
  <2>2. CASE stack[j].at # "entry"
    <3>1. Below(prog, stack, j, stack[j].prev) /\ j \in 1 .. n + 1
      BY <1>1, <1>6, <2>2
    <3> HIDE DEF F
    <3> QED BY <1>4, <3>1
  <2> QED BY <2>1, <2>2
<1>9. ASSUME NEW d \in E, NEW f \in [E -> E] PROVE body(d, f) \in E
  <2>1. CASE d = 0
    BY <1>5, <2>1
  <2>2. CASE d # 0
    <3>1. d - 1 \in E /\ f[d - 1] \in E
      BY <1>1, <2>2
    <3>2. f[d - 1] # 0 => f[d - 1] \in 1 .. n
      BY <1>1, <3>1
    <3> QED BY <1>1, <1>8, <2>2, <3>1, <3>2
  <2> QED BY <2>1, <2>2
<1>10. ASSUME NEW d \in E, NEW f, NEW g, \A i \in E : i < d => f[i] = g[i]
       PROVE  body(d, f) = body(d, g)
  <2>1. d # 0 => d - 1 \in E /\ d - 1 < d
    BY <1>1
  <2> QED BY <1>10, <2>1
<1>11. Recursive(E, E, step)
  <2>1. E # {} /\ E \subseteq Nat
    BY <1>1
  <2>2. step \in [E -> [[E -> E] -> E]]
    <3> HIDE DEF body, E
    <3> QED BY <1>9
  <2>3. \A d \in E : \A f, g \in [E -> E] :
            (\A i \in E : i < d => f[i] = g[i]) => step[d][f] = step[d][g]
    <3> HIDE DEF body, E
    <3> QED BY <1>10
  <2> HIDE DEF step, E
  <2> QED BY <2>1, <2>2, <2>3 DEF Recursive
<1>12. PICK h : Solution(h, E, E, step)
  <2> HIDE DEF step, E
  <2> QED BY <1>11, Recursion
<1>13. h = [d \in E |-> body(d, h)]
  <2> HIDE DEF body, E
  <2> QED BY <1>12 DEF Solution
<1>14. PICK after : /\ after = [d \in E |-> body(d, after)]
                    /\ Linked(fp) = {after[d] : d \in E} \ {0}
  <2> DEFINE Eq(f) == f = [d \in E |-> body(d, f)]
             after == CHOOSE f : Eq(f)
  <2>1. Linked(fp) = {after[d] : d \in E} \ {0}
    BY DEF Linked, body, n
  <2>2. Eq(h)
    BY <1>13
  <2> HIDE DEF Eq
  <2>3. Eq(after)
    BY <2>2
  <2> HIDE DEF after
  <2> QED BY <2>1, <2>3 DEF Eq
<1>15. Chain(n, fp, prev, after)
  <2>1. after[0] = fp
    BY <1>1, <1>14
  <2>2. ASSUME NEW d \in 1 .. n
        PROVE  /\ after[d - 1] = 0 => after[d] = 0
               /\ after[d - 1] \in 1 .. n => after[d] = prev[after[d - 1]]
    <3>1. d \in E /\ d # 0 /\ ~ 0 \in 1 .. n
      BY <1>1
    <3>2. after[d] = body(d, after)
      <4> HIDE DEF body
      <4> QED BY <1>14, <3>1
    <3> QED BY <3>1, <3>2
  <2> HIDE DEF prev
  <2> QED BY <2>1, <2>2 DEF Chain
<1>16. {after[d] : d \in 0 .. n} \ {0} = F
  <2>1. F \subseteq 1 .. n
    OBVIOUS
  <2> HIDE DEF F, prev
  <2>2. \A i \in F : i <= fp
    BY <1>5
  <2>3. fp \in {0} \cup F /\ fp \in Nat
    BY <1>1, <1>5
  <2>4. Descends(F, prev)
    BY <1>7 DEF Descends
  <2>5. Visits(n, F, after)
    BY <1>1, <1>15, <2>1, <2>2, <2>3, <2>4, ChainVisits
  <2> QED BY <2>5 DEF Visits
<1> QED
  BY <1>14, <1>16 DEF n

\* A collection leaves an activation that waits with its slots as they were.
LEMMA CollectedFields ==
    ASSUME StackInv, NEW k \in 1 .. Top, stack[k].at \notin {"entry", "body", "returned"},
           NEW act2, act2 = AfterCollection(k)
    PROVE  /\ Typed(prog, act2) /\ Holds(prog, act2) /\ act2.at = stack[k].at
           /\ act2.f = stack[k].f /\ act2.e = stack[k].e
           /\ act2.prev = stack[k].prev /\ Pushed(prog, act2) = Pushed(prog, stack[k])
<1> DEFINE act == stack[k]
           size == prog.size[act.f]
           kept == IF k \in Linked(fp) THEN 0 .. act.next - 1 ELSE {}
           locals == [x \in DOMAIN act.locals |-> Moved(act.locals[x])]
           roots == [o \in DOMAIN act.roots |->
                        IF o \in kept THEN act.roots[o] ELSE Moved(act.roots[o])]
<1>1. CodeFacts(prog) /\ Typed(prog, act) /\ Holds(prog, act)
  <2>1. StackOK(prog, stack, fp) /\ Top = Len(stack)
    BY DEF StackInv, Top
  <2> QED BY <2>1, CompiledIsSound DEF StackOK, StackInv
<1>2. /\ act \in Activations(prog) /\ act.f \in DOMAIN prog.funs
      /\ act.locals \in [Names(prog, act.f) -> Contents]
      /\ act.roots \in [0 .. size - 1 -> Contents]
  BY <1>1 DEF Typed, Activations
<1>3. \A v \in Contents : Moved(v) \in Contents
  BY DEF Contents, Usable, Moved, Stale
<1>4. act2 = [act EXCEPT !.locals = locals, !.roots = roots]
  BY DEF AfterCollection
<1>5. \A o \in kept \cap DOMAIN act.roots : roots[o] = act.roots[o]
  OBVIOUS
<1>6. locals \in [Names(prog, act.f) -> Contents] /\ roots \in [0 .. size - 1 -> Contents]
  BY <1>2, <1>3
<1> HIDE DEF locals, roots
<1>7. /\ act2 \in Activations(prog) /\ act2.at = act.at /\ act2.f = act.f /\ act2.e = act.e
      /\ act2.locals = locals /\ act2.roots = roots /\ act2.next = act.next
      /\ act2.prev = act.prev
  BY <1>2, <1>4, <1>6 DEF Activations
<1>8. Typed(prog, act2)
  BY <1>1, <1>6, <1>7 DEF Typed
<1>9. Pushed(prog, act2) = Pushed(prog, act)
  BY <1>7 DEF Pushed
<1>10. \A o \in 0 .. Pushed(prog, act) - 1 : roots[o] \in Usable
  <2> SUFFICES ASSUME NEW o \in 0 .. Pushed(prog, act) - 1 PROVE roots[o] \in Usable
    OBVIOUS
  <2>1. Pushed(prog, act) \in Nat
    BY <1>1, PushedNumber
  <2>2. Pushed(prog, act) > 0 /\ o >= 0 /\ o < Pushed(prog, act) /\ o \in Int
    BY <2>1
  <2>3. k \in Linked(fp)
    BY <2>2, LinkedPushed
  <2>4. act.next = Pushed(prog, act) /\ act.roots[o] \in Usable
    BY <1>1, <2>2 DEF Holds
  <2>5. act.next <= size /\ size \in Nat
    BY <1>1, <1>2 DEF Typed, CodeFacts, FunFacts
  <2>6. o \in kept /\ o \in 0 .. size - 1
    BY <2>1, <2>2, <2>3, <2>4, <2>5
  <2>7. o \in kept \cap DOMAIN act.roots
    BY <1>2, <2>6
  <2> HIDE DEF kept
  <2> QED BY <1>5, <2>4, <2>7
<1>11. Holds(prog, act2)
  BY <1>1, <1>7, <1>9, <1>10 DEF Holds
<1> QED
  BY <1>7, <1>8, <1>9, <1>11

\* All activations but the running one wait for a call.
LEMMA Waits ==
    ASSUME StackInv, a.at \notin {"entry", "body", "returned"}, NEW k \in 1 .. Top
    PROVE  /\ stack[k].at \notin {"entry", "body", "returned"}
           /\ k # Top => stack[k].at = "call"
<1>1. StackOK(prog, stack, fp) /\ Top \in Nat /\ Len(stack) = Top
  BY TopFacts DEF StackInv, Top
<1>2. k # Top => stack[k].at = "call"
  BY <1>1 DEF StackOK
<1> QED
  BY <1>2 DEF a

\* A collection that a primitive makes.
LEMMA PrimitiveCollectsStep == StackInv /\ PrimitiveCollects => StackInv'
<1> SUFFICES ASSUME StackInv, PrimitiveCollects PROVE StackInv'
  OBVIOUS
<1>1. /\ a.at = "prim" /\ prog' = prog /\ fp' = fp /\ avail' = NURSERY
      /\ stack' = [k \in DOMAIN stack |-> AfterCollection(k)]
  BY DEF PrimitiveCollects
<1>2. /\ CodeFacts(prog) /\ IsCompiled(prog) /\ StackOK(prog, stack, fp) /\ Top \in Nat
      /\ Len(stack) = Top /\ DOMAIN stack = 1 .. Top
  BY TopFacts DEF StackInv, StackOK, Top
<1>3. \A k \in 1 .. Top :
          /\ Typed(prog, stack'[k]) /\ Holds(prog, stack'[k])
          /\ stack'[k].at = stack[k].at /\ stack'[k].prev = stack[k].prev
          /\ Pushed(prog, stack'[k]) = Pushed(prog, stack[k])
  <2> SUFFICES ASSUME NEW k \in 1 .. Top
               PROVE  /\ Typed(prog, stack'[k]) /\ Holds(prog, stack'[k])
                      /\ stack'[k].at = stack[k].at /\ stack'[k].prev = stack[k].prev
                      /\ Pushed(prog, stack'[k]) = Pushed(prog, stack[k])
    OBVIOUS
  <2>1. stack'[k] = AfterCollection(k)
    BY <1>1, <1>2
  <2>2. stack[k].at \notin {"entry", "body", "returned"}
    BY <1>1, Waits
  <2> QED BY <2>1, <2>2, CollectedFields
<1>4. stack' \in Seq(Activations(prog)) /\ Len(stack') = Len(stack)
  <2>1. stack' \in [1 .. Top -> Activations(prog)]
    BY <1>1, <1>2, <1>3 DEF Typed
  <2> QED BY <1>2, <2>1, SeqDef, LenProperties
<1>5. StackOK(prog, stack', fp)
  <2>1. \A k \in 1 .. Len(stack) :
            /\ Typed(prog, stack'[k]) /\ Holds(prog, stack'[k])
            /\ stack'[k].at = "call" <=> stack[k].at = "call"
            /\ stack'[k].at = "entry" <=> stack[k].at = "entry"
            /\ stack'[k].prev = stack[k].prev
            /\ Pushed(prog, stack'[k]) = Pushed(prog, stack[k])
    BY <1>2, <1>3
  <2> QED BY <1>2, <1>4, <2>1, AllChange
<1> QED
  BY <1>1, <1>2, <1>5, SizesAssumption DEF StackInv

\* A collection that the code asks for.
LEMMA CollectStep == StackInv /\ Collect => StackInv'
<1> SUFFICES ASSUME StackInv, Collect PROVE StackInv'
  OBVIOUS
<1> DEFINE then == IF a.at = "entryGc" THEN "entryPop" ELSE "callPop"
           last == [AfterCollection(Top) EXCEPT !.at = then]
<1>1. a.at \in {"entryGc", "callGc"} /\ prog' = prog /\ fp' = fp
  BY DEF Collect
<1>2. /\ CodeFacts(prog) /\ IsCompiled(prog) /\ StackOK(prog, stack, fp) /\ Top \in Nat
      /\ Len(stack) = Top /\ DOMAIN stack = 1 .. Top /\ Top \in 1 .. Top
  BY TopFacts DEF StackInv, StackOK, Top
<1>3. CASE UNCHANGED <<stack, avail>>
  BY <1>1, <1>3 DEF StackInv
<1>4. CASE /\ stack' = [k \in DOMAIN stack |-> IF k = Top THEN last ELSE AfterCollection(k)]
           /\ avail' = NURSERY
  <2>1. Typed(prog, last) /\ Holds(prog, last) /\ last.at = then
        /\ last.prev = a.prev /\ Pushed(prog, last) = Pushed(prog, a)
    <3> DEFINE act == AfterCollection(Top)
    <3>1. /\ Typed(prog, act) /\ Holds(prog, act) /\ act.at = a.at
          /\ act.f = a.f /\ act.e = a.e
          /\ act.prev = a.prev /\ Pushed(prog, act) = Pushed(prog, a)
      <4>1. stack[Top].at \notin {"entry", "body", "returned"} /\ a = stack[Top]
        BY <1>1 DEF a
      <4> QED BY <1>2, <4>1, CollectedFields
    <3>2. last = [act EXCEPT !.at = then] /\ then \in {"entryPop", "callPop"}
          /\ (a.at = "entryGc" => then = "entryPop") /\ (a.at = "callGc" => then = "callPop")
      OBVIOUS
    <3> HIDE DEF act, last, then
    <3>3. /\ last \in Activations(prog) /\ last.at = then /\ last.f = act.f
          /\ last.e = act.e /\ last.locals = act.locals /\ last.roots = act.roots
          /\ last.next = act.next /\ last.prev = act.prev
      BY <3>1, <3>2 DEF Typed, Activations, Ats
    <3>4. Pushed(prog, last) = Pushed(prog, act)
      <4>1. CASE a.at = "entryGc"
        BY <3>1, <3>2, <3>3, <4>1 DEF Pushed
      <4>2. CASE a.at = "callGc"
        BY <3>1, <3>2, <3>3, <4>2 DEF Pushed
      <4> QED BY <1>1, <4>1, <4>2
    <3>5. Typed(prog, last)
      <4>1. CASE a.at = "entryGc"
        BY <3>1, <3>2, <3>3, <4>1 DEF Typed
      <4>2. CASE a.at = "callGc"
        BY <3>1, <3>2, <3>3, <4>2 DEF Typed
      <4> QED BY <1>1, <4>1, <4>2
    <3>6. Holds(prog, last)
      BY <3>1, <3>2, <3>3, <3>4 DEF Holds
    <3> QED BY <3>1, <3>3, <3>4, <3>5, <3>6
  <2>2. then \in {"entryPop", "callPop"}
    OBVIOUS
  <2> HIDE DEF last, then
  <2>3. ASSUME NEW k \in 1 .. Top
        PROVE  /\ Typed(prog, stack'[k]) /\ Holds(prog, stack'[k])
               /\ stack'[k].at = "call" <=> stack[k].at = "call"
               /\ stack'[k].at = "entry" <=> stack[k].at = "entry"
               /\ stack'[k].prev = stack[k].prev
               /\ Pushed(prog, stack'[k]) = Pushed(prog, stack[k])
    <3>1. CASE k = Top
      <4>1. stack'[k] = last /\ stack[k] = a
        BY <1>2, <1>4, <3>1 DEF a
      <4> QED BY <1>1, <2>1, <2>2, <4>1
    <3>2. CASE k # Top
      <4>1. stack'[k] = AfterCollection(k)
        BY <1>2, <1>4, <3>2
      <4>2. stack[k].at \notin {"entry", "body", "returned"}
        BY <1>1, Waits
      <4>3. /\ Typed(prog, stack'[k]) /\ Holds(prog, stack'[k]) /\ stack'[k].at = stack[k].at
            /\ stack'[k].prev = stack[k].prev
            /\ Pushed(prog, stack'[k]) = Pushed(prog, stack[k])
        BY <4>1, <4>2, CollectedFields
      <4> QED BY <4>3
    <3> QED BY <3>1, <3>2
  <2>4. stack' \in Seq(Activations(prog)) /\ Len(stack') = Len(stack)
    <3>1. stack' \in [1 .. Top -> Activations(prog)]
      <4>1. \A k \in 1 .. Top : stack'[k] \in Activations(prog)
        BY <2>3 DEF Typed
      <4>2. stack' = [k \in 1 .. Top |-> stack'[k]]
        BY <1>2, <1>4
      <4> QED BY <4>1, <4>2
    <3> QED BY <1>2, <3>1, SeqDef, LenProperties
  <2>5. StackOK(prog, stack', fp)
    BY <1>2, <2>3, <2>4, AllChange
  <2> QED
    BY <1>1, <1>2, <1>4, <2>5, SizesAssumption DEF StackInv
<1> QED
  BY <1>3, <1>4 DEF Collect, garbage_collect

\* No step breaks it.
LEMMA NextStack == StackInv /\ [Next]_vars => StackInv'
<1> SUFFICES ASSUME StackInv, [Next]_vars PROVE StackInv'
  OBVIOUS
<1>1. CASE UNCHANGED vars
  BY <1>1 DEF vars, StackInv
<1>2. CASE Ended
  BY <1>2 DEF Ended, vars, StackInv
<1> QED
  BY <1>1, <1>2, CollectStep, EnterStep, EnterPopStep, StraightLineStep, SwitchStep,
     CallFunctionStep, CallPrimitiveStep, PrimitiveCollectsStep, PrimitiveReturnsStep,
     TailCallStep, ReturnStep, AfterCallStep, AfterCallPopStep DEF Next

\* What waiting functions will read is in the frames that are linked, one after the
\* other from ti->fp on, and those frames are of functions that have not returned.
THEOREM StackInvariant == Spec => []StackInv
<1>1. Init => StackInv
  BY InitStack
<1>2. StackInv /\ [Next]_vars => StackInv'
  BY NextStack
<1> QED
  BY <1>1, <1>2, PTL DEF Spec

-----------------------------------------------------------------------------
(* The contract of the collector *)

\* An activation has saved something just when it has pushed a slot.
LEMMA SavingPushed ==
    ASSUME StackInv, NEW k \in 1 .. Top
    PROVE  Saving(stack[k]) <=> Pushed(prog, stack[k]) > 0
<1> DEFINE act == stack[k]
           xs == prog.across[act.e]
           ys == prog.result[act.e]
<1>1. CodeFacts(prog) /\ Typed(prog, act)
  <2>1. StackOK(prog, stack, fp) /\ Top = Len(stack)
    BY DEF StackInv, Top
  <2> QED BY <2>1, CompiledIsSound DEF StackOK, StackInv
<1>2. act.f \in DOMAIN prog.funs /\ act.e \in DOMAIN prog.exps /\ act.at \in Ats
  BY <1>1 DEF Typed, Activations
<1> HIDE DEF act
<1>3. CASE act.at \in {"entryGc", "entryPop"}
  <2>1. prog.live[act.f] \in Seq(Nat)
    BY <1>1, <1>2 DEF CodeFacts, FunFacts
  <2>2. prog.live[act.f] # <<>> <=> Len(prog.live[act.f]) > 0
    BY <2>1, EmptySeq
  <2>3. Pushed(prog, act) = Len(prog.live[act.f])
    BY <1>3 DEF Pushed
  <2>4. Saving(act) <=> prog.live[act.f] # <<>>
    BY <1>3 DEF Saving
  <2> QED BY <2>2, <2>3, <2>4 DEF act
<1>4. CASE act.at \in {"call", "prim", "returned", "callGc", "callPop"}
  <2>1. CallFacts(prog, act.e) /\ Calls(prog.exps[act.e])
    BY <1>1, <1>2, <1>4 DEF CodeFacts, Typed
  <2>2. xs \in Seq(Nat) /\ ys \in Seq(Nat)
    <3>1. /\ xs \in Seq(Nat) /\ prog.exps[act.e].x \in Nat
          /\ ys = IF prog.exps[act.e].x \in prog.fv[prog.exps[act.e].next]
                  THEN <<prog.exps[act.e].x>> ELSE <<>>
      BY <2>1 DEF CallFacts
    <3>2. CASE prog.exps[act.e].x \in prog.fv[prog.exps[act.e].next]
      <4>1. ys = <<prog.exps[act.e].x>>
        BY <3>1, <3>2
      <4> QED BY <3>1, <4>1
    <3>3. CASE prog.exps[act.e].x \notin prog.fv[prog.exps[act.e].next]
      <4>1. ys = <<>>
        BY <3>1, <3>3
      <4> QED BY <3>1, <4>1
    <3> QED BY <3>2, <3>3
  <2> HIDE DEF xs, ys
  <2>3. xs # <<>> <=> Len(xs) > 0
    BY <2>2, EmptySeq
  <2>4. xs \o ys # <<>> <=> Len(xs) + Len(ys) > 0
    <3>1. xs \o ys \in Seq(Nat) /\ Len(xs \o ys) = Len(xs) + Len(ys)
      BY <2>2, ConcatProperties
    <3> QED BY <3>1, EmptySeq
  <2>5. CASE act.at \in {"call", "prim", "returned"}
    <3>1. Pushed(prog, act) = Len(xs)
      BY <2>5 DEF Pushed, xs
    <3>2. Saving(act) <=> xs # <<>>
      BY <2>5 DEF Saving, xs
    <3> QED BY <2>3, <3>1, <3>2 DEF act
  <2>6. CASE act.at \in {"callGc", "callPop"}
    <3>1. Pushed(prog, act) = Len(xs) + Len(ys)
      BY <2>6 DEF Pushed, xs, ys
    <3>2. Saving(act) <=> xs \o ys # <<>>
      BY <2>6 DEF Saving, xs, ys
    <3> QED BY <2>4, <3>1, <3>2 DEF act
  <2> QED BY <1>4, <2>5, <2>6
<1>5. CASE act.at \in {"entry", "body"}
  <2>1. ~ Saving(act) /\ Pushed(prog, act) = 0
    BY <1>5 DEF Saving, Pushed
  <2> QED BY <2>1 DEF act
<1> QED
  BY <1>2, <1>3, <1>4, <1>5 DEF Ats

\* The frames that ti->fp links are those of the activations that have saved
\* something, and no other: none of a function that has returned or made a tail
\* call stays linked, none that waits with a live value is left out.
THEOREM FramesAreLinked == Spec => []FramesLinked
<1>1. StackInv => FramesLinked
  BY LinkedPushed, SavingPushed DEF FramesLinked
<1> QED
  BY <1>1, StackInvariant, PTL

\* What the collector reads through the linked frames has been written, lies in
\* the arrays of roots, and is no address that an earlier collection has changed.
THEOREM RootsAreScannable == Spec => []RootsScannable
<1>1. StackInv => RootsScannable
  <2> SUFFICES ASSUME StackInv, NEW k \in Linked(fp), NEW o \in 0 .. stack[k].next - 1
               PROVE  o \in DOMAIN stack[k].roots /\ stack[k].roots[o] \in Usable
    BY DEF RootsScannable
  <2> DEFINE act == stack[k]
  <2>1. k \in 1 .. Top /\ Pushed(prog, act) > 0
    BY LinkedPushed
  <2>2. CodeFacts(prog) /\ Typed(prog, act) /\ Holds(prog, act)
    <3>1. StackOK(prog, stack, fp) /\ Top = Len(stack)
      BY DEF StackInv, Top
    <3> QED BY <2>1, <3>1, CompiledIsSound DEF StackOK, StackInv
  <2>3. /\ act.next = Pushed(prog, act) /\ act.next <= prog.size[act.f]
        /\ act.roots \in [0 .. prog.size[act.f] - 1 -> Contents]
    BY <2>1, <2>2 DEF Typed, Holds
  <2>4. prog.size[act.f] \in Nat /\ act.next \in Nat
    BY <2>2 DEF Typed, Activations, CodeFacts, FunFacts
  <2>5. o \in 0 .. prog.size[act.f] - 1 /\ o \in 0 .. Pushed(prog, act) - 1
    BY <2>3, <2>4
  <2> QED BY <2>2, <2>3, <2>5 DEF Holds
<1> QED
  BY <1>1, StackInvariant, PTL

\* Running code never reads an address that a collection has changed, however
\* calls and collections come about.
THEOREM LiveIsFresh == Spec => []LiveFresh
<1>1. StackInv => LiveFresh
  BY BodyFacts DEF LiveFresh
<1> QED
  BY <1>1, StackInvariant, PTL

-----------------------------------------------------------------------------
(* The words that are allocated *)

\* The running activation of the next state.
LEMMA RunningNext ==
    ASSUME StackInv, NEW act, Running(act)
    PROVE  a' = act
<1>1. Top \in 1 .. Top /\ stack \in Seq(Activations(prog)) /\ Top = Len(stack)
  BY TopFacts DEF StackInv, StackOK, Top
<1>2. Len(stack') = Len(stack) /\ stack'[Top] = act
  BY <1>1, LenProperties DEF Running
<1> QED
  BY <1>1, <1>2 DEF a, Top

\* What an activation that asks for words becomes.
Asks(act, off, xs, sp, at) == [update_stack(Push(act, off, xs), sp) EXCEPT !.at = at]

\* It keeps its words, its expression and its function.
LEMMA PushKeeps ==
    ASSUME NEW c, NEW act \in Activations(c), NEW xs, NEW off, NEW sp, NEW at,
           NEW act2, act2 = Asks(act, off, xs, sp, at)
    PROVE  act2.at = at /\ act2.e = act.e /\ act2.f = act.f /\ act2.avail = act.avail
<1>1. CASE sp = 0
  BY <1>1 DEF Asks, Push, update_stack, Activations
<1>2. CASE sp # 0
  BY <1>2 DEF Asks, Push, update_stack, Activations
<1> QED
  BY <1>1, <1>2

\* A function has been entered: it runs with the words it needs, or asks.
LEMMA EnterNext ==
    ASSUME StackInv, Enter
    PROVE  /\ a.at = "entry" /\ a'.e = a.e
           /\ \/ /\ a'.at = "body" /\ a'.avail = avail /\ nalloc' = nalloc
                 /\ prog.words[a.e] = 0 \/ prog.words[a.e] <= avail
              \/ a'.at = "entryGc" /\ nalloc' = prog.words[a.e]
           /\ prog' = prog /\ avail' = avail /\ room' = room
<1> DEFINE act0 == [Reloaded(a) EXCEPT !.next = 0, !.prev = fp]
           act1 == [act0 EXCEPT !.at = "body"]
           act2 == [update_stack(Push(act0, 0, live), Len(live)) EXCEPT !.at = "entryGc"]
           words == prog.words[a.e]
<1>1. a \in Activations(prog) /\ avail \in Int /\ a.at = "entry"
  BY TopFacts DEF StackInv, Enter
<1>2. fp \in Nat
  <2>1. Pushed(prog, a) = 0
    BY <1>1 DEF Pushed
  <2> QED BY <2>1, TopFacts DEF Below
<1>3. act0 \in Activations(prog) /\ act0.e = a.e /\ act0.avail = avail
  BY <1>1, <1>2 DEF Activations, Reloaded
<1>4. prog' = prog /\ avail' = avail /\ room' = room
  BY DEF Enter
<1>5. CASE Running(act1) /\ nalloc' = nalloc /\ (words = 0 \/ words <= act0.avail)
  <2>1. a' = act1
    BY <1>5, RunningNext
  <2>2. act1.at = "body" /\ act1.e = act0.e /\ act1.avail = act0.avail
    BY <1>3 DEF Activations
  <2> HIDE DEF act1, act0
  <2> QED BY <1>1, <1>3, <1>4, <1>5, <2>1, <2>2
<1>6. CASE Running(act2) /\ nalloc' = words
  <2>1. a' = act2
    BY <1>6, RunningNext
  <2>2. act2 = Asks(act0, 0, live, Len(live), "entryGc")
    BY DEF Asks
  <2> HIDE DEF act0, act2
  <2>3. act2.at = "entryGc" /\ act2.e = act0.e
    BY <1>3, <2>2, PushKeeps
  <2> QED BY <1>1, <1>3, <1>4, <1>6, <2>1, <2>3
<1>7. \/ Running(act1) /\ nalloc' = nalloc /\ (words = 0 \/ words <= act0.avail)
      \/ Running(act2) /\ nalloc' = words
  BY DEF Enter
<1> QED
  BY <1>5, <1>6, <1>7

\* The collection on entry is over: the body runs with the whole of what is left.
LEMMA EnterPopNext ==
    ASSUME StackInv, EnterPop
    PROVE  /\ a.at = "entryPop" /\ a'.at = "body" /\ a'.e = a.e /\ a'.avail = avail
           /\ prog' = prog /\ avail' = avail /\ room' = room /\ nalloc' = nalloc
<1> DEFINE act == [Reloaded(Pop(a, 0, live)) EXCEPT !.at = "body"]
<1>1. a \in Activations(prog)
  BY TopFacts
<1>2. Running(act)
  BY DEF EnterPop
<1>3. a' = act
  BY <1>2, RunningNext
<1>4. act.at = "body" /\ act.e = a.e /\ act.avail = avail
  BY <1>1 DEF Reloaded, Pop, Activations
<1> QED
  BY <1>3, <1>4 DEF EnterPop

\* A variable has got a value.
LEMMA BindNext ==
    ASSUME StackInv, NEW v, NEW n, Bind(v, n)
    PROVE  /\ a'.at = a.at /\ a'.e = exp.next /\ a'.avail = a.avail - n
           /\ prog' = prog /\ avail' = avail /\ room' = room - n /\ nalloc' = nalloc
<1> DEFINE act == [a EXCEPT !.locals[exp.x] = v, !.avail = @ - n, !.e = exp.next]
<1>1. a \in Activations(prog)
  BY TopFacts
<1>2. Running(act)
  BY DEF Bind
<1>3. a' = act
  BY <1>2, RunningNext
<1>4. act.at = a.at /\ act.e = exp.next /\ act.avail = a.avail - n
  BY <1>1 DEF Activations
<1> QED
  BY <1>3, <1>4 DEF Bind

\* One of the arms is taken.
LEMMA SwitchNext ==
    ASSUME StackInv, Switch
    PROVE  /\ a.at = "body" /\ exp.op = "case" /\ a'.at = "body" /\ a'.e \in exp.arms
           /\ a'.avail = a.avail
           /\ prog' = prog /\ avail' = avail /\ room' = room /\ nalloc' = nalloc
<1>1. a \in Activations(prog)
  BY TopFacts
<1>2. PICK e \in exp.arms : Running([a EXCEPT !.e = e])
  BY DEF Switch
<1>3. a' = [a EXCEPT !.e = e]
  BY <1>2, RunningNext
<1>4. a'.at = a.at /\ a'.e = e /\ a'.avail = a.avail
  BY <1>1, <1>3 DEF Activations
<1> QED
  BY <1>4 DEF Switch, Body

\* A call, a call of a primitive and a tail call publish alloc.
LEMMA CallNext ==
    ASSUME StackInv, CallFunction \/ CallPrimitive \/ TailCall
    PROVE  /\ a.at = "body" /\ prog' = prog /\ room' = room /\ nalloc' = nalloc
           /\ \/ a'.at \in {"entry", "prim"} /\ avail' = a.avail
              \/ a' = a /\ avail' = avail
<1>1. /\ a.at = "body" /\ prog' = prog /\ room' = room /\ nalloc' = nalloc
  BY DEF CallFunction, CallPrimitive, TailCall, Body
<1>2. CASE CallFunction
  <2>1. CASE Top < MaxDepth
    <3>1. exp.op = "letapp" /\ Calls(exp)
      BY <1>2 DEF CallFunction, Body, Calls
    <3>2. PICK f \in exp.fs : /\ stack' = Append([stack EXCEPT ![Top] = Saved], Callee(f))
                              /\ avail' = a.avail
      BY <1>2, <2>1 DEF CallFunction
    <3>3. Callee(f).at = "entry" /\ Callee(f) \in Activations(prog)
      BY <1>1, <3>1, CalleeIsNew DEF Typed
    <3>4. Saved \in Activations(prog)
      BY <1>1, <3>1, SavedFields DEF Typed
    <3>5. Top \in 1 .. Top /\ stack \in Seq(Activations(prog)) /\ Top = Len(stack) /\ Top \in Nat
      BY TopFacts DEF StackInv, StackOK, Top
    <3>6. [stack EXCEPT ![Top] = Saved] \in Seq(Activations(prog))
          /\ Len([stack EXCEPT ![Top] = Saved]) = Top
      BY <3>4, <3>5, ExceptSeq
    <3>7. Len(stack') = Top + 1 /\ stack'[Top + 1] = Callee(f)
      BY <3>2, <3>3, <3>5, <3>6, AppendProperties
    <3>8. a' = Callee(f)
      BY <3>7 DEF a, Top
    <3> QED BY <1>1, <3>2, <3>3, <3>8
  <2>2. CASE ~ (Top < MaxDepth)
    BY <1>1, <1>2, <2>2 DEF CallFunction, a, Top
  <2> QED BY <2>1, <2>2
<1>3. CASE CallPrimitive
  <2> DEFINE act == [Saved EXCEPT !.at = "prim"]
  <2>1. Running(act) /\ avail' = a.avail /\ Calls(exp)
    BY <1>3 DEF CallPrimitive, Calls, Body
  <2>2. a' = act
    BY <2>1, RunningNext
  <2>3. act.at = "prim"
    <3>1. Saved \in Activations(prog)
      BY <1>1, <2>1, SavedFields DEF Typed
    <3> QED BY <3>1 DEF Activations
  <2> QED BY <1>1, <2>1, <2>2, <2>3
<1>4. CASE TailCall
  <2>1. PICK f \in exp.fs : Running(Callee(f)) /\ avail' = a.avail /\ exp.op = "app"
    BY <1>4 DEF TailCall, Body, Running
  <2>2. a' = Callee(f)
    BY <2>1, RunningNext
  <2>3. Callee(f).at = "entry"
    BY <1>1, <2>1, CalleeIsNew
  <2> QED BY <1>1, <2>1, <2>2, <2>3
<1> QED
  BY <1>2, <1>3, <1>4

\* A primitive has returned, and may have allocated.
LEMMA PrimitiveReturnsNext ==
    ASSUME StackInv, PrimitiveReturns
    PROVE  /\ a.at = "prim" /\ a'.at = "returned"
           /\ \E n \in 0 .. avail : avail' = avail - n /\ room' = room - n
           /\ prog' = prog /\ nalloc' = nalloc
<1>1. a \in Activations(prog)
  BY TopFacts
<1>2. PICK v \in Usable, n \in 0 .. avail :
          /\ Running([a EXCEPT !.at = "returned", !.locals[exp.x] = v])
          /\ avail' = avail - n /\ room' = room - n
  BY DEF PrimitiveReturns
<1>3. a' = [a EXCEPT !.at = "returned", !.locals[exp.x] = v]
  BY <1>2, RunningNext
<1>4. a'.at = "returned"
  BY <1>1, <1>3 DEF Activations
<1> QED
  BY <1>2, <1>4 DEF PrimitiveReturns

\* A return publishes alloc.
LEMMA ReturnNext ==
    ASSUME StackInv, Return
    PROVE  /\ a.at = "body" /\ prog' = prog /\ room' = room /\ nalloc' = nalloc
           /\ avail' = a.avail
           /\ a'.at = "returned" \/ a' = a
<1>1. /\ a.at = "body" /\ prog' = prog /\ room' = room /\ nalloc' = nalloc
      /\ avail' = a.avail
  BY DEF Return, Body
<1>2. CASE Top = 1
  BY <1>1, <1>2 DEF Return, a, Top
<1>3. CASE Top # 1
  <2> DEFINE caller == stack[Top - 1]
             st1 == SubSeq(stack, 1, Top - 1)
             act == [caller EXCEPT !.at = "returned",
                       !.locals[exps[caller.e].x] = a.locals[exp.ys[1]]]
  <2>1. stack' = [st1 EXCEPT ![Top - 1] = act]
    BY <1>3 DEF Return
  <2>2. Top \in Nat /\ Top >= 2 /\ stack \in Seq(Activations(prog)) /\ Top = Len(stack)
    <3>1. Top \in 1 .. Top /\ Top \in Nat
      BY TopFacts
    <3>2. stack \in Seq(Activations(prog)) /\ Top = Len(stack)
      BY DEF StackInv, StackOK, Top
    <3>3. Top >= 2
      BY <1>3, <3>1
    <3> QED BY <3>1, <3>2, <3>3
  <2>3. caller \in Activations(prog)
    BY <2>2
  <2>4. act.at = "returned"
    BY <2>3 DEF Activations
  <2>5. st1 \in Seq(Activations(prog)) /\ Len(st1) = Top - 1
    BY <2>2, SubSeqProperties
  <2> HIDE DEF act, st1
  <2>6. Len(stack') = Top - 1 /\ stack'[Top - 1] = act
    BY <2>1, <2>2, <2>5, LenProperties
  <2>7. a' = act
    BY <2>6 DEF a, Top
  <2> QED BY <1>1, <2>4, <2>7
<1> QED
  BY <1>2, <1>3

\* A call has returned: its caller goes on with the words it needs, or asks.
LEMMA AfterCallNext ==
    ASSUME StackInv, AfterCall
    PROVE  /\ a.at = "returned"
           /\ \/ /\ a'.at = "body" /\ a'.e = exp.next /\ a'.avail = avail /\ nalloc' = nalloc
                 /\ prog.words[exp.next] = 0 \/ prog.words[exp.next] <= avail
              \/ a'.at = "callGc" /\ a'.e = a.e /\ nalloc' = prog.words[exp.next]
           /\ prog' = prog /\ avail' = avail /\ room' = room
<1> DEFINE act == Reloaded(a)
           act1 == Discarded(act)
           sp == Len(across) + Len(result)
           act2 == [update_stack(Push(act, Len(across), result), sp) EXCEPT !.at = "callGc"]
           words == prog.words[exp.next]
<1>1. a \in Activations(prog) /\ avail \in Int
  BY TopFacts DEF StackInv
<1>2. act \in Activations(prog) /\ act.e = a.e /\ act.avail = avail
  BY <1>1 DEF Activations, Reloaded
<1> HIDE DEF sp
<1>3. a.at = "returned" /\ prog' = prog /\ avail' = avail /\ room' = room
  BY DEF AfterCall
<1>4. \/ Running(act1) /\ nalloc' = nalloc /\ (words = 0 \/ words <= act.avail)
      \/ Running(act2) /\ nalloc' = words
  BY DEF AfterCall, sp
<1> HIDE DEF act
<1>5. CASE Running(act1) /\ nalloc' = nalloc /\ (words = 0 \/ words <= act.avail)
  <2>1. a' = act1
    BY <1>5, RunningNext
  <2>2. act1.at = "body" /\ act1.e = exp.next /\ act1.avail = act.avail
    BY <1>2 DEF Discarded, Pop, Activations
  <2> HIDE DEF act1
  <2> QED BY <1>2, <1>3, <1>5, <2>1, <2>2
<1>6. CASE Running(act2) /\ nalloc' = words
  <2>1. a' = act2
    BY <1>6, RunningNext
  <2>2. act2 = Asks(act, Len(across), result, sp, "callGc")
    BY DEF Asks
  <2> HIDE DEF act2
  <2>3. act2.at = "callGc" /\ act2.e = act.e
    BY <1>2, <2>2, PushKeeps
  <2> QED BY <1>2, <1>3, <1>6, <2>1, <2>3
<1> QED
  BY <1>4, <1>5, <1>6

\* The collection after a call is over: the code after the call runs.
LEMMA AfterCallPopNext ==
    ASSUME StackInv, AfterCallPop
    PROVE  /\ a.at = "callPop" /\ a'.at = "body" /\ a'.e = exp.next /\ a'.avail = avail
           /\ prog' = prog /\ avail' = avail /\ room' = room /\ nalloc' = nalloc
<1> DEFINE act == Discarded(Reloaded(Pop(a, Len(across), result)))
<1>1. a \in Activations(prog)
  BY TopFacts
<1>2. Running(act)
  BY DEF AfterCallPop
<1>3. a' = act
  BY <1>2, RunningNext
<1>4. act.at = "body" /\ act.e = exp.next /\ act.avail = avail
  BY <1>1 DEF Discarded, Reloaded, Pop, Activations
<1> QED
  BY <1>3, <1>4 DEF AfterCallPop

\* A collection leaves the whole nursery, or the program is at its end.
LEMMA CollectNext ==
    ASSUME StackInv, Collect \/ PrimitiveCollects
    PROVE  /\ prog' = prog /\ nalloc' = nalloc /\ a'.e = a.e
           /\ \/ a.at = "entryGc" /\ a'.at = "entryPop"
              \/ a.at = "callGc" /\ a'.at = "callPop"
              \/ a.at = "prim" /\ a'.at = "prim"
              \/ a.at \in {"entryGc", "callGc"} /\ a' = a /\ avail' = avail /\ room' = room
           /\ a' = a \/ a'.at = "prim" \/ ~ (nalloc > NURSERY)
           /\ \/ a' = a /\ avail' = avail /\ room' = room
              \/ avail' = NURSERY /\ room' = NURSERY
<1>1. /\ a \in Activations(prog) /\ Top \in 1 .. Top /\ stack \in Seq(Activations(prog))
      /\ Top = Len(stack) /\ DOMAIN stack = 1 .. Top /\ Top \in Nat
  BY TopFacts DEF StackInv, StackOK, Top
<1>2. AfterCollection(Top).at = a.at /\ AfterCollection(Top).e = a.e
      /\ DOMAIN AfterCollection(Top) = DOMAIN a
  BY <1>1 DEF AfterCollection, Activations, a
<1>3. prog' = prog /\ nalloc' = nalloc
  BY DEF Collect, PrimitiveCollects
<1>4. ASSUME NEW st, st \in [1 .. Top -> {st[k] : k \in 1 .. Top}], stack' = st PROVE a' = st[Top]
  BY <1>1, <1>4, LenProperties, SeqDef DEF a, Top
<1>5. CASE PrimitiveCollects
  <2>1. /\ a.at = "prim" /\ avail' = NURSERY /\ room' = NURSERY
        /\ stack' = [k \in DOMAIN stack |-> AfterCollection(k)]
    BY <1>5 DEF PrimitiveCollects
  <2>2. a' = AfterCollection(Top)
    BY <1>1, <1>4, <2>1
  <2> QED BY <1>2, <1>3, <2>1, <2>2
<1>6. CASE Collect
  <2> DEFINE then == IF a.at = "entryGc" THEN "entryPop" ELSE "callPop"
             last == [AfterCollection(Top) EXCEPT !.at = then]
  <2>1. a.at \in {"entryGc", "callGc"}
    BY <1>6 DEF Collect
  <2>2. CASE nalloc > NURSERY
    BY <1>3, <1>6, <2>1, <2>2 DEF Collect, garbage_collect, a, Top
  <2>3. CASE ~ (nalloc > NURSERY)
    <3>1. /\ stack' = [k \in DOMAIN stack |-> IF k = Top THEN last ELSE AfterCollection(k)]
          /\ avail' = NURSERY /\ room' = NURSERY
      BY <1>6, <2>3 DEF Collect, garbage_collect
    <3>2. a' = last
      BY <1>1, <1>4, <3>1
    <3>3. last.at = then /\ last.e = a.e
      BY <1>1, <1>2 DEF Activations
    <3> HIDE DEF last
    <3> QED BY <1>3, <2>1, <2>3, <3>1, <3>2, <3>3
  <2> QED BY <2>2, <2>3
<1> QED
  BY <1>5, <1>6
\* The code of a term has bound a variable: the words that it took were counted,
\* unless they are those of a literal.
LEMMA StraightNext ==
    ASSUME StackInv, Construct \/ Literal \/ Project \/ Compute
    PROVE  /\ a.at = "body" /\ a'.at = "body" /\ a'.e = exp.next
           /\ prog' = prog /\ avail' = avail /\ nalloc' = nalloc
           /\ prog.words[a.e] \in Nat /\ prog.words[exp.next] \in Nat
           /\ \E n \in Nat :
                 /\ a'.avail = a.avail - n /\ room' = room - n
                 /\ exp.op # "primval" \/ exp.words = 0 =>
                       prog.words[a.e] = prog.words[exp.next] + n
<1>1. /\ a.at = "body" /\ exp.op \in {"constr", "primval", "proj", "prim"}
      /\ exp = prog.exps[a.e]
  BY DEF Construct, Literal, Project, Compute, Body, exp, exps
<1>2. /\ CodeFacts(prog) /\ ExpFacts(prog, a.e) /\ WordFacts(prog, a.e)
  BY TopFacts
<1>3. exp.next \in DOMAIN prog.exps
  <2>1. exp.next \in Subs(exp)
    BY <1>1 DEF Subs
  <2> QED BY <1>1, <1>2, <2>1 DEF ExpFacts
<1>4. prog.words[a.e] \in Nat /\ prog.words[exp.next] \in Nat
  BY <1>2, <1>3 DEF CodeFacts, WordFacts
<1>5. Len(exp.ys) \in Nat
  BY <1>1, <1>2 DEF ExpFacts
<1>6. ASSUME NEW v, NEW n \in Nat, Bind(v, n),
             exp.op # "primval" \/ exp.words = 0 => prog.words[a.e] = prog.words[exp.next] + n
      PROVE  /\ a'.at = "body" /\ a'.e = exp.next
             /\ prog' = prog /\ avail' = avail /\ nalloc' = nalloc
             /\ \E k \in Nat :
                   /\ a'.avail = a.avail - k /\ room' = room - k
                   /\ exp.op # "primval" \/ exp.words = 0 =>
                         prog.words[a.e] = prog.words[exp.next] + k
  <2>1. /\ a'.at = a.at /\ a'.e = exp.next /\ a'.avail = a.avail - n
        /\ prog' = prog /\ avail' = avail /\ room' = room - n /\ nalloc' = nalloc
    BY <1>6, BindNext
  <2> QED BY <1>1, <1>6, <2>1
<1>7. CASE Construct
  <2>1. exp.op = "constr"
    BY <1>7 DEF Construct, Body
  <2>2. CASE exp.ys = <<>>
    <3>1. Bind(Immediate, 0)
      BY <1>7, <2>2 DEF Construct
    <3>2. prog.words[a.e] = prog.words[exp.next] + 0
      BY <1>1, <1>2, <1>4, <2>1, <2>2 DEF WordFacts
    <3> QED BY <1>1, <1>4, <1>6, <3>1, <3>2
  <2>3. CASE exp.ys # <<>>
    <3> DEFINE n == 1 + Len(exp.ys)
    <3>1. Bind(Fresh, n)
      BY <1>7, <2>3 DEF Construct
    <3>2. prog.words[a.e] = 1 + prog.words[exp.next] + Len(exp.ys)
      BY <1>1, <1>2, <2>1, <2>3 DEF WordFacts
    <3>3. n \in Nat /\ prog.words[a.e] = prog.words[exp.next] + n
      BY <1>4, <1>5, <3>2
    <3> HIDE DEF n
    <3> QED BY <1>1, <1>4, <1>6, <3>1, <3>3
  <2> QED BY <2>2, <2>3
<1>8. CASE Literal
  <2>1. exp.op = "primval" /\ exp.words \in Nat /\ prog.words[a.e] = prog.words[exp.next]
    BY <1>1, <1>2, <1>8 DEF Literal, Body, ExpFacts, WordFacts
  <2>2. PICK v : Bind(v, exp.words)
    BY <1>8 DEF Literal
  <2>3. exp.words = 0 => prog.words[a.e] = prog.words[exp.next] + exp.words
    BY <1>4, <2>1
  <2> QED BY <1>1, <1>4, <1>6, <2>1, <2>2, <2>3
<1>9. CASE Project \/ Compute
  <2>1. PICK v : Bind(v, 0)
    BY <1>9 DEF Project, Compute
  <2>2. prog.words[a.e] = prog.words[exp.next] + 0
    <3>1. exp.op \in {"proj", "prim"}
      BY <1>9 DEF Project, Compute, Body
    <3> QED BY <1>1, <1>2, <1>4, <3>1 DEF WordFacts
  <2> QED BY <1>1, <1>4, <1>6, <2>1, <2>2
<1> QED
  BY <1>7, <1>8, <1>9

\* No step loses track of what is allocated.
LEMMA NextAlloc == StackInv /\ AllocPublished /\ [Next]_vars => AllocPublished'
<1> SUFFICES ASSUME StackInv, AllocPublished, [Next]_vars PROVE AllocPublished'
  OBVIOUS
<1>1. room = IF a.at = "body" THEN a.avail ELSE avail
  BY DEF AllocPublished
<1> SUFFICES room' = IF a'.at = "body" THEN a'.avail ELSE avail'
  BY DEF AllocPublished
<1>2. CASE UNCHANGED vars
  BY <1>1, <1>2 DEF vars, a, Top
<1>3. CASE Ended
  BY <1>1, <1>3 DEF Ended, vars, a, Top
<1>4. CASE Enter
  BY <1>1, <1>4, EnterNext
<1>5. CASE EnterPop
  BY <1>1, <1>5, EnterPopNext
<1>6. CASE Construct \/ Literal \/ Project \/ Compute
  BY <1>1, <1>6, StraightNext
<1>7. CASE Switch
  BY <1>1, <1>7, SwitchNext
<1>8. CASE CallFunction \/ CallPrimitive \/ TailCall
  BY <1>1, <1>8, CallNext
<1>9. CASE PrimitiveReturns
  BY <1>1, <1>9, PrimitiveReturnsNext
<1>10. CASE Return
  BY <1>1, <1>10, ReturnNext
<1>11. CASE AfterCall
  BY <1>1, <1>11, AfterCallNext
<1>12. CASE AfterCallPop
  BY <1>1, <1>12, AfterCallPopNext
<1>13. CASE Collect \/ PrimitiveCollects
  BY <1>1, <1>13, CollectNext
<1> QED
  BY <1>2, <1>3, <1>4, <1>5, <1>6, <1>7, <1>8, <1>9, <1>10, <1>11, <1>12, <1>13 DEF Next

\* Whoever allocates next finds the alloc pointer that the objects allocated so
\* far have left.
THEOREM AllocIsPublished == Spec => []AllocPublished
<1>1. Init => AllocPublished
  <2> SUFFICES ASSUME Init PROVE AllocPublished
    OBVIOUS
  <2>1. a = Activation(prog.main, <<>>)
    BY DEF Init, a, Top
  <2>2. a.at = "entry"
    BY <2>1 DEF Activation
  <2> QED BY <2>2 DEF Init, AllocPublished
<1>2. StackInv /\ AllocPublished /\ [Next]_vars => AllocPublished'
  BY NextAlloc
<1> QED
  BY <1>1, <1>2, StackInvariant, PTL DEF Spec

-----------------------------------------------------------------------------
(* The words that are there *)

\* What the code generator relies on: max_allocs does not count the words of a
\* literal.
LiteralsAllocateNothing ==
    \A p \in Programs : \A e \in DOMAIN p.exps :
        p.exps[e].op = "primval" => p.exps[e].words = 0

\* The words until the next call are there while code runs, asked for while the
\* collector is called, and there again when it has returned.
RoomInv ==
    /\ avail \in 0 .. NURSERY /\ room \in 0 .. NURSERY /\ nalloc \in Nat
    /\ a.at = "body" => prog.words[a.e] <= a.avail
    /\ a.at = "entryGc" => nalloc = prog.words[a.e]
    /\ a.at = "entryPop" => prog.words[a.e] <= avail
    /\ a.at = "callGc" => nalloc = prog.words[prog.exps[a.e].next]
    /\ a.at = "callPop" => prog.words[prog.exps[a.e].next] <= avail

\* The words of every expression of the program are a number.
LEMMA WordsNumber ==
    ASSUME StackInv
    PROVE  /\ exp = prog.exps[a.e] /\ prog.words[a.e] \in Nat
           /\ a.at \in {"returned", "callGc", "callPop"} => prog.words[exp.next] \in Nat
           /\ exp.op = "case" => \A e \in exp.arms :
                 prog.words[e] \in Nat /\ prog.words[e] <= prog.words[a.e]
<1>1. /\ CodeFacts(prog) /\ Typed(prog, a) /\ ExpFacts(prog, a.e) /\ WordFacts(prog, a.e)
      /\ CallFacts(prog, a.e)
  BY TopFacts
<1>2. exp = prog.exps[a.e]
  BY DEF exp, exps
<1>3. ASSUME NEW d \in Subs(exp) PROVE prog.words[d] \in Nat
  <2>1. d \in DOMAIN prog.exps
    BY <1>1, <1>2 DEF ExpFacts
  <2> QED BY <1>1, <2>1 DEF CodeFacts, WordFacts
<1>4. a.at \in {"returned", "callGc", "callPop"} => prog.words[exp.next] \in Nat
  <2> SUFFICES ASSUME a.at \in {"returned", "callGc", "callPop"}
               PROVE  prog.words[exp.next] \in Nat
    OBVIOUS
  <2>1. Calls(exp)
    BY <1>1, <1>2 DEF Typed
  <2>2. exp.next \in Subs(exp)
    BY <1>1, <1>2, <2>1 DEF CallFacts
  <2> QED BY <1>3, <2>2
<1>5. ASSUME exp.op = "case", NEW e \in exp.arms
      PROVE  prog.words[e] \in Nat /\ prog.words[e] <= prog.words[a.e]
  <2>1. e \in Subs(exp)
    BY <1>5 DEF Subs
  <2> QED BY <1>1, <1>2, <1>3, <1>5, <2>1 DEF WordFacts
<1> QED
  BY <1>1, <1>2, <1>4, <1>5 DEF WordFacts

\* No step breaks it, of a program whose literals allocate nothing.
LEMMA NextRoom ==
    ASSUME LiteralsAllocateNothing
    PROVE  StackInv /\ AllocPublished /\ RoomInv /\ [Next]_vars => RoomInv'
<1> SUFFICES ASSUME StackInv, AllocPublished, RoomInv, [Next]_vars PROVE RoomInv'
  OBVIOUS
<1>1. /\ room = IF a.at = "body" THEN a.avail ELSE avail
      /\ NURSERY \in Nat /\ a.avail \in Int
      /\ avail \in 0 .. NURSERY /\ room \in 0 .. NURSERY /\ nalloc \in Nat
  BY TopFacts, SizesAssumption DEF AllocPublished, RoomInv
<1>2. /\ exp = prog.exps[a.e] /\ prog.words[a.e] \in Nat
      /\ a.at \in {"returned", "callGc", "callPop"} => prog.words[exp.next] \in Nat
      /\ exp.op = "case" => \A e \in exp.arms :
            prog.words[e] \in Nat /\ prog.words[e] <= prog.words[a.e]
  BY WordsNumber
<1>3. CASE UNCHANGED vars
  BY <1>3 DEF vars, a, Top, RoomInv
<1>4. CASE Ended
  BY <1>4 DEF Ended, vars, a, Top, RoomInv
<1>5. CASE Enter
  BY <1>1, <1>2, <1>5, EnterNext DEF RoomInv
<1>6. CASE EnterPop
  BY <1>1, <1>2, <1>6, EnterPopNext DEF RoomInv
<1>7. CASE Construct \/ Literal \/ Project \/ Compute
  <2>1. exp.op # "primval" \/ exp.words = 0
    <3>1. PICK p \in Programs : prog = Compiled(p)
      BY DEF StackInv, IsCompiled
    <3>2. prog.exps = p.exps
      BY <3>1, CompiledFields
    <3>3. a.e \in DOMAIN prog.exps
      BY TopFacts
    <3> QED BY <1>2, <3>2, <3>3 DEF LiteralsAllocateNothing
  <2>2. /\ a.at = "body" /\ a'.at = "body" /\ a'.e = exp.next
        /\ prog' = prog /\ avail' = avail /\ nalloc' = nalloc
        /\ prog.words[a.e] \in Nat /\ prog.words[exp.next] \in Nat
    BY <1>7, StraightNext
  <2>3. PICK n \in Nat : /\ a'.avail = a.avail - n /\ room' = room - n
                         /\ prog.words[a.e] = prog.words[exp.next] + n
    BY <1>7, <2>1, StraightNext
  <2>4. prog.words[a.e] <= a.avail /\ room = a.avail
    BY <1>1, <2>2 DEF RoomInv
  <2>5. room' \in 0 .. NURSERY /\ prog.words[exp.next] <= a.avail - n
    BY <1>1, <2>2, <2>3, <2>4
  <2> QED BY <1>1, <2>2, <2>3, <2>5 DEF RoomInv
<1>8. CASE Switch
  BY <1>1, <1>2, <1>8, SwitchNext DEF RoomInv
<1>9. CASE CallFunction \/ CallPrimitive \/ TailCall
  BY <1>1, <1>9, CallNext DEF RoomInv
<1>10. CASE PrimitiveReturns
  <2>1. /\ a'.at = "returned" /\ prog' = prog /\ nalloc' = nalloc /\ a.at = "prim"
    BY <1>10, PrimitiveReturnsNext
  <2>2. PICK n \in 0 .. avail : avail' = avail - n /\ room' = room - n
    BY <1>10, PrimitiveReturnsNext
  <2>3. avail' \in 0 .. NURSERY /\ room' \in 0 .. NURSERY
    BY <1>1, <2>1, <2>2
  <2> QED BY <1>1, <2>1, <2>3 DEF RoomInv
<1>11. CASE Return
  BY <1>1, <1>11, ReturnNext DEF RoomInv
<1>12. CASE AfterCall
  BY <1>1, <1>2, <1>12, AfterCallNext DEF RoomInv
<1>13. CASE AfterCallPop
  BY <1>1, <1>2, <1>13, AfterCallPopNext DEF RoomInv
<1>14. CASE Collect \/ PrimitiveCollects
  BY <1>1, <1>2, <1>14, CollectNext DEF RoomInv
<1> QED
  BY <1>3, <1>4, <1>5, <1>6, <1>7, <1>8, <1>9, <1>10, <1>11, <1>12, <1>13, <1>14 DEF Next

\* The running code has the words that it needs, and all words are in the nursery.
LEMMA RoomInvariant ==
    ASSUME LiteralsAllocateNothing
    PROVE  Spec => []RoomInv
<1>1. Init => RoomInv
  <2> SUFFICES ASSUME Init PROVE RoomInv
    OBVIOUS
  <2>1. a = Activation(prog.main, <<>>)
    BY DEF Init, a, Top
  <2>2. a.at = "entry"
    BY <2>1 DEF Activation
  <2> QED BY <2>2, SizesAssumption DEF Init, RoomInv
<1>2. StackInv /\ AllocPublished /\ RoomInv /\ [Next]_vars => RoomInv'
  BY NextRoom
<1> QED
  BY <1>1, <1>2, StackInvariant, AllocIsPublished, PTL DEF Spec

\* Until the next call every allocation has its words, if literals allocate
\* nothing: the check on entry or after the last call was for all of them.
THEOREM WordsAreThere ==
    ASSUME LiteralsAllocateNothing
    PROVE  Spec => []WordsThere
<1>1. RoomInv => WordsThere
  BY DEF RoomInv, WordsThere
<1> QED
  BY <1>1, RoomInvariant, PTL

\* No object is beyond the limit of the nursery, if literals allocate nothing:
\* they are the only cause of what run clight_literals shows.
THEOREM ObjectsWithinLimit ==
    ASSUME LiteralsAllocateNothing
    PROVE  Spec => []WithinLimit
<1>1. StackInv /\ AllocPublished /\ RoomInv => WithinLimit
  BY SizesAssumption DEF AllocPublished, RoomInv, WithinLimit
<1> QED
  BY <1>1, StackInvariant, AllocIsPublished, RoomInvariant, PTL

\* How the program ends is one of those the generated code knows.
LEMMA EndsKnown == Spec => [](pc \in {"run", "done", "nurseryTooSmall", "stackOverflow"})
<1> DEFINE Known == pc \in {"run", "done", "nurseryTooSmall", "stackOverflow"}
<1>1. Init => Known
  BY DEF Init
<1>2. Known /\ [Next]_vars => Known'
  <2> SUFFICES ASSUME Known, [Next]_vars PROVE Known'
    OBVIOUS
  <2>1. CASE Construct \/ Literal \/ Project \/ Compute
    BY <2>1 DEF Construct, Literal, Project, Compute, Bind
  <2>2. CASE ~ (Construct \/ Literal \/ Project \/ Compute)
    BY <2>2 DEF Next, vars, Collect, garbage_collect, Enter, EnterPop, Switch, CallFunction,
       CallPrimitive, PrimitiveCollects, PrimitiveReturns, TailCall, Return, AfterCall,
       AfterCallPop, Ended
  <2> QED BY <2>1, <2>2
<1> QED
  BY <1>1, <1>2, PTL DEF Spec

\* Slots, frames and activations refer to what exists, and the words left are
\* never negative.
THEOREM TypeCorrect ==
    ASSUME LiteralsAllocateNothing
    PROVE  Spec => []TypeOK
<1>1. ASSUME StackInv, RoomInv, pc \in {"run", "done", "nurseryTooSmall", "stackOverflow"}
      PROVE  TypeOK
  <2>1. CodeFacts(prog) /\ StackOK(prog, stack, fp)
    BY <1>1, CompiledIsSound DEF StackInv
  <2>2. Top \in 1 .. MaxDepth /\ Top \in Nat
    BY <2>1, SizesAssumption DEF StackOK, Top
  <2>3. fp \in 0 .. Top
    <3>1. Below(prog, stack, Top + 1, fp)
      BY <2>1 DEF StackOK, Chained, Top
    <3> QED BY <2>2, <3>1 DEF Below
  <2>4. ASSUME NEW k \in 1 .. Top
        PROVE  /\ stack[k].at \in Ats
               /\ stack[k].e \in DOMAIN prog.exps
               /\ Range(stack[k].locals) \cup Range(stack[k].roots) \subseteq Contents
               /\ stack[k].next \in 0 .. Cardinality(DOMAIN stack[k].roots)
               /\ stack[k].prev \in 0 .. k - 1
    <3> DEFINE act == stack[k]
               size == prog.size[act.f]
    <3>1. Typed(prog, act) /\ Holds(prog, act) /\ act \in Activations(prog)
      BY <2>1 DEF StackOK, Typed, Top
    <3>2. act.at \in Ats /\ act.e \in DOMAIN prog.exps /\ act.f \in DOMAIN prog.funs
          /\ act.next \in Nat /\ act.prev \in Nat
      BY <3>1, ActivationFields
    <3>3. k \in Nat /\ k - 1 \in Nat
      BY <2>2
    <3>4. act.prev \in 0 .. k - 1
      <4>1. CASE act.at = "entry"
        BY <3>1, <3>3, <4>1 DEF Holds
      <4>2. CASE act.at # "entry"
        <5>1. Below(prog, stack, k, act.prev)
          BY <2>1, <4>2 DEF StackOK, Chained, Top
        <5> QED BY <5>1 DEF Below
      <4> QED BY <4>1, <4>2
    <3>5. Range(act.locals) \cup Range(act.roots) \subseteq Contents
      <4>1. /\ act.locals \in [Names(prog, act.f) -> Contents]
            /\ act.roots \in [0 .. size - 1 -> Contents]
        BY <3>1 DEF Typed
      <4> HIDE DEF act
      <4> QED BY <4>1 DEF Range
    <3>6. size \in Nat /\ act.next <= size /\ DOMAIN act.roots = 0 .. size - 1
      BY <2>1, <3>1, <3>2 DEF CodeFacts, FunFacts, Typed
    <3> HIDE DEF size, act
    <3>7. Cardinality(0 .. size - 1) = size
      <4>1. 0 \in Int /\ size - 1 \in Int
        BY <3>6
      <4>2. Cardinality(0 .. size - 1) = IF 0 > size - 1 THEN 0 ELSE size - 1 - 0 + 1
        BY <4>1, FS_Interval
      <4> QED BY <3>6, <4>2
    <3>8. act.next \in 0 .. Cardinality(DOMAIN act.roots)
      BY <3>2, <3>6, <3>7
    <3> QED BY <3>2, <3>4, <3>5, <3>8 DEF act
  <2> QED
    BY <1>1, <2>2, <2>3, <2>4 DEF TypeOK, RoomInv, Ats, Contents, exps
<1> QED
  BY <1>1, StackInvariant, RoomInvariant, EndsKnown, PTL

=============================================================================
