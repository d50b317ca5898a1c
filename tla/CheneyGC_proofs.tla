-------------------------- MODULE CheneyGC_proofs --------------------------
(* The collector copies every object once, follows every pointer that there *)
(* is, and keeps to the policy of Generations, for every heap, if stores    *)
(* into older cells are of pointers into the nursery.                       *)
EXTENDS CheneyGC, FiniteSetTheorems, SequenceTheorems, WellFoundedInduction, TLAPS

GP == INSTANCE Generations_proofs

Gens == 0 .. MAX_SPACES - 1

-----------------------------------------------------------------------------
(* Words *)

\* The parts of a pointer, a header and a cell, and what tells words apart.
LEMMA WordParts ==
    /\ \A g, o : Ptr(g, o)[1] = "ptr" /\ Ptr(g, o)[2] = g /\ Ptr(g, o)[3] = o
    /\ \A id, n, b : /\ Hdr(id, n, b)[1] = "hdr" /\ Hdr(id, n, b)[2] = id
                     /\ Hdr(id, n, b)[3] = n /\ Hdr(id, n, b)[4] = b
    /\ \A g, o : Cell(g, o)[1] = "cell" /\ Cell(g, o)[2] = g /\ Cell(g, o)[3] = o
    /\ Forwarded[1] = "hdr0" /\ Junk[1] = "junk" /\ Unboxed[1] = "int" /\ Out[1] = "out"
BY DEF Ptr, Hdr, Cell, Forwarded, Junk, Unboxed, Out

-----------------------------------------------------------------------------
(* Objects of a memory m, whose generations are in use up to e *)

HeaderTags == {"hdr", "hdr0"}

\* The word before an object.
IsHead(m, e, g, h) == g \in Gens /\ h \in 0 .. e[g] - 1 /\ m[g][h][1] \in HeaderTags

\* The number of its fields, which its copy knows if it has been copied.
SizeAt(m, g, h) == IF m[g][h] = Forwarded THEN HeaderIn(m, m[g][h + 1])[3] ELSE m[g][h][3]

\* A pointer to an object, and a value.
IsObj(m, e, v) ==
    IntoHeap(v) /\ v = Ptr(v[2], v[3]) /\ v[3] \in Nat /\ IsHead(m, e, v[2], v[3] - 1)

IsVal(m, e, w) == w \in {Unboxed, Out} \/ IsObj(m, e, w)

\* Word o of generation g is a field, that holds a value, of the object at h.
Field(m, e, g, h, o) ==
    /\ IsHead(m, e, g, h) /\ m[g][h] # Forwarded /\ m[g][h][4]
    /\ o \in h + 1 .. h + m[g][h][3]

\* The identities given out before n.
Given(n) == Ids \cap 0 .. n - 1

Headers(n) == {Hdr(id, k, b) : id \in Given(n), k \in Nat \ {0}, b \in BOOLEAN}

\* More identities given out are more headers.
LEMMA MoreHeaders ==
    ASSUME NEW n1, NEW n2, Given(n1) \subseteq Given(n2)
    PROVE  Headers(n1) \subseteq Headers(n2)
<1> SUFFICES ASSUME NEW h \in Headers(n1) PROVE h \in Headers(n2)
  OBVIOUS
<1>1. PICK id \in Given(n1), k \in Nat \ {0}, b \in BOOLEAN : h = Hdr(id, k, b)
  BY DEF Headers
<1>2. id \in Given(n2)
  BY <1>1
<1> HIDE DEF Given
<1> QED
  BY <1>1, <1>2 DEF Headers

\* Objects do not overlap, and fill the words in use from the first one on.
Layout(m, e, n) ==
    \A g, h : IsHead(m, e, g, h) =>
        /\ SizeAt(m, g, h) \in Nat \ {0} /\ h + SizeAt(m, g, h) < e[g]
        /\ \A o \in h + 1 .. h + SizeAt(m, g, h) : ~ IsHead(m, e, g, o)
        /\ h + 1 + SizeAt(m, g, h) = e[g] \/ IsHead(m, e, g, h + 1 + SizeAt(m, g, h))
        /\ m[g][h] = Forwarded \/ m[g][h] \in Headers(n)

\* No object is in two places.
Unique(m, e) ==
    \A g, h, g2, h2 :
        /\ IsHead(m, e, g, h) /\ m[g][h] # Forwarded
        /\ IsHead(m, e, g2, h2) /\ m[g2][h2] # Forwarded
        /\ m[g][h][2] = m[g2][h2][2]
        => g = g2 /\ h = h2

\* The objects that have been copied, and the words that they were in.
FromOnly(m, e, k) ==
    \A g, h : IsHead(m, e, g, h) /\ m[g][h] = Forwarded =>
        g = k /\ IsObj(m, e, m[g][h + 1]) /\ m[g][h + 1][2] = k + 1

Copied(m, e, g) ==
    {o \in 0 .. e[g] - 1 :
        \E h : /\ IsHead(m, e, g, h) /\ m[g][h] = Forwarded
               /\ o \in h .. h + SizeAt(m, g, h)}

\* An entry of the remembered set of generation g: a field of an object of
\* that generation or an older one.
Entry(m, e, g, c) ==
    /\ c = Cell(c[2], c[3]) /\ c[2] \in Gens /\ c[2] >= g
    /\ \E h : /\ IsHead(m, e, c[2], h) /\ (m[c[2]][h] = Forwarded \/ m[c[2]][h][4])
              /\ c[3] \in h + 1 .. h + SizeAt(m, c[2], h)

\* Every generation has its words, and those in use are some of them.
Sized(m, e, r) ==
    /\ DOMAIN m = Gens
    /\ \A g \in Gens : /\ e[g] \in Nat /\ r[g] \in Nat /\ e[g] <= r[g]
                       /\ DOMAIN m[g] = 0 .. r[g] - 1

\* What Layout says of one object.
LEMMA HeadFacts ==
    ASSUME NEW m, NEW e, NEW r, NEW n \in Nat, Sized(m, e, r), Layout(m, e, n),
           NEW g, NEW h, IsHead(m, e, g, h)
    PROVE  /\ g \in Gens /\ h \in Nat /\ h < e[g]
           /\ e[g] \in Nat /\ r[g] \in Nat /\ e[g] <= r[g]
           /\ SizeAt(m, g, h) \in Nat \ {0} /\ h + SizeAt(m, g, h) < e[g]
           /\ m[g][h] # Forwarded =>
                 /\ m[g][h] \in Headers(n) /\ SizeAt(m, g, h) = m[g][h][3]
                 /\ IsHeader(m[g][h]) /\ m[g][h][2] \in Given(n)
                 /\ m[g][h][4] \in BOOLEAN
<1>1. /\ g \in Gens /\ h \in 0 .. e[g] - 1 /\ e[g] \in Nat /\ r[g] \in Nat /\ e[g] <= r[g]
  BY DEF IsHead, Sized
<1>2. /\ SizeAt(m, g, h) \in Nat \ {0} /\ h + SizeAt(m, g, h) < e[g]
      /\ m[g][h] = Forwarded \/ m[g][h] \in Headers(n)
  BY DEF Layout
<1>3. ASSUME m[g][h] # Forwarded
      PROVE  /\ m[g][h] \in Headers(n) /\ SizeAt(m, g, h) = m[g][h][3]
             /\ IsHeader(m[g][h]) /\ m[g][h][2] \in Given(n)
             /\ m[g][h][4] \in BOOLEAN
  <2>1. m[g][h] \in Headers(n) /\ SizeAt(m, g, h) = m[g][h][3]
    BY <1>2, <1>3 DEF SizeAt
  <2>2. PICK id \in Given(n), k \in Nat \ {0}, b \in BOOLEAN : m[g][h] = Hdr(id, k, b)
    BY <2>1 DEF Headers
  <2> QED BY <2>1, <2>2, WordParts DEF IsHeader
<1> QED
  BY <1>1, <1>2, <1>3

\* A word is in one object only.
LEMMA Apart ==
    ASSUME NEW m, NEW e, NEW r, NEW n \in Nat, Sized(m, e, r), Layout(m, e, n),
           NEW g, NEW h, NEW h2, NEW o, IsHead(m, e, g, h), IsHead(m, e, g, h2),
           o \in h .. h + SizeAt(m, g, h), o \in h2 .. h2 + SizeAt(m, g, h2)
    PROVE  h = h2
<1>1. /\ h \in Nat /\ SizeAt(m, g, h) \in Nat
      /\ h2 \in Nat /\ SizeAt(m, g, h2) \in Nat
  BY HeadFacts
<1>2. /\ ~ (h2 \in h + 1 .. h + SizeAt(m, g, h))
      /\ ~ (h \in h2 + 1 .. h2 + SizeAt(m, g, h2))
  BY DEF Layout
<1> QED
  BY <1>1, <1>2

-----------------------------------------------------------------------------
(* What does not disturb objects *)

\* The headers of m2 are those of m.
Keeps(m, m2, e) ==
    \A g, h : /\ IsHead(m, e, g, h) <=> IsHead(m2, e, g, h)
              /\ IsHead(m, e, g, h) =>
                    /\ m2[g][h] = m[g][h]
                    /\ m[g][h] = Forwarded => m2[g][h + 1] = m[g][h + 1]

\* Then objects are what they were.
LEMMA KeptObjects ==
    ASSUME NEW m, NEW m2, NEW e, NEW k, Keeps(m, m2, e), FromOnly(m, e, k)
    PROVE  /\ \A g, h : IsHead(m, e, g, h) =>
                 SizeAt(m2, g, h) = SizeAt(m, g, h) /\ m2[g][h] = m[g][h]
           /\ \A v : IsObj(m2, e, v) <=> IsObj(m, e, v)
           /\ \A v : IsVal(m2, e, v) <=> IsVal(m, e, v)
           /\ \A g, h, o : Field(m2, e, g, h, o) <=> Field(m, e, g, h, o)
           /\ \A g, c : Entry(m, e, g, c) => Entry(m2, e, g, c)
           /\ FromOnly(m2, e, k)
           /\ \A g : Copied(m2, e, g) = Copied(m, e, g)
<1>1. \A g, h : /\ IsHead(m, e, g, h) <=> IsHead(m2, e, g, h)
                /\ IsHead(m, e, g, h) =>
                      /\ m2[g][h] = m[g][h]
                      /\ m[g][h] = Forwarded => m2[g][h + 1] = m[g][h + 1]
  BY DEF Keeps
<1>2. \A v : IsObj(m2, e, v) <=> IsObj(m, e, v)
  BY <1>1 DEF IsObj
<1>3. \A v : IsVal(m2, e, v) <=> IsVal(m, e, v)
  BY <1>2 DEF IsVal
<1>4. ASSUME NEW g, NEW h, IsHead(m, e, g, h)
      PROVE  SizeAt(m2, g, h) = SizeAt(m, g, h) /\ m2[g][h] = m[g][h]
  <2>1. m2[g][h] = m[g][h]
    BY <1>1, <1>4
  <2>2. CASE m[g][h] = Forwarded
    <3> DEFINE v == m[g][h + 1]
    <3>1. m2[g][h + 1] = v /\ IsHead(m, e, v[2], v[3] - 1)
      BY <1>1, <1>4, <2>2 DEF FromOnly, IsObj
    <3>2. HeaderIn(m2, v) = HeaderIn(m, v)
      BY <1>1, <3>1 DEF HeaderIn
    <3> QED BY <2>1, <2>2, <3>1, <3>2 DEF SizeAt
  <2>3. CASE m[g][h] # Forwarded
    BY <2>1, <2>3 DEF SizeAt
  <2> QED BY <2>1, <2>2, <2>3
<1>5. \A g, h, o : Field(m2, e, g, h, o) <=> Field(m, e, g, h, o)
  BY <1>1 DEF Field
<1>6. ASSUME NEW g, NEW c, Entry(m, e, g, c) PROVE Entry(m2, e, g, c)
  <2>1. PICK h : /\ IsHead(m, e, c[2], h) /\ (m[c[2]][h] = Forwarded \/ m[c[2]][h][4])
                 /\ c[3] \in h + 1 .. h + SizeAt(m, c[2], h)
    BY <1>6 DEF Entry
  <2>2. /\ IsHead(m2, e, c[2], h) /\ (m2[c[2]][h] = Forwarded \/ m2[c[2]][h][4])
        /\ c[3] \in h + 1 .. h + SizeAt(m2, c[2], h)
    BY <1>1, <1>4, <2>1
  <2> QED BY <1>6, <2>2 DEF Entry
<1>7. FromOnly(m2, e, k)
  BY <1>1, <1>2 DEF FromOnly
<1>8. ASSUME NEW g PROVE Copied(m2, e, g) = Copied(m, e, g)
  BY <1>1, <1>4 DEF Copied
<1> QED
  BY <1>2, <1>3, <1>4, <1>5, <1>6, <1>7, <1>8

\* They are where they were.
LEMMA KeptLayout ==
    ASSUME NEW m, NEW m2, NEW e, NEW k, NEW n, Keeps(m, m2, e), FromOnly(m, e, k)
    PROVE  /\ Layout(m, e, n) => Layout(m2, e, n)
           /\ Unique(m, e) => Unique(m2, e)
<1>0. \A g, h : IsHead(m, e, g, h) =>
            SizeAt(m2, g, h) = SizeAt(m, g, h) /\ m2[g][h] = m[g][h]
  BY KeptObjects
<1>1. /\ \A g, h : IsHead(m, e, g, h) <=> IsHead(m2, e, g, h)
      /\ \A g, h : IsHead(m, e, g, h) =>
            SizeAt(m2, g, h) = SizeAt(m, g, h) /\ m2[g][h] = m[g][h]
  BY <1>0 DEF Keeps
<1>2. Layout(m, e, n) => Layout(m2, e, n)
  BY <1>1 DEF Layout
<1>3. Unique(m, e) => Unique(m2, e)
  BY <1>1 DEF Unique
<1> QED
  BY <1>2, <1>3

\* A word that is written in a field, or beyond the words in use, disturbs none.
LEMMA WrittenKeeps ==
    ASSUME NEW m, NEW e, NEW r, NEW n \in Nat, Sized(m, e, r), Layout(m, e, n),
           NEW g \in Gens, NEW o \in 0 .. r[g] - 1, NEW w, w[1] \notin HeaderTags,
           o >= e[g] \/ \E h : Field(m, e, g, h, o)
    PROVE  /\ Keeps(m, Written(m, g, o, w), e)
           /\ Sized(Written(m, g, o, w), e, r)
           /\ Written(m, g, o, w)[g][o] = w
           /\ \A g2 \in Gens : \A o2 \in 0 .. r[g2] - 1 : g2 # g \/ o2 # o =>
                 Written(m, g, o, w)[g2][o2] = m[g2][o2]
<1> DEFINE m2 == Written(m, g, o, w)
<1>1. /\ DOMAIN m2 = Gens /\ \A g2 \in Gens : DOMAIN m2[g2] = DOMAIN m[g2]
      /\ m2[g][o] = w
      /\ \A g2 \in Gens : \A o2 \in 0 .. r[g2] - 1 : g2 # g \/ o2 # o => m2[g2][o2] = m[g2][o2]
  BY DEF Written, Sized
<1> HIDE DEF m2
<1>2. Sized(m2, e, r)
  BY <1>1 DEF Sized
<1>3. ~ IsHead(m, e, g, o)
  <2>1. CASE o >= e[g]
    BY <2>1 DEF IsHead, Sized
  <2>2. CASE \E h : Field(m, e, g, h, o)
    <3>1. PICK h : IsHead(m, e, g, h) /\ m[g][h] # Forwarded /\ o \in h + 1 .. h + m[g][h][3]
      BY <2>2 DEF Field
    <3>2. SizeAt(m, g, h) = m[g][h][3]
      BY <3>1 DEF SizeAt
    <3> QED BY <3>1, <3>2 DEF Layout
  <2> QED BY <2>1, <2>2
<1>8. ~ IsHead(m2, e, g, o)
  BY <1>1 DEF IsHead
<1>9. ASSUME NEW g2 \in Gens, NEW h \in 0 .. e[g2] - 1, g2 # g \/ h # o
      PROVE  m2[g2][h] = m[g2][h]
  <2>1. h \in 0 .. r[g2] - 1
    BY DEF Sized
  <2> QED BY <1>1, <1>9, <2>1
<1>4. ASSUME NEW g2, NEW h PROVE IsHead(m, e, g2, h) <=> IsHead(m2, e, g2, h)
  <2>1. CASE g2 = g /\ h = o
    BY <1>3, <1>8, <2>1
  <2>2. CASE g2 # g \/ h # o
    BY <1>9, <2>2 DEF IsHead
  <2> QED BY <2>1, <2>2
<1>5. ASSUME NEW g2, NEW h, IsHead(m, e, g2, h)
      PROVE  m2[g2][h] = m[g2][h]
  <2>1. g2 # g \/ h # o
    BY <1>3, <1>5
  <2> QED BY <1>5, <1>9, <2>1 DEF IsHead
<1>6. ASSUME NEW g2, NEW h, IsHead(m, e, g2, h), m[g2][h] = Forwarded
      PROVE  m2[g2][h + 1] = m[g2][h + 1]
  <2>1. /\ g2 \in Gens /\ h \in Nat /\ SizeAt(m, g2, h) \in Nat \ {0}
        /\ h + SizeAt(m, g2, h) < e[g2] /\ e[g2] \in Nat /\ e[g2] <= r[g2]
    BY <1>6, HeadFacts
  <2>2. h + 1 \in 0 .. r[g2] - 1 /\ h + 1 < e[g2]
    BY <2>1 DEF Sized
  <2>3. ~ (g2 = g /\ o = h + 1)
    <3>1. ASSUME g2 = g, o = h + 1 PROVE FALSE
      <4>1. \E h2 : Field(m, e, g, h2, o)
        BY <2>1, <2>2, <3>1
      <4>2. PICK h2 : IsHead(m, e, g, h2) /\ m[g][h2] # Forwarded /\ o \in h2 + 1 .. h2 + m[g][h2][3]
        BY <4>1 DEF Field
      <4>3. SizeAt(m, g, h2) = m[g][h2][3] /\ h2 \in Nat /\ m[g][h2][3] \in Nat
        <5>1. SizeAt(m, g, h2) = m[g][h2][3] /\ h2 \in Nat /\ SizeAt(m, g, h2) \in Nat
          BY <4>2, HeadFacts
        <5> QED BY <5>1
      <4>5. /\ o \in h2 .. h2 + SizeAt(m, g, h2) /\ o \in h .. h + SizeAt(m, g, h)
            /\ IsHead(m, e, g, h)
        BY <1>6, <2>1, <3>1, <4>2, <4>3
      <4>4. h2 = h
        BY <4>2, <4>5, Apart
      <4> QED BY <1>6, <3>1, <4>2, <4>4
    <3> QED BY <3>1
  <2> QED BY <1>1, <2>1, <2>2, <2>3
<1>7. Keeps(m, m2, e)
  BY <1>4, <1>5, <1>6 DEF Keeps
<1> QED
  BY <1>1, <1>2, <1>7 DEF m2

-----------------------------------------------------------------------------
(* A new object *)

\* m2 is m with an object of sz fields more, at the end of generation g1.
Appended(m, m2, e, e2, g1, sz) ==
    /\ g1 \in Gens /\ sz \in Nat \ {0}
    /\ e2[g1] = e[g1] + 1 + sz /\ \A g \in Gens : g # g1 => e2[g] = e[g]
    /\ \A g \in Gens : \A o \in 0 .. e[g] - 1 : m2[g][o] = m[g][o]
    /\ \A o \in e[g1] + 1 .. e[g1] + sz : m2[g1][o][1] \notin HeaderTags

Appending(m, m2, e, e2, r, n, g1, sz) ==
    /\ n \in Nat /\ Sized(m, e, r) /\ Sized(m2, e2, r) /\ Layout(m, e, n)
    /\ Appended(m, m2, e, e2, g1, sz)
    /\ m2[g1][e[g1]] \in Headers(n) /\ m2[g1][e[g1]][3] = sz

\* Its header is the only new one.
LEMMA AppendedHeads ==
    ASSUME NEW m, NEW m2, NEW e, NEW e2, NEW r, NEW n, NEW g1, NEW sz,
           Appending(m, m2, e, e2, r, n, g1, sz)
    PROVE  /\ \A g, h : IsHead(m2, e2, g, h) <=>
                 IsHead(m, e, g, h) \/ (g = g1 /\ h = e[g1])
           /\ \A g, h : IsHead(m, e, g, h) => m2[g][h] = m[g][h] /\ m2[g][h + 1] = m[g][h + 1]
           /\ m2[g1][e[g1]] # Forwarded
<1>0. /\ n \in Nat /\ Sized(m, e, r) /\ Sized(m2, e2, r) /\ Layout(m, e, n)
      /\ Appended(m, m2, e, e2, g1, sz)
      /\ m2[g1][e[g1]] \in Headers(n) /\ m2[g1][e[g1]][3] = sz
  BY DEF Appending
<1> USE <1>0
<1>1. /\ g1 \in Gens /\ sz \in Nat \ {0} /\ e[g1] \in Nat
      /\ e2[g1] = e[g1] + 1 + sz /\ \A g \in Gens : g # g1 => e2[g] = e[g]
      /\ \A g \in Gens : \A o \in 0 .. e[g] - 1 : m2[g][o] = m[g][o]
      /\ \A o \in e[g1] + 1 .. e[g1] + sz : m2[g1][o][1] \notin HeaderTags
  BY DEF Appended, Sized
<1>2. m2[g1][e[g1]][1] \in HeaderTags /\ m2[g1][e[g1]] # Forwarded
  <2>1. PICK id \in Given(n), k \in Nat \ {0}, b \in BOOLEAN : m2[g1][e[g1]] = Hdr(id, k, b)
    BY DEF Headers
  <2> QED BY <2>1, WordParts DEF HeaderTags
<1>3. ASSUME NEW g, NEW h, IsHead(m, e, g, h)
      PROVE  m2[g][h] = m[g][h] /\ m2[g][h + 1] = m[g][h + 1] /\ IsHead(m2, e2, g, h)
  <2>1. /\ g \in Gens /\ h \in Nat /\ e[g] \in Nat
        /\ SizeAt(m, g, h) \in Nat \ {0} /\ h + SizeAt(m, g, h) < e[g]
    BY <1>3, HeadFacts
  <2>2. h \in 0 .. e[g] - 1 /\ h + 1 \in 0 .. e[g] - 1
    BY <2>1
  <2>3. m2[g][h] = m[g][h] /\ m2[g][h + 1] = m[g][h + 1]
    BY <1>1, <2>1, <2>2
  <2>4. h \in 0 .. e2[g] - 1
    BY <1>1, <2>1, <2>2
  <2> QED BY <1>3, <2>3, <2>4 DEF IsHead
<1>4. IsHead(m2, e2, g1, e[g1])
  BY <1>1, <1>2 DEF IsHead
<1>5. ASSUME NEW g, NEW h, IsHead(m2, e2, g, h), ~ (g = g1 /\ h = e[g1])
      PROVE  IsHead(m, e, g, h)
  <2>1. g \in Gens /\ h \in 0 .. e2[g] - 1 /\ m2[g][h][1] \in HeaderTags
    BY <1>5 DEF IsHead
  <2>2. h \in 0 .. e[g] - 1
    <3>1. CASE g = g1
      <4>1. ~ (h \in e[g1] + 1 .. e[g1] + sz)
        BY <1>1, <2>1, <3>1
      <4> QED BY <1>1, <1>5, <2>1, <3>1, <4>1
    <3>2. CASE g # g1
      BY <1>1, <2>1, <3>2
    <3> QED BY <3>1, <3>2
  <2> QED BY <1>1, <2>1, <2>2 DEF IsHead
<1> QED
  BY <1>2, <1>3, <1>4, <1>5

\* The objects that there were are as they were.
LEMMA AppendedObjects ==
    ASSUME NEW m, NEW m2, NEW e, NEW e2, NEW r, NEW n, NEW k, NEW g1, NEW sz,
           Appending(m, m2, e, e2, r, n, g1, sz), FromOnly(m, e, k)
    PROVE  /\ \A g, h : IsHead(m, e, g, h) => SizeAt(m2, g, h) = SizeAt(m, g, h)
           /\ \A v : IsObj(m, e, v) => IsObj(m2, e2, v)
           /\ \A v : IsVal(m, e, v) => IsVal(m2, e2, v)
           /\ \A g, c : Entry(m, e, g, c) => Entry(m2, e2, g, c)
           /\ FromOnly(m2, e2, k)
<1>0. /\ n \in Nat /\ Sized(m, e, r) /\ Sized(m2, e2, r) /\ Layout(m, e, n)
      /\ Appended(m, m2, e, e2, g1, sz)
      /\ m2[g1][e[g1]] \in Headers(n) /\ m2[g1][e[g1]][3] = sz
  BY DEF Appending
<1> USE <1>0
<1>1. /\ \A g, h : IsHead(m2, e2, g, h) <=>
            IsHead(m, e, g, h) \/ (g = g1 /\ h = e[g1])
      /\ \A g, h : IsHead(m, e, g, h) => m2[g][h] = m[g][h] /\ m2[g][h + 1] = m[g][h + 1]
      /\ m2[g1][e[g1]] # Forwarded
  BY AppendedHeads
<1>2. \A v : IsObj(m, e, v) => IsObj(m2, e2, v)
  BY <1>1 DEF IsObj
<1>3. ASSUME NEW g, NEW h, IsHead(m, e, g, h) PROVE SizeAt(m2, g, h) = SizeAt(m, g, h)
  <2>1. CASE m[g][h] = Forwarded
    <3> DEFINE v == m[g][h + 1]
    <3>1. m2[g][h + 1] = v /\ IsHead(m, e, v[2], v[3] - 1)
      BY <1>1, <1>3, <2>1 DEF FromOnly, IsObj
    <3>2. HeaderIn(m2, v) = HeaderIn(m, v)
      BY <1>1, <3>1 DEF HeaderIn
    <3> QED BY <1>1, <1>3, <2>1, <3>1, <3>2 DEF SizeAt
  <2>2. CASE m[g][h] # Forwarded
    BY <1>1, <1>3, <2>2 DEF SizeAt
  <2> QED BY <2>1, <2>2
<1>4. \A v : IsVal(m, e, v) => IsVal(m2, e2, v)
  BY <1>2 DEF IsVal
<1>5. ASSUME NEW g, NEW c, Entry(m, e, g, c) PROVE Entry(m2, e2, g, c)
  <2>1. PICK h : /\ IsHead(m, e, c[2], h) /\ (m[c[2]][h] = Forwarded \/ m[c[2]][h][4])
                 /\ c[3] \in h + 1 .. h + SizeAt(m, c[2], h)
    BY <1>5 DEF Entry
  <2>2. /\ IsHead(m2, e2, c[2], h) /\ (m2[c[2]][h] = Forwarded \/ m2[c[2]][h][4])
        /\ c[3] \in h + 1 .. h + SizeAt(m2, c[2], h)
    BY <1>1, <1>3, <2>1
  <2> QED BY <1>5, <2>2 DEF Entry
<1>6. FromOnly(m2, e2, k)
  <2> SUFFICES ASSUME NEW g, NEW h, IsHead(m2, e2, g, h), m2[g][h] = Forwarded
               PROVE  g = k /\ IsObj(m2, e2, m2[g][h + 1]) /\ m2[g][h + 1][2] = k + 1
    BY DEF FromOnly
  <2>1. IsHead(m, e, g, h) /\ m[g][h] = Forwarded /\ m2[g][h + 1] = m[g][h + 1]
    BY <1>1
  <2> QED BY <1>2, <2>1 DEF FromOnly
<1> QED
  BY <1>2, <1>3, <1>4, <1>5, <1>6

\* The fields of m2 are those of m and of the new object, and all objects are
\* where Layout has them.
LEMMA AppendedLayout ==
    ASSUME NEW m, NEW m2, NEW e, NEW e2, NEW r, NEW n, NEW k, NEW g1, NEW sz,
           Appending(m, m2, e, e2, r, n, g1, sz), FromOnly(m, e, k)
    PROVE  /\ Layout(m2, e2, n)
           /\ \A g : Copied(m2, e2, g) = Copied(m, e, g)
           /\ \A g, h, o : Field(m, e, g, h, o) => Field(m2, e2, g, h, o) /\ m2[g][o] = m[g][o]
           /\ \A g, h, o : Field(m2, e2, g, h, o) =>
                 Field(m, e, g, h, o) \/ (g = g1 /\ h = e[g1])
<1>0. /\ n \in Nat /\ Sized(m, e, r) /\ Sized(m2, e2, r) /\ Layout(m, e, n)
      /\ Appended(m, m2, e, e2, g1, sz)
      /\ m2[g1][e[g1]] \in Headers(n) /\ m2[g1][e[g1]][3] = sz
  BY DEF Appending
<1> USE <1>0
<1>1. /\ \A g, h : IsHead(m2, e2, g, h) <=>
            IsHead(m, e, g, h) \/ (g = g1 /\ h = e[g1])
      /\ \A g, h : IsHead(m, e, g, h) => m2[g][h] = m[g][h] /\ m2[g][h + 1] = m[g][h + 1]
      /\ m2[g1][e[g1]] # Forwarded
  BY AppendedHeads
<1>2. \A g, h : IsHead(m, e, g, h) => SizeAt(m2, g, h) = SizeAt(m, g, h)
  BY AppendedObjects
<1>3. SizeAt(m2, g1, e[g1]) = sz
  BY <1>1 DEF SizeAt
<1>4. /\ g1 \in Gens /\ sz \in Nat \ {0} /\ e[g1] \in Nat
      /\ e2[g1] = e[g1] + 1 + sz /\ \A g \in Gens : g # g1 => e2[g] = e[g]
      /\ \A g \in Gens : \A o \in 0 .. e[g] - 1 : m2[g][o] = m[g][o]
      /\ \A o \in e[g1] + 1 .. e[g1] + sz : m2[g1][o][1] \notin HeaderTags
  BY DEF Appended, Sized
<1>5. ASSUME NEW g, NEW h, IsHead(m2, e2, g, h)
      PROVE  /\ SizeAt(m2, g, h) \in Nat \ {0} /\ h + SizeAt(m2, g, h) < e2[g]
             /\ \A o \in h + 1 .. h + SizeAt(m2, g, h) : ~ IsHead(m2, e2, g, o)
             /\ h + 1 + SizeAt(m2, g, h) = e2[g] \/ IsHead(m2, e2, g, h + 1 + SizeAt(m2, g, h))
             /\ m2[g][h] = Forwarded \/ m2[g][h] \in Headers(n)
  <2>1. CASE IsHead(m, e, g, h)
    <3> DEFINE z == SizeAt(m, g, h)
    <3>1. /\ g \in Gens /\ h \in Nat /\ z \in Nat \ {0} /\ h + z < e[g] /\ e[g] \in Nat
      BY <2>1, HeadFacts
    <3>2. /\ \A o \in h + 1 .. h + z : ~ IsHead(m, e, g, o)
          /\ h + 1 + z = e[g] \/ IsHead(m, e, g, h + 1 + z)
          /\ m[g][h] = Forwarded \/ m[g][h] \in Headers(n)
      BY <2>1 DEF Layout
    <3>3. SizeAt(m2, g, h) = z /\ m2[g][h] = m[g][h]
      BY <1>1, <1>2, <2>1
    <3> HIDE DEF z
    <3>4. \A o \in h + 1 .. h + z : ~ IsHead(m2, e2, g, o)
      BY <1>1, <1>4, <3>1, <3>2
    <3>5. h + z < e2[g]
      BY <1>4, <3>1
    <3>6. h + 1 + z = e2[g] \/ IsHead(m2, e2, g, h + 1 + z)
      BY <1>1, <1>4, <3>1, <3>2
    <3> QED BY <3>1, <3>2, <3>3, <3>4, <3>5, <3>6
  <2>2. CASE g = g1 /\ h = e[g1]
    <3>1. \A o \in h + 1 .. h + sz : ~ IsHead(m2, e2, g, o)
      BY <1>4, <2>2 DEF IsHead
    <3> QED BY <1>3, <1>4, <2>2, <3>1
  <2> QED BY <1>1, <1>5, <2>1, <2>2
<1>6. Layout(m2, e2, n)
  BY <1>5 DEF Layout
<1>7. ASSUME NEW g PROVE Copied(m2, e2, g) = Copied(m, e, g)
  <2>1. ASSUME NEW o \in Copied(m2, e2, g) PROVE o \in Copied(m, e, g)
    <3>1. PICK h : /\ IsHead(m2, e2, g, h) /\ m2[g][h] = Forwarded
                   /\ o \in h .. h + SizeAt(m2, g, h)
      BY <2>1 DEF Copied
    <3>2. IsHead(m, e, g, h) /\ m[g][h] = Forwarded /\ o \in h .. h + SizeAt(m, g, h)
      BY <1>1, <1>2, <3>1
    <3>3. h \in Nat /\ SizeAt(m, g, h) \in Nat /\ h + SizeAt(m, g, h) < e[g] /\ e[g] \in Nat
      BY <3>2, HeadFacts
    <3>4. o \in 0 .. e[g] - 1
      BY <3>2, <3>3
    <3> QED BY <3>2, <3>4 DEF Copied
  <2>2. ASSUME NEW o \in Copied(m, e, g) PROVE o \in Copied(m2, e2, g)
    <3>1. PICK h : /\ IsHead(m, e, g, h) /\ m[g][h] = Forwarded
                   /\ o \in h .. h + SizeAt(m, g, h)
      BY <2>2 DEF Copied
    <3>2. IsHead(m2, e2, g, h) /\ m2[g][h] = Forwarded /\ o \in h .. h + SizeAt(m2, g, h)
      BY <1>1, <1>2, <3>1
    <3>3. h \in Nat /\ SizeAt(m2, g, h) \in Nat /\ h + SizeAt(m2, g, h) < e2[g] /\ e2[g] \in Nat
      BY <3>2, <1>6, HeadFacts
    <3>4. o \in 0 .. e2[g] - 1
      BY <3>2, <3>3
    <3> QED BY <3>2, <3>4 DEF Copied
  <2> QED BY <2>1, <2>2
<1>8. ASSUME NEW g, NEW h, NEW o, Field(m, e, g, h, o)
      PROVE  Field(m2, e2, g, h, o) /\ m2[g][o] = m[g][o]
  <2>1. /\ IsHead(m, e, g, h) /\ m[g][h] # Forwarded /\ m[g][h][4]
        /\ o \in h + 1 .. h + m[g][h][3]
    BY <1>8 DEF Field
  <2>2. /\ g \in Gens /\ h \in Nat /\ m[g][h][3] = SizeAt(m, g, h) /\ e[g] \in Nat
        /\ SizeAt(m, g, h) \in Nat /\ h + SizeAt(m, g, h) < e[g]
    BY <2>1, HeadFacts
  <2>3. o \in 0 .. e[g] - 1
    BY <2>1, <2>2
  <2> QED BY <1>1, <1>4, <2>1, <2>2, <2>3 DEF Field
<1>9. ASSUME NEW g, NEW h, NEW o, Field(m2, e2, g, h, o), ~ (g = g1 /\ h = e[g1])
      PROVE  Field(m, e, g, h, o)
  BY <1>1, <1>9 DEF Field
<1> QED
  BY <1>6, <1>7, <1>8, <1>9

-----------------------------------------------------------------------------
(* An object is copied *)

\* m2 is m with the object at h0 of generation k marked: its copy is v.
Marked(m, m2, e, k, h0, v) ==
    /\ IsHead(m, e, k, h0) /\ m[k][h0] # Forwarded
    /\ IsObj(m, e, v) /\ v[2] = k + 1 /\ HeaderIn(m, v)[3] = m[k][h0][3]
    /\ m2[k][h0] = Forwarded /\ m2[k][h0 + 1] = v
    /\ \A g \in Gens : \A o \in 0 .. e[g] - 1 :
          g # k \/ o \notin {h0, h0 + 1} => m2[g][o] = m[g][o]

Marking(m, m2, e, k, r, n, h0, v) ==
    /\ n \in Nat /\ Sized(m, e, r) /\ Layout(m, e, n) /\ FromOnly(m, e, k)
    /\ Marked(m, m2, e, k, h0, v)

\* There is no other header, and objects have the sizes that they had.
LEMMA MarkedHeads ==
    ASSUME NEW m, NEW m2, NEW e, NEW k, NEW r, NEW n, NEW h0, NEW v,
           Marking(m, m2, e, k, r, n, h0, v)
    PROVE  /\ \A g, h : IsHead(m2, e, g, h) <=> IsHead(m, e, g, h)
           /\ \A g, h : IsHead(m, e, g, h) /\ ~ (g = k /\ h = h0) =>
                 m2[g][h] = m[g][h] /\ (m[g][h] = Forwarded => m2[g][h + 1] = m[g][h + 1])
           /\ \A g, h : IsHead(m, e, g, h) => SizeAt(m2, g, h) = SizeAt(m, g, h)
<1>0. /\ n \in Nat /\ Sized(m, e, r) /\ Layout(m, e, n) /\ FromOnly(m, e, k)
      /\ Marked(m, m2, e, k, h0, v)
  BY DEF Marking
<1> USE <1>0
<1>1. /\ IsHead(m, e, k, h0) /\ m[k][h0] # Forwarded
      /\ IsObj(m, e, v) /\ v[2] = k + 1 /\ HeaderIn(m, v)[3] = m[k][h0][3]
      /\ m2[k][h0] = Forwarded /\ m2[k][h0 + 1] = v
      /\ \A g \in Gens : \A o \in 0 .. e[g] - 1 :
            g # k \/ o \notin {h0, h0 + 1} => m2[g][o] = m[g][o]
  BY DEF Marked
<1>2. /\ k \in Gens /\ h0 \in Nat /\ h0 < e[k] /\ e[k] \in Nat
      /\ SizeAt(m, k, h0) \in Nat \ {0} /\ h0 + SizeAt(m, k, h0) < e[k]
      /\ SizeAt(m, k, h0) = m[k][h0][3]
  BY <1>1, HeadFacts
<1>3. ~ IsHead(m, e, k, h0 + 1) /\ ~ IsHead(m2, e, k, h0 + 1)
  <2>1. ~ IsHead(m, e, k, h0 + 1)
    BY <1>1, <1>2 DEF Layout
  <2>2. v[1] \notin HeaderTags
    BY <1>1 DEF IsObj, IntoHeap, HeaderTags
  <2> QED BY <1>1, <2>1, <2>2 DEF IsHead
<1>4. IsHead(m2, e, k, h0)
  BY <1>1, WordParts DEF IsHead, HeaderTags
<1>5. ASSUME NEW g, NEW h, ~ (g = k /\ h = h0)
      PROVE  /\ IsHead(m2, e, g, h) <=> IsHead(m, e, g, h)
             /\ IsHead(m, e, g, h) => m2[g][h] = m[g][h]
  <2>1. CASE g = k /\ h = h0 + 1
    BY <1>3, <2>1
  <2>2. CASE ~ (g = k /\ h = h0 + 1)
    BY <1>1, <1>5, <2>2 DEF IsHead
  <2> QED BY <2>1, <2>2
<1>6. \A g, h : IsHead(m2, e, g, h) <=> IsHead(m, e, g, h)
  <2> TAKE g, h
  <2>1. CASE g = k /\ h = h0
    BY <1>1, <1>4, <2>1
  <2>2. CASE ~ (g = k /\ h = h0)
    BY <1>5, <2>2
  <2> QED BY <2>1, <2>2
<1>7. ASSUME NEW g, NEW h, IsHead(m, e, g, h), m[g][h] = Forwarded
      PROVE  m2[g][h + 1] = m[g][h + 1]
  <2>1. /\ g \in Gens /\ h \in Nat /\ SizeAt(m, g, h) \in Nat \ {0} /\ e[g] \in Nat
        /\ h + SizeAt(m, g, h) < e[g]
    BY <1>7, HeadFacts
  <2>2. h + 1 \in 0 .. e[g] - 1 /\ ~ IsHead(m, e, g, h + 1)
    BY <1>7, <2>1 DEF Layout
  <2>3. g # k \/ h + 1 \notin {h0, h0 + 1}
    BY <1>1, <1>2, <1>7, <2>1, <2>2
  <2> QED BY <1>1, <2>1, <2>2, <2>3
<1>8. ASSUME NEW g, NEW h, IsHead(m, e, g, h), g # k
      PROVE  m2[g][h] = m[g][h] /\ m[g][h] # Forwarded
  BY <1>5, <1>8 DEF FromOnly
<1>9. ASSUME NEW g, NEW h, IsHead(m, e, g, h) PROVE SizeAt(m2, g, h) = SizeAt(m, g, h)
  <2>1. CASE g = k /\ h = h0
    <3>1. IsHead(m, e, v[2], v[3] - 1) /\ v[2] # k
      BY <1>1, <1>2 DEF IsObj, Gens
    <3>2. HeaderIn(m2, v) = HeaderIn(m, v)
      BY <1>8, <3>1 DEF HeaderIn
    <3> QED BY <1>1, <1>2, <2>1, <3>2 DEF SizeAt
  <2>2. CASE ~ (g = k /\ h = h0) /\ m[g][h] = Forwarded
    <3> DEFINE w == m[g][h + 1]
    <3>0. IsObj(m, e, w) /\ w[2] = k + 1
      BY <1>9, <2>2 DEF FromOnly
    <3>1. IsHead(m, e, w[2], w[3] - 1) /\ w[2] # k
      BY <1>2, <3>0 DEF IsObj, Gens
    <3>2. HeaderIn(m2, w) = HeaderIn(m, w)
      BY <1>8, <3>1 DEF HeaderIn
    <3>3. m2[g][h] = Forwarded /\ m2[g][h + 1] = w
      BY <1>5, <1>7, <1>9, <2>2
    <3> QED BY <2>2, <3>2, <3>3 DEF SizeAt
  <2>3. CASE ~ (g = k /\ h = h0) /\ m[g][h] # Forwarded
    BY <1>5, <1>9, <2>3 DEF SizeAt
  <2> QED BY <2>1, <2>2, <2>3
<1> QED
  BY <1>5, <1>6, <1>7, <1>9

\* The object that is copied is not one any more, and no other has changed.
LEMMA MarkedObjects ==
    ASSUME NEW m, NEW m2, NEW e, NEW k, NEW r, NEW n, NEW h0, NEW v,
           Marking(m, m2, e, k, r, n, h0, v)
    PROVE  /\ \A w : IsObj(m2, e, w) <=> IsObj(m, e, w)
           /\ \A w : IsVal(m2, e, w) <=> IsVal(m, e, w)
           /\ \A g, c : Entry(m, e, g, c) => Entry(m2, e, g, c)
           /\ FromOnly(m2, e, k)
           /\ Layout(m2, e, n)
           /\ Copied(m2, e, k) = Copied(m, e, k) \cup h0 .. h0 + SizeAt(m, k, h0)
           /\ \A g, h, o : Field(m2, e, g, h, o) =>
                 Field(m, e, g, h, o) /\ m2[g][o] = m[g][o] /\ ~ (g = k /\ h = h0)
           /\ \A g, h, o : Field(m, e, g, h, o) /\ g # k =>
                 Field(m2, e, g, h, o) /\ m2[g][o] = m[g][o]
<1>0. /\ n \in Nat /\ Sized(m, e, r) /\ Layout(m, e, n) /\ FromOnly(m, e, k)
      /\ Marked(m, m2, e, k, h0, v)
  BY DEF Marking
<1> USE <1>0
<1>1. /\ IsHead(m, e, k, h0) /\ m[k][h0] # Forwarded
      /\ IsObj(m, e, v) /\ v[2] = k + 1
      /\ m2[k][h0] = Forwarded /\ m2[k][h0 + 1] = v
      /\ \A g \in Gens : \A o \in 0 .. e[g] - 1 :
            g # k \/ o \notin {h0, h0 + 1} => m2[g][o] = m[g][o]
  BY DEF Marked
<1>2. /\ \A g, h : IsHead(m2, e, g, h) <=> IsHead(m, e, g, h)
      /\ \A g, h : IsHead(m, e, g, h) /\ ~ (g = k /\ h = h0) =>
            m2[g][h] = m[g][h] /\ (m[g][h] = Forwarded => m2[g][h + 1] = m[g][h + 1])
      /\ \A g, h : IsHead(m, e, g, h) => SizeAt(m2, g, h) = SizeAt(m, g, h)
  BY MarkedHeads
<1>3. \A w : IsObj(m2, e, w) <=> IsObj(m, e, w)
  BY <1>2 DEF IsObj
<1>4. \A w : IsVal(m2, e, w) <=> IsVal(m, e, w)
  BY <1>3 DEF IsVal
<1>5. ASSUME NEW g, NEW c, Entry(m, e, g, c) PROVE Entry(m2, e, g, c)
  <2>1. PICK h : /\ IsHead(m, e, c[2], h) /\ (m[c[2]][h] = Forwarded \/ m[c[2]][h][4])
                 /\ c[3] \in h + 1 .. h + SizeAt(m, c[2], h)
    BY <1>5 DEF Entry
  <2>2. /\ IsHead(m2, e, c[2], h) /\ (m2[c[2]][h] = Forwarded \/ m2[c[2]][h][4])
        /\ c[3] \in h + 1 .. h + SizeAt(m2, c[2], h)
    BY <1>1, <1>2, <2>1
  <2> QED BY <1>5, <2>2 DEF Entry
<1>6. FromOnly(m2, e, k)
  <2> SUFFICES ASSUME NEW g, NEW h, IsHead(m2, e, g, h), m2[g][h] = Forwarded
               PROVE  g = k /\ IsObj(m2, e, m2[g][h + 1]) /\ m2[g][h + 1][2] = k + 1
    BY DEF FromOnly
  <2>1. CASE g = k /\ h = h0
    BY <1>1, <1>3, <2>1
  <2>2. CASE ~ (g = k /\ h = h0)
    BY <1>2, <1>3, <2>2 DEF FromOnly
  <2> QED BY <2>1, <2>2
<1>7. Layout(m2, e, n)
  <2>1. \A g, h : IsHead(m, e, g, h) => m2[g][h] = m[g][h] \/ m2[g][h] = Forwarded
    BY <1>1, <1>2
  <2> QED BY <1>2, <2>1 DEF Layout
<1>8. Copied(m2, e, k) = Copied(m, e, k) \cup h0 .. h0 + SizeAt(m, k, h0)
  <2>1. ASSUME NEW o \in Copied(m2, e, k)
        PROVE  o \in Copied(m, e, k) \/ o \in h0 .. h0 + SizeAt(m, k, h0)
    <3>1. PICK h : /\ IsHead(m2, e, k, h) /\ m2[k][h] = Forwarded
                   /\ o \in h .. h + SizeAt(m2, k, h)
      BY <2>1 DEF Copied
    <3>2. IsHead(m, e, k, h) /\ o \in h .. h + SizeAt(m, k, h) /\ (h = h0 \/ m[k][h] = Forwarded)
      BY <1>2, <3>1
    <3> QED BY <2>1, <3>2 DEF Copied
  <2>2. ASSUME NEW o \in Copied(m, e, k) PROVE o \in Copied(m2, e, k)
    <3>1. PICK h : /\ IsHead(m, e, k, h) /\ m[k][h] = Forwarded
                   /\ o \in h .. h + SizeAt(m, k, h)
      BY <2>2 DEF Copied
    <3>2. IsHead(m2, e, k, h) /\ m2[k][h] = Forwarded /\ o \in h .. h + SizeAt(m2, k, h)
      BY <1>1, <1>2, <3>1
    <3> QED BY <2>2, <3>2 DEF Copied
  <2>3. ASSUME NEW o \in h0 .. h0 + SizeAt(m, k, h0) PROVE o \in Copied(m2, e, k)
    <3>1. /\ h0 \in Nat /\ SizeAt(m, k, h0) \in Nat /\ h0 + SizeAt(m, k, h0) < e[k]
          /\ e[k] \in Nat
      BY <1>1, HeadFacts
    <3>2. o \in 0 .. e[k] - 1
      BY <3>1
    <3>3. IsHead(m2, e, k, h0) /\ m2[k][h0] = Forwarded /\ o \in h0 .. h0 + SizeAt(m2, k, h0)
      BY <1>1, <1>2
    <3> QED BY <3>2, <3>3 DEF Copied
  <2> QED BY <2>1, <2>2, <2>3
<1>9. ASSUME NEW g, NEW h, NEW o, Field(m, e, g, h, o), ~ (g = k /\ h = h0)
      PROVE  Field(m2, e, g, h, o) /\ m2[g][o] = m[g][o]
  <2>1. /\ IsHead(m, e, g, h) /\ m[g][h] # Forwarded /\ m[g][h][4]
        /\ o \in h + 1 .. h + m[g][h][3]
    BY <1>9 DEF Field
  <2>2. /\ g \in Gens /\ h \in Nat /\ m[g][h][3] = SizeAt(m, g, h) /\ e[g] \in Nat
        /\ SizeAt(m, g, h) \in Nat /\ h + SizeAt(m, g, h) < e[g]
    BY <2>1, HeadFacts
  <2>3. h0 \in Nat /\ SizeAt(m, k, h0) \in Nat \ {0}
    BY <1>1, HeadFacts
  <2>4. g # k \/ o \notin {h0, h0 + 1}
    <3> SUFFICES ASSUME g = k, o \in {h0, h0 + 1} PROVE FALSE
      OBVIOUS
    <3>1. /\ IsHead(m, e, g, h0) /\ o \in h0 .. h0 + SizeAt(m, g, h0)
          /\ o \in h .. h + SizeAt(m, g, h)
      BY <1>1, <2>1, <2>2, <2>3
    <3>2. h = h0
      BY <2>1, <3>1, Apart
    <3> QED BY <1>9, <3>2
  <2>5. o \in 0 .. e[g] - 1
    BY <2>1, <2>2
  <2>6. m2[g][o] = m[g][o]
    BY <1>1, <2>2, <2>4, <2>5
  <2> QED BY <1>2, <1>9, <2>1, <2>6 DEF Field
<1>10. ASSUME NEW g, NEW h, NEW o, Field(m2, e, g, h, o)
       PROVE  Field(m, e, g, h, o) /\ m2[g][o] = m[g][o] /\ ~ (g = k /\ h = h0)
  <2>1. ~ (g = k /\ h = h0)
    BY <1>1, <1>10 DEF Field
  <2>2. Field(m, e, g, h, o)
    BY <1>2, <1>10, <2>1 DEF Field
  <2> QED BY <1>9, <2>1, <2>2
<1> QED
  BY <1>3, <1>4, <1>5, <1>6, <1>7, <1>8, <1>9, <1>10

\* The words of an object that is not copied yet can be added to those that are.
LEMMA CopiedRoom ==
    ASSUME NEW m, NEW e, NEW r, NEW n \in Nat, NEW k,
           Sized(m, e, r), Layout(m, e, n), k \in Gens
    PROVE  /\ IsFiniteSet(Copied(m, e, k)) /\ Cardinality(Copied(m, e, k)) \in Nat
           /\ Cardinality(Copied(m, e, k)) <= e[k]
           /\ \A h0 : IsHead(m, e, k, h0) /\ m[k][h0] # Forwarded =>
                 /\ Cardinality(Copied(m, e, k) \cup h0 .. h0 + SizeAt(m, k, h0)) =
                       Cardinality(Copied(m, e, k)) + 1 + SizeAt(m, k, h0)
                 /\ Cardinality(Copied(m, e, k)) + 1 + SizeAt(m, k, h0) <= e[k]
<1> DEFINE C == Copied(m, e, k)
           U == 0 .. e[k] - 1
<1>1. e[k] \in Nat
  BY DEF Sized
<1>2. C \subseteq U
  BY DEF Copied
<1>3. IsFiniteSet(U) /\ Cardinality(U) = e[k]
  <2> DEFINE l == e[k] - 1
  <2>1. 0 \in Int /\ l \in Int
    BY <1>1
  <2> HIDE DEF l
  <2>2. IsFiniteSet(0 .. l) /\ Cardinality(0 .. l) = IF 0 > l THEN 0 ELSE l - 0 + 1
    BY <2>1, FS_Interval
  <2> QED BY <1>1, <2>2 DEF l
<1>4. IsFiniteSet(C) /\ Cardinality(C) <= e[k]
  BY <1>2, <1>3, FS_Subset
<1>5. Cardinality(C) \in Nat
  BY <1>4, FS_CardinalityType
<1>6. ASSUME NEW h0, IsHead(m, e, k, h0), m[k][h0] # Forwarded
      PROVE  /\ Cardinality(C \cup h0 .. h0 + SizeAt(m, k, h0)) =
                   Cardinality(C) + 1 + SizeAt(m, k, h0)
             /\ Cardinality(C) + 1 + SizeAt(m, k, h0) <= e[k]
  <2> DEFINE z == SizeAt(m, k, h0)
             O == h0 .. h0 + z
  <2>1. h0 \in Nat /\ z \in Nat /\ h0 + z < e[k]
    BY <1>6, HeadFacts
  <2>2. IsFiniteSet(O) /\ Cardinality(O) = z + 1
    <3> DEFINE l == h0 + z
    <3>1. h0 \in Int /\ l \in Int /\ h0 <= l
      BY <2>1
    <3> HIDE DEF l
    <3>2. IsFiniteSet(h0 .. l) /\ Cardinality(h0 .. l) = IF h0 > l THEN 0 ELSE l - h0 + 1
      BY <3>1, FS_Interval
    <3>3. IsFiniteSet(h0 .. l) /\ Cardinality(h0 .. l) = l - h0 + 1
      BY <3>1, <3>2
    <3>4. l - h0 + 1 = z + 1
      BY <2>1 DEF l
    <3> QED BY <3>3, <3>4 DEF l
  <2>3. C \cap O = {}
    <3> SUFFICES ASSUME NEW o \in C, o \in O PROVE FALSE
      OBVIOUS
    <3>1. PICK h : /\ IsHead(m, e, k, h) /\ m[k][h] = Forwarded
                   /\ o \in h .. h + SizeAt(m, k, h)
      BY DEF Copied
    <3>2. h = h0
      BY <1>6, <3>1, Apart
    <3> QED BY <1>6, <3>1, <3>2
  <2> HIDE DEF C, O, z
  <2>4. Cardinality(C \cup O) = Cardinality(C) + Cardinality(O) - Cardinality(C \cap O)
    BY <1>4, <2>2, FS_Union
  <2>5. Cardinality(C \cap O) = 0
    BY <2>3, FS_EmptySet
  <2>6. Cardinality(C \cup O) = Cardinality(C) + 1 + z
    BY <1>5, <2>1, <2>2, <2>4, <2>5
  <2>7. C \cup O \subseteq U
    BY <1>1, <1>2, <2>1 DEF O
  <2>8. Cardinality(C \cup O) <= e[k]
    BY <1>3, <2>7, FS_Subset
  <2> QED BY <2>6, <2>8 DEF O, z
<1> QED
  BY <1>4, <1>5, <1>6

\* The fields of objects hold values.
Fields(m, e) == \A g, h, o : Field(m, e, g, h, o) => IsVal(m, e, m[g][o])

Tags == {"int", "out", "ptr", "hdr", "hdr0", "cell", "junk"}

Tagged(m, r) == \A g \in Gens : \A o \in 0 .. r[g] - 1 : m[g][o][1] \in Tags

\* Generation t is the one after k; it has room for sz fields and a header, and
\* is longer by as much.
Follows(k, t) == k \in Gens /\ t \in Gens /\ t = k + 1

Fits(e, r, t, sz) == e[t] + 1 + sz <= r[t]

Longer(e, e2, t, sz) ==
    e2[t] = e[t] + 1 + sz /\ \A g \in Gens : g # t => e2[g] = e[g]

\* A pointer into generation k.
Into(w, k) == IntoHeap(w) /\ w[2] = k

\* m2 is m after forwarding out of generation k, in which case no older one is
\* in use: what may be copied is at the end of generation t, nothing else
\* changes but objects of generation k, and what is copied is counted.
Moved(m, m2, e, e2, k, t, r, n) ==
    /\ Sized(m2, e2, r) /\ Layout(m2, e2, n) /\ Unique(m2, e2) /\ FromOnly(m2, e2, k)
    /\ Tagged(m, r) => Tagged(m2, r)
    /\ e2[t] >= e[t] /\ \A g \in Gens : g # t => e2[g] = e[g]
    /\ e2[t] = e[t] \/ IsHead(m2, e2, t, e[t])
    /\ Cardinality(Copied(m2, e2, k)) - Cardinality(Copied(m, e, k)) = e2[t] - e[t]
    /\ \A v : IsObj(m, e, v) => IsObj(m2, e2, v)
    /\ \A v : IsVal(m, e, v) => IsVal(m2, e2, v)
    /\ \A g, c : Entry(m, e, g, c) => Entry(m2, e2, g, c)
    /\ \A g, h : IsHead(m, e, g, h) =>
          IsHead(m2, e2, g, h) /\ (g # k => m2[g][h] = m[g][h])
    /\ \A g, h, o : Field(m, e, g, h, o) /\ g # k =>
          Field(m2, e2, g, h, o) /\ m2[g][o] = m[g][o]
    /\ \A g, h, o : Field(m2, e2, g, h, o) =>
          \/ Field(m, e, g, h, o) /\ m2[g][o] = m[g][o]
          \/ /\ g = t /\ h >= e[t] /\ IsVal(m, e, m2[g][o])
             /\ IntoHeap(m2[g][o]) => m2[g][o][2] >= k
    /\ \A g \in Gens : \A o \in 0 .. r[g] - 1 : o >= e2[g] => m2[g][o] = m[g][o]

\* Where nothing is copied.
LEMMA NotMoved ==
    ASSUME NEW m, NEW e, NEW k, NEW t, NEW r, NEW n \in Nat, Follows(k, t),
           Sized(m, e, r), Layout(m, e, n), Unique(m, e), FromOnly(m, e, k)
    PROVE  Moved(m, m, e, e, k, t, r, n)
<1>a. k \in Gens /\ t \in Gens
  BY DEF Follows
<1>1. e[t] \in Nat /\ Cardinality(Copied(m, e, k)) \in Nat
  BY <1>a, CopiedRoom DEF Sized
<1> QED
  BY <1>1 DEF Moved

\* m with the object at h0 of generation k copied.
CopyOf(m, k, t, h0, at, sz) ==
    [m EXCEPT ![t] = [o \in DOMAIN @ |->
        IF o \in at .. at + sz THEN m[k][h0 + o - at] ELSE @[o]]]

\* m2 is that memory, word by word.
CopiedWords(m, m2, r, k, t, h0, at, sz) ==
    /\ \A g \in Gens : g # t => m2[g] = m[g]
    /\ \A o \in 0 .. r[t] - 1 :
          m2[t][o] = IF o \in at .. at + sz THEN m[k][h0 + o - at] ELSE m[t][o]

\* m2 is m with the object at h0 of generation k, of sz fields, copied into
\* generation t.
Copying(m, m2, e, e2, k, t, r, n, h0, sz) ==
    /\ n \in Nat /\ Follows(k, t) /\ Sized(m, e, r) /\ Layout(m, e, n)
    /\ IsHead(m, e, k, h0) /\ m[k][h0] # Forwarded /\ sz = m[k][h0][3]
    /\ Fits(e, r, t, sz) /\ Longer(e, e2, t, sz)
    /\ m2 = CopyOf(m, k, t, h0, e[t], sz)

\* The copy is a new object of generation t.
LEMMA CopyAppends ==
    ASSUME NEW m, NEW m2, NEW e, NEW e2, NEW k, NEW t, NEW r, NEW n, NEW h0, NEW sz,
           Copying(m, m2, e, e2, k, t, r, n, h0, sz)
    PROVE  /\ Sized(m2, e2, r) /\ Appended(m, m2, e, e2, t, sz)
           /\ m2[t][e[t]] = m[k][h0] /\ m[k][h0] \in Headers(n)
           /\ CopiedWords(m, m2, r, k, t, h0, e[t], sz)
<1>b. /\ n \in Nat /\ Follows(k, t) /\ Sized(m, e, r) /\ Layout(m, e, n)
      /\ IsHead(m, e, k, h0) /\ m[k][h0] # Forwarded /\ sz = m[k][h0][3]
      /\ Fits(e, r, t, sz) /\ Longer(e, e2, t, sz)
      /\ m2 = CopyOf(m, k, t, h0, e[t], sz)
  BY DEF Copying
<1> USE <1>b
<1> DEFINE at == e[t]
<1>a. k \in Gens /\ t \in Gens
  BY DEF Follows
<1>1. /\ h0 \in Nat /\ sz \in Nat \ {0} /\ h0 + sz < e[k] /\ m[k][h0] \in Headers(n)
      /\ SizeAt(m, k, h0) = sz
  BY HeadFacts
<1>2. \A g \in Gens : e[g] \in Nat /\ r[g] \in Nat /\ e[g] <= r[g] /\ DOMAIN m[g] = 0 .. r[g] - 1
  BY DEF Sized
<1> DEFINE last == r[t]
<1>0. /\ at \in Nat /\ last \in Nat /\ at + 1 + sz <= last /\ at + sz <= last - 1
      /\ e[k] \in Nat /\ h0 + sz <= e[k] - 1
  <2>1. at \in Nat /\ last \in Nat /\ e[k] \in Nat /\ at + 1 + sz <= last
    BY <1>2, <1>a DEF Fits
  <2> HIDE DEF at, last
  <2> QED BY <1>1, <2>1
<1>3. /\ DOMAIN m2 = Gens
      /\ \A g \in Gens : g # t => m2[g] = m[g]
      /\ m2[t] = [o \in 0 .. r[t] - 1 |->
                        IF o \in at .. at + sz THEN m[k][h0 + o - at] ELSE m[t][o]]
  BY <1>2, <1>a DEF Sized, CopyOf
<1>4. \A o \in 0 .. r[t] - 1 :
         m2[t][o] = IF o \in at .. at + sz THEN m[k][h0 + o - at] ELSE m[t][o]
  BY <1>3
<1>5. DOMAIN m2[t] = 0 .. r[t] - 1
  BY <1>3
<1>6. Sized(m2, e2, r)
  <2> SUFFICES ASSUME NEW g \in Gens
               PROVE  /\ e2[g] \in Nat /\ r[g] \in Nat /\ e2[g] <= r[g]
                      /\ DOMAIN m2[g] = 0 .. r[g] - 1
    BY <1>3 DEF Sized
  <2>1. CASE g = t
    <3>1. e2[g] = at + 1 + sz /\ r[g] = last /\ DOMAIN m2[g] = 0 .. last - 1
      BY <1>5, <2>1 DEF Longer
    <3> HIDE DEF at, last
    <3> QED BY <1>0, <1>1, <3>1
  <2>2. CASE g # t
    BY <1>2, <1>3, <2>2 DEF Longer
  <2> QED BY <2>1, <2>2
<1>7. m2[t][at] = m[k][h0]
  <2>1. at \in 0 .. last - 1 /\ at \in at .. at + sz
    <3> HIDE DEF at, last
    <3> QED BY <1>0, <1>1
  <2>2. h0 + at - at = h0
    BY <1>0, <1>1
  <2> QED BY <1>4, <2>1, <2>2
<1>8. ASSUME NEW g \in Gens, NEW o \in 0 .. e[g] - 1 PROVE m2[g][o] = m[g][o]
  <2>1. CASE g = t
    <3>1. o \in 0 .. at - 1
      BY <2>1
    <3>2. o \in 0 .. last - 1 /\ o \notin at .. at + sz
      <4> HIDE DEF at, last
      <4> QED BY <1>0, <1>1, <3>1
    <3> QED BY <1>4, <2>1, <3>2
  <2>2. CASE g # t
    BY <1>3, <2>2
  <2> QED BY <2>1, <2>2
<1>9. ASSUME NEW o \in at + 1 .. at + sz PROVE m2[t][o][1] \notin HeaderTags
  <2>1. o \in 0 .. last - 1 /\ o \in at .. at + sz
    <3> HIDE DEF at, last
    <3> QED BY <1>0, <1>1
  <2>2. m2[t][o] = m[k][h0 + o - at]
    BY <1>4, <2>1
  <2>3. h0 + o - at \in h0 + 1 .. h0 + sz /\ h0 + o - at \in 0 .. e[k] - 1
    <3> HIDE DEF at, last
    <3> QED BY <1>0, <1>1
  <2>4. ~ IsHead(m, e, k, h0 + o - at)
    BY <1>1, <2>3 DEF Layout
  <2> QED BY <2>2, <2>3, <2>4 DEF IsHead
<1>10. Appended(m, m2, e, e2, t, sz)
  BY <1>1, <1>8, <1>9, <1>a DEF Appended, Longer
<1>11. CopiedWords(m, m2, r, k, t, h0, at, sz)
  BY <1>3, <1>4 DEF CopiedWords
<1> QED
  BY <1>1, <1>6, <1>7, <1>10, <1>11

\* The header of an object that is copied becomes 0 and its first field the
\* pointer to the copy.
MarkedAs(m, k, h0, v) == Written(Written(m, k, h0, Forwarded), k, h0 + 1, v)

\* No other word changes.
LEMMA MarkedWords ==
    ASSUME NEW m, NEW e, NEW k, NEW t, NEW r, NEW n \in Nat, Follows(k, t),
           Sized(m, e, r), Layout(m, e, n),
           NEW h0, IsHead(m, e, k, h0), m[k][h0] # Forwarded, NEW v,
           IsObj(m, e, v), v[2] = t, HeaderIn(m, v)[3] = m[k][h0][3],
           NEW m2, m2 = MarkedAs(m, k, h0, v)
    PROVE  /\ Marked(m, m2, e, k, h0, v) /\ Sized(m2, e, r)
           /\ \A g \in Gens : \A o \in 0 .. r[g] - 1 :
                 m2[g][o] = m[g][o] \/ m2[g][o] = Forwarded \/ m2[g][o] = v
           /\ \A g \in Gens : \A o \in 0 .. r[g] - 1 : o >= e[g] => m2[g][o] = m[g][o]
<1>1. /\ k \in Gens /\ h0 \in Nat /\ e[k] \in Nat /\ e[k] <= r[k] /\ r[k] \in Nat
      /\ h0 + 1 \in 0 .. e[k] - 1
  <2>1. /\ k \in Gens /\ h0 \in Nat /\ e[k] \in Nat /\ e[k] <= r[k] /\ r[k] \in Nat
        /\ SizeAt(m, k, h0) \in Nat \ {0} /\ h0 + SizeAt(m, k, h0) < e[k]
    BY HeadFacts
  <2> QED BY <2>1
<1>2. /\ h0 \in DOMAIN m[k] /\ h0 + 1 \in DOMAIN m[k] /\ h0 # h0 + 1
      /\ DOMAIN m = Gens
  BY <1>1 DEF Sized
<1> DEFINE m1 == Written(m, k, h0, Forwarded)
<1>3. /\ DOMAIN m1 = Gens /\ \A g \in Gens : DOMAIN m1[g] = DOMAIN m[g]
      /\ m1[k][h0] = Forwarded
      /\ \A g \in Gens : \A o \in DOMAIN m[g] : g # k \/ o # h0 => m1[g][o] = m[g][o]
  BY <1>1, <1>2 DEF Written
<1> HIDE DEF m1
<1>4. m2 = Written(m1, k, h0 + 1, v)
  BY DEF MarkedAs, m1
<1>5. /\ DOMAIN m2 = Gens /\ \A g \in Gens : DOMAIN m2[g] = DOMAIN m[g]
      /\ m2[k][h0 + 1] = v
      /\ \A g \in Gens : \A o \in DOMAIN m[g] : g # k \/ o # h0 + 1 => m2[g][o] = m1[g][o]
  BY <1>1, <1>2, <1>3, <1>4 DEF Written
<1>6. m2[k][h0] = Forwarded
  BY <1>1, <1>2, <1>3, <1>5
<1>7. \A g \in Gens : \A o \in DOMAIN m[g] : g # k \/ o \notin {h0, h0 + 1} => m2[g][o] = m[g][o]
  BY <1>3, <1>5
<1>8. Sized(m2, e, r)
  BY <1>5 DEF Sized
<1>9. \A g \in Gens : \A o \in 0 .. r[g] - 1 :
         m2[g][o] = m[g][o] \/ m2[g][o] = Forwarded \/ m2[g][o] = v
  BY <1>5, <1>6, <1>7 DEF Sized
<1>10. \A g \in Gens : \A o \in 0 .. r[g] - 1 : o >= e[g] => m2[g][o] = m[g][o]
  <2> SUFFICES ASSUME NEW g \in Gens, NEW o \in 0 .. r[g] - 1, o >= e[g]
               PROVE  m2[g][o] = m[g][o]
    OBVIOUS
  <2>1. g # k \/ o \notin {h0, h0 + 1}
    BY <1>1 DEF IsHead
  <2> QED BY <1>7, <2>1 DEF Sized
<1>11. \A g \in Gens : \A o \in 0 .. e[g] - 1 :
          g # k \/ o \notin {h0, h0 + 1} => m2[g][o] = m[g][o]
  <2> SUFFICES ASSUME NEW g \in Gens, NEW o \in 0 .. e[g] - 1, g # k \/ o \notin {h0, h0 + 1}
               PROVE  m2[g][o] = m[g][o]
    OBVIOUS
  <2>1. o \in DOMAIN m[g]
    BY DEF Sized
  <2> QED BY <1>7, <2>1
<1> QED
  BY <1>5, <1>6, <1>8, <1>9, <1>10, <1>11 DEF Marked, Follows

\* An object of generation k that is not copied yet is.
LEMMA CopyMoves ==
    ASSUME NEW m, NEW e, NEW e2, NEW k, NEW t, NEW r, NEW n \in Nat,
           Follows(k, t),
           Sized(m, e, r), Layout(m, e, n), Unique(m, e), FromOnly(m, e, k), Fields(m, e),
           \A v : IsObj(m, e, v) => v[2] >= k,
           NEW h0, IsHead(m, e, k, h0), m[k][h0] # Forwarded,
           NEW sz, sz = m[k][h0][3], Fits(e, r, t, sz),
           Longer(e, e2, t, sz),
           NEW v0, v0 = Ptr(t, e[t] + 1),
           NEW m2, m2 = CopyOf(m, k, t, h0, e[t], sz),
           NEW m3, m3 = MarkedAs(m2, k, h0, v0)
    PROVE  Moved(m, m3, e, e2, k, t, r, n) /\ IsObj(m3, e2, v0)
<1> DEFINE at == e[t]
<1>1. /\ Sized(m2, e2, r) /\ Appended(m, m2, e, e2, t, sz)
      /\ m2[t][at] = m[k][h0] /\ m[k][h0] \in Headers(n)
      /\ CopiedWords(m, m2, r, k, t, h0, at, sz)
  <2>1. Copying(m, m2, e, e2, k, t, r, n, h0, sz)
    BY DEF Copying
  <2> QED BY <2>1, CopyAppends
<1>a. k \in Gens /\ t \in Gens /\ t = k + 1 /\ k \in Nat
  BY DEF Follows, Gens
<1>b. Appending(m, m2, e, e2, r, n, t, sz)
  BY <1>1 DEF Appending
<1>2. at \in Nat /\ sz \in Nat /\ sz # 0 /\ r[t] \in Nat /\ h0 \in Nat
  <2>1. h0 \in Nat
    BY HeadFacts
  <2> QED BY <1>1, <1>a, <2>1 DEF Sized, Appended
<1>3. /\ \A g, h : IsHead(m2, e2, g, h) <=>
            IsHead(m, e, g, h) \/ (g = t /\ h = at)
      /\ \A g, h : IsHead(m, e, g, h) => m2[g][h] = m[g][h] /\ m2[g][h + 1] = m[g][h + 1]
      /\ m2[t][at] # Forwarded
  BY <1>b, AppendedHeads
<1>4. /\ \A g, h : IsHead(m, e, g, h) => SizeAt(m2, g, h) = SizeAt(m, g, h)
      /\ \A v : IsObj(m, e, v) => IsObj(m2, e2, v)
      /\ \A v : IsVal(m, e, v) => IsVal(m2, e2, v)
      /\ \A g, c : Entry(m, e, g, c) => Entry(m2, e2, g, c)
      /\ FromOnly(m2, e2, k)
  BY <1>b, AppendedObjects
<1>5. /\ Layout(m2, e2, n)
      /\ \A g : Copied(m2, e2, g) = Copied(m, e, g)
      /\ \A g, h, o : Field(m, e, g, h, o) => Field(m2, e2, g, h, o) /\ m2[g][o] = m[g][o]
      /\ \A g, h, o : Field(m2, e2, g, h, o) =>
            Field(m, e, g, h, o) \/ (g = t /\ h = at)
  BY <1>b, AppendedLayout
<1>6. IsObj(m2, e2, v0) /\ v0[2] = t /\ HeaderIn(m2, v0)[3] = sz
  <2>1. v0[1] = "ptr" /\ v0[2] = t /\ v0[3] = at + 1
    BY WordParts
  <2>2. v0[3] - 1 = at /\ v0[3] \in Nat
    BY <1>2, <2>1
  <2> QED BY <1>1, <1>3, <2>1, <2>2 DEF IsObj, IntoHeap, HeaderIn
<1>7. IsHead(m2, e2, k, h0) /\ m2[k][h0] = m[k][h0]
  BY <1>3
<1>8. /\ Marked(m2, m3, e2, k, h0, v0) /\ Sized(m3, e2, r)
      /\ \A g \in Gens : \A o \in 0 .. r[g] - 1 :
            m3[g][o] = m2[g][o] \/ m3[g][o] = Forwarded \/ m3[g][o] = v0
      /\ \A g \in Gens : \A o \in 0 .. r[g] - 1 : o >= e2[g] => m3[g][o] = m2[g][o]
  BY <1>1, <1>5, <1>6, <1>7, MarkedWords
<1>c. Marking(m2, m3, e2, k, r, n, h0, v0)
  BY <1>1, <1>4, <1>5, <1>8 DEF Marking
<1>9. /\ \A g, h : IsHead(m3, e2, g, h) <=> IsHead(m2, e2, g, h)
      /\ \A g, h : IsHead(m2, e2, g, h) /\ ~ (g = k /\ h = h0) => m3[g][h] = m2[g][h]
  <2>1. /\ \A g, h : IsHead(m3, e2, g, h) <=> IsHead(m2, e2, g, h)
        /\ \A g, h : IsHead(m2, e2, g, h) /\ ~ (g = k /\ h = h0) =>
              m3[g][h] = m2[g][h] /\ (m2[g][h] = Forwarded => m3[g][h + 1] = m2[g][h + 1])
        /\ \A g, h : IsHead(m2, e2, g, h) => SizeAt(m3, g, h) = SizeAt(m2, g, h)
    BY <1>c, MarkedHeads
  <2> QED BY <2>1
<1>10. /\ \A w : IsObj(m3, e2, w) <=> IsObj(m2, e2, w)
       /\ \A w : IsVal(m3, e2, w) <=> IsVal(m2, e2, w)
       /\ \A g, c : Entry(m2, e2, g, c) => Entry(m3, e2, g, c)
       /\ FromOnly(m3, e2, k)
       /\ Layout(m3, e2, n)
       /\ Copied(m3, e2, k) = Copied(m2, e2, k) \cup h0 .. h0 + SizeAt(m2, k, h0)
       /\ \A g, h, o : Field(m3, e2, g, h, o) =>
             Field(m2, e2, g, h, o) /\ m3[g][o] = m2[g][o] /\ ~ (g = k /\ h = h0)
       /\ \A g, h, o : Field(m2, e2, g, h, o) /\ g # k =>
             Field(m3, e2, g, h, o) /\ m3[g][o] = m2[g][o]
  BY <1>c, MarkedObjects
<1>11. Unique(m3, e2)
  <2> SUFFICES ASSUME NEW g, NEW h, NEW g2, NEW h2,
                      IsHead(m3, e2, g, h), m3[g][h] # Forwarded,
                      IsHead(m3, e2, g2, h2), m3[g2][h2] # Forwarded,
                      m3[g][h][2] = m3[g2][h2][2]
               PROVE  g = g2 /\ h = h2
    BY DEF Unique
  <2>1. ASSUME NEW a, NEW b, IsHead(m3, e2, a, b), m3[a][b] # Forwarded
        PROVE  /\ ~ (a = k /\ b = h0)
               /\ \/ IsHead(m, e, a, b) /\ m3[a][b] = m[a][b] /\ m[a][b] # Forwarded
                  \/ a = t /\ b = at /\ m3[a][b] = m[k][h0]
    <3>1. ~ (a = k /\ b = h0)
      BY <1>8, <2>1 DEF Marked
    <3> QED BY <1>1, <1>3, <1>9, <2>1, <3>1
  <2>2. CASE g = t /\ h = at /\ m3[g][h] = m[k][h0]
    <3>1. CASE g2 = t /\ h2 = at
      BY <2>2, <3>1
    <3>2. CASE IsHead(m, e, g2, h2) /\ m3[g2][h2] = m[g2][h2] /\ m[g2][h2] # Forwarded
      <4>1. g2 = k /\ h2 = h0
        BY <2>2, <3>2 DEF Unique
      <4> QED BY <2>1, <4>1
    <3> QED BY <2>1, <3>1, <3>2
  <2>3. CASE IsHead(m, e, g, h) /\ m3[g][h] = m[g][h] /\ m[g][h] # Forwarded
    <3>1. CASE g2 = t /\ h2 = at /\ m3[g2][h2] = m[k][h0]
      <4>1. g = k /\ h = h0
        BY <2>3, <3>1 DEF Unique
      <4> QED BY <2>1, <4>1
    <3>2. CASE IsHead(m, e, g2, h2) /\ m3[g2][h2] = m[g2][h2] /\ m[g2][h2] # Forwarded
      BY <2>3, <3>2 DEF Unique
    <3> QED BY <2>1, <3>1, <3>2
  <2> QED BY <2>1, <2>2, <2>3
<1>12. Tagged(m, r) => Tagged(m3, r)
  <2> SUFFICES ASSUME Tagged(m, r), NEW g \in Gens, NEW o \in 0 .. r[g] - 1
               PROVE  m3[g][o][1] \in Tags
    BY DEF Tagged
  <2>1. Forwarded[1] \in Tags /\ v0[1] \in Tags
    BY WordParts DEF Tags
  <2>2. m2[g][o][1] \in Tags
    <3>1. CASE g # t \/ o \notin at .. at + sz
      <4>1. m2[g][o] = m[g][o]
        BY <1>1, <3>1 DEF CopiedWords
      <4> QED BY <4>1 DEF Tagged
    <3>2. CASE g = t /\ o \in at .. at + sz
      <4>1. m2[g][o] = m[k][h0 + o - at]
        BY <1>1, <3>2 DEF CopiedWords
      <4>2. h0 + sz < e[k] /\ e[k] \in Nat /\ r[k] \in Nat /\ e[k] <= r[k]
        <5>1. SizeAt(m, k, h0) = sz
          BY DEF SizeAt
        <5> QED BY <5>1, HeadFacts
      <4>3. h0 + o - at \in 0 .. r[k] - 1
        <5> DEFINE last == r[k]
        <5>1. h0 + sz < last /\ last \in Nat
          BY <1>2, <4>2
        <5> HIDE DEF at, last
        <5>2. h0 + o - at \in 0 .. last - 1
          BY <1>2, <3>2, <5>1
        <5> QED BY <5>2 DEF last
      <4> QED BY <1>a, <4>1, <4>3 DEF Tagged
    <3> QED BY <3>1, <3>2
  <2> QED BY <1>8, <2>1, <2>2
<1>13. e2[t] = at + 1 + sz /\ e2[t] >= at /\ \A g \in Gens : g # t => e2[g] = e[g]
  <2>1. e2[t] = at + 1 + sz /\ \A g \in Gens : g # t => e2[g] = e[g]
    BY DEF Longer
  <2> HIDE DEF at
  <2> QED BY <1>2, <2>1
<1>14. IsHead(m3, e2, t, e[t])
  BY <1>3, <1>9
<1>15. Cardinality(Copied(m3, e2, k)) - Cardinality(Copied(m, e, k)) = e2[t] - e[t]
  <2> DEFINE c == Cardinality(Copied(m, e, k))
  <2>1. c \in Nat
    BY <1>a, CopiedRoom
  <2>2. SizeAt(m, k, h0) = sz /\ SizeAt(m2, k, h0) = sz
    BY <1>4 DEF SizeAt
  <2>3. Cardinality(Copied(m, e, k) \cup h0 .. h0 + sz) = c + 1 + sz
    BY <1>a, <2>2, CopiedRoom
  <2>4. Cardinality(Copied(m3, e2, k)) = c + 1 + sz
    BY <1>5, <1>10, <2>2, <2>3
  <2>5. e2[t] = at + 1 + sz
    BY <1>13
  <2> HIDE DEF at, c
  <2>6. (c + 1 + sz) - c = (at + 1 + sz) - at
    BY <1>2, <2>1
  <2> QED BY <2>4, <2>5, <2>6 DEF at, c
<1>16. ASSUME NEW g, NEW h, IsHead(m, e, g, h)
       PROVE  IsHead(m3, e2, g, h) /\ (g # k => m3[g][h] = m[g][h])
  BY <1>3, <1>9, <1>16
<1>17. ASSUME NEW g, NEW h, NEW o, Field(m, e, g, h, o), g # k
       PROVE  Field(m3, e2, g, h, o) /\ m3[g][o] = m[g][o]
  BY <1>5, <1>10, <1>17
<1>18. ASSUME NEW g, NEW h, NEW o, Field(m3, e2, g, h, o)
       PROVE  \/ Field(m, e, g, h, o) /\ m3[g][o] = m[g][o]
              \/ /\ g = t /\ h >= e[t] /\ IsVal(m, e, m3[g][o])
                 /\ IntoHeap(m3[g][o]) => m3[g][o][2] >= k
  <2>1. Field(m2, e2, g, h, o) /\ m3[g][o] = m2[g][o]
    BY <1>10, <1>18
  <2>2. CASE Field(m, e, g, h, o)
    BY <1>5, <2>1, <2>2
  <2>3. CASE g = t /\ h = at
    <3>1. m2[g][h] = m[k][h0] /\ m[k][h0][4] /\ o \in at + 1 .. at + sz
      BY <1>1, <2>1, <2>3 DEF Field
    <3>2. o \in 0 .. r[t] - 1 /\ o \in at .. at + sz /\ h0 + o - at \in h0 + 1 .. h0 + sz
      <4>1. at + 1 + sz <= r[t]
        BY DEF Fits
      <4> HIDE DEF at
      <4> QED BY <1>2, <3>1, <4>1
    <3>3. m3[g][o] = m[k][h0 + o - at]
      BY <1>1, <2>1, <2>3, <3>2 DEF CopiedWords
    <3>4. Field(m, e, k, h0, h0 + o - at)
      BY <3>1, <3>2 DEF Field
    <3>5. IsVal(m, e, m3[g][o])
      BY <3>3, <3>4 DEF Fields
    <3>6. IntoHeap(m3[g][o]) => m3[g][o][2] >= k
      BY <3>5, WordParts DEF IsVal, IntoHeap
    <3>7. h >= e[t]
      <4> HIDE DEF at
      <4> QED BY <1>2, <2>3 DEF at
    <3> QED BY <2>3, <3>5, <3>6, <3>7
  <2> QED BY <1>5, <2>1, <2>2, <2>3
<1>19. ASSUME NEW g \in Gens, NEW o \in 0 .. r[g] - 1, o >= e2[g]
       PROVE  m3[g][o] = m[g][o]
  <2>1. m3[g][o] = m2[g][o]
    BY <1>8, <1>19
  <2>2. CASE g = t
    <3>1. o >= at + 1 + sz
      BY <1>13, <1>19, <2>2
    <3>2. o \notin at .. at + sz
      <4> HIDE DEF at
      <4> QED BY <1>2, <3>1
    <3> QED BY <1>1, <2>1, <2>2, <3>2 DEF CopiedWords
  <2>3. CASE g # t
    BY <1>1, <2>1, <2>3 DEF CopiedWords
  <2> QED BY <2>2, <2>3
<1>20. /\ \A v : IsObj(m, e, v) => IsObj(m3, e2, v)
       /\ \A v : IsVal(m, e, v) => IsVal(m3, e2, v)
       /\ \A g, c : Entry(m, e, g, c) => Entry(m3, e2, g, c)
  BY <1>4, <1>10
<1>21. Moved(m, m3, e, e2, k, t, r, n)
  <2>1. /\ Sized(m3, e2, r) /\ Layout(m3, e2, n) /\ Unique(m3, e2) /\ FromOnly(m3, e2, k)
        /\ Tagged(m, r) => Tagged(m3, r)
        /\ e2[t] >= e[t] /\ \A g \in Gens : g # t => e2[g] = e[g]
        /\ e2[t] = e[t] \/ IsHead(m3, e2, t, e[t])
    BY <1>8, <1>10, <1>11, <1>12, <1>13, <1>14
  <2>2. \A g, h : IsHead(m, e, g, h) =>
            IsHead(m3, e2, g, h) /\ (g # k => m3[g][h] = m[g][h])
    BY <1>16
  <2>3. \A g, h, o : Field(m, e, g, h, o) /\ g # k =>
            Field(m3, e2, g, h, o) /\ m3[g][o] = m[g][o]
    BY <1>17
  <2>4. \A g, h, o : Field(m3, e2, g, h, o) =>
            \/ Field(m, e, g, h, o) /\ m3[g][o] = m[g][o]
            \/ /\ g = t /\ h >= e[t] /\ IsVal(m, e, m3[g][o])
               /\ IntoHeap(m3[g][o]) => m3[g][o][2] >= k
    BY <1>18
  <2>5. \A g \in Gens : \A o \in 0 .. r[g] - 1 : o >= e2[g] => m3[g][o] = m[g][o]
    BY <1>19
  <2> QED BY <1>15, <1>20, <2>1, <2>2, <2>3, <2>4, <2>5 DEF Moved
<1> QED
  BY <1>6, <1>10, <1>21

-----------------------------------------------------------------------------
(* The inductive invariant *)

\* The nursery is described by ti while the mutator runs.
Owned == pc \in {"mutator", "modifyAssertion"}
Ends == [g \in Gens |-> IF g = 0 /\ Owned THEN alloc ELSE next[g]]
Starts == [g \in Gens |-> IF g = 0 /\ Owned THEN ti_limit ELSE limit[g]]

\* A collection has objects copied, and others not.
Going == pc \in {"remset", "copy"}
Source == IF Going THEN i ELSE MAX_SPACES

Objects ==
    /\ Sized(mem, Ends, rem_limit)
    /\ Layout(mem, Ends, fresh)
    /\ Unique(mem, Ends)
    /\ FromOnly(mem, Ends, Source)
    /\ Tagged(mem, rem_limit)
    /\ fresh \in Nat

\* What is copied is all that generation i+1 has got.
Counted == Going => Cardinality(Copied(mem, Ends, i)) = next[i + 1] - p

Entries(m, e, first, r) ==
    \A g \in Gens : \A x \in first[g] .. r[g] - 1 : Entry(m, e, g, m[g][x])

Values == {Unboxed, Out} \cup {Ptr(g, o) : g \in Gens, o \in Nat}

Roots(m, e, st) ==
    /\ st \in Seq([Slots -> Values]) /\ Len(st) > 0
    /\ \A k \in DOMAIN st : \A l \in Slots : IsVal(m, e, st[k][l])

Remembered(m, k, first, last) == {m[k][x] : x \in first .. last - 1}

\* A field that points to a younger generation.
Younger(m, e, g, h, o) == Field(m, e, g, h, o) /\ IntoHeap(m[g][o]) /\ m[g][o][2] < g

\* What is left to do of generation i+1: from this word on.
Edge == IF pc = "copy" /\ fr = 0 THEN s + j ELSE p + 1

Pending(g, o) ==
    \/ g = i + 1 /\ o >= Edge
    \/ pc = "remset" /\ Cell(g, o) \in Remembered(mem, i, q, rem_limit[i])

\* A field that points to a younger generation is in its remembered set, or, if
\* that is the one being collected, is still to be forwarded.
Covered ==
    \A g, h, o : Younger(mem, Ends, g, h, o) =>
        IF Going /\ mem[g][o][2] = i THEN Pending(g, o)
        ELSE Cell(g, o) \in Remembered(mem, mem[g][o][2], Starts[mem[g][o][2]],
                                       rem_limit[mem[g][o][2]])

\* The slots that forward_roots has been through.
RootsDone ==
    pc = "copy" => \A k \in DOMAIN frames : \A l \in Slots :
        k > fr \/ (k = fr /\ l < j) => ~ Into(frames[k][l], i)

Cursors ==
    /\ fr \in 0 .. Top /\ s \in Nat /\ j \in Nat \ {0}
    /\ pc # "copy" => fr = 0 /\ s = 0
    /\ Going => p = next[i + 1] \/ IsHead(mem, Ends, i + 1, p)
    /\ pc = "copy" /\ fr > 0 => j \in Slots /\ s \in {0, p}
    /\ pc = "copy" /\ fr = 0 =>
          s = next[i + 1] \/ (IsHead(mem, Ends, i + 1, s) /\ j <= mem[i + 1][s][3] + 1)

HeapInv ==
    /\ Objects
    /\ Fields(mem, Ends)
    /\ Counted
    /\ Entries(mem, Ends, Starts, rem_limit)
    /\ Roots(mem, Ends, frames)
    /\ Covered
    /\ RootsDone
    /\ Cursors

-----------------------------------------------------------------------------
(* What the policy says *)

\* The steps of the policy keep its invariant (Generations_proofs).
LEMMA PolicyKept ==
    ASSUME GP!IInv, [GP!Next]_(GP!vars) PROVE GP!IInv'
BY GenerationsAssumption, GP!NextInv

\* The entries of the remembered set that are left are of generation i itself.
OnlySkips == \A x \in q .. rem_limit[i] - 1 : mem[i][x][2] = i

\* What a collection needs of the offsets: an entry that is skipped takes no
\* room.
Bounds ==
    /\ i \in Gens /\ i \in Nat /\ i + 1 \in Gens /\ 0 \in Gens /\ p \in Nat /\ q \in Nat
    /\ \A g \in Gens : /\ next[g] \in Nat /\ limit[g] \in Nat /\ rem_limit[g] \in Nat
                       /\ next[g] <= limit[g] /\ limit[g] <= rem_limit[g]
                       /\ g < i => next[g] = 0 /\ limit[g] = rem_limit[g]
                       /\ g \notin created => next[g] = 0 /\ limit[g] = 0 /\ rem_limit[g] = 0
    /\ next = [g \in Gens |-> next[g]] /\ limit = [g \in Gens |-> limit[g]]
    /\ rem_limit = [g \in Gens |-> rem_limit[g]]
    /\ alloc \in Nat /\ ti_limit \in Nat /\ alloc <= ti_limit /\ ti_limit <= rem_limit[0]
    /\ Going => /\ p <= next[i + 1] /\ limit[i + 1] <= rem_limit[i + 1]
                /\ GP!Uncopied \in Nat /\ GP!Uncopied <= limit[i + 1] - next[i + 1]
    /\ pc = "remset" =>
          /\ limit[i] <= q /\ q <= rem_limit[i]
          /\ \/ GP!Uncopied + (rem_limit[i] - q) <= limit[i + 1] - next[i + 1]
             \/ OnlySkips
    /\ pc = "check" => next[i] = 0 /\ limit[i] = rem_limit[i]

\* The invariant of the policy says that, and more.
LEMMA BoundsHold == ASSUME GP!IInv PROVE Bounds
<1> USE DEF GP!Gens, Gens
<1>1. /\ i \in Gens /\ i \in Nat /\ i + 1 \in Gens /\ 0 \in Gens /\ p \in Nat /\ q \in Nat
      /\ next \in [Gens -> Nat] /\ limit \in [Gens -> Nat] /\ rem_limit \in [Gens -> Nat]
      /\ alloc \in Nat /\ ti_limit \in Nat
  BY GenerationsAssumption DEF GP!IInv, GP!TypeOK
<1>2. /\ \A g \in Gens : next[g] <= limit[g] /\ limit[g] <= rem_limit[g]
      /\ alloc <= ti_limit /\ ti_limit <= rem_limit[0]
      /\ \A g \in Gens : g < i => next[g] = 0 /\ limit[g] = rem_limit[g]
      /\ \A g \in Gens : g \notin created => next[g] = 0 /\ limit[g] = 0 /\ rem_limit[g] = 0
  BY DEF GP!IInv, GP!NeverOverflow, GP!YoungerEmpty, GP!Shape
<1>3. /\ pc \in {"remset", "copy"} => p <= next[i + 1] /\ GP!Uncopied >= 0
      /\ pc = "remset" =>
           /\ limit[i] <= q /\ q <= rem_limit[i]
           /\ GP!Uncopied + (rem_limit[i] - q) <= limit[i + 1] - next[i + 1]
      /\ pc = "copy" => GP!Uncopied <= limit[i + 1] - next[i + 1]
      /\ pc = "check" => next[i] = 0 /\ limit[i] = rem_limit[i]
  BY DEF GP!IInv, GP!Budget
<1>4. GP!Uncopied \in Int
  BY <1>1 DEF GP!Uncopied
<1>5. pc = "remset" => GP!Uncopied <= limit[i + 1] - next[i + 1]
  <2> DEFINE d == rem_limit[i]
             u == GP!Uncopied
             l == limit[i + 1]
             n1 == next[i + 1]
  <2>1. d \in Nat /\ l \in Nat /\ n1 \in Nat /\ u \in Int
    BY <1>1, <1>4
  <2>2. pc = "remset" => q <= d /\ u + (d - q) <= l - n1
    BY <1>3
  <2> HIDE DEF d, u, l, n1
  <2>3. pc = "remset" => u <= l - n1
    BY <1>1, <2>1, <2>2
  <2> QED BY <2>3 DEF u, l, n1
<1> QED
  BY <1>1, <1>2, <1>3, <1>4, <1>5 DEF Going, Bounds

\* So they do in the next state.
LEMMA BoundsNext == ASSUME GP!IInv' PROVE Bounds'
BY BoundsHold, PTL

\* Those facts, one by one.
LEMMA PolicyFacts ==
    ASSUME Bounds
    PROVE  /\ i \in Gens /\ i \in Nat /\ i + 1 \in Gens /\ 0 \in Gens /\ p \in Nat /\ q \in Nat
           /\ \A g \in Gens : /\ next[g] \in Nat /\ limit[g] \in Nat /\ rem_limit[g] \in Nat
                              /\ next[g] <= limit[g] /\ limit[g] <= rem_limit[g]
                              /\ g < i => next[g] = 0 /\ limit[g] = rem_limit[g]
                              /\ g \notin created => next[g] = 0 /\ limit[g] = 0 /\ rem_limit[g] = 0
           /\ next = [g \in Gens |-> next[g]] /\ limit = [g \in Gens |-> limit[g]]
           /\ rem_limit = [g \in Gens |-> rem_limit[g]]
           /\ alloc \in Nat /\ ti_limit \in Nat /\ alloc <= ti_limit /\ ti_limit <= rem_limit[0]
           /\ Going => /\ p <= next[i + 1] /\ limit[i + 1] <= rem_limit[i + 1]
                       /\ GP!Uncopied \in Nat /\ GP!Uncopied <= limit[i + 1] - next[i + 1]
           /\ pc = "remset" =>
                 /\ limit[i] <= q /\ q <= rem_limit[i]
                 /\ \/ GP!Uncopied + (rem_limit[i] - q) <= limit[i + 1] - next[i + 1]
                    \/ OnlySkips
           /\ pc = "check" => next[i] = 0 /\ limit[i] = rem_limit[i]
BY DEF Bounds

\* The words in use end before the remembered set starts, which is in its
\* generation.
LEMMA EndsFacts ==
    ASSUME Bounds
    PROVE  /\ \A g \in Gens : /\ Ends[g] \in Nat /\ Starts[g] \in Nat
                              /\ Ends[g] <= Starts[g] /\ Starts[g] <= rem_limit[g]
           /\ ~ Owned => \A g \in Gens : Ends[g] = next[g] /\ Starts[g] = limit[g]
           /\ \A g \in Gens : g # 0 => Ends[g] = next[g] /\ Starts[g] = limit[g]
           /\ Owned => Ends[0] = alloc /\ Starts[0] = ti_limit
           /\ DOMAIN Ends = Gens /\ DOMAIN Starts = Gens
           /\ Going => ~ Owned
<1>1. /\ 0 \in Gens /\ alloc \in Nat /\ ti_limit \in Nat /\ alloc <= ti_limit /\ ti_limit <= rem_limit[0]
      /\ \A g \in Gens : /\ next[g] \in Nat /\ limit[g] \in Nat
                         /\ next[g] <= limit[g] /\ limit[g] <= rem_limit[g]
  BY PolicyFacts
<1>2. /\ \A g \in Gens : Ends[g] = IF g = 0 /\ Owned THEN alloc ELSE next[g]
      /\ \A g \in Gens : Starts[g] = IF g = 0 /\ Owned THEN ti_limit ELSE limit[g]
      /\ DOMAIN Ends = Gens /\ DOMAIN Starts = Gens
  BY DEF Ends, Starts
<1>3. Going => ~ Owned
  BY DEF Going, Owned
<1> QED
  BY <1>1, <1>2, <1>3

-----------------------------------------------------------------------------
(* forward *)

\* While a collection goes on, objects are in generation i and older ones.
LEMMA NoYounger ==
    ASSUME Bounds, Going
    PROVE  \A v : IsObj(mem, Ends, v) => v[2] >= i /\ v[2] \in Gens
<1> SUFFICES ASSUME NEW v, IsObj(mem, Ends, v) PROVE v[2] >= i /\ v[2] \in Gens
  OBVIOUS
<1>1. v[2] \in Gens /\ v[3] - 1 \in 0 .. Ends[v[2]] - 1
  BY DEF IsObj, IsHead
<1>2. Ends[v[2]] = next[v[2]] /\ i \in Nat
  BY <1>1, EndsFacts, PolicyFacts
<1>3. v[2] < i => next[v[2]] = 0
  BY <1>1, PolicyFacts
<1>4. v[2] \in Nat
  BY <1>1 DEF Gens
<1> QED
  BY <1>1, <1>2, <1>3, <1>4

\* Is_from tells the pointers into from-space.
LEMMA FromSpace ==
    ASSUME Bounds, Objects, Going, NEW v, IsVal(mem, Ends, v)
    PROVE  Is_from(v) <=> Into(v, i)
<1>0. fresh \in Nat /\ Sized(mem, Ends, rem_limit) /\ Layout(mem, Ends, fresh)
  BY DEF Objects
<1>1. CASE IsObj(mem, Ends, v) /\ v[2] = i
  <2> DEFINE h == v[3] - 1
             z == SizeAt(mem, i, h)
  <2>1. IsHead(mem, Ends, i, h) /\ v[3] \in Nat /\ IntoHeap(v)
    BY <1>1 DEF IsObj
  <2>2. h \in Nat /\ z \in Nat \ {0} /\ h + z < Ends[i] /\ Ends[i] \in Nat
    BY <1>0, <2>1, HeadFacts
  <2>3. Ends[i] = next[i] /\ next[i] <= limit[i] /\ next[i] \in Nat /\ limit[i] \in Nat
    BY EndsFacts, PolicyFacts
  <2> HIDE DEF z
  <2>4. v[3] < limit[i]
    BY <2>1, <2>2, <2>3
  <2> QED BY <1>1, <2>1, <2>4 DEF Is_from, Into
<1>2. CASE ~ (IsObj(mem, Ends, v) /\ v[2] = i)
  BY <1>2, WordParts DEF Is_from, Into, IsVal, IntoHeap
<1> QED
  BY <1>1, <1>2

\* Forwarding a value that is not into generation i does nothing.
LEMMA ForwardOther ==
    ASSUME Bounds, Objects, Going, NEW v, IsVal(mem, Ends, v), ~ Into(v, i)
    PROVE  Forward(v) = [mem |-> mem, next |-> next[i + 1], val |-> v]
BY FromSpace DEF Forward

\* Forwarding a pointer to an object that is copied finds the copy.
LEMMA ForwardAgain ==
    ASSUME Bounds, Objects, Going, NEW v, IsVal(mem, Ends, v), Into(v, i),
           HeaderIn(mem, v) = Forwarded
    PROVE  /\ Forward(v) = [mem |-> mem, next |-> next[i + 1], val |-> FieldIn(mem, v, 1)]
           /\ IsObj(mem, Ends, FieldIn(mem, v, 1)) /\ Into(FieldIn(mem, v, 1), i + 1)
<1>1. Forward(v) = [mem |-> mem, next |-> next[i + 1], val |-> FieldIn(mem, v, 1)]
  BY FromSpace DEF Forward
<1>2. IsHead(mem, Ends, i, v[3] - 1) /\ mem[i][v[3] - 1] = Forwarded /\ v[3] \in Nat /\ v[2] = i
  BY WordParts DEF IsVal, IsObj, Into, IntoHeap, HeaderIn
<1>3. FromOnly(mem, Ends, i)
  BY DEF Objects, Source
<1>4. (v[3] - 1) + 1 = v[3] + 1 - 1
  BY <1>2
<1>5. mem[i][(v[3] - 1) + 1] = FieldIn(mem, v, 1)
  BY <1>2, <1>4 DEF FieldIn
<1>6. IsObj(mem, Ends, FieldIn(mem, v, 1)) /\ FieldIn(mem, v, 1)[2] = i + 1
  BY <1>2, <1>3, <1>5 DEF FromOnly
<1> QED
  BY <1>1, <1>6 DEF Into, IsObj

\* Forwarding a pointer to an object that is not, copies it.
LEMMA ForwardNew ==
    ASSUME Bounds, Objects, Going, NEW v, IsVal(mem, Ends, v), Into(v, i),
           HeaderIn(mem, v) # Forwarded
    PROVE  LET h0 == v[3] - 1
               sz == HeaderIn(mem, v)[3]
               v0 == Ptr(i + 1, next[i + 1] + 1)
               m2 == CopyOf(mem, i, i + 1, h0, next[i + 1], sz)
           IN  /\ Forward(v).mem = MarkedAs(m2, i, h0, v0)
               /\ Forward(v).next = next[i + 1] + 1 + sz
               /\ Forward(v).val = v0
               /\ IsHead(mem, Ends, i, h0) /\ mem[i][h0] # Forwarded
               /\ sz = mem[i][h0][3]
<1> DEFINE h0 == v[3] - 1
           sz == HeaderIn(mem, v)[3]
           at == next[i + 1]
           v0 == Ptr(i + 1, at + 1)
           m2 == CopyOf(mem, i, i + 1, h0, at, sz)
<1>1. Is_from(v) /\ v[2] = i
  BY FromSpace DEF Into
<1>2. IsHead(mem, Ends, i, h0) /\ mem[i][h0] # Forwarded /\ HeaderIn(mem, v) = mem[i][h0]
      /\ v[3] \in Nat
  BY <1>1, WordParts DEF IsVal, IsObj, Into, IntoHeap, HeaderIn
<1>3. h0 + 1 = v[3]
  BY <1>2
<1>4. Forward(v) = [mem |-> Written(Written(m2, i, v[3] - 1, Forwarded), i, v[3], v0),
                    next |-> at + 1 + sz, val |-> v0]
  BY <1>1, <1>2 DEF Forward, CopyOf
<1> HIDE DEF m2
<1>5. MarkedAs(m2, i, h0, v0) = Written(Written(m2, i, v[3] - 1, Forwarded), i, v[3], v0)
  BY <1>3 DEF MarkedAs
<1> QED
  BY <1>2, <1>4, <1>5 DEF m2

\* What forward does to the heap, f being its result and e2 the words in use.
Forwarding(v, f, e2) ==
    /\ Moved(mem, f.mem, Ends, e2, i, i + 1, rem_limit, fresh)
    /\ IsVal(f.mem, e2, f.val) /\ ~ Into(f.val, i)
    /\ Into(v, i) => Into(f.val, i + 1)
    /\ ~ Into(v, i) => f = [mem |-> mem, next |-> next[i + 1], val |-> v]
    /\ f.next \in Nat /\ f.next >= next[i + 1] /\ f.next - next[i + 1] <= GP!Uncopied
    /\ DOMAIN e2 = Gens /\ e2[i + 1] = f.next /\ \A g \in Gens : g # i + 1 => e2[g] = Ends[g]

\* There is room for a copy, because what has been copied was from generation i.
LEMMA CopyFits ==
    ASSUME Bounds, Objects, Counted, Going, NEW h0, NEW sz,
           IsHead(mem, Ends, i, h0), mem[i][h0] # Forwarded, sz = mem[i][h0][3]
    PROVE  /\ sz \in Nat /\ 1 + sz <= GP!Uncopied
           /\ next[i + 1] + 1 + sz <= limit[i + 1] /\ next[i + 1] + 1 + sz <= rem_limit[i + 1]
<1> DEFINE c == Cardinality(Copied(mem, Ends, i))
           n0 == next[i]
           n1 == next[i + 1]
           l1 == limit[i + 1]
           r1 == rem_limit[i + 1]
<1>0. fresh \in Nat /\ Sized(mem, Ends, rem_limit) /\ Layout(mem, Ends, fresh)
  BY DEF Objects
<1>1. SizeAt(mem, i, h0) = sz /\ sz \in Nat
  BY <1>0, HeadFacts
<1>2. c + 1 + sz <= n0
  <2>1. i \in Gens /\ Ends[i] = n0
    BY PolicyFacts, EndsFacts
  <2>2. Cardinality(Copied(mem, Ends, i)) + 1 + SizeAt(mem, i, h0) <= Ends[i]
    BY <1>0, <2>1, CopiedRoom
  <2> QED BY <1>1, <2>1, <2>2
<1>3. c = n1 - p
  BY DEF Counted
<1>4. n0 \in Nat /\ n1 \in Nat /\ l1 \in Nat /\ r1 \in Nat /\ l1 <= r1 /\ p \in Nat
  BY PolicyFacts
<1>5. GP!Uncopied = n0 - (n1 - p)
  BY DEF GP!Uncopied
<1>6. GP!Uncopied <= l1 - n1
  BY PolicyFacts
<1> HIDE DEF c, n0, n1, l1, r1
<1>7. sz \in Nat /\ 1 + sz <= n0 - (n1 - p)
  BY <1>1, <1>2, <1>3, <1>4
<1>8. n1 + 1 + sz <= l1 /\ n1 + 1 + sz <= r1
  BY <1>4, <1>5, <1>6, <1>7
<1> QED
  BY <1>5, <1>7, <1>8 DEF n1, l1, r1

\* forward does that, for every value.
LEMMA ForwardFacts ==
    ASSUME Bounds, Objects, Counted, Fields(mem, Ends), Going, NEW v, IsVal(mem, Ends, v)
    PROVE  Forwarding(v, Forward(v), [Ends EXCEPT ![i + 1] = Forward(v).next])
<1> DEFINE t == i + 1
           e2 == [Ends EXCEPT ![t] = Forward(v).next]
<1>1. /\ i \in Gens /\ i \in Nat /\ t \in Gens /\ next[t] \in Nat /\ GP!Uncopied \in Nat
      /\ Ends[t] = next[t] /\ DOMAIN Ends = Gens
  BY PolicyFacts, EndsFacts
<1>2. /\ Sized(mem, Ends, rem_limit) /\ Layout(mem, Ends, fresh) /\ Unique(mem, Ends)
      /\ FromOnly(mem, Ends, i) /\ fresh \in Nat
  BY DEF Objects, Source
<1>3. Follows(i, t)
  BY <1>1 DEF Follows
<1>4. DOMAIN e2 = Gens /\ e2[t] = Forward(v).next /\ \A g \in Gens : g # t => e2[g] = Ends[g]
  BY <1>1
<1>5. ASSUME Forward(v).next = next[t] PROVE e2 = Ends
  BY <1>1, <1>5 DEF Ends
<1>6. Moved(mem, mem, Ends, Ends, i, t, rem_limit, fresh)
  BY <1>2, <1>3, NotMoved
<1> HIDE DEF e2
<1>7. CASE ~ Into(v, i)
  <2> DEFINE f == [mem |-> mem, next |-> next[t], val |-> v]
  <2>1. Forward(v) = f
    BY <1>7, ForwardOther
  <2>2. f.mem = mem /\ f.next = next[t] /\ f.val = v
    OBVIOUS
  <2>3. e2 = Ends
    BY <1>5, <2>1, <2>2
  <2>4. next[t] >= next[t] /\ next[t] - next[t] <= GP!Uncopied
    BY <1>1
  <2> QED BY <1>1, <1>4, <1>6, <1>7, <2>1, <2>2, <2>3, <2>4 DEF Forwarding, e2
<1>8. CASE Into(v, i) /\ HeaderIn(mem, v) = Forwarded
  <2> DEFINE w == FieldIn(mem, v, 1)
             f == [mem |-> mem, next |-> next[t], val |-> w]
  <2>1. Forward(v) = f /\ IsObj(mem, Ends, w) /\ Into(w, t)
    BY <1>8, ForwardAgain
  <2>2. f.mem = mem /\ f.next = next[t] /\ f.val = w
    OBVIOUS
  <2>3. e2 = Ends
    BY <1>5, <2>1, <2>2
  <2>4. next[t] >= next[t] /\ next[t] - next[t] <= GP!Uncopied
    BY <1>1
  <2>5. IsVal(mem, Ends, w) /\ ~ Into(w, i)
    BY <1>1, <2>1 DEF IsVal, Into
  <2> QED BY <1>1, <1>4, <1>6, <1>8, <2>1, <2>2, <2>3, <2>4, <2>5 DEF Forwarding, e2
<1>9. CASE Into(v, i) /\ HeaderIn(mem, v) # Forwarded
  <2> DEFINE h0 == v[3] - 1
             sz == HeaderIn(mem, v)[3]
             v0 == Ptr(t, next[t] + 1)
             m2 == CopyOf(mem, i, t, h0, next[t], sz)
             m3 == Forward(v).mem
  <2>1. /\ m3 = MarkedAs(m2, i, h0, v0)
        /\ Forward(v).next = next[t] + 1 + sz
        /\ Forward(v).val = v0
        /\ IsHead(mem, Ends, i, h0) /\ mem[i][h0] # Forwarded /\ sz = mem[i][h0][3]
    BY <1>9, ForwardNew
  <2>2. sz \in Nat /\ 1 + sz <= GP!Uncopied /\ next[t] + 1 + sz <= rem_limit[t]
    BY <2>1, CopyFits
  <2>3. Fits(Ends, rem_limit, t, sz) /\ Longer(Ends, e2, t, sz)
    BY <1>1, <1>4, <2>1, <2>2 DEF Fits, Longer
  <2>4. \A w : IsObj(mem, Ends, w) => w[2] >= i
    BY NoYounger
  <2>5. v0 = Ptr(t, Ends[t] + 1) /\ m2 = CopyOf(mem, i, t, h0, Ends[t], sz)
    BY <1>1
  <2> HIDE DEF m2, v0, sz, m3, h0
  <2>6. Moved(mem, m3, Ends, e2, i, t, rem_limit, fresh) /\ IsObj(m3, e2, v0)
    BY <1>2, <1>3, <2>1, <2>3, <2>4, <2>5, CopyMoves
  <2>7. IsVal(m3, e2, v0) /\ Into(v0, t) /\ ~ Into(v0, i)
    BY <1>1, <2>6, WordParts DEF IsVal, Into, IntoHeap, v0
  <2>8. /\ Forward(v).next \in Nat /\ Forward(v).next >= next[t]
        /\ Forward(v).next - next[t] <= GP!Uncopied
    BY <1>1, <2>1, <2>2
  <2> QED BY <1>4, <1>9, <2>1, <2>6, <2>7, <2>8 DEF Forwarding, e2, m3
<1> QED
  BY <1>7, <1>8, <1>9 DEF e2

-----------------------------------------------------------------------------
(* A heap *)

\* The heap m, in use up to e, where the remembered sets start at first: what
\* holds of it at every step, k being the generation that is collected.
Heap(m, e, first, r, n, k) ==
    /\ n \in Nat /\ Sized(m, e, r) /\ Layout(m, e, n) /\ Unique(m, e)
    /\ FromOnly(m, e, k) /\ Tagged(m, r)
    /\ Fields(m, e) /\ Entries(m, e, first, r)
    /\ \A g \in Gens : first[g] \in Nat /\ e[g] <= first[g] /\ first[g] <= r[g]

\* The parts of HeapInv are about such a heap.
LEMMA HeapIs ==
    ASSUME Bounds, HeapInv PROVE Heap(mem, Ends, Starts, rem_limit, fresh, Source)
BY EndsFacts DEF Heap, HeapInv, Objects

\* A field is a word in use.
LEMMA FieldFacts ==
    ASSUME NEW m, NEW e, NEW first, NEW r, NEW n, NEW k, Heap(m, e, first, r, n, k),
           NEW g, NEW h, NEW o, Field(m, e, g, h, o)
    PROVE  /\ g \in Gens /\ h \in Nat /\ o \in Nat /\ h < o /\ o < e[g]
           /\ e[g] \in Nat /\ o < first[g] /\ first[g] \in Nat
           /\ r[g] \in Nat /\ o \in 0 .. r[g] - 1
           /\ IsHead(m, e, g, h) /\ o \in h + 1 .. h + SizeAt(m, g, h)
           /\ SizeAt(m, g, h) \in Nat /\ SizeAt(m, g, h) = m[g][h][3]
           /\ h + SizeAt(m, g, h) < e[g]
<1>1. n \in Nat /\ Sized(m, e, r) /\ Layout(m, e, n)
  BY DEF Heap
<1>2. IsHead(m, e, g, h) /\ m[g][h] # Forwarded /\ o \in h + 1 .. h + m[g][h][3]
  BY DEF Field
<1>3. /\ g \in Gens /\ h \in Nat /\ e[g] \in Nat /\ r[g] \in Nat /\ e[g] <= r[g]
      /\ SizeAt(m, g, h) \in Nat /\ SizeAt(m, g, h) = m[g][h][3]
      /\ h + SizeAt(m, g, h) < e[g]
  BY <1>1, <1>2, HeadFacts
<1>4. first[g] \in Nat /\ e[g] <= first[g]
  BY <1>3 DEF Heap
<1>5. o \in Nat /\ h < o /\ o < e[g] /\ o < first[g] /\ o \in 0 .. r[g] - 1
  BY <1>2, <1>3, <1>4
<1> QED
  BY <1>2, <1>3, <1>4, <1>5

\* The tags of values.
LEMMA ValueTags ==
    ASSUME NEW m, NEW e, NEW w, IsVal(m, e, w)
    PROVE  w[1] \in Tags /\ w[1] \notin HeaderTags
BY WordParts DEF IsVal, IsObj, IntoHeap, Tags, HeaderTags

\* m2 has the objects of m, where they were.
SameObjects(m, m2, e) ==
    /\ \A g, h : IsHead(m, e, g, h) <=> IsHead(m2, e, g, h)
    /\ \A g, h : IsHead(m, e, g, h) => m2[g][h] = m[g][h]
    /\ \A v : IsVal(m2, e, v) <=> IsVal(m, e, v)
    /\ \A g, h, o : Field(m2, e, g, h, o) <=> Field(m, e, g, h, o)
    /\ \A g, c : Entry(m, e, g, c) => Entry(m2, e, g, c)
    /\ \A g : Copied(m2, e, g) = Copied(m, e, g)

\* m2 is m but for word o of generation g, which is w.
Differs(m, m2, r, g, o, w) ==
    /\ m2[g][o] = w
    /\ \A g2 \in Gens : \A o2 \in 0 .. r[g2] - 1 : g2 # g \/ o2 # o => m2[g2][o2] = m[g2][o2]

\* A value can be written in a field.
LEMMA WriteHeap ==
    ASSUME NEW m, NEW e, NEW first, NEW r, NEW n, NEW k, Heap(m, e, first, r, n, k),
           NEW g, NEW h, NEW o, Field(m, e, g, h, o), NEW w, IsVal(m, e, w),
           NEW m2, m2 = Written(m, g, o, w)
    PROVE  Heap(m2, e, first, r, n, k) /\ SameObjects(m, m2, e) /\ Differs(m, m2, r, g, o, w)
<1>0. /\ n \in Nat /\ Sized(m, e, r) /\ Layout(m, e, n) /\ Unique(m, e)
      /\ FromOnly(m, e, k) /\ Tagged(m, r)
      /\ Fields(m, e) /\ Entries(m, e, first, r)
      /\ \A g1 \in Gens : first[g1] \in Nat /\ e[g1] <= first[g1] /\ first[g1] <= r[g1]
  BY DEF Heap
<1>1. g \in Gens /\ o \in 0 .. r[g] - 1 /\ o < first[g] /\ first[g] \in Nat
  BY FieldFacts
<1>2. w[1] \in Tags /\ w[1] \notin HeaderTags
  BY ValueTags
<1>3. Keeps(m, m2, e) /\ Sized(m2, e, r) /\ Differs(m, m2, r, g, o, w)
  <2>1. o >= e[g] \/ \E h1 : Field(m, e, g, h1, o)
    OBVIOUS
  <2> QED BY <1>0, <1>1, <1>2, <2>1, WrittenKeeps DEF Differs
<1>4. /\ \A v : IsVal(m2, e, v) <=> IsVal(m, e, v)
      /\ \A g1, h1, o1 : Field(m2, e, g1, h1, o1) <=> Field(m, e, g1, h1, o1)
      /\ \A g1, c : Entry(m, e, g1, c) => Entry(m2, e, g1, c)
      /\ FromOnly(m2, e, k)
      /\ \A g1 : Copied(m2, e, g1) = Copied(m, e, g1)
      /\ \A g1, h1 : IsHead(m, e, g1, h1) => m2[g1][h1] = m[g1][h1]
  BY <1>0, <1>3, KeptObjects
<1>5. Layout(m2, e, n) /\ Unique(m2, e)
  BY <1>0, <1>3, KeptLayout
<1>6. SameObjects(m, m2, e)
  BY <1>3, <1>4 DEF SameObjects, Keeps
<1>7. Tagged(m2, r)
  BY <1>0, <1>1, <1>2, <1>3 DEF Tagged, Differs
<1>8. Fields(m2, e)
  <2> SUFFICES ASSUME NEW g1, NEW h1, NEW o1, Field(m, e, g1, h1, o1)
               PROVE  IsVal(m, e, m2[g1][o1])
    BY <1>4 DEF Fields
  <2>1. g1 \in Gens /\ o1 \in 0 .. r[g1] - 1
    BY FieldFacts
  <2>2. m2[g1][o1] = w \/ m2[g1][o1] = m[g1][o1]
    BY <1>3, <2>1 DEF Differs
  <2> QED BY <1>0, <2>2 DEF Fields
<1>9. Entries(m2, e, first, r)
  <2> SUFFICES ASSUME NEW g1 \in Gens, NEW x \in first[g1] .. r[g1] - 1
               PROVE  Entry(m2, e, g1, m2[g1][x])
    BY DEF Entries
  <2>1. x \in 0 .. r[g1] - 1 /\ (g1 # g \/ x # o)
    BY <1>0, <1>1
  <2>2. m2[g1][x] = m[g1][x]
    BY <1>3, <2>1 DEF Differs
  <2> QED BY <1>0, <1>4, <2>2 DEF Entries
<1> QED
  BY <1>0, <1>3, <1>4, <1>5, <1>6, <1>7, <1>8, <1>9 DEF Heap

\* An entry can be added to a remembered set that has room.
LEMMA RememberHeap ==
    ASSUME NEW m, NEW e, NEW first, NEW r, NEW n, NEW k, Heap(m, e, first, r, n, k),
           NEW g \in Gens, e[g] < first[g], NEW c, Entry(m, e, g, c),
           NEW x, x = first[g] - 1, NEW m2, m2 = Written(m, g, x, c),
           NEW first2, first2[g] = x, \A g1 \in Gens : g1 # g => first2[g1] = first[g1]
    PROVE  Heap(m2, e, first2, r, n, k) /\ SameObjects(m, m2, e) /\ Differs(m, m2, r, g, x, c)
<1>0. /\ n \in Nat /\ Sized(m, e, r) /\ Layout(m, e, n) /\ Unique(m, e)
      /\ FromOnly(m, e, k) /\ Tagged(m, r)
      /\ Fields(m, e) /\ Entries(m, e, first, r)
      /\ \A g1 \in Gens : first[g1] \in Nat /\ e[g1] <= first[g1] /\ first[g1] <= r[g1]
  BY DEF Heap
<1>1. /\ x \in 0 .. r[g] - 1 /\ x >= e[g] /\ x \in Nat /\ x <= r[g]
  <2>1. e[g] \in Nat /\ r[g] \in Nat
    BY <1>0 DEF Sized
  <2> QED BY <1>0, <2>1
<1>2. c[1] \in Tags /\ c[1] \notin HeaderTags
  BY WordParts DEF Entry, Tags, HeaderTags
<1>3. Keeps(m, m2, e) /\ Sized(m2, e, r) /\ Differs(m, m2, r, g, x, c)
  BY <1>0, <1>1, <1>2, WrittenKeeps DEF Differs
<1>4. /\ \A v : IsVal(m2, e, v) <=> IsVal(m, e, v)
      /\ \A g1, h1, o1 : Field(m2, e, g1, h1, o1) <=> Field(m, e, g1, h1, o1)
      /\ \A g1, d : Entry(m, e, g1, d) => Entry(m2, e, g1, d)
      /\ FromOnly(m2, e, k)
      /\ \A g1 : Copied(m2, e, g1) = Copied(m, e, g1)
      /\ \A g1, h1 : IsHead(m, e, g1, h1) => m2[g1][h1] = m[g1][h1]
  BY <1>0, <1>3, KeptObjects
<1>5. Layout(m2, e, n) /\ Unique(m2, e)
  BY <1>0, <1>3, KeptLayout
<1>6. SameObjects(m, m2, e)
  BY <1>3, <1>4 DEF SameObjects, Keeps
<1>7. Tagged(m2, r)
  BY <1>0, <1>1, <1>2, <1>3 DEF Tagged, Differs
<1>8. Fields(m2, e)
  <2> SUFFICES ASSUME NEW g1, NEW h1, NEW o1, Field(m, e, g1, h1, o1)
               PROVE  IsVal(m, e, m2[g1][o1])
    BY <1>4 DEF Fields
  <2>1. /\ g1 \in Gens /\ o1 \in 0 .. r[g1] - 1 /\ o1 < e[g1] /\ o1 \in Nat
        /\ e[g1] \in Nat
    BY FieldFacts
  <2>2. g1 # g \/ o1 # x
    BY <1>1, <2>1
  <2>3. m2[g1][o1] = m[g1][o1]
    BY <1>3, <2>1, <2>2 DEF Differs
  <2> QED BY <1>0, <2>3 DEF Fields
<1>9. Entries(m2, e, first2, r)
  <2> SUFFICES ASSUME NEW g1 \in Gens, NEW y \in first2[g1] .. r[g1] - 1
               PROVE  Entry(m2, e, g1, m2[g1][y])
    BY DEF Entries
  <2>1. CASE g1 = g /\ y = x
    BY <1>3, <1>4, <2>1 DEF Differs
  <2>2. CASE ~ (g1 = g /\ y = x)
    <3>1. y \in first[g1] .. r[g1] - 1 /\ y \in 0 .. r[g1] - 1
      BY <1>0, <1>1, <2>2
    <3>2. m2[g1][y] = m[g1][y]
      BY <1>3, <2>2, <3>1 DEF Differs
    <3> QED BY <1>0, <1>4, <3>1, <3>2 DEF Entries
  <2> QED BY <2>1, <2>2
<1>10. \A g1 \in Gens : first2[g1] \in Nat /\ e[g1] <= first2[g1] /\ first2[g1] <= r[g1]
  <2> SUFFICES ASSUME NEW g1 \in Gens
               PROVE  first2[g1] \in Nat /\ e[g1] <= first2[g1] /\ first2[g1] <= r[g1]
    OBVIOUS
  <2>1. CASE g1 = g
    BY <1>1, <2>1
  <2>2. CASE g1 # g
    BY <1>0, <2>2
  <2> QED BY <2>1, <2>2
<1> QED
  BY <1>0, <1>3, <1>4, <1>5, <1>6, <1>7, <1>8, <1>9, <1>10 DEF Heap

\* The words of remembered sets and of pointers out of cells.
LEMMA RememberedSame ==
    ASSUME NEW m, NEW m2, NEW g, NEW first, NEW last,
           \A x \in first .. last - 1 : m2[g][x] = m[g][x]
    PROVE  Remembered(m2, g, first, last) = Remembered(m, g, first, last)
BY DEF Remembered

\* The heap when a value has been forwarded, and not yet been written where it
\* was read.
ForwardedHeap(v, f, e2) ==
    /\ Forwarding(v, f, e2)
    /\ Heap(f.mem, e2, Starts, rem_limit, fresh, i)
    /\ Cardinality(Copied(f.mem, e2, i)) = f.next - p
    /\ \A g \in Gens : \A x \in Starts[g] .. rem_limit[g] - 1 : f.mem[g][x] = mem[g][x]
    /\ \A g, h, o : Younger(f.mem, e2, g, h, o) =>
          IF f.mem[g][o][2] = i THEN Pending(g, o)
          ELSE Cell(g, o) \in Remembered(mem, f.mem[g][o][2], Starts[f.mem[g][o][2]],
                                         rem_limit[f.mem[g][o][2]])

\* forward leaves such a heap.
LEMMA ForwardHeap ==
    ASSUME Bounds, HeapInv, Going, Edge \in Nat, Edge <= next[i + 1] + 1,
           NEW v, IsVal(mem, Ends, v), NEW f, f = Forward(v),
           NEW e2, e2 = [Ends EXCEPT ![i + 1] = f.next]
    PROVE  ForwardedHeap(v, f, e2)
<1> DEFINE t == i + 1
           m2 == f.mem
<1>1. Objects /\ Counted /\ Fields(mem, Ends) /\ Entries(mem, Ends, Starts, rem_limit) /\ Covered
  BY DEF HeapInv
<1>2. Forwarding(v, f, e2)
  BY <1>1, ForwardFacts
<1>3. Source = i
  BY DEF Source
<1>4. Heap(mem, Ends, Starts, rem_limit, fresh, i)
  BY <1>3, HeapIs
<1>5. Moved(mem, m2, Ends, e2, i, t, rem_limit, fresh)
  BY <1>2 DEF Forwarding
<1>6. /\ Sized(m2, e2, rem_limit) /\ Layout(m2, e2, fresh) /\ Unique(m2, e2)
      /\ FromOnly(m2, e2, i) /\ Tagged(m2, rem_limit) /\ fresh \in Nat
  BY <1>4, <1>5 DEF Moved, Heap
<1>7. /\ \A w : IsVal(mem, Ends, w) => IsVal(m2, e2, w)
      /\ \A g, c : Entry(mem, Ends, g, c) => Entry(m2, e2, g, c)
      /\ \A g \in Gens : \A o \in 0 .. rem_limit[g] - 1 : o >= e2[g] => m2[g][o] = mem[g][o]
      /\ Cardinality(Copied(m2, e2, i)) - Cardinality(Copied(mem, Ends, i)) = e2[t] - Ends[t]
  BY <1>5 DEF Moved
<1>8. \A g, h, o : Field(m2, e2, g, h, o) =>
            \/ Field(mem, Ends, g, h, o) /\ m2[g][o] = mem[g][o]
            \/ /\ g = t /\ h >= Ends[t] /\ IsVal(mem, Ends, m2[g][o])
               /\ IntoHeap(m2[g][o]) => m2[g][o][2] >= i
  BY <1>5 DEF Moved
<1>9. /\ i \in Gens /\ i \in Nat /\ t \in Gens /\ next[t] \in Nat /\ GP!Uncopied \in Nat
      /\ Ends[t] = next[t] /\ DOMAIN Ends = Gens /\ f.next \in Nat /\ e2[t] = f.next
      /\ \A g \in Gens : g # t => e2[g] = Ends[g]
      /\ p \in Nat
  BY <1>2, PolicyFacts, EndsFacts DEF Forwarding
<1>10. e2[t] <= Starts[t]
  <2>1. /\ f.next - next[t] <= GP!Uncopied
        /\ Starts[t] = limit[t] /\ limit[t] \in Nat
    BY <1>2, <1>9, PolicyFacts, EndsFacts DEF Forwarding, Gens
  <2>2. GP!Uncopied <= limit[t] - next[t]
    BY PolicyFacts
  <2> DEFINE u == GP!Uncopied
             l == limit[t]
             n1 == next[t]
             n2 == f.next
  <2>3. n2 - n1 <= u /\ u <= l - n1 /\ n1 \in Nat /\ l \in Nat /\ n2 \in Nat /\ u \in Nat
    BY <2>1, <2>2, <1>9
  <2>4. e2[t] = n2 /\ Starts[t] = l
    BY <2>1, <1>9
  <2> HIDE DEF u, l, n1, n2
  <2>5. n2 <= l
    BY <2>3
  <2> QED BY <2>4, <2>5
<1>11. \A g \in Gens : Starts[g] \in Nat /\ e2[g] <= Starts[g] /\ Starts[g] <= rem_limit[g]
  <2> SUFFICES ASSUME NEW g \in Gens
               PROVE  Starts[g] \in Nat /\ e2[g] <= Starts[g] /\ Starts[g] <= rem_limit[g]
    OBVIOUS
  <2>1. Starts[g] \in Nat /\ Ends[g] <= Starts[g] /\ Starts[g] <= rem_limit[g]
    BY EndsFacts
  <2> QED BY <1>9, <1>10, <2>1
<1>12. \A g \in Gens : \A x \in Starts[g] .. rem_limit[g] - 1 : m2[g][x] = mem[g][x]
  <2> SUFFICES ASSUME NEW g \in Gens, NEW x \in Starts[g] .. rem_limit[g] - 1
               PROVE  m2[g][x] = mem[g][x]
    OBVIOUS
  <2>1. e2[g] \in Nat /\ rem_limit[g] \in Nat /\ Starts[g] \in Nat /\ e2[g] <= Starts[g]
    BY <1>6, <1>11 DEF Sized
  <2>2. x \in 0 .. rem_limit[g] - 1 /\ x >= e2[g]
    BY <2>1
  <2> QED BY <1>7, <2>2
<1>13. Fields(m2, e2)
  BY <1>1, <1>7, <1>8 DEF Fields
<1>14. Entries(m2, e2, Starts, rem_limit)
  BY <1>1, <1>7, <1>12 DEF Entries
<1>15. Cardinality(Copied(m2, e2, i)) = f.next - p
  <2> DEFINE c == Cardinality(Copied(mem, Ends, i))
             c2 == Cardinality(Copied(m2, e2, i))
             n1 == next[t]
             n2 == f.next
  <2>1. c = n1 - p
    BY <1>1 DEF Counted
  <2>2. c2 - c = n2 - n1 /\ n1 \in Nat /\ n2 \in Nat
    BY <1>7, <1>9
  <2>3. c2 \in Nat
    BY <1>6, <1>9, CopiedRoom
  <2> HIDE DEF c, c2, n1, n2
  <2>4. c2 = n2 - p
    BY <1>9, <2>1, <2>2, <2>3
  <2> QED BY <2>4 DEF c2, n2
<1>16. ASSUME NEW g, NEW h, NEW o, Younger(m2, e2, g, h, o)
       PROVE  IF m2[g][o][2] = i THEN Pending(g, o)
              ELSE Cell(g, o) \in Remembered(mem, m2[g][o][2], Starts[m2[g][o][2]],
                                             rem_limit[m2[g][o][2]])
  <2>1. Field(m2, e2, g, h, o) /\ IntoHeap(m2[g][o]) /\ m2[g][o][2] < g
    BY <1>16 DEF Younger
  <2>2. CASE Field(mem, Ends, g, h, o) /\ m2[g][o] = mem[g][o]
    BY <1>1, <2>1, <2>2 DEF Younger, Covered
  <2>3. CASE /\ g = t /\ h >= Ends[t] /\ IsVal(mem, Ends, m2[g][o])
             /\ IntoHeap(m2[g][o]) => m2[g][o][2] >= i
    <3>1. Heap(m2, e2, Starts, rem_limit, fresh, i)
      BY <1>6, <1>11, <1>13, <1>14 DEF Heap
    <3>2. h \in Nat /\ o \in Nat /\ h < o
      BY <2>1, <3>1, FieldFacts
    <3>3. m2[g][o][2] \in Gens
      BY <2>1, <2>3, WordParts DEF IsVal, IsObj, IsHead, IntoHeap
    <3>4. m2[g][o][2] = i
      BY <1>9, <2>1, <2>3, <3>3 DEF Gens
    <3>5. o >= Edge
      BY <1>9, <2>3, <3>2
    <3> QED BY <2>3, <3>4, <3>5 DEF Pending
  <2> QED BY <1>8, <2>1, <2>2, <2>3
<1> QED
  BY <1>2, <1>6, <1>11, <1>12, <1>13, <1>14, <1>15, <1>16 DEF Heap, ForwardedHeap

-----------------------------------------------------------------------------
(* Steps that change no object *)

\* Between collections, only the roots may change if the heap does not.
LEMMA Quiet ==
    ASSUME HeapInv, ~ Going, ~ Going', UNCHANGED <<mem, rem_limit, fresh, cursors>>,
           Ends' = Ends, Starts' = Starts, Roots(mem, Ends, frames')
    PROVE  HeapInv'
<1>1. Source' = Source
  BY DEF Source
<1>2. Objects'
  BY <1>1 DEF HeapInv, Objects
<1>3. Fields(mem, Ends)' /\ Entries(mem, Ends, Starts, rem_limit)'
  BY DEF HeapInv
<1>4. Counted' /\ RootsDone'
  BY DEF Counted, RootsDone, Going
<1>5. Roots(mem, Ends, frames)'
  OBVIOUS
<1>6. Covered'
  BY DEF HeapInv, Covered
<1>7. Cursors'
  <2>1. Top' \in Nat
    BY DEF Roots, Top
  <2>2. fr = 0 /\ s = 0 /\ s \in Nat /\ j \in Nat \ {0} /\ UNCHANGED <<fr, s, j>>
    BY DEF HeapInv, Cursors, Going, cursors
  <2> QED BY <2>1, <2>2 DEF Cursors, Going
<1> QED
  BY <1>2, <1>3, <1>4, <1>5, <1>6, <1>7 DEF HeapInv

\* Values that a slot may hold.
LEMMA RootValues ==
    ASSUME NEW m, NEW e, NEW r, Sized(m, e, r)
    PROVE  \A w : IsVal(m, e, w) => w \in Values
<1> SUFFICES ASSUME NEW w, IsVal(m, e, w) PROVE w \in Values
  OBVIOUS
<1>1. CASE IsObj(m, e, w)
  <2>1. w = Ptr(w[2], w[3]) /\ w[2] \in Gens /\ w[3] \in Nat
    BY <1>1 DEF IsObj, IsHead
  <2> QED BY <2>1 DEF Values
<1>2. CASE w \in {Unboxed, Out}
  BY <1>2 DEF Values
<1> QED
  BY <1>1, <1>2 DEF IsVal

\* A slot of a frame gets a value.
LEMMA SlotRoots ==
    ASSUME NEW m, NEW e, NEW r, Sized(m, e, r), NEW st, Roots(m, e, st),
           NEW a \in DOMAIN st, NEW l \in Slots, NEW w, IsVal(m, e, w)
    PROVE  /\ Roots(m, e, [st EXCEPT ![a][l] = w]) /\ Len([st EXCEPT ![a][l] = w]) = Len(st)
           /\ \A b \in DOMAIN st : \A x \in Slots :
                 [st EXCEPT ![a][l] = w][b][x] = IF b = a /\ x = l THEN w ELSE st[b][x]
<1> DEFINE st2 == [st EXCEPT ![a][l] = w]
<1>1. st \in Seq([Slots -> Values]) /\ Len(st) > 0 /\ w \in Values
  BY RootValues DEF Roots
<1>2. st[a] \in [Slots -> Values]
  BY <1>1, ElementOfSeq
<1>3. [st[a] EXCEPT ![l] = w] \in [Slots -> Values]
  BY <1>1, <1>2
<1>4. st2 = [st EXCEPT ![a] = [st[a] EXCEPT ![l] = w]]
  OBVIOUS
<1>5. st2 \in Seq([Slots -> Values]) /\ Len(st2) = Len(st)
  BY <1>1, <1>3, <1>4, ExceptSeq
<1>6. DOMAIN st2 = DOMAIN st
  OBVIOUS
<1>7. ASSUME NEW b \in DOMAIN st, NEW x \in Slots
      PROVE  st2[b][x] = IF b = a /\ x = l THEN w ELSE st[b][x]
  BY <1>2
<1>8. \A b \in DOMAIN st2 : \A x \in Slots : IsVal(m, e, st2[b][x])
  BY <1>6, <1>7 DEF Roots
<1> QED
  BY <1>1, <1>5, <1>7, <1>8 DEF Roots

-----------------------------------------------------------------------------
(* The mutator *)

\* The mutator runs between collections, when no object is marked.
LEMMA MutatorFacts ==
    ASSUME Bounds, HeapInv, ~ Going
    PROVE  /\ Heap(mem, Ends, Starts, rem_limit, fresh, MAX_SPACES)
           /\ \A g, h : IsHead(mem, Ends, g, h) => mem[g][h] # Forwarded
           /\ Top \in DOMAIN frames /\ Top \in Nat /\ Top > 0
           /\ \A v \in Live : IsVal(mem, Ends, v)
           /\ DOMAIN frames = 1 .. Top
<1>1. Heap(mem, Ends, Starts, rem_limit, fresh, MAX_SPACES)
  BY HeapIs DEF Source
<1>2. ASSUME NEW g, NEW h, IsHead(mem, Ends, g, h) PROVE mem[g][h] # Forwarded
  <2>1. g \in Gens /\ g # MAX_SPACES
    BY <1>2, GenerationsAssumption DEF IsHead, Gens
  <2> QED BY <1>1, <1>2, <2>1 DEF Heap, FromOnly
<1>3. frames \in Seq([Slots -> Values]) /\ Len(frames) > 0
  BY DEF HeapInv, Roots
<1>4. Top \in DOMAIN frames /\ Top \in Nat /\ Top > 0 /\ DOMAIN frames = 1 .. Top
  BY <1>3 DEF Top
<1>5. frames[Top] \in [Slots -> Values]
  BY <1>3, <1>4, ElementOfSeq
<1>6. ASSUME NEW v \in Live PROVE IsVal(mem, Ends, v)
  <2>1. PICK x \in DOMAIN frames[Top] : v = frames[Top][x]
    BY DEF Live, Range
  <2> QED BY <1>4, <1>5, <2>1 DEF HeapInv, Roots
<1> QED
  BY <1>1, <1>2, <1>4, <1>6

\* What the mutator has access to.
LEMMA ScannedFacts ==
    ASSUME Bounds, HeapInv, NEW v \in LiveScanned, NEW f \in 1 .. HeaderIn(mem, v)[3]
    PROVE  /\ pc = "mutator" /\ ~ Going /\ Owned
           /\ Field(mem, Ends, v[2], v[3] - 1, v[3] + f - 1)
           /\ FieldIn(mem, v, f) = mem[v[2]][v[3] + f - 1]
           /\ IsVal(mem, Ends, FieldIn(mem, v, f))
<1>1. pc = "mutator" /\ IntoHeap(v) /\ HeaderIn(mem, v)[4] /\ v \in Live
  BY DEF LiveScanned
<1>2. ~ Going /\ Owned
  BY <1>1 DEF Going, Owned
<1>3. IsObj(mem, Ends, v)
  BY <1>1, <1>2, MutatorFacts, WordParts DEF IsVal, IntoHeap
<1>4. /\ IsHead(mem, Ends, v[2], v[3] - 1) /\ v[3] \in Nat
      /\ mem[v[2]][v[3] - 1] # Forwarded /\ HeaderIn(mem, v) = mem[v[2]][v[3] - 1]
  BY <1>2, <1>3, MutatorFacts DEF IsObj, HeaderIn
<1>5. HeaderIn(mem, v)[3] \in Nat
  BY <1>2, <1>4, MutatorFacts, HeadFacts DEF Heap
<1>6. v[3] + f - 1 \in (v[3] - 1) + 1 .. (v[3] - 1) + HeaderIn(mem, v)[3]
  BY <1>4, <1>5
<1>7. Field(mem, Ends, v[2], v[3] - 1, v[3] + f - 1)
  BY <1>1, <1>4, <1>6 DEF Field
<1> QED
  BY <1>1, <1>2, <1>7 DEF FieldIn, HeapInv, Fields

\* Only a frame changes.
LEMMA FrameStep ==
    ASSUME HeapInv, pc = "mutator", UNCHANGED <<policy, mem, cursors, fresh>>,
           Roots(mem, Ends, frames')
    PROVE  HeapInv'
<1>1. UNCHANGED <<created, next, limit, rem_limit, alloc, ti_limit, nalloc, pc, i, p, q>>
  BY DEF policy
<1>2. ~ Going /\ ~ Going' /\ Ends' = Ends /\ Starts' = Starts
  BY <1>1 DEF Going, Ends, Starts, Owned
<1> QED
  BY <1>1, <1>2, Quiet

\* A field is loaded into a slot.
LEMMA LoadInv ==
    ASSUME Bounds, HeapInv, NEW v \in LiveScanned, NEW f \in 1 .. HeaderIn(mem, v)[3],
           NEW l \in Slots, Load(l, v, f)
    PROVE  HeapInv'
<1>1. pc = "mutator" /\ IsVal(mem, Ends, FieldIn(mem, v, f)) /\ ~ Going
  BY ScannedFacts
<1>2. Top \in DOMAIN frames /\ Roots(mem, Ends, frames) /\ Sized(mem, Ends, rem_limit)
  BY <1>1, MutatorFacts DEF HeapInv, Heap
<1>3. Roots(mem, Ends, frames')
  BY <1>1, <1>2, SlotRoots DEF Load, WithSlot
<1> QED
  BY <1>1, <1>3, FrameStep DEF Load

\* A slot is cleared.
LEMMA DropInv ==
    ASSUME Bounds, HeapInv, NEW l \in Slots, Drop(l)
    PROVE  HeapInv'
<1>1. pc = "mutator" /\ IsVal(mem, Ends, Unboxed) /\ ~ Going
  BY DEF Drop, IsVal, Going
<1>2. Top \in DOMAIN frames /\ Roots(mem, Ends, frames) /\ Sized(mem, Ends, rem_limit)
  BY <1>1, MutatorFacts DEF HeapInv, Heap
<1>3. Roots(mem, Ends, frames')
  BY <1>1, <1>2, SlotRoots DEF Drop, WithSlot
<1> QED
  BY <1>1, <1>3, FrameStep DEF Drop

\* A frame is pushed.
LEMMA CallInv ==
    ASSUME Bounds, HeapInv, NEW v \in Live, Call(v)
    PROVE  HeapInv'
<1>1. pc = "mutator" /\ ~ Going
  BY DEF Call, Going
<1>2. /\ IsVal(mem, Ends, v) /\ Roots(mem, Ends, frames) /\ Sized(mem, Ends, rem_limit)
      /\ frames' = Append(frames, NewFrame(v)) /\ IsVal(mem, Ends, Unboxed)
  BY <1>1, MutatorFacts DEF HeapInv, Heap, Call, IsVal
<1>3. frames \in Seq([Slots -> Values]) /\ Top \in Nat /\ DOMAIN frames = 1 .. Top
  BY <1>1, <1>2, MutatorFacts DEF Roots
<1>4. NewFrame(v) \in [Slots -> Values] /\ NewFrame(v)[1] = v /\ NewFrame(v)[2] = Unboxed
  <2>1. v \in Values /\ Unboxed \in Values
    BY <1>2, RootValues
  <2> QED BY <2>1 DEF NewFrame, Slots
<1>5. /\ frames' \in Seq([Slots -> Values]) /\ Len(frames') = Top + 1
      /\ \A a \in 1 .. Top : frames'[a] = frames[a]
      /\ frames'[Top + 1] = NewFrame(v)
      /\ DOMAIN frames' = 1 .. Top + 1
  BY <1>2, <1>3, <1>4, AppendProperties DEF Top
<1>6. ASSUME NEW a \in DOMAIN frames', NEW l \in Slots PROVE IsVal(mem, Ends, frames'[a][l])
  <2>1. CASE a \in 1 .. Top
    BY <1>2, <1>3, <1>5, <2>1 DEF Roots
  <2>2. CASE a = Top + 1
    BY <1>2, <1>4, <1>5, <2>2 DEF Slots
  <2> QED BY <1>3, <1>5, <2>1, <2>2
<1>7. Roots(mem, Ends, frames')
  BY <1>3, <1>5, <1>6 DEF Roots
<1> QED
  BY <1>1, <1>7, FrameStep DEF Call

\* A frame is popped, and a slot of the caller gets the result.
LEMMA ReturnInv ==
    ASSUME Bounds, HeapInv, NEW v \in Live, NEW l \in Slots, Return(l, v)
    PROVE  HeapInv'
<1>1. pc = "mutator" /\ ~ Going /\ Top > 1
  BY DEF Return, Going
<1>2. IsVal(mem, Ends, v) /\ Roots(mem, Ends, frames) /\ Sized(mem, Ends, rem_limit)
  BY <1>1, MutatorFacts DEF HeapInv, Heap
<1>3. frames \in Seq([Slots -> Values]) /\ Top \in Nat /\ DOMAIN frames = 1 .. Top
  BY <1>1, <1>2, MutatorFacts DEF Roots
<1> DEFINE st == SubSeq(frames, 1, Top - 1)
<1>4. /\ st \in Seq([Slots -> Values]) /\ Len(st) = Top - 1
      /\ \A a \in 1 .. Top - 1 : st[a] = frames[a]
      /\ DOMAIN st = 1 .. Top - 1
  <2> DEFINE l1 == Top - 1
  <2>1. l1 \in Nat /\ l1 > 0 /\ 1 \in 1 .. Top + 1 /\ l1 \in 0 .. Top /\ Top = Len(frames)
    BY <1>1, <1>3 DEF Top
  <2>2. \A a \in 1 .. l1 : a \in 1 .. Top
    BY <1>3, <2>1
  <2> HIDE DEF l1
  <2> QED BY <1>3, <2>1, <2>2, SubSeqProperties DEF l1
<1>5. Roots(mem, Ends, st)
  <2>1. \A a \in 1 .. Top - 1 : a \in 1 .. Top
    BY <1>1, <1>3
  <2>2. Top - 1 > 0
    BY <1>1, <1>3
  <2> HIDE DEF st
  <2> QED BY <1>2, <1>3, <1>4, <2>1, <2>2 DEF Roots
<1>6. frames' = [st EXCEPT ![Top - 1][l] = v] /\ Top - 1 \in DOMAIN st
  BY <1>1, <1>3, <1>4 DEF Return
<1> HIDE DEF st
<1>7. Roots(mem, Ends, frames')
  BY <1>2, <1>5, <1>6, SlotRoots
<1> QED
  BY <1>1, <1>7, FrameStep DEF Return

\* garbage_collect is called: the descriptor of the nursery takes over.
LEMMA GcCallInv ==
    ASSUME Bounds, HeapInv, NEW n \in Requests, GcCall(n)
    PROVE  HeapInv'
<1>1. /\ pc = "mutator" /\ pc' = "create" /\ UNCHANGED <<rem_limit, mem, fresh, cursors, frames>>
      /\ limit' = [limit EXCEPT ![0] = ti_limit] /\ next' = [next EXCEPT ![0] = alloc]
  BY DEF GcCall, G!GcCall
<1>2. ~ Going /\ ~ Going' /\ Owned /\ ~ Owned'
  BY <1>1 DEF Going, Owned
<1>3. next = [g \in Gens |-> next[g]] /\ limit = [g \in Gens |-> limit[g]]
  BY PolicyFacts
<1>4. Ends' = Ends /\ Starts' = Starts
  BY <1>1, <1>2, <1>3 DEF Ends, Starts
<1>5. Roots(mem, Ends, frames')
  BY <1>1 DEF HeapInv
<1> QED
  BY <1>1, <1>2, <1>4, <1>5, Quiet

-----------------------------------------------------------------------------
(* Steps of the collector that move nothing *)

\* After a generation, the collector goes on to the next one or gives the empty
\* nursery back to the mutator.
LEMMA CheckInv ==
    ASSUME Bounds, HeapInv, Check
    PROVE  HeapInv'
<1>1. /\ pc = "check" /\ UNCHANGED <<next, limit, rem_limit, mem, fresh, cursors, frames>>
      /\ \/ pc' = "mutator" /\ alloc' = 0 /\ ti_limit' = limit[0]
         \/ pc' \in {"nurseryTooSmall", "create", "outOfGenerations"}
  BY DEF Check, G!Check, G!Resume, G!Return, G!NextGeneration
<1>2. ~ Going /\ ~ Going' /\ ~ Owned
  BY <1>1 DEF Going, Owned
<1>3. next[0] = 0
  <2>1. i \in Nat /\ 0 \in Gens /\ next[i] = 0 /\ \A g \in Gens : g < i => next[g] = 0
    BY <1>1, PolicyFacts
  <2> QED BY <2>1
<1>4. Ends' = Ends /\ Starts' = Starts
  <2>1. CASE pc' = "mutator" /\ alloc' = 0 /\ ti_limit' = limit[0]
    BY <1>1, <1>2, <1>3, <2>1 DEF Ends, Starts
  <2>2. CASE pc' \in {"nurseryTooSmall", "create", "outOfGenerations"}
    BY <1>1, <1>2, <2>2 DEF Ends, Starts, Owned
  <2> QED BY <1>1, <2>1, <2>2
<1>5. Roots(mem, Ends, frames')
  BY <1>1 DEF HeapInv
<1> QED
  BY <1>1, <1>2, <1>4, <1>5, Quiet

\* The remembered set is done: what remains of Covered is to be scanned.
LEMMA RemsetDoneInv ==
    ASSUME Bounds, HeapInv, RemsetDone
    PROVE  HeapInv'
<1>1. /\ pc = "remset" /\ q = rem_limit[i] /\ pc' = "copy"
      /\ UNCHANGED <<created, next, limit, rem_limit, alloc, ti_limit, nalloc, i, p, q>>
      /\ fr' = Top /\ j' = 1 /\ UNCHANGED <<mem, frames, s, fresh>>
  BY DEF RemsetDone, G!RemsetDone
<1>2. Going /\ Going' /\ ~ Owned /\ ~ Owned'
  BY <1>1 DEF Going, Owned
<1>3. Ends' = Ends /\ Starts' = Starts /\ Source' = Source
  BY <1>1, <1>2 DEF Ends, Starts, Source
<1>4. Objects' /\ Fields(mem, Ends)' /\ Entries(mem, Ends, Starts, rem_limit)'
  BY <1>1, <1>3 DEF HeapInv, Objects
<1>5. Counted' /\ Roots(mem, Ends, frames)'
  BY <1>1, <1>2, <1>3 DEF HeapInv, Counted
<1>6. frames \in Seq([Slots -> Values]) /\ Top \in Nat /\ Top > 0 /\ DOMAIN frames = 1 .. Top
  BY DEF HeapInv, Roots, Top
<1>7. Covered'
  <2>1. Remembered(mem, i, q, rem_limit[i]) = {}
    <3>1. i \in Gens /\ rem_limit[i] \in Nat
      BY PolicyFacts
    <3> QED BY <1>1, <3>1 DEF Remembered
  <2>2. Edge = p + 1 /\ Edge' = p + 1
    BY <1>1, <1>6 DEF Edge
  <2>3. \A g, o : Pending(g, o) => Pending(g, o)'
    BY <1>1, <2>1, <2>2 DEF Pending
  <2>4. \A g, h, o : Younger(mem, Ends, g, h, o)' <=> Younger(mem, Ends, g, h, o)
    BY <1>1, <1>3
  <2> QED BY <1>1, <1>2, <1>3, <2>3, <2>4 DEF HeapInv, Covered
<1>8. RootsDone'
  BY <1>1, <1>6 DEF RootsDone, Slots
<1>9. Cursors'
  <2>1. s = 0 /\ (p = next[i + 1] \/ IsHead(mem, Ends, i + 1, p))
    BY <1>1, <1>2 DEF HeapInv, Cursors
  <2>2. Top' = Top
    BY <1>1 DEF Top
  <2>3. fr' \in 0 .. Top' /\ s' \in Nat /\ j' \in Nat \ {0} /\ fr' > 0 /\ j' \in Slots /\ s' \in {0, p'}
    BY <1>1, <1>6, <2>1, <2>2 DEF Slots
  <2>4. p' = next'[i' + 1] \/ IsHead(mem', Ends', i' + 1, p')
    BY <1>1, <1>3, <2>1
  <2> QED BY <1>1, <2>3, <2>4 DEF Cursors
<1> QED
  BY <1>4, <1>5, <1>7, <1>8, <1>9 DEF HeapInv

\* The scan goes on to the next object: no field of a scannable one is left out.
LEMMA ScanNextInv ==
    ASSUME Bounds, HeapInv, ScanNext
    PROVE  HeapInv'
<1> DEFINE t == i + 1
           z == mem[t][s][3]
<1>1. /\ pc = "copy" /\ fr = 0 /\ s < next[t] /\ ~ (mem[t][s][4] /\ j <= z)
      /\ s' = s + 1 + z /\ j' = 1 /\ UNCHANGED <<policy, mem, frames, fr, fresh>>
      /\ UNCHANGED <<created, next, limit, rem_limit, alloc, ti_limit, nalloc, pc, i, p, q>>
  BY DEF ScanNext, Scanning, policy
<1>2. Going /\ Going' /\ ~ Owned /\ ~ Owned'
  BY <1>1 DEF Going, Owned
<1>3. Ends' = Ends /\ Starts' = Starts /\ Source' = Source
  BY <1>1, <1>2 DEF Ends, Starts, Source
<1>4. Objects' /\ Fields(mem, Ends)' /\ Entries(mem, Ends, Starts, rem_limit)'
  BY <1>1, <1>3 DEF HeapInv, Objects
<1>5. Counted' /\ Roots(mem, Ends, frames)'
  BY <1>1, <1>2, <1>3 DEF HeapInv, Counted
<1>6. /\ Heap(mem, Ends, Starts, rem_limit, fresh, i) /\ i \in Nat /\ i \in Gens
      /\ t \in Gens /\ Ends[t] = next[t] /\ next[t] \in Nat
      /\ Layout(mem, Ends, fresh) /\ Sized(mem, Ends, rem_limit) /\ fresh \in Nat
  BY <1>2, HeapIs, PolicyFacts, EndsFacts DEF Heap, Source
<1>7. IsHead(mem, Ends, t, s) /\ mem[t][s] # Forwarded /\ s \in Nat /\ j \in Nat \ {0}
  <2>1. IsHead(mem, Ends, t, s) /\ s \in Nat /\ j \in Nat \ {0}
    BY <1>1, <1>6 DEF HeapInv, Cursors
  <2>2. t # i
    BY <1>6
  <2> QED BY <1>6, <2>1, <2>2 DEF Heap, FromOnly
<1>8. /\ SizeAt(mem, t, s) = z /\ z \in Nat \ {0} /\ s + z < next[t]
      /\ s + 1 + z = next[t] \/ IsHead(mem, Ends, t, s + 1 + z)
      /\ mem[t][s][4] \in BOOLEAN
  <2>1. SizeAt(mem, t, s) = z /\ z \in Nat \ {0} /\ s + z < next[t] /\ mem[t][s][4] \in BOOLEAN
    BY <1>6, <1>7, HeadFacts
  <2>2. s + 1 + SizeAt(mem, t, s) = Ends[t] \/ IsHead(mem, Ends, t, s + 1 + SizeAt(mem, t, s))
    BY <1>6, <1>7 DEF Layout
  <2> QED BY <1>6, <2>1, <2>2
<1>9. Covered'
  <2>1. ASSUME NEW g, NEW h, NEW o, Younger(mem, Ends, g, h, o), mem[g][o][2] = i, Pending(g, o)
        PROVE  Pending(g, o)'
    <3>1. g = t /\ o >= s + j
      BY <1>1, <2>1 DEF Pending, Edge
    <3>2. Field(mem, Ends, t, h, o)
      BY <2>1, <3>1 DEF Younger
    <3>3. /\ h \in Nat /\ o \in Nat /\ IsHead(mem, Ends, t, h)
          /\ o \in h + 1 .. h + SizeAt(mem, t, h)
          /\ SizeAt(mem, t, h) \in Nat /\ SizeAt(mem, t, h) = mem[t][h][3] /\ o < next[t]
      BY <1>6, <3>2, FieldFacts
    <3>4. h # s
      BY <1>1, <1>7, <3>1, <3>2, <3>3 DEF Field
    <3>5. o \notin s .. s + z
      <4> SUFFICES ASSUME o \in s .. s + z PROVE FALSE
        OBVIOUS
      <4>1. o \in s .. s + SizeAt(mem, t, s) /\ o \in h .. h + SizeAt(mem, t, h)
        BY <1>8, <3>3
      <4>2. h = s
        BY <1>6, <1>7, <3>3, <4>1, Apart
      <4> QED BY <3>4, <4>2
    <3>6. o # s + 1 + z
      <4>1. ~ IsHead(mem, Ends, t, o)
        BY <1>6, <3>3 DEF Layout
      <4> QED BY <1>8, <3>3, <4>1
    <3>7. o >= s + 1 + z + 1
      <4> HIDE DEF z
      <4> QED BY <1>7, <1>8, <3>1, <3>3, <3>5, <3>6
    <3>8. Edge' = s + 1 + z + 1
      BY <1>1 DEF Edge
    <3> QED BY <1>1, <3>1, <3>7, <3>8 DEF Pending
  <2>2. \A g, h, o : Younger(mem, Ends, g, h, o)' <=> Younger(mem, Ends, g, h, o)
    BY <1>1, <1>3
  <2> QED BY <1>1, <1>2, <1>3, <2>1, <2>2 DEF HeapInv, Covered
<1>10. RootsDone'
  <2>1. \A a \in DOMAIN frames : a > 0
    BY DEF HeapInv, Roots
  <2> QED BY <1>1, <2>1 DEF HeapInv, RootsDone
<1>11. Cursors'
  <2>1. Top' = Top
    BY <1>1 DEF Top
  <2>2. fr' \in 0 .. Top' /\ s' \in Nat /\ j' \in Nat \ {0} /\ fr' = 0
    BY <1>1, <1>7, <1>8, <2>1 DEF HeapInv, Cursors
  <2>3. p' = next'[i' + 1] \/ IsHead(mem', Ends', i' + 1, p')
    BY <1>1, <1>2, <1>3 DEF HeapInv, Cursors
  <2>4. s' = next'[t] \/ (IsHead(mem', Ends', t, s') /\ j' <= mem'[t][s'][3] + 1)
    <3>1. CASE s + 1 + z = next[t]
      BY <1>1, <3>1
    <3>2. CASE IsHead(mem, Ends, t, s + 1 + z)
      <4> DEFINE s2 == s + 1 + z
      <4>1. mem[t][s2] # Forwarded
        BY <1>6, <3>2 DEF Heap, FromOnly
      <4>2. SizeAt(mem, t, s2) = mem[t][s2][3] /\ SizeAt(mem, t, s2) \in Nat
        BY <1>6, <3>2, <4>1, HeadFacts
      <4>3. IsHead(mem', Ends', t, s2) /\ mem' = mem
        BY <1>1, <1>3, <3>2
      <4> HIDE DEF s2
      <4> QED BY <1>1, <4>2, <4>3 DEF s2
    <3> QED BY <1>8, <3>1, <3>2
  <2> QED BY <1>1, <2>2, <2>3, <2>4 DEF Cursors
<1> QED
  BY <1>4, <1>5, <1>9, <1>10, <1>11 DEF HeapInv

\* Generation i has nothing that is still needed when the scan is done.
LEMMA NothingLeft ==
    ASSUME Bounds, HeapInv, EndGeneration
    PROVE  /\ \A g, h, o : Field(mem, Ends, g, h, o) /\ g # i => ~ Into(mem[g][o], i)
           /\ \A a \in DOMAIN frames : \A l \in Slots : ~ Into(frames[a][l], i)
           /\ \A g \in Gens : \A x \in Starts[g] .. rem_limit[g] - 1 : g # i => mem[g][x][2] # i
<1> DEFINE t == i + 1
<1>1. pc = "copy" /\ fr = 0 /\ ~ (s < next[t])
  BY DEF EndGeneration, Scanning
<1>2. Going /\ ~ Owned
  BY <1>1 DEF Going, Owned
<1>3. /\ Heap(mem, Ends, Starts, rem_limit, fresh, i) /\ i \in Nat /\ i \in Gens
      /\ t \in Gens /\ Ends[t] = next[t] /\ next[t] \in Nat
  BY <1>2, HeapIs, PolicyFacts, EndsFacts DEF Heap, Source
<1>4. s >= next[t] /\ s \in Nat /\ j \in Nat \ {0} /\ Edge = s + j
  BY <1>1, <1>3 DEF HeapInv, Cursors, Edge
<1>5. ASSUME NEW g, NEW h, NEW o, Field(mem, Ends, g, h, o), g # i, Into(mem[g][o], i)
      PROVE  FALSE
  <2>1. /\ g \in Gens /\ o \in Nat /\ o < Ends[g] /\ IsHead(mem, Ends, g, h)
        /\ h \in Nat /\ h < o
    BY <1>3, <1>5, FieldFacts
  <2>2. g > i
    <3>1. g < i => Ends[g] = 0
      BY <1>2, <2>1, PolicyFacts, EndsFacts
    <3> QED BY <1>3, <1>5, <2>1, <3>1 DEF Gens
  <2>3. Younger(mem, Ends, g, h, o) /\ mem[g][o][2] = i
    BY <1>5, <2>2 DEF Younger, Into
  <2>4. Pending(g, o)
    BY <1>2, <2>3 DEF HeapInv, Covered
  <2>5. g = t /\ o >= s + j
    BY <1>1, <1>4, <2>4 DEF Pending
  <2> QED BY <1>3, <1>4, <2>1, <2>5
<1>6. ASSUME NEW a \in DOMAIN frames, NEW l \in Slots PROVE ~ Into(frames[a][l], i)
  <2>1. a > fr
    BY <1>1 DEF HeapInv, Roots
  <2> QED BY <1>1, <2>1 DEF HeapInv, RootsDone
<1>7. ASSUME NEW g \in Gens, NEW x \in Starts[g] .. rem_limit[g] - 1, g # i, mem[g][x][2] = i
      PROVE  FALSE
  <2>1. Entry(mem, Ends, g, mem[g][x])
    BY <1>7 DEF HeapInv, Entries
  <2>2. i >= g
    BY <1>7, <2>1 DEF Entry
  <2>3. g < i
    BY <1>3, <1>7, <2>2 DEF Gens
  <2>4. Starts[g] = rem_limit[g] /\ rem_limit[g] \in Nat
    BY <1>2, <2>3, PolicyFacts, EndsFacts
  <2> QED BY <1>7, <2>4
<1> QED
  BY <1>5, <1>6, <1>7

\* Generation i is emptied.
LEMMA EndGenerationInv ==
    ASSUME Bounds, Bounds', HeapInv, EndGeneration
    PROVE  HeapInv'
<1> DEFINE t == i + 1
<1>1. /\ pc = "copy" /\ fr = 0 /\ pc' = "check"
      /\ next' = [next EXCEPT ![i] = 0] /\ limit' = [limit EXCEPT ![i] = rem_limit[i]]
      /\ mem' = [mem EXCEPT ![i] = Space(rem_limit[i])] /\ s' = 0
      /\ UNCHANGED <<rem_limit, frames, fr, j, fresh, i>>
  BY DEF EndGeneration, G!EndGeneration
<1>2. Going /\ ~ Owned /\ ~ Going' /\ ~ Owned'
  BY <1>1 DEF Going, Owned
<1>3. /\ Heap(mem, Ends, Starts, rem_limit, fresh, i) /\ i \in Nat /\ i \in Gens
      /\ DOMAIN mem = Gens /\ DOMAIN Ends = Gens
  BY <1>2, HeapIs, PolicyFacts, EndsFacts DEF Heap, Source, Sized
<1>a. /\ fresh \in Nat /\ Sized(mem, Ends, rem_limit) /\ Layout(mem, Ends, fresh)
      /\ Unique(mem, Ends) /\ FromOnly(mem, Ends, i) /\ Tagged(mem, rem_limit)
      /\ Fields(mem, Ends) /\ Entries(mem, Ends, Starts, rem_limit)
  BY <1>3 DEF Heap
<1>4. /\ \A g, h, o : Field(mem, Ends, g, h, o) /\ g # i => ~ Into(mem[g][o], i)
      /\ \A a \in DOMAIN frames : \A l \in Slots : ~ Into(frames[a][l], i)
      /\ \A g \in Gens : \A x \in Starts[g] .. rem_limit[g] - 1 : g # i => mem[g][x][2] # i
  BY NothingLeft
<1>5. /\ Ends'[i] = 0 /\ \A g \in Gens : g # i => Ends'[g] = Ends[g]
      /\ Starts'[i] = rem_limit[i] /\ \A g \in Gens : g # i => Starts'[g] = Starts[g]
  <2>1. \A g \in Gens : Ends'[g] = next'[g] /\ Starts'[g] = limit'[g]
    BY <1>2 DEF Ends, Starts
  <2>2. \A g \in Gens : Ends[g] = next[g] /\ Starts[g] = limit[g]
    BY <1>2, EndsFacts
  <2>3. next = [g \in Gens |-> next[g]] /\ limit = [g \in Gens |-> limit[g]]
    BY PolicyFacts
  <2> QED BY <1>1, <1>3, <2>1, <2>2, <2>3
<1>6. /\ DOMAIN mem' = Gens /\ mem'[i] = Space(rem_limit[i])
      /\ \A g \in Gens : g # i => mem'[g] = mem[g]
  BY <1>1, <1>3
<1>7. Sized(mem', Ends', rem_limit)
  <2> SUFFICES ASSUME NEW g \in Gens
               PROVE  /\ Ends'[g] \in Nat /\ rem_limit[g] \in Nat /\ Ends'[g] <= rem_limit[g]
                      /\ DOMAIN mem'[g] = 0 .. rem_limit[g] - 1
    BY <1>6 DEF Sized
  <2>1. CASE g = i
    BY <1>5, <1>6, <1>a, <2>1 DEF Sized, Space
  <2>2. CASE g # i
    BY <1>5, <1>6, <1>a, <2>2 DEF Sized
  <2> QED BY <2>1, <2>2
<1>8. /\ \A g, h : IsHead(mem', Ends', g, h) <=> IsHead(mem, Ends, g, h) /\ g # i
      /\ \A g, h : IsHead(mem', Ends', g, h) => mem'[g][h] = mem[g][h] /\ mem[g][h] # Forwarded
  <2>1. ASSUME NEW g, NEW h PROVE IsHead(mem', Ends', g, h) <=> IsHead(mem, Ends, g, h) /\ g # i
    <3>1. CASE g = i
      BY <1>5, <3>1 DEF IsHead
    <3>2. CASE g # i
      BY <1>5, <1>6, <3>2 DEF IsHead
    <3> QED BY <3>1, <3>2
  <2>2. ASSUME NEW g, NEW h, IsHead(mem', Ends', g, h)
        PROVE  mem'[g][h] = mem[g][h] /\ mem[g][h] # Forwarded
    <3>1. IsHead(mem, Ends, g, h) /\ g # i /\ g \in Gens
      BY <2>1, <2>2 DEF IsHead
    <3> QED BY <1>6, <1>a, <3>1 DEF FromOnly
  <2> QED BY <2>1, <2>2
<1>9. ASSUME NEW g, NEW h, IsHead(mem', Ends', g, h)
      PROVE  /\ SizeAt(mem', g, h) = SizeAt(mem, g, h) /\ mem'[g][h] = mem[g][h]
             /\ mem[g][h] # Forwarded /\ IsHead(mem, Ends, g, h) /\ g # i /\ g \in Gens
             /\ Ends'[g] = Ends[g]
  BY <1>5, <1>8, <1>9 DEF SizeAt, IsHead
<1>10. Layout(mem', Ends', fresh)
  <2> SUFFICES ASSUME NEW g, NEW h, IsHead(mem', Ends', g, h)
               PROVE  /\ SizeAt(mem', g, h) \in Nat \ {0} /\ h + SizeAt(mem', g, h) < Ends'[g]
                      /\ \A o \in h + 1 .. h + SizeAt(mem', g, h) : ~ IsHead(mem', Ends', g, o)
                      /\ \/ h + 1 + SizeAt(mem', g, h) = Ends'[g]
                         \/ IsHead(mem', Ends', g, h + 1 + SizeAt(mem', g, h))
                      /\ mem'[g][h] = Forwarded \/ mem'[g][h] \in Headers(fresh)
    BY DEF Layout
  <2>1. /\ SizeAt(mem', g, h) = SizeAt(mem, g, h) /\ mem'[g][h] = mem[g][h]
        /\ IsHead(mem, Ends, g, h) /\ g # i /\ Ends'[g] = Ends[g]
    BY <1>9
  <2> QED BY <1>8, <1>a, <2>1 DEF Layout
<1>11. Unique(mem', Ends')
  BY <1>9, <1>a DEF Unique
<1>12. FromOnly(mem', Ends', MAX_SPACES)
  BY <1>8 DEF FromOnly
<1>13. Tagged(mem', rem_limit)
  <2> SUFFICES ASSUME NEW g \in Gens, NEW o \in 0 .. rem_limit[g] - 1
               PROVE  mem'[g][o][1] \in Tags
    BY DEF Tagged
  <2>1. CASE g = i
    BY <1>6, <2>1, WordParts DEF Space, Tags
  <2>2. CASE g # i
    BY <1>6, <1>a, <2>2 DEF Tagged
  <2> QED BY <2>1, <2>2
<1>14. Objects'
  <2>1. Source' = MAX_SPACES
    BY <1>2 DEF Source
  <2> QED BY <1>1, <1>7, <1>10, <1>11, <1>12, <1>13, <1>a, <2>1 DEF Objects
<1>15. \A v : IsVal(mem, Ends, v) /\ ~ Into(v, i) => IsVal(mem', Ends', v)
  BY <1>8 DEF IsVal, IsObj, Into
<1>16. \A g, h, o : Field(mem', Ends', g, h, o) =>
            Field(mem, Ends, g, h, o) /\ g # i /\ mem'[g][o] = mem[g][o]
  <2> SUFFICES ASSUME NEW g, NEW h, NEW o, Field(mem', Ends', g, h, o)
               PROVE  Field(mem, Ends, g, h, o) /\ g # i /\ mem'[g][o] = mem[g][o]
    OBVIOUS
  <2>1. IsHead(mem', Ends', g, h)
    BY DEF Field
  <2>2. /\ mem'[g][h] = mem[g][h] /\ mem[g][h] # Forwarded /\ IsHead(mem, Ends, g, h)
        /\ g # i /\ g \in Gens
    BY <1>9, <2>1
  <2> QED BY <1>6, <2>2 DEF Field
<1>17. Fields(mem', Ends')
  BY <1>4, <1>15, <1>16, <1>a DEF Fields
<1>18. Entries(mem', Ends', Starts', rem_limit)
  <2> SUFFICES ASSUME NEW g \in Gens, NEW x \in Starts'[g] .. rem_limit[g] - 1
               PROVE  Entry(mem', Ends', g, mem'[g][x])
    BY DEF Entries
  <2>1. g # i
    BY <1>5, <1>a DEF Sized
  <2> DEFINE c == mem[g][x]
  <2>2. x \in Starts[g] .. rem_limit[g] - 1 /\ mem'[g][x] = c
    BY <1>5, <1>6, <2>1
  <2>3. c[2] # i /\ Entry(mem, Ends, g, c)
    BY <1>4, <1>a, <2>1, <2>2 DEF Entries
  <2>4. PICK h : /\ IsHead(mem, Ends, c[2], h) /\ (mem[c[2]][h] = Forwarded \/ mem[c[2]][h][4])
                 /\ c[3] \in h + 1 .. h + SizeAt(mem, c[2], h)
    BY <2>3 DEF Entry
  <2>5. IsHead(mem', Ends', c[2], h)
    BY <1>8, <2>3, <2>4
  <2>6. mem'[c[2]][h][4] /\ c[3] \in h + 1 .. h + SizeAt(mem', c[2], h)
    BY <1>9, <2>4, <2>5
  <2> HIDE DEF c
  <2>7. Entry(mem', Ends', g, c)
    BY <2>3, <2>5, <2>6 DEF Entry
  <2> QED BY <2>2, <2>7
<1>19. Roots(mem', Ends', frames)
  BY <1>4, <1>15 DEF HeapInv, Roots
<1>20. Covered'
  <2> SUFFICES ASSUME NEW g, NEW h, NEW o, Younger(mem', Ends', g, h, o)
               PROVE  Cell(g, o) \in Remembered(mem', mem'[g][o][2], Starts'[mem'[g][o][2]],
                                                rem_limit'[mem'[g][o][2]])
    BY <1>2 DEF Covered
  <2>1. /\ Field(mem, Ends, g, h, o) /\ g # i /\ mem'[g][o] = mem[g][o]
        /\ IntoHeap(mem[g][o]) /\ mem[g][o][2] < g
    BY <1>16 DEF Younger
  <2> DEFINE y == mem[g][o][2]
  <2>2. y # i /\ y \in Gens
    <3>1. IsVal(mem, Ends, mem[g][o])
      BY <1>a, <2>1 DEF Fields
    <3> QED BY <1>4, <2>1, <3>1, WordParts DEF Into, IsVal, IsObj, IsHead, IntoHeap
  <2>3. Cell(g, o) \in Remembered(mem, y, Starts[y], rem_limit[y])
    BY <2>1, <2>2 DEF HeapInv, Covered, Younger
  <2> HIDE DEF y
  <2>4. Remembered(mem', y, Starts'[y], rem_limit'[y]) = Remembered(mem, y, Starts[y], rem_limit[y])
    BY <1>1, <1>5, <1>6, <2>2 DEF Remembered
  <2> QED BY <2>1, <2>3, <2>4 DEF y
<1>21. Counted' /\ RootsDone'
  BY <1>1, <1>2 DEF Counted, RootsDone
<1>22. Cursors'
  <2>1. Top' \in Nat
    BY <1>1 DEF HeapInv, Roots, Top
  <2> QED BY <1>1, <1>2, <2>1 DEF HeapInv, Cursors
<1> QED
  BY <1>1, <1>14, <1>17, <1>18, <1>19, <1>20, <1>21, <1>22 DEF HeapInv

\* A step after which generation i is collected: generation i+1 is new and
\* empty, or it is as it was.
RoundBegins ==
    /\ ~ Going /\ ~ Owned /\ ~ Owned' /\ pc' = "remset" /\ Ends' = Ends
    /\ p' = next[i + 1] /\ q' = limit[i] /\ UNCHANGED <<i, frames, cursors, fresh>>
    /\ DOMAIN mem' = Gens
    /\ \A g \in Gens : g # i + 1 => /\ mem'[g] = mem[g] /\ rem_limit'[g] = rem_limit[g]
                                    /\ Starts'[g] = Starts[g]
    /\ \/ mem' = mem /\ Starts' = Starts /\ rem_limit' = rem_limit
       \/ /\ Ends[i + 1] = 0 /\ rem_limit'[i + 1] \in Nat
          /\ Starts'[i + 1] = rem_limit'[i + 1]
          /\ mem'[i + 1] = Space(rem_limit'[i + 1])

\* So it is when garbage_collect goes on with generation i.
LEMMA CreatedSpace ==
    ASSUME Bounds, Bounds', HeapInv, Create, pc' = "remset"
    PROVE  RoundBegins
<1> DEFINE t == i + 1
<1>1. /\ pc = "create" /\ p' = next[t] /\ q' = limit[i]
      /\ UNCHANGED <<i, frames, cursors, fresh>>
      /\ mem' = IF created' = created THEN mem
                ELSE [mem EXCEPT ![t] = Space(rem_limit'[t])]
  BY DEF Create, G!Create
<1>2. ~ Going /\ ~ Owned /\ ~ Owned' /\ Going'
  BY <1>1 DEF Going, Owned
<1>3. /\ i \in Gens /\ t \in Gens /\ DOMAIN mem = Gens
      /\ next = [g \in Gens |-> next[g]] /\ limit = [g \in Gens |-> limit[g]]
      /\ rem_limit = [g \in Gens |-> rem_limit[g]]
  BY PolicyFacts DEF HeapInv, Objects, Sized
<1>4. /\ \A g \in Gens : Ends'[g] = next'[g] /\ Starts'[g] = limit'[g]
      /\ \A g \in Gens : Ends[g] = next[g] /\ Starts[g] = limit[g]
      /\ DOMAIN Ends = Gens /\ DOMAIN Ends' = Gens
  BY <1>2 DEF Ends, Starts
<1>5. CASE t \in created /\ UNCHANGED <<created, next, limit, rem_limit>>
  <2>1. mem' = mem
    BY <1>1, <1>5
  <2>2. Ends' = Ends /\ Starts' = Starts
    BY <1>2, <1>5 DEF Ends, Starts
  <2> QED BY <1>1, <1>2, <1>3, <1>5, <2>1, <2>2 DEF RoundBegins
<1>6. CASE /\ t \notin created /\ created' = created \cup {t}
           /\ next' = [next EXCEPT ![t] = 0]
           /\ limit' = [limit EXCEPT ![t] = RATIO * rem_limit[i]]
           /\ rem_limit' = [rem_limit EXCEPT ![t] = RATIO * rem_limit[i]]
  <2>1. next[t] = 0
    BY <1>3, <1>6, PolicyFacts
  <2>2. created' # created /\ mem' = [mem EXCEPT ![t] = Space(rem_limit'[t])]
    BY <1>1, <1>6
  <2>3. next' = next
    BY <1>3, <1>6, <2>1
  <2>4. Ends' = Ends
    BY <1>2, <2>3 DEF Ends
  <2>5. rem_limit'[t] \in Nat
    BY <1>3 DEF Bounds
  <2>6. limit'[t] = rem_limit'[t]
    BY <1>3, <1>6
  <2>7. \A g \in Gens : g # t => limit'[g] = limit[g] /\ rem_limit'[g] = rem_limit[g] /\ mem'[g] = mem[g]
    BY <1>3, <1>6, <2>2
  <2>8. DOMAIN mem' = Gens /\ mem'[t] = Space(rem_limit'[t])
    BY <1>3, <2>2
  <2> QED BY <1>1, <1>2, <1>3, <1>4, <2>1, <2>4, <2>5, <2>6, <2>7, <2>8 DEF RoundBegins
<1> QED
  BY <1>1, <1>5, <1>6 DEF Create, G!Create, G!CreateSpace

\* Then nothing is lost.
LEMMA RoundInv ==
    ASSUME Bounds, HeapInv, RoundBegins
    PROVE  HeapInv'
<1> DEFINE t == i + 1
<1>1. /\ ~ Going /\ ~ Owned /\ ~ Owned' /\ pc' = "remset" /\ Going' /\ Ends' = Ends
      /\ p' = next[t] /\ q' = limit[i] /\ UNCHANGED <<i, frames, cursors, fresh>>
      /\ DOMAIN mem' = Gens
      /\ \A g \in Gens : g # t => /\ mem'[g] = mem[g] /\ rem_limit'[g] = rem_limit[g]
                                  /\ Starts'[g] = Starts[g]
      /\ \/ mem' = mem /\ Starts' = Starts /\ rem_limit' = rem_limit
         \/ /\ Ends[t] = 0 /\ rem_limit'[t] \in Nat
            /\ Starts'[t] = rem_limit'[t]
            /\ mem'[t] = Space(rem_limit'[t])
  BY DEF RoundBegins, Going
<1>2. /\ Heap(mem, Ends, Starts, rem_limit, fresh, MAX_SPACES)
      /\ \A g, h : IsHead(mem, Ends, g, h) => mem[g][h] # Forwarded
  BY <1>1, MutatorFacts
<1>3. /\ fresh \in Nat /\ Sized(mem, Ends, rem_limit) /\ Layout(mem, Ends, fresh)
      /\ Unique(mem, Ends) /\ Tagged(mem, rem_limit)
      /\ Fields(mem, Ends) /\ Entries(mem, Ends, Starts, rem_limit)
  BY <1>2 DEF Heap
<1>4. i \in Gens /\ t \in Gens /\ t # i /\ i \in Nat /\ next[t] \in Nat /\ Ends[t] = next[t]
  BY <1>1, PolicyFacts, EndsFacts
<1>5. FromOnly(mem, Ends, i)
  BY <1>2 DEF FromOnly
<1>6. Sized(mem', Ends, rem_limit')
  <2>1. CASE mem' = mem /\ rem_limit' = rem_limit
    BY <1>3, <2>1
  <2>2. CASE Ends[t] = 0 /\ rem_limit'[t] \in Nat /\ mem'[t] = Space(rem_limit'[t])
    <3> SUFFICES ASSUME NEW g \in Gens
                 PROVE  /\ Ends[g] \in Nat /\ rem_limit'[g] \in Nat /\ Ends[g] <= rem_limit'[g]
                        /\ DOMAIN mem'[g] = 0 .. rem_limit'[g] - 1
      BY <1>1 DEF Sized
    <3>1. CASE g = t
      BY <2>2, <3>1 DEF Space
    <3>2. CASE g # t
      BY <1>1, <1>3, <3>2 DEF Sized
    <3> QED BY <3>1, <3>2
  <2> QED BY <1>1, <2>1, <2>2
<1>7. Keeps(mem, mem', Ends)
  <2>1. CASE mem' = mem
    BY <2>1 DEF Keeps
  <2>2. CASE Ends[t] = 0
    BY <1>1, <2>2 DEF Keeps, IsHead
  <2> QED BY <1>1, <2>1, <2>2
<1>8. /\ \A w : IsVal(mem', Ends, w) <=> IsVal(mem, Ends, w)
      /\ \A g, h, o : Field(mem', Ends, g, h, o) <=> Field(mem, Ends, g, h, o)
      /\ \A g, c : Entry(mem, Ends, g, c) => Entry(mem', Ends, g, c)
      /\ FromOnly(mem', Ends, i)
      /\ \A g : Copied(mem', Ends, g) = Copied(mem, Ends, g)
  BY <1>5, <1>7, KeptObjects
<1>9. Layout(mem', Ends, fresh) /\ Unique(mem', Ends)
  BY <1>3, <1>5, <1>7, KeptLayout
<1>10. Tagged(mem', rem_limit')
  <2>1. CASE mem' = mem /\ rem_limit' = rem_limit
    BY <1>3, <2>1
  <2>2. CASE mem'[t] = Space(rem_limit'[t])
    <3> SUFFICES ASSUME NEW g \in Gens, NEW o \in 0 .. rem_limit'[g] - 1
                 PROVE  mem'[g][o][1] \in Tags
      BY DEF Tagged
    <3>1. CASE g = t
      BY <2>2, <3>1, WordParts DEF Space, Tags
    <3>2. CASE g # t
      BY <1>1, <1>3, <3>2 DEF Tagged
    <3> QED BY <3>1, <3>2
  <2> QED BY <1>1, <2>1, <2>2
<1>11. Objects'
  <2>1. Source' = i
    BY <1>1 DEF Source
  <2> QED BY <1>1, <1>3, <1>6, <1>8, <1>9, <1>10, <2>1 DEF Objects
<1>12. \A g, h, o : Field(mem, Ends, g, h, o) => g \in Gens /\ mem'[g][o] = mem[g][o]
  <2> SUFFICES ASSUME NEW g, NEW h, NEW o, Field(mem, Ends, g, h, o)
               PROVE  g \in Gens /\ mem'[g][o] = mem[g][o]
    OBVIOUS
  <2>1. g \in Gens /\ o \in Nat /\ o < Ends[g]
    BY <1>2, FieldFacts
  <2>2. Ends[t] = 0 => g # t
    BY <2>1
  <2> QED BY <1>1, <2>1, <2>2
<1>13. Fields(mem', Ends)
  BY <1>3, <1>8, <1>12 DEF Fields
<1>14. Entries(mem', Ends, Starts', rem_limit')
  <2> SUFFICES ASSUME NEW g \in Gens, NEW x \in Starts'[g] .. rem_limit'[g] - 1
               PROVE  Entry(mem', Ends, g, mem'[g][x])
    BY DEF Entries
  <2>1. CASE mem' = mem /\ Starts' = Starts /\ rem_limit' = rem_limit
    BY <1>3, <1>8, <2>1 DEF Entries
  <2>2. CASE rem_limit'[t] \in Nat /\ Starts'[t] = rem_limit'[t]
    <3>1. g # t
      BY <2>2
    <3>2. mem'[g][x] = mem[g][x] /\ x \in Starts[g] .. rem_limit[g] - 1
      BY <1>1, <3>1
    <3> QED BY <1>3, <1>8, <3>2 DEF Entries
  <2> QED BY <1>1, <2>1, <2>2
<1>15. Counted'
  <2>1. Copied(mem', Ends, i) = {}
    BY <1>2, <1>8 DEF Copied
  <2>2. Cardinality(Copied(mem', Ends, i)) = 0
    BY <2>1, FS_EmptySet
  <2>3. next'[t] = next[t]
    BY <1>1, <1>4 DEF Ends
  <2> QED BY <1>1, <1>4, <2>2, <2>3 DEF Counted
<1>16. Roots(mem', Ends, frames)
  BY <1>8 DEF HeapInv, Roots
<1>17. Covered'
  <2> SUFFICES ASSUME NEW g, NEW h, NEW o, Younger(mem', Ends', g, h, o)
               PROVE  IF mem'[g][o][2] = i THEN Pending(g, o)'
                      ELSE Cell(g, o) \in Remembered(mem', mem'[g][o][2],
                                             Starts'[mem'[g][o][2]], rem_limit'[mem'[g][o][2]])
    BY <1>1 DEF Covered
  <2>1. /\ Younger(mem, Ends, g, h, o) /\ mem'[g][o] = mem[g][o]
        /\ Field(mem, Ends, g, h, o) /\ IntoHeap(mem[g][o])
    BY <1>1, <1>8, <1>12 DEF Younger
  <2> DEFINE y == mem[g][o][2]
  <2>2. Cell(g, o) \in Remembered(mem, y, Starts[y], rem_limit[y])
    BY <1>1, <2>1 DEF HeapInv, Covered
  <2>3. y \in Gens /\ Ends[y] # 0
    <3>1. IsObj(mem, Ends, mem[g][o])
      BY <1>3, <2>1, WordParts DEF Fields, IsVal, IntoHeap
    <3> QED BY <3>1 DEF IsObj, IsHead
  <2>4. mem'[y] = mem[y] /\ Starts'[y] = Starts[y] /\ rem_limit'[y] = rem_limit[y]
    BY <1>1, <2>3
  <2>5. CASE y = i
    <3>1. Starts[i] = limit[i] /\ pc' = "remset"
      BY <1>1, <1>1, <1>4, EndsFacts
    <3>2. Cell(g, o) \in Remembered(mem', i, q', rem_limit'[i])
      BY <1>1, <2>2, <2>4, <2>5, <3>1 DEF Remembered
    <3> QED BY <1>1, <2>1, <2>5, <3>1, <3>2 DEF Pending
  <2>6. CASE y # i
    BY <2>1, <2>2, <2>4, <2>6 DEF Remembered
  <2> QED BY <2>5, <2>6
<1>18. RootsDone'
  BY <1>1 DEF RootsDone
<1>19. Cursors'
  <2>1. Top' \in Nat
    BY <1>1 DEF HeapInv, Roots, Top
  <2>2. fr = 0 /\ s = 0 /\ j \in Nat \ {0} /\ UNCHANGED <<fr, s, j>>
    BY <1>1 DEF HeapInv, Cursors, Going, cursors
  <2>3. p' = next'[i' + 1]
    BY <1>1, <1>4 DEF Ends
  <2> QED BY <1>1, <2>1, <2>2, <2>3 DEF Cursors
<1> QED
  BY <1>1, <1>11, <1>13, <1>14, <1>15, <1>16, <1>17, <1>18, <1>19 DEF HeapInv

\* A collection of generation i begins.
LEMMA CreateInv ==
    ASSUME Bounds, Bounds', HeapInv, Create
    PROVE  HeapInv'
<1>1. CASE pc' = "remset"
  BY <1>1, CreatedSpace, RoundInv
<1>2. CASE pc' # "remset"
  <2>1. /\ pc = "create" /\ pc' \in {"remsetAssertion", "noMemory"}
        /\ UNCHANGED <<created, next, limit, rem_limit, mem, fresh, cursors, frames>>
    BY <1>2 DEF Create, G!Create, G!CreateSpace
  <2>2. ~ Going /\ ~ Going' /\ ~ Owned /\ ~ Owned'
    BY <2>1 DEF Going, Owned
  <2>3. Ends' = Ends /\ Starts' = Starts
    BY <2>1, <2>2 DEF Ends, Starts
  <2>4. Roots(mem, Ends, frames')
    BY <2>1 DEF HeapInv
  <2> QED BY <2>1, <2>2, <2>3, <2>4, Quiet
<1> QED
  BY <1>1, <1>2

-----------------------------------------------------------------------------
(* The write barrier, and new objects *)

\* The compiler stores a pointer into the nursery, or into a generation that is
\* not younger than the one it stores it in.
StoresYoung == \A g, h \in Gens : MayStore(g, h) => h = 0 \/ h >= g

\* The policy of the words that the write barrier takes.
LEMMA StorePolicy ==
    ASSUME Bounds, NEW v, NEW f, NEW val, Store(v, f, val)
    PROVE  /\ pc = "mutator" /\ UNCHANGED <<next, limit, rem_limit, alloc, i, p, q>>
           /\ UNCHANGED <<frames, cursors, fresh>>
           /\ alloc < ti_limit /\ IsPtr(val) =>
                 /\ pc' = "mutator" /\ ti_limit' = ti_limit - 1
                 /\ mem' = Written(Written(mem, v[2], v[3] + f - 1, val), 0, ti_limit - 1,
                                   Cell(v[2], v[3] + f - 1))
           /\ alloc < ti_limit /\ ~ IsPtr(val) =>
                 /\ pc' = "mutator" /\ ti_limit' = ti_limit
                 /\ mem' = Written(mem, v[2], v[3] + f - 1, val)
           /\ ~ (alloc < ti_limit) =>
                 pc' = "modifyAssertion" /\ ti_limit' = ti_limit /\ mem' = mem
<1>1. alloc \in Nat /\ ti_limit \in Nat
  BY PolicyFacts
<1>2. CASE IsPtr(val)
  BY <1>1, <1>2 DEF Store, G!Modify
<1>3. CASE ~ IsPtr(val)
  BY <1>1, <1>3 DEF Store
<1> QED
  BY <1>2, <1>3

\* A store keeps the invariant.
LEMMA StoreInv ==
    ASSUME StoresYoung, Bounds, HeapInv, NEW v \in LiveScanned,
           NEW f \in 1 .. HeaderIn(mem, v)[3], NEW val \in Live \cup {Unboxed, Out},
           Store(v, f, val)
    PROVE  HeapInv'
<1> DEFINE g == v[2]
           o == v[3] + f - 1
           h0 == v[3] - 1
           m1 == Written(mem, g, o, val)
<1>1. /\ pc = "mutator" /\ UNCHANGED <<next, limit, rem_limit, alloc, i, p, q>>
      /\ UNCHANGED <<frames, cursors, fresh>>
  BY StorePolicy
<1>2. /\ ~ Going /\ Owned /\ Field(mem, Ends, g, h0, o)
  BY ScannedFacts
<1>3. Heap(mem, Ends, Starts, rem_limit, fresh, MAX_SPACES) /\ IsVal(mem, Ends, val)
  BY <1>2, MutatorFacts DEF IsVal
<1>a. IntoHeap(val) => MayStore(g, val[2]) /\ IsPtr(val)
  BY DEF Store, IsPtr, IntoHeap
<1>4. /\ Heap(m1, Ends, Starts, rem_limit, fresh, MAX_SPACES) /\ SameObjects(mem, m1, Ends)
      /\ Differs(mem, m1, rem_limit, g, o, val)
  BY <1>2, <1>3, WriteHeap
<1>5. /\ g \in Gens /\ o \in Nat /\ o < Ends[g] /\ IsHead(mem, Ends, g, h0)
      /\ o \in h0 + 1 .. h0 + SizeAt(mem, g, h0) /\ o < Starts[g]
      /\ Starts[g] \in Nat /\ mem[g][h0][4]
  BY <1>2, <1>3, FieldFacts DEF Field
<1>6. /\ 0 \in Gens /\ Ends[0] = alloc /\ Starts[0] = ti_limit
      /\ alloc \in Nat /\ ti_limit \in Nat /\ ti_limit <= rem_limit[0] /\ rem_limit[0] \in Nat
      /\ DOMAIN Starts = Gens
  BY <1>2, PolicyFacts, EndsFacts
<1> HIDE DEF m1, g, o, h0
<1>7. CASE ~ (alloc < ti_limit)
  <2>1. pc' = "modifyAssertion" /\ ti_limit' = ti_limit /\ mem' = mem
    BY <1>7, StorePolicy
  <2>2. ~ Going' /\ Ends' = Ends /\ Starts' = Starts
    BY <1>1, <1>2, <2>1 DEF Going, Ends, Starts, Owned
  <2>3. Roots(mem, Ends, frames')
    BY <1>1 DEF HeapInv
  <2> QED BY <1>1, <1>2, <2>1, <2>2, <2>3, Quiet
<1>8. ASSUME pc' = "mutator", Ends' = Ends,
             Heap(mem', Ends, Starts', rem_limit, fresh, MAX_SPACES), SameObjects(mem, mem', Ends),
             mem'[g][o] = val,
             \A g2 \in Gens : \A o2 \in 0 .. Ends[g2] - 1 : g2 # g \/ o2 # o =>
                 mem'[g2][o2] = mem[g2][o2],
             \A y \in Gens : Remembered(mem, y, Starts[y], rem_limit[y]) \subseteq
                             Remembered(mem', y, Starts'[y], rem_limit[y]),
             IsPtr(val) => Cell(g, o) \in Remembered(mem', 0, Starts'[0], rem_limit[0])
      PROVE  HeapInv'
  <2>1. ~ Going' /\ Source' = MAX_SPACES
    BY <1>8 DEF Going, Source
  <2>2. Objects' /\ Fields(mem, Ends)' /\ Entries(mem, Ends, Starts, rem_limit)'
    BY <1>1, <1>8, <2>1 DEF Objects, Heap
  <2>3. Counted' /\ RootsDone'
    BY <1>8, <2>1 DEF Counted, RootsDone
  <2>4. Roots(mem, Ends, frames)'
    BY <1>1, <1>8 DEF HeapInv, Roots, SameObjects
  <2>5. Cursors'
    <3>1. Top' \in Nat
      BY <1>1 DEF HeapInv, Roots, Top
    <3>2. fr = 0 /\ s = 0 /\ j \in Nat \ {0} /\ UNCHANGED <<fr, s, j>>
      BY <1>1 DEF HeapInv, Cursors, cursors
    <3> QED BY <1>8, <2>1, <3>1, <3>2 DEF Cursors
  <2>6. Covered'
    <3> SUFFICES ASSUME NEW g2, NEW h2, NEW o2, Younger(mem', Ends, g2, h2, o2)
                 PROVE  Cell(g2, o2) \in Remembered(mem', mem'[g2][o2][2],
                                Starts'[mem'[g2][o2][2]], rem_limit[mem'[g2][o2][2]])
      BY <1>1, <1>8, <2>1 DEF Covered
    <3>1. /\ Field(mem, Ends, g2, h2, o2) /\ IntoHeap(mem'[g2][o2]) /\ mem'[g2][o2][2] < g2
          /\ Field(mem', Ends, g2, h2, o2)
      BY <1>8 DEF Younger, SameObjects
    <3>2. /\ g2 \in Gens /\ o2 \in 0 .. Ends[g2] - 1
      BY <1>3, <3>1, FieldFacts
    <3>3. mem'[g2][o2][2] \in Gens
      <4>1. IsVal(mem', Ends, mem'[g2][o2])
        BY <1>8, <3>1 DEF Heap, Fields
      <4> QED BY <3>1, <4>1, WordParts DEF IsVal, IsObj, IsHead, IntoHeap
    <3>4. CASE g2 = g /\ o2 = o
      <4>1. mem'[g2][o2] = val
        BY <1>8, <3>4
      <4>2. MayStore(g, val[2]) /\ IsPtr(val) /\ val[2] \in Gens /\ val[2] < g
        BY <1>a, <3>1, <3>3, <3>4, <4>1
      <4>3. val[2] = 0
        BY <1>5, <4>2 DEF StoresYoung, Gens
      <4> QED BY <1>8, <3>4, <4>1, <4>2, <4>3
    <3>5. CASE ~ (g2 = g /\ o2 = o)
      <4>1. mem'[g2][o2] = mem[g2][o2]
        BY <1>8, <3>2, <3>5
      <4>2. Younger(mem, Ends, g2, h2, o2)
        BY <3>1, <4>1 DEF Younger
      <4>3. Cell(g2, o2) \in Remembered(mem, mem[g2][o2][2], Starts[mem[g2][o2][2]],
                                        rem_limit[mem[g2][o2][2]])
        BY <1>2, <4>2 DEF HeapInv, Covered
      <4> QED BY <1>8, <3>3, <4>1, <4>3
    <3> QED BY <3>4, <3>5
  <2> QED BY <2>2, <2>3, <2>4, <2>5, <2>6 DEF HeapInv
<1>9. \A g2 \in Gens : \A x \in Starts[g2] .. rem_limit[g2] - 1 : m1[g2][x] = mem[g2][x]
  <2> SUFFICES ASSUME NEW g2 \in Gens, NEW x \in Starts[g2] .. rem_limit[g2] - 1
               PROVE  m1[g2][x] = mem[g2][x]
    OBVIOUS
  <2>1. Starts[g2] \in Nat /\ rem_limit[g2] \in Nat
    BY EndsFacts, PolicyFacts
  <2>2. x \in 0 .. rem_limit[g2] - 1 /\ (g2 # g \/ x # o)
    BY <1>5, <2>1
  <2> QED BY <1>4, <2>2 DEF Differs
<1>10. \A g2 \in Gens : \A o2 \in 0 .. Ends[g2] - 1 :
            o2 \in 0 .. rem_limit[g2] - 1 /\ (g2 # g \/ o2 # o => m1[g2][o2] = mem[g2][o2])
  <2> SUFFICES ASSUME NEW g2 \in Gens, NEW o2 \in 0 .. Ends[g2] - 1
               PROVE  o2 \in 0 .. rem_limit[g2] - 1 /\ (g2 # g \/ o2 # o => m1[g2][o2] = mem[g2][o2])
    OBVIOUS
  <2>1. Ends[g2] \in Nat /\ rem_limit[g2] \in Nat /\ Ends[g2] <= rem_limit[g2]
    BY <1>3 DEF Heap, Sized
  <2>2. o2 \in 0 .. rem_limit[g2] - 1
    BY <2>1
  <2> QED BY <1>4, <2>2 DEF Differs
<1>11. CASE alloc < ti_limit /\ ~ IsPtr(val)
  <2>1. pc' = "mutator" /\ ti_limit' = ti_limit /\ mem' = m1
    BY <1>11, StorePolicy DEF m1, g, o
  <2>2. Ends' = Ends /\ Starts' = Starts
    BY <1>1, <2>1 DEF Ends, Starts, Owned
  <2>3. mem'[g][o] = val
    BY <1>4, <2>1 DEF Differs
  <2>4. \A y \in Gens : Remembered(mem, y, Starts[y], rem_limit[y]) \subseteq
                        Remembered(mem', y, Starts'[y], rem_limit[y])
    BY <1>9, <2>1, <2>2, RememberedSame
  <2> QED BY <1>4, <1>8, <1>10, <1>11, <2>1, <2>2, <2>3, <2>4
<1>12. CASE alloc < ti_limit /\ IsPtr(val)
  <2> DEFINE x == ti_limit - 1
             c == Cell(g, o)
             m2 == Written(m1, 0, x, c)
  <2>1. pc' = "mutator" /\ ti_limit' = x /\ mem' = m2
    BY <1>12, StorePolicy DEF m1, g, o
  <2>2. /\ Ends' = Ends /\ Starts'[0] = x
        /\ \A g1 \in Gens : g1 # 0 => Starts'[g1] = Starts[g1]
    BY <1>1, <1>6, <2>1 DEF Ends, Starts, Owned
  <2>3. Entry(mem, Ends, 0, c)
    <3>1. c = Cell(c[2], c[3]) /\ c[2] = g /\ c[3] = o /\ g >= 0
      BY <1>5, WordParts DEF Gens
    <3> QED BY <1>5, <3>1 DEF Entry
  <2>4. Entry(m1, Ends, 0, c)
    BY <1>4, <2>3 DEF SameObjects
  <2>5. x = Starts[0] - 1 /\ Ends[0] < Starts[0] /\ x \in 0 .. rem_limit[0] - 1 /\ x >= Ends[0]
    BY <1>6, <1>12
  <2> HIDE DEF x, c, m2
  <2>6. /\ Heap(m2, Ends, Starts', rem_limit, fresh, MAX_SPACES) /\ SameObjects(m1, m2, Ends)
        /\ Differs(m1, m2, rem_limit, 0, x, c)
    BY <1>4, <1>6, <2>2, <2>4, <2>5, RememberHeap DEF m2
  <2>7. SameObjects(mem, m2, Ends)
    BY <1>4, <2>6 DEF SameObjects
  <2>8. \A g2 \in Gens : \A o2 \in 0 .. Ends[g2] - 1 : m2[g2][o2] = m1[g2][o2]
    <3> SUFFICES ASSUME NEW g2 \in Gens, NEW o2 \in 0 .. Ends[g2] - 1
                 PROVE  m2[g2][o2] = m1[g2][o2]
      OBVIOUS
    <3>1. o2 \in 0 .. rem_limit[g2] - 1
      BY <1>10
    <3>2. g2 # 0 \/ o2 # x
      BY <1>6, <2>5
    <3> QED BY <2>6, <3>1, <3>2 DEF Differs
  <2>9. m2[g][o] = val
    <3>1. o \in 0 .. Ends[g] - 1
      <4>1. Ends[g] \in Nat
        BY <1>3, <1>5 DEF Heap, Sized
      <4> QED BY <1>5, <4>1
    <3> QED BY <1>4, <1>5, <2>8, <3>1 DEF Differs
  <2>10. \A y \in Gens : Remembered(mem, y, Starts[y], rem_limit[y]) \subseteq
                         Remembered(m2, y, Starts'[y], rem_limit[y])
    <3> SUFFICES ASSUME NEW y \in Gens, NEW x2 \in Starts[y] .. rem_limit[y] - 1
                 PROVE  mem[y][x2] \in Remembered(m2, y, Starts'[y], rem_limit[y])
      BY DEF Remembered
    <3>1. Starts[y] \in Nat /\ rem_limit[y] \in Nat
      BY EndsFacts, PolicyFacts
    <3>2. x2 \in 0 .. rem_limit[y] - 1 /\ (y # 0 \/ x2 # x) /\ x2 \in Starts'[y] .. rem_limit[y] - 1
      BY <1>6, <2>2, <2>5, <3>1
    <3>3. m2[y][x2] = mem[y][x2]
      BY <1>9, <2>6, <3>2 DEF Differs
    <3> QED BY <3>2, <3>3 DEF Remembered
  <2>11. c \in Remembered(m2, 0, Starts'[0], rem_limit[0])
    <3>1. x \in Starts'[0] .. rem_limit[0] - 1
      BY <1>6, <2>2, <2>5
    <3> QED BY <2>6, <3>1 DEF Remembered, Differs
  <2>12. \A g2 \in Gens : \A o2 \in 0 .. Ends[g2] - 1 : g2 # g \/ o2 # o => m2[g2][o2] = mem[g2][o2]
    BY <1>10, <2>8
  <2> QED BY <1>8, <2>1, <2>2, <2>6, <2>7, <2>9, <2>10, <2>11, <2>12 DEF c
<1> QED
  BY <1>7, <1>11, <1>12

\* Slot l gets a new object of n fields, which are values if it is scannable.
NewObject(l, n, fields, scan) ==
    /\ l \in Slots /\ n \in Nat \ {0} /\ scan \in BOOLEAN /\ Len(fields) = n
    /\ \A x \in 1 .. n : fields[x][1] \in Tags \ HeaderTags
    /\ scan => \A x \in 1 .. n : IsVal(mem, Ends, fields[x])
    /\ New(l, fields, scan)

\* The words that the object takes are those of mem'.
LEMMA NewWords ==
    ASSUME Bounds, HeapInv, NEW l, NEW n, NEW fields, NEW scan, NewObject(l, n, fields, scan)
    PROVE  /\ pc = "mutator" /\ UNCHANGED <<next, limit, rem_limit, ti_limit, pc, i, p, q, cursors>>
           /\ fresh' = fresh + 1 /\ frames' = WithSlot(l, Ptr(0, alloc + 1))
           /\ Appending(mem, mem', Ends, Ends', rem_limit, fresh + 1, 0, n)
           /\ mem'[0][alloc] = Hdr(fresh, n, scan)
           /\ \A x \in 1 .. n : mem'[0][alloc + x] = fields[x]
           /\ \A g \in Gens : \A o \in Starts[g] .. rem_limit[g] - 1 : mem'[g][o] = mem[g][o]
           /\ Tagged(mem', rem_limit) /\ Starts' = Starts
           /\ Ends'[0] = alloc + 1 + n /\ Ends[0] = alloc /\ alloc \in Nat /\ Ends'[0] <= Starts[0]
           /\ \A g \in Gens : g # 0 => Ends'[g] = Ends[g]
<1>0. /\ n \in Nat /\ n # 0 /\ scan \in BOOLEAN /\ Len(fields) = n /\ New(l, fields, scan)
      /\ \A x \in 1 .. n : fields[x][1] \in Tags \ HeaderTags
  BY DEF NewObject
<1> USE <1>0
<1>1. /\ pc = "mutator" /\ UNCHANGED <<next, limit, rem_limit, ti_limit, pc, i, p, q, cursors>>
      /\ 1 + n <= ti_limit - alloc /\ alloc' = alloc + (1 + n)
      /\ fresh' = fresh + 1 /\ frames' = WithSlot(l, Ptr(0, alloc + 1))
      /\ mem' = [mem EXCEPT ![0] = [o \in DOMAIN @ |->
                   IF o = alloc THEN Hdr(fresh, n, scan)
                   ELSE IF o \in alloc + 1 .. alloc + n THEN fields[o - alloc] ELSE @[o]]]
  BY DEF New, G!Allocate
<1>2. ~ Going /\ Owned /\ Owned'
  BY <1>1 DEF Going, Owned
<1>3. /\ Heap(mem, Ends, Starts, rem_limit, fresh, MAX_SPACES)
      /\ Ends[0] = alloc /\ Starts[0] = ti_limit /\ 0 \in Gens
      /\ alloc \in Nat /\ ti_limit \in Nat /\ ti_limit <= rem_limit[0] /\ rem_limit[0] \in Nat
  BY <1>2, MutatorFacts, PolicyFacts, EndsFacts
<1>4. /\ fresh \in Nat /\ Sized(mem, Ends, rem_limit) /\ Layout(mem, Ends, fresh)
      /\ Tagged(mem, rem_limit) /\ DOMAIN mem = Gens /\ DOMAIN mem[0] = 0 .. rem_limit[0] - 1
      /\ \A g \in Gens : Starts[g] \in Nat /\ Ends[g] <= Starts[g] /\ Starts[g] <= rem_limit[g]
  BY <1>3 DEF Heap, Sized
<1>5. /\ Ends'[0] = alloc + 1 + n /\ \A g \in Gens : g # 0 => Ends'[g] = Ends[g]
      /\ Starts' = Starts
  <2>1. Starts' = Starts
    BY <1>1, <1>2 DEF Starts
  <2>2. Ends'[0] = alloc' /\ \A g \in Gens : g # 0 => Ends'[g] = Ends[g]
    BY <1>1, <1>2, <1>3 DEF Ends
  <2> QED BY <1>1, <1>3, <2>1, <2>2
<1>6. /\ DOMAIN mem' = Gens /\ \A g \in Gens : g # 0 => mem'[g] = mem[g]
      /\ DOMAIN mem'[0] = 0 .. rem_limit[0] - 1
      /\ \A o \in 0 .. rem_limit[0] - 1 : mem'[0][o] =
            IF o = alloc THEN Hdr(fresh, n, scan)
            ELSE IF o \in alloc + 1 .. alloc + n THEN fields[o - alloc] ELSE mem[0][o]
  BY <1>1, <1>3, <1>4
<1>7. Ends'[0] <= Starts[0] /\ Ends'[0] \in Nat /\ alloc + n < ti_limit
  BY <1>1, <1>3, <1>5
<1>8. Sized(mem', Ends', rem_limit)
  <2> SUFFICES ASSUME NEW g \in Gens
               PROVE  /\ Ends'[g] \in Nat /\ rem_limit[g] \in Nat /\ Ends'[g] <= rem_limit[g]
                      /\ DOMAIN mem'[g] = 0 .. rem_limit[g] - 1
    BY <1>6 DEF Sized
  <2>1. CASE g = 0
    BY <1>3, <1>6, <1>7, <2>1
  <2>2. CASE g # 0
    BY <1>4, <1>5, <1>6, <2>2 DEF Sized
  <2> QED BY <2>1, <2>2
<1>9. mem'[0][alloc] = Hdr(fresh, n, scan)
  BY <1>3, <1>6, <1>7
<1>10. ASSUME NEW x \in 1 .. n PROVE mem'[0][alloc + x] = fields[x]
  <2> DEFINE o == alloc + x
  <2>1. /\ o \in 0 .. rem_limit[0] - 1 /\ o \in alloc + 1 .. alloc + n /\ o # alloc
        /\ o - alloc = x
    BY <1>3, <1>7
  <2> HIDE DEF o
  <2>2. mem'[0][o] = fields[o - alloc]
    BY <1>6, <2>1
  <2> QED BY <2>1, <2>2 DEF o
<1>11. ASSUME NEW g \in Gens, NEW o \in 0 .. rem_limit[g] - 1, o < Ends[g] \/ o >= Ends'[g]
       PROVE  mem'[g][o] = mem[g][o]
  <2>1. CASE g = 0
    <3>1. o # alloc /\ o \notin alloc + 1 .. alloc + n
      BY <1>3, <1>5, <1>11, <2>1
    <3> QED BY <1>6, <2>1, <3>1
  <2>2. CASE g # 0
    BY <1>6, <2>2
  <2> QED BY <2>1, <2>2
<1>12. ASSUME NEW g \in Gens, NEW o \in Starts[g] .. rem_limit[g] - 1
       PROVE  mem'[g][o] = mem[g][o]
  <2>1. Ends'[g] <= Starts[g] /\ Starts[g] \in Nat /\ Ends'[g] \in Nat /\ rem_limit[g] \in Nat
    BY <1>4, <1>5, <1>7, <1>8 DEF Sized
  <2>2. o \in 0 .. rem_limit[g] - 1 /\ o >= Ends'[g]
    BY <2>1
  <2> QED BY <1>11, <2>2
<1>13. Tagged(mem', rem_limit)
  <2> SUFFICES ASSUME NEW g \in Gens, NEW o \in 0 .. rem_limit[g] - 1
               PROVE  mem'[g][o][1] \in Tags
    BY DEF Tagged
  <2>1. CASE g = 0 /\ o = alloc
    BY <1>9, <2>1, WordParts DEF Tags
  <2>2. CASE g = 0 /\ o \in alloc + 1 .. alloc + n
    <3>1. o - alloc \in 1 .. n /\ o # alloc
      BY <1>3, <2>2
    <3>2. mem'[g][o] = fields[o - alloc]
      BY <1>3, <1>6, <2>2, <3>1
    <3> QED BY <3>1, <3>2
  <2>3. CASE ~ (g = 0 /\ o \in alloc + 1 .. alloc + n) /\ ~ (g = 0 /\ o = alloc)
    <3>1. mem'[g][o] = mem[g][o]
      BY <1>6, <2>3
    <3> QED BY <1>4, <3>1 DEF Tagged
  <2> QED BY <2>1, <2>2, <2>3
<1>14. Appending(mem, mem', Ends, Ends', rem_limit, fresh + 1, 0, n)
  <2>1. Layout(mem, Ends, fresh + 1)
    <3>1. Headers(fresh) \subseteq Headers(fresh + 1)
      <4>1. 0 .. fresh - 1 \subseteq 0 .. (fresh + 1) - 1
        BY <1>4
      <4>2. Given(fresh) \subseteq Given(fresh + 1)
        BY <4>1 DEF Given
      <4> QED BY <4>2, MoreHeaders
    <3> QED BY <1>4, <3>1 DEF Layout
  <2>2. mem'[0][Ends[0]] \in Headers(fresh + 1) /\ mem'[0][Ends[0]][3] = n
    <3>1. fresh \in 0 .. (fresh + 1) - 1 /\ fresh \in Ids
      BY <1>4 DEF New
    <3>2. fresh \in Given(fresh + 1)
      BY <3>1 DEF Given
    <3> QED BY <1>3, <1>9, <3>2, WordParts DEF Headers
  <2>3. \A o \in Ends[0] + 1 .. Ends[0] + n : mem'[0][o][1] \notin HeaderTags
    <3> SUFFICES ASSUME NEW o \in alloc + 1 .. alloc + n PROVE mem'[0][o][1] \notin HeaderTags
      BY <1>3
    <3>1. o - alloc \in 1 .. n /\ alloc + (o - alloc) = o
      BY <1>3
    <3>2. mem'[0][o] = fields[o - alloc]
      BY <1>10, <3>1
    <3> QED BY <3>1, <3>2
  <2>4. \A g \in Gens : \A o \in 0 .. Ends[g] - 1 : mem'[g][o] = mem[g][o]
    <3> SUFFICES ASSUME NEW g \in Gens, NEW o \in 0 .. Ends[g] - 1 PROVE mem'[g][o] = mem[g][o]
      OBVIOUS
    <3>1. Ends[g] \in Nat /\ rem_limit[g] \in Nat /\ Ends[g] <= rem_limit[g]
      BY <1>4 DEF Sized
    <3>2. o \in 0 .. rem_limit[g] - 1 /\ o < Ends[g]
      BY <3>1
    <3> QED BY <1>11, <3>2
  <2>5. Appended(mem, mem', Ends, Ends', 0, n)
    BY <1>3, <1>5, <2>3, <2>4 DEF Appended
  <2> QED BY <1>4, <1>8, <2>1, <2>2, <2>5 DEF Appending
<1> QED
  BY <1>1, <1>3, <1>5, <1>7, <1>9, <1>10, <1>12, <1>13, <1>14

\* A new object keeps the invariant.
LEMMA NewInv ==
    ASSUME Bounds, HeapInv, NEW l, NEW n, NEW fields, NEW scan, NewObject(l, n, fields, scan)
    PROVE  HeapInv'
<1>0. /\ l \in Slots /\ n \in Nat /\ n # 0 /\ scan \in BOOLEAN
      /\ scan => \A x \in 1 .. n : IsVal(mem, Ends, fields[x])
  BY DEF NewObject
<1>1. /\ pc = "mutator" /\ UNCHANGED <<next, limit, rem_limit, ti_limit, pc, i, p, q, cursors>>
      /\ fresh' = fresh + 1 /\ frames' = WithSlot(l, Ptr(0, alloc + 1))
      /\ Appending(mem, mem', Ends, Ends', rem_limit, fresh + 1, 0, n)
      /\ mem'[0][alloc] = Hdr(fresh, n, scan)
      /\ \A x \in 1 .. n : mem'[0][alloc + x] = fields[x]
      /\ \A g \in Gens : \A o \in Starts[g] .. rem_limit[g] - 1 : mem'[g][o] = mem[g][o]
      /\ Tagged(mem', rem_limit) /\ Starts' = Starts
      /\ Ends'[0] = alloc + 1 + n /\ Ends[0] = alloc /\ alloc \in Nat /\ Ends'[0] <= Starts[0]
      /\ \A g \in Gens : g # 0 => Ends'[g] = Ends[g]
  BY NewWords
<1>2. ~ Going /\ ~ Going' /\ Source = MAX_SPACES /\ Source' = MAX_SPACES
  BY <1>1 DEF Going, Source
<1>3. /\ Heap(mem, Ends, Starts, rem_limit, fresh, MAX_SPACES) /\ 0 \in Gens
      /\ Top \in DOMAIN frames
  BY <1>2, MutatorFacts, PolicyFacts
<1>4. /\ fresh \in Nat /\ Layout(mem, Ends, fresh) /\ Unique(mem, Ends)
      /\ FromOnly(mem, Ends, MAX_SPACES) /\ Sized(mem, Ends, rem_limit)
      /\ Fields(mem, Ends) /\ Entries(mem, Ends, Starts, rem_limit)
  BY <1>3 DEF Heap
<1>5. /\ \A g, h : IsHead(mem', Ends', g, h) <=>
            IsHead(mem, Ends, g, h) \/ (g = 0 /\ h = alloc)
      /\ \A g, h : IsHead(mem, Ends, g, h) => mem'[g][h] = mem[g][h] /\ mem'[g][h + 1] = mem[g][h + 1]
  BY <1>1, AppendedHeads
<1>6. /\ \A v : IsVal(mem, Ends, v) => IsVal(mem', Ends', v)
      /\ \A g, c : Entry(mem, Ends, g, c) => Entry(mem', Ends', g, c)
      /\ FromOnly(mem', Ends', MAX_SPACES)
  BY <1>1, <1>4, AppendedObjects
<1>7. /\ Layout(mem', Ends', fresh + 1)
      /\ \A g, h, o : Field(mem, Ends, g, h, o) => mem'[g][o] = mem[g][o]
      /\ \A g, h, o : Field(mem', Ends', g, h, o) =>
            Field(mem, Ends, g, h, o) \/ (g = 0 /\ h = alloc)
  BY <1>1, <1>4, AppendedLayout
<1>8. Sized(mem', Ends', rem_limit)
  BY <1>1 DEF Appending
<1>9. Unique(mem', Ends')
  <2>1. ASSUME NEW g, NEW h, IsHead(mem, Ends, g, h) PROVE mem'[g][h] = Forwarded \/ mem'[g][h][2] # fresh
    <3>1. mem'[g][h] = mem[g][h]
      BY <1>5, <2>1
    <3>2. mem[g][h] # Forwarded => mem[g][h][2] \in Given(fresh)
      BY <1>4, <2>1, HeadFacts
    <3>3. fresh \notin Given(fresh)
      BY <1>4 DEF Given
    <3> QED BY <3>1, <3>2, <3>3
  <2>2. mem'[0][alloc][2] = fresh
    BY <1>1, WordParts
  <2> SUFFICES ASSUME NEW g, NEW h, NEW g2, NEW h2,
                      IsHead(mem', Ends', g, h), mem'[g][h] # Forwarded,
                      IsHead(mem', Ends', g2, h2), mem'[g2][h2] # Forwarded,
                      mem'[g][h][2] = mem'[g2][h2][2]
               PROVE  g = g2 /\ h = h2
    BY DEF Unique
  <2>3. CASE IsHead(mem, Ends, g, h) /\ IsHead(mem, Ends, g2, h2)
    BY <1>4, <1>5, <2>3 DEF Unique
  <2>4. CASE ~ (IsHead(mem, Ends, g, h) /\ IsHead(mem, Ends, g2, h2))
    BY <1>5, <2>1, <2>2, <2>4
  <2> QED BY <2>3, <2>4
<1>10. Objects'
  BY <1>1, <1>2, <1>4, <1>6, <1>7, <1>8, <1>9 DEF Objects
<1>11. ASSUME NEW g, NEW h, NEW o, Field(mem', Ends', g, h, o), g = 0, h = alloc
       PROVE  scan /\ \E x \in 1 .. n : mem'[g][o] = fields[x]
  <2>1. scan /\ o \in alloc + 1 .. alloc + n
    BY <1>1, <1>11, WordParts DEF Field
  <2>2. o - alloc \in 1 .. n /\ alloc + (o - alloc) = o
    BY <1>0, <1>1, <2>1
  <2> QED BY <1>1, <1>11, <2>1, <2>2
<1>12. Fields(mem', Ends')
  <2> SUFFICES ASSUME NEW g, NEW h, NEW o, Field(mem', Ends', g, h, o)
               PROVE  IsVal(mem', Ends', mem'[g][o])
    BY DEF Fields
  <2>1. CASE Field(mem, Ends, g, h, o)
    BY <1>4, <1>6, <1>7, <2>1 DEF Fields
  <2>2. CASE g = 0 /\ h = alloc
    BY <1>0, <1>6, <1>11, <2>2
  <2> QED BY <1>7, <2>1, <2>2
<1>13. Entries(mem', Ends', Starts', rem_limit')
  <2> SUFFICES ASSUME NEW g \in Gens, NEW x \in Starts[g] .. rem_limit[g] - 1
               PROVE  Entry(mem', Ends', g, mem'[g][x])
    BY <1>1 DEF Entries
  <2>1. mem'[g][x] = mem[g][x]
    BY <1>1
  <2> QED BY <1>4, <1>6, <2>1 DEF Entries
<1>14. Roots(mem', Ends', frames')
  <2> DEFINE w == Ptr(0, alloc + 1)
             o == alloc + 1
  <2>1. IsVal(mem', Ends', w)
    <3>1. IsHead(mem', Ends', 0, o - 1) /\ o \in Nat
      <4>1. o - 1 = alloc
        BY <1>1
      <4> QED BY <1>1, <1>5, <4>1
    <3>2. w[1] = "ptr" /\ w[2] = 0 /\ w[3] = o /\ w = Ptr(0, o)
      BY WordParts
    <3> HIDE DEF w, o
    <3> QED BY <3>1, <3>2 DEF IsVal, IsObj, IntoHeap
  <2>2. Roots(mem', Ends', frames)
    BY <1>6 DEF HeapInv, Roots
  <2>3. frames' = [frames EXCEPT ![Top][l] = w]
    BY <1>1 DEF WithSlot
  <2> HIDE DEF w
  <2> QED BY <1>0, <1>3, <1>8, <2>1, <2>2, <2>3, SlotRoots
<1>15. Covered'
  <2> SUFFICES ASSUME NEW g, NEW h, NEW o, Younger(mem', Ends', g, h, o)
               PROVE  Cell(g, o) \in Remembered(mem', mem'[g][o][2],
                            Starts[mem'[g][o][2]], rem_limit[mem'[g][o][2]])
    BY <1>1, <1>2 DEF Covered
  <2>1. Field(mem', Ends', g, h, o) /\ IntoHeap(mem'[g][o]) /\ mem'[g][o][2] < g
    BY DEF Younger
  <2> DEFINE y == mem'[g][o][2]
  <2>2. y \in Gens
    <3>1. IsVal(mem', Ends', mem'[g][o])
      BY <1>12, <2>1 DEF Fields
    <3> QED BY <2>1, <3>1, WordParts DEF IsVal, IsObj, IsHead, IntoHeap
  <2>3. ~ (g = 0)
    BY <2>1, <2>2 DEF Gens
  <2>4. Field(mem, Ends, g, h, o) /\ mem'[g][o] = mem[g][o]
    BY <1>7, <2>1, <2>3
  <2>5. Cell(g, o) \in Remembered(mem, y, Starts[y], rem_limit[y])
    BY <1>2, <2>1, <2>4 DEF HeapInv, Covered, Younger
  <2> HIDE DEF y
  <2>6. Remembered(mem', y, Starts[y], rem_limit[y]) = Remembered(mem, y, Starts[y], rem_limit[y])
    BY <1>1, <2>2, RememberedSame
  <2> QED BY <2>5, <2>6 DEF y
<1>16. Counted' /\ RootsDone'
  BY <1>1, <1>2 DEF Counted, RootsDone
<1>17. Cursors'
  <2>1. Top' \in Nat
    BY <1>14 DEF Roots, Top
  <2>2. fr = 0 /\ s = 0 /\ j \in Nat \ {0} /\ UNCHANGED <<fr, s, j>>
    BY <1>1 DEF HeapInv, Cursors, cursors
  <2> QED BY <1>1, <1>2, <2>1, <2>2 DEF Cursors
<1> QED
  BY <1>10, <1>12, <1>13, <1>14, <1>15, <1>16, <1>17 DEF HeapInv

-----------------------------------------------------------------------------
(* Steps of the collector that forward a value *)

\* The ends of the generations after f.
EndsAfter(f) == [Ends EXCEPT ![i + 1] = f.next]

\* Generation i+1 is longer, and nothing else of the policy has changed.
LEMMA NextEnds ==
    ASSUME Bounds, HeapInv, Going, UNCHANGED <<pc, i, alloc>>, NEW f,
           next' = [next EXCEPT ![i + 1] = f.next]
    PROVE  /\ Ends' = EndsAfter(f) /\ Source' = i /\ Source = i /\ Going' /\ ~ Owned /\ ~ Owned'
           /\ next'[i + 1] = f.next /\ i + 1 \in Gens /\ i \in Gens /\ i \in Nat
<1>1. ~ Owned /\ ~ Owned' /\ Going' /\ Source' = i /\ Source = i
  BY DEF Going, Owned, Source
<1>2. next = [g \in Gens |-> next[g]] /\ i + 1 \in Gens /\ i \in Gens /\ i \in Nat
  BY PolicyFacts
<1>3. Ends' = EndsAfter(f)
  BY <1>1, <1>2 DEF Ends, EndsAfter
<1> QED
  BY <1>1, <1>2, <1>3

\* The cursors of the scan are where they were.
LEMMA CursorsKept ==
    ASSUME Bounds, HeapInv, Going, NEW v, NEW f, Forwarding(v, f, EndsAfter(f)),
           NEW m2, SameObjects(f.mem, m2, EndsAfter(f))
    PROVE  /\ p = f.next \/ IsHead(m2, EndsAfter(f), i + 1, p)
           /\ \A h : IsHead(mem, Ends, i + 1, h) =>
                 IsHead(m2, EndsAfter(f), i + 1, h) /\ m2[i + 1][h] = mem[i + 1][h]
<1> DEFINE t == i + 1
           e2 == EndsAfter(f)
<1>1. Moved(mem, f.mem, Ends, e2, i, t, rem_limit, fresh) /\ e2[t] = f.next
  BY DEF Forwarding
<1>2. i \in Nat /\ t \in Gens /\ Ends[t] = next[t] /\ t # i
  BY PolicyFacts, EndsFacts
<1>3. \A h : IsHead(mem, Ends, t, h) => IsHead(f.mem, e2, t, h) /\ f.mem[t][h] = mem[t][h]
  BY <1>1, <1>2 DEF Moved
<1>4. next[t] = f.next \/ IsHead(f.mem, e2, t, next[t])
  BY <1>1, <1>2 DEF Moved
<1>5. p = next[t] \/ IsHead(mem, Ends, t, p)
  BY DEF HeapInv, Cursors
<1> HIDE DEF e2
<1>6. \A h : IsHead(f.mem, e2, t, h) => IsHead(m2, e2, t, h) /\ m2[t][h] = f.mem[t][h]
  BY DEF SameObjects, e2
<1> QED
  BY <1>3, <1>4, <1>5, <1>6 DEF e2

\* A memory has the objects that it has.
LEMMA SameSelf == ASSUME NEW m, NEW e PROVE SameObjects(m, m, e)
BY DEF SameObjects

\* A frame has as many slots as Len says.
LEMMA FrameLength == ASSUME NEW st \in [Slots -> Values] PROVE Len(st) = 2
<1>1. st \in Seq(Values)
  BY SeqDef DEF Slots
<1>2. DOMAIN st = 1 .. Len(st) /\ Len(st) \in Nat /\ DOMAIN st = 1 .. 2
  BY <1>1, LenProperties DEF Slots
<1> DEFINE n == Len(st)
<1>3. 1 .. n = 1 .. 2 /\ n \in Nat
  BY <1>2
<1> HIDE DEF n
<1>4. 2 \in 1 .. n /\ n \notin 3 .. n
  BY <1>3
<1>5. n >= 2 /\ (n > 2 => 3 \in 1 .. n)
  BY <1>3, <1>4
<1> QED
  BY <1>3, <1>5 DEF n

\* A slot of a frame is forwarded.
LEMMA ForwardRootInv ==
    ASSUME Bounds, HeapInv, ForwardRoot
    PROVE  HeapInv'
<1> DEFINE t == i + 1
           v == frames[fr][j]
           f == Forward(v)
           e2 == EndsAfter(f)
<1>1. /\ pc = "copy" /\ fr > 0 /\ frames' = [frames EXCEPT ![fr][j] = f.val]
      /\ mem' = f.mem /\ next' = [next EXCEPT ![t] = f.next]
      /\ UNCHANGED <<created, limit, rem_limit, alloc, ti_limit, nalloc, pc, i, p, q, fresh>>
      /\ \/ j < Len(frames[fr]) /\ j' = j + 1 /\ fr' = fr /\ s' = s
         \/ ~ (j < Len(frames[fr])) /\ j' = 1 /\ fr' = fr - 1 /\ s' = p
  BY DEF ForwardRoot
<1>2. Going
  BY <1>1 DEF Going
<1>3. /\ Ends' = e2 /\ Source' = i /\ Source = i /\ Going' /\ ~ Owned /\ ~ Owned'
      /\ next'[t] = f.next /\ t \in Gens /\ i \in Gens /\ i \in Nat
  BY <1>1, <1>2, NextEnds
<1>4. /\ frames \in Seq([Slots -> Values]) /\ Top \in Nat /\ DOMAIN frames = 1 .. Top
      /\ fr \in DOMAIN frames /\ j \in Slots /\ IsVal(mem, Ends, v)
  <2>1. frames \in Seq([Slots -> Values]) /\ Top \in Nat /\ DOMAIN frames = 1 .. Top
    BY DEF HeapInv, Roots, Top
  <2>2. fr \in DOMAIN frames /\ j \in Slots
    BY <1>1, <2>1 DEF HeapInv, Cursors
  <2> QED BY <2>1, <2>2 DEF HeapInv, Roots
<1>5. Len(frames[fr]) = 2
  BY <1>4, ElementOfSeq, FrameLength
<1>6. p \in Nat /\ p <= next[t] /\ next[t] \in Nat
  BY <1>2, <1>3, PolicyFacts
<1>7. Edge = p + 1 /\ Edge' = p + 1
  BY <1>1 DEF Edge
<1>f. f = Forward(v) /\ e2 = [Ends EXCEPT ![t] = f.next]
  BY DEF EndsAfter
<1> HIDE DEF f, v, e2
<1>8. /\ Forwarding(v, f, e2) /\ Heap(f.mem, e2, Starts, rem_limit, fresh, i)
      /\ Cardinality(Copied(f.mem, e2, i)) = f.next - p
      /\ \A g \in Gens : \A x \in Starts[g] .. rem_limit[g] - 1 : f.mem[g][x] = mem[g][x]
      /\ \A g, h, o : Younger(f.mem, e2, g, h, o) =>
            IF f.mem[g][o][2] = i THEN Pending(g, o)
            ELSE Cell(g, o) \in Remembered(mem, f.mem[g][o][2], Starts[f.mem[g][o][2]],
                                           rem_limit[f.mem[g][o][2]])
  <2>1. Edge \in Nat /\ Edge <= next[t] + 1
    BY <1>6, <1>7
  <2>2. ForwardedHeap(v, f, e2)
    BY <1>2, <1>4, <1>f, <2>1, ForwardHeap
  <2> QED BY <2>2 DEF ForwardedHeap
<1>9. Starts' = Starts
  BY <1>1, <1>3 DEF Starts
<1>10. Objects' /\ Fields(mem, Ends)' /\ Entries(mem, Ends, Starts, rem_limit)'
  BY <1>1, <1>3, <1>8, <1>9 DEF Objects, Heap
<1>11. Counted'
  BY <1>1, <1>3, <1>8 DEF Counted
<1>12. Covered'
  <2> SUFFICES ASSUME NEW g, NEW h, NEW o, Younger(mem', Ends', g, h, o)
               PROVE  IF mem'[g][o][2] = i THEN Pending(g, o)'
                      ELSE Cell(g, o) \in Remembered(mem', mem'[g][o][2],
                                Starts[mem'[g][o][2]], rem_limit[mem'[g][o][2]])
    BY <1>1, <1>3, <1>9 DEF Covered
  <2> DEFINE y == mem'[g][o][2]
  <2>1. IF y = i THEN Pending(g, o) ELSE Cell(g, o) \in Remembered(mem, y, Starts[y], rem_limit[y])
    BY <1>1, <1>3, <1>8
  <2>2. y \in Gens
    <3>1. IsVal(mem', Ends', mem'[g][o]) /\ IntoHeap(mem'[g][o])
      BY <1>10 DEF Fields, Younger
    <3> QED BY <3>1, WordParts DEF IsVal, IsObj, IsHead, IntoHeap
  <2>3. Pending(g, o) => Pending(g, o)'
    BY <1>1, <1>7 DEF Pending
  <2> HIDE DEF y
  <2>4. Remembered(mem', y, Starts[y], rem_limit[y]) = Remembered(mem, y, Starts[y], rem_limit[y])
    BY <1>1, <1>8, <2>2, RememberedSame
  <2> QED BY <2>1, <2>3, <2>4 DEF y
<1>13. /\ Roots(mem', Ends', frames') /\ Len(frames') = Top
       /\ \A b \in DOMAIN frames : \A x \in Slots :
             frames'[b][x] = IF b = fr /\ x = j THEN f.val ELSE frames[b][x]
       /\ DOMAIN frames' = DOMAIN frames
  <2>1. Sized(f.mem, e2, rem_limit)
    BY <1>8 DEF Heap
  <2>2. Roots(f.mem, e2, frames)
    BY <1>8 DEF HeapInv, Roots, Forwarding, Moved
  <2>3. IsVal(f.mem, e2, f.val)
    BY <1>8 DEF Forwarding
  <2> DEFINE m2 == f.mem
             w == f.val
             st2 == [frames EXCEPT ![fr][j] = w]
  <2>4. /\ Roots(m2, e2, st2) /\ Len(st2) = Len(frames)
        /\ \A b \in DOMAIN frames : \A x \in Slots :
              st2[b][x] = IF b = fr /\ x = j THEN w ELSE frames[b][x]
    <3>1. Sized(m2, e2, rem_limit) /\ Roots(m2, e2, frames) /\ IsVal(m2, e2, w)
      BY <2>1, <2>2, <2>3
    <3>2. fr \in DOMAIN frames /\ j \in Slots
      BY <1>4
    <3> HIDE DEF m2, w
    <3> QED BY <3>1, <3>2, SlotRoots
  <2>6. frames' = st2 /\ mem' = m2
    BY <1>1
  <2>5. DOMAIN frames' = DOMAIN frames
    BY <1>1
  <2> HIDE DEF m2, st2
  <2> QED BY <1>3, <2>4, <2>5, <2>6 DEF Top
<1>14. RootsDone'
  <2> SUFFICES ASSUME NEW b \in DOMAIN frames, NEW x \in Slots, b > fr' \/ (b = fr' /\ x < j')
               PROVE  ~ Into(frames'[b][x], i)
    BY <1>1, <1>13 DEF RootsDone
  <2>1. CASE b = fr /\ x = j
    BY <1>8, <1>13, <2>1 DEF Forwarding
  <2>2. CASE ~ (b = fr /\ x = j)
    <3>1. frames'[b][x] = frames[b][x]
      BY <1>13, <2>2
    <3>2. b > fr \/ (b = fr /\ x < j)
      BY <1>1, <1>4, <1>5, <2>2 DEF Slots
    <3> QED BY <1>1, <3>1, <3>2 DEF HeapInv, RootsDone
  <2> QED BY <2>1, <2>2
<1>15. Cursors'
  <2>1. p = f.next \/ IsHead(f.mem, e2, t, p)
    BY <1>2, <1>8, SameSelf, CursorsKept DEF e2
  <2>2. p' = next'[i' + 1] \/ IsHead(mem', Ends', i' + 1, p')
    BY <1>1, <1>3, <2>1
  <2>3. s \in {0, p} /\ s \in Nat /\ fr \in 0 .. Top
    BY <1>1 DEF HeapInv, Cursors
  <2>4. Top' = Top
    BY <1>13 DEF Top
  <2>5. fr' \in 0 .. Top' /\ s' \in Nat /\ j' \in Nat \ {0} /\ j' \in Slots /\ s' \in {0, p}
    BY <1>1, <1>4, <1>5, <1>6, <2>3, <2>4 DEF Slots
  <2>6. ASSUME fr' = 0
        PROVE  s' = next'[t] \/ (IsHead(mem', Ends', t, s') /\ j' <= mem'[t][s'][3] + 1)
    <3>1. s' = p /\ j' = 1
      BY <1>1, <2>6
    <3>2. CASE IsHead(f.mem, e2, t, p)
      <4>1. fresh \in Nat /\ Sized(f.mem, e2, rem_limit) /\ Layout(f.mem, e2, fresh) /\ FromOnly(f.mem, e2, i)
        BY <1>8 DEF Heap
      <4>2. f.mem[t][p] # Forwarded
        BY <1>3, <3>2, <4>1 DEF FromOnly
      <4>3. SizeAt(f.mem, t, p) \in Nat /\ SizeAt(f.mem, t, p) = f.mem[t][p][3]
        BY <3>2, <4>1, <4>2, HeadFacts
      <4> QED BY <1>1, <1>3, <3>1, <3>2, <4>3
    <3> QED BY <1>1, <1>3, <2>1, <3>1, <3>2
  <2> QED BY <1>1, <2>2, <2>5, <2>6 DEF Cursors
<1> QED
  BY <1>10, <1>11, <1>12, <1>13, <1>14, <1>15 DEF HeapInv

\* A field is being forwarded: the word that comes out is written where it was
\* read, in a generation that is not collected.
Updating(g, h, o, f, e2, m2) ==
    /\ Going /\ Edge \in Nat /\ Edge <= next[i + 1] + 1
    /\ Field(mem, Ends, g, h, o) /\ g # i
    /\ f = Forward(mem[g][o]) /\ e2 = EndsAfter(f) /\ m2 = Written(f.mem, g, o, f.val)

Updated(g, h, o, f, e2, m2) ==
    /\ ForwardedHeap(mem[g][o], f, e2)
    /\ Heap(m2, e2, Starts, rem_limit, fresh, i)
    /\ SameObjects(f.mem, m2, e2) /\ Differs(f.mem, m2, rem_limit, g, o, f.val)
    /\ Field(f.mem, e2, g, h, o) /\ f.mem[g][o] = mem[g][o]
    /\ Cardinality(Copied(m2, e2, i)) = f.next - p
    /\ \A g1 \in Gens : \A x \in Starts[g1] .. rem_limit[g1] - 1 : m2[g1][x] = mem[g1][x]
    /\ Roots(m2, e2, frames)
    /\ Field(m2, e2, g, h, o)

\* The heap is as it should be then.
LEMMA FieldForwarded ==
    ASSUME Bounds, HeapInv, NEW g, NEW h, NEW o, NEW f, NEW e2, NEW m2,
           Updating(g, h, o, f, e2, m2)
    PROVE  Updated(g, h, o, f, e2, m2)
<1>0. /\ Going /\ Edge \in Nat /\ Edge <= next[i + 1] + 1
      /\ Field(mem, Ends, g, h, o) /\ g # i
      /\ f = Forward(mem[g][o]) /\ e2 = EndsAfter(f) /\ m2 = Written(f.mem, g, o, f.val)
  BY DEF Updating
<1> USE <1>0
<1> DEFINE v == mem[g][o]
           m1 == f.mem
           w == f.val
<1>1. IsVal(mem, Ends, v)
  BY DEF HeapInv, Fields
<1>2. ForwardedHeap(v, f, e2)
  BY <1>1, ForwardHeap DEF EndsAfter
<1>3. Forwarding(v, f, e2) /\ Heap(m1, e2, Starts, rem_limit, fresh, i)
  BY <1>2 DEF ForwardedHeap
<1>4. Moved(mem, m1, Ends, e2, i, i + 1, rem_limit, fresh) /\ IsVal(m1, e2, w)
  BY <1>3 DEF Forwarding
<1>5. Field(m1, e2, g, h, o) /\ m1[g][o] = v
  BY <1>4 DEF Moved
<1> HIDE DEF m1, w, v
<1>6. m2 = Written(m1, g, o, w)
  BY DEF m1, w
<1>7. /\ Heap(m2, e2, Starts, rem_limit, fresh, i)
      /\ SameObjects(m1, m2, e2) /\ Differs(m1, m2, rem_limit, g, o, w)
  BY <1>3, <1>4, <1>5, <1>6, WriteHeap
<1>8. Cardinality(Copied(m2, e2, i)) = f.next - p
  BY <1>2, <1>7 DEF ForwardedHeap, SameObjects, m1
<1>9. ASSUME NEW g1 \in Gens, NEW x \in Starts[g1] .. rem_limit[g1] - 1 PROVE m2[g1][x] = mem[g1][x]
  <2>1. Starts[g1] \in Nat /\ rem_limit[g1] \in Nat
    BY EndsFacts, PolicyFacts
  <2>2. o < Starts[g] /\ o \in Nat /\ g \in Gens
    BY <1>3, <1>5, FieldFacts
  <2>3. x \in 0 .. rem_limit[g1] - 1 /\ (g1 # g \/ x # o)
    BY <2>1, <2>2
  <2>4. m1[g1][x] = mem[g1][x]
    BY <1>2 DEF ForwardedHeap, m1
  <2> QED BY <1>7, <2>3, <2>4 DEF Differs
<1>10. Roots(m2, e2, frames)
  BY <1>4, <1>7 DEF HeapInv, Roots, Moved, SameObjects
<1>11. Field(m2, e2, g, h, o)
  BY <1>5, <1>7 DEF SameObjects
<1> QED
  BY <1>2, <1>5, <1>7, <1>8, <1>9, <1>10, <1>11 DEF v, m1, w, Updated

\* After that, what is left to do is what was, but for that word.
LeftAfter(g, o, f, e2, m2) ==
    \A g1, h1, o1 : Younger(m2, e2, g1, h1, o1) =>
        /\ g1 \in Gens /\ o1 \in Nat /\ m2[g1][o1][2] \in Gens
        /\ m2[g1][o1][2] = i => Pending(g1, o1) /\ ~ (g1 = g /\ o1 = o)
        /\ m2[g1][o1][2] # i =>
              \/ Cell(g1, o1) \in Remembered(mem, m2[g1][o1][2], Starts[m2[g1][o1][2]],
                                             rem_limit[m2[g1][o1][2]])
              \/ /\ g1 = g /\ o1 = o /\ m2[g1][o1][2] = i + 1
                 /\ Into(mem[g][o], i) /\ Into(f.val, i + 1)

\* It is.
LEMMA FieldCovered ==
    ASSUME Bounds, HeapInv, NEW g, NEW h, NEW o, NEW f, NEW e2, NEW m2,
           Updating(g, h, o, f, e2, m2)
    PROVE  LeftAfter(g, o, f, e2, m2)
<1>0. /\ Going /\ Edge \in Nat /\ Edge <= next[i + 1] + 1
      /\ Field(mem, Ends, g, h, o) /\ g # i
      /\ f = Forward(mem[g][o]) /\ e2 = EndsAfter(f) /\ m2 = Written(f.mem, g, o, f.val)
      /\ Updated(g, h, o, f, e2, m2)
  BY FieldForwarded DEF Updating
<1> DEFINE v == mem[g][o]
           m1 == f.mem
           w == f.val
<1>1. /\ ForwardedHeap(v, f, e2)
      /\ Heap(m2, e2, Starts, rem_limit, fresh, i)
      /\ SameObjects(m1, m2, e2) /\ Differs(m1, m2, rem_limit, g, o, w)
      /\ Field(m1, e2, g, h, o) /\ m1[g][o] = v
  BY <1>0 DEF Updated
<1>2. Forwarding(v, f, e2)
  BY <1>1 DEF ForwardedHeap
<1> HIDE DEF m1, w, v
<1>3. ~ Into(w, i) /\ (Into(v, i) => Into(w, i + 1)) /\ (~ Into(v, i) => w = v)
  BY <1>2 DEF Forwarding, w
<1>4. \A g1, h1, o1 : Younger(m1, e2, g1, h1, o1) =>
            IF m1[g1][o1][2] = i THEN Pending(g1, o1)
            ELSE Cell(g1, o1) \in Remembered(mem, m1[g1][o1][2], Starts[m1[g1][o1][2]],
                                             rem_limit[m1[g1][o1][2]])
  BY <1>1 DEF ForwardedHeap, m1
<1> SUFFICES ASSUME NEW g1, NEW h1, NEW o1, Younger(m2, e2, g1, h1, o1)
             PROVE  /\ g1 \in Gens /\ o1 \in Nat /\ m2[g1][o1][2] \in Gens
                    /\ m2[g1][o1][2] = i => Pending(g1, o1) /\ ~ (g1 = g /\ o1 = o)
                    /\ m2[g1][o1][2] # i =>
                          \/ Cell(g1, o1) \in Remembered(mem, m2[g1][o1][2],
                                    Starts[m2[g1][o1][2]], rem_limit[m2[g1][o1][2]])
                          \/ /\ g1 = g /\ o1 = o /\ m2[g1][o1][2] = i + 1
                             /\ Into(v, i) /\ Into(w, i + 1)
  BY DEF v, w, LeftAfter
<1>5. Field(m2, e2, g1, h1, o1) /\ IntoHeap(m2[g1][o1]) /\ m2[g1][o1][2] < g1
  BY DEF Younger
<1>6. g1 \in Gens /\ o1 \in Nat /\ o1 \in 0 .. rem_limit[g1] - 1
  BY <1>1, <1>5, FieldFacts
<1>7. m2[g1][o1][2] \in Gens
  <2>1. IsVal(m2, e2, m2[g1][o1])
    BY <1>1, <1>5 DEF Heap, Fields
  <2> QED BY <1>5, <2>1, WordParts DEF IsVal, IsObj, IsHead, IntoHeap
<1>8. Field(m1, e2, g1, h1, o1)
  BY <1>1, <1>5 DEF SameObjects
<1>9. CASE g1 = g /\ o1 = o
  <2>1. m2[g1][o1] = w
    BY <1>1, <1>9 DEF Differs
  <2>2. w[2] # i
    BY <1>3, <1>5, <2>1 DEF Into
  <2>3. CASE Into(v, i)
    BY <1>3, <1>6, <1>7, <1>9, <2>1, <2>2, <2>3 DEF Into
  <2>4. CASE ~ Into(v, i)
    <3>1. m1[g1][o1] = w
      BY <1>1, <1>3, <1>9, <2>4
    <3>2. Younger(m1, e2, g1, h1, o1)
      BY <1>5, <1>8, <2>1, <3>1 DEF Younger
    <3> QED BY <1>4, <1>6, <1>7, <2>1, <2>2, <3>1, <3>2
  <2> QED BY <2>3, <2>4
<1>10. CASE ~ (g1 = g /\ o1 = o)
  <2>1. m2[g1][o1] = m1[g1][o1]
    BY <1>1, <1>6, <1>10 DEF Differs
  <2>2. Younger(m1, e2, g1, h1, o1)
    BY <1>5, <1>8, <2>1 DEF Younger
  <2> QED BY <1>4, <1>6, <1>7, <1>10, <2>1, <2>2
<1> QED
  BY <1>9, <1>10

\* The scan is at a field.
LEMMA ScannedField ==
    ASSUME Bounds, HeapInv, ScanField
    PROVE  /\ pc = "copy" /\ Going /\ Field(mem, Ends, i + 1, s, s + j)
           /\ IsHead(mem, Ends, i + 1, s) /\ s \in Nat /\ j \in Nat /\ j > 0
           /\ mem[i + 1][s][3] \in Nat /\ s + mem[i + 1][s][3] < next[i + 1]
           /\ j <= mem[i + 1][s][3] /\ next[i + 1] \in Nat
<1> DEFINE t == i + 1
           o == s + j
           z == mem[t][s][3]
<1>1. pc = "copy" /\ fr = 0 /\ s < next[t] /\ mem[t][s][4] /\ j <= z
  BY DEF ScanField, Scanning
<1>2. Going
  BY <1>1 DEF Going
<1>3. Source = i /\ t \in Gens /\ i \in Gens /\ i \in Nat
  BY <1>2, PolicyFacts DEF Source
<1>4. Heap(mem, Ends, Starts, rem_limit, fresh, i) /\ Ends[t] = next[t] /\ next[t] \in Nat
  BY <1>2, <1>3, HeapIs, PolicyFacts, EndsFacts
<1>5. IsHead(mem, Ends, t, s) /\ mem[t][s] # Forwarded /\ s \in Nat /\ j \in Nat /\ j > 0
  <2>1. IsHead(mem, Ends, t, s) /\ s \in Nat /\ j \in Nat /\ j > 0
    BY <1>1, <1>4 DEF HeapInv, Cursors
  <2>2. t # i
    BY <1>3
  <2> QED BY <1>4, <2>1, <2>2 DEF Heap, FromOnly
<1>6. z \in Nat /\ s + z < next[t]
  <2>1. fresh \in Nat /\ Sized(mem, Ends, rem_limit) /\ Layout(mem, Ends, fresh)
    BY <1>4 DEF Heap
  <2> QED BY <1>4, <1>5, <2>1, HeadFacts
<1>7. Field(mem, Ends, t, s, o)
  <2>1. o \in s + 1 .. s + z
    <3> HIDE DEF z
    <3> QED BY <1>1, <1>5, <1>6
  <2> QED BY <1>1, <1>5, <2>1 DEF Field
<1> QED
  BY <1>1, <1>2, <1>4, <1>5, <1>6, <1>7

\* A field of an object that has been copied is forwarded.
LEMMA ScanFieldInv ==
    ASSUME Bounds, HeapInv, ScanField
    PROVE  HeapInv'
<1> DEFINE t == i + 1
           o == s + j
           v == mem[t][o]
           f == Forward(v)
           e2 == EndsAfter(f)
           z == mem[t][s][3]
<1>1. /\ pc = "copy" /\ fr = 0 /\ s < next[t] /\ mem[t][s][4] /\ j <= z
      /\ mem' = Written(f.mem, t, o, f.val) /\ next' = [next EXCEPT ![t] = f.next] /\ j' = j + 1
      /\ UNCHANGED <<created, limit, rem_limit, alloc, ti_limit, nalloc, pc, i, p, q>>
      /\ UNCHANGED <<frames, fr, s, fresh>>
  BY DEF ScanField, Scanning
<1>2. Going
  BY <1>1 DEF Going
<1>3. /\ Ends' = e2 /\ Source' = i /\ Source = i /\ Going' /\ ~ Owned /\ ~ Owned'
      /\ next'[t] = f.next /\ t \in Gens /\ i \in Gens /\ i \in Nat
  BY <1>1, <1>2, NextEnds
<1>4. /\ IsHead(mem, Ends, t, s) /\ s \in Nat /\ j \in Nat /\ j > 0
      /\ z \in Nat /\ s + z < next[t] /\ next[t] \in Nat /\ Field(mem, Ends, t, s, o)
  BY ScannedField
<1>8. Edge = o /\ Edge' = o + 1 /\ o \in Nat /\ o <= next[t]
  <2>1. Edge = o /\ Edge' = s + (j + 1)
    BY <1>1 DEF Edge
  <2>2. o \in Nat /\ o <= next[t] /\ s + (j + 1) = o + 1
    <3> HIDE DEF z
    <3> QED BY <1>1, <1>4
  <2> QED BY <2>1, <2>2
<1>9. Edge \in Nat /\ Edge <= next[t] + 1
  BY <1>4, <1>8
<1>f. f = Forward(mem[t][o]) /\ e2 = EndsAfter(f) /\ t # i
  BY <1>3
<1> HIDE DEF f, v, e2, o
<1>u. Updating(t, s, o, f, e2, mem')
  BY <1>1, <1>2, <1>4, <1>9, <1>f DEF Updating
<1>10. /\ ForwardedHeap(mem[t][o], f, e2) /\ Heap(mem', e2, Starts, rem_limit, fresh, i)
       /\ SameObjects(f.mem, mem', e2)
       /\ Cardinality(Copied(mem', e2, i)) = f.next - p
       /\ \A g1 \in Gens : \A x \in Starts[g1] .. rem_limit[g1] - 1 : mem'[g1][x] = mem[g1][x]
       /\ Roots(mem', e2, frames)
  BY <1>u, FieldForwarded DEF Updated
<1>11. Starts' = Starts
  BY <1>1, <1>3 DEF Starts
<1>12. Objects' /\ Fields(mem, Ends)' /\ Entries(mem, Ends, Starts, rem_limit)'
  BY <1>1, <1>3, <1>10, <1>11 DEF Objects, Heap
<1>13. Counted' /\ Roots(mem, Ends, frames)'
  BY <1>1, <1>3, <1>10 DEF Counted
<1>14. Covered'
  <2> SUFFICES ASSUME NEW g1, NEW h1, NEW o1, Younger(mem', Ends', g1, h1, o1)
               PROVE  IF mem'[g1][o1][2] = i THEN Pending(g1, o1)'
                      ELSE Cell(g1, o1) \in Remembered(mem', mem'[g1][o1][2],
                                Starts[mem'[g1][o1][2]], rem_limit[mem'[g1][o1][2]])
    BY <1>1, <1>3, <1>11 DEF Covered
  <2> DEFINE y == mem'[g1][o1][2]
  <2>1. /\ g1 \in Gens /\ o1 \in Nat /\ y \in Gens
        /\ y = i => Pending(g1, o1) /\ ~ (g1 = t /\ o1 = o)
        /\ y # i => \/ Cell(g1, o1) \in Remembered(mem, y, Starts[y], rem_limit[y])
                    \/ g1 = t /\ o1 = o /\ y = t
    <3>1. LeftAfter(t, o, f, e2, mem')
      BY <1>u, FieldCovered
    <3> QED BY <1>3, <3>1 DEF LeftAfter
  <2>2. y < g1
    BY DEF Younger
  <2> HIDE DEF y
  <2>3. CASE y = i
    <3>1. g1 = t /\ o1 >= o
      BY <1>1, <1>8, <2>1, <2>3 DEF Pending
    <3>2. o1 >= o + 1
      BY <1>8, <2>1, <2>3, <3>1
    <3>3. Pending(g1, o1)'
      BY <1>1, <1>8, <3>1, <3>2 DEF Pending
    <3> QED BY <2>3, <3>3 DEF y
  <2>4. CASE y # i
    <3>1. Cell(g1, o1) \in Remembered(mem, y, Starts[y], rem_limit[y])
      BY <1>3, <2>1, <2>2, <2>4
    <3>2. Remembered(mem', y, Starts[y], rem_limit[y]) = Remembered(mem, y, Starts[y], rem_limit[y])
      BY <1>10, <2>1, RememberedSame
    <3> QED BY <2>4, <3>1, <3>2 DEF y
  <2> QED BY <2>3, <2>4
<1>15. RootsDone'
  BY <1>1 DEF HeapInv, RootsDone, Roots
<1>16. Cursors'
  <2>1. /\ p = f.next \/ IsHead(mem', e2, t, p)
        /\ IsHead(mem', e2, t, s) /\ mem'[t][s] = mem[t][s]
    BY <1>2, <1>4, <1>10, <1>f, CursorsKept DEF ForwardedHeap
  <2>2. p' = next'[i' + 1] \/ IsHead(mem', Ends', i' + 1, p')
    BY <1>1, <1>3, <2>1
  <2>3. fr' \in 0 .. Top' /\ s' \in Nat /\ j' \in Nat \ {0} /\ fr' = 0
    <3>1. Top' = Top
      BY <1>1 DEF Top
    <3> QED BY <1>1, <1>4, <3>1 DEF HeapInv, Cursors
  <2>4. IsHead(mem', Ends', t, s') /\ j' <= mem'[t][s'][3] + 1
    <3>1. j + 1 <= z + 1
      <4> HIDE DEF z
      <4> QED BY <1>1, <1>4
    <3> QED BY <1>1, <1>3, <2>1, <3>1
  <2> QED BY <1>1, <2>2, <2>3, <2>4 DEF Cursors
<1> QED
  BY <1>12, <1>13, <1>14, <1>15, <1>16 DEF HeapInv

\* An entry is of a field of an object of generation i, or of an older one.
LEMMA EntryFacts ==
    ASSUME Bounds, HeapInv, pc = "remset", q < rem_limit[i], NEW c, c = mem[i][q]
    PROVE  /\ c = Cell(c[2], c[3]) /\ c[2] \in Gens /\ c[3] \in Nat
           /\ c[2] = i => c[3] < limit[i]
           /\ c[2] # i => c[2] > i /\ \E h : Field(mem, Ends, c[2], h, c[3])
           /\ q \in Nat /\ Going /\ Source = i /\ ~ Owned /\ i \in Gens /\ i + 1 \in Gens /\ i \in Nat
           /\ q \in Starts[i] .. rem_limit[i] - 1
<1>1. /\ Going /\ i \in Gens /\ i + 1 \in Gens /\ i \in Nat /\ q \in Nat /\ limit[i] <= q
      /\ rem_limit[i] \in Nat /\ next[i] \in Nat /\ limit[i] \in Nat /\ next[i] <= limit[i]
  BY PolicyFacts DEF Going
<1>2. Source = i /\ ~ Owned /\ Ends[i] = next[i] /\ Starts[i] = limit[i]
  BY <1>1, EndsFacts DEF Source
<1>3. q \in Starts[i] .. rem_limit[i] - 1
  BY <1>1, <1>2
<1>4. Entry(mem, Ends, i, c)
  BY <1>1, <1>3 DEF HeapInv, Entries
<1>5. c = Cell(c[2], c[3]) /\ c[2] \in Gens /\ c[2] >= i
  BY <1>4 DEF Entry
<1>6. PICK h : /\ IsHead(mem, Ends, c[2], h) /\ (mem[c[2]][h] = Forwarded \/ mem[c[2]][h][4])
               /\ c[3] \in h + 1 .. h + SizeAt(mem, c[2], h)
  BY <1>4 DEF Entry
<1>7. Heap(mem, Ends, Starts, rem_limit, fresh, i)
  BY <1>2, HeapIs
<1>8. fresh \in Nat /\ Sized(mem, Ends, rem_limit) /\ Layout(mem, Ends, fresh) /\ FromOnly(mem, Ends, i)
  BY <1>7 DEF Heap
<1>9. /\ h \in Nat /\ SizeAt(mem, c[2], h) \in Nat /\ h + SizeAt(mem, c[2], h) < Ends[c[2]]
      /\ Ends[c[2]] \in Nat
      /\ mem[c[2]][h] # Forwarded => SizeAt(mem, c[2], h) = mem[c[2]][h][3]
  <2>1. IsHead(mem, Ends, c[2], h)
    BY <1>6
  <2> QED BY <1>8, <2>1, HeadFacts
<1>10. c[3] \in Nat /\ c[3] < Ends[c[2]]
  <2> DEFINE z == SizeAt(mem, c[2], h)
             y == c[3]
  <2>1. z \in Nat /\ y \in h + 1 .. h + z /\ h \in Nat /\ h + z < Ends[c[2]] /\ Ends[c[2]] \in Nat
    BY <1>6, <1>9
  <2> HIDE DEF z, y
  <2>2. y \in Nat /\ y < Ends[c[2]]
    BY <2>1
  <2> QED BY <2>2 DEF y
<1>11. c[2] = i => c[3] < limit[i]
  BY <1>1, <1>2, <1>10
<1>12. ASSUME c[2] # i PROVE c[2] > i /\ \E h0 : Field(mem, Ends, c[2], h0, c[3])
  <2>1. mem[c[2]][h] # Forwarded
    BY <1>6, <1>8, <1>12 DEF FromOnly
  <2>2. Field(mem, Ends, c[2], h, c[3])
    BY <1>6, <1>9, <2>1 DEF Field
  <2>3. c[2] \in Nat
    BY <1>5, GenerationsAssumption DEF Gens
  <2> QED BY <1>1, <1>5, <1>12, <2>2, <2>3
<1> QED
  BY <1>1, <1>2, <1>3, <1>5, <1>10, <1>11, <1>12

\* A cell that is not the one of the entry is still to be read after it.
LEMMA StillPending ==
    ASSUME Bounds, HeapInv, ForwardEntry, NEW g, NEW o, Pending(g, o),
           Cell(g, o) # mem[i][q],
           \A x \in Starts[i] .. rem_limit[i] - 1 : mem'[i][x] = mem[i][x]
    PROVE  Pending(g, o)'
<1>1. /\ pc = "remset" /\ q' = q + 1 /\ q < rem_limit[i]
      /\ UNCHANGED <<pc, i, p, s, j, fr, rem_limit>>
  BY DEF ForwardEntry, cursors
<1>2. Edge' = Edge
  BY <1>1 DEF Edge
<1>3. CASE g = i + 1 /\ o >= Edge
  BY <1>1, <1>2, <1>3 DEF Pending
<1>4. CASE Cell(g, o) \in Remembered(mem, i, q, rem_limit[i])
  <2>1. PICK x \in q .. rem_limit[i] - 1 : Cell(g, o) = mem[i][x]
    BY <1>4 DEF Remembered
  <2>2. q \in Nat /\ rem_limit[i] \in Nat /\ Starts[i] \in Nat /\ q \in Starts[i] .. rem_limit[i] - 1
    <3>1. i \in Gens
      BY PolicyFacts
    <3> QED BY <1>1, <3>1, EntryFacts, PolicyFacts, EndsFacts
  <2>3. x # q
    BY <2>1
  <2>4. x \in q + 1 .. rem_limit[i] - 1 /\ x \in Starts[i] .. rem_limit[i] - 1
    BY <2>2, <2>3
  <2>5. Cell(g, o) = mem'[i][x]
    BY <2>1, <2>4
  <2>6. Cell(g, o) \in Remembered(mem', i, q + 1, rem_limit[i])
    BY <2>4, <2>5 DEF Remembered
  <2> QED BY <1>1, <2>6 DEF Pending
<1> QED
  BY <1>3, <1>4 DEF Pending

\* An entry whose cell is in from-space is left behind with it.
LEMMA SkipEntryInv ==
    ASSUME Bounds, HeapInv, ForwardEntry, mem[i][q][2] = i
    PROVE  HeapInv'
<1> DEFINE c == mem[i][q]
<1>1. pc = "remset" /\ q < rem_limit[i]
  BY DEF ForwardEntry
<1>2. /\ c = Cell(c[2], c[3]) /\ c[3] < limit[i] /\ Going /\ Source = i
      /\ i \in Nat /\ ~ Owned
  BY <1>1, EntryFacts
<1>3. UNCHANGED <<mem, next, limit, created, rem_limit, alloc, ti_limit, nalloc, pc, i, p, frames, cursors, fresh>>
  BY <1>2 DEF ForwardEntry
<1>4. /\ Ends' = Ends /\ Starts' = Starts /\ Source' = Source /\ Going' /\ Top' = Top
      /\ fr' = fr /\ s' = s /\ j' = j
  BY <1>2, <1>3 DEF Ends, Starts, Source, Going, Owned, Top, cursors
<1>5. Objects' /\ Fields(mem, Ends)' /\ Entries(mem, Ends, Starts, rem_limit)' /\ Counted' /\ Roots(mem, Ends, frames)'
  BY <1>2, <1>3, <1>4 DEF HeapInv, Objects, Counted
<1>6. RootsDone' /\ Cursors'
  BY <1>1, <1>2, <1>3, <1>4 DEF HeapInv, RootsDone, Cursors
<1>7. Covered'
  <2> SUFFICES ASSUME NEW g, NEW h, NEW o, Younger(mem, Ends, g, h, o)
               PROVE  IF mem[g][o][2] = i THEN Pending(g, o)'
                      ELSE Cell(g, o) \in Remembered(mem, mem[g][o][2], Starts[mem[g][o][2]],
                                                     rem_limit[mem[g][o][2]])
    BY <1>3, <1>4 DEF Covered
  <2>1. IF mem[g][o][2] = i THEN Pending(g, o)
        ELSE Cell(g, o) \in Remembered(mem, mem[g][o][2], Starts[mem[g][o][2]],
                                       rem_limit[mem[g][o][2]])
    BY <1>2 DEF HeapInv, Covered
  <2>2. CASE mem[g][o][2] = i
    <3>1. g # i
      BY <1>2, <2>2 DEF Younger
    <3>2. Cell(g, o) # c
      BY <3>1, WordParts
    <3>3. Pending(g, o)'
      BY <1>3, <2>1, <2>2, <3>2, StillPending
    <3> QED BY <2>2, <3>3
  <2>3. CASE mem[g][o][2] # i
    BY <2>1, <2>3
  <2> QED BY <2>2, <2>3
<1> QED
  BY <1>5, <1>6, <1>7 DEF HeapInv

\* What an entry whose cell is in an older generation comes to.
EntryStep(c, f, e2, m) ==
    /\ c = mem[i][q] /\ f = Forward(mem[c[2]][c[3]]) /\ e2 = EndsAfter(f)
    /\ m = Written(f.mem, c[2], c[3], f.val)

\* Its cell is updated, and there is room for it in the next remembered set.
LEMMA OlderEntry ==
    ASSUME Bounds, HeapInv, ForwardEntry, NEW c, NEW f, NEW e2, NEW m,
           EntryStep(c, f, e2, m), c[2] # i
    PROVE  /\ \E h : Updated(c[2], h, c[3], f, e2, m)
           /\ LeftAfter(c[2], c[3], f, e2, m)
           /\ c = Cell(c[2], c[3]) /\ c[2] \in Gens /\ c[2] > i /\ c[3] \in Nat
           /\ Ends' = e2 /\ Source' = i /\ Source = i /\ Going /\ Going' /\ ~ Owned'
           /\ f.next \in Nat /\ e2[i + 1] = f.next /\ f.next < limit[i + 1]
           /\ i \in Gens /\ i + 1 \in Gens /\ i \in Nat
<1> DEFINE g == c[2]
           o == c[3]
<1>1. /\ pc = "remset" /\ q < rem_limit[i] /\ next' = [next EXCEPT ![i + 1] = f.next]
      /\ UNCHANGED <<pc, i, alloc>>
  BY DEF ForwardEntry, EntryStep
<1>2. c = mem[i][q] /\ f = Forward(mem[g][o]) /\ e2 = EndsAfter(f) /\ m = Written(f.mem, g, o, f.val)
  BY DEF EntryStep
<1>3. /\ c = Cell(g, o) /\ g \in Gens /\ o \in Nat /\ g > i /\ Going
      /\ i \in Gens /\ i + 1 \in Gens /\ i \in Nat
  BY <1>1, <1>2, EntryFacts
<1>4. PICK h : Field(mem, Ends, g, h, o)
  BY <1>1, <1>2, EntryFacts
<1>5. Edge \in Nat /\ Edge <= next[i + 1] + 1
  <2>1. Edge = p + 1
    BY <1>1 DEF Edge
  <2>2. p \in Nat /\ next[i + 1] \in Nat /\ p <= next[i + 1]
    BY <1>3, PolicyFacts
  <2> QED BY <2>1, <2>2
<1>6. Updating(g, h, o, f, e2, m)
  <2> HIDE DEF g, o
  <2> QED BY <1>2, <1>3, <1>4, <1>5 DEF Updating
<1>7. Updated(g, h, o, f, e2, m)
  BY <1>6, FieldForwarded
<1>8. LeftAfter(g, o, f, e2, m)
  BY <1>6, FieldCovered
<1>9. Ends' = e2 /\ Source' = i /\ Source = i /\ Going' /\ ~ Owned'
  BY <1>1, <1>2, <1>3, NextEnds
<1>10. /\ f.next \in Nat /\ e2[i + 1] = f.next /\ f.next >= next[i + 1]
       /\ f.next - next[i + 1] <= GP!Uncopied
  BY <1>7 DEF Updated, ForwardedHeap, Forwarding
<1>11. f.next < limit[i + 1]
  <2> DEFINE n == next[i + 1]
             l == limit[i + 1]
             u == GP!Uncopied
             r == rem_limit[i]
             a == f.next
  <2>1. n \in Nat /\ l \in Nat /\ u \in Nat /\ r \in Nat /\ q \in Nat
    BY <1>3, PolicyFacts
  <2>2. u + (r - q) <= l - n /\ q < r
    <3>1. q \in q .. rem_limit[i] - 1 /\ q <= rem_limit[i] /\ q < rem_limit[i]
      BY <1>1, <2>1
    <3>2. ~ OnlySkips
      BY <1>2, <3>1 DEF OnlySkips
    <3> QED BY <1>1, <3>1, <3>2, PolicyFacts
  <2>3. a \in Nat /\ a - n <= u
    BY <1>10
  <2> HIDE DEF n, l, u, r, a
  <2>4. a < l
    BY <2>1, <2>2, <2>3
  <2> QED BY <2>4 DEF a, l
<1> QED
  BY <1>3, <1>7, <1>8, <1>9, <1>10, <1>11

\* A cell that keeps its value is not remembered any more.
LEMMA KeptValueInv ==
    ASSUME Bounds, HeapInv, ForwardEntry, NEW c, NEW f, NEW e2, NEW m,
           EntryStep(c, f, e2, m), c[2] # i, f.val = mem[c[2]][c[3]]
    PROVE  HeapInv'
<1>1. PICK h : Updated(c[2], h, c[3], f, e2, m)
  BY OlderEntry
<1>2. /\ LeftAfter(c[2], c[3], f, e2, m)
      /\ c = Cell(c[2], c[3]) /\ c[2] \in Gens /\ c[2] > i /\ c[3] \in Nat
      /\ Ends' = e2 /\ Source' = i /\ Source = i /\ Going /\ Going' /\ ~ Owned'
      /\ i \in Gens /\ i + 1 \in Gens /\ i \in Nat
  BY OlderEntry
<1>3. /\ pc = "remset" /\ mem' = m /\ UNCHANGED <<limit, rem_limit, ti_limit, pc, i, p, frames, cursors, fresh>>
      /\ next' = [next EXCEPT ![i + 1] = f.next] /\ c = mem[i][q]
  <2>1. c = mem[i][q] /\ f = Forward(mem[c[2]][c[3]]) /\ m = Written(f.mem, c[2], c[3], f.val)
    BY DEF EntryStep
  <2> QED BY <2>1 DEF ForwardEntry
<1>4. Starts' = Starts /\ Top' = Top /\ fr' = fr /\ s' = s /\ j' = j
  BY <1>2, <1>3 DEF Starts, Top, cursors, Owned, Going
<1>5. /\ ForwardedHeap(mem[c[2]][c[3]], f, e2)
      /\ Heap(m, e2, Starts, rem_limit, fresh, i)
      /\ SameObjects(f.mem, m, e2) /\ Cardinality(Copied(m, e2, i)) = f.next - p
      /\ \A g1 \in Gens : \A x \in Starts[g1] .. rem_limit[g1] - 1 : m[g1][x] = mem[g1][x]
      /\ Roots(m, e2, frames)
  BY <1>1 DEF Updated
<1>6. Objects' /\ Fields(mem, Ends)' /\ Entries(mem, Ends, Starts, rem_limit)'
  BY <1>2, <1>3, <1>4, <1>5 DEF Objects, Heap
<1>7. next'[i + 1] = f.next
  BY <1>2, <1>3, NextEnds, PolicyFacts
<1>8. Counted' /\ Roots(mem, Ends, frames)'
  BY <1>2, <1>3, <1>5, <1>7 DEF Counted
<1>9. Covered'
  <2> SUFFICES ASSUME NEW g1, NEW h1, NEW o1, Younger(m, e2, g1, h1, o1)
               PROVE  IF m[g1][o1][2] = i THEN Pending(g1, o1)'
                      ELSE Cell(g1, o1) \in Remembered(m, m[g1][o1][2],
                                Starts[m[g1][o1][2]], rem_limit[m[g1][o1][2]])
    BY <1>2, <1>3, <1>4 DEF Covered
  <2> DEFINE y == m[g1][o1][2]
  <2>1. /\ g1 \in Gens /\ o1 \in Nat /\ y \in Gens
        /\ y = i => Pending(g1, o1) /\ ~ (g1 = c[2] /\ o1 = c[3])
        /\ y # i => \/ Cell(g1, o1) \in Remembered(mem, y, Starts[y], rem_limit[y])
                    \/ y = i + 1 /\ Into(mem[c[2]][c[3]], i) /\ Into(f.val, i + 1)
    BY <1>2 DEF LeftAfter
  <2> HIDE DEF y
  <2>2. CASE y = i
    <3>1. Cell(g1, o1) # mem[i][q]
      BY <1>2, <1>3, <2>1, <2>2, WordParts
    <3>2. Pending(g1, o1)'
      BY <1>2, <1>3, <1>5, <2>1, <2>2, <3>1, StillPending
    <3> QED BY <2>2, <3>2 DEF y
  <2>3. CASE y # i
    <3>1. ~ (Into(mem[c[2]][c[3]], i) /\ Into(f.val, i + 1))
      BY <1>2 DEF Into
    <3>2. Cell(g1, o1) \in Remembered(mem, y, Starts[y], rem_limit[y])
      BY <2>1, <2>3, <3>1
    <3>3. Remembered(m, y, Starts[y], rem_limit[y]) = Remembered(mem, y, Starts[y], rem_limit[y])
      BY <1>5, <2>1, RememberedSame
    <3> QED BY <2>3, <3>2, <3>3 DEF y
  <2> QED BY <2>2, <2>3
<1>10. RootsDone'
  BY <1>3 DEF RootsDone
<1>11. p = f.next \/ IsHead(m, e2, i + 1, p)
  <2>1. e2 = EndsAfter(f)
    BY DEF EntryStep
  <2> QED BY <1>2, <1>5, <2>1, CursorsKept DEF ForwardedHeap
<1>12. Cursors'
  <2>1. p' = next'[i' + 1] \/ IsHead(mem', Ends', i' + 1, p')
    BY <1>2, <1>3, <1>7, <1>11
  <2>2. fr \in 0 .. Top /\ s \in Nat /\ j \in Nat \ {0} /\ fr = 0 /\ s = 0
    BY <1>3 DEF HeapInv, Cursors
  <2> QED BY <1>3, <1>4, <2>1, <2>2 DEF Cursors
<1> QED
  BY <1>6, <1>8, <1>9, <1>10, <1>12 DEF HeapInv

\* A cell that changes is remembered in the next generation.
LEMMA ChangedValueInv ==
    ASSUME Bounds, HeapInv, ForwardEntry, NEW c, NEW f, NEW e2, NEW m,
           EntryStep(c, f, e2, m), c[2] # i, f.val # mem[c[2]][c[3]]
    PROVE  HeapInv'
<1> DEFINE t == i + 1
           to == limit[t] - 1
<1>1. PICK h : Updated(c[2], h, c[3], f, e2, m)
  BY OlderEntry
<1>2. /\ LeftAfter(c[2], c[3], f, e2, m)
      /\ c = Cell(c[2], c[3]) /\ c[2] \in Gens /\ c[2] > i /\ c[3] \in Nat
      /\ Ends' = e2 /\ Source' = i /\ Source = i /\ Going /\ Going' /\ ~ Owned'
      /\ f.next \in Nat /\ e2[t] = f.next /\ f.next < limit[t]
      /\ i \in Gens /\ t \in Gens /\ i \in Nat
  BY OlderEntry
<1>3. /\ pc = "remset" /\ mem' = Written(m, t, to, c) /\ limit' = [limit EXCEPT ![t] = to]
      /\ UNCHANGED <<rem_limit, ti_limit, pc, i, p, frames, cursors, fresh>>
      /\ next' = [next EXCEPT ![t] = f.next] /\ c = mem[i][q]
  <2>1. c = mem[i][q] /\ f = Forward(mem[c[2]][c[3]]) /\ m = Written(f.mem, c[2], c[3], f.val)
    BY DEF EntryStep
  <2> QED BY <2>1 DEF ForwardEntry
<1>4. Top' = Top /\ fr' = fr /\ s' = s /\ j' = j
  BY <1>3 DEF Top, cursors
<1>5. /\ ForwardedHeap(mem[c[2]][c[3]], f, e2)
      /\ Heap(m, e2, Starts, rem_limit, fresh, i)
      /\ SameObjects(f.mem, m, e2) /\ Cardinality(Copied(m, e2, i)) = f.next - p
      /\ \A g1 \in Gens : \A x \in Starts[g1] .. rem_limit[g1] - 1 : m[g1][x] = mem[g1][x]
      /\ Roots(m, e2, frames) /\ Field(m, e2, c[2], h, c[3])
  BY <1>1 DEF Updated
<1>6. /\ Starts = limit /\ Starts[t] = limit[t] /\ limit[t] \in Nat /\ rem_limit[t] \in Nat
      /\ limit[t] <= rem_limit[t] /\ to \in Nat /\ to < limit[t] /\ f.next <= to
  <2>1. limit[t] \in Nat /\ rem_limit[t] \in Nat /\ limit[t] <= rem_limit[t]
    BY <1>2, PolicyFacts
  <2>2. Starts = limit
    BY <1>2, EndsFacts, PolicyFacts DEF Starts
  <2>3. to \in Nat /\ to < limit[t] /\ f.next <= to
    <3> DEFINE l == limit[t]
               a == f.next
    <3>1. l \in Nat /\ a \in Nat /\ a < l
      BY <1>2, <2>1
    <3> HIDE DEF l, a
    <3>2. l - 1 \in Nat /\ l - 1 < l /\ a <= l - 1
      BY <3>1
    <3> QED BY <3>2 DEF l, a
  <2> QED BY <2>1, <2>2, <2>3
<1>7. Starts' = limit' /\ Starts'[t] = to /\ \A g1 \in Gens : g1 # t => Starts'[g1] = Starts[g1]
  <2>1. Starts' = [g1 \in Gens |-> limit'[g1]]
    BY <1>2 DEF Starts
  <2>2. \A g1 \in Gens : limit'[g1] = IF g1 = t THEN to ELSE limit[g1]
    BY <1>2, <1>3, PolicyFacts
  <2>3. limit' = [g1 \in Gens |-> limit'[g1]]
    BY <1>3, PolicyFacts
  <2> QED BY <1>2, <1>6, <2>1, <2>2, <2>3
<1>8. Entry(m, e2, t, c)
  <2>1. IsHead(m, e2, c[2], h) /\ m[c[2]][h][4] /\ c[3] \in h + 1 .. h + SizeAt(m, c[2], h)
    BY <1>5, FieldFacts DEF Field
  <2>2. c[2] >= t
    BY <1>2, GenerationsAssumption DEF Gens
  <2> QED BY <1>2, <2>1, <2>2 DEF Entry
<1>9. e2[t] < Starts[t]
  BY <1>2, <1>6
<1>10. /\ Heap(mem', e2, Starts', rem_limit, fresh, i) /\ SameObjects(m, mem', e2)
       /\ Differs(m, mem', rem_limit, t, to, c)
  <2> DEFINE x == to
             m3 == mem'
             first2 == Starts'
             t1 == t
  <2>1. t1 \in Gens /\ x = Starts[t1] - 1 /\ m3 = Written(m, t1, x, c) /\ first2[t1] = x
        /\ \A g1 \in Gens : g1 # t1 => first2[g1] = Starts[g1]
    BY <1>2, <1>3, <1>6, <1>7
  <2>2. Entry(m, e2, t1, c) /\ e2[t1] < Starts[t1]
    BY <1>8, <1>9
  <2> HIDE DEF x, m3, first2, t1, to
  <2>3. Heap(m3, e2, first2, rem_limit, fresh, i) /\ SameObjects(m, m3, e2) /\ Differs(m, m3, rem_limit, t1, x, c)
    BY <1>5, <2>1, <2>2, RememberHeap
  <2> QED BY <2>3 DEF x, m3, first2, t1
<1> HIDE DEF to
<1>11. ASSUME NEW g1 \in Gens, NEW o1 \in 0 .. rem_limit[g1] - 1, g1 # t \/ o1 # to
       PROVE  mem'[g1][o1] = m[g1][o1]
  BY <1>10, <1>11 DEF Differs
<1>12. Objects' /\ Fields(mem, Ends)' /\ Entries(mem, Ends, Starts, rem_limit)'
  BY <1>2, <1>3, <1>10 DEF Objects, Heap
<1>13. next'[t] = f.next
  BY <1>2, <1>3, NextEnds, PolicyFacts
<1>14. Counted' /\ Roots(mem, Ends, frames)'
  <2>1. Copied(mem', e2, i) = Copied(m, e2, i) /\ \A w : IsVal(mem', e2, w) <=> IsVal(m, e2, w)
    BY <1>10 DEF SameObjects
  <2> QED BY <1>2, <1>3, <1>5, <1>13, <2>1 DEF Counted, Roots
<1>15. Covered'
  <2> SUFFICES ASSUME NEW g1, NEW h1, NEW o1, Younger(mem', e2, g1, h1, o1)
               PROVE  IF mem'[g1][o1][2] = i THEN Pending(g1, o1)'
                      ELSE Cell(g1, o1) \in Remembered(mem', mem'[g1][o1][2],
                                Starts'[mem'[g1][o1][2]], rem_limit[mem'[g1][o1][2]])
    BY <1>2, <1>3 DEF Covered
  <2> DEFINE y == mem'[g1][o1][2]
  <2>1. Field(m, e2, g1, h1, o1) /\ g1 \in Gens /\ o1 \in 0 .. rem_limit[g1] - 1 /\ o1 < e2[g1]
        /\ o1 \in Nat /\ e2[g1] \in Nat
    <3>1. Field(m, e2, g1, h1, o1)
      BY <1>10 DEF Younger, SameObjects
    <3> QED BY <1>5, <3>1, FieldFacts
  <2>2. mem'[g1][o1] = m[g1][o1]
    <3>1. g1 # t \/ o1 # to
      BY <1>2, <1>6, <2>1
    <3> QED BY <1>11, <2>1, <3>1
  <2>3. Younger(m, e2, g1, h1, o1) /\ y = m[g1][o1][2]
    BY <2>1, <2>2 DEF Younger
  <2>4. /\ y \in Gens
        /\ y = i => Pending(g1, o1) /\ ~ (g1 = c[2] /\ o1 = c[3])
        /\ y # i => \/ Cell(g1, o1) \in Remembered(mem, y, Starts[y], rem_limit[y])
                    \/ g1 = c[2] /\ o1 = c[3] /\ y = t
    BY <1>2, <2>3 DEF LeftAfter
  <2> HIDE DEF y
  <2>5. CASE y = i
    <3>1. Cell(g1, o1) # mem[i][q]
      BY <1>2, <1>3, <2>4, <2>5, WordParts
    <3>2. \A x \in Starts[i] .. rem_limit[i] - 1 : mem'[i][x] = mem[i][x]
      <4>1. t # i /\ Starts[i] \in Nat /\ rem_limit[i] \in Nat
        BY <1>2, EndsFacts, PolicyFacts
      <4>2. \A x \in Starts[i] .. rem_limit[i] - 1 : x \in 0 .. rem_limit[i] - 1
        BY <4>1
      <4> QED BY <1>2, <1>5, <1>11, <4>1, <4>2
    <3>3. Pending(g1, o1)'
      BY <2>4, <2>5, <3>1, <3>2, StillPending
    <3> QED BY <2>5, <3>3 DEF y
  <2>6. ASSUME y # i, Cell(g1, o1) \in Remembered(mem, y, Starts[y], rem_limit[y])
        PROVE  Cell(g1, o1) \in Remembered(mem', y, Starts'[y], rem_limit[y])
    <3>1. PICK x \in Starts[y] .. rem_limit[y] - 1 : Cell(g1, o1) = mem[y][x]
      BY <2>6 DEF Remembered
    <3>2. Starts[y] \in Nat /\ rem_limit[y] \in Nat /\ (y # t => Starts'[y] = Starts[y])
      BY <1>7, <2>4, EndsFacts, PolicyFacts
    <3>3. x \in Starts'[y] .. rem_limit[y] - 1 /\ x \in 0 .. rem_limit[y] - 1 /\ (y # t \/ x # to)
      <4>1. CASE y # t
        BY <3>1, <3>2, <4>1
      <4>2. CASE y = t
        <5>1. x \in limit[t] .. rem_limit[t] - 1
          BY <1>6, <3>1, <4>2
        <5>2. x \in to .. rem_limit[t] - 1 /\ x \in 0 .. rem_limit[t] - 1 /\ x # to
          BY <1>6, <5>1
        <5> QED BY <1>7, <4>2, <5>2
      <4> QED BY <4>1, <4>2
    <3>4. mem'[y][x] = mem[y][x]
      BY <1>5, <1>11, <2>4, <3>1, <3>3
    <3> QED BY <3>1, <3>3, <3>4 DEF Remembered
  <2>7. ASSUME g1 = c[2], o1 = c[3], y = t
        PROVE  Cell(g1, o1) \in Remembered(mem', y, Starts'[y], rem_limit[y])
    <3>1. mem'[t][to] = Cell(g1, o1)
      BY <1>2, <1>10, <2>7 DEF Differs
    <3>2. to \in Starts'[t] .. rem_limit[t] - 1
      BY <1>6, <1>7
    <3> QED BY <2>7, <3>1, <3>2 DEF Remembered
  <2>8. CASE y # i
    <3>1. Cell(g1, o1) \in Remembered(mem', y, Starts'[y], rem_limit[y])
      BY <2>4, <2>6, <2>7, <2>8
    <3> QED BY <2>8, <3>1 DEF y
  <2> QED BY <2>5, <2>8
<1>16. RootsDone'
  BY <1>3 DEF RootsDone
<1>17. p = f.next \/ IsHead(mem', e2, t, p)
  <2>1. e2 = EndsAfter(f)
    BY DEF EntryStep
  <2>2. SameObjects(f.mem, mem', e2)
    BY <1>5, <1>10 DEF SameObjects
  <2>3. Forwarding(mem[c[2]][c[3]], f, e2)
    BY <1>5 DEF ForwardedHeap
  <2> QED BY <1>2, <2>1, <2>2, <2>3, CursorsKept
<1>18. Cursors'
  <2>1. p' = next'[i' + 1] \/ IsHead(mem', Ends', i' + 1, p')
    BY <1>2, <1>3, <1>13, <1>17
  <2>2. fr \in 0 .. Top /\ s \in Nat /\ j \in Nat \ {0} /\ fr = 0 /\ s = 0
    BY <1>3 DEF HeapInv, Cursors
  <2> QED BY <1>3, <1>4, <2>1, <2>2 DEF Cursors
<1> QED
  BY <1>12, <1>14, <1>15, <1>16, <1>18 DEF HeapInv

\* One entry of the remembered set.
LEMMA ForwardEntryInv ==
    ASSUME Bounds, HeapInv, ForwardEntry
    PROVE  HeapInv'
<1> DEFINE c == mem[i][q]
           f == Forward(mem[c[2]][c[3]])
           e2 == EndsAfter(f)
           m == Written(f.mem, c[2], c[3], f.val)
<1>1. EntryStep(c, f, e2, m)
  BY DEF EntryStep
<1>2. f.val = mem[c[2]][c[3]] \/ f.val # mem[c[2]][c[3]]
  OBVIOUS
<1>3. c[2] = i => HeapInv'
  BY SkipEntryInv
<1> HIDE DEF c, f, e2, m
<1> QED
  BY <1>1, <1>2, <1>3, KeptValueInv, ChangedValueInv

-----------------------------------------------------------------------------
(* The policy *)

\* A step of the policy, or none.
PolicyStep == [GP!Next]_(GP!vars)

\* Allocation takes the words of the object and of its header.
LEMMA NewPolicy ==
    ASSUME Bounds, NEW l, NEW fields, NEW scan, Len(fields) \in Nat, New(l, fields, scan)
    PROVE  PolicyStep
<1> DEFINE n == 1 + Len(fields)
<1>1. G!Allocate(n)
  BY DEF New
<1>2. n \in 1 .. ti_limit - alloc
  BY <1>1, PolicyFacts DEF G!Allocate
<1> HIDE DEF n
<1>3. GP!Allocate(n)
  BY <1>1 DEF G!Allocate, GP!Allocate
<1> QED
  BY <1>2, <1>3 DEF PolicyStep, GP!Next, GP!Mutator

\* A store takes a word for its entry if the value is a pointer, and asks for
\* that word even if it is not.
LEMMA ModifyPolicy ==
    ASSUME Bounds, NEW v, NEW f, NEW val, Store(v, f, val)
    PROVE  PolicyStep
<1>1. /\ pc = "mutator"
      /\ IF IsPtr(val)
         THEN G!Modify
         ELSE /\ pc' = IF alloc < ti_limit THEN pc ELSE "modifyAssertion"
              /\ UNCHANGED <<created, next, limit, rem_limit, alloc, ti_limit, nalloc, i, p, q>>
  BY DEF Store
<1>2. CASE IsPtr(val) \/ ~ (alloc < ti_limit)
  <2>1. GP!Modify
    BY <1>1, <1>2 DEF G!Modify, GP!Modify
  <2> QED BY <2>1 DEF PolicyStep, GP!Next, GP!Mutator
<1>3. CASE ~ IsPtr(val) /\ alloc < ti_limit
  <2>1. UNCHANGED GP!vars
    BY <1>1, <1>3 DEF GP!vars
  <2> QED BY <2>1 DEF PolicyStep
<1> QED
  BY <1>2, <1>3

\* What the policy does not see.
LEMMA NoPolicy == ASSUME UNCHANGED policy PROVE PolicyStep
BY DEF policy, PolicyStep, GP!vars

\* garbage_collect is called as in the policy.
LEMMA GcCallPolicy ==
    ASSUME NEW n \in Requests, GcCall(n)
    PROVE  PolicyStep
<1>1. GP!GcCall(n)
  BY DEF GcCall, G!GcCall, GP!GcCall
<1> QED
  BY <1>1 DEF PolicyStep, GP!Next, GP!Mutator

\* So are the steps of a collection that copy nothing.
LEMMA RoundPolicy ==
    ASSUME Create \/ RemsetDone \/ EndGeneration \/ Check
    PROVE  PolicyStep
<1>1. ASSUME Create PROVE GP!Create
  BY <1>1 DEF Create, G!Create, GP!Create, G!CreateSpace, GP!CreateSpace
<1>2. ASSUME RemsetDone PROVE GP!RemsetDone
  BY <1>2 DEF RemsetDone, G!RemsetDone, GP!RemsetDone
<1>3. ASSUME EndGeneration PROVE GP!EndGeneration
  BY <1>3 DEF EndGeneration, G!EndGeneration, GP!EndGeneration
<1>4. ASSUME Check PROVE GP!Check
  BY <1>4 DEF Check, G!Check, GP!Check, G!RoomFor, GP!RoomFor, G!Resume, GP!Resume,
              G!Return, GP!Return, G!NextGeneration, GP!NextGeneration
<1> QED
  BY <1>1, <1>2, <1>3, <1>4 DEF PolicyStep, GP!Next, GP!Collector

\* What forward copies is what the policy lets it copy.
LEMMA ForwardPolicy ==
    ASSUME Bounds, Going, NEW v, NEW f, NEW e2, Forwarding(v, f, e2),
           next' = [next EXCEPT ![i + 1] = f.next]
    PROVE  LET n == f.next - next[i + 1]
           IN  /\ n \in 0 .. GP!Uncopied
               /\ next' = [next EXCEPT ![i + 1] = @ + n]
               /\ n = 0 => next' = next
<1> DEFINE a == f.next
           b == next[i + 1]
           u == GP!Uncopied
<1>1. a \in Nat /\ a >= b /\ a - b <= u
  BY DEF Forwarding
<1>2. b \in Nat /\ u \in Nat /\ i + 1 \in Gens /\ next = [g \in Gens |-> next[g]]
  BY PolicyFacts
<1>3. next' = [next EXCEPT ![i + 1] = a]
  OBVIOUS
<1> HIDE DEF a, b, u
<1>4. a - b \in 0 .. u /\ a = b + (a - b) /\ (a - b = 0 => a = b)
  BY <1>1, <1>2
<1>5. next' = [next EXCEPT ![i + 1] = @ + (a - b)]
  <2>1. next[i + 1] = b
    BY DEF b
  <2> QED BY <1>3, <1>4, <2>1
<1>6. a = b => next' = next
  <2>1. next[i + 1] = b
    BY DEF b
  <2> QED BY <1>2, <1>3, <2>1
<1> QED
  BY <1>4, <1>5, <1>6 DEF a, b, u

\* A root or a field that is forwarded is a copy of some words, or of none.
LEMMA CopyPolicy ==
    ASSUME Bounds, pc = "copy", NEW v, NEW f, NEW e2, Forwarding(v, f, e2),
           next' = [next EXCEPT ![i + 1] = f.next],
           UNCHANGED <<created, limit, rem_limit, alloc, ti_limit, nalloc, pc, i, p, q>>
    PROVE  PolicyStep
<1> DEFINE n == f.next - next[i + 1]
<1>1. Going
  BY DEF Going
<1>2. n \in 0 .. GP!Uncopied /\ next' = [next EXCEPT ![i + 1] = @ + n] /\ (n = 0 => next' = next)
  BY <1>1, ForwardPolicy
<1> HIDE DEF n
<1>3. GP!Uncopied \in Nat
  BY <1>1, PolicyFacts
<1>4. CASE n = 0
  BY <1>2, <1>4, NoPolicy DEF policy
<1>5. CASE n # 0
  <2>1. n \in 1 .. GP!Uncopied
    BY <1>2, <1>3, <1>5
  <2>2. n <= GP!Uncopied
    BY <1>3, <2>1
  <2>3. GP!Copy(n)
    BY <1>2, <2>2 DEF GP!Copy
  <2> QED BY <2>1, <2>3 DEF PolicyStep, GP!Next, GP!Collector
<1> QED
  BY <1>4, <1>5

\* A slot of a frame.
LEMMA RootPolicy ==
    ASSUME Bounds, HeapInv, ForwardRoot
    PROVE  PolicyStep
<1> DEFINE v == frames[fr][j]
           f == Forward(v)
<1>1. /\ pc = "copy" /\ fr > 0 /\ next' = [next EXCEPT ![i + 1] = f.next]
      /\ UNCHANGED <<created, limit, rem_limit, alloc, ti_limit, nalloc, pc, i, p, q>>
  BY DEF ForwardRoot
<1>2. Going
  BY <1>1 DEF Going
<1>3. IsVal(mem, Ends, v)
  <2>1. fr \in DOMAIN frames /\ j \in Slots
    BY <1>1 DEF HeapInv, Cursors, Roots, Top
  <2> QED BY <2>1 DEF HeapInv, Roots
<1>4. Forwarding(v, f, [Ends EXCEPT ![i + 1] = f.next])
  BY <1>2, <1>3, ForwardFacts DEF HeapInv
<1> HIDE DEF f, v
<1> QED
  BY <1>1, <1>4, CopyPolicy

\* A field of a copy.
LEMMA ScanPolicy ==
    ASSUME Bounds, HeapInv, ScanField
    PROVE  PolicyStep
<1> DEFINE v == mem[i + 1][s + j]
           f == Forward(v)
<1>1. /\ next' = [next EXCEPT ![i + 1] = f.next]
      /\ UNCHANGED <<created, limit, rem_limit, alloc, ti_limit, nalloc, pc, i, p, q>>
  BY DEF ScanField
<1>2. pc = "copy" /\ Going /\ Field(mem, Ends, i + 1, s, s + j)
  BY ScannedField
<1>3. IsVal(mem, Ends, v)
  BY <1>2 DEF HeapInv, Fields
<1>4. Forwarding(v, f, [Ends EXCEPT ![i + 1] = f.next])
  BY <1>2, <1>3, ForwardFacts DEF HeapInv
<1> HIDE DEF f, v
<1> QED
  BY <1>1, <1>2, <1>4, CopyPolicy

\* An entry is dropped, or it is kept and some words are copied for it.
LEMMA EntryPolicy ==
    ASSUME Bounds, HeapInv, ForwardEntry
    PROVE  PolicyStep
<1> DEFINE c == mem[i][q]
           v == mem[c[2]][c[3]]
           f == Forward(v)
           e2 == EndsAfter(f)
           m == Written(f.mem, c[2], c[3], f.val)
           n == f.next - next[i + 1]
<1>1. /\ pc = "remset" /\ q < rem_limit[i] /\ q' = q + 1
      /\ UNCHANGED <<created, rem_limit, alloc, ti_limit, nalloc, pc, i, p>>
  BY DEF ForwardEntry
<1>2. c[2] = i => c[3] < limit[i]
  BY <1>1, EntryFacts
<1>3. CASE c[2] = i
  <2>1. next' = next /\ limit' = limit
    BY <1>2, <1>3 DEF ForwardEntry
  <2>2. GP!SkipEntry
    BY <1>1, <2>1 DEF GP!SkipEntry
  <2> QED BY <2>2 DEF PolicyStep, GP!Next, GP!Collector
<1>4. CASE c[2] # i
  <2>1. /\ next' = [next EXCEPT ![i + 1] = f.next]
        /\ IF f.val # v THEN limit' = [limit EXCEPT ![i + 1] = limit[i + 1] - 1] ELSE limit' = limit
    BY <1>4 DEF ForwardEntry
  <2>2. EntryStep(c, f, e2, m)
    BY DEF EntryStep
  <2> HIDE DEF f, e2, m
  <2>3. Forwarding(v, f, e2) /\ Going /\ i \in Nat
    <3>1. PICK h : Updated(c[2], h, c[3], f, e2, m)
      BY <1>4, <2>2, OlderEntry
    <3>2. Going /\ i \in Nat
      BY <1>4, <2>2, OlderEntry
    <3> QED BY <3>1, <3>2 DEF Updated, ForwardedHeap
  <2> HIDE DEF v, c
  <2>4. n \in 0 .. GP!Uncopied /\ next' = [next EXCEPT ![i + 1] = @ + n] /\ (n = 0 => next' = next)
    BY <2>1, <2>3, ForwardPolicy
  <2>5. CASE f.val # v
    <3>1. GP!Uncopied \in Nat
      BY <2>3, PolicyFacts
    <3> HIDE DEF n
    <3>2. n <= GP!Uncopied
      BY <2>4, <3>1
    <3>3. limit' = [limit EXCEPT ![i + 1] = @ - 1]
      BY <2>1, <2>5
    <3>4. GP!KeepEntry(n)
      BY <1>1, <2>4, <3>2, <3>3 DEF GP!KeepEntry
    <3> QED BY <2>4, <3>4 DEF PolicyStep, GP!Next, GP!Collector
  <2>6. CASE f.val = v
    <3>1. ~ Into(v, i)
      BY <2>3, <2>6 DEF Forwarding, Into
    <3>2. f.next = next[i + 1]
      BY <2>3, <3>1 DEF Forwarding
    <3>3. n = 0
      BY <2>3, <3>2, PolicyFacts
    <3>4. GP!SkipEntry
      BY <1>1, <2>1, <2>4, <2>6, <3>3 DEF GP!SkipEntry
    <3> QED BY <3>4 DEF PolicyStep, GP!Next, GP!Collector
  <2> QED BY <2>5, <2>6
<1> QED
  BY <1>3, <1>4

-----------------------------------------------------------------------------
(* Every step *)

\* A tuple is as long as its domain.
LEMMA TupleLength == ASSUME NEW n \in Nat, NEW S, NEW t \in [1 .. n -> S] PROVE Len(t) = n
<1>1. t \in Seq(S)
  BY SeqDef
<1>2. DOMAIN t = 1 .. Len(t) /\ Len(t) \in Nat /\ DOMAIN t = 1 .. n
  BY <1>1, LenProperties
<1> DEFINE l == Len(t)
<1>3. 1 .. l = 1 .. n /\ l \in Nat
  BY <1>2
<1> HIDE DEF l
<1>4. (l > 0 => l \in 1 .. n) /\ (n > 0 => n \in 1 .. l)
  BY <1>3
<1> QED
  BY <1>3, <1>4 DEF l

\* The objects that the mutator makes.
LEMMA MadeObject ==
    ASSUME Bounds, HeapInv, NEW l \in Slots, NEW n \in Sizes, NEW fields, NEW scan \in BOOLEAN,
           New(l, fields, scan),
           \/ scan /\ fields \in [1 .. n -> Live]
           \/ ~ scan /\ fields = [x \in 1 .. n |-> Raw]
    PROVE  NewObject(l, n, fields, scan)
<1>1. n \in Nat \ {0}
  BY ObjectsAssumption
<1>2. pc = "mutator" /\ ~ Going
  BY DEF New, G!Allocate, Going
<1>3. \A v \in Live : IsVal(mem, Ends, v)
  BY <1>2, MutatorFacts
<1>4. CASE scan /\ fields \in [1 .. n -> Live]
  <2>1. Len(fields) = n
    BY <1>1, <1>4, TupleLength
  <2>2. \A x \in 1 .. n : IsVal(mem, Ends, fields[x])
    BY <1>3, <1>4
  <2>3. \A x \in 1 .. n : fields[x][1] \in Tags \ HeaderTags
    BY <2>2, ValueTags
  <2> QED BY <1>1, <2>1, <2>2, <2>3 DEF NewObject
<1>5. CASE ~ scan /\ fields = [x \in 1 .. n |-> Raw]
  <2>1. Len(fields) = n
    <3>1. fields \in [1 .. n -> {Raw}]
      BY <1>5
    <3> QED BY <1>1, <3>1, TupleLength
  <2>2. Raw[1] \in Tags \ HeaderTags
    BY WordParts DEF Raw, Tags, HeaderTags
  <2>3. \A x \in 1 .. n : fields[x][1] \in Tags \ HeaderTags
    BY <1>5, <2>2
  <2> QED BY <1>1, <1>5, <2>1, <2>3 DEF NewObject
<1> QED
  BY <1>4, <1>5

\* A step of the mutator.
LEMMA MutatorStep ==
    ASSUME StoresYoung, GP!IInv, HeapInv, Mutator
    PROVE  PolicyStep /\ HeapInv'
<1>0. Bounds
  BY BoundsHold
<1> USE <1>0
<1>1. ASSUME NEW l \in Slots, NEW n \in Sizes, NEW fields, NEW scan \in BOOLEAN,
             New(l, fields, scan),
             \/ scan /\ fields \in [1 .. n -> Live]
             \/ ~ scan /\ fields = [x \in 1 .. n |-> Raw]
      PROVE  PolicyStep /\ HeapInv'
  <2>1. NewObject(l, n, fields, scan)
    BY <1>1, MadeObject
  <2>2. Len(fields) \in Nat
    BY <2>1 DEF NewObject
  <2> QED BY <1>1, <2>1, <2>2, NewInv, NewPolicy
<1>2. ASSUME NEW l \in Slots, NEW n \in Sizes, NEW fields \in [1 .. n -> Live], New(l, fields, TRUE)
      PROVE  PolicyStep /\ HeapInv'
  BY <1>1, <1>2
<1>3. ASSUME NEW l \in Slots, NEW n \in Sizes, New(l, [x \in 1 .. n |-> Raw], FALSE)
      PROVE  PolicyStep /\ HeapInv'
  BY <1>1, <1>3
<1>4. ASSUME NEW v \in LiveScanned, NEW f \in 1 .. HeaderIn(mem, v)[3], NEW l \in Slots, Load(l, v, f)
      PROVE  PolicyStep /\ HeapInv'
  <2>1. HeapInv'
    BY <1>4, LoadInv
  <2>2. UNCHANGED policy
    BY <1>4 DEF Load
  <2> QED BY <2>1, <2>2, NoPolicy
<1>5. ASSUME NEW v \in LiveScanned, NEW f \in 1 .. HeaderIn(mem, v)[3],
             NEW val \in Live \cup {Unboxed, Out}, Store(v, f, val)
      PROVE  PolicyStep /\ HeapInv'
  <2>1. HeapInv'
    BY <1>5, StoreInv
  <2>2. PolicyStep
    BY <1>5, ModifyPolicy
  <2> QED BY <2>1, <2>2
<1>6. ASSUME NEW l \in Slots, Drop(l) PROVE PolicyStep /\ HeapInv'
  BY <1>6, DropInv, NoPolicy DEF Drop
<1>7. ASSUME NEW v \in Live, Call(v) PROVE PolicyStep /\ HeapInv'
  BY <1>7, CallInv, NoPolicy DEF Call
<1>8. ASSUME NEW v \in Live, NEW l \in Slots, Return(l, v) PROVE PolicyStep /\ HeapInv'
  BY <1>8, ReturnInv, NoPolicy DEF Return
<1>9. ASSUME NEW n \in Requests, GcCall(n) PROVE PolicyStep /\ HeapInv'
  BY <1>9, GcCallInv, GcCallPolicy
<1> QED
  BY <1>2, <1>3, <1>4, <1>5, <1>6, <1>7, <1>8, <1>9 DEF Mutator

\* A step of the collector.
LEMMA CollectorStep ==
    ASSUME GP!IInv, HeapInv, Collector
    PROVE  PolicyStep /\ HeapInv'
<1>0. Bounds
  BY BoundsHold
<1> USE <1>0
<1>1. CASE Create
  <2>1. PolicyStep
    BY <1>1, RoundPolicy
  <2>2. Bounds'
    BY <2>1, PolicyKept, BoundsNext DEF PolicyStep
  <2> QED BY <1>1, <2>1, <2>2, CreateInv
<1>2. CASE EndGeneration
  <2>1. PolicyStep
    BY <1>2, RoundPolicy
  <2>2. Bounds'
    BY <2>1, PolicyKept, BoundsNext DEF PolicyStep
  <2> QED BY <1>2, <2>1, <2>2, EndGenerationInv
<1>3. CASE ForwardEntry
  BY <1>3, EntryPolicy, ForwardEntryInv
<1>4. CASE RemsetDone
  BY <1>4, RoundPolicy, RemsetDoneInv
<1>5. CASE ForwardRoot
  BY <1>5, RootPolicy, ForwardRootInv
<1>6. CASE ScanField
  BY <1>6, ScanPolicy, ScanFieldInv
<1>7. CASE ScanNext
  <2>1. UNCHANGED policy
    BY <1>7 DEF ScanNext
  <2> QED BY <1>7, <2>1, NoPolicy, ScanNextInv
<1>8. CASE Check
  BY <1>8, RoundPolicy, CheckInv
<1> QED
  BY <1>1, <1>2, <1>3, <1>4, <1>5, <1>6, <1>7, <1>8 DEF Collector

\* The stuttering steps.
LEMMA StutterInv == ASSUME HeapInv, UNCHANGED vars PROVE HeapInv'
<1>1. UNCHANGED <<created, next, limit, rem_limit, alloc, ti_limit, nalloc, pc, i, p, q,
                  mem, frames, fr, s, j, fresh>>
  BY DEF vars, policy, cursors
<1>2. Ends' = Ends /\ Starts' = Starts /\ Source' = Source /\ Going' = Going /\ Top' = Top
      /\ Edge' = Edge
  BY <1>1 DEF Ends, Starts, Source, Going, Owned, Top, Edge
<1>3. \A g, o : Pending(g, o)' <=> Pending(g, o)
  BY <1>1, <1>2 DEF Pending
<1>4. Objects' /\ Fields(mem, Ends)' /\ Counted' /\ Entries(mem, Ends, Starts, rem_limit)' /\ Roots(mem, Ends, frames)'
  BY <1>1, <1>2 DEF HeapInv, Objects, Counted
<1>5. Covered' /\ RootsDone' /\ Cursors'
  BY <1>1, <1>2, <1>3 DEF HeapInv, Covered, RootsDone, Cursors
<1> QED
  BY <1>4, <1>5 DEF HeapInv

\* Every step keeps to the policy, and keeps the invariant.
LEMMA StepInv ==
    ASSUME StoresYoung, GP!IInv, HeapInv, [Next]_vars
    PROVE  PolicyStep /\ GP!IInv' /\ HeapInv'
<1>1. PolicyStep /\ HeapInv'
  <2>1. CASE Mutator
    BY <2>1, MutatorStep
  <2>2. CASE Collector
    BY <2>2, CollectorStep
  <2>3. CASE UNCHANGED vars
    BY <2>3, NoPolicy, StutterInv DEF vars
  <2> QED BY <2>1, <2>2, <2>3 DEF Next, Halted
<1>2. GP!IInv'
  BY <1>1, PolicyKept DEF PolicyStep
<1> QED
  BY <1>1, <1>2

\* The heap that make_tinfo builds is empty.
LEMMA HeapInitInv == ASSUME Init PROVE HeapInv
<1> USE GenerationsAssumption
<1>1. /\ next = [g \in Gens |-> 0] /\ limit = [g \in Gens |-> IF g = 0 THEN NURSERY_SIZE ELSE 0]
      /\ rem_limit = limit /\ alloc = 0 /\ ti_limit = NURSERY_SIZE /\ pc = "mutator" /\ i = 0 /\ p = 0 /\ q = 0
      /\ mem = [g \in Gens |-> Space(rem_limit[g])] /\ frames = <<NewFrame(Unboxed)>>
      /\ fr = 0 /\ s = 0 /\ j = 1 /\ fresh = 1
  BY DEF Init, G!Init, G!Gens, Gens
<1>2. ~ Going /\ Owned
  BY <1>1 DEF Going, Owned
<1>3. \A g \in Gens : Ends[g] = 0 /\ rem_limit[g] \in Nat /\ Starts[g] = rem_limit[g]
  BY <1>1, <1>2 DEF Ends, Starts, Gens
<1>4. \A g, h : ~ IsHead(mem, Ends, g, h)
  BY <1>3 DEF IsHead
<1>5. \A g \in Gens : mem[g] = Space(rem_limit[g]) /\ DOMAIN mem[g] = 0 .. rem_limit[g] - 1
  BY <1>1 DEF Space
<1>6. \A g \in Gens : \A o \in 0 .. rem_limit[g] - 1 : mem[g][o] = Junk
  BY <1>5 DEF Space
<1>7. Sized(mem, Ends, rem_limit)
  BY <1>1, <1>3, <1>5 DEF Sized
<1>8. Tagged(mem, rem_limit)
  BY <1>6, WordParts DEF Tagged, Tags
<1>9. Objects
  BY <1>1, <1>4, <1>7, <1>8 DEF Objects, Layout, Unique, FromOnly
<1>10. Fields(mem, Ends) /\ Covered
  BY <1>4 DEF Fields, Covered, Younger, Field
<1>11. Entries(mem, Ends, Starts, rem_limit)
  BY <1>3 DEF Entries
<1>12. Roots(mem, Ends, frames) /\ Top = 1
  <2> DEFINE st == NewFrame(Unboxed)
  <2>1. st \in [Slots -> Values] /\ \A l \in Slots : st[l] = Unboxed
    BY DEF NewFrame, Slots, Values
  <2> HIDE DEF st
  <2>2. frames = <<st>>
    BY <1>1 DEF st
  <2>3. frames \in Seq([Slots -> Values]) /\ Len(frames) = 1 /\ DOMAIN frames = {1} /\ frames[1] = st
    BY <2>1, <2>2
  <2> QED BY <2>1, <2>3 DEF Roots, IsVal, Top
<1>13. Cursors
  BY <1>1, <1>2, <1>12 DEF Cursors
<1> QED
  BY <1>1, <1>2, <1>9, <1>10, <1>11, <1>12, <1>13 DEF HeapInv, Counted, RootsDone

\* The policy starts as it should.
LEMMA PolicyInit == ASSUME Init PROVE GP!Init /\ GP!IInv
<1>1. GP!Init
  BY DEF Init, G!Init, GP!Init, G!Gens, GP!Gens
<1> QED
  BY <1>1, GenerationsAssumption, GP!InitInv

\* The two instances of the policy have the same steps.
LEMMA SamePolicy == ASSUME [GP!Next]_(GP!vars) PROVE [G!Next]_(G!vars)
<1>1. \A n : GP!Allocate(n) => G!Allocate(n)
  BY DEF G!Allocate, GP!Allocate
<1>2. GP!Modify => G!Modify
  BY DEF G!Modify, GP!Modify
<1>3. \A n : GP!GcCall(n) => G!GcCall(n)
  BY DEF G!GcCall, GP!GcCall
<1>4. GP!Create => G!Create
  BY DEF G!Create, GP!Create, G!CreateSpace, GP!CreateSpace
<1>5. GP!SkipEntry => G!SkipEntry
  BY DEF G!SkipEntry, GP!SkipEntry
<1>6. GP!Uncopied = G!Uncopied
  BY DEF G!Uncopied, GP!Uncopied
<1>7. \A n : GP!KeepEntry(n) => G!KeepEntry(n)
  BY <1>6 DEF G!KeepEntry, GP!KeepEntry
<1>8. GP!RemsetDone => G!RemsetDone
  BY DEF G!RemsetDone, GP!RemsetDone
<1>9. \A n : GP!Copy(n) => G!Copy(n)
  BY <1>6 DEF G!Copy, GP!Copy
<1>10. GP!EndGeneration => G!EndGeneration
  BY DEF G!EndGeneration, GP!EndGeneration
<1>11. GP!Check => G!Check
  BY DEF G!Check, GP!Check, G!RoomFor, GP!RoomFor, G!Resume, GP!Resume,
         G!Return, GP!Return, G!NextGeneration, GP!NextGeneration
<1>12. GP!Mutator => G!Mutator
  BY <1>1, <1>2, <1>3 DEF G!Mutator, GP!Mutator
<1>13. GP!Collector => G!Collector
  BY <1>4, <1>5, <1>6, <1>7, <1>8, <1>9, <1>10, <1>11 DEF G!Collector, GP!Collector
<1>14. GP!vars = G!vars
  BY DEF G!vars, GP!vars
<1>15. GP!Halted => G!Halted
  BY <1>14 DEF G!Halted, GP!Halted, G!Aborts, GP!Aborts, G!vars, GP!vars
<1>16. GP!Next => G!Next
  BY <1>12, <1>13, <1>15 DEF G!Next, GP!Next
<1>17. (UNCHANGED GP!vars) => UNCHANGED G!vars
  BY DEF G!vars, GP!vars
<1> QED
  BY <1>16, <1>17

-----------------------------------------------------------------------------
(* What is live *)

\* Every set of naturals that is not empty has a least element.
LEMMA LeastNat ==
    ASSUME NEW T, T \subseteq Nat, T # {}
    PROVE  \E n \in T : \A m \in T : n <= m
<1> DEFINE R == OpToRel(<, Nat)
<1>1. IsWellFoundedOn(R, Nat)
  BY NatLessThanWellFounded
<1>2. \A x, y \in Nat : <<x, y>> \in R <=> x < y
  BY DEF OpToRel
<1> HIDE DEF R
<1>3. PICK n \in T : \A m \in T : ~ (<<m, n>> \in R)
  BY <1>1, WFMin
<1>4. ASSUME NEW m \in T PROVE n <= m
  <2>1. m \in Nat /\ n \in Nat
    OBVIOUS
  <2>2. ~ (m < n)
    BY <1>2, <1>3, <2>1
  <2> QED BY <2>1, <2>2
<1> QED
  BY <1>4

\* One more step from the pointers b.
Children(m, v) == PointersIn(m, FieldsOf(m, v))
Grown(m, b) == b \cup UNION {Children(m, v) : v \in b}
RootPtrs(m, st) == PointersIn(m, UNION {Range(st[a]) : a \in DOMAIN st})

\* f[d] is what is reached from the roots in d steps.
Reached(f, m, st, n) ==
    f = [d \in 0 .. n |-> IF d = 0 THEN RootPtrs(m, st) ELSE Grown(m, f[d - 1])]

\* There is such a function.
LEMMA ReachedExists == ASSUME NEW m, NEW st PROVE \A n \in Nat : \E f : Reached(f, m, st, n)
<1> DEFINE T == {n \in Nat : ~ \E f : Reached(f, m, st, n)}
<1>1. SUFFICES ASSUME T # {} PROVE FALSE
  OBVIOUS
<1>2. PICK n \in T : \A a \in T : n <= a
  BY <1>1, LeastNat, T \subseteq Nat
<1>3. CASE n = 0
  <2> DEFINE f == [d \in 0 .. 0 |-> RootPtrs(m, st)]
  <2>1. \A d \in 0 .. 0 : d = 0
    OBVIOUS
  <2>2. Reached(f, m, st, 0)
    BY <2>1 DEF Reached
  <2> QED BY <1>2, <1>3, <2>2
<1>4. CASE n # 0
  <2>1. n - 1 \in Nat /\ ~ (n <= n - 1)
    BY <1>2, <1>4
  <2>2. PICK g : Reached(g, m, st, n - 1)
    BY <1>2, <2>1
  <2> DEFINE f == [d \in 0 .. n |-> IF d = 0 THEN RootPtrs(m, st) ELSE Grown(m, g[d - 1])]
  <2>3. ASSUME NEW d \in 0 .. n, d # 0 PROVE f[d - 1] = g[d - 1]
    <3> DEFINE e == d - 1
    <3>1. e \in 0 .. n - 1 /\ e \in 0 .. n
      BY <1>2, <2>3
    <3> HIDE DEF e
    <3>2. g[e] = IF e = 0 THEN RootPtrs(m, st) ELSE Grown(m, g[e - 1])
      BY <2>2, <3>1 DEF Reached
    <3>3. f[e] = g[e]
      BY <3>1, <3>2
    <3> QED BY <3>3 DEF e
  <2>4. f = [d \in 0 .. n |-> IF d = 0 THEN RootPtrs(m, st) ELSE Grown(m, f[d - 1])]
    BY <2>3
  <2>5. Reached(f, m, st, n)
    <3> HIDE DEF f
    <3> QED BY <2>4 DEF Reached
  <2> QED BY <1>2, <2>5
<1> QED
  BY <1>3, <1>4

\* It is what LivePtrs computes.
LEMMA LiveReached ==
    ASSUME NEW m, NEW st
    PROVE  \E f : Reached(f, m, st, Cardinality(Ids)) /\ LivePtrs(m, st) = f[Cardinality(Ids)]
<1> DEFINE n == Cardinality(Ids)
           Eq(f) == f = [d \in 0 .. n |-> IF d = 0 THEN RootPtrs(m, st) ELSE Grown(m, f[d - 1])]
           after == CHOOSE f : Eq(f)
<1>1. n \in Nat
  BY ObjectsAssumption, FS_CardinalityType
<1>2. PICK h : Reached(h, m, st, n)
  <2> HIDE DEF n
  <2> QED BY <1>1, ReachedExists
<1>3. LivePtrs(m, st) = after[n]
  BY DEF LivePtrs, Closure, RootPtrs, Grown, Children
<1>4. Eq(h)
  BY <1>2 DEF Reached
<1> HIDE DEF Eq
<1>5. Eq(after)
  BY <1>4
<1> HIDE DEF after
<1>6. Reached(after, m, st, n)
  BY <1>5 DEF Eq, Reached
<1> QED
  BY <1>3, <1>6

\* What it takes to read the heap m, in use up to e.
Readable(m, e, r, n, k) ==
    /\ n \in Nat /\ Sized(m, e, r) /\ Layout(m, e, n) /\ Unique(m, e)
    /\ FromOnly(m, e, k) /\ Tagged(m, r) /\ Fields(m, e)

\* The heap is always readable.
LEMMA ReadableNow ==
    ASSUME HeapInv
    PROVE  Readable(mem, Ends, rem_limit, fresh, Source) /\ Roots(mem, Ends, frames)
BY DEF HeapInv, Objects, Readable

\* A pointer to an object that is where the program will find it.
Settled(m, e, v) == IsObj(m, e, v) /\ HeaderIn(m, v) # Forwarded

\* A value that is a pointer comes to such a one.
LEMMA ResolveSettles ==
    ASSUME NEW m, NEW e, NEW r, NEW n, NEW k, Readable(m, e, r, n, k),
           NEW w, IsVal(m, e, w), IntoHeap(w)
    PROVE  Settled(m, e, Resolve(m, w))
<1>1. FromOnly(m, e, k)
  BY DEF Readable
<1>2. IsObj(m, e, w)
  BY WordParts DEF IsVal, IntoHeap
<1>3. CASE HeaderIn(m, w) # Forwarded
  BY <1>2, <1>3 DEF Settled, Resolve
<1>4. CASE HeaderIn(m, w) = Forwarded
  <2> DEFINE h == w[3] - 1
             g == w[2]
             v == m[g][h + 1]
  <2>1. IsHead(m, e, g, h) /\ w[3] \in Nat
    BY <1>2 DEF IsObj
  <2>2. m[g][h] = Forwarded
    BY <1>4 DEF HeaderIn
  <2>3. g = k /\ IsObj(m, e, v) /\ v[2] = k + 1
    BY <1>1, <2>1, <2>2 DEF FromOnly
  <2>4. k \in Nat
    BY <2>1, <2>3, GenerationsAssumption DEF IsHead, Gens
  <2>5. FieldIn(m, w, 1) = v
    <3>1. w[3] + 1 - 1 = w[3] - 1 + 1
      BY <2>1
    <3> QED BY <3>1 DEF FieldIn
  <2>6. HeaderIn(m, v) # Forwarded
    <3>1. IsHead(m, e, v[2], v[3] - 1)
      BY <2>3 DEF IsObj
    <3>2. v[2] # k
      BY <2>3, <2>4
    <3> HIDE DEF v
    <3> QED BY <1>1, <3>1, <3>2 DEF FromOnly, HeaderIn
  <2> QED BY <1>4, <2>3, <2>5, <2>6 DEF Settled, Resolve
<1> QED
  BY <1>3, <1>4

\* Its header and its fields, which are values.
LEMMA SettledFields ==
    ASSUME NEW m, NEW e, NEW r, NEW n, NEW k, Readable(m, e, r, n, k),
           NEW v, Settled(m, e, v)
    PROVE  /\ v = Ptr(v[2], v[3]) /\ v[3] \in Nat /\ IsHead(m, e, v[2], v[3] - 1)
           /\ IsHeader(HeaderIn(m, v)) /\ HeaderIn(m, v) = m[v[2]][v[3] - 1]
           /\ HeaderIn(m, v)[3] \in Nat /\ HeaderIn(m, v)[4] \in BOOLEAN
           /\ HeaderIn(m, v)[2] \in Given(n)
           /\ \A f \in 1 .. HeaderIn(m, v)[3] :
                 /\ v[3] + f - 1 \in 0 .. e[v[2]] - 1
                 /\ v[3] + f - 1 \in (v[3] - 1) + 1 .. (v[3] - 1) + SizeAt(m, v[2], v[3] - 1)
                 /\ HeaderIn(m, v)[4] =>
                       /\ Field(m, e, v[2], v[3] - 1, v[3] + f - 1)
                       /\ IsVal(m, e, FieldIn(m, v, f))
<1> DEFINE g == v[2]
           o == v[3]
           h == o - 1
           hd == m[g][h]
           z == hd[3]
           last == e[g]
<1>1. v = Ptr(g, o) /\ o \in Nat /\ IsHead(m, e, g, h) /\ hd # Forwarded /\ HeaderIn(m, v) = hd
  BY DEF Settled, IsObj, HeaderIn
<1>2. n \in Nat /\ Sized(m, e, r) /\ Layout(m, e, n) /\ Fields(m, e)
  BY DEF Readable
<1>3. /\ h \in Nat /\ z \in Nat /\ IsHeader(hd) /\ hd[4] \in BOOLEAN /\ hd[2] \in Given(n)
      /\ h + z < last /\ last \in Nat /\ SizeAt(m, g, h) = z
  <2>1. /\ h \in Nat /\ SizeAt(m, g, h) \in Nat /\ SizeAt(m, g, h) = hd[3] /\ IsHeader(hd)
        /\ hd[4] \in BOOLEAN /\ hd[2] \in Given(n)
        /\ h + SizeAt(m, g, h) < e[g] /\ e[g] \in Nat
    BY <1>1, <1>2, HeadFacts
  <2> QED BY <2>1
<1>4. ASSUME NEW f \in 1 .. z
      PROVE  /\ o + f - 1 \in 0 .. last - 1 /\ o + f - 1 \in h + 1 .. h + z
             /\ hd[4] => Field(m, e, g, h, o + f - 1) /\ IsVal(m, e, FieldIn(m, v, f))
  <2>1. o + f - 1 \in h + 1 .. h + z /\ o + f - 1 \in 0 .. last - 1
    <3> HIDE DEF z, o, last
    <3> QED BY <1>1, <1>3
  <2>2. hd[4] => Field(m, e, g, h, o + f - 1)
    BY <1>1, <2>1 DEF Field
  <2>3. hd[4] => IsVal(m, e, m[g][o + f - 1])
    BY <1>2, <2>2 DEF Fields
  <2> QED BY <2>1, <2>2, <2>3 DEF FieldIn
<1> QED
  BY <1>1, <1>3, <1>4

\* The roots are values.
LEMMA RootsAreValues ==
    ASSUME NEW m, NEW e, NEW st, Roots(m, e, st)
    PROVE  \A a \in DOMAIN st : st[a] \in [Slots -> Values] /\ \A w \in Range(st[a]) : IsVal(m, e, w)
<1> SUFFICES ASSUME NEW a \in DOMAIN st
             PROVE  st[a] \in [Slots -> Values] /\ \A w \in Range(st[a]) : IsVal(m, e, w)
  OBVIOUS
<1>1. st[a] \in [Slots -> Values]
  BY DEF Roots
<1>2. ASSUME NEW w \in Range(st[a]) PROVE IsVal(m, e, w)
  <2>1. PICK l \in Slots : w = st[a][l]
    BY <1>1 DEF Range
  <2> QED BY <2>1 DEF Roots
<1> QED
  BY <1>1, <1>2

\* The fields of the objects of settled pointers are values.
LEMMA FieldsAreValues ==
    ASSUME NEW m, NEW e, NEW r, NEW n, NEW k, Readable(m, e, r, n, k),
           NEW v, Settled(m, e, v)
    PROVE  \A w \in FieldsOf(m, v) : IsVal(m, e, w)
<1> SUFFICES ASSUME NEW w \in FieldsOf(m, v) PROVE IsVal(m, e, w)
  OBVIOUS
<1>1. HeaderIn(m, v)[4] /\ \E x \in 1 .. HeaderIn(m, v)[3] : w = FieldIn(m, v, x)
  BY DEF FieldsOf
<1>2. PICK x \in 1 .. HeaderIn(m, v)[3] : w = FieldIn(m, v, x)
  BY <1>1
<1> QED BY <1>1, <1>2, SettledFields

\* Only such pointers are live, and in every step of the search.
LEMMA ReachedSettled ==
    ASSUME NEW m, NEW e, NEW r, NEW n, NEW k, Readable(m, e, r, n, k),
           NEW st, Roots(m, e, st), NEW f, NEW z \in Nat, Reached(f, m, st, z)
    PROVE  \A d \in 0 .. z : \A v \in f[d] : Settled(m, e, v)
<1>3. ASSUME NEW values, \A w \in values : IsVal(m, e, w)
      PROVE  \A v \in PointersIn(m, values) : Settled(m, e, v)
  BY <1>3, ResolveSettles DEF PointersIn
<1>4. \A v \in RootPtrs(m, st) : Settled(m, e, v)
  <2> DEFINE values == UNION {Range(st[a]) : a \in DOMAIN st}
  <2>1. \A w \in values : IsVal(m, e, w)
    BY RootsAreValues
  <2> HIDE DEF values
  <2>2. \A v \in PointersIn(m, values) : Settled(m, e, v)
    BY <1>3, <2>1
  <2> QED BY <2>2 DEF values, RootPtrs
<1>5. ASSUME NEW v, Settled(m, e, v) PROVE \A u \in Children(m, v) : Settled(m, e, u)
  BY <1>3, <1>5, FieldsAreValues DEF Children
<1>6. ASSUME NEW b, \A v \in b : Settled(m, e, v) PROVE \A v \in Grown(m, b) : Settled(m, e, v)
  BY <1>5, <1>6 DEF Grown
<1> DEFINE T == {d \in Nat : d <= z /\ ~ \A v \in f[d] : Settled(m, e, v)}
<1>7. T = {}
  <2>1. SUFFICES ASSUME T # {} PROVE FALSE
    OBVIOUS
  <2>2. PICK d \in T : \A a \in T : d <= a
    BY <2>1, LeastNat, T \subseteq Nat
  <2>3. f[d] = IF d = 0 THEN RootPtrs(m, st) ELSE Grown(m, f[d - 1])
    BY <2>2 DEF Reached
  <2>4. CASE d = 0
    BY <1>4, <2>2, <2>3, <2>4
  <2>5. CASE d # 0
    <3>1. d - 1 \in Nat /\ d - 1 <= z /\ ~ (d <= d - 1)
      BY <2>2, <2>5
    <3>2. d - 1 \notin T
      BY <2>2, <3>1
    <3>3. \A v \in f[d - 1] : Settled(m, e, v)
      BY <3>1, <3>2
    <3>4. \A v \in f[d] : Settled(m, e, v)
      BY <1>6, <2>3, <2>5, <3>3
    <3> QED BY <2>2, <3>4
  <2> QED BY <2>4, <2>5
<1> QED
  BY <1>7

\* Only such pointers are live.
LEMMA LiveSettled ==
    ASSUME NEW m, NEW e, NEW r, NEW n, NEW k, Readable(m, e, r, n, k), NEW st, Roots(m, e, st)
    PROVE  \A v \in LivePtrs(m, st) : Settled(m, e, v)
<1> DEFINE z == Cardinality(Ids)
<1>1. PICK f : Reached(f, m, st, z) /\ LivePtrs(m, st) = f[z]
  BY LiveReached
<1>2. z \in Nat
  BY ObjectsAssumption, FS_CardinalityType
<1> HIDE DEF z
<1> QED
  BY <1>1, <1>2, ReachedSettled

-----------------------------------------------------------------------------
(* Theorems *)

\* The heap is well formed, and the policy kept, in every reachable state, if
\* no store makes an older generation point into a middle one.
THEOREM Invariance == StoresYoung => (Spec => [](GP!IInv /\ HeapInv))
<1> SUFFICES ASSUME StoresYoung PROVE Spec => [](GP!IInv /\ HeapInv)
  OBVIOUS
<1>1. Init => GP!IInv /\ HeapInv
  BY PolicyInit, HeapInitInv
<1>2. (GP!IInv /\ HeapInv) /\ [Next]_vars => (GP!IInv /\ HeapInv)'
  BY StepInv
<1> QED
  BY <1>1, <1>2, PTL DEF Spec

\* The collector keeps to its policy: what forward copies, for every root,
\* field and cell, is never more than what the generation held, whatever the
\* sizes of the objects and however they share.
THEOREM PolicyIsRefined == StoresYoung => (Spec => PolicyRefined)
<1> SUFFICES ASSUME StoresYoung PROVE Spec => PolicyRefined
  OBVIOUS
<1>1. Init => G!Init
  BY DEF Init
<1>2. GP!IInv /\ HeapInv /\ [Next]_vars => [G!Next]_(G!vars)
  <2> SUFFICES ASSUME GP!IInv, HeapInv, [Next]_vars PROVE [G!Next]_(G!vars)
    OBVIOUS
  <2>1. [GP!Next]_(GP!vars)
    BY StepInv DEF PolicyStep
  <2> QED BY <2>1, SamePolicy
<1>3. StoresYoung => (Spec => [](GP!IInv /\ HeapInv))
  BY Invariance
<1> QED
  BY <1>1, <1>2, <1>3, PTL DEF Spec, PolicyRefined, G!Spec

\* The words of every generation, the frames and the cursors are what they
\* should be.
THEOREM TypeCorrect == StoresYoung => (Spec => []TypeOK)
<1> SUFFICES ASSUME StoresYoung PROVE Spec => []TypeOK
  OBVIOUS
<1>1. GP!IInv /\ HeapInv => TypeOK
  <2> SUFFICES ASSUME GP!IInv, HeapInv PROVE TypeOK
    OBVIOUS
  <2>1. G!TypeOK
    BY DEF GP!IInv, GP!TypeOK, G!TypeOK, GP!Gens, G!Gens, GP!Collecting, G!Collecting,
           GP!Aborts, G!Aborts
  <2>2. G!Gens = Gens
    BY DEF G!Gens, Gens
  <2>3. \A g \in Gens : DOMAIN mem[g] = 0 .. rem_limit[g] - 1
    BY DEF HeapInv, Objects, Sized
  <2>4. \A g \in Gens : \A o \in DOMAIN mem[g] : mem[g][o][1] \in Tags
    BY <2>3 DEF HeapInv, Objects, Tagged
  <2>5. \A k \in DOMAIN frames : \A l \in Slots :
            frames[k][l] \in {Unboxed, Out} \/ IntoHeap(frames[k][l])
    BY DEF HeapInv, Roots, IsVal, IsObj
  <2>6. fr \in 0 .. Top /\ fresh \in Nat
    BY DEF HeapInv, Cursors, Objects
  <2>0. Bounds
    BY BoundsHold
  <2>7. i + 1 \in Gens /\ next[i + 1] \in Nat /\ p \in Nat /\ (Going => p <= next[i + 1])
    BY <2>0, PolicyFacts
  <2>8. CASE pc # "copy"
    <3>1. s = 0
      BY <2>8 DEF HeapInv, Cursors
    <3>2. s \in 0 .. next[i + 1]
      BY <2>7, <3>1
    <3> QED BY <2>1, <2>2, <2>3, <2>4, <2>5, <2>6, <2>8, <3>2 DEF TypeOK, Tags
  <2>9. CASE pc = "copy"
    <3>1. Going /\ Ends[i + 1] = next[i + 1]
      BY <2>0, <2>7, <2>9, EndsFacts DEF Going
    <3>2. s \in 0 .. next[i + 1]
      <4>1. CASE fr > 0
        <5>1. s \in {0, p}
          BY <2>9, <4>1 DEF HeapInv, Cursors
        <5> QED BY <2>7, <3>1, <5>1
      <4>2. CASE ~ (fr > 0)
        <5>1. fr = 0
          BY <2>9, <4>2 DEF HeapInv, Cursors, Top
        <5>2. s = next[i + 1] \/ s \in 0 .. next[i + 1] - 1
          BY <2>9, <3>1, <5>1 DEF HeapInv, Cursors, IsHead
        <5> QED BY <2>7, <5>2
      <4> QED BY <4>1, <4>2
    <3>3. IF fr > 0 THEN j \in Slots ELSE Scanning => j \in 1 .. mem[i + 1][s][3] + 1
      <4>1. CASE fr > 0
        BY <2>9, <4>1 DEF HeapInv, Cursors
      <4>2. ASSUME ~ (fr > 0), Scanning PROVE j \in 1 .. mem[i + 1][s][3] + 1
        <5> DEFINE z == mem[i + 1][s][3]
        <5>1. fr = 0 /\ s < next[i + 1]
          BY <4>2 DEF Scanning
        <5>2. IsHead(mem, Ends, i + 1, s) /\ j <= z + 1 /\ j \in Nat \ {0}
          BY <2>7, <2>9, <3>2, <5>1 DEF HeapInv, Cursors
        <5>3. z \in Nat
          <6>1. Heap(mem, Ends, Starts, rem_limit, fresh, i)
            BY <2>0, <3>1, HeapIs DEF Source
          <6>2. /\ fresh \in Nat /\ Sized(mem, Ends, rem_limit) /\ Layout(mem, Ends, fresh)
                /\ FromOnly(mem, Ends, i)
            BY <6>1 DEF Heap
          <6>3. mem[i + 1][s] # Forwarded
            <7>1. i + 1 # i
              BY <2>0, PolicyFacts
            <7> QED BY <5>2, <6>2, <7>1 DEF FromOnly
          <6>4. SizeAt(mem, i + 1, s) \in Nat /\ SizeAt(mem, i + 1, s) = z
            BY <5>2, <6>2, <6>3, HeadFacts
          <6> QED BY <6>4
        <5> HIDE DEF z
        <5>4. j \in 1 .. z + 1
          BY <5>2, <5>3
        <5> QED BY <5>4 DEF z
      <4> QED BY <4>1, <4>2
    <3> QED BY <2>1, <2>2, <2>3, <2>4, <2>5, <2>6, <2>9, <3>2, <3>3 DEF TypeOK, Tags
  <2> QED BY <2>8, <2>9
<1>2. StoresYoung => (Spec => [](GP!IInv /\ HeapInv))
  BY Invariance
<1> QED
  BY <1>1, <1>2, PTL

\* No object is ever in two places, however many roots, fields and remembered
\* cells reach it while it is copied.
THEOREM SharingIsPreserved == StoresYoung => (Spec => []SharingPreserved)
<1> SUFFICES ASSUME StoresYoung PROVE Spec => []SharingPreserved
  OBVIOUS
<1>1. GP!IInv /\ HeapInv => SharingPreserved
  <2> SUFFICES ASSUME GP!IInv, HeapInv,
                      NEW v \in LivePtrs(mem, frames), NEW w \in LivePtrs(mem, frames),
                      Identity(mem, v) = Identity(mem, w)
               PROVE  v = w
    BY DEF SharingPreserved
  <2>1. Settled(mem, Ends, v) /\ Settled(mem, Ends, w)
    BY ReadableNow, LiveSettled
  <2>2. ASSUME NEW u, Settled(mem, Ends, u)
        PROVE  /\ u = Ptr(u[2], u[3]) /\ u[3] \in Nat /\ IsHead(mem, Ends, u[2], u[3] - 1)
               /\ mem[u[2]][u[3] - 1] # Forwarded
               /\ Identity(mem, u) = mem[u[2]][u[3] - 1][2]
    <3>1. Resolve(mem, u) = u /\ HeaderIn(mem, u) # Forwarded
      BY <2>2 DEF Settled, Resolve
    <3>2. /\ u = Ptr(u[2], u[3]) /\ u[3] \in Nat /\ IsHead(mem, Ends, u[2], u[3] - 1)
          /\ IsHeader(HeaderIn(mem, u)) /\ HeaderIn(mem, u) = mem[u[2]][u[3] - 1]
      BY <2>2, ReadableNow, SettledFields
    <3> QED BY <3>1, <3>2 DEF Identity
  <2>3. v[2] = w[2] /\ v[3] - 1 = w[3] - 1
    <3>1. Unique(mem, Ends)
      BY DEF HeapInv, Objects
    <3> QED BY <2>1, <2>2, <3>1 DEF Unique
  <2>4. v[3] \in Nat /\ w[3] \in Nat /\ v = Ptr(v[2], v[3]) /\ w = Ptr(w[2], w[3])
    BY <2>1, <2>2
  <2> QED BY <2>3, <2>4
<1>2. StoresYoung => (Spec => [](GP!IInv /\ HeapInv))
  BY Invariance
<1> QED
  BY <1>1, <1>2, PTL

\* No live cell that points into a younger generation is forgotten: it is in
\* the remembered set of the generation that it points into.
THEOREM RememberedSetIsComplete == StoresYoung => (Spec => []RememberedSetComplete)
<1> SUFFICES ASSUME StoresYoung PROVE Spec => []RememberedSetComplete
  OBVIOUS
<1>1. GP!IInv /\ HeapInv => RememberedSetComplete
  <2> SUFFICES ASSUME GP!IInv, HeapInv, pc = "mutator",
                      NEW v \in LivePtrs(mem, frames), HeaderIn(mem, v)[4],
                      NEW f \in 1 .. HeaderIn(mem, v)[3],
                      IntoHeap(FieldIn(mem, v, f)), FieldIn(mem, v, f)[2] < v[2]
               PROVE  \E g \in 0 .. FieldIn(mem, v, f)[2] : Cell(v[2], v[3] + f - 1) \in RemsetOf(g)
    BY DEF RememberedSetComplete
  <2> DEFINE w == FieldIn(mem, v, f)
             g == w[2]
             o == v[3] + f - 1
  <2>1. Settled(mem, Ends, v)
    BY ReadableNow, LiveSettled
  <2>2. Field(mem, Ends, v[2], v[3] - 1, o) /\ IsVal(mem, Ends, w)
    BY <2>1, ReadableNow, SettledFields
  <2>3. w = mem[v[2]][o]
    BY DEF FieldIn
  <2>4. Younger(mem, Ends, v[2], v[3] - 1, o)
    BY <2>2, <2>3 DEF Younger
  <2>5. ~ Going /\ Owned
    BY DEF Going, Owned
  <2>6. Cell(v[2], o) \in Remembered(mem, g, Starts[g], rem_limit[g])
    BY <2>3, <2>4, <2>5 DEF HeapInv, Covered
  <2>7. g \in Gens
    <3>1. IsObj(mem, Ends, w)
      BY <2>2, WordParts DEF IsVal, IntoHeap
    <3> QED BY <3>1 DEF IsObj, IsHead
  <2>8. Starts[g] = IF g = 0 THEN ti_limit ELSE limit[g]
    BY <2>5, <2>7 DEF Starts
  <2>9. Cell(v[2], o) \in RemsetOf(g)
    BY <2>6, <2>8 DEF RemsetOf, Remembered
  <2>10. g \in 0 .. g
    BY <2>7, GenerationsAssumption DEF Gens
  <2> QED BY <2>9, <2>10
<1>2. StoresYoung => (Spec => [](GP!IInv /\ HeapInv))
  BY Invariance
<1> QED
  BY <1>1, <1>2, PTL
=============================================================================
