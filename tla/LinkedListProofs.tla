---------------------------- MODULE LinkedListProofs ----------------------------
(***************************************************************************)
(* Linked lists as sequences.  Walk is a recursive function; a sequence of *)
(* different nodes that are linked one to the next is what it computes,    *)
(* and is all a proof about a list has to deal with.  Behind this, what    *)
(* holds for every recursion over a sequence, and for the one of Those.    *)
(***************************************************************************)
EXTENDS LinkedLists, Selections, FiniteSetTheorems, SequenceTheorems, TLAPS

\* s is the list of nodes that begins at first and ends before end.
IsChain(nodes, first, nxt, s, end) ==
    /\ s \in Seq(nodes)
    /\ \A j, k \in 1 .. Len(s) : s[j] = s[k] => j = k
    /\ first = IF s = <<>> THEN end ELSE s[1]
    /\ \A k \in 1 .. Len(s) : nxt[s[k]] = IF k < Len(s) THEN s[k + 1] ELSE end

\* The nodes of a sequence.
Members(s) == {s[k] : k \in 1 .. Len(s)}

LEMMA LeastNumber ==
    ASSUME NEW T \in SUBSET Nat, T # {}
    PROVE  \E x \in T : \A y \in T : x <= y
<1>1. IsWellFoundedOn(StrictSubsetOrdering(Nat), FiniteSubsetsOf(Nat))
  BY FS_StrictSubsetOrderingWellFounded
<1>2. {1 .. x : x \in T} \subseteq FiniteSubsetsOf(Nat)
  <2>1. ASSUME NEW x \in T PROVE IsFiniteSet(1 .. x) /\ 1 .. x \subseteq Nat
    BY FS_Interval
  <2>2. QED
    BY <2>1 DEF FiniteSubsetsOf
<1>3. {1 .. x : x \in T} # {}
  OBVIOUS
<1>4. PICK U \in {1 .. x : x \in T} :
        \A V \in {1 .. x : x \in T} : <<V, U>> \notin StrictSubsetOrdering(Nat)
  BY <1>1, <1>2, <1>3, WFMin
<1>5. PICK x \in T : U = 1 .. x
  BY <1>4
<1>6. ASSUME NEW y \in T, y < x PROVE FALSE
  <2>1. /\ 1 .. y \subseteq 1 .. x /\ 1 .. y # 1 .. x
        /\ 1 .. y \in SUBSET Nat /\ 1 .. x \in SUBSET Nat
    <3>1. x \in 1 .. x /\ x \notin 1 .. y
      BY <1>6
    <3>2. QED
      BY <1>6, <3>1
  <2>2. <<1 .. y, 1 .. x>> \in StrictSubsetOrdering(Nat)
    BY <2>1 DEF StrictSubsetOrdering
  <2>3. QED
    BY <1>4, <1>5, <2>2
<1>7. QED
  BY <1>6

\* A chain is not longer than there are nodes.
LEMMA ChainMembers ==
    ASSUME NEW nodes, IsFiniteSet(nodes), NEW s \in Seq(nodes),
           \A j, k \in 1 .. Len(s) : s[j] = s[k] => j = k
    PROVE  /\ Len(s) \in Nat /\ Cardinality(nodes) \in Nat
           /\ Len(s) <= Cardinality(nodes)
           /\ Members(s) \subseteq nodes /\ IsFiniteSet(Members(s))
           /\ Cardinality(Members(s)) = Len(s)
<1>1. Len(s) \in Nat /\ s \in [1 .. Len(s) -> nodes] /\ Cardinality(nodes) \in Nat
  BY LenProperties, FS_CardinalityType
<1>2. Members(s) \subseteq nodes /\ s \in [1 .. Len(s) -> Members(s)]
  BY <1>1 DEF Members
<1>3. s \in Bijection(1 .. Len(s), Members(s))
  BY <1>2 DEF Bijection, Injection, Surjection, IsInjective, Members
<1>4. IsFiniteSet(1 .. Len(s)) /\ Cardinality(1 .. Len(s)) = Len(s)
  <2>1. 1 \in Int /\ Len(s) \in Int
    BY <1>1
  <2>2. IsFiniteSet(1 .. Len(s))
        /\ Cardinality(1 .. Len(s)) = IF 1 > Len(s) THEN 0 ELSE Len(s) - 1 + 1
    BY <2>1, FS_Interval
  <2>3. QED
    BY <1>1, <2>2
<1>5. IsFiniteSet(Members(s)) /\ Cardinality(Members(s)) = Cardinality(1 .. Len(s))
  BY <1>3, <1>4, FS_Bijection DEF ExistsBijection
<1>6. Cardinality(Members(s)) <= Cardinality(nodes)
  BY <1>2, FS_Subset
<1>7. QED
  BY <1>1, <1>2, <1>4, <1>5, <1>6

\* The recursive function of Walk follows the chain.
LEMMA ChainWalk ==
    ASSUME NEW nodes, IsFiniteSet(nodes), NEW first, NEW nxt, NEW s,
           NEW end, end \notin nodes, IsChain(nodes, first, nxt, s, end)
    PROVE  \A k \in 0 .. Cardinality(nodes) :
             Walk(nodes, first, nxt)[k] = IF k < Len(s) THEN s[k + 1] ELSE end
<1> DEFINE C == Cardinality(nodes)
           Follows(f) == f = [k \in 0 .. C |->
                                IF k = 0 THEN first
                                ELSE IF f[k - 1] \in nodes THEN nxt[f[k - 1]]
                                ELSE f[k - 1]]
           g == [k \in 0 .. C |-> IF k < Len(s) THEN s[k + 1] ELSE end]
           w == CHOOSE f : Follows(f)
<1>1. /\ Len(s) \in Nat /\ C \in Nat /\ s \in Seq(nodes)
      /\ \A k \in 1 .. Len(s) : s[k] \in nodes
  BY ChainMembers, ElementOfSeq DEF IsChain
<1>2. s = <<>> <=> Len(s) = 0
  BY <1>1, EmptySeq
<1>3. Follows(g)
  <2>1. ASSUME NEW k \in 0 .. C
        PROVE  g[k] = IF k = 0 THEN first
                      ELSE IF g[k - 1] \in nodes THEN nxt[g[k - 1]] ELSE g[k - 1]
    <3>1. CASE k = 0
      BY <1>1, <1>2, <3>1 DEF IsChain
    <3>2. CASE k # 0
      <4>1. k - 1 \in 0 .. C /\ g[k - 1] = IF k - 1 < Len(s) THEN s[k] ELSE end
        BY <1>1, <3>2
      <4>2. CASE k - 1 < Len(s)
        BY <1>1, <3>2, <4>1, <4>2 DEF IsChain
      <4>3. CASE ~(k - 1 < Len(s))
        BY <1>1, <3>2, <4>1, <4>3
      <4>4. QED
        BY <4>2, <4>3
    <3>3. QED
      BY <3>1, <3>2
  <2>2. QED
    BY <2>1
<1>4. Follows(w)
  BY <1>3
<1>5. Walk(nodes, first, nxt) = w
  BY DEF Walk
<1>6. \A k \in 0 .. C : w[k] = g[k]
  <2> DEFINE D == {k \in 0 .. C : w[k] # g[k]}
  <2> HIDE DEF w, g
  <2>1. SUFFICES ASSUME D # {} PROVE FALSE
    OBVIOUS
  <2>2. PICK k \in D : \A j \in D : k <= j
    <3>1. D \in SUBSET Nat
      BY <1>1
    <3> HIDE DEF D
    <3>2. QED
      BY <2>1, <3>1, LeastNumber
  <2>3. /\ w[k] = IF k = 0 THEN first
                  ELSE IF w[k - 1] \in nodes THEN nxt[w[k - 1]] ELSE w[k - 1]
        /\ g[k] = IF k = 0 THEN first
                  ELSE IF g[k - 1] \in nodes THEN nxt[g[k - 1]] ELSE g[k - 1]
    BY <1>3, <1>4, <2>2
  <2>4. k # 0
    BY <2>2, <2>3
  <2>5. k - 1 \in 0 .. C /\ k - 1 \notin D
    BY <1>1, <2>2, <2>4
  <2>6. w[k - 1] = g[k - 1]
    BY <2>5
  <2>7. QED
    BY <2>2, <2>3, <2>4, <2>6
<1>7. QED
  BY <1>5, <1>6

\* So From and Line are the nodes of the chain.
LEMMA ChainIsLine ==
    ASSUME NEW nodes, IsFiniteSet(nodes), NEW first, NEW nxt, NEW s,
           NEW end, end \notin nodes, IsChain(nodes, first, nxt, s, end)
    PROVE  From(nodes, first, nxt) = Members(s) /\ Line(nodes, first, nxt) = s
<1> DEFINE C == Cardinality(nodes)
           w == Walk(nodes, first, nxt)
<1>1. /\ Len(s) \in Nat /\ C \in Nat /\ Len(s) <= C /\ s \in Seq(nodes)
      /\ \A k \in 1 .. Len(s) : s[k] \in nodes
      /\ Cardinality(Members(s)) = Len(s) /\ Members(s) \subseteq nodes
  BY ChainMembers, ElementOfSeq DEF IsChain
<1>2. \A k \in 0 .. C : w[k] = IF k < Len(s) THEN s[k + 1] ELSE end
  BY ChainWalk
<1> HIDE DEF w, C
<1>3. From(nodes, first, nxt) = {w[k] : k \in 0 .. C} \cap nodes
  BY DEF From, w, C
<1>4. {w[k] : k \in 0 .. C} \cap nodes = Members(s)
  <2>1. ASSUME NEW n \in Members(s) PROVE \E k \in 0 .. C : w[k] = n
    <3>1. PICK k \in 1 .. Len(s) : n = s[k]
      BY DEF Members
    <3>2. k - 1 \in 0 .. C /\ w[k - 1] = s[k]
      BY <1>1, <1>2
    <3>3. QED
      BY <3>1, <3>2
  <2>2. ASSUME NEW k \in 0 .. C, w[k] \in nodes PROVE w[k] \in Members(s)
    <3>1. k < Len(s)
      BY <1>2, <2>2
    <3>2. k + 1 \in 1 .. Len(s) /\ w[k] = s[k + 1]
      BY <1>1, <1>2, <3>1
    <3>3. QED
      BY <3>2 DEF Members
  <2>3. QED
    BY <1>1, <2>1, <2>2
<1>5. Line(nodes, first, nxt) = [k \in 1 .. Len(s) |-> w[k - 1]]
  BY <1>1, <1>3, <1>4 DEF Line, w
<1>6. \A k \in 1 .. Len(s) : w[k - 1] = s[k]
  BY <1>1, <1>2
<1>7. s = [k \in 1 .. Len(s) |-> s[k]]
  BY <1>1, LenProperties
<1>8. QED
  BY <1>3, <1>4, <1>5, <1>6, <1>7

-------------------------------------------------------------------------------
\* A chain of no node.
LEMMA EmptyChain ==
    ASSUME NEW nodes, NEW nxt, NEW end
    PROVE  IsChain(nodes, end, nxt, <<>>, end) /\ Members(<<>>) = {}
<1>1. <<>> \in Seq(nodes) /\ Len(<<>>) = 0
  BY EmptySeq
<1>2. QED
  BY <1>1 DEF IsChain, Members

\* A chain that does not begin at its end begins with a node.
LEMMA ChainFirst ==
    ASSUME NEW nodes, NEW first, NEW nxt, NEW s, NEW end,
           IsChain(nodes, first, nxt, s, end)
    PROVE  /\ Len(s) \in Nat
           /\ s = <<>> => first = end /\ Members(s) = {}
           /\ s # <<>> => /\ 1 \in 1 .. Len(s) /\ first = s[1] /\ first = Head(s)
                          /\ first \in Members(s) /\ first \in nodes
           /\ Members(s) \subseteq nodes
           /\ end \notin nodes => (s = <<>> <=> first = end)
<1>1. s \in Seq(nodes) /\ Len(s) \in Nat /\ \A k \in 1 .. Len(s) : s[k] \in nodes
  BY LenProperties, ElementOfSeq DEF IsChain
<1>2. Len(<<>>) = 0
  BY EmptySeq
<1>3. CASE s = <<>>
  BY <1>1, <1>2, <1>3 DEF IsChain, Members
<1>4. CASE s # <<>>
  <2>1. Len(s) \in Nat \ {0}
    BY <1>1, <1>4, EmptySeq
  <2>2. 1 \in 1 .. Len(s) /\ first = s[1] /\ Head(s) = s[1]
    BY <1>1, <1>4, <2>1 DEF IsChain
  <2>3. QED
    BY <1>1, <1>4, <2>1, <2>2 DEF Members
<1>5. QED
  BY <1>3, <1>4

\* Only what the nodes of a chain point to matters.
LEMMA ChainFrame ==
    ASSUME NEW nodes, NEW first, NEW nxt, NEW nxt2, NEW s, NEW end,
           IsChain(nodes, first, nxt, s, end),
           \A n \in Members(s) : nxt2[n] = nxt[n]
    PROVE  IsChain(nodes, first, nxt2, s, end)
BY DEF IsChain, Members

\* A node that points to the first one is put before it.
LEMMA ChainPush ==
    ASSUME NEW nodes, NEW n \in nodes, NEW nxt, NEW s, NEW end,
           IsChain(nodes, nxt[n], nxt, s, end), n \notin Members(s)
    PROVE  /\ IsChain(nodes, n, nxt, <<n>> \o s, end)
           /\ Members(<<n>> \o s) = Members(s) \cup {n}
           /\ Len(<<n>> \o s) = Len(s) + 1 /\ (<<n>> \o s)[1] = n
           /\ \A k \in 1 .. Len(s) : (<<n>> \o s)[k + 1] = s[k]
<1> DEFINE r == <<n>> \o s
<1>1. /\ <<n>> \in Seq(nodes) /\ Len(<<n>>) = 1 /\ <<n>>[1] = n
      /\ s \in Seq(nodes) /\ Len(s) \in Nat
  BY LenProperties DEF IsChain
<1>2. r \in Seq(nodes) /\ Len(r) = Len(s) + 1
      /\ \A k \in 1 .. Len(s) + 1 : r[k] = IF k <= 1 THEN n ELSE s[k - 1]
  BY <1>1, ConcatProperties
<1> HIDE DEF r
<1>3. r[1] = n /\ \A k \in 1 .. Len(s) : r[k + 1] = s[k]
  BY <1>1, <1>2
<1>4. \A k \in 2 .. Len(r) : k - 1 \in 1 .. Len(s) /\ r[k] = s[k - 1]
  BY <1>1, <1>2
<1>5. Members(r) = Members(s) \cup {n}
  <2>1. ASSUME NEW k \in 1 .. Len(r) PROVE r[k] \in Members(s) \cup {n}
    <3>1. CASE k = 1
      BY <1>3, <3>1
    <3>2. CASE k # 1
      BY <1>1, <1>2, <1>4, <3>2 DEF Members
    <3>3. QED
      BY <3>1, <3>2
  <2>2. ASSUME NEW k \in 1 .. Len(s) PROVE k + 1 \in 1 .. Len(r) /\ r[k + 1] = s[k]
    BY <1>1, <1>2, <1>3
  <2>3. 1 \in 1 .. Len(r) /\ r[1] = n
    BY <1>1, <1>2, <1>3
  <2>4. QED
    BY <2>1, <2>2, <2>3 DEF Members
<1>6. \A j, k \in 1 .. Len(r) : r[j] = r[k] => j = k
  <2>1. SUFFICES ASSUME NEW j \in 1 .. Len(r), NEW k \in 1 .. Len(r), r[j] = r[k]
                 PROVE  j = k
    OBVIOUS
  <2>2. CASE j = 1 \/ k = 1
    BY <1>1, <1>2, <1>3, <1>4, <2>1, <2>2 DEF Members
  <2>3. CASE j # 1 /\ k # 1
    <3>1. /\ j - 1 \in 1 .. Len(s) /\ k - 1 \in 1 .. Len(s)
          /\ s[j - 1] = s[k - 1]
      BY <1>1, <1>2, <2>1, <2>3
    <3>2. j - 1 = k - 1
      BY <3>1 DEF IsChain
    <3>3. QED
      BY <1>1, <1>2, <3>2
  <2>4. QED
    BY <2>2, <2>3
<1>7. \A k \in 1 .. Len(r) : nxt[r[k]] = IF k < Len(r) THEN r[k + 1] ELSE end
  <2>1. SUFFICES ASSUME NEW k \in 1 .. Len(r)
                 PROVE  nxt[r[k]] = IF k < Len(r) THEN r[k + 1] ELSE end
    OBVIOUS
  <2>2. CASE k = 1
    <3>1. nxt[n] = IF s = <<>> THEN end ELSE s[1]
      BY DEF IsChain
    <3>2. s = <<>> <=> Len(s) = 0
      BY <1>1, EmptySeq
    <3>3. QED
      BY <1>1, <1>2, <1>3, <2>2, <3>1, <3>2
  <2>3. CASE k # 1
    BY <1>1, <1>2, <1>3, <1>4, <2>3 DEF IsChain
  <2>4. QED
    BY <2>2, <2>3
<1>8. r # <<>>
  BY <1>1, <1>2, EmptySeq
<1>9. IsChain(nodes, n, nxt, r, end)
  BY <1>2, <1>3, <1>6, <1>7, <1>8 DEF IsChain
<1>10. QED
  BY <1>2, <1>3, <1>5, <1>9 DEF r

\* The first node is taken off.
LEMMA ChainPop ==
    ASSUME NEW nodes, NEW first, NEW nxt, NEW s, NEW end,
           IsChain(nodes, first, nxt, s, end), s # <<>>
    PROVE  /\ IsChain(nodes, nxt[first], nxt, Tail(s), end)
           /\ Members(Tail(s)) = Members(s) \ {first}
           /\ first \in Members(s)
           /\ Len(Tail(s)) = Len(s) - 1
           /\ \A k \in 1 .. Len(s) - 1 : Tail(s)[k] = s[k + 1]
<1> DEFINE r == Tail(s)
<1>1. s \in Seq(nodes) /\ Len(s) \in Nat \ {0}
  BY EmptySeq DEF IsChain
<1>2. r \in Seq(nodes) /\ Len(r) = Len(s) - 1
      /\ \A k \in 1 .. Len(s) - 1 : r[k] = s[k + 1]
  BY <1>1, HeadTailProperties
<1>3. r = <<>> <=> Len(r) = 0
  BY <1>1, <1>2, EmptySeq
<1> HIDE DEF r
<1>4. 1 \in 1 .. Len(s) /\ first = s[1]
      /\ \A k \in 1 .. Len(r) : k + 1 \in 1 .. Len(s) /\ r[k] = s[k + 1]
  BY <1>1, <1>2 DEF IsChain
<1>5. \A k \in 1 .. Len(s) : k # 1 => k - 1 \in 1 .. Len(r) /\ s[k] = r[k - 1]
  BY <1>1, <1>2
<1>6. \A j, k \in 1 .. Len(s) : s[j] = s[k] => j = k
  BY DEF IsChain
<1>7. Members(r) = Members(s) \ {first}
  <2>1. ASSUME NEW k \in 1 .. Len(r) PROVE r[k] \in Members(s) \ {first}
    BY <1>1, <1>2, <1>4, <1>6 DEF Members
  <2>2. ASSUME NEW k \in 1 .. Len(s), s[k] # first PROVE s[k] \in Members(r)
    BY <1>4, <1>5, <2>2 DEF Members
  <2>3. QED
    BY <2>1, <2>2 DEF Members
<1>8. \A j, k \in 1 .. Len(r) : r[j] = r[k] => j = k
  BY <1>1, <1>2, <1>4, <1>6
<1>9. \A k \in 1 .. Len(r) : nxt[r[k]] = IF k < Len(r) THEN r[k + 1] ELSE end
  <2>1. SUFFICES ASSUME NEW k \in 1 .. Len(r)
                 PROVE  nxt[r[k]] = IF k < Len(r) THEN r[k + 1] ELSE end
    OBVIOUS
  <2>2. nxt[s[k + 1]] = IF k + 1 < Len(s) THEN s[k + 2] ELSE end
    BY <1>4 DEF IsChain
  <2>3. k < Len(r) => r[k + 1] = s[k + 2]
    BY <1>1, <1>2
  <2>4. QED
    BY <1>1, <1>2, <1>4, <2>2, <2>3
<1>10. nxt[first] = IF r = <<>> THEN end ELSE r[1]
  BY <1>1, <1>2, <1>3, <1>4 DEF IsChain
<1>11. IsChain(nodes, nxt[first], nxt, r, end)
  BY <1>2, <1>8, <1>9, <1>10 DEF IsChain
<1>12. first \in Members(s)
  BY <1>4 DEF Members
<1>13. QED
  BY <1>2, <1>7, <1>11, <1>12 DEF r

-------------------------------------------------------------------------------
\* The contents of a sequence of nodes are a sequence of the same length.
LEMMA ContentsFacts ==
    ASSUME NEW nodes, NEW s \in Seq(nodes), NEW d, NEW V,
           \A n \in Members(s) : d[n] \in V
    PROVE  /\ Contents(s, d) \in Seq(V) /\ Len(Contents(s, d)) = Len(s)
           /\ \A k \in 1 .. Len(s) : Contents(s, d)[k] = d[s[k]]
           /\ Contents(s, d) = <<>> <=> s = <<>>
<1> DEFINE c == Contents(s, d)
<1>1. Len(s) \in Nat /\ DOMAIN s = 1 .. Len(s)
  BY LenProperties
<1>2. c = [k \in 1 .. Len(s) |-> d[s[k]]]
  BY <1>1 DEF Contents
<1>3. \A k \in 1 .. Len(s) : d[s[k]] \in V
  BY DEF Members
<1> HIDE DEF c
<1>4. c \in Seq(V) /\ Len(c) = Len(s)
  BY <1>1, <1>2, <1>3
<1>5. c = <<>> <=> s = <<>>
  <2>1. (c = <<>> <=> Len(c) = 0) /\ (s = <<>> <=> Len(s) = 0)
    BY <1>1, <1>4, EmptySeq
  <2>2. QED
    BY <1>4, <2>1
<1>6. QED
  BY <1>2, <1>4, <1>5 DEF c

LEMMA ContentsPush ==
    ASSUME NEW nodes, NEW n \in nodes, NEW s \in Seq(nodes), NEW d, NEW V,
           d[n] \in V, \A m \in Members(s) : d[m] \in V
    PROVE  Contents(<<n>> \o s, d) = <<d[n]>> \o Contents(s, d)
<1> DEFINE c == Contents(s, d)
           r == <<n>> \o s
           b == Contents(r, d)
           a == <<d[n]>> \o c
<1>1. /\ c \in Seq(V) /\ Len(c) = Len(s) /\ Len(s) \in Nat
      /\ \A k \in 1 .. Len(s) : c[k] = d[s[k]]
  BY ContentsFacts, LenProperties
<1>2. /\ <<n>> \in Seq(nodes) /\ Len(<<n>>) = 1 /\ <<n>>[1] = n
      /\ <<d[n]>> \in Seq(V) /\ Len(<<d[n]>>) = 1 /\ <<d[n]>>[1] = d[n]
  OBVIOUS
<1>3. /\ r \in Seq(nodes) /\ Len(r) = 1 + Len(s)
      /\ \A k \in 1 .. 1 + Len(s) : r[k] = IF k <= 1 THEN <<n>>[k] ELSE s[k - 1]
  BY <1>1, <1>2, ConcatProperties
<1> HIDE DEF c, r
<1>4. /\ a \in Seq(V) /\ Len(a) = 1 + Len(s)
      /\ \A k \in 1 .. 1 + Len(s) : a[k] = IF k <= 1 THEN <<d[n]>>[k] ELSE c[k - 1]
  BY <1>1, <1>2, ConcatProperties
<1> HIDE DEF a
<1>5. \A k \in 1 .. Len(r) : d[r[k]] = a[k] /\ a[k] \in V
  <2>1. SUFFICES ASSUME NEW k \in 1 .. Len(r) PROVE d[r[k]] = a[k] /\ a[k] \in V
    OBVIOUS
  <2>2. CASE k = 1
    BY <1>1, <1>2, <1>3, <1>4, <2>2
  <2>3. CASE k # 1
    <3>1. k - 1 \in 1 .. Len(s) /\ ~(k <= 1) /\ k \in 1 .. 1 + Len(s)
      BY <1>1, <1>3, <2>3
    <3>2. s[k - 1] \in Members(s)
      BY <3>1 DEF Members
    <3>3. QED
      BY <1>1, <1>3, <1>4, <3>1, <3>2
  <2>4. QED
    BY <2>2, <2>3
<1>6. \A m \in Members(r) : d[m] \in V
  BY <1>5 DEF Members
<1>7. b \in Seq(V) /\ Len(b) = Len(r) /\ \A k \in 1 .. Len(r) : b[k] = d[r[k]]
  BY <1>3, <1>6, ContentsFacts
<1> HIDE DEF b
<1>8. a = b
  BY <1>3, <1>4, <1>5, <1>7, SeqEqual
<1>9. QED
  BY <1>8 DEF a, b, c, r

LEMMA ContentsPop ==
    ASSUME NEW nodes, NEW s \in Seq(nodes), NEW d, NEW V, s # <<>>,
           \A m \in Members(s) : d[m] \in V
    PROVE  /\ Contents(Tail(s), d) = Tail(Contents(s, d))
           /\ Head(Contents(s, d)) = d[s[1]] /\ Contents(s, d) # <<>>
<1> DEFINE c == Contents(s, d)
           r == Tail(s)
           b == Contents(r, d)
           a == Tail(c)
<1>1. /\ c \in Seq(V) /\ Len(c) = Len(s) /\ Len(s) \in Nat \ {0} /\ c # <<>>
      /\ \A k \in 1 .. Len(s) : c[k] = d[s[k]]
  BY ContentsFacts, EmptySeq
<1>2. /\ r \in Seq(nodes) /\ Len(r) = Len(s) - 1
      /\ \A k \in 1 .. Len(r) : r[k] = s[k + 1]
  BY HeadTailProperties
<1> HIDE DEF c, r
<1>3. /\ a \in Seq(V) /\ Len(a) = Len(c) - 1 /\ Head(c) = c[1]
      /\ \A k \in 1 .. Len(a) : a[k] = c[k + 1]
  BY <1>1, HeadTailProperties
<1> HIDE DEF a
<1>4. \A k \in 1 .. Len(r) : a[k] = d[r[k]] /\ r[k] \in Members(s)
  BY <1>1, <1>2, <1>3 DEF Members
<1>5. \A m \in Members(r) : d[m] \in V
  BY <1>4 DEF Members
<1>6. b \in Seq(V) /\ Len(b) = Len(r) /\ \A k \in 1 .. Len(r) : b[k] = d[r[k]]
  BY <1>2, <1>5, ContentsFacts
<1> HIDE DEF b
<1>7. Len(a) = Len(b) /\ \A k \in 1 .. Len(a) : a[k] = b[k]
  BY <1>1, <1>2, <1>3, <1>4, <1>6
<1>8. a = b
  BY <1>3, <1>6, <1>7, SeqEqual
<1>9. c[1] = d[s[1]]
  BY <1>1
<1>10. QED
  BY <1>1, <1>3, <1>8, <1>9 DEF a, b, c, r

LEMMA ContentsFrame ==
    ASSUME NEW nodes, NEW s \in Seq(nodes), NEW d, NEW d2,
           \A n \in Members(s) : d2[n] = d[n]
    PROVE  Contents(s, d2) = Contents(s, d)
<1>1. DOMAIN s = 1 .. Len(s)
  BY LenProperties
<1>2. QED
  BY <1>1 DEF Contents, Members

-------------------------------------------------------------------------------
\* The same said of the list itself: its nodes are linked up to its end.
IsLinked(nodes, first, nxt, end) ==
    IsChain(nodes, first, nxt, Line(nodes, first, nxt), end)

LEMMA LinkedIs ==
    ASSUME NEW nodes, IsFiniteSet(nodes), NEW end, end \notin nodes,
           NEW first, NEW nxt, NEW s, IsChain(nodes, first, nxt, s, end)
    PROVE  /\ IsLinked(nodes, first, nxt, end)
           /\ Line(nodes, first, nxt) = s /\ From(nodes, first, nxt) = Members(s)
BY ChainIsLine DEF IsLinked

LEMMA LinkedFacts ==
    ASSUME NEW nodes, IsFiniteSet(nodes), NEW end, end \notin nodes,
           NEW first, NEW nxt, IsLinked(nodes, first, nxt, end)
    PROVE  /\ Line(nodes, first, nxt) \in Seq(nodes)
           /\ Members(Line(nodes, first, nxt)) = From(nodes, first, nxt)
           /\ From(nodes, first, nxt) \subseteq nodes
           /\ first \in nodes \cup {end}
           /\ Line(nodes, first, nxt) = <<>> <=> first = end
           /\ first = end => From(nodes, first, nxt) = {}
           /\ first # end => /\ first \in From(nodes, first, nxt)
                             /\ Line(nodes, first, nxt)[1] = first
<1> DEFINE s == Line(nodes, first, nxt)
<1>1. IsChain(nodes, first, nxt, s, end) /\ s \in Seq(nodes)
  BY DEF IsLinked, IsChain
<1>2. From(nodes, first, nxt) = Members(s)
  BY <1>1, LinkedIs
<1> HIDE DEF s
<1>3. /\ s = <<>> => first = end /\ Members(s) = {}
      /\ s # <<>> => first = s[1] /\ first \in Members(s) /\ first \in nodes
      /\ Members(s) \subseteq nodes
      /\ s = <<>> <=> first = end
  BY <1>1, ChainFirst, Zenon
<1>4. QED
  BY <1>1, <1>2, <1>3 DEF s

LEMMA LinkedEmpty ==
    ASSUME NEW nodes, IsFiniteSet(nodes), NEW end, end \notin nodes, NEW nxt
    PROVE  /\ IsLinked(nodes, end, nxt, end) /\ From(nodes, end, nxt) = {}
           /\ Line(nodes, end, nxt) = <<>>
<1>1. IsChain(nodes, end, nxt, <<>>, end) /\ Members(<<>>) = {}
  BY EmptyChain
<1>2. QED
  BY <1>1, LinkedIs

LEMMA LinkedFrame ==
    ASSUME NEW nodes, IsFiniteSet(nodes), NEW end, end \notin nodes,
           NEW first, NEW nxt, NEW nxt2, IsLinked(nodes, first, nxt, end),
           \A n \in From(nodes, first, nxt) : nxt2[n] = nxt[n]
    PROVE  /\ IsLinked(nodes, first, nxt2, end)
           /\ Line(nodes, first, nxt2) = Line(nodes, first, nxt)
           /\ From(nodes, first, nxt2) = From(nodes, first, nxt)
<1> DEFINE s == Line(nodes, first, nxt)
<1>1. IsChain(nodes, first, nxt, s, end) /\ From(nodes, first, nxt) = Members(s)
  BY LinkedIs DEF IsLinked
<1> HIDE DEF s
<1>2. IsChain(nodes, first, nxt2, s, end)
  BY <1>1, ChainFrame
<1>3. QED
  BY <1>1, <1>2, LinkedIs DEF s

LEMMA LinkedPush ==
    ASSUME NEW nodes, IsFiniteSet(nodes), NEW end, end \notin nodes,
           NEW n \in nodes, NEW nxt, IsLinked(nodes, nxt[n], nxt, end),
           n \notin From(nodes, nxt[n], nxt)
    PROVE  /\ IsLinked(nodes, n, nxt, end)
           /\ Line(nodes, n, nxt) = <<n>> \o Line(nodes, nxt[n], nxt)
           /\ From(nodes, n, nxt) = From(nodes, nxt[n], nxt) \cup {n}
<1> DEFINE s == Line(nodes, nxt[n], nxt)
<1>1. IsChain(nodes, nxt[n], nxt, s, end) /\ From(nodes, nxt[n], nxt) = Members(s)
  BY LinkedIs DEF IsLinked
<1> HIDE DEF s
<1>2. /\ IsChain(nodes, n, nxt, <<n>> \o s, end)
      /\ Members(<<n>> \o s) = Members(s) \cup {n}
      /\ Len(<<n>> \o s) = Len(s) + 1 /\ (<<n>> \o s)[1] = n
      /\ \A k \in 1 .. Len(s) : (<<n>> \o s)[k + 1] = s[k]
  BY <1>1, ChainPush
<1>3. /\ IsLinked(nodes, n, nxt, end) /\ Line(nodes, n, nxt) = <<n>> \o s
      /\ From(nodes, n, nxt) = Members(<<n>> \o s)
  BY <1>2, LinkedIs
<1>4. QED
  BY <1>1, <1>2, <1>3 DEF s

LEMMA LinkedPop ==
    ASSUME NEW nodes, IsFiniteSet(nodes), NEW end, end \notin nodes,
           NEW first, NEW nxt, IsLinked(nodes, first, nxt, end), first # end
    PROVE  /\ IsLinked(nodes, nxt[first], nxt, end)
           /\ Line(nodes, nxt[first], nxt) = Tail(Line(nodes, first, nxt))
           /\ From(nodes, nxt[first], nxt) = From(nodes, first, nxt) \ {first}
<1> DEFINE s == Line(nodes, first, nxt)
<1>1. /\ IsChain(nodes, first, nxt, s, end) /\ From(nodes, first, nxt) = Members(s)
      /\ s # <<>>
  BY LinkedIs, LinkedFacts DEF IsLinked
<1> HIDE DEF s
<1>2. /\ IsChain(nodes, nxt[first], nxt, Tail(s), end)
      /\ Members(Tail(s)) = Members(s) \ {first}
      /\ first \in Members(s)
      /\ Len(Tail(s)) = Len(s) - 1
      /\ \A k \in 1 .. Len(s) - 1 : Tail(s)[k] = s[k + 1]
  BY <1>1, ChainPop
<1> DEFINE second == nxt[first]
<1>3. IsChain(nodes, second, nxt, Tail(s), end)
  BY <1>2
<1> HIDE DEF second
<1>4. /\ IsLinked(nodes, second, nxt, end) /\ Line(nodes, second, nxt) = Tail(s)
      /\ From(nodes, second, nxt) = Members(Tail(s))
  BY <1>3, LinkedIs
<1>5. QED
  BY <1>1, <1>2, <1>4 DEF s, second

\* A list whose last node is made to point to another list.
LEMMA ChainJoin ==
    ASSUME NEW nodes, NEW end, end \notin nodes, NEW first, NEW cut, NEW nxt,
           NEW s, IsChain(nodes, first, cut, s, end), NEW last \in Members(s),
           cut[last] = end, \A n \in Members(s) : n # last => nxt[n] = cut[n],
           NEW d, IsChain(nodes, nxt[last], nxt, d, end), Members(s) \cap Members(d) = {}
    PROVE  /\ IsChain(nodes, first, nxt, s \o d, end)
           /\ Members(s \o d) = Members(s) \cup Members(d)
<1> DEFINE r == s \o d
           m == Len(s)
<1>1. /\ s \in Seq(nodes) /\ d \in Seq(nodes) /\ m \in Nat /\ Len(d) \in Nat
      /\ \A k \in 1 .. m : s[k] \in nodes /\ s[k] \in Members(s)
      /\ \A k \in 1 .. Len(d) : d[k] \in nodes /\ d[k] \in Members(d)
  BY LenProperties, ElementOfSeq DEF IsChain, Members
<1>2. /\ r \in Seq(nodes) /\ Len(r) = m + Len(d)
      /\ \A k \in 1 .. m + Len(d) : r[k] = IF k <= m THEN s[k] ELSE d[k - m]
  BY <1>1, ConcatProperties
<1>3. m # 0 /\ s[m] = last
  <2>1. PICK k \in 1 .. m : s[k] = last
    BY DEF Members
  <2>2. cut[s[k]] = IF k < m THEN s[k + 1] ELSE end
    BY DEF IsChain
  <2>3. ~(k < m)
    <3>1. SUFFICES ASSUME k < m PROVE FALSE
      OBVIOUS
    <3>2. k + 1 \in 1 .. m
      BY <1>1, <2>1, <3>1
    <3>3. QED
      BY <1>1, <2>1, <2>2, <3>1, <3>2
  <2>4. k = m
    BY <1>1, <2>1, <2>3
  <2>5. QED
    BY <1>1, <2>1, <2>4
<1>4. \A k \in 1 .. m + Len(d) : /\ k <= m => k \in 1 .. m /\ r[k] = s[k]
                                 /\ k > m => k - m \in 1 .. Len(d) /\ r[k] = d[k - m]
  BY <1>1, <1>2
<1>5. \A j, k \in 1 .. Len(r) : r[j] = r[k] => j = k
  <2> SUFFICES ASSUME NEW j \in 1 .. m + Len(d), NEW k \in 1 .. m + Len(d), r[j] = r[k]
               PROVE  j = k
    BY <1>2
  <2>1. CASE j <= m /\ k <= m
    BY <1>4, <2>1 DEF IsChain
  <2>2. CASE j > m /\ k > m
    <3>1. j - m = k - m
      BY <1>4, <2>2 DEF IsChain
    <3>2. QED
      BY <1>1, <3>1
  <2>3. CASE ~((j <= m) <=> (k <= m))
    <3>1. \/ j <= m /\ k > m
          \/ j > m /\ k <= m
      BY <1>1, <2>3
    <3>2. QED
      BY <1>1, <1>4, <3>1
  <2>4. QED
    BY <1>1, <2>1, <2>2, <2>3
<1>6. first = IF r = <<>> THEN end ELSE r[1]
  <2>1. 1 \in 1 .. m /\ 1 \in 1 .. m + Len(d) /\ s # <<>>
    BY <1>1, <1>3, EmptySeq
  <2>2. first = s[1] /\ r[1] = s[1]
    BY <1>1, <1>4, <2>1 DEF IsChain
  <2>3. Len(r) # 0
    BY <1>1, <1>2, <1>3
  <2>4. r # <<>>
    BY <2>3, EmptySeq
  <2>5. QED
    BY <2>2, <2>4
<1>7. ASSUME NEW k \in 1 .. m + Len(d)
      PROVE  nxt[r[k]] = IF k < m + Len(d) THEN r[k + 1] ELSE end
  <2>1. CASE k < m
    <3>1. /\ k \in 1 .. m /\ k + 1 \in 1 .. m /\ m \in 1 .. m /\ k # m
          /\ k + 1 \in 1 .. m + Len(d) /\ k < m + Len(d)
      BY <1>1, <2>1
    <3>2. s[k] # last
      BY <1>3, <3>1 DEF IsChain
    <3>3. nxt[s[k]] = s[k + 1]
      BY <1>1, <2>1, <3>1, <3>2 DEF IsChain
    <3>4. QED
      BY <1>2, <1>4, <2>1, <3>1, <3>3
  <2>2. CASE k = m
    <3>1. r[k] = last /\ nxt[last] = IF d = <<>> THEN end ELSE d[1]
      BY <1>1, <1>3, <1>4, <2>2 DEF IsChain
    <3>2. CASE Len(d) = 0
      BY <1>1, <2>2, <3>1, <3>2, EmptySeq
    <3>3. CASE Len(d) # 0
      <4>1. d # <<>> /\ k + 1 \in 1 .. m + Len(d) /\ k + 1 > m /\ k + 1 - m = 1
            /\ k < m + Len(d)
        BY <1>1, <2>2, <3>3, EmptySeq
      <4>2. r[k + 1] = d[1]
        BY <1>4, <4>1
      <4>3. QED
        BY <3>1, <4>1, <4>2
    <3>4. QED
      BY <3>2, <3>3
  <2>3. CASE k > m
    <3>1. /\ k - m \in 1 .. Len(d) /\ r[k] = d[k - m]
          /\ k < m + Len(d) <=> k - m < Len(d)
      BY <1>1, <1>4, <2>3
    <3>2. nxt[d[k - m]] = IF k - m < Len(d) THEN d[k - m + 1] ELSE end
      BY <3>1 DEF IsChain
    <3>3. CASE k < m + Len(d)
      <4>1. k + 1 \in 1 .. m + Len(d) /\ k + 1 > m /\ k + 1 - m = k - m + 1
        BY <1>1, <2>3, <3>3
      <4>2. r[k + 1] = d[k - m + 1]
        BY <1>4, <4>1
      <4>3. QED
        BY <3>1, <3>2, <3>3, <4>2
    <3>4. CASE ~(k < m + Len(d))
      BY <3>1, <3>2, <3>4
    <3>5. QED
      BY <3>3, <3>4
  <2>4. QED
    BY <1>1, <2>1, <2>2, <2>3
<1>8. Members(r) = Members(s) \cup Members(d)
  <2>1. ASSUME NEW k \in 1 .. Len(r) PROVE r[k] \in Members(s) \cup Members(d)
    BY <1>1, <1>2, <1>4, <2>1
  <2>2. ASSUME NEW k \in 1 .. m PROVE s[k] \in Members(r)
    <3>1. k \in 1 .. Len(r) /\ r[k] = s[k]
      BY <1>1, <1>2, <1>4
    <3>2. QED
      BY <3>1 DEF Members
  <2>3. ASSUME NEW k \in 1 .. Len(d) PROVE d[k] \in Members(r)
    <3>1. m + k \in 1 .. Len(r) /\ m + k > m /\ m + k - m = k
      BY <1>1, <1>2
    <3>2. r[m + k] = d[k]
      BY <1>2, <1>4, <3>1
    <3>3. QED
      BY <3>1, <3>2 DEF Members
  <2>4. QED
    BY <2>1, <2>2, <2>3 DEF Members
<1>9. IsChain(nodes, first, nxt, r, end)
  BY <1>2, <1>5, <1>6, <1>7 DEF IsChain
<1>10. QED
  BY <1>8, <1>9

LEMMA LinkedJoin ==
    ASSUME NEW nodes, IsFiniteSet(nodes), NEW end, end \notin nodes,
           NEW first, NEW cut, NEW nxt, IsLinked(nodes, first, cut, end),
           NEW last \in From(nodes, first, cut), cut[last] = end,
           \A n \in From(nodes, first, cut) : n # last => nxt[n] = cut[n],
           IsLinked(nodes, nxt[last], nxt, end),
           From(nodes, first, cut) \cap From(nodes, nxt[last], nxt) = {}
    PROVE  /\ IsLinked(nodes, first, nxt, end)
           /\ From(nodes, first, nxt)
                = From(nodes, first, cut) \cup From(nodes, nxt[last], nxt)
<1> DEFINE s == Line(nodes, first, cut)
           d == Line(nodes, nxt[last], nxt)
<1>1. /\ IsChain(nodes, first, cut, s, end) /\ From(nodes, first, cut) = Members(s)
      /\ IsChain(nodes, nxt[last], nxt, d, end)
      /\ From(nodes, nxt[last], nxt) = Members(d)
  BY LinkedIs DEF IsLinked
<1> HIDE DEF s, d
<1>2. /\ IsChain(nodes, first, nxt, s \o d, end)
      /\ Members(s \o d) = Members(s) \cup Members(d)
  BY <1>1, ChainJoin
<1>3. QED
  BY <1>1, <1>2, LinkedIs

LEMMA LinkedEnd ==
    ASSUME NEW nodes, IsFiniteSet(nodes), NEW end, end \notin nodes,
           NEW first, NEW nxt, IsLinked(nodes, first, nxt, end), first # end
    PROVE  \E m \in From(nodes, first, nxt) : nxt[m] = end
<1> DEFINE s == Line(nodes, first, nxt)
<1>1. /\ s \in Seq(nodes) /\ s # <<>> /\ From(nodes, first, nxt) = Members(s)
      /\ \A k \in 1 .. Len(s) : nxt[s[k]] = IF k < Len(s) THEN s[k + 1] ELSE end
  BY LinkedFacts DEF IsLinked, IsChain
<1> HIDE DEF s
<1>2. Len(s) \in 1 .. Len(s) /\ ~(Len(s) < Len(s))
  BY <1>1, EmptySeq, LenProperties
<1>3. nxt[s[Len(s)]] = end /\ s[Len(s)] \in Members(s)
  BY <1>1, <1>2 DEF Members
<1>4. QED
  BY <1>1, <1>3

\* A node is taken out of a list behind another one.
LEMMA ChainRemove ==
    ASSUME NEW nodes, NEW end, end \notin nodes, NEW first, NEW nxt, NEW nxt2,
           NEW s, IsChain(nodes, first, nxt, s, end),
           NEW c \in Members(s), NEW n \in nodes, nxt[c] = n, nxt2[c] = nxt[n],
           \A m \in Members(s) : m # c /\ m # n => nxt2[m] = nxt[m]
    PROVE  \E r : IsChain(nodes, first, nxt2, r, end) /\ Members(r) = Members(s) \ {n}
<1>1. /\ s \in Seq(nodes) /\ Len(s) \in Nat
      /\ \A j, k \in 1 .. Len(s) : s[j] = s[k] => j = k
      /\ first = IF s = <<>> THEN end ELSE s[1]
      /\ \A k \in 1 .. Len(s) : nxt[s[k]] = IF k < Len(s) THEN s[k + 1] ELSE end
      /\ \A k \in 1 .. Len(s) : s[k] \in nodes /\ s[k] \in Members(s)
  BY LenProperties, ElementOfSeq DEF IsChain, Members
<1>2. PICK i \in 1 .. Len(s) : s[i] = c
  BY DEF Members
<1>3. i < Len(s) /\ s[i + 1] = n /\ i + 1 \in 1 .. Len(s)
  <2>1. nxt[s[i]] = n /\ n # end
    BY <1>2
  <2>2. i < Len(s)
    BY <1>1, <2>1
  <2>3. QED
    BY <1>1, <2>1, <2>2
<1> DEFINE l == Len(s) - 1
           At(k) == IF k <= i THEN k ELSE k + 1
           r == [k \in 1 .. l |-> s[At(k)]]
<1>4. l \in Nat /\ i <= l /\ i \in 1 .. l
  BY <1>1, <1>3
<1>5. \A k \in 1 .. l : /\ At(k) \in 1 .. Len(s) /\ At(k) # i + 1
                        /\ r[k] = s[At(k)]
  BY <1>1, <1>3
<1>6. r \in Seq(nodes) /\ Len(r) = l
  <2>1. \A k \in 1 .. l : r[k] \in nodes
    BY <1>1, <1>5
  <2>2. r = [k \in 1 .. l |-> r[k]]
    OBVIOUS
  <2> HIDE DEF r, At
  <2>3. r \in [1 .. l -> nodes]
    BY <2>1, <2>2
  <2>4. QED
    BY <1>4, <2>3
<1>7. \A j, k \in 1 .. l : r[j] = r[k] => j = k
  <2> SUFFICES ASSUME NEW j \in 1 .. l, NEW k \in 1 .. l, r[j] = r[k] PROVE j = k
    OBVIOUS
  <2>1. At(j) = At(k)
    BY <1>1, <1>5
  <2>2. QED
    BY <1>4, <2>1
<1>8. r # <<>> /\ first = r[1]
  <2>1. Len(r) # 0 /\ 1 \in 1 .. l /\ 1 <= i /\ s # <<>>
    BY <1>1, <1>4, <1>6, EmptySeq
  <2>2. At(1) = 1
    BY <2>1
  <2>3. r[1] = s[1] /\ first = s[1]
    BY <1>1, <1>5, <2>1, <2>2
  <2> HIDE DEF r, At
  <2>4. r # <<>>
    BY <1>4, <1>6, <2>1, EmptySeq
  <2>5. QED
    BY <2>3, <2>4
<1>9. ASSUME NEW k \in 1 .. l
      PROVE  nxt2[r[k]] = IF k < l THEN r[k + 1] ELSE end
  <2>1. CASE k = i
    <3>1. nxt2[r[k]] = nxt[s[i + 1]]
      BY <1>2, <1>3, <1>5, <2>1
    <3>2. nxt[s[i + 1]] = IF i + 1 < Len(s) THEN s[i + 1 + 1] ELSE end
      BY <1>1, <1>3
    <3>3. CASE k < l
      <4>1. k + 1 \in 1 .. l /\ At(k + 1) = i + 1 + 1 /\ i + 1 < Len(s)
        BY <1>1, <1>4, <2>1, <3>3
      <4>2. QED
        BY <1>5, <3>1, <3>2, <3>3, <4>1
    <3>4. CASE ~(k < l)
      <4>1. ~(i + 1 < Len(s))
        BY <1>1, <1>4, <2>1, <3>4
      <4>2. QED
        BY <3>1, <3>2, <3>4, <4>1
    <3>5. QED
      BY <3>3, <3>4
  <2>2. CASE k # i
    <3>1. At(k) \in 1 .. Len(s) /\ At(k) # i /\ At(k) # i + 1 /\ r[k] = s[At(k)]
      BY <1>4, <1>5, <2>2
    <3>2. r[k] # c /\ r[k] # n /\ r[k] \in Members(s)
      BY <1>1, <1>2, <1>3, <3>1
    <3>3. nxt2[r[k]] = IF At(k) < Len(s) THEN s[At(k) + 1] ELSE end
      BY <1>1, <3>1, <3>2
    <3>4. CASE k < l
      <4>1. k + 1 \in 1 .. l /\ At(k + 1) = At(k) + 1 /\ At(k) < Len(s)
        BY <1>1, <1>4, <2>2, <3>4
      <4>2. r[k + 1] = s[At(k) + 1]
        BY <1>5, <4>1
      <4>3. QED
        BY <3>3, <3>4, <4>1, <4>2
    <3>5. CASE ~(k < l)
      <4>1. ~(At(k) < Len(s))
        BY <1>1, <1>4, <2>2, <3>5
      <4>2. QED
        BY <3>3, <3>5, <4>1
    <3>6. QED
      BY <3>4, <3>5
  <2>3. QED
    BY <2>1, <2>2
<1>10. Members(r) = Members(s) \ {n}
  <2>1. ASSUME NEW k \in 1 .. l PROVE r[k] \in Members(s) \ {n}
    BY <1>1, <1>3, <1>5
  <2>2. ASSUME NEW k \in 1 .. Len(s), s[k] # n PROVE \E j \in 1 .. l : r[j] = s[k]
    <3>1. k # i + 1
      BY <1>3, <2>2
    <3>2. CASE k <= i
      <4>1. k \in 1 .. l /\ At(k) = k
        BY <1>4, <3>2
      <4>2. QED
        BY <1>5, <4>1
    <3>3. CASE ~(k <= i)
      <4>1. k - 1 \in 1 .. l /\ At(k - 1) = k
        BY <1>1, <1>4, <3>1, <3>3
      <4>2. QED
        BY <1>5, <4>1
    <3>4. QED
      BY <3>2, <3>3
  <2> HIDE DEF r, l, At
  <2>3. QED
    BY <1>6, <2>1, <2>2 DEF Members
<1>11. IsChain(nodes, first, nxt2, r, end)
  <2> HIDE DEF r, At
  <2>1. \A k \in 1 .. Len(r) : nxt2[r[k]] = IF k < Len(r) THEN r[k + 1] ELSE end
    BY <1>6, <1>9
  <2>2. QED
    BY <1>6, <1>7, <1>8, <2>1 DEF IsChain
<1>12. QED
  BY <1>10, <1>11

LEMMA LinkedRemove ==
    ASSUME NEW nodes, IsFiniteSet(nodes), NEW end, end \notin nodes,
           NEW first, NEW nxt, NEW nxt2, IsLinked(nodes, first, nxt, end),
           NEW c \in From(nodes, first, nxt), NEW n \in nodes,
           nxt[c] = n, nxt2[c] = nxt[n],
           \A m \in From(nodes, first, nxt) : m # c /\ m # n => nxt2[m] = nxt[m]
    PROVE  /\ IsLinked(nodes, first, nxt2, end)
           /\ From(nodes, first, nxt2) = From(nodes, first, nxt) \ {n}
<1> DEFINE s == Line(nodes, first, nxt)
<1>1. IsChain(nodes, first, nxt, s, end)
  BY DEF IsLinked
<1> HIDE DEF s
<1>2. From(nodes, first, nxt) = Members(s)
  BY <1>1, ChainIsLine
<1>3. PICK r : IsChain(nodes, first, nxt2, r, end) /\ Members(r) = Members(s) \ {n}
  BY <1>1, <1>2, ChainRemove
<1>4. /\ IsLinked(nodes, first, nxt2, end)
      /\ Line(nodes, first, nxt2) = r /\ From(nodes, first, nxt2) = Members(r)
  BY <1>3, LinkedIs
<1>5. QED
  BY <1>2, <1>3, <1>4

\* Every node of a list but the first has one before it.
LEMMA LinkedBefore ==
    ASSUME NEW nodes, IsFiniteSet(nodes), NEW end, end \notin nodes,
           NEW first, NEW nxt, IsLinked(nodes, first, nxt, end),
           NEW n \in From(nodes, first, nxt), n # first
    PROVE  \E m \in From(nodes, first, nxt) : nxt[m] = n
<1> DEFINE s == Line(nodes, first, nxt)
<1>1. IsChain(nodes, first, nxt, s, end)
  BY DEF IsLinked
<1> HIDE DEF s
<1>2. From(nodes, first, nxt) = Members(s)
  BY <1>1, ChainIsLine
<1>3. /\ Len(s) \in Nat /\ first = IF s = <<>> THEN end ELSE s[1]
      /\ \A k \in 1 .. Len(s) : nxt[s[k]] = IF k < Len(s) THEN s[k + 1] ELSE end
  BY <1>1, LenProperties DEF IsChain
<1>4. PICK k \in 1 .. Len(s) : s[k] = n
  BY <1>2 DEF Members
<1>5. k # 1
  <2>1. Len(s) # 0
    BY <1>3
  <2>2. s # <<>>
    BY <1>1, <2>1, EmptySeq DEF IsChain
  <2>3. QED
    BY <1>3, <1>4, <2>2
<1>6. k - 1 \in 1 .. Len(s) /\ k - 1 < Len(s) /\ k - 1 + 1 = k
  BY <1>3, <1>5
<1>7. nxt[s[k - 1]] = n /\ s[k - 1] \in Members(s)
  BY <1>3, <1>4, <1>6 DEF Members
<1>8. QED
  BY <1>2, <1>7

\* No node of a list points to the first one.
LEMMA LinkedFirst ==
    ASSUME NEW nodes, IsFiniteSet(nodes), NEW end, end \notin nodes,
           NEW first, NEW nxt, IsLinked(nodes, first, nxt, end),
           NEW m \in From(nodes, first, nxt)
    PROVE  nxt[m] # first
<1> DEFINE s == Line(nodes, first, nxt)
<1>1. IsChain(nodes, first, nxt, s, end)
  BY DEF IsLinked
<1> HIDE DEF s
<1>2. From(nodes, first, nxt) = Members(s)
  BY <1>1, ChainIsLine
<1>3. /\ Len(s) \in Nat /\ first = IF s = <<>> THEN end ELSE s[1]
      /\ \A k \in 1 .. Len(s) : nxt[s[k]] = IF k < Len(s) THEN s[k + 1] ELSE end
      /\ \A j, k \in 1 .. Len(s) : s[j] = s[k] => j = k
      /\ \A k \in 1 .. Len(s) : s[k] \in nodes
  BY <1>1, LenProperties, ElementOfSeq DEF IsChain
<1>4. PICK k \in 1 .. Len(s) : s[k] = m
  BY <1>2 DEF Members
<1>5. 1 \in 1 .. Len(s) /\ s # <<>>
  <2>1. Len(s) # 0 /\ 1 \in 1 .. Len(s)
    BY <1>3
  <2>2. QED
    BY <1>1, <2>1, EmptySeq DEF IsChain
<1>6. CASE k < Len(s)
  <2>1. k + 1 \in 1 .. Len(s) /\ k + 1 # 1
    BY <1>3, <1>6
  <2>2. QED
    BY <1>3, <1>4, <1>5, <1>6, <2>1
<1>7. CASE ~(k < Len(s))
  BY <1>3, <1>4, <1>5, <1>7
<1>8. QED
  BY <1>6, <1>7

\* A set that holds the first node, and with every node the next one, holds the list.
LEMMA LinkedClosed ==
    ASSUME NEW nodes, IsFiniteSet(nodes), NEW end, end \notin nodes,
           NEW first, NEW nxt, IsLinked(nodes, first, nxt, end),
           NEW S, first \in S \cup {end},
           \A m \in S : nxt[m] \in S \cup {end}
    PROVE  From(nodes, first, nxt) \subseteq S
<1> DEFINE s == Line(nodes, first, nxt)
<1>1. /\ s \in Seq(nodes) /\ Members(s) = From(nodes, first, nxt)
  BY LinkedFacts
<1>2. IsChain(nodes, first, nxt, s, end)
  BY DEF IsLinked
<1> HIDE DEF s
<1>3. /\ Len(s) \in Nat /\ \A k \in 1 .. Len(s) : s[k] \in nodes
      /\ s # <<>> => first = s[1]
      /\ \A k \in 1 .. Len(s) : k < Len(s) => nxt[s[k]] = s[k + 1]
  BY <1>1, <1>2 DEF IsChain
<1>4. SUFFICES ASSUME NEW j \in 1 .. Len(s), s[j] \notin S PROVE FALSE
  BY <1>1 DEF Members
<1> DEFINE T == {k \in Nat : k \in 1 .. Len(s) /\ s[k] \notin S}
<1>5. T \in SUBSET Nat /\ T # {}
  BY <1>3, <1>4
<1>6. PICK x \in T : \A y \in T : x <= y
  <2> HIDE DEF T
  <2>1. QED
    BY <1>5, LeastNumber
<1>7. x \in Nat /\ x \in 1 .. Len(s) /\ s[x] \notin S
  OBVIOUS
<1>8. CASE x = 1
  <2>1. s # <<>>
    BY <1>3, <1>7, <1>8
  <2>2. QED
    BY <1>3, <1>7, <1>8, <2>1
<1>9. CASE x # 1
  <2>1. x - 1 \in 1 .. Len(s) /\ x - 1 < Len(s) /\ x - 1 < x /\ (x - 1) + 1 = x
    BY <1>3, <1>7, <1>9
  <2>2. x - 1 \notin T
    BY <1>6, <1>7, <2>1
  <2>3. s[x - 1] \in S
    BY <2>1, <2>2
  <2>4. nxt[s[x - 1]] = s[x]
    BY <1>3, <2>1
  <2>5. QED
    BY <1>3, <1>7, <2>3, <2>4
<1>10. QED
  BY <1>8, <1>9

-------------------------------------------------------------------------------
\* Recursion over the places of a sequence: there is a function that makes these
\* steps, and two functions that make the same steps are equal.
Steps(S, start, n, step) ==
    start \in S /\ n \in Nat /\ step \in [1 .. n -> [S -> S]]

LEMMA Iterates ==
    ASSUME NEW S, NEW start, NEW n, NEW step, Steps(S, start, n, step)
    PROVE  \E f \in [0 .. n -> S] :
             f[0] = start /\ \A k \in 1 .. n : f[k] = step[k][f[k - 1]]
<1> USE DEF Steps
<1> DEFINE Good(m) == \E f \in [0 .. m -> S] :
               f[0] = start /\ \A k \in 1 .. m : f[k] = step[k][f[k - 1]]
           Bad == {m \in 0 .. n : ~Good(m)}
<1>1. SUFFICES ASSUME Bad # {} PROVE FALSE
  <2>1. n \in 0 .. n
    OBVIOUS
  <2>2. QED
    BY <2>1
<1>2. PICK m \in Bad : \A j \in Bad : m <= j
  <2>1. Bad \in SUBSET Nat
    OBVIOUS
  <2> HIDE DEF Bad
  <2>2. QED
    BY <1>1, <2>1, LeastNumber
<1>3. m \in 0 .. n /\ ~Good(m)
  OBVIOUS
<1>4. Good(0)
  <2> DEFINE z == [k \in 0 .. 0 |-> start]
  <2>1. z \in [0 .. 0 -> S] /\ z[0] = start
    OBVIOUS
  <2>2. \A k \in 1 .. 0 : z[k] = step[k][z[k - 1]]
    OBVIOUS
  <2> HIDE DEF z
  <2>3. QED
    BY <2>1, <2>2
<1>5. m # 0 /\ m - 1 \in 0 .. n /\ Good(m - 1)
  <2>1. m # 0
    BY <1>3, <1>4
  <2>2. m - 1 \in 0 .. n /\ ~(m <= m - 1)
    BY <1>3, <2>1
  <2>3. m - 1 \notin Bad
    BY <1>2, <2>2
  <2>4. QED
    BY <2>1, <2>2, <2>3
<1>6. PICK f \in [0 .. m - 1 -> S] :
        f[0] = start /\ \A k \in 1 .. m - 1 : f[k] = step[k][f[k - 1]]
  BY <1>5
<1> DEFINE g == [k \in 0 .. m |-> IF k = m THEN step[m][f[m - 1]] ELSE f[k]]
<1>7. f[m - 1] \in S /\ step[m][f[m - 1]] \in S
  <2>1. m - 1 \in 0 .. m - 1 /\ m \in 1 .. n
    BY <1>3, <1>5
  <2>2. QED
    BY <2>1
<1>8. g \in [0 .. m -> S]
  <2>1. ASSUME NEW k \in 0 .. m, k # m PROVE k \in 0 .. m - 1
    BY <1>3, <2>1
  <2>2. QED
    BY <1>7, <2>1
<1>9. g[0] = start
  BY <1>3, <1>5, <1>6
<1>10. ASSUME NEW k \in 1 .. m PROVE g[k] = step[k][g[k - 1]]
  <2>1. k - 1 \in 0 .. m /\ k - 1 # m /\ k \in 0 .. m
    BY <1>3, <1>5
  <2>2. CASE k = m
    BY <2>1, <2>2
  <2>3. CASE k # m
    <3>1. k \in 1 .. m - 1
      BY <1>3, <2>3
    <3>2. QED
      BY <1>6, <2>1, <2>3, <3>1
  <2>4. QED
    BY <2>2, <2>3
<1> HIDE DEF g
<1>11. QED
  BY <1>3, <1>8, <1>9, <1>10

Alike(n, f, g) ==
    /\ n \in Nat /\ f[0] = g[0]
    /\ \A k \in 1 .. n : f[k - 1] = g[k - 1] => f[k] = g[k]

LEMMA SameSteps ==
    ASSUME NEW n, NEW f, NEW g, Alike(n, f, g)
    PROVE  \A k \in 0 .. n : f[k] = g[k]
<1> USE DEF Alike
<1> DEFINE Bad == {k \in 0 .. n : f[k] # g[k]}
<1>1. SUFFICES ASSUME Bad # {} PROVE FALSE
  OBVIOUS
<1>2. PICK k \in Bad : \A j \in Bad : k <= j
  <2>1. Bad \in SUBSET Nat
    OBVIOUS
  <2> HIDE DEF Bad
  <2>2. QED
    BY <1>1, <2>1, LeastNumber
<1>3. k # 0 /\ k \in 1 .. n /\ k - 1 \in 0 .. n /\ f[k] # g[k]
  BY <1>2
<1>4. k - 1 \notin Bad
  BY <1>2, <1>3
<1>5. f[k - 1] = g[k - 1]
  BY <1>3, <1>4
<1>6. QED
  BY <1>3, <1>5

\* So the recursive definition of Those has the steps that it was given.
Selects(s, S, own) ==
    own = [n \in 0 .. Len(s) |->
             IF n = 0 THEN <<>>
             ELSE IF s[n] \in S THEN Append(own[n - 1], s[n])
             ELSE own[n - 1]]

Selection(T, s, S, own) ==
    /\ own \in [0 .. Len(s) -> Seq(T)]
    /\ Those(s, S) = own[Len(s)]
    /\ own[0] = <<>>
    /\ \A n \in 1 .. Len(s) :
         own[n] = IF s[n] \in S THEN Append(own[n - 1], s[n]) ELSE own[n - 1]

LEMMA ThoseIs ==
    ASSUME NEW T, NEW s, s \in Seq(T), NEW S
    PROVE  \E own : Selection(T, s, S, own)
<1> DEFINE N == Len(s)
           step == [n \in 1 .. N |-> [r \in Seq(T) |->
                      IF s[n] \in S THEN Append(r, s[n]) ELSE r]]
           w == CHOOSE own : Selects(s, S, own)
<1>1. N \in Nat /\ <<>> \in Seq(T) /\ \A n \in 1 .. N : s[n] \in T
  BY LenProperties, ElementOfSeq, EmptySeq
<1>2. step \in [1 .. N -> [Seq(T) -> Seq(T)]]
  BY <1>1
<1>3. \E f \in [0 .. N -> Seq(T)] :
        f[0] = <<>> /\ \A k \in 1 .. N : f[k] = step[k][f[k - 1]]
  <2> DEFINE V == Seq(T)
             e == <<>>
  <2>1. Steps(V, e, N, step)
    BY <1>1, <1>2 DEF Steps
  <2> HIDE DEF step, N, V, e
  <2>2. \E f \in [0 .. N -> V] :
          f[0] = e /\ \A k \in 1 .. N : f[k] = step[k][f[k - 1]]
    BY <2>1, Iterates
  <2>3. QED
    BY <2>2 DEF V, e
<1>4. PICK f \in [0 .. N -> Seq(T)] :
        f[0] = <<>> /\ \A k \in 1 .. N : f[k] = step[k][f[k - 1]]
  BY <1>3
<1>5. \A k \in 1 .. N :
        f[k] = IF s[k] \in S THEN Append(f[k - 1], s[k]) ELSE f[k - 1]
  <2>1. ASSUME NEW k \in 1 .. N
        PROVE  f[k] = IF s[k] \in S THEN Append(f[k - 1], s[k])
                      ELSE f[k - 1]
    <3>1. k - 1 \in 0 .. N
      BY <1>1
    <3>2. f[k - 1] \in Seq(T)
      BY <3>1
    <3>3. QED
      BY <1>4, <3>2
  <2>2. QED
    BY <2>1
<1>6. Selects(s, S, f)
  <2>1. ASSUME NEW k \in 0 .. N
        PROVE  f[k] = IF k = 0 THEN <<>>
                      ELSE IF s[k] \in S THEN Append(f[k - 1], s[k])
                      ELSE f[k - 1]
    <3>1. CASE k = 0
      BY <1>4, <3>1
    <3>2. CASE k # 0
      <4>1. k \in 1 .. N
        BY <1>1, <3>2
      <4>2. QED
        BY <1>5, <3>2, <4>1
    <3>3. QED
      BY <3>1, <3>2
  <2>2. QED
    BY <2>1 DEF Selects
<1>7. Selects(s, S, w)
  BY <1>6
<1>8. Those(s, S) = w[N]
  BY DEF Those, Selects
<1> HIDE DEF w, step
<1>9. /\ w[0] = <<>>
      /\ \A k \in 1 .. N :
           w[k] = IF s[k] \in S THEN Append(w[k - 1], s[k])
                  ELSE w[k - 1]
  <2>1. 0 \in 0 .. N /\ \A k \in 1 .. N : k \in 0 .. N /\ k # 0
    BY <1>1
  <2>2. QED
    BY <1>7, <2>1 DEF Selects
<1>10. \A k \in 0 .. N : f[k] = w[k]
  <2>1. f[0] = w[0]
    BY <1>4, <1>9
  <2>2. \A k \in 1 .. N : f[k - 1] = w[k - 1] => f[k] = w[k]
    BY <1>5, <1>9
  <2>3. Alike(N, f, w)
    BY <1>1, <2>1, <2>2 DEF Alike
  <2>4. QED
    BY <2>3, SameSteps
<1>11. Those(s, S) = f[N]
  BY <1>1, <1>8, <1>10
<1>12. QED
  BY <1>4, <1>5, <1>11 DEF Selection

LEMMA ThoseNone == ASSUME NEW S PROVE Those(<<>>, S) = <<>>
<1>1. <<>> \in Seq({}) /\ Len(<<>>) = 0
  BY EmptySeq
<1>2. PICK own : Selection({}, <<>>, S, own)
  BY <1>1, ThoseIs
<1>3. QED
  BY <1>1, <1>2 DEF Selection

LEMMA ThoseType ==
    ASSUME NEW T, NEW s \in Seq(T), NEW S
    PROVE  Those(s, S) \in Seq(T)
<1>1. PICK own : Selection(T, s, S, own)
  BY ThoseIs
<1>2. Len(s) \in 0 .. Len(s)
  BY LenProperties
<1>3. QED
  BY <1>1, <1>2 DEF Selection

LEMMA ThoseGrow ==
    ASSUME NEW T, NEW s \in Seq(T), NEW S, NEW l \in T
    PROVE  Those(Append(s, l), S) =
                IF l \in S THEN Append(Those(s, S), l) ELSE Those(s, S)
<1> DEFINE N == Len(s)
           more == Append(s, l)
<1>1. /\ N \in Nat /\ more \in Seq(T) /\ Len(more) = N + 1
      /\ more[N + 1] = l /\ \A k \in 1 .. N : more[k] = s[k]
  BY LenProperties, AppendProperties
<1>2. PICK own : Selection(T, s, S, own)
  BY ThoseIs
<1>3. PICK new : Selection(T, more, S, new)
  BY <1>1, ThoseIs
<1> HIDE DEF more
<1>4. \A k \in 0 .. N : own[k] = new[k]
  <2>1. ASSUME NEW k \in 1 .. N, own[k - 1] = new[k - 1] PROVE own[k] = new[k]
    <3>1. k \in 1 .. N + 1 /\ more[k] = s[k]
      BY <1>1
    <3>2. QED
      BY <1>1, <1>2, <1>3, <2>1, <3>1 DEF Selection
  <2>2. \A k \in 1 .. N : own[k - 1] = new[k - 1] => own[k] = new[k]
    BY <2>1
  <2>3. Alike(N, own, new)
    BY <1>1, <1>2, <1>3, <2>2 DEF Alike, Selection
  <2>4. QED
    BY <2>3, SameSteps
<1>5. new[N] = Those(s, S)
  BY <1>1, <1>2, <1>4 DEF Selection
<1>6. Those(more, S) = IF l \in S THEN Append(Those(s, S), l)
                       ELSE Those(s, S)
  <2>1. N + 1 \in 1 .. N + 1 /\ N + 1 - 1 = N
    BY <1>1
  <2>2. QED
    BY <1>1, <1>3, <1>5, <2>1 DEF Selection
<1>7. QED
  BY <1>6 DEF more
===============================================================================
