--------------------------- MODULE XmlTreeProofs ----------------------------
(***************************************************************************)
(* Proofs about the node heap: types, the agreement of the five links      *)
(* under every sequence of calls, the ownership of custom data, the links  *)
(* as lists of children (the refinement of XmlForest), and the absence of  *)
(* cycles of parents.                                                      *)
(***************************************************************************)
EXTENDS XmlSearch, SequenceTheorems, WellFoundedInduction, TLAPS

\* The links agree.
Good(g) == Neighbours(g) /\ Ends(g) /\ Roots(g)

\* A store changes the one field it names, and none through NULL.
LEMMA StoreFact ==
    ASSUME NEW f \in [Node -> Ptr], NEW p \in Ptr, NEW v \in Ptr
    PROVE  /\ Store(f, p, v) \in [Node -> Ptr]
           /\ \A x \in Node : Store(f, p, v)[x] = IF x = p THEN v ELSE f[x]
  BY TreeAssumption DEF Store, Ptr

\* Links are a record of five pointer fields.
LEMMA LinksFact ==
    ASSUME NEW g \in Links
    PROVE  /\ NULL \notin Node /\ NULL \in Ptr /\ \A x \in Node : x \in Ptr
           /\ \A x \in Ptr : x # NULL => x \in Node
           /\ g.parent \in [Node -> Ptr] /\ g.child \in [Node -> Ptr]
           /\ g.last_child \in [Node -> Ptr] /\ g.prev \in [Node -> Ptr]
           /\ g.next \in [Node -> Ptr]
  BY TreeAssumption DEF Links, Ptr

\* The converse.
LEMMA LinksIntro ==
    ASSUME NEW a \in [Node -> Ptr], NEW b \in [Node -> Ptr], NEW c \in [Node -> Ptr],
           NEW d \in [Node -> Ptr], NEW e \in [Node -> Ptr]
    PROVE  [parent |-> a, child |-> b, last_child |-> c, prev |-> d, next |-> e] \in Links
  BY DEF Links

\* mxmlRemove yields links, and the node has no parent after it.
LEMMA UnlinkType ==
    ASSUME NEW g \in Links, NEW n \in Node
    PROVE  Unlink(g, n) \in Links /\ Unlink(g, n).parent[n] = NULL
  <1>1. CASE g.parent[n] = NULL
    BY <1>1 DEF Unlink
  <1>2. CASE g.parent[n] # NULL
    <2> DEFINE a == g.prev[n]  b == g.next[n]  p == g.parent[n]
    <2>1. n \in Ptr /\ a \in Ptr /\ b \in Ptr /\ p \in Ptr
      BY LinksFact
    <2>2. Store(g.parent, n, NULL) \in [Node -> Ptr] /\ Store(g.parent, n, NULL)[n] = NULL
      BY <2>1, LinksFact, StoreFact DEF Store
    <2>3. Store(g.child, p, b) \in [Node -> Ptr] /\ Store(g.last_child, p, a) \in [Node -> Ptr]
      BY <2>1, LinksFact, StoreFact
    <2>4. Store(Store(g.prev, b, a), n, NULL) \in [Node -> Ptr]
      BY <2>1, LinksFact, StoreFact
    <2>5. Store(Store(g.next, a, b), n, NULL) \in [Node -> Ptr]
      BY <2>1, LinksFact, StoreFact
    <2> QED BY <1>2, <2>2, <2>3, <2>4, <2>5, LinksFact, LinksIntro DEF Unlink
  <1> QED BY <1>1, <1>2

\* mxmlRemove keeps the links of the other nodes in agreement.
LEMMA UnlinkGood ==
    ASSUME NEW g \in Links, NEW n \in Node, Good(g)
    PROVE  Good(Unlink(g, n))
  <1>1. CASE g.parent[n] = NULL
    BY <1>1 DEF Unlink
  <1>2. CASE g.parent[n] # NULL
    <2> DEFINE a == g.prev[n]  b == g.next[n]  p == g.parent[n]  u == Unlink(g, n)
    <2>0. p \in Node /\ p \in Ptr /\ a \in Ptr /\ b \in Ptr /\ n \in Ptr
      BY <1>2, LinksFact
    <2>1. \A x \in Node : u.parent[x] = IF x = n THEN NULL ELSE g.parent[x]
      BY <1>2, <2>0, LinksFact DEF Unlink, Store
    <2>2. \A x \in Node : u.child[x] = IF a = NULL /\ x = p THEN b ELSE g.child[x]
      BY <1>2, <2>0, LinksFact DEF Unlink, Store
    <2>3. \A x \in Node : u.last_child[x] = IF b = NULL /\ x = p THEN a ELSE g.last_child[x]
      BY <1>2, <2>0, LinksFact DEF Unlink, Store
    <2>4. \A x \in Node : u.prev[x] = IF x = n THEN NULL ELSE IF x = b THEN a ELSE g.prev[x]
      BY <1>2, <2>0, LinksFact DEF Unlink, Store
    <2>5. \A x \in Node : u.next[x] = IF x = n THEN NULL ELSE IF x = a THEN b ELSE g.next[x]
      BY <1>2, <2>0, LinksFact DEF Unlink, Store
    <2>6. Neighbours(g) /\ Ends(g) /\ Roots(g)
      BY DEF Good
    <2> HIDE DEF u
    <2>7. Neighbours(u)
      BY <2>0, LinksFact, <2>1, <2>4, <2>5, <2>6 DEF Neighbours
    <2>8. Ends(u)
      BY <2>0, LinksFact, <2>1, <2>2, <2>3, <2>4, <2>5, <2>6, SMTT(30) DEF Neighbours, Ends
    <2>9. Roots(u)
      BY <2>0, LinksFact, <2>1, <2>4, <2>5, <2>6 DEF Neighbours, Roots
    <2> QED BY <2>7, <2>8, <2>9 DEF Good, u
  <1> QED BY <1>1, <1>2

\* A node without a parent becomes the first child.
LEMMA LinkFirstGood ==
    ASSUME NEW g \in Links, NEW p \in Node, NEW n \in Node, p # n, Good(g),
           g.parent[n] = NULL
    PROVE  LinkFirst(g, p, n) \in Links /\ Good(LinkFirst(g, p, n))
  <1> DEFINE f == g.child[p]  u == LinkFirst(g, p, n)
  <1>0. n \in Ptr /\ p \in Ptr /\ f \in Ptr
    BY LinksFact
  <1>1. u \in Links
    <2>1. u.parent \in [Node -> Ptr] /\ u.child \in [Node -> Ptr] /\ u.last_child \in [Node -> Ptr]
      BY <1>0, LinksFact, StoreFact DEF LinkFirst
    <2>2. u.prev \in [Node -> Ptr] /\ u.next \in [Node -> Ptr]
      BY <1>0, LinksFact, StoreFact DEF LinkFirst
    <2>3. u = [parent |-> u.parent, child |-> u.child, last_child |-> u.last_child,
               prev |-> u.prev, next |-> u.next]
      BY DEF LinkFirst
    <2> HIDE DEF u
    <2> QED BY <2>1, <2>2, <2>3, LinksIntro
  <1>2. \A x \in Node : u.parent[x] = IF x = n THEN p ELSE g.parent[x]
    BY <1>0, LinksFact DEF LinkFirst, Store
  <1>3. \A x \in Node : u.child[x] = IF x = p THEN n ELSE g.child[x]
    BY <1>0, LinksFact DEF LinkFirst, Store
  <1>4. \A x \in Node : u.last_child[x] = IF f = NULL /\ x = p THEN n ELSE g.last_child[x]
    BY <1>0, LinksFact DEF LinkFirst, Store
  <1>5. \A x \in Node : u.prev[x] = IF x = f THEN n ELSE g.prev[x]
    BY <1>0, LinksFact DEF LinkFirst, Store
  <1>6. \A x \in Node : u.next[x] = IF x = n THEN f ELSE g.next[x]
    BY <1>0, LinksFact DEF LinkFirst, Store
  <1>7. Neighbours(g) /\ Ends(g) /\ Roots(g)
    BY DEF Good
  <1> HIDE DEF u
  <1>8. Neighbours(u)
    BY <1>0, LinksFact, <1>2, <1>5, <1>6, <1>7 DEF Neighbours, Ends, Roots
  <1>9. Ends(u)
    BY <1>0, LinksFact, <1>2, <1>3, <1>4, <1>5, <1>6, <1>7 DEF Neighbours, Ends, Roots
  <1>10. Roots(u)
    BY <1>0, LinksFact, <1>2, <1>5, <1>6, <1>7 DEF Neighbours, Ends, Roots
  <1> QED BY <1>1, <1>8, <1>9, <1>10 DEF Good, u

\* A node without a parent becomes the last child.
LEMMA LinkLastGood ==
    ASSUME NEW g \in Links, NEW p \in Node, NEW n \in Node, p # n, Good(g),
           g.parent[n] = NULL
    PROVE  LinkLast(g, p, n) \in Links /\ Good(LinkLast(g, p, n))
  <1> DEFINE l == g.last_child[p]  u == LinkLast(g, p, n)
  <1>0. n \in Ptr /\ p \in Ptr /\ l \in Ptr
    BY LinksFact
  <1>1. u \in Links
    <2>1. u.parent \in [Node -> Ptr] /\ u.child \in [Node -> Ptr] /\ u.last_child \in [Node -> Ptr]
      BY <1>0, LinksFact, StoreFact DEF LinkLast
    <2>2. u.prev \in [Node -> Ptr] /\ u.next \in [Node -> Ptr]
      BY <1>0, LinksFact, StoreFact DEF LinkLast
    <2>3. u = [parent |-> u.parent, child |-> u.child, last_child |-> u.last_child,
               prev |-> u.prev, next |-> u.next]
      BY DEF LinkLast
    <2> HIDE DEF u
    <2> QED BY <2>1, <2>2, <2>3, LinksIntro
  <1>2. \A x \in Node : u.parent[x] = IF x = n THEN p ELSE g.parent[x]
    BY <1>0, LinksFact DEF LinkLast, Store
  <1>3. \A x \in Node : u.child[x] = IF l = NULL /\ x = p THEN n ELSE g.child[x]
    BY <1>0, LinksFact DEF LinkLast, Store
  <1>4. \A x \in Node : u.last_child[x] = IF x = p THEN n ELSE g.last_child[x]
    BY <1>0, LinksFact DEF LinkLast, Store
  <1>5. \A x \in Node : u.prev[x] = IF x = n THEN l ELSE g.prev[x]
    BY <1>0, LinksFact DEF LinkLast, Store
  <1>6. \A x \in Node : u.next[x] = IF x = l THEN n ELSE g.next[x]
    BY <1>0, LinksFact DEF LinkLast, Store
  <1>7. Neighbours(g) /\ Ends(g) /\ Roots(g)
    BY DEF Good
  <1> HIDE DEF u
  <1>8. Neighbours(u)
    BY <1>0, LinksFact, <1>2, <1>5, <1>6, <1>7 DEF Neighbours, Ends, Roots
  <1>9. Ends(u)
    BY <1>0, LinksFact, <1>2, <1>3, <1>4, <1>5, <1>6, <1>7 DEF Neighbours, Ends, Roots
  <1>10. Roots(u)
    BY <1>0, LinksFact, <1>2, <1>5, <1>6, <1>7 DEF Neighbours, Ends, Roots
  <1> QED BY <1>1, <1>8, <1>9, <1>10 DEF Good, u

\* A node without a parent goes in front of the child c.
LEMMA LinkBeforeGood ==
    ASSUME NEW g \in Links, NEW p \in Node, NEW n \in Node, p # n, Good(g),
           g.parent[n] = NULL,
           NEW c \in Node, c # n, g.parent[c] = p
    PROVE  LinkBefore(g, p, c, n) \in Links /\ Good(LinkBefore(g, p, c, n))
  <1> DEFINE a == g.prev[c]  u == LinkBefore(g, p, c, n)
  <1>0. n \in Ptr /\ p \in Ptr /\ a \in Ptr
    BY LinksFact
  <1>1. u \in Links
    <2>1. u.parent \in [Node -> Ptr] /\ u.child \in [Node -> Ptr] /\ u.last_child \in [Node -> Ptr]
      BY <1>0, LinksFact, StoreFact DEF LinkBefore
    <2>2. u.prev \in [Node -> Ptr] /\ u.next \in [Node -> Ptr]
      BY <1>0, LinksFact, StoreFact DEF LinkBefore
    <2>3. u = [parent |-> u.parent, child |-> u.child, last_child |-> u.last_child,
               prev |-> u.prev, next |-> u.next]
      BY DEF LinkBefore
    <2> HIDE DEF u
    <2> QED BY <2>1, <2>2, <2>3, LinksIntro
  <1>2. \A x \in Node : u.parent[x] = IF x = n THEN p ELSE g.parent[x]
    BY <1>0, LinksFact DEF LinkBefore, Store
  <1>3. \A x \in Node : u.child[x] = IF a = NULL /\ x = p THEN n ELSE g.child[x]
    BY <1>0, LinksFact DEF LinkBefore, Store
  <1>4. \A x \in Node : u.last_child[x] = g.last_child[x]
    BY <1>0, LinksFact DEF LinkBefore, Store
  <1>5. \A x \in Node : u.prev[x] = IF x = c THEN n ELSE IF x = n THEN a ELSE g.prev[x]
    BY <1>0, LinksFact DEF LinkBefore, Store
  <1>6. \A x \in Node : u.next[x] = IF x = a THEN n ELSE IF x = n THEN c ELSE g.next[x]
    BY <1>0, LinksFact DEF LinkBefore, Store
  <1>7. Neighbours(g) /\ Ends(g) /\ Roots(g)
    BY DEF Good
  <1> HIDE DEF u
  <1>8. Neighbours(u)
    BY <1>0, LinksFact, <1>2, <1>5, <1>6, <1>7 DEF Neighbours, Ends, Roots
  <1>9. Ends(u)
    BY <1>0, LinksFact, <1>2, <1>3, <1>4, <1>5, <1>6, <1>7 DEF Neighbours, Ends, Roots
  <1>10. Roots(u)
    BY <1>0, LinksFact, <1>2, <1>5, <1>6, <1>7 DEF Neighbours, Ends, Roots
  <1> QED BY <1>1, <1>8, <1>9, <1>10 DEF Good, u

\* A node without a parent goes behind the child c.
LEMMA LinkAfterGood ==
    ASSUME NEW g \in Links, NEW p \in Node, NEW n \in Node, p # n, Good(g),
           g.parent[n] = NULL,
           NEW c \in Node, c # n, g.parent[c] = p
    PROVE  LinkAfter(g, p, c, n) \in Links /\ Good(LinkAfter(g, p, c, n))
  <1> DEFINE b == g.next[c]  u == LinkAfter(g, p, c, n)
  <1>0. n \in Ptr /\ p \in Ptr /\ b \in Ptr
    BY LinksFact
  <1>1. u \in Links
    <2>1. u.parent \in [Node -> Ptr] /\ u.child \in [Node -> Ptr] /\ u.last_child \in [Node -> Ptr]
      BY <1>0, LinksFact, StoreFact DEF LinkAfter
    <2>2. u.prev \in [Node -> Ptr] /\ u.next \in [Node -> Ptr]
      BY <1>0, LinksFact, StoreFact DEF LinkAfter
    <2>3. u = [parent |-> u.parent, child |-> u.child, last_child |-> u.last_child,
               prev |-> u.prev, next |-> u.next]
      BY DEF LinkAfter
    <2> HIDE DEF u
    <2> QED BY <2>1, <2>2, <2>3, LinksIntro
  <1>2. \A x \in Node : u.parent[x] = IF x = n THEN p ELSE g.parent[x]
    BY <1>0, LinksFact DEF LinkAfter, Store
  <1>3. \A x \in Node : u.child[x] = g.child[x]
    BY <1>0, LinksFact DEF LinkAfter, Store
  <1>4. \A x \in Node : u.last_child[x] = IF b = NULL /\ x = p THEN n ELSE g.last_child[x]
    BY <1>0, LinksFact DEF LinkAfter, Store
  <1>5. \A x \in Node : u.prev[x] = IF x = b THEN n ELSE IF x = n THEN c ELSE g.prev[x]
    BY <1>0, LinksFact DEF LinkAfter, Store
  <1>6. \A x \in Node : u.next[x] = IF x = c THEN n ELSE IF x = n THEN b ELSE g.next[x]
    BY <1>0, LinksFact DEF LinkAfter, Store
  <1>7. Neighbours(g) /\ Ends(g) /\ Roots(g)
    BY DEF Good
  <1> HIDE DEF u
  <1>8. Neighbours(u)
    BY <1>0, LinksFact, <1>2, <1>5, <1>6, <1>7 DEF Neighbours, Ends, Roots
  <1>9. Ends(u)
    BY <1>0, LinksFact, <1>2, <1>3, <1>4, <1>5, <1>6, <1>7 DEF Neighbours, Ends, Roots
  <1>10. Roots(u)
    BY <1>0, LinksFact, <1>2, <1>5, <1>6, <1>7 DEF Neighbours, Ends, Roots
  <1> QED BY <1>1, <1>8, <1>9, <1>10 DEF Good, u

\* mxmlRemove changes the parent of the node alone.
LEMMA UnlinkParent ==
    ASSUME NEW g \in Links, NEW n \in Node, NEW x \in Node
    PROVE  Unlink(g, n).parent[x] = IF x = n THEN NULL ELSE g.parent[x]
  BY LinksFact DEF Unlink, Store

\* mxmlAdd: the links agree and the node has the new parent, wherever it was.
LEMMA AddToFact ==
    ASSUME NEW g \in Links, NEW p \in Node, NEW n \in Node, p # n, Good(g),
           NEW c \in Ptr, c # n, NEW w
    PROVE  /\ AddTo(g, p, w, c, n) \in Links /\ Good(AddTo(g, p, w, c, n))
           /\ \A x \in Node : AddTo(g, p, w, c, n).parent[x] = IF x = n THEN p ELSE g.parent[x]
  <1> DEFINE u == Unlink(g, n)  v == AddTo(g, p, w, c, n)
  <1>1. u \in Links /\ Good(u) /\ u.parent[n] = NULL
    BY UnlinkType, UnlinkGood
  <1>2. \A x \in Node : u.parent[x] = IF x = n THEN NULL ELSE g.parent[x]
    BY UnlinkParent
  <1>3. \/ v = LinkFirst(u, p, n) \/ v = LinkLast(u, p, n)
        \/ c \in Node /\ u.parent[c] = p /\ (v = LinkBefore(u, p, c, n) \/ v = LinkAfter(u, p, c, n))
    BY LinksFact DEF AddTo
  <1> HIDE DEF u, v
  <1>4. v \in Links /\ Good(v)
    BY <1>1, <1>3, LinkFirstGood, LinkLastGood, LinkBeforeGood, LinkAfterGood
  <1>5. v.parent = Store(u.parent, n, p)
    BY <1>3 DEF LinkFirst, LinkLast, LinkBefore, LinkAfter
  <1>6. \A x \in Node : v.parent[x] = IF x = n THEN p ELSE u.parent[x]
    <2>1. u.parent \in [Node -> Ptr] /\ n \in Ptr /\ p \in Ptr
      BY <1>1, LinksFact
    <2> QED BY <1>5, <2>1, StoreFact DEF Store
  <1> QED BY <1>2, <1>4, <1>6 DEF v

\* The nodes below n: n, and every other node exactly with its parent.
LEMMA SubFact ==
    ASSUME NEW g \in Links, NEW n \in Node
    PROVE  /\ Sub(g, n) \subseteq Node /\ n \in Sub(g, n)
           /\ \A x \in Node \ {n} : x \in Sub(g, n) <=> g.parent[x] \in Sub(g, n)
  <1> DEFINE C == {S \in SUBSET Node : n \in S /\ \A x \in Node : g.parent[x] \in S => x \in S}
             D == Sub(g, n)
  <1>1. D = {m \in Node : \A S \in C : m \in S}
    BY DEF Sub
  <1> HIDE DEF D
  <1>2. D \subseteq Node /\ n \in D
    BY <1>1
  <1>3. ASSUME NEW x \in Node, g.parent[x] \in D  PROVE x \in D
    BY <1>1, <1>3
  <1>4. ASSUME NEW x \in Node, x # n, x \in D, g.parent[x] \notin D  PROVE FALSE
    <2> DEFINE S == D \ {x}
    <2>1. S \in SUBSET Node /\ n \in S
      BY <1>2, <1>4
    <2>2. ASSUME NEW y \in Node, g.parent[y] \in S  PROVE y \in S
      BY <1>3, <1>4, <2>2
    <2>3. S \in C
      BY <2>1, <2>2
    <2> QED BY <1>1, <1>4, <2>3
  <1> QED BY <1>2, <1>3, <1>4 DEF D

\* Freeing an unlinked node with all below it leaves the links of the others.
LEMMA ClearedFact ==
    ASSUME NEW g \in Links, Good(g), NEW n \in Node, g.parent[n] = NULL,
           NEW D \in SUBSET Node, n \in D,
           \A x \in Node \ {n} : x \in D <=> g.parent[x] \in D
    PROVE  /\ Cleared(g, D) \in Links /\ Good(Cleared(g, D))
           /\ \A x \in Node : Cleared(g, D).parent[x] = IF x \in D THEN NULL ELSE g.parent[x]
           /\ \A x \in Node : Cleared(g, D).parent[x] \notin D
  <1> DEFINE u == Cleared(g, D)
  <1>1. u \in Links
    <2>1. u.parent \in [Node -> Ptr] /\ u.child \in [Node -> Ptr] /\ u.last_child \in [Node -> Ptr]
          /\ u.prev \in [Node -> Ptr] /\ u.next \in [Node -> Ptr]
      BY LinksFact DEF Cleared
    <2>2. u = [parent |-> u.parent, child |-> u.child, last_child |-> u.last_child,
               prev |-> u.prev, next |-> u.next]
      BY DEF Cleared
    <2> HIDE DEF u
    <2> QED BY <2>1, <2>2, LinksIntro
  <1>2. \A x \in Node : /\ u.parent[x] = IF x \in D THEN NULL ELSE g.parent[x]
                        /\ u.child[x] = IF x \in D THEN NULL ELSE g.child[x]
                        /\ u.last_child[x] = IF x \in D THEN NULL ELSE g.last_child[x]
                        /\ u.prev[x] = IF x \in D THEN NULL ELSE g.prev[x]
                        /\ u.next[x] = IF x \in D THEN NULL ELSE g.next[x]
    BY DEF Cleared
  <1>3. Neighbours(g) /\ Ends(g) /\ Roots(g)
    BY DEF Good
  <1> HIDE DEF u
  <1>4. Neighbours(u)
    BY <1>2, <1>3, LinksFact DEF Neighbours, Roots
  <1>5. Ends(u)
    BY <1>2, <1>3, LinksFact DEF Neighbours, Ends, Roots
  <1>6. Roots(u)
    BY <1>2, <1>3, LinksFact DEF Neighbours, Roots
  <1>7. \A x \in Node : u.parent[x] \notin D
    BY <1>2, LinksFact
  <1> QED BY <1>1, <1>2, <1>4, <1>5, <1>6, <1>7 DEF Good, u

\* Nodes whose parents are in L and that have none outside it stay inside L.
LEMMA InsideIntro ==
    ASSUME NEW g \in Links, Good(g), NEW L \in SUBSET Node,
           \A x \in Node : g.parent[x] \in L \cup {NULL} /\ (x \notin L => g.parent[x] = NULL)
    PROVE  Inside(g, L)
  BY LinksFact DEF Good, Ends, Inside

-----------------------------------------------------------------------------
(***************************************************************************)
(* The invariant: types, links, unique attribute names, and every piece of *)
(* custom data with at most one owner.                                     *)
(***************************************************************************)
Owns(m, d) == m \in live /\ kind[m] = "custom" /\ value[m] = d

OneOwner == \A m1, m2 \in Node : \A d \in Data : Owns(m1, d) /\ Owns(m2, d) => m1 = m2

HeapInv == TypeOK /\ LinksOK
DataInv == DataOwned /\ OneOwner

\* LinksOK in terms of the lemmas.
LEMMA LinksSplit == LinksOK <=> Good(h) /\ Inside(h, live)
  BY DEF LinksOK, Good

\* mxmlRemove's effect on the heap.
LEMMA HeapUnlink ==
    ASSUME HeapInv, NEW n \in live
    PROVE  LET u == Unlink(h, n) IN u \in Links /\ Good(u) /\ Inside(u, live)
  <1> DEFINE u == Unlink(h, n)
  <1>1. n \in Node /\ h \in Links /\ Good(h) /\ Inside(h, live) /\ live \in SUBSET Node
    BY LinksSplit DEF HeapInv, TypeOK
  <1>2. u \in Links /\ Good(u) /\ \A x \in Node : u.parent[x] = IF x = n THEN NULL ELSE h.parent[x]
    BY <1>1, UnlinkType, UnlinkGood, UnlinkParent
  <1> HIDE DEF u
  <1>3. Inside(u, live)
    BY <1>1, <1>2, InsideIntro DEF Inside
  <1> QED BY <1>2, <1>3 DEF u

\* mxmlAdd's effect on the heap, for a live or a new node.
LEMMA HeapAdd ==
    ASSUME HeapInv, NEW n \in Node, NEW p \in live, p # n, NEW c \in Ptr, c # n, NEW w
    PROVE  LET u == AddTo(h, p, w, c, n)
           IN  u \in Links /\ Good(u) /\ Inside(u, live \cup {n})
  <1> DEFINE u == AddTo(h, p, w, c, n)
  <1>1. p \in Node /\ h \in Links /\ Good(h) /\ Inside(h, live) /\ live \in SUBSET Node
    BY LinksSplit DEF HeapInv, TypeOK
  <1>2. u \in Links /\ Good(u) /\ \A x \in Node : u.parent[x] = IF x = n THEN p ELSE h.parent[x]
    BY <1>1, AddToFact
  <1> HIDE DEF u
  <1> DEFINE L == live \cup {n}
  <1>3. /\ L \in SUBSET Node
        /\ \A x \in Node : u.parent[x] \in L \cup {NULL} /\ (x \notin L => u.parent[x] = NULL)
    BY <1>1, <1>2 DEF Inside
  <1> HIDE DEF L
  <1>4. Inside(u, L)
    BY <1>2, <1>3, InsideIntro
  <1> QED BY <1>2, <1>4 DEF u, L

\* mxmlDelete's effect on the heap.
LEMMA HeapDelete ==
    ASSUME HeapInv, NEW n \in live
    PROVE  LET D == Sub(h, n)  u == Cleared(Unlink(h, n), D)
           IN  u \in Links /\ Good(u) /\ Inside(u, live \ D)
  <1> DEFINE D == Sub(h, n)  g == Unlink(h, n)  u == Cleared(g, D)
  <1>1. n \in Node /\ h \in Links /\ Inside(h, live) /\ live \in SUBSET Node
    BY LinksSplit DEF HeapInv, TypeOK
  <1>2. g \in Links /\ Good(g) /\ Inside(g, live)
    BY HeapUnlink
  <1>3. \A x \in Node : g.parent[x] = IF x = n THEN NULL ELSE h.parent[x]
    BY <1>1, UnlinkParent
  <1>4. D \in SUBSET Node /\ n \in D /\ \A x \in Node \ {n} : x \in D <=> h.parent[x] \in D
    BY <1>1, SubFact
  <1> HIDE DEF D, g
  <1>5. \A x \in Node \ {n} : x \in D <=> g.parent[x] \in D
    BY <1>3, <1>4
  <1>6. /\ u \in Links /\ Good(u)
        /\ \A x \in Node : u.parent[x] = IF x \in D THEN NULL ELSE g.parent[x]
        /\ \A x \in Node : u.parent[x] \notin D
    BY <1>1, <1>2, <1>3, <1>4, <1>5, ClearedFact
  <1> HIDE DEF u
  <1> DEFINE L == live \ D
  <1>7. /\ L \in SUBSET Node
        /\ \A x \in Node : u.parent[x] \in L \cup {NULL} /\ (x \notin L => u.parent[x] = NULL)
    BY <1>1, <1>2, <1>6 DEF Inside
  <1> HIDE DEF L
  <1>8. Inside(u, L)
    BY <1>6, <1>7, InsideIntro
  <1> QED BY <1>6, <1>8 DEF u, g, D, L
\* With unique names the first position is the only one.
LEMMA FirstFact ==
    ASSUME TypeOK, AttrsUnique, NEW n \in Node, NEW a, AttrAt(n, a) # {}
    PROVE  LET i == FirstOf(AttrAt(n, a))
           IN  /\ i \in DOMAIN attrs[n] /\ attrs[n][i].name = a
               /\ \A j \in DOMAIN attrs[n] : attrs[n][j].name = a => j = i
  <1>1. PICK i \in DOMAIN attrs[n] : attrs[n][i].name = a
    BY DEF AttrAt
  <1>2. AttrAt(n, a) = {i}
    BY <1>1 DEF AttrAt, AttrsUnique
  <1>3. i \in Nat
    BY <1>1 DEF TypeOK
  <1>4. FirstOf({i}) = i
    BY <1>3 DEF FirstOf
  <1> QED BY <1>1, <1>2, <1>4 DEF AttrsUnique

\* A list of attributes without two of one name.
UniqueNames(s) == \A i, j \in DOMAIN s : s[i].name = s[j].name => i = j

\* mxml_set_attr keeps the names unique.
LEMMA SetAttrFact ==
    ASSUME TypeOK, AttrsUnique, NEW n \in Node, NEW a \in AttrNames, NEW v \in Values \cup {NULL}
    PROVE  mxml_set_attr(n, a, v) \in Seq(Attr) /\ UniqueNames(mxml_set_attr(n, a, v))
  <1> DEFINE s == attrs[n]
  <1>1. s \in Seq(Attr) /\ UniqueNames(s)
    BY DEF TypeOK, AttrsUnique, UniqueNames
  <1>2. CASE AttrAt(n, a) # {}
    <2> DEFINE i == FirstOf(AttrAt(n, a))  t == [s EXCEPT ![i].value = v]
    <2>1. i \in DOMAIN s
      BY <1>2, FirstFact
    <2>2. t = [s EXCEPT ![i] = [s[i] EXCEPT !.value = v]]
      BY <2>1
    <2>a. s[i] \in Attr
      BY <1>1, <2>1
    <2>b. \A r \in Attr : [r EXCEPT !.value = v] \in Attr /\ [r EXCEPT !.value = v].name = r.name
      BY DEF Attr
    <2>3. [s[i] EXCEPT !.value = v] \in Attr /\ [s[i] EXCEPT !.value = v].name = s[i].name
      BY <2>a, <2>b
    <2> HIDE DEF i
    <2>4. t \in Seq(Attr) /\ DOMAIN t = DOMAIN s
      BY <1>1, <2>1, <2>2, <2>3
    <2>5. \A j \in DOMAIN s : t[j].name = s[j].name
      BY <1>1, <2>1, <2>2, <2>3
    <2>6. mxml_set_attr(n, a, v) = t
      BY <1>2 DEF mxml_set_attr, i
    <2> HIDE DEF t, s
    <2> QED BY <1>1, <2>4, <2>5, <2>6 DEF UniqueNames
  <1>3. CASE AttrAt(n, a) = {}
    <2> DEFINE r == [name |-> a, value |-> v]  t == Append(s, r)
    <2>1. r \in Attr /\ r.name = a
      BY DEF Attr
    <2>2. \A j \in DOMAIN s : s[j].name # a
      BY <1>3 DEF AttrAt
    <2>3. mxml_set_attr(n, a, v) = t
      BY <1>3 DEF mxml_set_attr
    <2> HIDE DEF s, r
    <2>4. t \in Seq(Attr) /\ Len(t) = Len(s) + 1 /\ t[Len(s) + 1] = r
          /\ \A j \in 1..Len(s) : t[j] = s[j]
      BY <1>1, <2>1
    <2>5. DOMAIN t = 1..Len(s) + 1 /\ DOMAIN s = 1..Len(s) /\ Len(s) \in Nat
      BY <1>1, <2>4
    <2> HIDE DEF t
    <2> QED BY <1>1, <2>1, <2>2, <2>3, <2>4, <2>5 DEF UniqueNames
  <1> QED BY <1>2, <1>3

\* Moving the attributes behind a deleted one down keeps the names unique.
LEMMA CutFact ==
    ASSUME NEW s \in Seq(Attr), UniqueNames(s), NEW i \in DOMAIN s
    PROVE  LET t == SubSeq(s, 1, i - 1) \o SubSeq(s, i + 1, Len(s))
           IN  t \in Seq(Attr) /\ UniqueNames(t)
  <1> DEFINE a == SubSeq(s, 1, i - 1)  b == SubSeq(s, i + 1, Len(s))  t == a \o b
  <1>1. i \in 1..Len(s) /\ Len(s) \in Nat
    OBVIOUS
  <1>2. a \in Seq(Attr) /\ Len(a) = i - 1 /\ \A j \in 1..i - 1 : a[j] = s[j]
    BY <1>1
  <1>3. b \in Seq(Attr) /\ Len(b) = Len(s) - i /\ \A j \in 1..Len(s) - i : b[j] = s[i + j]
    BY <1>1
  <1> HIDE DEF a, b
  <1>4. t \in Seq(Attr) /\ Len(t) = Len(s) - 1 /\ DOMAIN t = 1..Len(s) - 1
    BY <1>1, <1>2, <1>3
  <1> DEFINE k(j) == IF j < i THEN j ELSE j + 1
  <1>5. \A j \in 1..Len(s) - 1 : t[j] = s[k(j)]
    <2> TAKE j \in 1..Len(s) - 1
    <2>1. CASE j < i
      <3>1. t[j] = a[j] /\ a[j] = s[j]
        BY <1>1, <1>2, <1>3, <2>1
      <3> QED BY <3>1, <2>1
    <2>2. CASE ~(j < i)
      <3>1. t[j] = b[j - (i - 1)] /\ b[j - (i - 1)] = s[i + (j - (i - 1))] /\ i + (j - (i - 1)) = j + 1
        BY <1>1, <1>2, <1>3, <2>2, SMTT(30)
      <3> QED BY <3>1, <2>2
    <2> QED BY <2>1, <2>2
  <1> HIDE DEF t
  <1>6. UniqueNames(t)
    <2> SUFFICES ASSUME NEW j \in DOMAIN t, NEW m \in DOMAIN t, t[j].name = t[m].name
                 PROVE  j = m
      BY DEF UniqueNames
    <2>1. j \in 1..Len(s) - 1 /\ m \in 1..Len(s) - 1
      BY <1>4
    <2>2. k(j) \in 1..Len(s) /\ k(m) \in 1..Len(s) /\ (k(j) = k(m) => j = m)
      BY <1>1, <2>1
    <2>3. s[k(j)].name = s[k(m)].name
      BY <1>5, <2>1
    <2> HIDE DEF k
    <2>4. DOMAIN s = 1..Len(s)
      OBVIOUS
    <2>5. k(j) = k(m)
      BY <2>2, <2>3, <2>4 DEF UniqueNames
    <2> QED BY <2>2, <2>5
  <1> QED BY <1>4, <1>6 DEF t, a, b
Inv == TypeOK /\ LinksOK /\ AttrsUnique /\ DataOwned /\ OneOwner

\* What a step must show of the links.
LEMMA LinksStep ==
    ASSUME h' \in Links, Good(h'), Inside(h', live')
    PROVE  LinksOK'
  BY DEF LinksOK, Good

\* mxml_new: types, links and attributes.
LEMMA NewStep ==
    ASSUME Inv, NEW n \in Node, NEW p \in Ptr, NEW k \in Kinds,
           NEW v \in Names \cup Values \cup Data, mxml_new(n, p, k, v),
           datum' \in [Data -> {"free", "held"}]
    PROVE  TypeOK' /\ LinksOK' /\ AttrsUnique'
  <1>1. HeapInv /\ n \notin live /\ live' = live \cup {n} /\ n # NULL
    BY TreeAssumption DEF mxml_new, Inv, HeapInv
  <1>2. h' \in Links /\ Good(h') /\ Inside(h', live')
    <2>1. CASE p = NULL
      BY <1>1, <2>1, LinksSplit DEF mxml_new, HeapInv, TypeOK, Inside
    <2>2. CASE p # NULL
      <3>1. p \in live /\ p # n /\ NULL \in Ptr /\ NULL # n
        BY <1>1, <2>2 DEF mxml_new, Ptr
      <3>2. h' = AddTo(h, p, "after", NULL, n)
        BY <2>2 DEF mxml_new
      <3> QED BY <1>1, <3>1, <3>2, HeapAdd
    <2> QED BY <2>1, <2>2
  <1>3. TypeOK'
    BY <1>1, <1>2 DEF Inv, TypeOK, mxml_new
  <1>4. AttrsUnique'
    BY DEF Inv, AttrsUnique, mxml_new
  <1> QED BY <1>2, <1>3, <1>4, LinksStep

\* mxml_new of a node without custom data: their owners.
LEMMA NewPlain ==
    ASSUME Inv, NEW n \in Node, NEW p \in Ptr, NEW k \in Kinds \ {"custom"},
           NEW v \in Names \cup Values, mxml_new(n, p, k, v), UNCHANGED datum
    PROVE  Inv'
  <1>1. TypeOK' /\ LinksOK' /\ AttrsUnique'
    BY NewStep DEF Inv, TypeOK
  <1>2. n \notin live /\ \A m \in Node, d \in Data : Owns(m, d)' <=> Owns(m, d)
    BY DEF Inv, TypeOK, mxml_new, Owns
  <1>3. DataOwned' /\ OneOwner'
    BY <1>2 DEF Inv, TypeOK, DataOwned, OneOwner, Owns, mxml_new
  <1> QED BY <1>1, <1>3 DEF Inv

\* mxmlDelete: every part of the invariant.
LEMMA DeleteStep ==
    ASSUME Inv, NEW n \in live, DeleteTree(n)
    PROVE  Inv'
  <1> DEFINE D == Sub(h, n)
  <1>1. HeapInv /\ n \in Node /\ h \in Links
    BY DEF Inv, HeapInv, TypeOK
  <1>2. h' \in Links /\ Good(h') /\ Inside(h', live')
    BY <1>1, HeapDelete DEF DeleteTree
  <1>3. D \subseteq Node
    BY <1>1, SubFact
  <1>d. /\ live' = live \ D /\ datum' = Destroyed(D)
        /\ kind'  = [m \in Node |-> IF m \in D THEN "element" ELSE kind[m]]
        /\ value' = [m \in Node |-> IF m \in D THEN NULL ELSE value[m]]
        /\ attrs' = [m \in Node |-> IF m \in D THEN <<>> ELSE attrs[m]]
        /\ ref'   = [m \in Node |-> IF m \in D THEN 0 ELSE ref[m]]
    BY DEF DeleteTree
  <1> HIDE DEF D
  <1>4. TypeOK'
    <2>1. attrs' \in [Node -> Seq(Attr)]
      BY <1>d DEF Inv, TypeOK
    <2>2. kind' \in [Node -> Kinds] /\ value' \in [Node -> Names \cup Values \cup Data \cup {NULL}]
      BY <1>d DEF Inv, TypeOK, Kinds
    <2>3. ref' \in [Node -> Nat] /\ datum' \in [Data -> {"free", "held"}] /\ live' \in SUBSET Node
      BY <1>d DEF Inv, TypeOK, Destroyed
    <2> QED BY <1>2, <2>1, <2>2, <2>3 DEF TypeOK
  <1>5. AttrsUnique'
    BY <1>d DEF Inv, TypeOK, AttrsUnique
  <1>6. \A m \in Node, d \in Data : Owns(m, d)' <=> Owns(m, d) /\ m \notin D
    BY <1>d DEF Inv, TypeOK, Owns
  <1>7. \A d \in Data : datum'[d] = "held" <=> datum[d] = "held" /\ ~\E m \in D : kind[m] = "custom" /\ value[m] = d
    BY <1>d DEF Destroyed
  <1>8. D \subseteq live
    <2>1. Inside(h, live) /\ NULL \notin Node
      BY LinksFact, <1>1 DEF Inv, LinksOK
    <2>2. \A x \in D : x # n => h.parent[x] \in D
      BY <1>1, SubFact DEF D
    <2> QED BY <1>3, <2>1, <2>2 DEF Inside
  <1>9. \A d \in Data : datum'[d] = "held" <=> datum[d] = "held" /\ ~\E m \in D : Owns(m, d)
    BY <1>7, <1>8 DEF Owns
  <1>10. \A d \in Data : datum[d] = "held" <=> \E m \in live : Owns(m, d)
    BY DEF Inv, DataOwned, Owns
  <1>11. OneOwner /\ live \subseteq Node
    BY DEF Inv, TypeOK
  <1>12. OneOwner'
    BY <1>6, <1>11 DEF OneOwner
  <1>13. \A d \in Data : datum'[d] = "held" <=> \E m \in live' : Owns(m, d)'
    BY <1>d, <1>6, <1>8, <1>9, <1>10, <1>11 DEF OneOwner
  <1>14. DataOwned'
    BY <1>13 DEF DataOwned, Owns
  <1> QED BY <1>2, <1>4, <1>5, <1>12, <1>14, LinksStep DEF Inv

\* Giving custom data d to the node n, new or of custom type before.
LEMMA CustomStep ==
    ASSUME Inv, NEW n \in Node, NEW d \in Data, datum[d] = "free",
           kind' \in [Node -> Kinds], live' = live \cup {n}, kind'[n] = "custom",
           \A m \in Node \ {n} : kind'[m] = kind[m],
           value' = [value EXCEPT ![n] = d],
           \/ n \notin live /\ datum' = [datum EXCEPT ![d] = "held"]
           \/ n \in live /\ kind[n] = "custom" /\ datum' = [Destroyed({n}) EXCEPT ![d] = "held"]
    PROVE  DataOwned' /\ OneOwner'
  <1>1. datum \in [Data -> {"free", "held"}] /\ live \subseteq Node
        /\ value \in [Node -> Names \cup Values \cup Data \cup {NULL}]
    BY DEF Inv, TypeOK
  <1>2. \A e \in Data : datum[e] = "held" <=> \E m \in live : Owns(m, e)
    BY DEF Inv, DataOwned, Owns
  <1>3. \A m \in Node, e \in Data : Owns(m, e)' <=> IF m = n THEN e = d ELSE Owns(m, e)
    BY <1>1 DEF Owns
  <1>4. \A e \in Data : datum'[e] = "held" <=> e = d \/ (datum[e] = "held" /\ ~Owns(n, e))
    BY <1>1 DEF Destroyed, Owns
  <1>5. OneOwner
    BY DEF Inv
  <1>6. OneOwner'
    <2>1. \A m \in Node : ~Owns(m, d)
      BY <1>2 DEF Owns
    <2> QED BY <1>3, <1>5, <2>1 DEF OneOwner
  <1>7. \A e \in Data : datum'[e] = "held" <=> \E m \in live' : Owns(m, e)'
    BY <1>1, <1>2, <1>3, <1>4, <1>5 DEF OneOwner
  <1>8. DataOwned'
    BY <1>7 DEF DataOwned, Owns
  <1> QED BY <1>6, <1>8

\* mxmlNewCustom.
LEMMA NewCustomStep ==
    ASSUME Inv, NEW n \in Node, NEW p \in Ptr, mxmlNewCustom(n, p)
    PROVE  Inv'
  <1>1. PICK d \in Data : /\ datum[d] = "free" /\ mxml_new(n, p, "custom", d)
                          /\ datum' = [datum EXCEPT ![d] = "held"]
    BY DEF mxmlNewCustom
  <1>2. datum' \in [Data -> {"free", "held"}] /\ "custom" \in Kinds
    BY <1>1 DEF Inv, TypeOK, Kinds
  <1>3. TypeOK' /\ LinksOK' /\ AttrsUnique'
    BY <1>1, <1>2, NewStep
  <1>4. /\ kind' \in [Node -> Kinds] /\ live' = live \cup {n} /\ kind'[n] = "custom" /\ n \notin live
        /\ \A m \in Node \ {n} : kind'[m] = kind[m]
        /\ value' = [value EXCEPT ![n] = d]
    BY <1>1, <1>3 DEF Inv, TypeOK, mxml_new
  <1>5. DataOwned' /\ OneOwner'
    BY <1>1, <1>4, CustomStep
  <1> QED BY <1>3, <1>5 DEF Inv

\* The setters of mxml-set.c without custom data.
LEMMA SetStep ==
    ASSUME Inv, NEW n \in Node, NEW k \in Kinds \ {"custom"}, NEW v \in Names \cup Values,
           SetValue(n, k, v), UNCHANGED datum
    PROVE  Inv'
  <1>1. TypeOK'
    BY DEF Inv, TypeOK, SetValue
  <1>2. LinksOK' /\ AttrsUnique'
    BY DEF Inv, LinksOK, Inside, Neighbours, Ends, Roots, AttrsUnique, SetValue
  <1>3. \A m \in Node, d \in Data : Owns(m, d)' <=> Owns(m, d)
    BY DEF Inv, TypeOK, SetValue, Owns
  <1>4. DataOwned' /\ OneOwner'
    BY <1>3 DEF Inv, TypeOK, DataOwned, OneOwner, Owns, SetValue
  <1> QED BY <1>1, <1>2, <1>4 DEF Inv

\* mxmlSetCustom.
LEMMA SetCustomStep ==
    ASSUME Inv, NEW n \in Node, mxmlSetCustom(n)
    PROVE  Inv'
  <1>1. PICK d \in Data : /\ datum[d] = "free" /\ SetValue(n, "custom", d)
                          /\ datum' = [Destroyed({n}) EXCEPT ![d] = "held"]
    BY DEF mxmlSetCustom
  <1>2. TypeOK'
    BY <1>1 DEF Inv, TypeOK, SetValue, Destroyed
  <1>3. LinksOK' /\ AttrsUnique'
    BY <1>1 DEF Inv, LinksOK, Inside, Neighbours, Ends, Roots, AttrsUnique, SetValue
  <1>4. /\ kind' \in [Node -> Kinds] /\ live' = live \cup {n} /\ kind'[n] = "custom" /\ n \in live
        /\ kind[n] = "custom" /\ \A m \in Node \ {n} : kind'[m] = kind[m]
        /\ value' = [value EXCEPT ![n] = d]
    BY <1>1 DEF Inv, TypeOK, SetValue
  <1>5. DataOwned' /\ OneOwner'
    BY <1>1, <1>4, CustomStep
  <1> QED BY <1>2, <1>3, <1>5 DEF Inv

\* A change of the attributes of one element to a list with unique names.
LEMMA AttrStep ==
    ASSUME Inv, NEW n \in Node, NEW s \in Seq(Attr), UniqueNames(s),
           attrs' = [attrs EXCEPT ![n] = s], UNCHANGED <<live, h, kind, value, ref, datum>>
    PROVE  Inv'
  <1>1. TypeOK'
    BY DEF Inv, TypeOK
  <1>2. AttrsUnique'
    BY DEF Inv, TypeOK, AttrsUnique, UniqueNames
  <1>3. LinksOK' /\ DataOwned' /\ OneOwner'
    BY DEF Inv, LinksOK, Inside, Neighbours, Ends, Roots, DataOwned, OneOwner, Owns
  <1> QED BY <1>1, <1>2, <1>3 DEF Inv

\* A change of the links alone.
LEMMA ReshapeStep ==
    ASSUME Inv, h' \in Links, Good(h'), Inside(h', live),
           UNCHANGED <<live, kind, value, attrs, ref, datum>>
    PROVE  Inv'
  <1>1. TypeOK'
    BY DEF Inv, TypeOK
  <1>2. LinksOK'
    BY LinksStep
  <1>3. AttrsUnique' /\ DataOwned' /\ OneOwner'
    BY DEF Inv, AttrsUnique, DataOwned, OneOwner, Owns
  <1> QED BY <1>1, <1>2, <1>3 DEF Inv

\* A change of reference counts alone.
LEMMA RefStep ==
    ASSUME Inv, ref' \in [Node -> Nat], UNCHANGED <<live, h, kind, value, attrs, datum>>
    PROVE  Inv'
  BY DEF Inv, TypeOK, LinksOK, Inside, Neighbours, Ends, Roots, AttrsUnique, DataOwned, OneOwner, Owns

LEMMA InitInv == Init => Inv
  <1> SUFFICES ASSUME Init PROVE Inv
    OBVIOUS
  <1>1. [x \in Node |-> NULL] \in [Node -> Ptr]
    BY DEF Ptr
  <1>2. h \in Links
    BY <1>1, LinksIntro DEF Init
  <1>3. TypeOK
    BY <1>2 DEF Init, TypeOK, Kinds
  <1>4. LinksOK
    BY TreeAssumption DEF Init, LinksOK, Inside, Neighbours, Ends, Roots
  <1>5. AttrsUnique /\ DataOwned /\ OneOwner
    BY DEF Init, AttrsUnique, DataOwned, OneOwner, Owns
  <1> QED BY <1>3, <1>4, <1>5 DEF Inv

\* Nodes are created inside the invariant.
LEMMA GrowStep == Inv /\ Grow => Inv'
  <1> SUFFICES ASSUME Inv, Grow PROVE Inv'
    OBVIOUS
  <1> USE DEF Kinds
  <1>1. PICK n \in Node :
            \/ mxmlNewXML(n)
            \/ \E p \in Ptr : \/ mxmlNewElement(n, p) \/ mxmlNewCDATA(n, p) \/ mxmlNewInteger(n, p)
                              \/ mxmlNewOpaque(n, p)  \/ mxmlNewReal(n, p)  \/ mxmlNewText(n, p)
                              \/ mxmlNewTextf(n, p)   \/ mxmlNewCustom(n, p)
    BY DEF Grow
  <1>2. CASE mxmlNewXML(n)
    <2>1. PICK v \in Names : mxml_new(n, NULL, "element", v) /\ UNCHANGED datum
      BY <1>2 DEF mxmlNewXML
    <2>2. NULL \in Ptr
      BY DEF Ptr
    <2> QED BY <2>1, <2>2, NewPlain
  <1>3. ASSUME NEW p \in Ptr, mxmlNewElement(n, p) \/ mxmlNewCDATA(n, p)  PROVE Inv'
    <2>1. PICK v \in Names : mxml_new(n, p, "element", v) /\ UNCHANGED datum
      BY <1>3, TreeAssumption DEF mxmlNewElement, mxmlNewCDATA
    <2> QED BY <2>1, NewPlain
  <1>4. ASSUME NEW p \in Ptr, \/ mxmlNewInteger(n, p) \/ mxmlNewOpaque(n, p) \/ mxmlNewReal(n, p)
                              \/ mxmlNewText(n, p) \/ mxmlNewTextf(n, p)
        PROVE  Inv'
    <2>1. PICK k \in Kinds \ {"custom"}, v \in Values : mxml_new(n, p, k, v) /\ UNCHANGED datum
      BY <1>4 DEF mxmlNewInteger, mxmlNewOpaque, mxmlNewReal, mxmlNewText, mxmlNewTextf
    <2> QED BY <2>1, NewPlain
  <1>5. ASSUME NEW p \in Ptr, mxmlNewCustom(n, p)  PROVE Inv'
    BY <1>5, NewCustomStep
  <1> QED BY <1>1, <1>2, <1>3, <1>4, <1>5

\* Moving, deleting and counting references keep the invariant.
LEMMA ReshapeKeeps == Inv /\ Reshape => Inv'
  <1> SUFFICES ASSUME Inv, Reshape PROVE Inv'
    OBVIOUS
  <1>0. HeapInv /\ live \subseteq Node /\ h \in Links /\ ref \in [Node -> Nat]
    BY DEF Inv, HeapInv, TypeOK
  <1>1. PICK n \in Node :
            \/ \E p \in Node, c \in Ptr, w \in {"before", "after"} : mxmlAdd(p, w, c, n)
            \/ mxmlRemove(n) \/ mxmlDelete(n) \/ mxmlRetain(n) \/ mxmlRelease(n)
    BY DEF Reshape
  <1>2. ASSUME NEW p \in Node, NEW c \in Ptr, NEW w \in {"before", "after"}, mxmlAdd(p, w, c, n)
        PROVE  Inv'
    <2>1. n \in Sub(h, n)
      BY <1>0, SubFact
    <2>2. p \in live /\ n \in live /\ p # n /\ c # n /\ h' = AddTo(h, p, w, c, n)
      BY <1>2, <2>1 DEF mxmlAdd
    <2>3. live \cup {n} = live
      BY <2>2
    <2>4. h' \in Links /\ Good(h') /\ Inside(h', live)
      BY <1>0, <2>2, <2>3, HeapAdd
    <2> QED BY <1>2, <2>4, ReshapeStep DEF mxmlAdd
  <1>3. CASE mxmlRemove(n)
    <2>1. h' \in Links /\ Good(h') /\ Inside(h', live)
      BY <1>0, <1>3, HeapUnlink DEF mxmlRemove
    <2> QED BY <1>3, <2>1, ReshapeStep DEF mxmlRemove
  <1>4. CASE mxmlDelete(n)
    BY <1>4, DeleteStep DEF mxmlDelete
  <1>5. CASE mxmlRetain(n)
    <2>1. ref' \in [Node -> Nat]
      BY <1>0, <1>5 DEF mxmlRetain
    <2> QED BY <1>5, <2>1, RefStep DEF mxmlRetain
  <1>6. CASE mxmlRelease(n)
    <2>1. CASE ref[n] <= 1
      BY <1>6, <2>1, DeleteStep DEF mxmlRelease
    <2>2. CASE ~(ref[n] <= 1)
      <3>1. ref' \in [Node -> Nat]
        BY <1>0, <1>6, <2>2 DEF mxmlRelease
      <3> QED BY <1>6, <2>2, <3>1, RefStep DEF mxmlRelease
    <2> QED BY <2>1, <2>2
  <1> QED BY <1>1, <1>2, <1>3, <1>4, <1>5, <1>6

\* Attributes and values are changed inside the invariant.
LEMMA EditStep == Inv /\ Edit => Inv'
  <1> SUFFICES ASSUME Inv, Edit PROVE Inv'
    OBVIOUS
  <1>0. TypeOK /\ AttrsUnique
    BY DEF Inv
  <1>1. PICK n \in Node :
            \/ \E a \in AttrNames : \/ mxmlElementDeleteAttr(n, a)
                                    \/ \E v \in Values \cup {NULL} : \/ mxmlElementSetAttr(n, a, v)
                                                                     \/ mxmlElementSetAttrf(n, a, v)
            \/ mxmlSetElement(n) \/ mxmlSetCDATA(n) \/ mxmlSetInteger(n) \/ mxmlSetOpaque(n)
            \/ mxmlSetReal(n) \/ mxmlSetText(n) \/ mxmlSetTextf(n) \/ mxmlSetCustom(n)
    BY DEF Edit
  <1>2. ASSUME NEW a \in AttrNames, NEW v \in Values \cup {NULL},
               mxmlElementSetAttr(n, a, v) \/ mxmlElementSetAttrf(n, a, v)
        PROVE  Inv'
    <2>1. mxml_set_attr(n, a, v) \in Seq(Attr) /\ UniqueNames(mxml_set_attr(n, a, v))
      BY <1>0, SetAttrFact
    <2>2. attrs' = [attrs EXCEPT ![n] = mxml_set_attr(n, a, v)]
          /\ UNCHANGED <<live, h, kind, value, ref, datum>>
      BY <1>2 DEF mxmlElementSetAttr, mxmlElementSetAttrf
    <2> QED BY <2>1, <2>2, AttrStep
  <1>3. ASSUME NEW a \in AttrNames, mxmlElementDeleteAttr(n, a)
        PROVE  Inv'
    <2> DEFINE s == attrs[n]  i == FirstOf(AttrAt(n, a))
               t == SubSeq(s, 1, i - 1) \o SubSeq(s, i + 1, Len(s))
    <2>1. i \in DOMAIN s
      BY <1>0, <1>3, FirstFact DEF mxmlElementDeleteAttr
    <2>2. s \in Seq(Attr) /\ UniqueNames(s)
      BY <1>0 DEF TypeOK, AttrsUnique, UniqueNames
    <2>3. t \in Seq(Attr) /\ UniqueNames(t)
      BY <2>1, <2>2, CutFact
    <2>4. attrs' = [attrs EXCEPT ![n] = t] /\ UNCHANGED <<live, h, kind, value, ref, datum>>
      BY <1>3 DEF mxmlElementDeleteAttr
    <2> QED BY <2>3, <2>4, AttrStep
  <1>4. CASE \/ mxmlSetElement(n) \/ mxmlSetCDATA(n) \/ mxmlSetInteger(n) \/ mxmlSetOpaque(n)
             \/ mxmlSetReal(n) \/ mxmlSetText(n) \/ mxmlSetTextf(n)
    <2>1. PICK k \in Kinds \ {"custom"}, v \in Names \cup Values : SetValue(n, k, v) /\ UNCHANGED datum
      BY <1>4, TreeAssumption DEF Kinds, mxmlSetElement, mxmlSetCDATA, mxmlSetInteger, mxmlSetOpaque,
         mxmlSetReal, mxmlSetText, mxmlSetTextf
    <2> QED BY <2>1, SetStep
  <1>5. CASE mxmlSetCustom(n)
    BY <1>5, SetCustomStep
  <1> QED BY <1>1, <1>2, <1>3, <1>4, <1>5

\* Every step keeps the invariant.
LEMMA NextInv == Inv /\ [Next]_vars => Inv'
  <1>1. ASSUME Inv, UNCHANGED vars  PROVE Inv'
    BY <1>1 DEF vars, Inv, TypeOK, LinksOK, Inside, Neighbours, Ends, Roots, AttrsUnique,
       DataOwned, OneOwner, Owns
  <1> QED BY <1>1, GrowStep, ReshapeKeeps, EditStep DEF Next

\* The heap is always well typed, whatever calls of the node, attribute and
\* value functions were made.
THEOREM HeapTyped == Spec => []TypeOK
  <1>1. Inv => TypeOK
    BY DEF Inv
  <1> QED BY <1>1, InitInv, NextInv, PTL DEF Spec

\* The five links of the nodes always agree and never lead to a freed node:
\* mxmlAdd, mxmlRemove, mxmlDelete and mxmlRelease (mxml-node.c) keep the lists
\* of children whole from both ends.
THEOREM LinksAgree == Spec => []LinksOK
  <1>1. Inv => LinksOK
    BY DEF Inv
  <1> QED BY <1>1, InitInv, NextInv, PTL DEF Spec

\* No element ever has two attributes of one name (mxml-attr.c).
THEOREM AttributesUnique == Spec => []AttrsUnique
  <1>1. Inv => AttrsUnique
    BY DEF Inv
  <1> QED BY <1>1, InitInv, NextInv, PTL DEF Spec

\* Custom data are owned by exactly one node until mxmlDelete or mxmlSetCustom
\* hands them to the destructor.
THEOREM CustomDataOwned == Spec => []DataOwned
  <1>1. Inv => DataOwned
    BY DEF Inv
  <1> QED BY <1>1, InitInv, NextInv, PTL DEF Spec

-----------------------------------------------------------------------------
(***************************************************************************)
(* The links as lists of children.  Listed(g, s) says that the links g are *)
(* those of the lists s.  Each way of linking and unlinking is an insert   *)
(* or a removal in the lists; the lists are unique and Chain computes them.*)
(***************************************************************************)

\* What InsertAt makes of a list.
LEMMA InsertFact ==
    ASSUME NEW S, NEW s \in Seq(S), NEW k \in 1..Len(s) + 1, NEW e \in S
    PROVE  /\ InsertAt(s, k, e) \in Seq(S) /\ Len(InsertAt(s, k, e)) = Len(s) + 1
           /\ \A j \in 1..Len(s) + 1 :
                InsertAt(s, k, e)[j] = IF j < k THEN s[j] ELSE IF j = k THEN e ELSE s[j - 1]
  <1> DEFINE a == SubSeq(s, 1, k - 1)  b == SubSeq(s, k, Len(s))  t == a \o <<e>>
  <1>0. Len(s) \in Nat /\ \A i \in 1..Len(s) : s[i] \in S
    OBVIOUS
  <1>1. a \in Seq(S) /\ Len(a) = k - 1 /\ \A i \in 1..k - 1 : a[i] = s[i]
    BY <1>0, SubSeqProperties
  <1>2. b \in Seq(S) /\ Len(b) = Len(s) - k + 1 /\ \A i \in 1..Len(s) - k + 1 : b[i] = s[k + i - 1]
    <2>1. k \in Int /\ Len(s) \in Int /\ \A i \in k..Len(s) : s[i] \in S
      BY <1>0
    <2>2. b \in Seq(S) /\ Len(b) = (IF k <= Len(s) THEN Len(s) - k + 1 ELSE 0)
          /\ \A i \in 1..Len(s) - k + 1 : b[i] = s[k + i - 1]
      BY <2>1, SubSeqProperties
    <2> QED BY <1>0, <2>2
  <1>3. <<e>> \in Seq(S) /\ Len(<<e>>) = 1 /\ <<e>>[1] = e
    OBVIOUS
  <1> HIDE DEF a, b
  <1>4. t \in Seq(S) /\ Len(t) = k /\ \A i \in 1..k : t[i] = IF i < k THEN a[i] ELSE e
    BY <1>0, <1>1, <1>3
  <1> HIDE DEF t
  <1>5. t \o b \in Seq(S) /\ Len(t \o b) = Len(s) + 1
        /\ \A j \in 1..Len(s) + 1 : (t \o b)[j] = IF j <= k THEN t[j] ELSE b[j - k]
    BY <1>0, <1>2, <1>4
  <1>6. InsertAt(s, k, e) = t \o b
    BY DEF InsertAt, t, a, b
  <1>7. \A j \in 1..Len(s) + 1 :
            (t \o b)[j] = IF j < k THEN s[j] ELSE IF j = k THEN e ELSE s[j - 1]
    BY <1>0, <1>1, <1>2, <1>4, <1>5
  <1> QED BY <1>5, <1>6, <1>7

\* What RemoveAt makes of a list.
LEMMA RemoveFact ==
    ASSUME NEW S, NEW s \in Seq(S), NEW k \in 1..Len(s)
    PROVE  /\ RemoveAt(s, k) \in Seq(S) /\ Len(RemoveAt(s, k)) = Len(s) - 1
           /\ \A j \in 1..Len(s) - 1 : RemoveAt(s, k)[j] = IF j < k THEN s[j] ELSE s[j + 1]
  <1> DEFINE a == SubSeq(s, 1, k - 1)  b == SubSeq(s, k + 1, Len(s))
  <1>0. Len(s) \in Nat /\ \A i \in 1..Len(s) : s[i] \in S
    OBVIOUS
  <1>1. a \in Seq(S) /\ Len(a) = k - 1 /\ \A i \in 1..k - 1 : a[i] = s[i]
    BY <1>0, SubSeqProperties
  <1>2. b \in Seq(S) /\ Len(b) = Len(s) - k /\ \A i \in 1..Len(s) - k : b[i] = s[k + i]
    <2>1. k + 1 \in Int /\ Len(s) \in Int /\ \A i \in k + 1..Len(s) : s[i] \in S
      BY <1>0
    <2>2. b \in Seq(S) /\ Len(b) = (IF k + 1 <= Len(s) THEN Len(s) - (k + 1) + 1 ELSE 0)
          /\ \A i \in 1..Len(s) - (k + 1) + 1 : b[i] = s[k + 1 + i - 1]
      BY <2>1, SubSeqProperties
    <2> QED BY <1>0, <2>2
  <1> HIDE DEF a, b
  <1>5. a \o b \in Seq(S) /\ Len(a \o b) = Len(s) - 1
        /\ \A j \in 1..Len(s) - 1 : (a \o b)[j] = IF j <= k - 1 THEN a[j] ELSE b[j - (k - 1)]
    <2>1. Len(a) + Len(b) = Len(s) - 1
      BY <1>0, <1>1, <1>2
    <2>2. a \o b \in Seq(S) /\ Len(a \o b) = Len(a) + Len(b)
          /\ \A j \in 1..Len(a) + Len(b) : (a \o b)[j] = IF j <= Len(a) THEN a[j] ELSE b[j - Len(a)]
      BY <1>1, <1>2, ConcatProperties
    <2> QED BY <1>1, <2>1, <2>2
  <1>6. RemoveAt(s, k) = a \o b
    BY DEF RemoveAt, a, b
  <1>7. \A j \in 1..Len(s) - 1 : (a \o b)[j] = IF j < k THEN s[j] ELSE s[j + 1]
    BY <1>0, <1>1, <1>2, <1>5
  <1> QED BY <1>5, <1>6, <1>7

\* s[p] is the list of the children of p that child and next give: its
\* elements are the nodes with parent p, each once.
Listed(g, s) ==
    /\ s \in [Node -> Seq(Node)]
    /\ \A p \in Node : \A i \in 1..Len(s[p]) : g.parent[s[p][i]] = p
    /\ \A x \in Node : g.parent[x] # NULL =>
           \E i \in 1..Len(s[g.parent[x]]) : s[g.parent[x]][i] = x
    /\ \A p \in Node : \A i, j \in 1..Len(s[p]) : s[p][i] = s[p][j] => i = j
    /\ \A p \in Node : g.child[p] = IF Len(s[p]) = 0 THEN NULL ELSE s[p][1]
    /\ \A p \in Node : \A i \in 1..Len(s[p]) :
           g.next[s[p][i]] = IF i = Len(s[p]) THEN NULL ELSE s[p][i + 1]

\* The links u are the links g with the node n at place k of the list of p.
Inserted(g, u, s, p, k, n) ==
    /\ g.parent[n] = NULL /\ k \in 1..Len(s[p]) + 1
    /\ \A x \in Node : u.parent[x] = IF x = n THEN p ELSE g.parent[x]
    /\ \A x \in Node : u.child[x] = IF x = p /\ k = 1 THEN n ELSE g.child[x]
    /\ u.next[n] = IF k = Len(s[p]) + 1 THEN NULL ELSE s[p][k]
    /\ \A x \in Node \ {n} : u.next[x] = IF k > 1 /\ x = s[p][k - 1] THEN n ELSE g.next[x]

\* A node without a parent enters the list of p at place k.
LEMMA InsertListed ==
    ASSUME NEW g \in Links, NEW u, NEW s, Listed(g, s), NEW n \in Node, NEW p \in Node,
           NEW k, Inserted(g, u, s, p, k, n)
    PROVE  Listed(u, [s EXCEPT ![p] = InsertAt(s[p], k, n)])
  <1> DEFINE t == [s EXCEPT ![p] = InsertAt(s[p], k, n)]
  <1>1. s \in [Node -> Seq(Node)] /\ NULL \notin Node
    BY LinksFact DEF Listed
  <1>2. PICK a : a = s[p] /\ a \in Seq(Node)
    BY <1>1
  <1>3. PICK L : L = Len(a) /\ k \in 1..L + 1 /\ L \in Nat
    BY <1>2 DEF Inserted
  <1>4. PICK b : /\ b = InsertAt(a, k, n) /\ Len(b) = L + 1 /\ b \in Seq(Node)
                 /\ \A j \in 1..L + 1 : b[j] = IF j < k THEN a[j] ELSE IF j = k THEN n ELSE a[j - 1]
    <2>1. a \in Seq(Node) /\ k \in 1..Len(a) + 1
      BY <1>2, <1>3
    <2> DEFINE c == InsertAt(a, k, n)
    <2>2. c \in Seq(Node) /\ Len(c) = Len(a) + 1
          /\ \A j \in 1..Len(a) + 1 : c[j] = IF j < k THEN a[j] ELSE IF j = k THEN n ELSE a[j - 1]
      BY <2>1, InsertFact
    <2> HIDE DEF c
    <2>3. c = InsertAt(a, k, n)
      BY DEF c
    <2> QED BY <1>3, <2>2, <2>3
  <1>5. b[k] = n /\ (\A j \in 1..L : j < k => b[j] = a[j]) /\ (\A j \in 1..L : j >= k => b[j + 1] = a[j])
    BY <1>3, <1>4
  <1>6. \A j \in 1..L + 1 : j = k \/ (j < k /\ j \in 1..L) \/ (\E l \in 1..L : j = l + 1 /\ l >= k)
    <2> SUFFICES ASSUME NEW j \in 1..L + 1, j > k  PROVE \E l \in 1..L : j = l + 1 /\ l >= k
      BY <1>3
    <2>1. j - 1 \in 1..L /\ j = (j - 1) + 1 /\ j - 1 >= k
      BY <1>3
    <2> QED BY <2>1
  <1>7. t \in [Node -> Seq(Node)] /\ t[p] = b /\ \A q \in Node \ {p} : t[q] = s[q]
    BY <1>1, <1>2, <1>4
  <1> HIDE DEF t
  <1>8. \A j \in 1..L : a[j] \in Node /\ a[j] # n /\ g.parent[a[j]] = p
    BY <1>1, <1>2, <1>3, SMTT(30) DEF Listed, Inserted
  <1>9. \A j, l \in 1..L : a[j] = a[l] => j = l
    BY <1>2, <1>3, ZenonT(40) DEF Listed
  <1>10. \A j \in 1..L : g.next[a[j]] = IF j = L THEN NULL ELSE a[j + 1]
    <2>1. \A q \in Node : \A i \in 1..Len(s[q]) :
              g.next[s[q][i]] = IF i = Len(s[q]) THEN NULL ELSE s[q][i + 1]
      BY DEF Listed
    <2> QED BY <1>2, <1>3, <2>1
  <1>11. \A q \in Node : \A j \in 1..Len(s[q]) : s[q][j] \in Node /\ g.parent[s[q][j]] = q
    BY <1>1 DEF Listed
  <1>12. \A q \in Node : \A j \in 1..Len(s[q]) : s[q][j] # n
    BY <1>1, <1>11 DEF Inserted
  <1>13. /\ k = L + 1 => u.next[n] = NULL
         /\ k # L + 1 => u.next[n] = a[k]
         /\ k > 1 => u.next[a[k - 1]] = n
         /\ \A x \in Node \ {n} : (k > 1 => x # a[k - 1]) => u.next[x] = g.next[x]
    <2>1. k > 1 => k - 1 \in 1..L
      BY <1>3
    <2>2. k > 1 => a[k - 1] \in Node \ {n}
      BY <2>1, <1>8
    <2> QED BY <1>2, <1>3, <2>2 DEF Inserted
  <1>14. \A q \in Node : \A i \in 1..Len(t[q]) : u.parent[t[q][i]] = q
    <2>1. \A i \in 1..L + 1 : u.parent[b[i]] = p
      BY <1>5, <1>6, <1>8 DEF Inserted
    <2>2. \A q \in Node \ {p} : \A i \in 1..Len(s[q]) : u.parent[s[q][i]] = q
      BY <1>11, <1>12 DEF Inserted
    <2> QED BY <1>4, <1>7, <2>1, <2>2
  <1>15. \A x \in Node : u.parent[x] # NULL => \E i \in 1..Len(t[u.parent[x]]) : t[u.parent[x]][i] = x
    <2> SUFFICES ASSUME NEW x \in Node, u.parent[x] # NULL
                 PROVE  \E i \in 1..Len(t[u.parent[x]]) : t[u.parent[x]][i] = x
      OBVIOUS
    <2>1. CASE x = n
      BY <1>3, <1>4, <1>5, <1>7, <2>1 DEF Inserted
    <2>2. CASE x # n /\ g.parent[x] # p
      <3>1. u.parent[x] = g.parent[x] /\ g.parent[x] \in Node
        BY <2>2, LinksFact DEF Inserted
      <3>2. t[g.parent[x]] = s[g.parent[x]]
        BY <1>7, <2>2, <3>1
      <3> QED BY <3>1, <3>2 DEF Listed
    <2>3. CASE x # n /\ g.parent[x] = p
      <3>1. PICK i \in 1..L : a[i] = x
        BY <1>1, <1>2, <1>3, <2>3, ZenonT(40) DEF Listed
      <3>2. \E j \in 1..L + 1 : b[j] = x
        <4>1. i \in 1..L + 1 /\ i + 1 \in 1..L + 1 /\ (i < k \/ i >= k)
          BY <1>3
        <4> QED BY <1>5, <3>1, <4>1
      <3> QED BY <1>4, <1>7, <2>3, <3>2 DEF Inserted
    <2> QED BY <2>1, <2>2, <2>3
  <1>16. \A q \in Node : \A i, j \in 1..Len(t[q]) : t[q][i] = t[q][j] => i = j
    <2>1. \A i, j \in 1..L + 1 : b[i] = b[j] => i = j
      <3> SUFFICES ASSUME NEW i \in 1..L + 1, NEW j \in 1..L + 1, b[i] = b[j]  PROVE i = j
        OBVIOUS
      <3>1. CASE i = k \/ j = k
        BY <1>5, <1>6, <1>8, <3>1
      <3>2. CASE i < k /\ i \in 1..L /\ j < k /\ j \in 1..L
        BY <1>5, <1>9, <3>2
      <3>3. ASSUME NEW l \in 1..L, i = l + 1, l >= k, j < k /\ j \in 1..L  PROVE FALSE
        <4>1. b[i] = a[l] /\ b[j] = a[j]
          BY <1>5, <3>3
        <4>2. l = j
          BY <1>9, <3>3, <4>1
        <4> QED BY <1>3, <3>3, <4>2
      <3>4. ASSUME NEW l \in 1..L, j = l + 1, l >= k, i < k /\ i \in 1..L  PROVE FALSE
        <4>1. b[j] = a[l] /\ b[i] = a[i]
          BY <1>5, <3>4
        <4>2. l = i
          BY <1>9, <3>4, <4>1
        <4> QED BY <1>3, <3>4, <4>2
      <3>5. ASSUME NEW l \in 1..L, i = l + 1, l >= k, NEW m \in 1..L, j = m + 1, m >= k  PROVE i = j
        <4>1. b[i] = a[l] /\ b[j] = a[m]
          BY <1>5, <3>5
        <4> QED BY <1>9, <3>5, <4>1
      <3> QED BY <1>6, <3>1, <3>2, <3>3, <3>4, <3>5
    <2>2. \A q \in Node : \A i, j \in 1..Len(s[q]) : s[q][i] = s[q][j] => i = j
      BY DEF Listed
    <2> QED BY <1>4, <1>7, <2>1, <2>2
  <1>17. \A q \in Node : u.child[q] = IF Len(t[q]) = 0 THEN NULL ELSE t[q][1]
    <2>0. \A q \in Node : g.child[q] = IF Len(s[q]) = 0 THEN NULL ELSE s[q][1]
      BY DEF Listed
    <2>1. \A q \in Node \ {p} : u.child[q] = IF Len(s[q]) = 0 THEN NULL ELSE s[q][1]
      BY <2>0 DEF Inserted
    <2>2. u.child[p] = b[1]
      <3>1. CASE k = 1
        BY <1>5, <3>1 DEF Inserted
      <3>2. CASE k # 1
        <4>1. L # 0 /\ 1 \in 1..L /\ 1 < k
          BY <1>3, <3>2
        <4> QED BY <1>2, <1>3, <1>5, <2>0, <3>2, <4>1 DEF Inserted
      <3> QED BY <3>1, <3>2
    <2>3. Len(b) # 0
      BY <1>3, <1>4
    <2> QED BY <1>7, <2>1, <2>2, <2>3
  <1>18. \A q \in Node : \A i \in 1..Len(t[q]) : u.next[t[q][i]] = IF i = Len(t[q]) THEN NULL ELSE t[q][i + 1]
    <2>1. \A q \in Node \ {p} : \A i \in 1..Len(s[q]) :
              u.next[s[q][i]] = IF i = Len(s[q]) THEN NULL ELSE s[q][i + 1]
      <3> SUFFICES ASSUME NEW q \in Node \ {p}, NEW i \in 1..Len(s[q])
                   PROVE  u.next[s[q][i]] = IF i = Len(s[q]) THEN NULL ELSE s[q][i + 1]
        OBVIOUS
      <3>1. s[q][i] \in Node \ {n} /\ g.parent[s[q][i]] = q
        BY <1>11, <1>12
      <3>2. k > 1 => g.parent[a[k - 1]] = p
        BY <1>3, <1>8
      <3>3. u.next[s[q][i]] = g.next[s[q][i]]
        BY <1>13, <3>1, <3>2
      <3> QED BY <3>3 DEF Listed
    <2>2. \A i \in 1..L + 1 : u.next[b[i]] = IF i = L + 1 THEN NULL ELSE b[i + 1]
      <3> SUFFICES ASSUME NEW i \in 1..L + 1
                   PROVE  u.next[b[i]] = IF i = L + 1 THEN NULL ELSE b[i + 1]
        OBVIOUS
      <3>1. CASE i = k
        <4>1. k # L + 1 => b[k + 1] = a[k]
          BY <1>3, <1>5
        <4> QED BY <1>5, <1>13, <3>1, <4>1
      <3>2. CASE i < k /\ i \in 1..L
        <4>1. b[i] = a[i] /\ i # L + 1 /\ a[i] \in Node \ {n}
          BY <1>3, <1>5, <1>8, <3>2
        <4>2. CASE i = k - 1
          BY <1>3, <1>5, <1>13, <3>2, <4>1, <4>2
        <4>3. CASE i # k - 1
          <5>1. i + 1 < k /\ i + 1 \in 1..L /\ i # L /\ k - 1 \in 1..L
            BY <1>3, <3>2, <4>3
          <5>2. a[i] # a[k - 1]
            BY <1>9, <3>2, <4>3, <5>1
          <5> QED BY <1>5, <1>10, <1>13, <3>2, <4>1, <5>1, <5>2
        <4> QED BY <4>2, <4>3
      <3>3. ASSUME NEW l \in 1..L, i = l + 1, l >= k
            PROVE  u.next[b[i]] = IF i = L + 1 THEN NULL ELSE b[i + 1]
        <4>1. b[i] = a[l] /\ a[l] \in Node \ {n} /\ (i = L + 1 <=> l = L)
          BY <1>3, <1>5, <1>8, <3>3
        <4>2. k > 1 => a[l] # a[k - 1]
          <5>1. k > 1 => k - 1 \in 1..L /\ l # k - 1
            BY <1>3, <3>3
          <5> QED BY <1>9, <5>1
        <4>3. l # L => l + 1 \in 1..L /\ l + 1 >= k
          BY <1>3, <3>3
        <4> QED BY <1>5, <1>10, <1>13, <3>3, <4>1, <4>2, <4>3
      <3> QED BY <1>6, <3>1, <3>2, <3>3
    <2> SUFFICES ASSUME NEW q \in Node, NEW i \in 1..Len(t[q])
                 PROVE  u.next[t[q][i]] = IF i = Len(t[q]) THEN NULL ELSE t[q][i + 1]
      OBVIOUS
    <2>3. CASE q = p
      BY <1>4, <1>7, <2>2, <2>3
    <2>4. CASE q # p
      <3>1. t[q] = s[q] /\ q \in Node \ {p}
        BY <1>7, <2>4
      <3> QED BY <2>1, <3>1
    <2> QED BY <2>3, <2>4
  <1> QED BY <1>7, <1>14, <1>15, <1>16, <1>17, <1>18 DEF Listed, t
\* The links u are the links g without the node n at place k of the list of p.
Removed(g, u, s, p, k, n) ==
    /\ k \in 1..Len(s[p]) /\ s[p][k] = n
    /\ \A x \in Node : u.parent[x] = IF x = n THEN NULL ELSE g.parent[x]
    /\ \A x \in Node : u.child[x] = IF x = p /\ k = 1 THEN g.next[n] ELSE g.child[x]
    /\ \A x \in Node \ {n} : u.next[x] = IF k > 1 /\ x = s[p][k - 1] THEN g.next[n] ELSE g.next[x]

\* A node leaves place k of the list of p.
LEMMA RemoveListed ==
    ASSUME NEW g \in Links, NEW u, NEW s, Listed(g, s), NEW n \in Node, NEW p \in Node,
           NEW k, Removed(g, u, s, p, k, n)
    PROVE  Listed(u, [s EXCEPT ![p] = RemoveAt(s[p], k)])
  <1> DEFINE t == [s EXCEPT ![p] = RemoveAt(s[p], k)]
  <1>1. s \in [Node -> Seq(Node)] /\ NULL \notin Node
    BY LinksFact DEF Listed
  <1>2. PICK a : a = s[p] /\ a \in Seq(Node)
    BY <1>1
  <1>3. PICK L : L = Len(a) /\ k \in 1..L /\ L \in Nat /\ a[k] = n
    BY <1>2 DEF Removed
  <1>4. PICK b : /\ b = RemoveAt(a, k) /\ Len(b) = L - 1 /\ b \in Seq(Node)
                 /\ \A j \in 1..L - 1 : b[j] = IF j < k THEN a[j] ELSE a[j + 1]
    <2>1. a \in Seq(Node) /\ k \in 1..Len(a)
      BY <1>2, <1>3
    <2> DEFINE c == RemoveAt(a, k)
    <2>2. c \in Seq(Node) /\ Len(c) = Len(a) - 1
          /\ \A j \in 1..Len(a) - 1 : c[j] = IF j < k THEN a[j] ELSE a[j + 1]
      BY <2>1, RemoveFact
    <2> HIDE DEF c
    <2>3. c = RemoveAt(a, k)
      BY DEF c
    <2> QED BY <1>3, <2>2, <2>3
  <1>5. \A j \in 1..L - 1 : /\ j \in 1..L /\ j + 1 \in 1..L /\ (j < k \/ j >= k)
                            /\ j < k => b[j] = a[j] /\ j # k
                            /\ j >= k => b[j] = a[j + 1] /\ j + 1 # k
    BY <1>3, <1>4
  <1>6. \A q \in Node : \A j \in 1..Len(s[q]) : s[q][j] \in Node /\ g.parent[s[q][j]] = q
    BY <1>1 DEF Listed
  <1>7. t \in [Node -> Seq(Node)] /\ t[p] = b /\ \A q \in Node \ {p} : t[q] = s[q]
    BY <1>1, <1>2, <1>4
  <1> HIDE DEF t
  <1>8. \A j \in 1..L : a[j] \in Node /\ g.parent[a[j]] = p
    BY <1>2, <1>3, <1>6
  <1>9. \A j, l \in 1..L : a[j] = a[l] => j = l
    BY <1>2, <1>3, SMTT(30) DEF Listed
  <1>10. \A j \in 1..L : g.next[a[j]] = IF j = L THEN NULL ELSE a[j + 1]
    <2>1. \A q \in Node : \A i \in 1..Len(s[q]) :
              g.next[s[q][i]] = IF i = Len(s[q]) THEN NULL ELSE s[q][i + 1]
      BY DEF Listed
    <2> QED BY <1>2, <1>3, <2>1
  <1>12. \A q \in Node \ {p} : \A j \in 1..Len(s[q]) : s[q][j] # n
    BY <1>3, <1>6, <1>8
  <1>13. \A j \in 1..L - 1 : b[j] \in Node \ {n} /\ g.parent[b[j]] = p
    BY <1>3, <1>5, <1>8, <1>9
  <1>14. \A q \in Node : \A i \in 1..Len(t[q]) : u.parent[t[q][i]] = q
    <2>1. \A i \in 1..L - 1 : u.parent[b[i]] = p
      BY <1>13 DEF Removed
    <2>2. \A q \in Node \ {p} : \A i \in 1..Len(s[q]) : u.parent[s[q][i]] = q
      BY <1>6, <1>12 DEF Removed
    <2> QED BY <1>4, <1>7, <2>1, <2>2
  <1>15. \A x \in Node : u.parent[x] # NULL => \E i \in 1..Len(t[u.parent[x]]) : t[u.parent[x]][i] = x
    <2> SUFFICES ASSUME NEW x \in Node, u.parent[x] # NULL
                 PROVE  \E i \in 1..Len(t[u.parent[x]]) : t[u.parent[x]][i] = x
      OBVIOUS
    <2>1. x # n /\ u.parent[x] = g.parent[x]
      BY DEF Removed
    <2>2. CASE g.parent[x] # p
      <3>1. g.parent[x] \in Node
        BY <2>1, LinksFact
      <3>2. t[g.parent[x]] = s[g.parent[x]]
        BY <1>7, <2>2, <3>1
      <3> QED BY <2>1, <3>1, <3>2 DEF Listed
    <2>3. CASE g.parent[x] = p
      <3>1. PICK i \in 1..L : a[i] = x
        BY <1>1, <1>2, <1>3, <2>3, ZenonT(40) DEF Listed
      <3>2. i # k
        BY <1>3, <2>1, <3>1
      <3>3. \E j \in 1..L - 1 : b[j] = x
        <4>1. CASE i < k
          <5>1. i \in 1..L - 1
            BY <1>3, <4>1
          <5> QED BY <1>5, <3>1, <4>1, <5>1
        <4>2. CASE i > k
          <5>1. i - 1 \in 1..L - 1 /\ i - 1 >= k /\ (i - 1) + 1 = i
            BY <1>3, <4>2
          <5> QED BY <1>5, <3>1, <5>1
        <4> QED BY <1>3, <3>2, <4>1, <4>2
      <3> QED BY <1>4, <1>7, <2>1, <2>3, <3>3
    <2> QED BY <2>2, <2>3
  <1>16. \A q \in Node : \A i, j \in 1..Len(t[q]) : t[q][i] = t[q][j] => i = j
    <2>1. \A i, j \in 1..L - 1 : b[i] = b[j] => i = j
      <3> SUFFICES ASSUME NEW i \in 1..L - 1, NEW j \in 1..L - 1, b[i] = b[j]  PROVE i = j
        OBVIOUS
      <3>1. PICK x \in 1..L : b[i] = a[x] /\ (i < k => x = i) /\ (i >= k => x = i + 1)
        BY <1>3, <1>5
      <3>2. PICK y \in 1..L : b[j] = a[y] /\ (j < k => y = j) /\ (j >= k => y = j + 1)
        BY <1>3, <1>5
      <3>3. x = y
        BY <1>9, <3>1, <3>2
      <3> QED BY <1>3, <3>1, <3>2, <3>3
    <2>2. \A q \in Node : \A i, j \in 1..Len(s[q]) : s[q][i] = s[q][j] => i = j
      BY DEF Listed
    <2> QED BY <1>4, <1>7, <2>1, <2>2
  <1>17. \A q \in Node : u.child[q] = IF Len(t[q]) = 0 THEN NULL ELSE t[q][1]
    <2>0. \A q \in Node : g.child[q] = IF Len(s[q]) = 0 THEN NULL ELSE s[q][1]
      BY DEF Listed
    <2>1. \A q \in Node \ {p} : u.child[q] = IF Len(s[q]) = 0 THEN NULL ELSE s[q][1]
      BY <2>0 DEF Removed
    <2>2. u.child[p] = IF Len(b) = 0 THEN NULL ELSE b[1]
      <3>1. CASE k = 1
        <4>1. u.child[p] = g.next[a[1]]
          BY <1>3, <3>1 DEF Removed
        <4>2. Len(b) = 0 <=> 1 = L
          BY <1>3, <1>4
        <4>3. 1 # L => b[1] = a[2]
          <5>1. 1 # L => 1 \in 1..L - 1
            BY <1>3
          <5> QED BY <1>5, <3>1, <5>1
        <4> QED BY <1>3, <1>10, <3>1, <4>1, <4>2, <4>3
      <3>2. CASE k # 1
        <4>1. L # 0 /\ 1 \in 1..L - 1 /\ 1 < k /\ Len(b) # 0
          BY <1>3, <1>4, <3>2
        <4>2. u.child[p] = g.child[p] /\ g.child[p] = a[1]
          BY <1>2, <1>3, <2>0, <3>2, <4>1 DEF Removed
        <4> QED BY <1>5, <4>1, <4>2
      <3> QED BY <3>1, <3>2
    <2> QED BY <1>7, <2>1, <2>2
  <1>18. \A q \in Node : \A i \in 1..Len(t[q]) : u.next[t[q][i]] = IF i = Len(t[q]) THEN NULL ELSE t[q][i + 1]
    <2>0. /\ k > 1 => a[k - 1] \in Node \ {n} /\ u.next[a[k - 1]] = g.next[n]
          /\ \A x \in Node \ {n} : (k > 1 => x # a[k - 1]) => u.next[x] = g.next[x]
      <3>1. k > 1 => k - 1 \in 1..L /\ k - 1 # k
        BY <1>3
      <3>2. k > 1 => a[k - 1] \in Node \ {n}
        BY <1>3, <1>8, <1>9, <3>1
      <3> QED BY <1>2, <1>3, <3>2 DEF Removed
    <2>1. \A q \in Node \ {p} : \A i \in 1..Len(s[q]) :
              u.next[s[q][i]] = IF i = Len(s[q]) THEN NULL ELSE s[q][i + 1]
      <3> SUFFICES ASSUME NEW q \in Node \ {p}, NEW i \in 1..Len(s[q])
                   PROVE  u.next[s[q][i]] = IF i = Len(s[q]) THEN NULL ELSE s[q][i + 1]
        OBVIOUS
      <3>1. s[q][i] \in Node \ {n} /\ g.parent[s[q][i]] = q
        BY <1>6, <1>12
      <3>2. k > 1 => g.parent[a[k - 1]] = p
        BY <1>3, <1>8
      <3>3. u.next[s[q][i]] = g.next[s[q][i]]
        BY <2>0, <3>1, <3>2
      <3> QED BY <3>3 DEF Listed
    <2>2. \A i \in 1..L - 1 : u.next[b[i]] = IF i = L - 1 THEN NULL ELSE b[i + 1]
      <3> SUFFICES ASSUME NEW i \in 1..L - 1
                   PROVE  u.next[b[i]] = IF i = L - 1 THEN NULL ELSE b[i + 1]
        OBVIOUS
      <3>1. CASE i = k - 1
        <4>1. k > 1 /\ b[i] = a[k - 1] /\ (i = L - 1 <=> k = L)
          BY <1>3, <1>5, <3>1
        <4>2. u.next[b[i]] = IF k = L THEN NULL ELSE a[k + 1]
          BY <1>3, <1>10, <2>0, <4>1
        <4>3. k # L => b[i + 1] = a[k + 1]
          <5>1. k # L => k \in 1..L - 1 /\ i + 1 = k
            BY <1>3, <3>1
          <5> QED BY <1>3, <1>5, <5>1
        <4> QED BY <4>1, <4>2, <4>3
      <3>2. CASE i < k - 1
        <4>1. i # L - 1 /\ i < k /\ i + 1 < k /\ i + 1 \in 1..L - 1 /\ i # L /\ k - 1 \in 1..L /\ i # k - 1
          BY <1>3, <3>2
        <4>2. b[i] = a[i] /\ b[i + 1] = a[i + 1]
          BY <1>5, <4>1
        <4>3. a[i] # a[k - 1]
          BY <1>5, <1>9, <4>1
        <4>4. u.next[b[i]] = g.next[a[i]]
          BY <1>13, <2>0, <4>2, <4>3
        <4> QED BY <1>5, <1>10, <4>1, <4>2, <4>4
      <3>3. CASE i >= k
        <4>1. b[i] = a[i + 1] /\ i + 1 \in 1..L /\ (i = L - 1 <=> i + 1 = L)
          BY <1>3, <1>5, <3>3
        <4>2. k > 1 => a[i + 1] # a[k - 1]
          <5>1. k > 1 => k - 1 \in 1..L /\ i + 1 # k - 1
            BY <1>3, <3>3
          <5> QED BY <1>9, <4>1, <5>1
        <4>3. u.next[b[i]] = g.next[a[i + 1]]
          BY <1>13, <2>0, <4>1, <4>2
        <4>4. i + 1 # L => b[i + 1] = a[i + 1 + 1]
          <5>1. i + 1 # L => i + 1 \in 1..L - 1 /\ i + 1 >= k
            BY <1>3, <3>3
          <5> QED BY <1>5, <5>1
        <4> QED BY <1>10, <4>1, <4>3, <4>4
      <3> QED BY <1>3, <3>1, <3>2, <3>3
    <2> SUFFICES ASSUME NEW q \in Node, NEW i \in 1..Len(t[q])
                 PROVE  u.next[t[q][i]] = IF i = Len(t[q]) THEN NULL ELSE t[q][i + 1]
      OBVIOUS
    <2>3. CASE q = p
      BY <1>4, <1>7, <2>2, <2>3
    <2>4. CASE q # p
      <3>1. t[q] = s[q] /\ q \in Node \ {p}
        BY <1>7, <2>4
      <3> QED BY <2>1, <3>1
    <2> QED BY <2>3, <2>4
  <1> QED BY <1>7, <1>14, <1>15, <1>16, <1>17, <1>18 DEF Listed, t
\* The nodes of D, closed under the links, leave the forest.
LEMMA ClearListed ==
    ASSUME NEW g \in Links, NEW s, Listed(g, s), NEW n \in Node, g.parent[n] = NULL,
           NEW D \in SUBSET Node, n \in D,
           \A x \in Node \ {n} : x \in D <=> g.parent[x] \in D
    PROVE  Listed(Cleared(g, D), [q \in Node |-> IF q \in D THEN <<>> ELSE s[q]])
  <1> DEFINE u == Cleared(g, D)  t == [q \in Node |-> IF q \in D THEN <<>> ELSE s[q]]
  <1>1. s \in [Node -> Seq(Node)] /\ NULL \notin Node
    BY LinksFact DEF Listed
  <1>2. /\ \A x \in Node : u.parent[x] = IF x \in D THEN NULL ELSE g.parent[x]
        /\ \A x \in Node : u.child[x] = IF x \in D THEN NULL ELSE g.child[x]
        /\ \A x \in Node : u.next[x] = IF x \in D THEN NULL ELSE g.next[x]
    BY DEF Cleared
  <1>3. t \in [Node -> Seq(Node)]
    BY <1>1
  <1>4. (\A q \in Node \ D : t[q] = s[q]) /\ (\A q \in D : Len(t[q]) = 0)
    BY <1>1
  <1> HIDE DEF t, u
  <1>5. \A q \in Node \ D : \A j \in 1..Len(s[q]) : s[q][j] \in Node \ D /\ g.parent[s[q][j]] = q
    <2>1. \A q \in Node : \A j \in 1..Len(s[q]) : s[q][j] \in Node /\ g.parent[s[q][j]] = q
      BY <1>1 DEF Listed
    <2> QED BY <1>1, <2>1
  <1>6. \A q \in Node : \A i \in 1..Len(t[q]) : q \notin D /\ t[q] = s[q]
    <2> SUFFICES ASSUME NEW q \in Node, NEW i \in 1..Len(t[q]), q \in D  PROVE FALSE
      BY <1>4
    <2>1. Len(t[q]) = 0
      BY <1>4
    <2> QED BY <2>1
  <1>7. \A q \in Node : \A i \in 1..Len(t[q]) : u.parent[t[q][i]] = q
    BY <1>2, <1>5, <1>6
  <1>8. \A x \in Node : u.parent[x] # NULL => \E i \in 1..Len(t[u.parent[x]]) : t[u.parent[x]][i] = x
    <2> SUFFICES ASSUME NEW x \in Node, u.parent[x] # NULL
                 PROVE  \E i \in 1..Len(t[u.parent[x]]) : t[u.parent[x]][i] = x
      OBVIOUS
    <2>1. x \notin D /\ u.parent[x] = g.parent[x] /\ g.parent[x] # NULL
      BY <1>2
    <2>2. g.parent[x] \in Node \ D
      BY <2>1, LinksFact
    <2>3. \E i \in 1..Len(s[g.parent[x]]) : s[g.parent[x]][i] = x
      BY <2>1 DEF Listed
    <2> QED BY <1>4, <2>1, <2>2, <2>3
  <1>9. \A q \in Node : \A i, j \in 1..Len(t[q]) : t[q][i] = t[q][j] => i = j
    BY <1>6 DEF Listed
  <1>10. \A q \in Node : u.child[q] = IF Len(t[q]) = 0 THEN NULL ELSE t[q][1]
    <2>0. \A q \in Node : g.child[q] = IF Len(s[q]) = 0 THEN NULL ELSE s[q][1]
      BY DEF Listed
    <2> QED BY <1>2, <1>4, <2>0
  <1>11. \A q \in Node : \A i \in 1..Len(t[q]) : u.next[t[q][i]] = IF i = Len(t[q]) THEN NULL ELSE t[q][i + 1]
    <2>0. \A q \in Node : \A i \in 1..Len(s[q]) :
              g.next[s[q][i]] = IF i = Len(s[q]) THEN NULL ELSE s[q][i + 1]
      BY DEF Listed
    <2> SUFFICES ASSUME NEW q \in Node, NEW i \in 1..Len(t[q])
                 PROVE  u.next[t[q][i]] = IF i = Len(t[q]) THEN NULL ELSE t[q][i + 1]
      OBVIOUS
    <2>1. q \in Node \ D /\ t[q] = s[q]
      BY <1>6
    <2>2. u.next[s[q][i]] = g.next[s[q][i]]
      BY <1>2, <1>5, <2>1
    <2> QED BY <2>0, <2>1, <2>2
  <1> QED BY <1>3, <1>7, <1>8, <1>9, <1>10, <1>11 DEF Listed, t, u

-----------------------------------------------------------------------------
\* The function of Chain for the links g, and the lists that it gives.
Along(g) == LET f[y \in Ptr] == IF y = NULL THEN <<>> ELSE <<y>> \o f[g.next[y]] IN f
\* The lists of children that the links g stand for.
Lists(g) == [p \in Node |-> Along(g)[g.child[p]]]

\* A set of numbers has a least one.
LEMMA LeastNat ==
    ASSUME NEW S \in SUBSET Nat, S # {}
    PROVE  \E m \in S : \A l \in S : m <= l
  <1> DEFINE Less == {ss \in Nat \X Nat : ss[1] < ss[2]}
  <1>1. IsWellFoundedOn(Less, Nat)
    BY NatLessThanWellFounded, Zenon DEF OpToRel
  <1>2. PICK m \in S : \A l \in S : ~(<<l, m>> \in Less)
    <2> HIDE DEF Less
    <2> QED BY <1>1, WFMin, Zenon
  <1>3. ASSUME NEW l \in S  PROVE m <= l
    <2>1. l < m => <<l, m>> \in Less
      OBVIOUS
    <2> HIDE DEF Less
    <2>2. ~(l < m)
      BY <1>2, <2>1
    <2> QED BY <2>2
  <1> QED BY <1>3

\* When the links stand for lists, Chain has a value: the rest of the list a
\* node is in, and for a node without a parent the node alone.
LEMMA AlongDefined ==
    ASSUME NEW g \in Links, NEW s, Listed(g, s), Roots(g)
    PROVE  Along(g) = [y \in Ptr |-> IF y = NULL THEN <<>> ELSE <<y>> \o Along(g)[g.next[y]]]
  <1> DEFINE At(y) == CHOOSE i \in 1..Len(s[g.parent[y]]) : s[g.parent[y]][i] = y
             Rest(y) == SubSeq(s[g.parent[y]], At(y), Len(s[g.parent[y]]))
             e == [y \in Ptr |-> IF y = NULL THEN <<>>
                                 ELSE IF g.parent[y] = NULL THEN <<y>> ELSE Rest(y)]
  <1>1. s \in [Node -> Seq(Node)] /\ NULL \notin Node /\ NULL \in Ptr
    BY LinksFact DEF Listed
  <1>2. ASSUME NEW y \in Ptr
        PROVE  e[y] = IF y = NULL THEN <<>> ELSE <<y>> \o e[g.next[y]]
    <2>1. CASE y = NULL
      BY <2>1
    <2>2. CASE y # NULL /\ g.parent[y] = NULL
      <3>1. y \in Node /\ g.next[y] = NULL
        BY <2>2, LinksFact DEF Roots
      <3>2. e[y] = <<y>> /\ e[NULL] = <<>>
        BY <1>1, <2>2
      <3> HIDE DEF e
      <3> QED BY <2>2, <3>1, <3>2
    <2>3. CASE y # NULL /\ g.parent[y] # NULL
      <3>1. PICK p : p = g.parent[y] /\ p \in Node /\ y \in Node
        BY <2>3, LinksFact
      <3>2. PICK a : a = s[p] /\ a \in Seq(Node)
        BY <1>1, <3>1
      <3>3. \E i \in 1..Len(a) : a[i] = y
        BY <2>3, <3>1, <3>2 DEF Listed
      <3>4. PICK i : i = At(y) /\ i \in 1..Len(a) /\ a[i] = y
        BY <3>1, <3>2, <3>3
      <3>a. i \in 1..Len(a) /\ a[i] = y /\ Len(a) \in Nat
        BY <3>2, <3>4
      <3>5. e[y] = SubSeq(a, i, Len(a))
        BY <2>3, <3>1, <3>2, <3>4
      <3>6. SubSeq(a, i, Len(a)) = <<y>> \o SubSeq(a, i + 1, Len(a))
        <4>1. \A l \in 1..Len(a), m \in 1..Len(a) :
                  m \in l..Len(a) => SubSeq(a, l, m) = <<a[l]>> \o SubSeq(a, l + 1, m)
          BY <3>2, SubSeqRecursiveFirst
        <4>2. Len(a) \in 1..Len(a) /\ Len(a) \in i..Len(a)
          BY <3>a
        <4> QED BY <3>a, <4>1, <4>2
      <3>7. g.next[y] = IF i = Len(a) THEN NULL ELSE a[i + 1]
        <4>1. \A q \in Node : \A j \in 1..Len(s[q]) :
                  g.next[s[q][j]] = IF j = Len(s[q]) THEN NULL ELSE s[q][j + 1]
          BY DEF Listed
        <4> QED BY <3>1, <3>2, <3>a, <4>1
      <3>8. e[g.next[y]] = SubSeq(a, i + 1, Len(a))
        <4>1. CASE i = Len(a)
          <5>1. SubSeq(a, i + 1, Len(a)) = <<>>
            BY <3>a, <4>1, SubSeqEmpty
          <5> QED BY <1>1, <3>7, <4>1, <5>1
        <4>2. CASE i # Len(a)
          <5>1. PICK z : z = a[i + 1] /\ i + 1 \in 1..Len(a)
            BY <3>a, <4>2
          <5>2. z \in Node /\ z # NULL /\ z \in Ptr /\ g.parent[z] = p
            BY <1>1, <3>1, <3>2, <5>1, LinksFact DEF Listed
          <5>3. At(z) = i + 1
            <6>1. \A j \in 1..Len(a) : a[j] = z => j = i + 1
              BY <3>1, <3>2, <5>1 DEF Listed
            <6> QED BY <3>2, <5>1, <5>2, <6>1
          <5>4. e[z] = SubSeq(a, i + 1, Len(a))
            BY <1>1, <3>1, <3>2, <5>2, <5>3
          <5> QED BY <3>7, <4>2, <5>1, <5>4
        <4> QED BY <4>1, <4>2
      <3> HIDE DEF e
      <3> QED BY <2>3, <3>5, <3>6, <3>8
    <2> QED BY <2>1, <2>2, <2>3
  <1>3. e = [y \in Ptr |-> IF y = NULL THEN <<>> ELSE <<y>> \o e[g.next[y]]]
    <2>1. e = [y \in Ptr |-> e[y]]
      OBVIOUS
    <2> HIDE DEF e
    <2> QED BY <1>2, <2>1
  <1> HIDE DEF e
  <1> QED BY <1>3 DEF Along

\* The lists that the links stand for are the ones Chain gives.
LEMMA ListsUnique ==
    ASSUME NEW g \in Links, NEW s, Listed(g, s), Roots(g)
    PROVE  s = Lists(g)
  <1>1. s \in [Node -> Seq(Node)] /\ NULL \notin Node /\ NULL \in Ptr /\ \A x \in Node : x \in Ptr
    BY LinksFact DEF Listed
  <1>2. PICK f : f = Along(g) /\ f = [y \in Ptr |-> IF y = NULL THEN <<>> ELSE <<y>> \o f[g.next[y]]]
    BY AlongDefined
  <1>3. f[NULL] = <<>> /\ \A y \in Node : f[y] = <<y>> \o f[g.next[y]]
    BY <1>1, <1>2
  <1>4. ASSUME NEW p \in Node  PROVE f[g.child[p]] = s[p]
    <2>1. PICK a : a = s[p] /\ a \in Seq(Node)
      BY <1>1
    <2>2. PICK L \in Nat : L = Len(a)
      BY <2>1
    <2>3. /\ \A i \in 1..L : a[i] \in Node
          /\ \A i \in 1..L : g.next[a[i]] = IF i = L THEN NULL ELSE a[i + 1]
          /\ g.child[p] = IF L = 0 THEN NULL ELSE a[1]
      <3>1. \A q \in Node : \A i \in 1..Len(s[q]) :
                g.next[s[q][i]] = IF i = Len(s[q]) THEN NULL ELSE s[q][i + 1]
        BY DEF Listed
      <3>2. \A q \in Node : g.child[q] = IF Len(s[q]) = 0 THEN NULL ELSE s[q][1]
        BY DEF Listed
      <3> QED BY <2>1, <2>2, <3>1, <3>2
    <2> DEFINE Bad == {d \in 0..L - 1 : f[a[L - d]] # SubSeq(a, L - d, L)}
    <2>4. Bad = {}
      <3> SUFFICES ASSUME Bad # {}  PROVE FALSE
        OBVIOUS
      <3>1. Bad \in SUBSET Nat
        OBVIOUS
      <3>2. PICK d \in Bad : \A l \in Bad : d <= l
        <4> HIDE DEF Bad
        <4> QED BY <3>1, LeastNat
      <3>3. d \in 0..L - 1 /\ f[a[L - d]] # SubSeq(a, L - d, L)
        OBVIOUS
      <3>4. PICK i : i = L - d /\ i \in 1..L
        BY <2>2, <3>3
      <3>5. f[a[i]] = <<a[i]>> \o f[g.next[a[i]]]
        BY <1>3, <2>3, <3>4
      <3>6. SubSeq(a, i, L) = <<a[i]>> \o SubSeq(a, i + 1, L)
        BY <2>1, <2>2, <3>4, SubSeqRecursiveFirst, SMTT(30)
      <3>7. f[g.next[a[i]]] = SubSeq(a, i + 1, L)
        <4>1. CASE i = L
          <5>1. SubSeq(a, i + 1, L) = <<>>
            BY <2>2, <3>4, <4>1, SubSeqEmpty
          <5> QED BY <1>3, <2>3, <3>4, <4>1, <5>1
        <4>2. CASE i # L
          <5>1. d - 1 \in 0..L - 1 /\ ~(d <= d - 1) /\ L - (d - 1) = i + 1
            BY <2>2, <3>3, <3>4, <4>2
          <5>2. d - 1 \notin Bad
            <6> HIDE DEF Bad
            <6> QED BY <3>2, <5>1
          <5>3. f[a[i + 1]] = SubSeq(a, i + 1, L)
            BY <5>1, <5>2
          <5> QED BY <2>3, <3>4, <4>2, <5>3
        <4> QED BY <4>1, <4>2
      <3> QED BY <3>3, <3>4, <3>5, <3>6, <3>7
    <2>5. CASE L = 0
      <3>1. a = <<>>
        BY <2>1, <2>2, <2>5, EmptySeq
      <3> QED BY <1>3, <2>1, <2>3, <2>5, <3>1
    <2>6. CASE L # 0
      <3>1. L - 1 \in 0..L - 1 /\ L - (L - 1) = 1
        BY <2>2, <2>6
      <3>2. f[a[1]] = SubSeq(a, 1, L)
        BY <2>4, <3>1
      <3>3. SubSeq(a, 1, L) = a
        BY <2>1, <2>2, SubSeqFull
      <3> QED BY <2>1, <2>3, <2>6, <3>2, <3>3
    <2> QED BY <2>5, <2>6
  <1> QED BY <1>1, <1>2, <1>4 DEF Lists

-----------------------------------------------------------------------------
\* The lists s without n.
Drop(s, n) == [p \in Node |-> LET i == Forest!Place(s[p], n) IN
                              IF i = 0 THEN s[p] ELSE RemoveAt(s[p], i)]

\* Where a node is in a list.
LEMMA PlaceIn ==
    ASSUME NEW a \in Seq(Node), NEW i \in 1..Len(a), NEW c, a[i] = c,
           \A j, l \in 1..Len(a) : a[j] = a[l] => j = l
    PROVE  Forest!Place(a, c) = i
  <1>1. DOMAIN a = 1..Len(a)
    OBVIOUS
  <1>2. c \in Forest!Range(a)
    BY <1>1 DEF Forest!Range
  <1> DEFINE d == CHOOSE j \in DOMAIN a : a[j] = c
  <1>3. Forest!Place(a, c) = d
    BY <1>2 DEF Forest!Place
  <1>4. d \in DOMAIN a /\ a[d] = c
    BY <1>1
  <1> HIDE DEF d
  <1> QED BY <1>1, <1>3, <1>4

\* Place is 0 for a node that is not in the list.
LEMMA PlaceOut ==
    ASSUME NEW a \in Seq(Node), NEW c, \A i \in 1..Len(a) : a[i] # c
    PROVE  Forest!Place(a, c) = 0
  <1>1. DOMAIN a = 1..Len(a)
    OBVIOUS
  <1>2. c \notin Forest!Range(a)
    BY <1>1 DEF Forest!Range
  <1> QED BY <1>2 DEF Forest!Place

\* The facts of Listed one by one.
LEMMA ListedType ==
    ASSUME NEW g \in Links, NEW s, Listed(g, s)
    PROVE  s \in [Node -> Seq(Node)] /\ NULL \notin Node /\ \A p \in Node : Len(s[p]) \in Nat
  <1>1. s \in [Node -> Seq(Node)] /\ NULL \notin Node
    BY LinksFact DEF Listed
  <1> QED BY <1>1

\* The nodes of a list have the owner of the list as their parent.
LEMMA ListedParent ==
    ASSUME NEW g \in Links, NEW s, Listed(g, s)
    PROVE  \A p \in Node : \A i \in 1..Len(s[p]) : s[p][i] \in Node /\ g.parent[s[p][i]] = p
  <1>1. s \in [Node -> Seq(Node)]
    BY DEF Listed
  <1> QED BY <1>1 DEF Listed

\* Every node is in the list of its parent.
LEMMA ListedAll ==
    ASSUME NEW g \in Links, NEW s, Listed(g, s), NEW x \in Node, NEW p \in Node, g.parent[x] = p
    PROVE  \E i \in 1..Len(s[p]) : s[p][i] = x
  <1>1. \A y \in Node : g.parent[y] # NULL => \E i \in 1..Len(s[g.parent[y]]) : s[g.parent[y]][i] = y
    BY DEF Listed
  <1>2. NULL \notin Node
    BY LinksFact
  <1> QED BY <1>1, <1>2

\* No node is twice in a list.
LEMMA ListedOnce ==
    ASSUME NEW g \in Links, NEW s, Listed(g, s)
    PROVE  \A p \in Node : \A i, j \in 1..Len(s[p]) : s[p][i] = s[p][j] => i = j
  BY DEF Listed

\* A node without a parent is in no list.
LEMMA DropRoot ==
    ASSUME NEW g \in Links, NEW s, Listed(g, s), NEW n \in Node, g.parent[n] = NULL
    PROVE  Drop(s, n) = s
  <1>1. s \in [Node -> Seq(Node)]
    BY ListedType
  <1>2. \A p \in Node : \A i \in 1..Len(s[p]) : s[p][i] # n
    BY ListedType, ListedParent
  <1>3. \A p \in Node : Forest!Place(s[p], n) = 0
    BY <1>1, <1>2, PlaceOut
  <1> QED BY <1>1, <1>3 DEF Drop

\* mxmlRemove takes the node out of its list and leaves the others.
LEMMA UnlinkListed ==
    ASSUME NEW g \in Links, Good(g), NEW s, Listed(g, s), NEW n \in Node
    PROVE  Listed(Unlink(g, n), Drop(s, n))
  <1>1. CASE g.parent[n] = NULL
    BY <1>1, DropRoot DEF Unlink
  <1>2. CASE g.parent[n] # NULL
    <2> DEFINE u == Unlink(g, n)
    <2>1. PICK p : p = g.parent[n] /\ p \in Node
      BY <1>2, LinksFact
    <2>2. PICK k \in 1..Len(s[p]) : s[p][k] = n
      BY <2>1, ListedAll
    <2>3. PICK a, b : a = g.prev[n] /\ b = g.next[n] /\ a \in Ptr /\ b \in Ptr
      BY LinksFact
    <2>4. /\ \A x \in Node : u.parent[x] = IF x = n THEN NULL ELSE g.parent[x]
          /\ \A x \in Node : u.child[x] = IF a = NULL /\ x = p THEN b ELSE g.child[x]
          /\ \A x \in Node : u.next[x] = IF x = n THEN NULL ELSE IF x = a THEN b ELSE g.next[x]
      BY <1>2, <2>1, <2>3, LinksFact DEF Unlink, Store
    <2> HIDE DEF u
    <2>5. Len(s[p]) \in Nat /\ s[p] \in Seq(Node) /\ \A i, j \in 1..Len(s[p]) : s[p][i] = s[p][j] => i = j
      <3>1. s \in [Node -> Seq(Node)] /\ \A q \in Node : Len(s[q]) \in Nat
        BY ListedType
      <3>2. \A q \in Node : \A i, j \in 1..Len(s[q]) : s[q][i] = s[q][j] => i = j
        BY ListedOnce
      <3> QED BY <2>1, <3>1, <3>2
    <2>6. a = NULL <=> k = 1
      <3>1. g.child[p] = n <=> (g.parent[n] = p /\ g.prev[n] = NULL)
        BY <2>1 DEF Good, Ends
      <3>2. g.child[p] = s[p][1] /\ 1 \in 1..Len(s[p])
        BY <2>1, <2>2, <2>5, SMTT(30) DEF Listed
      <3>3. g.child[p] = n <=> k = 1
        BY <2>2, <2>5, <3>2
      <3> QED BY <2>1, <2>3, <3>1, <3>3
    <2>7. k > 1 => a = s[p][k - 1]
      <3> SUFFICES ASSUME k > 1  PROVE a = s[p][k - 1]
        OBVIOUS
      <3>1. k - 1 \in 1..Len(s[p]) /\ k - 1 # Len(s[p]) /\ (k - 1) + 1 = k
        BY <2>2, <2>5
      <3>2. PICK m : m = s[p][k - 1] /\ m \in Node
        BY <2>1, <3>1, ListedParent
      <3>3. g.next[m] = n
        <4>1. \A q \in Node : \A i \in 1..Len(s[q]) :
                  g.next[s[q][i]] = IF i = Len(s[q]) THEN NULL ELSE s[q][i + 1]
          BY DEF Listed
        <4>2. g.next[s[p][k - 1]] = s[p][(k - 1) + 1]
          BY <2>1, <3>1, <4>1
        <4> QED BY <2>2, <3>1, <3>2, <4>2
      <3> QED BY <2>3, <3>2, <3>3 DEF Good, Neighbours
    <2>8. Removed(g, u, s, p, k, n)
      <3>1. k = 1 \/ k > 1
        BY <2>5
      <3>2. NULL \notin Node
        BY LinksFact
      <3> QED BY <2>2, <2>3, <2>4, <2>6, <2>7, <3>1, <3>2 DEF Removed
    <2>9. Listed(u, [s EXCEPT ![p] = RemoveAt(s[p], k)])
      BY <2>1, <2>8, RemoveListed
    <2>10. [s EXCEPT ![p] = RemoveAt(s[p], k)] = Drop(s, n)
      <3>1. s \in [Node -> Seq(Node)]
        BY ListedType
      <3>2. Forest!Place(s[p], n) = k /\ k # 0
        BY <2>2, <2>5, PlaceIn
      <3>3. \A q \in Node \ {p} : \A i \in 1..Len(s[q]) : s[q][i] # n
        BY <2>1, ListedParent
      <3>4. \A q \in Node \ {p} : Forest!Place(s[q], n) = 0
        BY <3>1, <3>3, PlaceOut
      <3> QED BY <2>1, <3>1, <3>2, <3>4 DEF Drop
    <2> QED BY <2>9, <2>10 DEF u
  <1> QED BY <1>1, <1>2

\* The list operators of the two modules are the same.
LEMMA SameOps ==
    ASSUME NEW s, NEW i, NEW e
    PROVE  /\ Forest!InsertAt(s, i, e) = InsertAt(s, i, e)
           /\ Forest!RemoveAt(s, i) = RemoveAt(s, i)
  <1>1. Forest!InsertAt(s, i, e) = InsertAt(s, i, e)
    BY DEF InsertAt, Forest!InsertAt
  <1>2. Forest!RemoveAt(s, i) = RemoveAt(s, i)
    BY DEF RemoveAt, Forest!RemoveAt
  <1> QED BY <1>1, <1>2

\* Where the ends and the neighbours of a list are, in terms of the links.
LEMMA EndsListed ==
    ASSUME NEW g \in Links, Good(g), NEW s, Listed(g, s), NEW p \in Node
    PROVE  /\ g.child[p] = IF Len(s[p]) = 0 THEN NULL ELSE s[p][1]
           /\ g.last_child[p] = IF Len(s[p]) = 0 THEN NULL ELSE s[p][Len(s[p])]
           /\ \A i \in 1..Len(s[p]) : g.next[s[p][i]] = IF i = Len(s[p]) THEN NULL ELSE s[p][i + 1]
           /\ \A i \in 1..Len(s[p]) : g.prev[s[p][i]] = IF i = 1 THEN NULL ELSE s[p][i - 1]
  <1>0. NULL \notin Node /\ s[p] \in Seq(Node) /\ Len(s[p]) \in Nat
        /\ \A i \in 1..Len(s[p]) : s[p][i] \in Node /\ g.parent[s[p][i]] = p
    <2>1. s \in [Node -> Seq(Node)] /\ NULL \notin Node
      BY ListedType
    <2>2. \A i \in 1..Len(s[p]) : s[p][i] \in Node /\ g.parent[s[p][i]] = p
      BY ListedParent
    <2> QED BY <2>1, <2>2
  <1>1. g.child[p] = IF Len(s[p]) = 0 THEN NULL ELSE s[p][1]
    BY DEF Listed
  <1>2. \A i \in 1..Len(s[p]) : g.next[s[p][i]] = IF i = Len(s[p]) THEN NULL ELSE s[p][i + 1]
    BY DEF Listed
  <1>3. g.last_child[p] = IF Len(s[p]) = 0 THEN NULL ELSE s[p][Len(s[p])]
    <2>1. CASE Len(s[p]) = 0
      <3>1. g.child[p] = NULL
        BY <1>1, <2>1
      <3> QED BY <2>1, <3>1 DEF Good, Ends
    <2>2. CASE Len(s[p]) # 0
      <3>1. PICK m : m = s[p][Len(s[p])] /\ m \in Node /\ g.parent[m] = p /\ g.next[m] = NULL
        <4>1. Len(s[p]) \in 1..Len(s[p])
          BY <1>0, <2>2
        <4> QED BY <1>0, <1>2, <4>1
      <3> QED BY <2>2, <3>1 DEF Good, Ends
    <2> QED BY <2>1, <2>2
  <1>4. ASSUME NEW i \in 1..Len(s[p])
        PROVE  g.prev[s[p][i]] = IF i = 1 THEN NULL ELSE s[p][i - 1]
    <2>1. PICK m : m = s[p][i] /\ m \in Node /\ g.parent[m] = p
      BY <1>0
    <2>2. CASE i = 1
      <3>1. g.child[p] = m
        BY <1>0, <1>1, <2>1, <2>2
      <3> QED BY <2>1, <2>2, <3>1 DEF Good, Ends
    <2>3. CASE i # 1
      <3>1. i - 1 \in 1..Len(s[p]) /\ i - 1 # Len(s[p]) /\ (i - 1) + 1 = i
        BY <1>0, <2>3
      <3>2. PICK l : l = s[p][i - 1] /\ l \in Node
        BY <1>0, <3>1
      <3>3. g.next[l] = s[p][(i - 1) + 1]
        BY <1>2, <3>1, <3>2
      <3>4. g.next[l] = m
        BY <2>1, <3>1, <3>3
      <3> QED BY <2>1, <2>3, <3>2, <3>4 DEF Good, Neighbours
    <2> QED BY <2>2, <2>3
  <1> QED BY <1>1, <1>2, <1>3, <1>4

\* MXML_ADD_BEFORE the first child.
LEMMA FirstListed ==
    ASSUME NEW g \in Links, Good(g), NEW s, Listed(g, s), NEW n \in Node, NEW p \in Node,
           g.parent[n] = NULL
    PROVE  Listed(LinkFirst(g, p, n), [s EXCEPT ![p] = InsertAt(s[p], 1, n)])
  <1> DEFINE u == LinkFirst(g, p, n)
  <1>0. n \in Ptr /\ p \in Ptr /\ g.child[p] \in Ptr
    BY LinksFact
  <1>1. /\ \A x \in Node : u.parent[x] = IF x = n THEN p ELSE g.parent[x]
        /\ \A x \in Node : u.child[x] = IF x = p THEN n ELSE g.child[x]
        /\ \A x \in Node : u.next[x] = IF x = n THEN g.child[p] ELSE g.next[x]
    BY <1>0, LinksFact DEF LinkFirst, Store
  <1> HIDE DEF u
  <1>2. g.child[p] = IF Len(s[p]) = 0 THEN NULL ELSE s[p][1]
    BY EndsListed
  <1>3. Len(s[p]) \in Nat
    BY ListedType
  <1>4. u.next[n] = IF 1 = Len(s[p]) + 1 THEN NULL ELSE s[p][1]
    BY <1>1, <1>2, <1>3
  <1>5. Inserted(g, u, s, p, 1, n)
    BY <1>1, <1>3, <1>4 DEF Inserted
  <1> QED BY <1>5, InsertListed DEF u

\* MXML_ADD_AFTER the last child.
LEMMA LastListed ==
    ASSUME NEW g \in Links, Good(g), NEW s, Listed(g, s), NEW n \in Node, NEW p \in Node,
           g.parent[n] = NULL
    PROVE  Listed(LinkLast(g, p, n), [s EXCEPT ![p] = InsertAt(s[p], Len(s[p]) + 1, n)])
  <1> DEFINE u == LinkLast(g, p, n)
  <1>0. PICK l : l = g.last_child[p] /\ l \in Ptr /\ n \in Ptr /\ p \in Ptr
    BY LinksFact
  <1>1. /\ \A x \in Node : u.parent[x] = IF x = n THEN p ELSE g.parent[x]
        /\ \A x \in Node : u.child[x] = IF l = NULL /\ x = p THEN n ELSE g.child[x]
        /\ \A x \in Node : u.next[x] = IF x = l THEN n ELSE g.next[x]
    BY <1>0, LinksFact DEF LinkLast, Store
  <1> HIDE DEF u
  <1>2. l = IF Len(s[p]) = 0 THEN NULL ELSE s[p][Len(s[p])]
    BY <1>0, EndsListed
  <1>3. PICK k : k = Len(s[p]) + 1 /\ Len(s[p]) \in Nat
    BY ListedType
  <1>4. /\ k \in 1..Len(s[p]) + 1 /\ (k = 1 <=> Len(s[p]) = 0) /\ (k > 1 <=> Len(s[p]) # 0)
        /\ k - 1 = Len(s[p]) /\ (Len(s[p]) # 0 => Len(s[p]) \in 1..Len(s[p]))
    BY <1>3
  <1>5. NULL \notin Node /\ g.next[n] = NULL
        /\ \A i \in 1..Len(s[p]) : s[p][i] \in Node /\ g.parent[s[p][i]] = p
    <2>1. NULL \notin Node /\ g.next[n] = NULL
      BY LinksFact DEF Good, Roots
    <2>2. \A i \in 1..Len(s[p]) : s[p][i] \in Node /\ g.parent[s[p][i]] = p
      BY ListedParent
    <2> QED BY <2>1, <2>2
  <1>6. (l = NULL <=> k = 1) /\ n # l /\ (k > 1 => l = s[p][k - 1])
    BY <1>2, <1>4, <1>5
  <1>7. Inserted(g, u, s, p, k, n)
    <2>1. \A x \in Node : u.child[x] = IF x = p /\ k = 1 THEN n ELSE g.child[x]
      BY <1>1, <1>6
    <2>2. u.next[n] = IF k = Len(s[p]) + 1 THEN NULL ELSE s[p][k]
      BY <1>1, <1>3, <1>5, <1>6
    <2>3. \A x \in Node \ {n} : u.next[x] = IF k > 1 /\ x = s[p][k - 1] THEN n ELSE g.next[x]
      BY <1>1, <1>2, <1>4, <1>5, <1>6
    <2> QED BY <1>1, <1>4, <2>1, <2>2, <2>3 DEF Inserted
  <1> QED BY <1>3, <1>7, InsertListed DEF u

\* MXML_ADD_BEFORE the child at place k.
LEMMA BeforeListed ==
    ASSUME NEW g \in Links, Good(g), NEW s, Listed(g, s), NEW n \in Node, NEW p \in Node,
           g.parent[n] = NULL, NEW k \in 1..Len(s[p]), NEW c, c = s[p][k]
    PROVE  Listed(LinkBefore(g, p, c, n), [s EXCEPT ![p] = InsertAt(s[p], k, n)])
  <1> DEFINE u == LinkBefore(g, p, c, n)
  <1>0. Len(s[p]) \in Nat /\ \A i \in 1..Len(s[p]) : s[p][i] \in Node /\ g.parent[s[p][i]] = p
    <2>1. Len(s[p]) \in Nat
      BY ListedType
    <2>2. \A i \in 1..Len(s[p]) : s[p][i] \in Node /\ g.parent[s[p][i]] = p
      BY ListedParent
    <2> QED BY <2>1, <2>2
  <1>1. NULL \notin Node /\ c \in Node /\ g.parent[c] = p /\ c # n
    BY <1>0, LinksFact
  <1>2. PICK a : a = g.prev[c] /\ a \in Ptr /\ n \in Ptr /\ p \in Ptr /\ c \in Ptr
    BY <1>1, LinksFact
  <1>3. /\ \A x \in Node : u.parent[x] = IF x = n THEN p ELSE g.parent[x]
        /\ \A x \in Node : u.child[x] = IF a = NULL /\ x = p THEN n ELSE g.child[x]
        /\ \A x \in Node : u.next[x] = IF x = a THEN n ELSE IF x = n THEN c ELSE g.next[x]
    BY <1>2, LinksFact DEF LinkBefore, Store
  <1> HIDE DEF u
  <1>4. a = IF k = 1 THEN NULL ELSE s[p][k - 1]
    <2>1. \A i \in 1..Len(s[p]) : g.prev[s[p][i]] = IF i = 1 THEN NULL ELSE s[p][i - 1]
      BY EndsListed
    <2> QED BY <1>2, <2>1
  <1>5. k \in 1..Len(s[p]) + 1 /\ k # Len(s[p]) + 1 /\ (k > 1 <=> k # 1) /\ (k # 1 => k - 1 \in 1..Len(s[p]))
    BY <1>0
  <1>6. (a = NULL <=> k = 1) /\ n # a
    BY <1>0, <1>1, <1>4, <1>5
  <1>7. Inserted(g, u, s, p, k, n)
    <2>1. \A x \in Node : u.child[x] = IF x = p /\ k = 1 THEN n ELSE g.child[x]
      BY <1>3, <1>6
    <2>2. u.next[n] = IF k = Len(s[p]) + 1 THEN NULL ELSE s[p][k]
      BY <1>3, <1>5, <1>6
    <2>3. \A x \in Node \ {n} : u.next[x] = IF k > 1 /\ x = s[p][k - 1] THEN n ELSE g.next[x]
      BY <1>1, <1>3, <1>4, <1>5
    <2> QED BY <1>3, <1>5, <2>1, <2>2, <2>3 DEF Inserted
  <1> QED BY <1>7, InsertListed DEF u

\* MXML_ADD_AFTER the child at place k.
LEMMA AfterListed ==
    ASSUME NEW g \in Links, Good(g), NEW s, Listed(g, s), NEW n \in Node, NEW p \in Node,
           g.parent[n] = NULL, NEW k \in 1..Len(s[p]), NEW c, c = s[p][k]
    PROVE  Listed(LinkAfter(g, p, c, n), [s EXCEPT ![p] = InsertAt(s[p], k + 1, n)])
  <1> DEFINE u == LinkAfter(g, p, c, n)
  <1>0. Len(s[p]) \in Nat /\ \A i \in 1..Len(s[p]) : s[p][i] \in Node /\ g.parent[s[p][i]] = p
    <2>1. Len(s[p]) \in Nat
      BY ListedType
    <2>2. \A i \in 1..Len(s[p]) : s[p][i] \in Node /\ g.parent[s[p][i]] = p
      BY ListedParent
    <2> QED BY <2>1, <2>2
  <1>1. NULL \notin Node /\ c \in Node /\ g.parent[c] = p /\ c # n
    BY <1>0, LinksFact
  <1>2. PICK b : b = g.next[c] /\ b \in Ptr /\ n \in Ptr /\ p \in Ptr /\ c \in Ptr
    BY <1>1, LinksFact
  <1>3. /\ \A x \in Node : u.parent[x] = IF x = n THEN p ELSE g.parent[x]
        /\ \A x \in Node : u.child[x] = g.child[x]
        /\ \A x \in Node : u.next[x] = IF x = c THEN n ELSE IF x = n THEN b ELSE g.next[x]
    BY <1>2, LinksFact DEF LinkAfter, Store
  <1> HIDE DEF u
  <1>4. b = IF k = Len(s[p]) THEN NULL ELSE s[p][k + 1]
    BY <1>2, EndsListed
  <1>5. PICK m : m = k + 1 /\ m \in 1..Len(s[p]) + 1 /\ m # 1 /\ m > 1 /\ m - 1 = k
                 /\ (m = Len(s[p]) + 1 <=> k = Len(s[p]))
    BY <1>0
  <1>7. Inserted(g, u, s, p, m, n)
    <2>1. \A x \in Node : u.child[x] = IF x = p /\ m = 1 THEN n ELSE g.child[x]
      BY <1>3, <1>5
    <2>2. u.next[n] = IF m = Len(s[p]) + 1 THEN NULL ELSE s[p][m]
      BY <1>1, <1>3, <1>4, <1>5
    <2>3. \A x \in Node \ {n} : u.next[x] = IF m > 1 /\ x = s[p][m - 1] THEN n ELSE g.next[x]
      BY <1>1, <1>3, <1>5
    <2> QED BY <1>3, <1>5, <2>1, <2>2, <2>3 DEF Inserted
  <1> QED BY <1>5, <1>7, InsertListed DEF u
\* mxmlAdd puts the node into the list of p where XmlForest says, and leaves
\* the rest of the lists.
LEMMA AddListed ==
    ASSUME NEW g \in Links, Good(g), NEW s, Listed(g, s), NEW n \in Node, NEW p \in Node,
           NEW c \in Ptr, c # n, NEW w \in {"before", "after"}
    PROVE  LET r == Drop(s, n) IN
           Listed(AddTo(g, p, w, c, n), [r EXCEPT ![p] = Forest!Placed(r[p], w, c, n)])
  <1> DEFINE r == Drop(s, n)  u == Unlink(g, n)  v == AddTo(g, p, w, c, n)
  <1>1. u \in Links /\ Good(u) /\ u.parent[n] = NULL /\ Listed(u, r)
    BY UnlinkType, UnlinkGood, UnlinkListed
  <1>2. v = IF w = "before"
            THEN IF c = NULL \/ c = u.child[p] \/ u.parent[c] # p
                 THEN LinkFirst(u, p, n) ELSE LinkBefore(u, p, c, n)
            ELSE IF c = NULL \/ c = u.last_child[p] \/ u.parent[c] # p
                 THEN LinkLast(u, p, n) ELSE LinkAfter(u, p, c, n)
    BY DEF AddTo
  <1> HIDE DEF r, u, v
  <1>3. PICK L \in Nat : L = Len(r[p])
    <2>1. Len(r[p]) \in Nat
      BY <1>1, ListedType
    <2> QED BY <2>1
  <1>4. r[p] \in Seq(Node) /\ NULL \notin Node
    <2>1. r \in [Node -> Seq(Node)] /\ NULL \notin Node
      BY <1>1, ListedType
    <2> QED BY <2>1
  <1>5. /\ \A i \in 1..L : r[p][i] \in Node /\ u.parent[r[p][i]] = p
        /\ \A i, j \in 1..L : r[p][i] = r[p][j] => i = j
    <2>1. \A i \in 1..Len(r[p]) : r[p][i] \in Node /\ u.parent[r[p][i]] = p
      BY <1>1, ListedParent
    <2>2. \A i, j \in 1..Len(r[p]) : r[p][i] = r[p][j] => i = j
      BY <1>1, ListedOnce
    <2> QED BY <1>3, <2>1, <2>2
  <1>6. u.child[p] = (IF L = 0 THEN NULL ELSE r[p][1]) /\ u.last_child[p] = (IF L = 0 THEN NULL ELSE r[p][L])
    BY <1>1, <1>3, EndsListed
  <1> DEFINE t == Forest!Placed(r[p], w, c, n)
  <1>7. CASE c = NULL \/ u.parent[c] # p
    <2>1. \A i \in 1..L : r[p][i] # c
      BY <1>4, <1>5, <1>7
    <2>2. Forest!Place(r[p], c) = 0
      BY <1>3, <1>4, <2>1, PlaceOut
    <2>3. CASE w = "before"
      <3>1. t = InsertAt(r[p], 1, n)
        BY <2>2, <2>3, SameOps DEF Forest!Placed
      <3>2. v = LinkFirst(u, p, n)
        BY <1>2, <1>7, <2>3
      <3> QED BY <1>1, <3>1, <3>2, FirstListed DEF v, r
    <2>4. CASE w = "after"
      <3>1. t = InsertAt(r[p], Len(r[p]) + 1, n)
        BY <2>2, <2>4, SameOps DEF Forest!Placed
      <3>2. v = LinkLast(u, p, n)
        BY <1>2, <1>7, <2>4
      <3> QED BY <1>1, <3>1, <3>2, LastListed DEF v, r
    <2> QED BY <2>3, <2>4
  <1>8. CASE c # NULL /\ u.parent[c] = p
    <2>1. PICK k \in 1..L : r[p][k] = c
      <3>1. c \in Node
        BY <1>8, LinksFact
      <3>2. \E i \in 1..Len(r[p]) : r[p][i] = c
        BY <1>1, <1>8, <3>1, ListedAll
      <3> QED BY <1>3, <3>2
    <2>2. Forest!Place(r[p], c) = k /\ k # 0
      BY <1>3, <1>4, <1>5, <2>1, PlaceIn
    <2>3. CASE w = "before"
      <3>1. t = InsertAt(r[p], k, n)
        BY <2>2, <2>3, SameOps DEF Forest!Placed
      <3>2. CASE c = u.child[p]
        <4>1. 1 \in 1..L /\ r[p][1] = c
          BY <1>3, <1>6, <1>8, <3>2
        <4>2. k = 1
          BY <1>5, <2>1, <4>1
        <4>3. v = LinkFirst(u, p, n)
          BY <1>2, <2>3, <3>2
        <4> QED BY <1>1, <3>1, <4>2, <4>3, FirstListed DEF v, r
      <3>3. CASE c # u.child[p]
        <4>1. v = LinkBefore(u, p, c, n)
          BY <1>2, <1>8, <2>3, <3>3
        <4> QED BY <1>1, <1>3, <2>1, <3>1, <4>1, BeforeListed DEF v, r
      <3> QED BY <3>2, <3>3
    <2>4. CASE w = "after"
      <3>1. t = InsertAt(r[p], k + 1, n)
        BY <2>2, <2>4, SameOps DEF Forest!Placed
      <3>2. CASE c = u.last_child[p]
        <4>1. L \in 1..L /\ r[p][L] = c
          BY <1>3, <1>6, <1>8, <3>2
        <4>2. k = L
          BY <1>5, <2>1, <4>1
        <4>3. v = LinkLast(u, p, n)
          BY <1>2, <2>4, <3>2
        <4> QED BY <1>1, <1>3, <3>1, <4>2, <4>3, LastListed DEF v, r
      <3>3. CASE c # u.last_child[p]
        <4>1. v = LinkAfter(u, p, c, n)
          BY <1>2, <1>8, <2>4, <3>3
        <4> QED BY <1>1, <1>3, <2>1, <3>1, <4>1, AfterListed DEF v, r
      <3> QED BY <3>2, <3>3
    <2> QED BY <2>3, <2>4
  <1> QED BY <1>7, <1>8 DEF v, r

\* Inserting behind the last element is Append.
LEMMA InsertLast ==
    ASSUME NEW a \in Seq(Node), NEW n \in Node
    PROVE  InsertAt(a, Len(a) + 1, n) = Append(a, n)
  <1>1. SubSeq(a, 1, Len(a)) = a
    BY SubSeqFull
  <1>2. SubSeq(a, Len(a) + 1, Len(a)) = <<>>
    BY SubSeqEmpty
  <1>3. InsertAt(a, Len(a) + 1, n)
            = SubSeq(a, 1, Len(a) + 1 - 1) \o <<n>> \o SubSeq(a, Len(a) + 1, Len(a))
    BY DEF InsertAt
  <1>4. Len(a) + 1 - 1 = Len(a)
    OBVIOUS
  <1>5. (a \o <<n>>) \o <<>> = a \o <<n>> /\ a \o <<n>> = Append(a, n)
    OBVIOUS
  <1> QED BY <1>1, <1>2, <1>3, <1>4, <1>5

\* A new node comes last.
LEMMA NewListed ==
    ASSUME NEW g \in Links, Good(g), NEW s, Listed(g, s), NEW n \in Node, NEW p \in Node,
           g.parent[n] = NULL
    PROVE  Listed(AddTo(g, p, "after", NULL, n), [s EXCEPT ![p] = Append(@, n)])
  <1>0. s \in [Node -> Seq(Node)] /\ NULL \notin Node /\ NULL \in Ptr
    BY LinksFact, ListedType
  <1>1. Drop(s, n) = s
    BY DropRoot
  <1>2. Listed(AddTo(g, p, "after", NULL, n), [s EXCEPT ![p] = Forest!Placed(s[p], "after", NULL, n)])
    <2>1. NULL \in Ptr /\ NULL # n /\ "after" \in {"before", "after"}
      BY <1>0
    <2> QED BY <1>1, <2>1, AddListed
  <1>3. Forest!Placed(s[p], "after", NULL, n) = Append(s[p], n)
    <2>1. PICK a : a = s[p] /\ a \in Seq(Node)
      BY <1>0
    <2>2. \A i \in 1..Len(a) : a[i] # NULL
      BY <1>0, <2>1
    <2>3. Forest!Place(a, NULL) = 0
      BY <2>1, <2>2, PlaceOut
    <2>4. Forest!Placed(a, "after", NULL, n) = InsertAt(a, Len(a) + 1, n)
      BY <2>3, SameOps DEF Forest!Placed
    <2> QED BY <2>1, <2>4, InsertLast
  <1> QED BY <1>2, <1>3

\* The nodes below n are its family.
LEMMA FamilyListed ==
    ASSUME NEW n \in Node, h \in Links, [p \in Node |-> Kids(p)] = Lists(h), Listed(h, Lists(h))
    PROVE  Forest!Family(n) = Sub(h, n)
  <1> DEFINE s == Lists(h)
             C == {S \in SUBSET Node : n \in S /\ \A x \in Node : h.parent[x] \in S => x \in S}
             F == {S \in SUBSET Node : n \in S /\ \A p \in S : Forest!Range(s[p]) \subseteq S}
  <1>1. Sub(h, n) = {m \in Node : \A S \in C : m \in S}
    BY DEF Sub
  <1>2. Forest!Family(n) = {m \in Node : \A S \in F : m \in S}
    BY DEF Forest!Family
  <1>3. \A x \in Node, p \in Node : x \in Forest!Range(s[p]) <=> h.parent[x] = p
    <2> SUFFICES ASSUME NEW x \in Node, NEW p \in Node  PROVE x \in Forest!Range(s[p]) <=> h.parent[x] = p
      OBVIOUS
    <2>1. s \in [Node -> Seq(Node)]
      BY ListedType
    <2>2. DOMAIN s[p] = 1..Len(s[p])
      BY <2>1
    <2>3. x \in Forest!Range(s[p]) <=> \E i \in 1..Len(s[p]) : s[p][i] = x
      BY <2>2 DEF Forest!Range
    <2>4. \A i \in 1..Len(s[p]) : h.parent[s[p][i]] = p
      <3>1. \A q \in Node : \A i \in 1..Len(s[q]) : s[q][i] \in Node /\ h.parent[s[q][i]] = q
        BY ListedParent
      <3> QED BY <3>1
    <2>5. h.parent[x] = p => \E i \in 1..Len(s[p]) : s[p][i] = x
      BY ListedAll
    <2> QED BY <2>3, <2>4, <2>5
  <1>4. \A p \in Node : Forest!Range(s[p]) \subseteq Node
    <2>1. s \in [Node -> Seq(Node)]
      BY ListedType
    <2> SUFFICES ASSUME NEW p \in Node  PROVE Forest!Range(s[p]) \subseteq Node
      OBVIOUS
    <2>2. s[p] \in Seq(Node)
      BY <2>1
    <2> QED BY <2>2 DEF Forest!Range
  <1> HIDE DEF s
  <1>5. C = F
    BY <1>3, <1>4
  <1> QED BY <1>1, <1>2, <1>5

-----------------------------------------------------------------------------
\* The lists that XmlSearch gives to XmlForest, now and after a step.
LEMMA KidsLists == [p \in Node |-> Kids(p)] = Lists(h) /\ [p \in Node |-> Kids(p)]' = Lists(h')
  <1>1. \A p \in Node : Kids(p) = Along(h)[h.child[p]]
    BY DEF Kids, Chain, Along
  <1>2. \A p \in Node : Kids(p)' = Along(h')[h'.child[p]]
    BY DEF Kids, Chain, Along
  <1>3. [p \in Node |-> Kids(p)] = Lists(h)
    BY <1>1 DEF Lists
  <1>4. [p \in Node |-> Kids(p)]' = Lists(h')
    BY <1>2 DEF Lists
  <1> QED BY <1>3, <1>4

\* The abstract list operation on them.
LEMMA WithoutDrop == ASSUME NEW n PROVE Forest!Without(n) = Drop(Lists(h), n)
  <1>1. \A p \in Node : [q \in Node |-> Kids(q)][p] = Lists(h)[p]
    BY KidsLists
  <1> QED BY <1>1, SameOps DEF Forest!Without, Drop

\* The state of the abstract specification.
LEMMA AbstractState ==
    ASSUME NEW t, Lists(h') = t
    PROVE  /\ Forest!forest = <<live, Lists(h)>> /\ Forest!forest' = <<live', t>>
  BY KidsLists DEF Forest!forest

\* mxmlRemove is a step of XmlForest.
LEMMA DetachRefines ==
    ASSUME NEW n \in Node, n \in live, live' = live, Lists(h') = Drop(Lists(h), n)
    PROVE  Forest!Detach(n)
  <1>1. [p \in Node |-> Kids(p)]' = Forest!Without(n)
    BY KidsLists, WithoutDrop
  <1> QED BY <1>1 DEF Forest!Detach

\* mxmlDelete and mxmlRelease make the step Delete of XmlForest.
LEMMA DeleteRefines ==
    ASSUME NEW n \in Node, n \in live, live' = live \ Sub(h, n), h \in Links, Listed(h, Lists(h)),
           Lists(h') = [q \in Node |-> IF q \in Sub(h, n) THEN <<>> ELSE Drop(Lists(h), n)[q]]
    PROVE  Forest!Delete(n)
  <1>1. Forest!Family(n) = Sub(h, n)
    BY KidsLists, FamilyListed
  <1>2. [p \in Node |-> Kids(p)]' = [q \in Node |-> IF q \in Forest!Family(n) THEN <<>> ELSE Forest!Without(n)[q]]
    BY <1>1, KidsLists, WithoutDrop
  <1> QED BY <1>1, <1>2 DEF Forest!Delete

\* mxml_new makes the step New of XmlForest.
LEMMA NewRefines ==
    ASSUME NEW n \in Node, n \notin live, live' = live \cup {n}, NEW p \in Ptr,
           Lists(h') = IF p = NULL THEN Lists(h) ELSE [Lists(h) EXCEPT ![p] = Append(@, n)]
    PROVE  Forest!New(n, p)
  <1>1. [q \in Node |-> Kids(q)]' = IF p = NULL THEN [q \in Node |-> Kids(q)]
                                    ELSE [[q \in Node |-> Kids(q)] EXCEPT ![p] = Append(@, n)]
    BY KidsLists
  <1> QED BY <1>1 DEF Forest!New

\* mxmlAdd makes the step Add of XmlForest.
LEMMA AddRefines ==
    ASSUME NEW n \in live, n \in Node, NEW p \in live, p \in Node, p # n, live' = live, h \in Links,
           Listed(h, Lists(h)), p \notin Sub(h, n),
           NEW c \in live \cup {NULL}, NEW w \in {"before", "after"},
           NEW r, r = Drop(Lists(h), n), Lists(h') = [r EXCEPT ![p] = Forest!Placed(r[p], w, c, n)]
    PROVE  Forest!Add(n)
  <1> DEFINE new == [q \in Node |-> Kids(q)]'
  <1>1. Forest!Without(n) = r /\ Forest!Family(n) = Sub(h, n)
    BY KidsLists, WithoutDrop, FamilyListed
  <1>2. new = Lists(h')
    BY KidsLists
  <1> HIDE DEF new
  <1>3. DOMAIN r = Node
    BY DEF Drop
  <1>4. new[p] = Forest!Placed(r[p], w, c, n) /\ \A q \in Node \ {p} : new[q] = r[q]
    BY <1>2, <1>3
  <1>5. \E d \in live \cup {NULL}, where \in {"before", "after"} : new[p] = Forest!Placed(r[p], where, d, n)
    BY <1>4
  <1>6. /\ n \in live /\ live' = live /\ p \in live \ {n} /\ p \notin Forest!Family(n)
        /\ \A q \in Node \ {p} : new[q] = Forest!Without(n)[q]
        /\ \E d \in live \cup {NULL}, where \in {"before", "after"} :
              new[p] = Forest!Placed(Forest!Without(n)[p], where, d, n)
    BY <1>1, <1>4, <1>5
  <1> QED BY <1>6 DEF Forest!Add, new

\* The lists after a step are the ones found for it.
LEMMA NowListed ==
    ASSUME NEW g \in Links, Good(g), NEW t, Listed(g, t)
    PROVE  Lists(g) = t /\ Listed(g, Lists(g))
  <1>1. t = Lists(g)
    BY ListsUnique DEF Good
  <1> QED BY <1>1

\* What a step must do to the lists: a step of XmlForest or none, and the links
\* stand for lists after it.
ForestStep == Listed(h', Lists(h')) /\ [Forest!Next]_(Forest!forest)

\* A call that leaves the links leaves the lists.
LEMMA SameForest ==
    ASSUME Listed(h, Lists(h)), h' = h, live' = live
    PROVE  ForestStep
  <1>1. Lists(h') = Lists(h)
    OBVIOUS
  <1>2. Forest!forest' = Forest!forest
    BY <1>1, AbstractState
  <1> QED BY <1>1, <1>2 DEF ForestStep

\* mxml_new appends the node to its parent's list.
LEMMA NewForest ==
    ASSUME Inv, Inv', Listed(h, Lists(h)), NEW n \in Node, NEW p \in Ptr, NEW k, NEW v, mxml_new(n, p, k, v)
    PROVE  ForestStep
  <1>1. /\ h \in Links /\ Good(h) /\ Inside(h, live) /\ live \subseteq Node
        /\ h' \in Links /\ Good(h')
    BY LinksSplit DEF Inv, TypeOK, LinksOK, Good
  <1>2. /\ n \notin live /\ p \in live \cup {NULL} /\ live' = live \cup {n}
        /\ h' = IF p = NULL THEN h ELSE AddTo(h, p, "after", NULL, n)
    BY DEF mxml_new
  <1>3. h.parent[n] = NULL
    BY <1>1, <1>2 DEF Inside
  <1>4. Lists(h') = (IF p = NULL THEN Lists(h) ELSE [Lists(h) EXCEPT ![p] = Append(@, n)])
        /\ Listed(h', Lists(h'))
    <2>1. CASE p = NULL
      BY <1>2, <2>1
    <2>2. CASE p # NULL
      <3>1. p \in Node
        BY <1>1, <1>2, <2>2
      <3>2. Listed(h', [Lists(h) EXCEPT ![p] = Append(@, n)])
        BY <1>1, <1>2, <1>3, <2>2, <3>1, NewListed
      <3> QED BY <1>1, <2>2, <3>2, NowListed
    <2> QED BY <2>1, <2>2
  <1>5. Forest!New(n, p)
    BY <1>2, <1>4, NewRefines
  <1>6. Forest!Next
    BY <1>2, <1>5 DEF Forest!Next
  <1> QED BY <1>4, <1>6 DEF ForestStep

\* mxmlAdd takes the node from its old list and puts it at its place in the new.
LEMMA AddForest ==
    ASSUME Inv, Inv', Listed(h, Lists(h)), NEW n \in Node, NEW p \in Node, NEW c \in Ptr,
           NEW w \in {"before", "after"}, mxmlAdd(p, w, c, n)
    PROVE  ForestStep
  <1>1. h \in Links /\ Good(h) /\ h' \in Links /\ Good(h')
    BY LinksSplit DEF Inv, TypeOK, LinksOK, Good
  <1>2. /\ p \in live /\ n \in live /\ c \in live \cup {NULL} /\ c # n /\ p \notin Sub(h, n)
        /\ h' = AddTo(h, p, w, c, n) /\ live' = live
    BY DEF mxmlAdd
  <1>3. p # n
    BY <1>1, <1>2, SubFact
  <1> DEFINE r == Drop(Lists(h), n)
  <1>4. Listed(h', [r EXCEPT ![p] = Forest!Placed(r[p], w, c, n)])
    BY <1>1, <1>2, AddListed
  <1> HIDE DEF r
  <1>5. Lists(h') = [r EXCEPT ![p] = Forest!Placed(r[p], w, c, n)] /\ Listed(h', Lists(h'))
    BY <1>1, <1>4, NowListed
  <1>6. r = Drop(Lists(h), n)
    BY DEF r
  <1>7. Forest!Add(n)
    BY <1>1, <1>2, <1>3, <1>5, <1>6, AddRefines
  <1>8. Forest!Next
    BY <1>7 DEF Forest!Next
  <1> QED BY <1>5, <1>8 DEF ForestStep

\* mxmlRemove takes the node from its list.
LEMMA RemoveForest ==
    ASSUME Inv, Inv', Listed(h, Lists(h)), NEW n \in Node, mxmlRemove(n)
    PROVE  ForestStep
  <1>1. h \in Links /\ Good(h) /\ h' \in Links /\ Good(h')
    BY LinksSplit DEF Inv, TypeOK, LinksOK, Good
  <1>2. n \in live /\ h' = Unlink(h, n) /\ live' = live
    BY DEF mxmlRemove
  <1>3. Listed(h', Drop(Lists(h), n))
    BY <1>1, <1>2, UnlinkListed
  <1>4. Lists(h') = Drop(Lists(h), n) /\ Listed(h', Lists(h'))
    BY <1>1, <1>3, NowListed
  <1>5. Forest!Detach(n)
    BY <1>2, <1>4, DetachRefines
  <1>6. Forest!Next
    BY <1>5 DEF Forest!Next
  <1> QED BY <1>4, <1>6 DEF ForestStep

\* Deleting a tree takes its root from its list and empties the lists below.
LEMMA DeleteForest ==
    ASSUME Inv, Inv', Listed(h, Lists(h)), NEW n \in live, DeleteTree(n)
    PROVE  ForestStep
  <1> DEFINE D == Sub(h, n)  g == Unlink(h, n)  r == Drop(Lists(h), n)
             t == [q \in Node |-> IF q \in D THEN <<>> ELSE r[q]]
  <1>1. h \in Links /\ Good(h) /\ h' \in Links /\ Good(h') /\ n \in Node
    BY LinksSplit DEF Inv, TypeOK, LinksOK, Good
  <1>2. h' = Cleared(g, D) /\ live' = live \ D
    BY DEF DeleteTree
  <1>3. g \in Links /\ g.parent[n] = NULL /\ \A x \in Node : g.parent[x] = IF x = n THEN NULL ELSE h.parent[x]
    BY <1>1, UnlinkType, UnlinkParent
  <1>4. Listed(g, r)
    BY <1>1, UnlinkListed
  <1>5. D \in SUBSET Node /\ n \in D /\ \A x \in Node \ {n} : x \in D <=> h.parent[x] \in D
    BY <1>1, SubFact
  <1> HIDE DEF D, g, r
  <1>6. \A x \in Node \ {n} : x \in D <=> g.parent[x] \in D
    BY <1>3, <1>5
  <1>7. Listed(h', t)
    BY <1>1, <1>2, <1>3, <1>4, <1>5, <1>6, ClearListed
  <1> HIDE DEF t
  <1>8. Lists(h') = t /\ Listed(h', Lists(h'))
    BY <1>1, <1>7, NowListed
  <1>9. Forest!Delete(n)
    BY <1>1, <1>2, <1>8, DeleteRefines DEF D, r, t
  <1>10. Forest!Next
    BY <1>1, <1>9 DEF Forest!Next
  <1> QED BY <1>8, <1>10 DEF ForestStep

\* The calls that touch the links: mxml_new, mxmlAdd, mxmlRemove, and the
\* deletion of a tree by mxmlDelete or by the last mxmlRelease.
LEMMA HeapSteps ==
    ASSUME [Next]_vars
    PROVE  \/ \E n \in Node, p \in Ptr : \E k, v : mxml_new(n, p, k, v)
           \/ \E n, p \in Node, c \in Ptr, w \in {"before", "after"} : mxmlAdd(p, w, c, n)
           \/ \E n \in Node : mxmlRemove(n)
           \/ \E n \in live : DeleteTree(n)
           \/ h' = h /\ live' = live
  <1>1. CASE Grow
    <2>1. NULL \in Ptr
      BY DEF Ptr
    <2> QED BY <1>1, <2>1, Zenon DEF Grow, mxmlNewXML, mxmlNewElement, mxmlNewCDATA, mxmlNewInteger,
              mxmlNewOpaque, mxmlNewReal, mxmlNewText, mxmlNewTextf, mxmlNewCustom
  <1>2. CASE Reshape
    <2>1. PICK n \in Node :
              \/ \E p \in Node, c \in Ptr, w \in {"before", "after"} : mxmlAdd(p, w, c, n)
              \/ mxmlRemove(n) \/ mxmlDelete(n) \/ mxmlRetain(n) \/ mxmlRelease(n)
      BY <1>2 DEF Reshape
    <2>2. CASE mxmlDelete(n)
      BY <2>2 DEF mxmlDelete
    <2>3. CASE mxmlRetain(n)
      BY <2>3 DEF mxmlRetain
    <2>4. CASE mxmlRelease(n)
      BY <2>4 DEF mxmlRelease
    <2> QED BY <2>1, <2>2, <2>3, <2>4
  <1>3. CASE Edit
    BY <1>3 DEF Edit, mxmlElementDeleteAttr, mxmlElementSetAttr, mxmlElementSetAttrf, SetValue,
       mxmlSetElement, mxmlSetCDATA, mxmlSetInteger, mxmlSetOpaque, mxmlSetReal, mxmlSetText,
       mxmlSetTextf, mxmlSetCustom
  <1>4. CASE UNCHANGED vars
    BY <1>4 DEF vars
  <1> QED BY <1>1, <1>2, <1>3, <1>4 DEF Next

\* Every call of the library is a step of XmlForest or leaves the lists.
LEMMA StepForest ==
    ASSUME Inv, Inv', Listed(h, Lists(h)), [Next]_vars
    PROVE  ForestStep
  <1>1. CASE \E n \in Node, p \in Ptr : \E k, v : mxml_new(n, p, k, v)
    BY <1>1, NewForest
  <1>2. CASE \E n, p \in Node, c \in Ptr, w \in {"before", "after"} : mxmlAdd(p, w, c, n)
    BY <1>2, AddForest
  <1>3. CASE \E n \in Node : mxmlRemove(n)
    BY <1>3, RemoveForest
  <1>4. CASE \E n \in live : DeleteTree(n)
    BY <1>4, DeleteForest
  <1>5. CASE h' = h /\ live' = live
    BY <1>5, SameForest
  <1> QED BY <1>1, <1>2, <1>3, <1>4, <1>5, HeapSteps

\* At first every list is empty.
LEMMA InitForest == Init => Listed(h, Lists(h)) /\ Forest!Init
  <1> SUFFICES ASSUME Init  PROVE Listed(h, Lists(h)) /\ Forest!Init
    OBVIOUS
  <1> DEFINE s == [p \in Node |-> <<>>]
  <1>1. h \in Links /\ Good(h)
    BY InitInv, LinksSplit DEF Inv, TypeOK, LinksOK, Good
  <1>2. s \in [Node -> Seq(Node)] /\ \A p \in Node : Len(s[p]) = 0 /\ 1..Len(s[p]) = {}
    OBVIOUS
  <1>3. \A x \in Node : h.parent[x] = NULL /\ h.child[x] = NULL
    BY DEF Init
  <1> HIDE DEF s
  <1>4. Listed(h, s)
    BY <1>2, <1>3 DEF Listed
  <1>5. Lists(h) = s /\ Listed(h, Lists(h))
    BY <1>1, <1>4, NowListed
  <1>6. [p \in Node |-> Kids(p)] = s
    BY <1>5, KidsLists
  <1> QED BY <1>5, <1>6 DEF Forest!Init, Init, s

\* The pointer heap implements the forest of ordered lists of XmlForest: each
\* call of mxmlAdd, mxmlRemove, mxmlDelete, mxmlRelease and mxml_new (mxml-node.c)
\* does to the lists of children what its name says and nothing to the others,
\* for every number of nodes and every sequence of calls.
THEOREM ForestRefined == Spec => ForestSpec
  <1> DEFINE L == Listed(h, Lists(h))
  <1>1. Init => Inv /\ L /\ Forest!Init
    BY InitInv, InitForest
  <1>2. Inv /\ L /\ [Next]_vars => Inv' /\ L' /\ [Forest!Next]_(Forest!forest)
    BY NextInv, StepForest DEF ForestStep
  <1> HIDE DEF L
  <1> QED BY <1>1, <1>2, PTL DEF Spec, ForestSpec, Forest!Spec

\* The inductive part of ChildrenListed.
LEMMA ListedChildren ==
    ASSUME h \in Links, Listed(h, Lists(h))
    PROVE  ChildrenListed
  <1> SUFFICES ASSUME NEW p \in Node
               PROVE  /\ Range(Kids(p)) = {x \in Node : h.parent[x] = p}
                      /\ \A i, j \in DOMAIN Kids(p) : Kids(p)[i] = Kids(p)[j] => i = j
    BY DEF ChildrenListed
  <1>1. Kids(p) = Lists(h)[p]
    <2>1. [q \in Node |-> Kids(q)][p] = Lists(h)[p]
      BY KidsLists
    <2> QED BY <2>1
  <1>2. PICK a : a = Lists(h)[p] /\ a \in Seq(Node) /\ DOMAIN a = 1..Len(a)
    <2>1. Lists(h) \in [Node -> Seq(Node)]
      BY ListedType
    <2> QED BY <2>1
  <1>3. \A i \in 1..Len(a) : a[i] \in Node /\ h.parent[a[i]] = p
    BY <1>2, ListedParent
  <1>4. \A x \in Node : h.parent[x] = p => \E i \in 1..Len(a) : a[i] = x
    BY <1>2, ListedAll
  <1>5. \A i, j \in 1..Len(a) : a[i] = a[j] => i = j
    BY <1>2, ListedOnce
  <1>6. Range(a) = {x \in Node : h.parent[x] = p}
    BY <1>2, <1>3, <1>4 DEF Range
  <1> QED BY <1>1, <1>2, <1>5, <1>6

\* The chain from child along next always lists exactly the nodes whose parent is
\* the node, each once: mxmlWalkNext and the loop of mxmlDelete miss no child and
\* meet none twice.
THEOREM ChildrenAllListed == Spec => []ChildrenListed
  <1> DEFINE L == Listed(h, Lists(h))
  <1>1. Init => Inv /\ L
    BY InitInv, InitForest
  <1>2. Inv /\ L /\ [Next]_vars => Inv' /\ L'
    BY NextInv, StepForest DEF ForestStep
  <1>3. Inv /\ L => ChildrenListed
    BY ListedChildren DEF Inv, TypeOK
  <1> HIDE DEF L
  <1> QED BY <1>1, <1>2, <1>3, PTL DEF Spec

-----------------------------------------------------------------------------
(***************************************************************************)
(* No cycle of parents.                                                    *)
(***************************************************************************)

\* NoCycle for the links g.
Rooted(g) == \A S \in SUBSET Node : S # {} => \E x \in S : g.parent[x] \notin S

\* NoCycle before and after a step.
LEMMA RootedFact == (NoCycle <=> Rooted(h)) /\ (NoCycle' <=> Rooted(h'))
  BY DEF NoCycle, Rooted

\* Taking nodes from their parents closes no cycle: mxmlRemove and mxmlDelete.
LEMMA FewerParents ==
    ASSUME NEW g, NEW u, Rooted(g), \A x \in Node : u.parent[x] \in {g.parent[x], NULL}
    PROVE  Rooted(u)
  <1> SUFFICES ASSUME NEW S \in SUBSET Node, S # {}
               PROVE  \E x \in S : u.parent[x] \notin S
    BY DEF Rooted
  <1>1. PICK x \in S : g.parent[x] \notin S
    BY DEF Rooted
  <1>2. x \in Node /\ NULL \notin S
    BY TreeAssumption
  <1> QED BY <1>1, <1>2

\* A node that moves to a parent outside its own tree closes no cycle: from a
\* set closed under parents the moved tree could be taken away, and the rest,
\* with the new parent in it, was closed before the move.
LEMMA MovedRooted ==
    ASSUME NEW g \in Links, NEW u, Rooted(g), NEW n \in Node, NEW p \in Node, p \notin Sub(g, n),
           \A x \in Node : u.parent[x] = IF x = n THEN p ELSE g.parent[x]
    PROVE  Rooted(u)
  <1> SUFFICES ASSUME NEW S \in SUBSET Node, S # {}, \A x \in S : u.parent[x] \in S
               PROVE  FALSE
    BY DEF Rooted
  <1>1. PICK D : /\ D = Sub(g, n) /\ D \subseteq Node /\ n \in D /\ p \notin D
                 /\ \A x \in Node \ {n} : x \in D <=> g.parent[x] \in D
    BY SubFact
  <1>2. CASE n \notin S
    <2>1. \A x \in S : g.parent[x] \in S
      BY <1>2
    <2> QED BY <2>1 DEF Rooted
  <1>3. CASE n \in S
    <2>1. p \in S \ D
      BY <1>1, <1>3
    <2>2. \A x \in S \ D : g.parent[x] \in S \ D
      BY <1>1
    <2>3. S \ D \in SUBSET Node
      OBVIOUS
    <2> QED BY <2>1, <2>2, <2>3 DEF Rooted
  <1> QED BY <1>2, <1>3

\* Nothing is below a node that is not allocated.
LEMMA FreshAlone ==
    ASSUME NEW g \in Links, NEW n \in Node, \A x \in Node : g.parent[x] # n
    PROVE  Sub(g, n) \subseteq {n}
  <1>1. {n} \in {S \in SUBSET Node : n \in S /\ \A x \in Node : g.parent[x] \in S => x \in S}
    OBVIOUS
  <1> QED BY <1>1 DEF Sub

\* mxml_new: the new node has nothing below it.
LEMMA NewRooted ==
    ASSUME Inv, Rooted(h), NEW n \in Node, NEW p \in Ptr, NEW k, NEW v, mxml_new(n, p, k, v)
    PROVE  Rooted(h')
  <1>1. h \in Links /\ Good(h) /\ Inside(h, live) /\ live \subseteq Node
    BY LinksSplit DEF Inv, TypeOK
  <1>2. /\ n \notin live /\ p \in live \cup {NULL}
        /\ h' = IF p = NULL THEN h ELSE AddTo(h, p, "after", NULL, n)
    BY DEF mxml_new
  <1>3. CASE p = NULL
    BY <1>2, <1>3
  <1>4. CASE p # NULL
    <2>1. p \in Node /\ p # n /\ NULL \in Ptr /\ NULL # n /\ p \in live
      BY <1>1, <1>2, <1>4, LinksFact
    <2>2. \A x \in Node : h'.parent[x] = IF x = n THEN p ELSE h.parent[x]
      BY <1>1, <1>2, <1>4, <2>1, AddToFact
    <2>3. \A x \in Node : h.parent[x] # n
      BY <1>1, <1>2, <2>1 DEF Inside
    <2>4. p \notin Sub(h, n)
      BY <1>1, <2>1, <2>3, FreshAlone
    <2> QED BY <1>1, <2>1, <2>2, <2>4, MovedRooted
  <1> QED BY <1>3, <1>4

\* mxmlAdd: the new parent is not below the node.
LEMMA AddRooted ==
    ASSUME Inv, Rooted(h), NEW n \in Node, NEW p \in Node, NEW c \in Ptr,
           NEW w \in {"before", "after"}, mxmlAdd(p, w, c, n)
    PROVE  Rooted(h')
  <1>1. h \in Links /\ Good(h)
    BY LinksSplit DEF Inv, TypeOK
  <1>2. c # n /\ p \notin Sub(h, n) /\ h' = AddTo(h, p, w, c, n)
    BY DEF mxmlAdd
  <1>3. p # n
    BY <1>1, <1>2, SubFact
  <1>4. \A x \in Node : h'.parent[x] = IF x = n THEN p ELSE h.parent[x]
    BY <1>1, <1>2, <1>3, AddToFact
  <1> QED BY <1>1, <1>2, <1>4, MovedRooted

\* mxmlRemove takes the node from its parent.
LEMMA RemoveRooted ==
    ASSUME Inv, Rooted(h), NEW n \in Node, mxmlRemove(n)
    PROVE  Rooted(h')
  <1>1. h \in Links /\ h' = Unlink(h, n)
    BY DEF Inv, TypeOK, mxmlRemove
  <1>2. \A x \in Node : h'.parent[x] \in {h.parent[x], NULL}
    BY <1>1, UnlinkParent
  <1> QED BY <1>2, FewerParents

\* Deleting a tree takes nodes from their parents.
LEMMA DeleteRooted ==
    ASSUME Inv, Rooted(h), NEW n \in live, DeleteTree(n)
    PROVE  Rooted(h')
  <1>1. h \in Links /\ n \in Node /\ h' = Cleared(Unlink(h, n), Sub(h, n))
    BY DEF Inv, TypeOK, DeleteTree
  <1>2. \A x \in Node : Unlink(h, n).parent[x] \in {h.parent[x], NULL}
    BY <1>1, UnlinkParent
  <1>3. \A x \in Node : h'.parent[x] \in {Unlink(h, n).parent[x], NULL}
    BY <1>1 DEF Cleared
  <1>4. \A x \in Node : h'.parent[x] \in {h.parent[x], NULL}
    BY <1>2, <1>3
  <1> QED BY <1>4, FewerParents

\* No call closes a cycle.
LEMMA StepRooted ==
    ASSUME Inv, Rooted(h), [Next]_vars
    PROVE  Rooted(h')
  <1>1. CASE \E n \in Node, p \in Ptr : \E k, v : mxml_new(n, p, k, v)
    BY <1>1, NewRooted
  <1>2. CASE \E n, p \in Node, c \in Ptr, w \in {"before", "after"} : mxmlAdd(p, w, c, n)
    BY <1>2, AddRooted
  <1>3. CASE \E n \in Node : mxmlRemove(n)
    BY <1>3, RemoveRooted
  <1>4. CASE \E n \in live : DeleteTree(n)
    BY <1>4, DeleteRooted
  <1>5. CASE h' = h
    BY <1>5
  <1> QED BY <1>1, <1>2, <1>3, <1>4, <1>5, HeapSteps

\* At first no node has a parent.
LEMMA InitRooted == Init => NoCycle
  <1> SUFFICES ASSUME Init, NEW S \in SUBSET Node, S # {}
               PROVE  \E x \in S : h.parent[x] \notin S
    BY DEF NoCycle
  <1>1. PICK x \in S : TRUE
    OBVIOUS
  <1>2. h.parent[x] = NULL /\ NULL \notin S
    BY TreeAssumption DEF Init
  <1> QED BY <1>2

\* mxmlAdd never closes a cycle of parents when the caller does not move a node
\* below itself, in however many moves, and no other call of mxml-node.c does:
\* the climb of mxmlWalkNext (mxml-search.c) and the descent of mxmlDelete end.
THEOREM ParentsAcyclic == Spec => []NoCycle
  <1>1. Inv /\ NoCycle /\ [Next]_vars => Inv' /\ NoCycle'
    BY NextInv, StepRooted, RootedFact
  <1> QED BY <1>1, InitInv, InitRooted, PTL DEF Spec

\* Whatever calls of mxml-node.c were made, in heaps of any size, the nodes are a
\* forest: the links agree, the lists of children are complete, no cycle is closed.
THEOREM TreesKept == Spec => []TreesOK
  <1>1. LinksOK /\ ChildrenListed /\ NoCycle => TreesOK
    BY DEF TreesOK
  <1> QED BY <1>1, LinksAgree, ChildrenAllListed, ParentsAcyclic, PTL
=============================================================================
