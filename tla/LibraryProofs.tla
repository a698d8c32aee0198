---------------------------- MODULE LibraryProofs ---------------------------
(***************************************************************************)
(* Proofs about mxml_load_data: for any set of tokens and inputs of any    *)
(* length no node is added to a freed one, no node is lost, and an input   *)
(* cut off within an element is refused; that strings of any length are    *)
(* read back as they were written; and that the date functions count days  *)
(* as the calendar does, over any number of days.                          *)
(***************************************************************************)
EXTENDS XmlLoad, XmlText, Dates, SequenceTheorems, FiniteSetTheorems, WellFoundedInduction, TLAPS

\* m is a record of the variables of mxml_load_data.
IsLoad(m) ==
    m \in [doc : {m.doc}, top : {m.top}, cb : {m.cb}, sax : {m.sax}, parent : {m.parent},
           first : {m.first}, type : {m.type}, ws : {m.ws}, buf : {m.buf}, st : {m.st},
           freed : {m.freed}]

\* A document is a list in which a node comes after its parent.
IsList(s) == \E S : s \in Seq(S)
Ordered(d) == \A i \in 1..Len(d) : d[i].up \in 0..i - 1

\* parent, top and first are nodes or NULL.
Shaped(m) ==
    /\ IsLoad(m) /\ IsList(m.doc) /\ Ordered(m.doc)
    /\ m.parent \in 0..Len(m.doc) /\ m.first \in 0..Len(m.doc)
    /\ m.top \in 0..2 /\ m.top <= Len(m.doc)
    /\ m.st \in {"reading", "stop", "error", "done"}

\* While reading, the parent is not freed, and what is below a freed node is freed.
Growing(m) == m.st = "reading" =>
    /\ m.freed \subseteq 1..Len(m.doc) /\ m.parent \notin m.freed
    /\ \A i \in 1..Len(m.doc) : m.doc[i].up \in m.freed => i \in m.freed

\* Without a SAX callback first is the first node made, nothing is freed without
\* an error, and the error return frees first with all below it.
Counted(m) == m.sax = "off" =>
    /\ m.first \in {0, m.top + 1}
    /\ m.st = "reading" /\ m.first = 0 => Len(m.doc) = m.top
    /\ m.st # "error" => m.freed = {}
    /\ m.st = "error" => Under(m.doc, m.first) \subseteq m.freed /\ m.freed \subseteq m.top + 1..Len(m.doc)

\* Only an outermost node may be open at the end.
Ended(m) == m.st = "done" => m.parent = 0 \/ m.doc[m.parent].up \in {0, m.top}

Sound(m) == Shaped(m) /\ Growing(m) /\ Counted(m) /\ Ended(m)

\* Two nodes without a parent are one.
Single(d) == \A i, j \in 1..Len(d) : d[i].up = 0 /\ d[j].up = 0 => i = j

\* The open tags o are the path from an outermost node, which is none of them, to
\* the parent; or that node has been closed.
Path(d, p, o) ==
    \/ p = 0 /\ o = <<>> /\ Len(d) >= 1
    \/ \E f \in [1..Len(o) + 1 -> 1..Len(d)] :
          /\ f[Len(o) + 1] = p /\ d[f[1]].up = 0
          /\ \A i \in 1..Len(o) : d[f[i + 1]].up = f[i]

\* The open tags are a path when the input began with a node that stays open.
Traced ==
    /\ IsList(open)
    /\ seen.first = "" =>
           Len(l.doc) = l.top /\ l.parent = l.top /\ l.buf = <<>> /\ ~l.ws /\ open = <<>>
    /\ l.top = 0 /\ seen.first \in {"pi", "decl"} /\ l.sax # "drop" /\ l.st # "error" /\ Single(l.doc)
           => Path(l.doc, l.parent, open)

LoadInv == Sound(l) /\ Traced

-----------------------------------------------------------------------------
(***************************************************************************)
(* Documents.                                                              *)
(***************************************************************************)

\* A set of numbers has a least one.
LEMMA LeastNat ==
    ASSUME NEW S \in SUBSET Nat, S # {}
    PROVE  \E m \in S : \A k \in S : m <= k
  <1> DEFINE Less == {ss \in Nat \X Nat : ss[1] < ss[2]}
  <1>1. IsWellFoundedOn(Less, Nat)
    BY NatLessThanWellFounded, Zenon DEF OpToRel
  <1>2. PICK m \in S : \A k \in S : ~(<<k, m>> \in Less)
    <2> HIDE DEF Less
    <2> QED BY <1>1, WFMin, Zenon
  <1>3. ASSUME NEW k \in S  PROVE m <= k
    <2>1. k < m => <<k, m>> \in Less
      OBVIOUS
    <2> HIDE DEF Less
    <2>2. ~(k < m)
      BY <1>2, <2>1
    <2> QED BY <2>2
  <1> QED BY <1>3

\* The length of a list is a number, and its domain goes up to it.
LEMMA ListLen == ASSUME NEW s, IsList(s) PROVE Len(s) \in Nat /\ DOMAIN s = 1..Len(s)
  BY DEF IsList

\* Append to any list.
LEMMA ListAppend ==
    ASSUME NEW s, IsList(s), NEW e
    PROVE  /\ IsList(Append(s, e)) /\ Len(Append(s, e)) = Len(s) + 1
           /\ Append(s, e)[Len(s) + 1] = e
           /\ \A i \in 1..Len(s) : Append(s, e)[i] = s[i]
  <1>1. PICK S : s \in Seq(S)
    BY DEF IsList
  <1>2. s \in Seq(S \cup {e}) /\ Len(s) \in Nat
    BY <1>1
  <1>3. Append(s, e) \in Seq(S \cup {e})
    BY <1>2
  <1>4. Len(Append(s, e)) = Len(s) + 1 /\ Append(s, e)[Len(s) + 1] = e
        /\ \A i \in 1..Len(s) : Append(s, e)[i] = s[i]
    BY <1>2
  <1> QED BY <1>3, <1>4 DEF IsList

\* Under is closed and contains nothing but what its closure needs: the recursive
\* function in its definition has a value, the least closed set.
LEMMA UnderFact ==
    ASSUME NEW d, IsList(d), Ordered(d), NEW n \in 0..Len(d)
    PROVE  /\ Under(d, n) \subseteq 1..Len(d)
           /\ \A i \in 1..Len(d) : i \in Under(d, n) <=> (i = n \/ d[i].up \in Under(d, n))
  <1> DEFINE N == 1..Len(d)
             C == {S \in SUBSET N : (n # 0 => n \in S) /\ \A i \in N : d[i].up \in S => i \in S}
             D == {i \in N : \A S \in C : i \in S}
             e == [i \in 0..Len(d) |-> i \in D]
             below == CHOOSE g : g = [i \in 0..Len(d) |-> i # 0 /\ (i = n \/ g[d[i].up])]
  <1>0. Len(d) \in Nat /\ \A i \in N : d[i].up \in 0..Len(d) /\ i \in 0..Len(d)
    BY ListLen DEF Ordered
  <1>1. D \subseteq N /\ (n # 0 => n \in D)
    BY <1>0
  <1>2. ASSUME NEW i \in N, d[i].up \in D  PROVE i \in D
    BY <1>2
  <1>3. ASSUME NEW i \in N, i # n, i \in D, d[i].up \notin D  PROVE FALSE
    <2> DEFINE S == D \ {i}
    <2>1. S \in SUBSET N /\ (n # 0 => n \in S)
      BY <1>1, <1>3
    <2>2. ASSUME NEW y \in N, d[y].up \in S  PROVE y \in S
      BY <1>2, <1>3, <2>2
    <2>3. S \in C
      BY <2>1, <2>2
    <2> QED BY <1>3, <2>3
  <1> HIDE DEF C, D
  <1>4. \A i \in 0..Len(d) : e[i] = (i # 0 /\ (i = n \/ e[d[i].up]))
    <2> SUFFICES ASSUME NEW i \in 0..Len(d)  PROVE e[i] = (i # 0 /\ (i = n \/ e[d[i].up]))
      OBVIOUS
    <2>1. CASE i = 0
      BY <1>0, <1>1, <2>1
    <2>2. CASE i # 0
      <3>1. i \in N /\ d[i].up \in 0..Len(d)
        BY <1>0, <2>2
      <3>2. e[i] = (i \in D) /\ e[d[i].up] = (d[i].up \in D)
        BY <3>1
      <3>3. (i \in D) <=> (i = n \/ d[i].up \in D)
        BY <1>1, <1>2, <1>3, <2>2, <3>1
      <3> HIDE DEF e
      <3>4. (i \in D) = (i # 0 /\ (i = n \/ d[i].up \in D))
        BY <2>2, <3>3
      <3> QED BY <3>2, <3>4, Zenon
    <2> QED BY <2>1, <2>2
  <1>5. e = [i \in 0..Len(d) |-> i # 0 /\ (i = n \/ e[d[i].up])]
    <2>1. e = [i \in 0..Len(d) |-> e[i]]
      OBVIOUS
    <2> HIDE DEF e
    <2> QED BY <1>4, <2>1
  <1> HIDE DEF e
  <1>6. below = [i \in 0..Len(d) |-> i # 0 /\ (i = n \/ below[d[i].up])]
    BY <1>5
  <1>7. Under(d, n) = {i \in N : below[i]}
    BY DEF Under
  <1> HIDE DEF below
  <1>8. \A i \in N : below[i] = (i = n \/ below[d[i].up])
    BY <1>0, <1>6
  <1>9. ~below[0]
    <2>1. 0 \in 0..Len(d)
      BY <1>0
    <2>2. below[0] = (0 # 0 /\ (0 = n \/ below[d[0].up]))
      BY <1>6, <2>1, Zenon
    <2> QED BY <2>2, Zenon
  <1>10. \A i \in N : d[i].up \in Under(d, n) <=> below[d[i].up]
    <2> SUFFICES ASSUME NEW i \in N  PROVE d[i].up \in Under(d, n) <=> below[d[i].up]
      OBVIOUS
    <2>1. d[i].up \in 0..Len(d)
      BY <1>0
    <2>2. CASE d[i].up = 0
      <3>1. d[i].up \notin N
        BY <2>2
      <3> QED BY <1>7, <1>9, <2>2, <3>1, Zenon
    <2>3. CASE d[i].up # 0
      <3>1. d[i].up \in N
        BY <1>0, <2>1, <2>3
      <3> HIDE DEF N
      <3> QED BY <1>7, <3>1, Zenon
    <2> QED BY <2>2, <2>3
  <1>11. \A i \in N : i \in Under(d, n) <=> below[i]
    BY <1>7, Zenon
  <1>12. Under(d, n) \subseteq N
    BY <1>7, Zenon
  <1>13. \A i \in N : i \in Under(d, n) <=> (i = n \/ d[i].up \in Under(d, n))
    BY <1>8, <1>10, <1>11, Zenon
  <1> QED BY <1>12, <1>13

\* What is below a node is not older than the node, and nothing is below NULL.
LEMMA UnderAbove ==
    ASSUME NEW d, IsList(d), Ordered(d), NEW n \in 0..Len(d)
    PROVE  \A i \in Under(d, n) : n # 0 /\ n <= i /\ i <= Len(d)
  <1> DEFINE U == Under(d, n)  B == {i \in U : i < n \/ n = 0}
  <1>0. Len(d) \in Nat /\ \A i \in 1..Len(d) : d[i].up \in 0..i - 1
    BY ListLen DEF Ordered
  <1>1. U \subseteq 1..Len(d) /\ \A i \in 1..Len(d) : i \in U <=> (i = n \/ d[i].up \in U)
    BY UnderFact
  <1> HIDE DEF U
  <1>2. ASSUME B # {}  PROVE FALSE
    <2>1. PICK m \in B : \A k \in B : m <= k
      <3>1. B \in SUBSET Nat
        <4>1. U \subseteq Nat
          BY <1>0, <1>1
        <4>2. B \subseteq U
          BY Zenon
        <4> QED BY <4>1, <4>2
      <3> HIDE DEF B
      <3> QED BY <1>2, <3>1, LeastNat
    <2>2. m \in 1..Len(d) /\ m # n /\ m \in U
      BY <1>0, <1>1, <2>1
    <2>3. d[m].up \in U /\ d[m].up \in 0..m - 1
      BY <1>0, <1>1, <2>2
    <2>4. d[m].up \in B
      BY <1>0, <2>1, <2>2, <2>3
    <2> QED BY <1>0, <2>1, <2>2, <2>3, <2>4
  <1> QED BY <1>0, <1>1, <1>2 DEF U

\* With one outermost node all nodes are below the first.
LEMMA UnderAll ==
    ASSUME NEW d, IsList(d), Ordered(d), Single(d), Len(d) >= 1
    PROVE  Under(d, 1) = 1..Len(d) /\ d[1].up = 0
  <1> DEFINE U == Under(d, 1)  B == (1..Len(d)) \ U
  <1>0. Len(d) \in Nat /\ \A i \in 1..Len(d) : d[i].up \in 0..i - 1
    BY ListLen DEF Ordered
  <1>1. U \subseteq 1..Len(d) /\ \A i \in 1..Len(d) : i \in U <=> (i = 1 \/ d[i].up \in U)
    BY <1>0, UnderFact
  <1>2. d[1].up = 0 /\ 1 \in U
    BY <1>0, <1>1
  <1> HIDE DEF U
  <1>3. ASSUME B # {}  PROVE FALSE
    <2>1. PICK m \in B : \A k \in B : m <= k
      <3>1. B \in SUBSET Nat
        BY <1>0
      <3> HIDE DEF B
      <3> QED BY <1>3, <3>1, LeastNat
    <2>2. m \in 1..Len(d) /\ m # 1 /\ d[m].up \in 0..m - 1
      BY <1>0, <1>2, <2>1
    <2>3. d[m].up # 0
      BY <1>0, <1>2, <2>2 DEF Single
    <2>4. d[m].up \in B
      BY <1>0, <1>1, <2>1, <2>2, <2>3
    <2> QED BY <1>0, <2>1, <2>2, <2>4
  <1> QED BY <1>1, <1>2, <1>3 DEF U

\* OneRoot counts the nodes without a parent.
LEMMA RootsCounted ==
    ASSUME NEW d, IsList(d), Cardinality({n \in 1..Len(d) : d[n].up = 0}) <= 1
    PROVE  Single(d)
  <1> DEFINE R == {n \in 1..Len(d) : d[n].up = 0}
  <1> SUFFICES ASSUME NEW i \in R, NEW j \in R, i # j  PROVE FALSE
    BY DEF Single
  <1>1. IsFiniteSet(R)
    <2>1. IsFiniteSet(1..Len(d))
      BY ListLen, FS_Interval
    <2> QED BY <2>1, FS_Subset
  <1>2. IsFiniteSet({i, j}) /\ Cardinality({i, j}) = 2
    <2>1. IsFiniteSet({i}) /\ Cardinality({i}) = 1
      BY FS_Singleton
    <2>2. {i, j} = {i} \cup {j} /\ j \notin {i}
      OBVIOUS
    <2> QED BY <2>1, <2>2, FS_AddElement
  <1>3. {i, j} \in SUBSET R
    OBVIOUS
  <1>4. Cardinality({i, j}) <= Cardinality(R) /\ Cardinality(R) \in Nat
    BY <1>1, <1>3, FS_Subset, FS_CardinalityType
  <1> HIDE DEF R
  <1>5. Cardinality(R) <= 1
    BY DEF R
  <1> QED BY <1>2, <1>4, <1>5

-----------------------------------------------------------------------------
(***************************************************************************)
(* The parts of a step.                                                    *)
(***************************************************************************)

\* u is m with more nodes, all of them children of the parent, which stays.
Adds(m, u) ==
    /\ u.top = m.top /\ u.sax = m.sax /\ u.parent = m.parent
    /\ Len(m.doc) <= Len(u.doc)
    /\ \A i \in 1..Len(m.doc) : u.doc[i] = m.doc[i]
    /\ \A i \in Len(m.doc) + 1..Len(u.doc) : u.doc[i].up = m.parent

\* m while reading, and what a part of a step leaves: the same with more nodes, or
\* an error.
Going(m) == Sound(m) /\ m.st = "reading"
Goes(m, u) == Sound(u) /\ u.st \in {"reading", "stop", "error"} /\ (u.st = "error" \/ Adds(m, u))

\* The fields after Leaf, Fail and Enter.
LEMMA LeafFields ==
    ASSUME NEW m, IsLoad(m), NEW rec
    PROVE  LET u == Leaf(m, rec) IN
           /\ IsLoad(u) /\ u.doc = Append(m.doc, rec) /\ u.top = m.top /\ u.sax = m.sax
           /\ u.parent = m.parent /\ u.st = m.st /\ u.buf = m.buf
           /\ u.freed = IF m.sax = "drop" THEN m.freed \cup {Len(m.doc) + 1} ELSE m.freed
           /\ u.first = IF m.first = 0 /\ m.sax # "drop" THEN Len(m.doc) + 1 ELSE m.first
  BY DEF Leaf, IsLoad

\* The fields after the error return.
LEMMA FailFields ==
    ASSUME NEW m, IsLoad(m)
    PROVE  LET u == Fail(m) IN
           /\ IsLoad(u) /\ u.doc = m.doc /\ u.top = m.top /\ u.sax = m.sax
           /\ u.parent = m.parent /\ u.first = m.first
           /\ u.st = "error" /\ u.freed = m.freed \cup Under(m.doc, m.first)
  BY DEF Fail, IsLoad

\* The fields after the parent has changed.
LEMMA EnterFields ==
    ASSUME NEW m, IsLoad(m), NEW n
    PROVE  LET u == Enter(m, n) IN
           /\ IsLoad(u) /\ u.doc = m.doc /\ u.top = m.top /\ u.sax = m.sax
           /\ u.parent = n /\ u.first = m.first /\ u.st = m.st /\ u.freed = m.freed
  BY DEF Enter, IsLoad

\* A document with one more node.
LEMMA OrderedAppend ==
    ASSUME NEW d, IsList(d), Ordered(d), NEW rec, rec.up \in 0..Len(d)
    PROVE  /\ IsList(Append(d, rec)) /\ Ordered(Append(d, rec)) /\ Len(Append(d, rec)) = Len(d) + 1
           /\ Append(d, rec)[Len(d) + 1] = rec /\ \A i \in 1..Len(d) : Append(d, rec)[i] = d[i]
           /\ Len(d) \in Nat
  <1>1. PICK e : e = Append(d, rec)
    OBVIOUS
  <1>2. /\ IsList(e) /\ Len(e) = Len(d) + 1 /\ Len(d) \in Nat
        /\ e[Len(d) + 1] = rec /\ \A i \in 1..Len(d) : e[i] = d[i]
    BY <1>1, ListAppend, ListLen
  <1>3. \A i \in 1..Len(e) : e[i].up \in 0..i - 1
    <2> SUFFICES ASSUME NEW i \in 1..Len(e)  PROVE e[i].up \in 0..i - 1
      OBVIOUS
    <2>1. CASE i = Len(d) + 1
      BY <1>2, <2>1
    <2>2. CASE i # Len(d) + 1
      <3>1. i \in 1..Len(d)
        BY <1>2, <2>2
      <3> QED BY <1>2, <3>1 DEF Ordered
    <2> QED BY <2>1, <2>2
  <1> QED BY <1>1, <1>2, <1>3 DEF Ordered

\* The error return, wherever it is reached from.
LEMMA FailSound ==
    ASSUME NEW m, Shaped(m),
           m.sax = "off" => m.first \in {0, m.top + 1} /\ m.freed \subseteq m.top + 1..Len(m.doc)
    PROVE  Sound(Fail(m)) /\ Fail(m).st = "error"
  <1>1. PICK u : u = Fail(m)
    OBVIOUS
  <1>2. /\ IsLoad(u) /\ u.doc = m.doc /\ u.top = m.top /\ u.sax = m.sax
        /\ u.parent = m.parent /\ u.first = m.first
        /\ u.st = "error" /\ u.freed = m.freed \cup Under(m.doc, m.first)
    BY <1>1, FailFields DEF Shaped
  <1>3. IsList(m.doc) /\ Ordered(m.doc) /\ Len(m.doc) \in Nat /\ m.first \in 0..Len(m.doc) /\ m.top \in 0..2
    BY ListLen DEF Shaped
  <1>4. \A i \in Under(m.doc, m.first) : m.first # 0 /\ m.first <= i /\ i <= Len(m.doc)
    BY <1>3, UnderAbove
  <1>5. Under(m.doc, m.first) \subseteq 1..Len(m.doc)
    BY <1>3, UnderFact
  <1>6. Shaped(u)
    BY <1>2 DEF Shaped
  <1>7. Counted(u)
    <2> SUFFICES ASSUME m.sax = "off"
                 PROVE  /\ m.first \in {0, m.top + 1}
                        /\ u.freed \subseteq m.top + 1..Len(m.doc)
      BY <1>2 DEF Counted
    <2>1. Under(m.doc, m.first) \subseteq m.top + 1..Len(m.doc)
      BY <1>3, <1>4, <1>5
    <2> QED BY <1>2, <2>1
  <1>8. Growing(u) /\ Ended(u)
    BY <1>2 DEF Growing, Ended
  <1> QED BY <1>1, <1>2, <1>6, <1>7, <1>8 DEF Sound

\* The error return while reading.
LEMMA FailGoes ==
    ASSUME NEW m, Going(m)
    PROVE  Goes(m, Fail(m))
  <1>1. m.sax = "off" => m.first \in {0, m.top + 1} /\ m.freed = {}
    BY DEF Going, Sound, Counted
  <1>2. Sound(Fail(m)) /\ Fail(m).st = "error"
    BY <1>1, FailSound DEF Going, Sound
  <1> QED BY <1>2 DEF Goes

\* A complete node.
LEMMA LeafGoes ==
    ASSUME NEW m, Going(m), NEW rec, rec.up = m.parent
    PROVE  Going(Leaf(m, rec)) /\ Goes(m, Leaf(m, rec)) /\ Leaf(m, rec).buf = m.buf
  <1>1. PICK u : u = Leaf(m, rec)
    OBVIOUS
  <1>2. IsList(m.doc) /\ Ordered(m.doc) /\ Len(m.doc) \in Nat /\ m.first \in 0..Len(m.doc)
        /\ m.top \in 0..2 /\ m.top <= Len(m.doc) /\ m.parent \in 0..Len(m.doc) /\ m.st = "reading"
    BY ListLen DEF Going, Sound, Shaped
  <1>3. /\ IsLoad(u) /\ u.doc = Append(m.doc, rec) /\ u.top = m.top /\ u.sax = m.sax
        /\ u.parent = m.parent /\ u.st = m.st /\ u.buf = m.buf
        /\ u.freed = IF m.sax = "drop" THEN m.freed \cup {Len(m.doc) + 1} ELSE m.freed
        /\ u.first = IF m.first = 0 /\ m.sax # "drop" THEN Len(m.doc) + 1 ELSE m.first
    BY <1>1, LeafFields DEF Going, Sound, Shaped
  <1>4. /\ IsList(u.doc) /\ Ordered(u.doc) /\ Len(u.doc) = Len(m.doc) + 1
        /\ u.doc[Len(m.doc) + 1] = rec /\ \A i \in 1..Len(m.doc) : u.doc[i] = m.doc[i]
    BY <1>2, <1>3, OrderedAppend
  <1>5. Shaped(u)
    BY <1>2, <1>3, <1>4 DEF Shaped
  <1>6. Growing(u)
    <2>1. /\ m.freed \subseteq 1..Len(m.doc) /\ m.parent \notin m.freed
          /\ \A i \in 1..Len(m.doc) : m.doc[i].up \in m.freed => i \in m.freed
      BY DEF Going, Sound, Growing
    <2>2. u.freed \subseteq 1..Len(u.doc) /\ u.parent \notin u.freed
      BY <1>2, <1>3, <1>4, <2>1
    <2>3. ASSUME NEW i \in 1..Len(u.doc), u.doc[i].up \in u.freed  PROVE i \in u.freed
      <3>1. CASE i = Len(m.doc) + 1
        <4>1. u.doc[i].up = u.parent
          BY <1>3, <1>4, <3>1
        <4> QED BY <2>2, <2>3, <4>1
      <3>2. CASE i # Len(m.doc) + 1
        <4>1. i \in 1..Len(m.doc) /\ u.doc[i] = m.doc[i] /\ m.doc[i].up \in 0..i - 1
          <5>1. i \in 1..Len(m.doc)
            BY <1>2, <1>4, <3>2
          <5> QED BY <1>2, <1>4, <5>1 DEF Ordered
        <4>2. m.doc[i].up \in m.freed
          BY <1>2, <1>3, <2>3, <4>1
        <4> QED BY <1>3, <2>1, <4>1, <4>2
      <3> QED BY <3>1, <3>2
    <2> QED BY <2>2, <2>3 DEF Growing
  <1>7. Counted(u)
    <2> SUFFICES ASSUME m.sax = "off"
                 PROVE  /\ u.first \in {0, m.top + 1} /\ u.first # 0 /\ u.freed = {}
      BY <1>2, <1>3 DEF Counted
    <2>1. m.first \in {0, m.top + 1} /\ (m.first = 0 => Len(m.doc) = m.top) /\ m.freed = {}
      BY <1>2 DEF Going, Sound, Counted
    <2> QED BY <1>2, <1>3, <2>1
  <1>8. Ended(u)
    BY <1>2, <1>3 DEF Ended
  <1>9. Adds(m, u)
    BY <1>2, <1>3, <1>4 DEF Adds
  <1> QED BY <1>1, <1>2, <1>3, <1>5, <1>6, <1>7, <1>8, <1>9 DEF Going, Goes, Sound

\* Other variables than those of the document.
LEMMA SameGoes ==
    ASSUME NEW m, Going(m), NEW u, IsLoad(u), u.doc = m.doc, u.top = m.top, u.sax = m.sax,
           u.parent = m.parent, u.first = m.first, u.freed = m.freed, u.st \in {"reading", "stop"}
    PROVE  Goes(m, u)
  <1>1. Shaped(u)
    BY DEF Going, Sound, Shaped
  <1>2. Growing(u)
    BY DEF Going, Sound, Growing
  <1>3. Counted(u)
    BY DEF Going, Sound, Counted
  <1>4. Ended(u)
    BY DEF Ended
  <1>5. Len(m.doc) \in Nat
    BY ListLen DEF Going, Sound, Shaped
  <1>6. Adds(m, u)
    BY <1>5 DEF Adds
  <1> QED BY <1>1, <1>2, <1>3, <1>4, <1>6 DEF Goes, Sound

\* Two parts one after the other.
LEMMA GoesOn ==
    ASSUME NEW m, Going(m), NEW u, Goes(m, u), u.st # "error", NEW v, Goes(u, v)
    PROVE  Goes(m, v)
  <1>1. Len(m.doc) \in Nat /\ Len(u.doc) \in Nat
    BY ListLen DEF Going, Goes, Sound, Shaped
  <1>2. CASE v.st = "error"
    BY <1>2 DEF Goes
  <1>3. CASE v.st # "error"
    <2>1. Adds(m, u) /\ Adds(u, v) /\ Len(v.doc) \in Nat
      BY <1>3, ListLen DEF Goes, Sound, Shaped
    <2>2. v.top = m.top /\ v.sax = m.sax /\ v.parent = m.parent /\ Len(m.doc) <= Len(v.doc)
      BY <1>1, <2>1 DEF Adds
    <2>3. \A i \in 1..Len(m.doc) : v.doc[i] = m.doc[i]
      <3>1. \A i \in 1..Len(m.doc) : i \in 1..Len(u.doc)
        BY <1>1, <2>1 DEF Adds
      <3> QED BY <2>1, <3>1 DEF Adds
    <2>4. \A i \in Len(m.doc) + 1..Len(v.doc) : v.doc[i].up = m.parent
      <3> SUFFICES ASSUME NEW i \in Len(m.doc) + 1..Len(v.doc)  PROVE v.doc[i].up = m.parent
        OBVIOUS
      <3>1. CASE i <= Len(u.doc)
        <4>1. i \in 1..Len(u.doc) /\ i \in Len(m.doc) + 1..Len(u.doc)
          BY <1>1, <3>1
        <4> QED BY <2>1, <4>1 DEF Adds
      <3>2. CASE ~(i <= Len(u.doc))
        <4>1. i \in Len(u.doc) + 1..Len(v.doc)
          BY <1>1, <2>1, <3>2
        <4> QED BY <2>1, <4>1 DEF Adds
      <3> QED BY <3>1, <3>2
    <2> QED BY <1>3, <2>2, <2>3, <2>4 DEF Goes, Adds
  <1> QED BY <1>2, <1>3

\* What follows is about one of the parts only.
LEMMA GoesFields ==
    ASSUME NEW m, Going(m)
    PROVE  IsLoad(m) /\ Goes(m, m) /\ \A u : Goes(m, u) /\ u.st = "reading" => Going(u)
  <1>1. IsLoad(m)
    BY DEF Going, Sound, Shaped
  <1>2. Goes(m, m)
    BY <1>1, SameGoes DEF Going
  <1>3. \A u : Goes(m, u) /\ u.st = "reading" => Going(u)
    BY DEF Goes, Going
  <1> QED BY <1>1, <1>2, <1>3

\* The node of a number that does not parse is made, and the loop left.
LEMMA BadValueGoes ==
    ASSUME NEW m, Going(m), NEW rec, rec.up = m.parent
    PROVE  Goes(m, [m EXCEPT !.doc = Append(@, rec), !.st = "stop"])
  <1>1. PICK u : u = [m EXCEPT !.doc = Append(@, rec), !.st = "stop"]
    OBVIOUS
  <1>2. IsList(m.doc) /\ Ordered(m.doc) /\ Len(m.doc) \in Nat /\ m.first \in 0..Len(m.doc)
        /\ m.top \in 0..2 /\ m.top <= Len(m.doc) /\ m.parent \in 0..Len(m.doc) /\ m.st = "reading"
    BY ListLen DEF Going, Sound, Shaped
  <1>3. /\ IsLoad(u) /\ u.doc = Append(m.doc, rec) /\ u.top = m.top /\ u.sax = m.sax
        /\ u.parent = m.parent /\ u.st = "stop" /\ u.freed = m.freed /\ u.first = m.first
    <2>1. IsLoad(m)
      BY GoesFields
    <2> QED BY <1>1, <2>1 DEF IsLoad
  <1>4. /\ IsList(u.doc) /\ Ordered(u.doc) /\ Len(u.doc) = Len(m.doc) + 1
        /\ u.doc[Len(m.doc) + 1] = rec /\ \A i \in 1..Len(m.doc) : u.doc[i] = m.doc[i]
    BY <1>2, <1>3, OrderedAppend
  <1>5. Shaped(u)
    BY <1>2, <1>3, <1>4 DEF Shaped
  <1>6. Growing(u) /\ Ended(u)
    BY <1>3 DEF Growing, Ended
  <1>7. Counted(u)
    BY <1>2, <1>3 DEF Going, Sound, Counted
  <1>8. Adds(m, u)
    BY <1>2, <1>3, <1>4 DEF Adds
  <1> QED BY <1>1, <1>3, <1>5, <1>6, <1>7, <1>8 DEF Goes, Sound

\* The value in the buffer becomes a node, or its type makes no node of it.
LEMMA ValueGoes ==
    ASSUME NEW m, Going(m), NEW space
    PROVE  Goes(m, ValueNode(m, space))
  <1> DEFINE rec == Val(m.parent, m.type, m.buf, m.ws)
             k == IF m.type = "ignore" THEN m ELSE Leaf(m, rec)
             u == [k EXCEPT !.buf = <<>>, !.ws = space /\ m.type = "text"]
  <1>1. rec.up = m.parent
    BY DEF Val
  <1>2. Goes(m, Fail(m)) /\ Goes(m, m) /\ IsLoad(m)
    BY FailGoes, GoesFields
  <1>3. Goes(m, [m EXCEPT !.doc = Append(@, rec), !.st = "stop"])
    BY <1>1, BadValueGoes
  <1>4. Goes(m, u)
    <2>1. Going(k) /\ Goes(m, k)
      BY <1>1, <1>2, LeafGoes
    <2> HIDE DEF k
    <2>2. IsLoad(k)
      BY <2>1, GoesFields
    <2>3. /\ IsLoad(u) /\ u.doc = k.doc /\ u.top = k.top /\ u.sax = k.sax
          /\ u.parent = k.parent /\ u.first = k.first /\ u.freed = k.freed /\ u.st = k.st
      BY <2>2 DEF IsLoad
    <2> HIDE DEF u
    <2>4. k.st = "reading"
      BY <2>1 DEF Going
    <2>5. Goes(k, u)
      BY <2>1, <2>3, <2>4, SameGoes
    <2> QED BY <2>1, <2>4, <2>5, GoesOn
  <1>5. \/ ValueNode(m, space) = m \/ ValueNode(m, space) = Fail(m)
        \/ ValueNode(m, space) = [m EXCEPT !.doc = Append(@, rec), !.st = "stop"]
        \/ ValueNode(m, space) = u
    BY Zenon DEF ValueNode
  <1> HIDE DEF u
  <1> QED BY <1>2, <1>3, <1>4, <1>5

\* A whitespace character.
LEMMA SpaceGoes ==
    ASSUME NEW m, Going(m)
    PROVE  Goes(m, Space(m))
  <1> DEFINE a == [m EXCEPT !.buf = Append(@, " ")]  b == [m EXCEPT !.ws = (m.type = "text") \/ @]
  <1>1. IsLoad(m) /\ m.st = "reading"
    BY GoesFields DEF Going
  <1>2. /\ IsLoad(a) /\ a.doc = m.doc /\ a.top = m.top /\ a.sax = m.sax
        /\ a.parent = m.parent /\ a.first = m.first /\ a.freed = m.freed /\ a.st = m.st
    BY <1>1 DEF IsLoad
  <1>3. /\ IsLoad(b) /\ b.doc = m.doc /\ b.top = m.top /\ b.sax = m.sax
        /\ b.parent = m.parent /\ b.first = m.first /\ b.freed = m.freed /\ b.st = m.st
    BY <1>1 DEF IsLoad
  <1>4. Space(m) = a \/ Space(m) = b \/ Space(m) = ValueNode(m, TRUE)
    BY Zenon DEF Space
  <1> HIDE DEF a, b
  <1>5. Goes(m, a) /\ Goes(m, b)
    BY <1>1, <1>2, <1>3, SameGoes
  <1> QED BY <1>4, <1>5, ValueGoes

\* Another character goes to the buffer.
LEMMA CharGoes ==
    ASSUME NEW m, Going(m), NEW c
    PROVE  Goes(m, Char(m, c))
  <1> DEFINE a == Char(m, c)
  <1>1. IsLoad(m) /\ m.st = "reading"
    BY GoesFields DEF Going
  <1>2. /\ IsLoad(a) /\ a.doc = m.doc /\ a.top = m.top /\ a.sax = m.sax
        /\ a.parent = m.parent /\ a.first = m.first /\ a.freed = m.freed /\ a.st = m.st
    BY <1>1 DEF IsLoad, Char
  <1> QED BY <1>1, <1>2, SameGoes

\* What precedes a tag.  At the start of the input nothing does.
LEMMA BeforeGoes ==
    ASSUME NEW m, Going(m)
    PROVE  Goes(m, BeforeTag(m)) /\ (m.buf = <<>> /\ ~m.ws => BeforeTag(m) = m)
  <1> DEFINE k == ValueNode(m, FALSE)
             n == Leaf(k, Val(k.parent, "text", <<>>, TRUE))
             u == [n EXCEPT !.ws = FALSE]
  <1>1. Goes(m, k) /\ (m.buf = <<>> => k = m)
    BY ValueGoes DEF ValueNode
  <1>2. BeforeTag(m) = IF k.st = "reading" /\ k.ws /\ k.type = "text" THEN u ELSE k
    BY DEF BeforeTag
  <1> HIDE DEF k
  <1>3. ASSUME k.st = "reading"  PROVE Goes(m, u)
    <2>1. Going(k)
      BY <1>1, <1>3 DEF Going, Goes
    <2>2. Going(n) /\ Goes(k, n)
      BY <2>1, LeafGoes DEF Val
    <2> HIDE DEF n
    <2>3. IsLoad(n) /\ n.st = "reading"
      BY <2>2, GoesFields DEF Going
    <2>4. /\ IsLoad(u) /\ u.doc = n.doc /\ u.top = n.top /\ u.sax = n.sax
          /\ u.parent = n.parent /\ u.first = n.first /\ u.freed = n.freed /\ u.st = n.st
      BY <2>3 DEF IsLoad
    <2> HIDE DEF u
    <2>5. Goes(n, u)
      BY <2>2, <2>3, <2>4, SameGoes
    <2>6. Goes(m, n)
      BY <1>1, <1>3, <2>2, GoesOn
    <2> QED BY <2>3, <2>5, <2>6, GoesOn
  <1> QED BY <1>1, <1>2, <1>3

\* u is m with one more node, which is the parent now.
Opens(m, u) ==
    /\ Going(u) /\ u.top = m.top /\ u.sax = m.sax
    /\ Len(u.doc) = Len(m.doc) + 1 /\ u.parent = Len(m.doc) + 1
    /\ \A i \in 1..Len(m.doc) : u.doc[i] = m.doc[i]
    /\ u.doc[Len(m.doc) + 1].up = m.parent

\* u is m with the parent closed.
Closes(m, u) ==
    /\ Going(u) /\ u.top = m.top /\ u.sax = m.sax /\ u.doc = m.doc
    /\ m.parent # 0 /\ u.parent = m.doc[m.parent].up

\* One more node, which becomes the parent or does not.
LEMMA AppendSound ==
    ASSUME NEW m, Going(m), NEW rec, rec.up = m.parent, NEW u, IsLoad(u),
           u.doc = Append(m.doc, rec), u.top = m.top, u.sax = m.sax,
           u.st \in {"reading", "stop"}, u.parent \in {m.parent, Len(m.doc) + 1},
           \/ u.freed = m.freed
           \/ m.sax = "drop" /\ u.freed = m.freed \cup {Len(m.doc) + 1} /\ u.parent = m.parent,
           u.first \in {0, m.first, Len(m.doc) + 1},
           m.sax = "off" => u.first = IF m.first = 0 THEN Len(m.doc) + 1 ELSE m.first
    PROVE  /\ Sound(u) /\ Len(u.doc) = Len(m.doc) + 1 /\ u.doc[Len(m.doc) + 1] = rec
           /\ \A i \in 1..Len(m.doc) : u.doc[i] = m.doc[i]
           /\ u.parent = m.parent => Goes(m, u)
           /\ u.parent # m.parent /\ u.st = "reading" => Opens(m, u)
  <1>1. IsList(m.doc) /\ Ordered(m.doc) /\ Len(m.doc) \in Nat /\ m.first \in 0..Len(m.doc)
        /\ m.top \in 0..2 /\ m.top <= Len(m.doc) /\ m.parent \in 0..Len(m.doc) /\ m.st = "reading"
    BY ListLen DEF Going, Sound, Shaped
  <1>2. /\ IsList(u.doc) /\ Ordered(u.doc) /\ Len(u.doc) = Len(m.doc) + 1
        /\ u.doc[Len(m.doc) + 1] = rec /\ \A i \in 1..Len(m.doc) : u.doc[i] = m.doc[i]
    BY <1>1, OrderedAppend
  <1>3. Shaped(u)
    BY <1>1, <1>2 DEF Shaped
  <1>4. Growing(u)
    <2>1. /\ m.freed \subseteq 1..Len(m.doc) /\ m.parent \notin m.freed
          /\ \A i \in 1..Len(m.doc) : m.doc[i].up \in m.freed => i \in m.freed
      BY DEF Going, Sound, Growing
    <2>2. u.freed \subseteq 1..Len(u.doc) /\ u.parent \notin u.freed /\ m.parent \notin u.freed
      BY <1>1, <1>2, <2>1
    <2>3. ASSUME NEW i \in 1..Len(u.doc), u.doc[i].up \in u.freed  PROVE i \in u.freed
      <3>1. CASE i = Len(m.doc) + 1
        BY <1>2, <2>2, <2>3, <3>1
      <3>2. CASE i # Len(m.doc) + 1
        <4>1. i \in 1..Len(m.doc) /\ u.doc[i] = m.doc[i] /\ m.doc[i].up \in 0..i - 1
          BY <1>1, <1>2, <3>2 DEF Ordered
        <4>2. m.doc[i].up \in m.freed
          BY <1>1, <2>3, <4>1
        <4> QED BY <2>1, <4>1, <4>2
      <3> QED BY <3>1, <3>2
    <2> QED BY <2>2, <2>3 DEF Growing
  <1>5. Counted(u)
    <2> SUFFICES ASSUME m.sax = "off"
                 PROVE  u.first \in {0, m.top + 1} /\ u.first # 0 /\ u.freed = {}
      BY DEF Counted
    <2>1. m.first \in {0, m.top + 1} /\ (m.first = 0 => Len(m.doc) = m.top) /\ m.freed = {}
      BY <1>1 DEF Going, Sound, Counted
    <2> QED BY <1>1, <2>1
  <1>6. Ended(u)
    BY DEF Ended
  <1>7. Sound(u)
    BY <1>3, <1>4, <1>5, <1>6 DEF Sound
  <1>8. u.parent = m.parent => Goes(m, u)
    BY <1>1, <1>2, <1>7 DEF Goes, Adds
  <1>9. u.parent # m.parent /\ u.st = "reading" => Opens(m, u)
    BY <1>2, <1>7 DEF Going, Opens
  <1> QED BY <1>2, <1>7, <1>8, <1>9

\* A processing instruction or a declaration.
LEMMA InstructionGoes ==
    ASSUME NEW m, Going(m), NEW name
    PROVE  LET u == Instruction(m, name) IN
           /\ Declaration(m, name) = u
           /\ IF m.parent = 0 /\ m.sax # "drop" THEN Opens(m, u) ELSE Goes(m, u)
  <1> DEFINE rec == Elem(m.parent, name, <<>>)  k == Leaf(m, rec)  u == Enter(k, Len(k.doc))
  <1>1. rec.up = m.parent
    BY DEF Elem
  <1>2. IsLoad(m) /\ m.st = "reading" /\ Len(m.doc) \in Nat /\ IsList(m.doc)
    BY GoesFields, ListLen DEF Going, Sound, Shaped
  <1>3. Goes(m, k)
    BY <1>1, LeafGoes
  <1>4. /\ IsLoad(k) /\ k.doc = Append(m.doc, rec) /\ k.top = m.top /\ k.sax = m.sax
        /\ k.parent = m.parent /\ k.st = m.st
        /\ k.freed = IF m.sax = "drop" THEN m.freed \cup {Len(m.doc) + 1} ELSE m.freed
        /\ k.first = IF m.first = 0 /\ m.sax # "drop" THEN Len(m.doc) + 1 ELSE m.first
    BY <1>2, LeafFields
  <1>5. Len(k.doc) = Len(m.doc) + 1
    BY <1>2, <1>4, ListAppend
  <1>6. /\ Instruction(m, name) = IF m.parent = 0 /\ m.sax # "drop" THEN u ELSE k
        /\ Declaration(m, name) = Instruction(m, name)
    BY DEF Instruction, Declaration
  <1> HIDE DEF k, rec
  <1>7. /\ IsLoad(u) /\ u.doc = k.doc /\ u.top = k.top /\ u.sax = k.sax
        /\ u.parent = Len(k.doc) /\ u.first = k.first /\ u.st = k.st /\ u.freed = k.freed
    BY <1>4, EnterFields
  <1> HIDE DEF u
  <1>8. ASSUME m.parent = 0, m.sax # "drop"  PROVE Opens(m, u)
    <2>1. u.parent # m.parent
      BY <1>2, <1>5, <1>7, <1>8
    <2> QED BY <1>1, <1>2, <1>4, <1>5, <1>7, <1>8, <2>1, AppendSound
  <1> QED BY <1>3, <1>6, <1>8

\* A close tag.
LEMMA CloseGoes ==
    ASSUME NEW m, Going(m), NEW name
    PROVE  \/ Goes(m, Close(m, name)) /\ Close(m, name).st = "error"
           \/ Closes(m, Close(m, name))
  <1> DEFINE k == [m EXCEPT !.freed = IF m.sax = "drop" THEN @ \cup Under(m.doc, m.parent) ELSE @]
             n == m.doc[m.parent].up
             u == Enter(k, n)
  <1>1. Goes(m, Fail(m)) /\ Fail(m).st = "error"
    BY FailGoes, FailFields, GoesFields
  <1>2. Close(m, name) = Fail(m) \/ (m.parent # 0 /\ Close(m, name) = u)
    BY Zenon DEF Close
  <1>3. IsLoad(m) /\ m.st = "reading" /\ Len(m.doc) \in Nat /\ IsList(m.doc) /\ Ordered(m.doc)
        /\ m.parent \in 0..Len(m.doc)
    BY GoesFields, ListLen DEF Going, Sound, Shaped
  <1>4. /\ IsLoad(k) /\ k.doc = m.doc /\ k.top = m.top /\ k.sax = m.sax /\ k.first = m.first
        /\ k.st = m.st /\ k.freed = IF m.sax = "drop" THEN m.freed \cup Under(m.doc, m.parent) ELSE m.freed
    BY <1>3 DEF IsLoad
  <1> HIDE DEF k
  <1>5. /\ IsLoad(u) /\ u.doc = k.doc /\ u.top = k.top /\ u.sax = k.sax
        /\ u.parent = n /\ u.first = k.first /\ u.st = k.st /\ u.freed = k.freed
    BY <1>4, EnterFields
  <1> HIDE DEF u
  <1>6. ASSUME m.parent # 0  PROVE Closes(m, u)
    <2>1. m.parent \in 1..Len(m.doc) /\ n \in 0..m.parent - 1
      BY <1>3, <1>6 DEF Ordered
    <2>2. PICK U : /\ U = Under(m.doc, m.parent) /\ U \subseteq 1..Len(m.doc)
                   /\ \A i \in 1..Len(m.doc) : m.doc[i].up \in U => i \in U
                   /\ \A i \in U : m.parent <= i
      BY <1>3, UnderFact, UnderAbove
    <2>3. /\ m.freed \subseteq 1..Len(m.doc) /\ m.parent \notin m.freed
          /\ \A i \in 1..Len(m.doc) : m.doc[i].up \in m.freed => i \in m.freed
      BY DEF Going, Sound, Growing
    <2>4. n \notin m.freed /\ n \notin U
      BY <1>3, <2>1, <2>2, <2>3
    <2> HIDE DEF n
    <2>5. Growing(u)
      BY <1>4, <1>5, <2>2, <2>3, <2>4 DEF Growing
    <2>6. Shaped(u)
      BY <1>3, <1>4, <1>5, <2>1 DEF Going, Sound, Shaped
    <2>7. Counted(u)
      BY <1>4, <1>5 DEF Going, Sound, Counted
    <2>8. Ended(u)
      BY <1>3, <1>4, <1>5 DEF Ended
    <2> QED BY <1>3, <1>4, <1>5, <1>6, <2>5, <2>6, <2>7, <2>8 DEF Closes, Going, Sound, n
  <1> QED BY <1>1, <1>2, <1>6

\* An open tag with an error in it: the node has been made, and freed if D has it.
LEMMA BadTagGoes ==
    ASSUME NEW m, Going(m), NEW rec, rec.up = m.parent, NEW D \in SUBSET {Len(m.doc) + 1},
           NEW u, IsLoad(u), u.doc = Append(m.doc, rec), u.top = m.top, u.sax = m.sax,
           u.st = "reading", u.parent = m.parent, u.first = m.first, u.freed = m.freed \cup D
    PROVE  Goes(m, Fail(u)) /\ Fail(u).st = "error"
  <1>1. IsList(m.doc) /\ Ordered(m.doc) /\ Len(m.doc) \in Nat /\ m.first \in 0..Len(m.doc)
        /\ m.top \in 0..2 /\ m.top <= Len(m.doc) /\ m.parent \in 0..Len(m.doc)
    BY ListLen DEF Going, Sound, Shaped
  <1>2. IsList(u.doc) /\ Ordered(u.doc) /\ Len(u.doc) = Len(m.doc) + 1
    BY <1>1, OrderedAppend
  <1>3. Shaped(u)
    BY <1>1, <1>2 DEF Shaped
  <1>4. u.sax = "off" => u.first \in {0, u.top + 1} /\ u.freed \subseteq u.top + 1..Len(u.doc)
    <2>1. m.sax = "off" => m.first \in {0, m.top + 1} /\ m.freed = {}
      BY DEF Going, Sound, Counted
    <2>2. D \subseteq m.top + 1..Len(m.doc) + 1
      BY <1>1
    <2> QED BY <1>2, <2>1, <2>2
  <1> QED BY <1>3, <1>4, FailSound DEF Goes

\* An open tag.
LEMMA OpenGoes ==
    ASSUME NEW m, Going(m), NEW name, NEW attrs, NEW end
    PROVE  LET u == Open(m, name, attrs, end) IN
           IF end = ">" THEN (Goes(m, u) /\ u.st = "error") \/ Opens(m, u) ELSE Goes(m, u)
  <1> DEFINE n == Len(m.doc) + 1
             rec == Elem(m.parent, name, attrs)
             a == [m EXCEPT !.doc = Append(@, rec)]
             k == [a EXCEPT !.first = IF @ = 0 THEN n ELSE @]
             b == [a EXCEPT !.freed = @ \cup {n}]
             s == [k EXCEPT !.st = "stop"]
             e == [k EXCEPT !.freed = @ \cup {n}, !.first = IF @ = n THEN 0 ELSE @]
             u == Open(m, name, attrs, end)
  <1>1. rec.up = m.parent
    BY DEF Elem
  <1>2. IsLoad(m) /\ m.st = "reading" /\ Len(m.doc) \in Nat /\ m.parent \in 0..Len(m.doc)
        /\ m.first \in 0..Len(m.doc)
    BY GoesFields, ListLen DEF Going, Sound, Shaped
  <1>3. \/ u = Fail(b) \/ u = Fail(a)
        \/ end # ">" /\ u = s
        \/ end = ">" /\ u = Enter(k, n)
        \/ end # ">" /\ m.sax # "drop" /\ u = k
        \/ end # ">" /\ m.sax = "drop" /\ u = e
    BY DEF Open
  <1> HIDE DEF rec, u
  <1>4. /\ IsLoad(a) /\ a.doc = Append(m.doc, rec) /\ a.top = m.top /\ a.sax = m.sax
        /\ a.parent = m.parent /\ a.st = "reading" /\ a.freed = m.freed /\ a.first = m.first
    BY <1>2 DEF IsLoad
  <1> HIDE DEF a
  <1>5. /\ IsLoad(k) /\ k.doc = a.doc /\ k.top = m.top /\ k.sax = m.sax
        /\ k.parent = m.parent /\ k.st = "reading" /\ k.freed = m.freed
        /\ k.first = IF m.first = 0 THEN n ELSE m.first
    BY <1>4 DEF IsLoad
  <1>6. /\ IsLoad(b) /\ b.doc = a.doc /\ b.top = m.top /\ b.sax = m.sax
        /\ b.parent = m.parent /\ b.st = "reading" /\ b.freed = m.freed \cup {n} /\ b.first = m.first
    BY <1>4 DEF IsLoad
  <1> HIDE DEF k, b
  <1>7. /\ IsLoad(s) /\ s.doc = a.doc /\ s.top = m.top /\ s.sax = m.sax
        /\ s.parent = m.parent /\ s.st = "stop" /\ s.freed = m.freed /\ s.first = k.first
    BY <1>5 DEF IsLoad
  <1>8. /\ IsLoad(e) /\ e.doc = a.doc /\ e.top = m.top /\ e.sax = m.sax
        /\ e.parent = m.parent /\ e.st = "reading" /\ e.freed = m.freed \cup {n}
        /\ e.first = IF k.first = n THEN 0 ELSE k.first
    BY <1>5 DEF IsLoad
  <1> HIDE DEF s, e
  <1>9. CASE u = Fail(b)
    <2>1. Goes(m, Fail(b)) /\ Fail(b).st = "error"
      BY <1>1, <1>4, <1>6, BadTagGoes
    <2> QED BY <1>9, <2>1 DEF u
  <1>10. CASE u = Fail(a)
    <2>1. {} \in SUBSET {Len(m.doc) + 1} /\ a.freed = m.freed \cup {}
      BY <1>4
    <2>2. Goes(m, Fail(a)) /\ Fail(a).st = "error"
      BY <1>1, <1>4, <2>1, BadTagGoes
    <2> QED BY <1>10, <2>2 DEF u
  <1>11. CASE end # ">" /\ u = s
    <2>1. Goes(m, s)
      BY <1>1, <1>4, <1>5, <1>7, AppendSound
    <2> QED BY <1>11, <2>1 DEF u
  <1>12. CASE end = ">" /\ u = Enter(k, n)
    <2>1. PICK v : v = Enter(k, n)
      OBVIOUS
    <2>2. /\ IsLoad(v) /\ v.doc = a.doc /\ v.top = m.top /\ v.sax = m.sax
          /\ v.parent = n /\ v.first = k.first /\ v.st = "reading" /\ v.freed = m.freed
      BY <1>5, <2>1, EnterFields
    <2>3. v.parent # m.parent
      BY <1>2, <2>2
    <2>4. Opens(m, v)
      BY <1>1, <1>4, <1>5, <2>2, <2>3, AppendSound
    <2> QED BY <1>12, <2>1, <2>4 DEF u
  <1>13. CASE end # ">" /\ m.sax # "drop" /\ u = k
    <2>1. Goes(m, k)
      BY <1>1, <1>4, <1>5, AppendSound
    <2> QED BY <1>13, <2>1 DEF u
  <1>14. CASE end # ">" /\ m.sax = "drop" /\ u = e
    <2>1. e.first \in {0, m.first, n}
      BY <1>5, <1>8
    <2>2. Goes(m, e)
      BY <1>1, <1>4, <1>8, <1>14, <2>1, AppendSound
    <2> QED BY <1>14, <2>2 DEF u
  <1> QED BY <1>3, <1>9, <1>10, <1>11, <1>12, <1>13, <1>14

\* The tokens that are tags.
TagKinds == {"comment", "cdata", "pi", "decl", "close", "open", "cut"}

\* What a tag makes of k: a node that is the parent now, the parent closed, an
\* error, or at most children of the parent.
Tagged(k, tok, u) ==
    IF tok.t = "open" /\ tok.end = ">" THEN (Goes(k, u) /\ u.st = "error") \/ Opens(k, u)
    ELSE IF tok.t = "close" THEN (Goes(k, u) /\ u.st = "error") \/ Closes(k, u)
    ELSE IF tok.t \in {"pi", "decl"} /\ k.parent = 0 /\ k.sax # "drop" THEN Opens(k, u)
    ELSE Goes(k, u)

\* Every kind of tag.
LEMMA TagGoes ==
    ASSUME NEW k, Going(k), NEW tok, tok.t \in TagKinds
    PROVE  Tagged(k, tok, Tag(k, tok))
  <1>0. k.st = "reading"
    BY DEF Going
  <1>1. CASE tok.t = "comment"
    <2>1. Tag(k, tok) = Comment(k, tok.name)
      BY <1>0, <1>1 DEF Tag
    <2>2. Goes(k, Comment(k, tok.name))
      BY LeafGoes DEF Comment, Elem
    <2> QED BY <1>1, <2>1, <2>2 DEF Tagged
  <1>2. CASE tok.t = "cdata"
    <2>1. Tag(k, tok) = CData(k, tok.name)
      BY <1>0, <1>2 DEF Tag
    <2>2. Goes(k, CData(k, tok.name))
      BY LeafGoes DEF CData, Elem
    <2> QED BY <1>2, <2>1, <2>2 DEF Tagged
  <1>3. CASE tok.t = "pi"
    <2>1. Tag(k, tok) = Instruction(k, tok.name)
      BY <1>0, <1>3 DEF Tag
    <2> QED BY <1>3, <2>1, InstructionGoes DEF Tagged
  <1>4. CASE tok.t = "decl"
    <2>1. Tag(k, tok) = Declaration(k, tok.name)
      BY <1>0, <1>4 DEF Tag
    <2> QED BY <1>4, <2>1, InstructionGoes DEF Tagged
  <1>5. CASE tok.t = "close"
    <2>1. Tag(k, tok) = Close(k, tok.name)
      BY <1>0, <1>5 DEF Tag
    <2> QED BY <1>5, <2>1, CloseGoes DEF Tagged
  <1>6. CASE tok.t = "open"
    <2>1. Tag(k, tok) = Open(k, tok.name, tok.attrs, tok.end)
      BY <1>0, <1>6 DEF Tag
    <2> QED BY <1>6, <2>1, OpenGoes DEF Tagged
  <1>7. CASE tok.t = "cut"
    <2>1. Tag(k, tok) = Fail(k)
      BY <1>0, <1>7 DEF Tag
    <2> QED BY <1>7, <2>1, FailGoes DEF Tagged
  <1> QED BY <1>1, <1>2, <1>3, <1>4, <1>5, <1>6, <1>7 DEF TagKinds

\* The buffer is emptied after a tag.
LEMMA TaggedEmpty ==
    ASSUME NEW k, Going(k), NEW tok, NEW u, Tagged(k, tok, u), u.st = "reading"
    PROVE  Tagged(k, tok, [u EXCEPT !.buf = <<>>]) /\ Going(u)
  <1>1. Going(u)
    BY DEF Tagged, Opens, Closes, Goes, Going
  <1>2. PICK v : v = [u EXCEPT !.buf = <<>>]
    OBVIOUS
  <1>3. /\ IsLoad(v) /\ v.doc = u.doc /\ v.top = u.top /\ v.sax = u.sax
        /\ v.parent = u.parent /\ v.first = u.first /\ v.st = "reading" /\ v.freed = u.freed
    <2>1. IsLoad(u)
      BY <1>1, GoesFields
    <2> QED BY <1>2, <2>1 DEF IsLoad
  <1>4. Goes(u, v)
    BY <1>1, <1>3, SameGoes
  <1>5. Going(v)
    BY <1>3, <1>4 DEF Goes, Going
  <1>6. Goes(k, u) => Goes(k, v)
    BY <1>4, GoesOn
  <1>7. (Opens(k, u) => Opens(k, v)) /\ (Closes(k, u) => Closes(k, v))
    BY <1>3, <1>5 DEF Opens, Closes
  <1> QED BY <1>1, <1>2, <1>6, <1>7 DEF Tagged

\* One token: text leaves the parent; before a tag the text read becomes nodes.
Stepped(m, tok, u) ==
    IF tok.t \in TagKinds
    THEN \E k : /\ Goes(m, k) /\ (m.buf = <<>> /\ ~m.ws => k = m)
                /\ \/ Going(k) /\ Tagged(k, tok, u)
                   \/ k.st # "reading" /\ u = k
    ELSE Goes(m, u)

\* Every kind of token.
LEMMA LoadGoes ==
    ASSUME NEW m, Going(m), NEW tok,
           tok.t \in {"sp", "chr", "badent", "badchr"} \cup TagKinds
    PROVE  Stepped(m, tok, mxml_load_data(m, tok))
  <1> DEFINE u == mxml_load_data(m, tok)
  <1>1. CASE tok.t = "sp"
    <2>1. u = Space(m)
      BY <1>1 DEF mxml_load_data
    <2> QED BY <1>1, <2>1, SpaceGoes DEF Stepped, TagKinds
  <1>2. CASE tok.t = "chr"
    <2>1. u = Char(m, tok.c)
      BY <1>2 DEF mxml_load_data
    <2> QED BY <1>2, <2>1, CharGoes DEF Stepped, TagKinds
  <1>3. CASE tok.t = "badent"
    <2>1. u = Fail(m)
      BY <1>3 DEF mxml_load_data
    <2> QED BY <1>3, <2>1, FailGoes DEF Stepped, TagKinds
  <1>4. CASE tok.t = "badchr"
    <2>1. PICK v : v = [m EXCEPT !.st = "stop"]
      OBVIOUS
    <2>2. u = v
      BY <1>4, <2>1 DEF mxml_load_data
    <2>3. /\ IsLoad(v) /\ v.doc = m.doc /\ v.top = m.top /\ v.sax = m.sax
          /\ v.parent = m.parent /\ v.first = m.first /\ v.st = "stop" /\ v.freed = m.freed
      <3>1. IsLoad(m)
        BY GoesFields
      <3> QED BY <2>1, <3>1 DEF IsLoad
    <2>4. Goes(m, v)
      BY <2>3, SameGoes
    <2> QED BY <1>4, <2>2, <2>4 DEF Stepped, TagKinds
  <1>5. CASE tok.t \in TagKinds
    <2> DEFINE k == BeforeTag(m)  w == Tag(k, tok)
    <2>1. u = IF w.st = "reading" THEN [w EXCEPT !.buf = <<>>] ELSE w
      BY <1>5 DEF mxml_load_data, TagKinds
    <2>2. Goes(m, k) /\ (m.buf = <<>> /\ ~m.ws => k = m)
      BY BeforeGoes
    <2> HIDE DEF k
    <2>3. CASE k.st = "reading"
      <3>1. Going(k)
        BY <2>2, <2>3 DEF Goes, Going
      <3>2. Tagged(k, tok, w)
        BY <1>5, <3>1, TagGoes
      <3> HIDE DEF w, u
      <3>3. Tagged(k, tok, u)
        BY <2>1, <3>1, <3>2, TaggedEmpty
      <3> QED BY <1>5, <2>2, <3>1, <3>3 DEF Stepped, u
    <2>4. CASE k.st # "reading"
      <3>1. w = k
        BY <1>5, <2>4 DEF Tag
      <3> HIDE DEF w, u
      <3>2. u = k
        BY <2>1, <2>4, <3>1
      <3> QED BY <1>5, <2>2, <2>4, <3>2 DEF Stepped, u
    <2> QED BY <2>3, <2>4
  <1> QED BY <1>1, <1>2, <1>3, <1>4, <1>5

\* Every token keeps the record sound.
LEMMA SteppedSound ==
    ASSUME NEW m, NEW tok, NEW u, Stepped(m, tok, u)
    PROVE  Sound(u) /\ u.st \in {"reading", "stop", "error"}
  BY DEF Stepped, Tagged, Opens, Closes, Goes, Going

-----------------------------------------------------------------------------
(***************************************************************************)
(* The path of open tags.                                                  *)
(***************************************************************************)

\* Nodes added elsewhere leave the path.
LEMMA PathAdds ==
    ASSUME NEW d, IsList(d), NEW e, IsList(e), Len(d) <= Len(e),
           \A i \in 1..Len(d) : e[i] = d[i], NEW p, NEW o, IsList(o), Path(d, p, o)
    PROVE  Path(e, p, o)
  <1>1. Len(d) \in Nat /\ Len(e) \in Nat /\ Len(o) \in Nat
    BY ListLen
  <1>2. CASE p = 0 /\ o = <<>> /\ Len(d) >= 1
    BY <1>1, <1>2 DEF Path
  <1>3. CASE ~(p = 0 /\ o = <<>> /\ Len(d) >= 1)
    <2>1. PICK f \in [1..Len(o) + 1 -> 1..Len(d)] :
              /\ f[Len(o) + 1] = p /\ d[f[1]].up = 0
              /\ \A i \in 1..Len(o) : d[f[i + 1]].up = f[i]
      BY <1>3 DEF Path
    <2>2. f \in [1..Len(o) + 1 -> 1..Len(e)] /\ \A i \in 1..Len(o) + 1 : f[i] \in 1..Len(d) /\ e[f[i]] = d[f[i]]
      BY <1>1
    <2>3. 1 \in 1..Len(o) + 1 /\ \A i \in 1..Len(o) : i + 1 \in 1..Len(o) + 1
      BY <1>1
    <2>4. e[f[1]].up = 0
      BY <2>1, <2>2, <2>3
    <2>5. \A i \in 1..Len(o) : e[f[i + 1]].up = f[i]
      BY <2>1, <2>2, <2>3
    <2> QED BY <2>1, <2>2, <2>4, <2>5 DEF Path
  <1> QED BY <1>2, <1>3

\* A node below the parent that becomes the parent makes the path longer.
LEMMA PathOpens ==
    ASSUME NEW d, IsList(d), NEW e, IsList(e), Ordered(e), Len(e) = Len(d) + 1,
           \A i \in 1..Len(d) : e[i] = d[i], NEW p, e[Len(d) + 1].up = p, Single(e),
           NEW o, IsList(o), Path(d, p, o)
    PROVE  p # 0 /\ \A x : Path(e, Len(d) + 1, Append(o, x))
  <1>1. Len(d) \in Nat /\ Len(e) \in Nat /\ Len(o) \in Nat
    BY ListLen
  <1>2. ~(p = 0 /\ Len(d) >= 1)
    <2> SUFFICES ASSUME p = 0, Len(d) >= 1  PROVE FALSE
      OBVIOUS
    <2>1. 1 \in 1..Len(e) /\ Len(d) + 1 \in 1..Len(e)
      BY <1>1
    <2>2. e[1].up = 0
      BY <1>1, <2>1 DEF Ordered
    <2>3. 1 = Len(d) + 1
      BY <2>1, <2>2 DEF Single
    <2> QED BY <1>1, <2>3
  <1>3. PICK f \in [1..Len(o) + 1 -> 1..Len(d)] :
            /\ f[Len(o) + 1] = p /\ d[f[1]].up = 0
            /\ \A i \in 1..Len(o) : d[f[i + 1]].up = f[i]
    BY <1>2 DEF Path
  <1>4. p # 0
    BY <1>1, <1>3
  <1>5. ASSUME NEW x  PROVE Path(e, Len(d) + 1, Append(o, x))
    <2>1. PICK L : L = Len(o) /\ L \in Nat
      BY <1>1
    <2>2. PICK n : n = Len(d) + 1 /\ n \in 1..Len(e) /\ n \notin 1..Len(d)
      BY <1>1
    <2>3. Len(Append(o, x)) = L + 1
      BY <2>1, ListAppend
    <2> DEFINE g == [i \in 1..L + 2 |-> IF i = L + 2 THEN n ELSE f[i]]
    <2>4. \A i \in 1..L + 1 : f[i] \in 1..Len(d) /\ f[i] \in 1..Len(e) /\ e[f[i]] = d[f[i]]
      BY <1>1, <1>3, <2>1
    <2>5. g[L + 2] = n /\ \A i \in 1..L + 1 : g[i] = f[i]
      BY <2>1
    <2>6. g \in [1..L + 2 -> 1..Len(e)]
      <3>1. \A i \in 1..L + 2 : g[i] \in 1..Len(e)
        <4>1. \A i \in 1..L + 2 : i = L + 2 \/ i \in 1..L + 1
          BY <2>1
        <4> HIDE DEF g
        <4> QED BY <2>2, <2>4, <2>5, <4>1
      <3>2. g = [i \in 1..L + 2 |-> g[i]]
        OBVIOUS
      <3> HIDE DEF g
      <3> QED BY <3>1, <3>2
    <2> HIDE DEF g
    <2>7. e[g[1]].up = 0
      <3>1. 1 \in 1..L + 1
        BY <2>1
      <3> QED BY <1>3, <2>4, <2>5, <3>1
    <2>8. \A i \in 1..L + 1 : e[g[i + 1]].up = g[i]
      <3> SUFFICES ASSUME NEW i \in 1..L + 1  PROVE e[g[i + 1]].up = g[i]
        OBVIOUS
      <3>1. CASE i = L + 1
        <4>1. g[i + 1] = n /\ g[i] = f[L + 1]
          BY <2>1, <2>5, <3>1
        <4> QED BY <1>3, <2>1, <2>2, <4>1
      <3>2. CASE i # L + 1
        <4>1. i \in 1..L /\ i + 1 \in 1..L + 1
          BY <2>1, <3>2
        <4>2. g[i + 1] = f[i + 1] /\ g[i] = f[i]
          BY <2>1, <2>5, <4>1
        <4>3. e[f[i + 1]] = d[f[i + 1]]
          BY <2>4, <4>1
        <4> QED BY <1>3, <2>1, <4>1, <4>2, <4>3
      <3> QED BY <3>1, <3>2
    <2>9. L + 1 + 1 = L + 2
      BY <2>1
    <2>10. PICK c : c = Append(o, x) /\ Len(c) = L + 1 /\ Len(c) + 1 = L + 2
      BY <2>3, <2>9
    <2>11. g \in [1..Len(c) + 1 -> 1..Len(e)] /\ g[Len(c) + 1] = Len(d) + 1
      BY <2>2, <2>5, <2>6, <2>10
    <2>12. \A i \in 1..Len(c) : e[g[i + 1]].up = g[i]
      BY <2>8, <2>10
    <2> QED BY <2>7, <2>10, <2>11, <2>12 DEF Path
  <1> QED BY <1>4, <1>5

\* A close tag takes the last tag from the path.
LEMMA PathCloses ==
    ASSUME NEW d, IsList(d), NEW p, p # 0, NEW o, IsList(o), Path(d, p, o)
    PROVE  Path(d, d[p].up, IF o # <<>> THEN Front(o) ELSE o) /\ IsList(Front(o))
  <1>1. Len(d) \in Nat /\ Len(o) \in Nat
    BY ListLen
  <1>2. PICK f \in [1..Len(o) + 1 -> 1..Len(d)] :
            /\ f[Len(o) + 1] = p /\ d[f[1]].up = 0
            /\ \A i \in 1..Len(o) : d[f[i + 1]].up = f[i]
    BY DEF Path
  <1>3. PICK S : o \in Seq(S)
    BY DEF IsList
  <1>4. Front(o) \in Seq(S) /\ (Len(o) # 0 => Len(Front(o)) = Len(o) - 1)
    <2>1. Front(o) = SubSeq(o, 1, Len(o) - 1)
      BY DEF Front
    <2>2. 1 \in Int /\ Len(o) - 1 \in Int /\ \A i \in 1..Len(o) - 1 : o[i] \in S
      BY <1>1, <1>3
    <2>3. /\ SubSeq(o, 1, Len(o) - 1) \in Seq(S)
          /\ Len(SubSeq(o, 1, Len(o) - 1)) = (IF 1 <= Len(o) - 1 THEN Len(o) - 1 - 1 + 1 ELSE 0)
      BY <2>2, SubSeqProperties
    <2>4. Len(o) # 0 => (IF 1 <= Len(o) - 1 THEN Len(o) - 1 - 1 + 1 ELSE 0) = Len(o) - 1
      <3>1. \A k \in Nat : k # 0 => (IF 1 <= k - 1 THEN k - 1 - 1 + 1 ELSE 0) = k - 1
        OBVIOUS
      <3> QED BY <1>1, <3>1, Zenon
    <2> QED BY <2>1, <2>3, <2>4
  <1>5. CASE o = <<>>
    <2>1. Len(o) = 0
      BY <1>5
    <2>2. d[p].up = 0 /\ Len(d) >= 1
      BY <1>1, <1>2, <2>1
    <2> QED BY <1>4, <1>5, <2>2 DEF Path, IsList
  <1>6. CASE o # <<>>
    <2>1. Len(o) \in Nat \ {0}
      BY <1>3, <1>6
    <2>2. PICK L : L = Len(o) /\ L \in Nat /\ L >= 1
      BY <2>1
    <2> DEFINE g == [i \in 1..L |-> f[i]]
    <2>3. \A i \in 1..L : i \in 1..L + 1 /\ f[i] \in 1..Len(d)
      BY <1>2, <2>2
    <2>4. g \in [1..L -> 1..Len(d)] /\ \A i \in 1..L : g[i] = f[i]
      BY <2>3
    <2> HIDE DEF g
    <2>5. g[L] = d[p].up /\ d[g[1]].up = 0
      <3>1. L \in 1..L /\ 1 \in 1..L
        BY <2>2
      <3> QED BY <1>2, <2>2, <2>4, <3>1
    <2>6. \A i \in 1..L - 1 : d[g[i + 1]].up = g[i]
      <3>1. \A i \in 1..L - 1 : i \in 1..L /\ i + 1 \in 1..L
        BY <2>2
      <3> QED BY <1>2, <2>2, <2>4, <3>1
    <2>7. Len(Front(o)) = L - 1 /\ L - 1 + 1 = L
      BY <1>4, <2>2
    <2>8. Path(d, d[p].up, Front(o))
      <3>1. PICK c : c = Front(o)
        OBVIOUS
      <3>2. Len(c) = L - 1 /\ Len(c) + 1 = L
        BY <2>7, <3>1
      <3>3. g \in [1..Len(c) + 1 -> 1..Len(d)] /\ g[Len(c) + 1] = d[p].up
        BY <2>4, <2>5, <3>2
      <3>4. \A i \in 1..Len(c) : d[g[i + 1]].up = g[i]
        BY <2>6, <3>2
      <3> QED BY <2>5, <3>1, <3>3, <3>4 DEF Path
    <2> QED BY <1>4, <1>6, <2>8 DEF IsList
  <1> QED BY <1>5, <1>6

\* The tags open after a token.
Tags(tok, u, o) ==
    IF u.st # "reading" THEN o
    ELSE IF tok.t = "open" /\ tok.end = ">" THEN Append(o, tok.name)
    ELSE IF tok.t = "close" /\ o # <<>> THEN Front(o) ELSE o

\* A token keeps the open tags a path.
LEMMA PathStep ==
    ASSUME NEW m, Going(m), NEW tok, NEW u, Stepped(m, tok, u), u.st # "error", m.sax # "drop",
           Single(u.doc), NEW o, IsList(o), Path(m.doc, m.parent, o)
    PROVE  Path(u.doc, u.parent, Tags(tok, u, o))
  <1>0. IsList(m.doc) /\ IsList(u.doc) /\ Ordered(u.doc)
    BY SteppedSound DEF Going, Sound, Shaped
  <1>1. CASE tok.t \notin TagKinds
    <2>1. Adds(m, u)
      BY <1>1 DEF Stepped, Goes
    <2>2. Path(u.doc, u.parent, o)
      BY <1>0, <2>1, PathAdds DEF Adds
    <2>3. Tags(tok, u, o) = o
      BY <1>1 DEF Tags, TagKinds
    <2> QED BY <2>2, <2>3
  <1>2. CASE tok.t \in TagKinds
    <2>1. PICK k : /\ Goes(m, k)
                   /\ \/ Going(k) /\ Tagged(k, tok, u)
                      \/ k.st # "reading" /\ u = k
      BY <1>2 DEF Stepped
    <2>2. k.st # "error"
      BY <2>1 DEF Going
    <2>3. Adds(m, k) /\ IsList(k.doc)
      BY <2>1, <2>2 DEF Goes, Sound, Shaped
    <2>4. Path(k.doc, k.parent, o)
      BY <1>0, <2>3, PathAdds DEF Adds
    <2>5. CASE k.st # "reading"
      <3>1. u = k
        BY <2>1, <2>5 DEF Going
      <3> QED BY <2>4, <2>5, <3>1 DEF Tags
    <2>6. CASE k.st = "reading"
      <3>1. Going(k) /\ Tagged(k, tok, u) /\ k.sax # "drop"
        BY <2>1, <2>3, <2>6 DEF Adds
      <3>2. CASE Opens(k, u)
        <4>1. k.parent # 0 /\ \A x : Path(u.doc, u.parent, Append(o, x))
          BY <1>0, <2>3, <2>4, <3>2, PathOpens DEF Opens
        <4>2. CASE tok.t = "open" /\ tok.end = ">"
          BY <3>2, <4>1, <4>2 DEF Tags, Opens, Going
        <4>3. CASE ~(tok.t = "open" /\ tok.end = ">")
          <5>1. Goes(k, u) \/ Closes(k, u)
            BY <3>1, <4>1, <4>3 DEF Tagged
          <5>2. Len(k.doc) \in Nat /\ k.parent \in 0..Len(k.doc)
            BY <3>1, ListLen DEF Going, Sound, Shaped
          <5>3. ~Closes(k, u)
            BY <3>2, <5>2 DEF Closes, Opens
          <5>4. ~Adds(k, u)
            BY <3>2, <5>2 DEF Adds, Opens
          <5> QED BY <5>1, <5>3, <5>4 DEF Goes
        <4> QED BY <4>2, <4>3
      <3>3. CASE Closes(k, u)
        <4>1. tok.t = "close" \/ Opens(k, u) \/ Goes(k, u)
          BY <3>1 DEF Tagged
        <4>2. Path(u.doc, u.parent, IF o # <<>> THEN Front(o) ELSE o)
          BY <2>3, <2>4, <3>3, PathCloses DEF Closes
        <4>3. CASE tok.t = "close"
          BY <3>3, <4>2, <4>3 DEF Tags, Closes, Going
        <4>4. CASE ~(tok.t = "close")
          <5>1. Len(k.doc) \in Nat /\ k.parent \in 0..Len(k.doc) /\ Ordered(k.doc)
            BY <3>1, ListLen DEF Going, Sound, Shaped
          <5>2. u.parent # k.parent /\ u.doc = k.doc /\ u.st = "reading"
            BY <3>3, <5>1 DEF Closes, Ordered, Going
          <5>3. ~Goes(k, u)
            BY <5>2 DEF Goes, Adds
          <5> QED BY <3>2, <4>1, <4>4, <5>3
        <4> QED BY <4>3, <4>4
      <3>4. CASE ~Opens(k, u) /\ ~Closes(k, u)
        <4>1. Goes(k, u) /\ ~(tok.t = "open" /\ tok.end = ">") /\ tok.t # "close"
          BY <3>1, <3>4 DEF Tagged
        <4>2. Adds(k, u)
          BY <4>1 DEF Goes
        <4>3. Path(u.doc, u.parent, o)
          BY <1>0, <2>3, <2>4, <4>2, PathAdds DEF Adds
        <4> QED BY <4>1, <4>3 DEF Tags
      <3> QED BY <3>2, <3>3, <3>4
    <2> QED BY <2>5, <2>6
  <1> QED BY <1>1, <1>2

\* A step without an error keeps the nodes there are.
LEMMA SteppedKeeps ==
    ASSUME NEW m, Going(m), NEW tok, NEW u, Stepped(m, tok, u), u.st # "error"
    PROVE  /\ u.top = m.top /\ u.sax = m.sax /\ Len(m.doc) <= Len(u.doc)
           /\ \A i \in 1..Len(m.doc) : u.doc[i] = m.doc[i]
           /\ Single(u.doc) => Single(m.doc)
  <1>0. Len(m.doc) \in Nat /\ Len(u.doc) \in Nat
    BY SteppedSound, ListLen DEF Going, Sound, Shaped
  <1>1. /\ u.top = m.top /\ u.sax = m.sax /\ Len(m.doc) <= Len(u.doc)
        /\ \A i \in 1..Len(m.doc) : u.doc[i] = m.doc[i]
    <2>1. CASE tok.t \notin TagKinds
      BY <2>1 DEF Stepped, Goes, Adds
    <2>2. CASE tok.t \in TagKinds
      <3>1. PICK k : /\ Goes(m, k)
                     /\ \/ Going(k) /\ Tagged(k, tok, u)
                        \/ k.st # "reading" /\ u = k
        BY <2>2 DEF Stepped
      <3>2. Adds(m, k) /\ Len(k.doc) \in Nat
        BY <3>1, ListLen DEF Goes, Going, Sound, Shaped
      <3>3. u = k \/ Opens(k, u) \/ Closes(k, u) \/ Adds(k, u)
        BY <3>1 DEF Tagged, Goes
      <3>4. /\ u.top = k.top /\ u.sax = k.sax /\ Len(k.doc) <= Len(u.doc)
            /\ \A i \in 1..Len(k.doc) : u.doc[i] = k.doc[i]
        BY <3>2, <3>3 DEF Opens, Closes, Adds
      <3>5. \A i \in 1..Len(m.doc) : i \in 1..Len(k.doc) /\ k.doc[i] = m.doc[i]
        BY <1>0, <3>2 DEF Adds
      <3> QED BY <1>0, <3>2, <3>4, <3>5 DEF Adds
    <2> QED BY <2>1, <2>2
  <1>2. ASSUME Single(u.doc)  PROVE Single(m.doc)
    <2>1. \A i \in 1..Len(m.doc) : i \in 1..Len(u.doc)
      BY <1>0, <1>1
    <2> QED BY <1>1, <1>2, <2>1 DEF Single
  <1> QED BY <1>1, <1>2

\* The tags open after a token are a list.
LEMMA TagsList ==
    ASSUME NEW o, IsList(o), NEW tok, NEW u
    PROVE  IsList(Tags(tok, u, o))
  <1>1. IsList(Append(o, tok.name))
    BY ListAppend
  <1>2. IsList(Front(o))
    <2>1. PICK S : o \in Seq(S)
      BY DEF IsList
    <2>2. Len(o) \in Nat
      BY <2>1
    <2>3. 1 \in Int /\ Len(o) - 1 \in Int /\ \A i \in 1..Len(o) - 1 : o[i] \in S
      BY <2>1, <2>2
    <2>4. SubSeq(o, 1, Len(o) - 1) \in Seq(S)
      BY <2>3, SubSeqProperties
    <2> QED BY <2>4 DEF IsList, Front
  <1> QED BY <1>1, <1>2 DEF Tags

\* The first token, when it is a processing instruction or a declaration outside
\* every tree, is the outermost node and the parent.
LEMMA PathBegins ==
    ASSUME NEW m, Going(m), Len(m.doc) = 0, m.parent = 0, m.buf = <<>>, ~m.ws, m.sax # "drop",
           NEW tok, tok.t \in {"pi", "decl"}, NEW u, Stepped(m, tok, u)
    PROVE  Path(u.doc, u.parent, Tags(tok, u, <<>>))
  <1>1. Tagged(m, tok, u)
    BY DEF Stepped, TagKinds, Going
  <1>2. Opens(m, u)
    BY <1>1 DEF Tagged
  <1>3. Len(u.doc) = 1 /\ u.parent = 1 /\ u.doc[1].up = 0
    BY <1>2 DEF Opens
  <1>4. Tags(tok, u, <<>>) = <<>>
    BY DEF Tags
  <1> DEFINE f == [i \in 1..1 |-> 1]
  <1>5. PICK c : c = <<>> /\ Len(c) = 0
    OBVIOUS
  <1>6. f \in [1..Len(c) + 1 -> 1..Len(u.doc)] /\ f[Len(c) + 1] = 1 /\ f[1] = 1
    BY <1>3, <1>5
  <1>7. \A i \in 1..Len(c) : u.doc[f[i + 1]].up = f[i]
    BY <1>5
  <1> HIDE DEF f
  <1>8. Path(u.doc, 1, c)
    BY <1>3, <1>6, <1>7 DEF Path
  <1> QED BY <1>3, <1>4, <1>5, <1>8

-----------------------------------------------------------------------------
(***************************************************************************)
(* The specification.                                                      *)
(***************************************************************************)

\* The end of the input.
LEMMA FinishSound ==
    ASSUME NEW m, Sound(m), m.st \in {"reading", "stop"}
    PROVE  LET u == Finish(m) IN
           /\ Sound(u) /\ u.st \in {"error", "done"} /\ u.doc = m.doc /\ u.parent = m.parent
           /\ u.top = m.top /\ u.sax = m.sax
  <1> DEFINE bad == m.parent # 0 /\ m.doc[m.parent].up \notin {0, m.top}
  <1>0. IsLoad(m)
    BY DEF Sound, Shaped
  <1>1. CASE bad
    <2>1. Finish(m) = Fail(m)
      BY <1>1 DEF Finish
    <2>2. m.sax = "off" => m.first \in {0, m.top + 1} /\ m.freed = {}
      BY DEF Sound, Counted
    <2>3. Sound(Fail(m))
      BY <2>2, FailSound DEF Sound
    <2> QED BY <1>0, <2>1, <2>3, FailFields
  <1>2. CASE ~bad
    <2>1. PICK u : u = [m EXCEPT !.st = "done"]
      OBVIOUS
    <2>2. Finish(m) = u
      BY <1>2, <2>1 DEF Finish
    <2>3. /\ IsLoad(u) /\ u.doc = m.doc /\ u.top = m.top /\ u.sax = m.sax
          /\ u.parent = m.parent /\ u.first = m.first /\ u.st = "done" /\ u.freed = m.freed
      BY <1>0, <2>1 DEF IsLoad
    <2>4. Shaped(u)
      BY <2>3 DEF Sound, Shaped
    <2>5. Growing(u) /\ Ended(u)
      BY <1>2, <2>3 DEF Growing, Ended
    <2>6. Counted(u)
      BY <2>3 DEF Sound, Counted
    <2> QED BY <2>2, <2>3, <2>4, <2>5, <2>6 DEF Sound
  <1> QED BY <1>1, <1>2

\* The load begins with the caller's tree.
LEMMA InitLoad == LoadInit => LoadInv
  <1> SUFFICES ASSUME LoadInit  PROVE LoadInv
    OBVIOUS
  <1>1. PICK t \in Tops, cb \in {"none", "integer", "opaque", "ignore", "custom"},
             sax \in {"off", "retain", "drop"} : l = Load0(t[1], t[2], cb, sax)
    BY DEF LoadInit
  <1>2. /\ IsLoad(l) /\ l.doc = t[1] /\ l.top = t[2] /\ l.sax = sax /\ l.parent = t[2] /\ l.first = 0
        /\ l.ws = FALSE /\ l.buf = <<>> /\ l.st = "reading" /\ l.freed = {}
    BY <1>1 DEF Load0, IsLoad
  <1>3. IsList(t[1]) /\ Ordered(t[1]) /\ Len(t[1]) = t[2] /\ t[2] \in 0..2
    <2>0. Elem(0, "t", <<>>).up = 0 /\ Elem(1, "a", <<>>).up = 1
      BY DEF Elem
    <2>1. CASE t = <<<<>>, 0>>
      <3>1. <<>> \in Seq({}) /\ Len(<<>>) = 0
        OBVIOUS
      <3> QED BY <2>1, <3>1 DEF IsList, Ordered
    <2>2. CASE t = <<<<Elem(0, "t", <<>>)>>, 1>>
      <3>1. PICK e : e = Elem(0, "t", <<>>) /\ e.up = 0
        BY <2>0
      <3>2. t = <<<<e>>, 1>>
        BY <2>2, <3>1
      <3>3. <<e>> \in Seq({e}) /\ Len(<<e>>) = 1 /\ <<e>>[1] = e
        OBVIOUS
      <3>4. IsList(<<e>>) /\ Ordered(<<e>>)
        <4>1. PICK d : d = <<e>> /\ d \in Seq({e}) /\ Len(d) = 1 /\ d[1] = e
          BY <3>3
        <4>2. IsList(d)
          BY <4>1 DEF IsList
        <4>3. \A i \in 1..Len(d) : i = 1
          BY <4>1
        <4>4. Ordered(d)
          BY <3>1, <4>1, <4>3 DEF Ordered
        <4> QED BY <4>1, <4>2, <4>4
      <3> QED BY <3>2, <3>3, <3>4
    <2>3. CASE t = <<<<Elem(0, "t", <<>>), Elem(1, "a", <<>>)>>, 2>>
      <3>1. PICK e : e = Elem(0, "t", <<>>) /\ e.up = 0
        BY <2>0
      <3>2. PICK a : a = Elem(1, "a", <<>>) /\ a.up = 1
        BY <2>0
      <3>3. t = <<<<e, a>>, 2>>
        BY <2>3, <3>1, <3>2
      <3>4. <<e, a>> \in Seq({e, a}) /\ Len(<<e, a>>) = 2 /\ <<e, a>>[1] = e /\ <<e, a>>[2] = a
        OBVIOUS
      <3>5. IsList(<<e, a>>) /\ Ordered(<<e, a>>)
        <4>1. PICK d : d = <<e, a>> /\ d \in Seq({e, a}) /\ Len(d) = 2 /\ d[1] = e /\ d[2] = a
          BY <3>4
        <4>2. IsList(d)
          BY <4>1 DEF IsList
        <4>3. \A i \in 1..Len(d) : i = 1 \/ i = 2
          BY <4>1
        <4>4. Ordered(d)
          BY <3>1, <3>2, <4>1, <4>3 DEF Ordered
        <4> QED BY <4>1, <4>2, <4>4
      <3> QED BY <3>3, <3>4, <3>5
    <2> QED BY <2>1, <2>2, <2>3 DEF Tops
  <1>4. Shaped(l)
    BY <1>2, <1>3 DEF Shaped
  <1>5. Growing(l)
    <2>1. \A i \in 1..Len(l.doc) : l.doc[i].up \notin l.freed
      BY <1>2
    <2> QED BY <1>2, <2>1 DEF Growing
  <1>6. Counted(l) /\ Ended(l)
    BY <1>2, <1>3 DEF Counted, Ended
  <1>7. open = <<>> /\ seen.first = "" /\ open \in Seq({})
    <2>1. open = <<>> /\ seen = [first |-> "", chars |-> 0]
      BY DEF LoadInit
    <2>2. <<>> \in Seq({})
      OBVIOUS
    <2> QED BY <2>1, <2>2
  <1>8. Traced
    BY <1>2, <1>3, <1>7 DEF Traced, IsList
  <1> QED BY <1>4, <1>5, <1>6, <1>8 DEF LoadInv, Sound

\* One token.
LEMMA ReadStep ==
    ASSUME LoadInv, NEW tok \in Tokens, Read(tok)
    PROVE  LoadInv'
  <1>1. Going(l) /\ IsList(open)
    BY DEF LoadInv, Going, Read, Traced
  <1>2. l' = mxml_load_data(l, tok)
    BY DEF Read
  <1>3. tok.t \in {"sp", "chr", "badent", "badchr"} \cup TagKinds
    BY TokensAssumption DEF TagKinds
  <1>4. Stepped(l, tok, l')
    BY <1>1, <1>2, <1>3, LoadGoes
  <1>5. Sound(l')
    BY <1>4, SteppedSound
  <1>6. open' = Tags(tok, l', open)
    BY DEF Read, Tags
  <1>7. seen'.first = IF seen.first = "" THEN tok.t ELSE seen.first
    BY DEF Read
  <1>8. IsList(open')
    BY <1>1, <1>6, TagsList
  <1>9. seen'.first # ""
    BY <1>3, <1>7 DEF TagKinds
  <1>10. ASSUME l'.top = 0, seen'.first \in {"pi", "decl"}, l'.sax # "drop", l'.st # "error", Single(l'.doc)
         PROVE  Path(l'.doc, l'.parent, open')
    <2>1. l.top = 0 /\ l.sax # "drop" /\ Single(l.doc)
      BY <1>1, <1>4, <1>10, SteppedKeeps
    <2>2. CASE seen.first = ""
      <3>1. Len(l.doc) = 0 /\ l.parent = 0 /\ l.buf = <<>> /\ ~l.ws /\ open = <<>>
        BY <2>1, <2>2 DEF LoadInv, Traced
      <3>2. tok.t \in {"pi", "decl"}
        BY <1>7, <1>10, <2>2
      <3> QED BY <1>1, <1>4, <1>6, <2>1, <3>1, <3>2, PathBegins
    <2>3. CASE seen.first # ""
      <3>1. Path(l.doc, l.parent, open)
        BY <1>1, <1>7, <1>10, <2>1, <2>3 DEF LoadInv, Traced, Going
      <3> QED BY <1>1, <1>4, <1>6, <1>10, <2>1, <3>1, PathStep
    <2> QED BY <2>2, <2>3
  <1>11. Traced'
    BY <1>8, <1>9, <1>10 DEF Traced
  <1> QED BY <1>5, <1>11 DEF LoadInv

\* The end of the input.
LEMMA EndStep ==
    ASSUME LoadInv, ReadEnd
    PROVE  LoadInv'
  <1>1. Sound(l) /\ l.st \in {"reading", "stop"} /\ l' = Finish(l) /\ open' = open /\ seen' = seen
    BY DEF LoadInv, ReadEnd
  <1>2. Sound(l') /\ l'.doc = l.doc /\ l'.parent = l.parent /\ l'.top = l.top /\ l'.sax = l.sax
    BY <1>1, FinishSound
  <1>3. Traced'
    <2>1. IsList(open')
      BY <1>1 DEF LoadInv, Traced
    <2>2. l'.buf = l.buf /\ l'.ws = l.ws
      BY <1>1 DEF Finish, Fail, Sound, Shaped, IsLoad
    <2> QED BY <1>1, <1>2, <2>1, <2>2 DEF LoadInv, Traced
  <1> QED BY <1>2, <1>3 DEF LoadInv

\* LoadInv is an inductive invariant of mxml_load_data.
LEMMA LoadInvariant == LoadSpec => []LoadInv
  <1>1. LoadInv /\ [LoadNext]_loadVars => LoadInv'
    <2> SUFFICES ASSUME LoadInv, [LoadNext]_loadVars  PROVE LoadInv'
      OBVIOUS
    <2>1. ASSUME NEW tok \in Tokens, Read(tok)  PROVE LoadInv'
      BY <2>1, ReadStep
    <2>2. CASE ReadEnd
      BY <2>2, EndStep
    <2>3. CASE UNCHANGED loadVars
      BY <2>3 DEF loadVars, LoadInv, Traced
    <2> QED BY <2>1, <2>2, <2>3 DEF LoadNext
  <1> QED BY <1>1, InitLoad, PTL DEF LoadSpec

\* mxml_load_data (mxml-file.c) never adds a node below one it has deleted, with any
\* tokens, any callback and a SAX callback that lets go of the nodes or keeps them.
THEOREM ParentsLive == LoadSpec => []ParentLive
  <1>1. LoadInv => ParentLive
    BY DEF LoadInv, Sound, Growing, ParentLive
  <1> QED BY <1>1, LoadInvariant, PTL

\* Every node mxml_load_data (mxml-file.c) makes without a SAX callback is freed by
\* its error return, is in the tree it returns or in the caller's, unless the input
\* has several outermost nodes or ends within its first; none of the caller's is freed.
THEOREM NodesKept == LoadSpec => []NothingLost
  <1>1. ASSUME LoadInv  PROVE NothingLost
    <2> SUFFICES ASSUME l.sax = "off", l.st \in {"error", "done"}
                 PROVE  /\ OneRoot /\ l.first # 0 =>
                             New \subseteq l.freed \cup Under(l.doc, Result(l)) \cup Under(l.doc, IF l.top = 0 THEN 0 ELSE 1)
                        /\ l.freed \subseteq New
      BY DEF NothingLost
    <2>1. /\ IsList(l.doc) /\ Ordered(l.doc) /\ Len(l.doc) \in Nat /\ l.top \in 0..2 /\ l.top <= Len(l.doc)
          /\ l.parent \in 0..Len(l.doc) /\ l.first \in 0..Len(l.doc)
      BY <1>1, ListLen DEF LoadInv, Sound, Shaped
    <2>2. /\ l.first \in {0, l.top + 1}
          /\ l.st # "error" => l.freed = {}
          /\ l.st = "error" => Under(l.doc, l.first) \subseteq l.freed /\ l.freed \subseteq l.top + 1..Len(l.doc)
      BY <1>1 DEF LoadInv, Sound, Counted
    <2>3. l.freed \subseteq New
      BY <2>2 DEF New, Old
    <2>4. ASSUME OneRoot, l.first # 0
          PROVE  New \subseteq l.freed \cup Under(l.doc, Result(l)) \cup Under(l.doc, IF l.top = 0 THEN 0 ELSE 1)
      <3>1. Single(l.doc)
        BY <2>1, <2>4, RootsCounted DEF OneRoot
      <3>2. Len(l.doc) >= 1
        BY <2>1, <2>4
      <3>3. Under(l.doc, 1) = 1..Len(l.doc) /\ l.doc[1].up = 0
        BY <2>1, <3>1, <3>2, UnderAll
      <3>4. New \subseteq Under(l.doc, 1)
        BY <2>1, <3>3 DEF New, Old
      <3>5. CASE l.top # 0
        BY <3>4, <3>5
      <3>6. CASE l.top = 0 /\ l.st = "error"
        <4>1. l.first = 1
          BY <2>2, <2>4, <3>6
        <4> QED BY <2>2, <3>4, <3>6, <4>1
      <3>7. CASE l.top = 0 /\ l.st = "done"
        <4>1. l.first = 1
          BY <2>2, <2>4, <3>7
        <4>2. CASE l.parent = 0
          BY <3>4, <3>7, <4>1, <4>2 DEF Result
        <4>3. CASE l.parent # 0
          <5>1. l.doc[l.parent].up = 0
            BY <1>1, <3>7, <4>3 DEF LoadInv, Sound, Ended
          <5>2. l.parent \in 1..Len(l.doc) /\ 1 \in 1..Len(l.doc)
            BY <2>1, <3>2, <4>3
          <5>3. l.parent = 1
            BY <3>1, <3>3, <5>1, <5>2 DEF Single
          <5> QED BY <3>4, <3>7, <5>3 DEF Result
        <4> QED BY <4>2, <4>3
      <3> QED BY <3>5, <3>6, <3>7
    <2> QED BY <2>3, <2>4
  <1> QED BY <1>1, LoadInvariant, PTL

\* mxml_load_data (mxml-file.c) loads an input that begins with <?xml or a declaration,
\* its only outermost node, with success only if every tag it opened was closed.
THEOREM CutsRefused == LoadSpec => []CutRefused
  <1>1. ASSUME LoadInv  PROVE CutRefused
    <2> SUFFICES ASSUME l.st = "done", l.top = 0, seen.first \in {"pi", "decl"}, l.sax # "drop", OneRoot
                 PROVE  open = <<>>
      BY DEF CutRefused
    <2>1. IsList(l.doc) /\ Len(l.doc) \in Nat /\ IsList(open) /\ Len(open) \in Nat
      BY <1>1, ListLen DEF LoadInv, Sound, Shaped, Traced
    <2>2. Single(l.doc)
      BY <2>1, RootsCounted DEF OneRoot
    <2>3. Path(l.doc, l.parent, open)
      BY <1>1, <2>2 DEF LoadInv, Traced
    <2>4. l.parent = 0 \/ l.doc[l.parent].up = 0
      BY <1>1 DEF LoadInv, Sound, Ended
    <2>5. ASSUME open # <<>>  PROVE FALSE
      <3>1. PICK f \in [1..Len(open) + 1 -> 1..Len(l.doc)] :
                /\ f[Len(open) + 1] = l.parent
                /\ \A i \in 1..Len(open) : l.doc[f[i + 1]].up = f[i]
        BY <2>3, <2>5 DEF Path
      <3>2. Len(open) # 0
        <4>1. PICK S : open \in Seq(S)
          BY <2>1 DEF IsList
        <4> QED BY <2>5, <4>1
      <3>3. Len(open) \in 1..Len(open) /\ Len(open) \in 1..Len(open) + 1 /\ Len(open) + 1 \in 1..Len(open) + 1
        BY <2>1, <3>2
      <3>4. l.parent \in 1..Len(l.doc) /\ f[Len(open)] \in 1..Len(l.doc)
        BY <3>1, <3>3
      <3>5. l.doc[l.parent].up = f[Len(open)]
        BY <3>1, <3>3
      <3> QED BY <2>1, <2>4, <3>4, <3>5
    <2> QED BY <2>5
  <1> QED BY <1>1, LoadInvariant, PTL

-----------------------------------------------------------------------------
(***************************************************************************)
(* Strings.                                                                *)
(***************************************************************************)

\* One more element at the end of a list given by a function.
LEMMA OneMore ==
    ASSUME NEW i \in Nat \ {0}, NEW f
    PROVE  [k \in 1..i - 1 |-> f[k]] \o <<f[i]>> = [k \in 1..i |-> f[k]]
  <1> DEFINE S == {f[k] : k \in 1..i}  a == [k \in 1..i - 1 |-> f[k]]  b == <<f[i]>>  c == [k \in 1..i |-> f[k]]
  <1>1. PICK j \in Nat : j = i - 1 /\ i = j + 1
    OBVIOUS
  <1>2. a \in Seq(S) /\ Len(a) = j /\ \A k \in 1..j : a[k] = f[k]
    <2>1. a \in [1..j -> S]
      BY <1>1
    <2>2. \A k \in 1..j : a[k] = f[k]
      BY <1>1
    <2> HIDE DEF a, S
    <2> QED BY <1>1, <2>1, <2>2
  <1>3. b \in Seq(S) /\ Len(b) = 1 /\ b[1] = f[i]
    <2>1. f[i] \in S
      BY <1>1
    <2> HIDE DEF S
    <2> QED BY <2>1
  <1>4. c \in Seq(S) /\ Len(c) = i /\ \A k \in 1..i : c[k] = f[k]
    <2>1. c \in [1..i -> S]
      OBVIOUS
    <2>2. \A k \in 1..i : c[k] = f[k]
      OBVIOUS
    <2> HIDE DEF c, S
    <2> QED BY <1>1, <2>1, <2>2
  <1> HIDE DEF a, b, c, S
  <1>5. /\ a \o b \in Seq(S) /\ Len(a \o b) = i
        /\ \A k \in 1..i : (a \o b)[k] = IF k <= j THEN a[k] ELSE b[k - j]
    <2>1. /\ a \o b \in Seq(S) /\ Len(a \o b) = Len(a) + Len(b)
          /\ \A k \in 1..Len(a) + Len(b) : (a \o b)[k] = IF k <= Len(a) THEN a[k] ELSE b[k - Len(a)]
      BY <1>2, <1>3, ConcatProperties
    <2>2. Len(a) + Len(b) = i
      BY <1>1, <1>2, <1>3
    <2> QED BY <1>2, <2>1, <2>2
  <1>6. \A k \in 1..i : (a \o b)[k] = c[k]
    <2> SUFFICES ASSUME NEW k \in 1..i  PROVE (a \o b)[k] = c[k]
      OBVIOUS
    <2>1. CASE k <= j
      <3>1. k \in 1..j
        BY <1>1, <2>1
      <3> QED BY <1>2, <1>4, <1>5, <2>1, <3>1
    <2>2. CASE ~(k <= j)
      <3>1. k = i /\ k - j = 1
        BY <1>1, <2>2
      <3> QED BY <1>3, <1>4, <1>5, <2>2, <3>1
    <2> QED BY <2>1, <2>2
  <1>7. a \o b = c
    BY <1>4, <1>5, <1>6, SeqEqual
  <1> QED BY <1>7 DEF a, b, c

\* FlattenSeq of lists of one element each: the recursive function in its
\* definition has a value, the prefixes of the result.
LEMMA FlattenOnes ==
    ASSUME NEW n \in Nat, NEW f, NEW s, s = [i \in 1..n |-> <<f[i]>>]
    PROVE  FlattenSeq(s) = [i \in 1..n |-> f[i]]
  <1> DEFINE g == [i \in 1..n |-> [k \in 1..i |-> f[k]]]
             flatten == CHOOSE h : h = [i \in 1..Len(s) |-> IF i = 1 THEN s[i] ELSE h[i - 1] \o s[i]]
  <1>1. Len(s) = n /\ \A i \in 1..n : s[i] = <<f[i]>>
    <2> DEFINE S == {<<f[i]>> : i \in 1..n}
    <2>1. s \in [1..n -> S]
      OBVIOUS
    <2>2. \A i \in 1..n : s[i] = <<f[i]>>
      OBVIOUS
    <2> HIDE DEF S
    <2> QED BY <2>1, <2>2
  <1>2. CASE n = 0
    <2>1. FlattenSeq(s) = s
      BY <1>1, <1>2 DEF FlattenSeq
    <2> QED BY <1>2, <2>1
  <1>3. CASE n # 0
    <2>1. FlattenSeq(s) = flatten[n]
      BY <1>1, <1>3 DEF FlattenSeq
    <2>2. \A i \in 1..n : g[i] = IF i = 1 THEN s[i] ELSE g[i - 1] \o s[i]
      <3> SUFFICES ASSUME NEW i \in 1..n  PROVE g[i] = IF i = 1 THEN s[i] ELSE g[i - 1] \o s[i]
        OBVIOUS
      <3>1. g[i] = [k \in 1..i |-> f[k]]
        OBVIOUS
      <3>2. CASE i = 1
        <4>1. [k \in 1..1 |-> f[k]] = <<f[1]>>
          OBVIOUS
        <4> QED BY <1>1, <3>1, <3>2, <4>1
      <3>3. CASE i # 1
        <4>1. i \in Nat \ {0} /\ i - 1 \in 1..n
          BY <3>3
        <4>2. g[i - 1] = [k \in 1..i - 1 |-> f[k]]
          BY <4>1
        <4>3. [k \in 1..i - 1 |-> f[k]] \o <<f[i]>> = [k \in 1..i |-> f[k]]
          BY <4>1, OneMore
        <4> HIDE DEF g
        <4> QED BY <1>1, <3>1, <3>3, <4>2, <4>3
      <3> QED BY <3>2, <3>3
    <2>3. g = [i \in 1..Len(s) |-> IF i = 1 THEN s[i] ELSE g[i - 1] \o s[i]]
      <3>1. g = [i \in 1..n |-> g[i]]
        OBVIOUS
      <3> HIDE DEF g
      <3>2. [i \in 1..n |-> g[i]] = [i \in 1..n |-> IF i = 1 THEN s[i] ELSE g[i - 1] \o s[i]]
        BY <2>2, SMTT(30)
      <3> QED BY <1>1, <3>1, <3>2, Zenon
    <2> HIDE DEF g
    <2>4. flatten = [i \in 1..n |-> IF i = 1 THEN s[i] ELSE flatten[i - 1] \o s[i]]
      BY <1>1, <2>3
    <2> HIDE DEF flatten
    <2>5. \A i \in 1..n : flatten[i] = IF i = 1 THEN s[i] ELSE flatten[i - 1] \o s[i]
      BY <2>4
    <2> DEFINE B == {i \in 1..n : flatten[i] # g[i]}
    <2>6. ASSUME B # {}  PROVE FALSE
      <3>1. PICK m \in B : \A k \in B : m <= k
        <4>1. B \in SUBSET Nat
          OBVIOUS
        <4> HIDE DEF B
        <4> QED BY <2>6, <4>1, LeastNat
      <3>2. m \in 1..n /\ flatten[m] # g[m]
        OBVIOUS
      <3>3. m # 1
        BY <2>2, <2>5, <3>2
      <3>4. m - 1 \in 1..n /\ m - 1 \notin B
        BY <3>1, <3>2, <3>3
      <3>5. flatten[m - 1] = g[m - 1]
        BY <3>4
      <3> QED BY <2>2, <2>5, <3>2, <3>3, <3>5
    <2>7. n \in 1..n
      BY <1>3
    <2>8. flatten[n] = g[n]
      BY <2>6, <2>7
    <2>9. g[n] = [k \in 1..n |-> f[k]]
      BY <2>7 DEF g
    <2> QED BY <2>1, <2>8, <2>9
  <1> QED BY <1>2, <1>3

\* What one byte is written as and what is read for it: one character in the file,
\* and the byte itself unless it is a control character, which reads as the end.
Mark(b) == IF mxmlEntityGetName(b) THEN [entity |-> b] ELSE [byte |-> b]

\* putc, getc and mxml_add_char on one byte.
LEMMA ByteFacts ==
    ASSUME NEW b \in 1..255
    PROVE  /\ mxml_string_putc(Signed(b)) = <<b>> /\ mxml_add_char(b) = <<b>>
           /\ mxml_string_getc(b) = IF mxml_bad_char(b) THEN EOF ELSE b
           /\ mxmlEntityGetName(b) => ~mxml_bad_char(b)
           /\ b # EOF
  <1>1. CASE b < 128
    <2>1. Signed(b) = b /\ ~(b < 0) /\ b \div 128 = 0
      BY <1>1 DEF Signed
    <2>2. mxml_string_putc(Signed(b)) = <<b>>
      BY <1>1, <2>1 DEF mxml_string_putc, Utf8
    <2>3. mxml_add_char(b) = <<b>>
      BY <1>1, <2>1 DEF mxml_add_char, Utf8
    <2> QED BY <2>2, <2>3 DEF mxml_string_getc, mxml_bad_char, mxmlEntityGetName, EOF
  <1>2. CASE b >= 128
    <2>1. Signed(b) = b - 256 /\ b - 256 < 0 /\ b - 256 + 256 = b /\ b \div 128 = 1 /\ b % 256 = b
      BY <1>2 DEF Signed
    <2>2. mxml_string_putc(Signed(b)) = <<b>>
      BY <2>1 DEF mxml_string_putc
    <2>3. mxml_add_char(b) = <<b>>
      BY <2>1 DEF mxml_add_char
    <2> QED BY <2>2, <2>3 DEF mxml_string_getc, mxml_bad_char, mxmlEntityGetName, EOF
  <1> QED BY <1>1, <1>2

\* mxml_write_string writes one character or entity for every byte.
LEMMA WriteOnes ==
    ASSUME NEW s \in Seq(1..255)
    PROVE  mxml_write_string(s) = [i \in 1..Len(s) |-> Mark(s[i])]
  <1> DEFINE f == [i \in 1..Len(s) |-> Mark(s[i])]
             W(b) == IF mxmlEntityGetName(b) THEN <<[entity |-> b]>>
                     ELSE [k \in DOMAIN mxml_string_putc(Signed(b)) |-> [byte |-> mxml_string_putc(Signed(b))[k]]]
  <1>1. Len(s) \in Nat /\ DOMAIN s = 1..Len(s) /\ \A i \in 1..Len(s) : s[i] \in 1..255
    BY LenProperties, ElementOfSeq
  <1>2. ASSUME NEW b \in 1..255  PROVE W(b) = <<Mark(b)>>
    <2>1. CASE mxmlEntityGetName(b)
      BY <2>1 DEF Mark
    <2>2. CASE ~mxmlEntityGetName(b)
      <3>1. PICK p : p = mxml_string_putc(Signed(b)) /\ p = <<b>>
        BY ByteFacts
      <3>2. DOMAIN p = 1..1 /\ p[1] = b
        BY <3>1
      <3>3. W(b) = [k \in 1..1 |-> [byte |-> p[k]]]
        BY <2>2, <3>1, <3>2
      <3>4. [k \in 1..1 |-> [byte |-> p[k]]] = <<[byte |-> b]>>
        BY <3>2
      <3> QED BY <2>2, <3>3, <3>4 DEF Mark
    <2> QED BY <2>1, <2>2
  <1>3. mxml_write_string(s) = FlattenSeq([i \in 1..Len(s) |-> W(s[i])])
    BY <1>1 DEF mxml_write_string
  <1> HIDE DEF W
  <1>4. [i \in 1..Len(s) |-> W(s[i])] = [i \in 1..Len(s) |-> <<f[i]>>]
    BY <1>1, <1>2
  <1>5. FlattenSeq([i \in 1..Len(s) |-> <<f[i]>>]) = [i \in 1..Len(s) |-> f[i]]
    <2> HIDE DEF f
    <2> QED BY <1>1, FlattenOnes
  <1> QED BY <1>3, <1>4, <1>5

\* What is read for one character or entity of the file.
LEMMA ReadMark ==
    ASSUME NEW b \in 1..255
    PROVE  (IF "entity" \in DOMAIN Mark(b) THEN Mark(b).entity ELSE mxml_string_getc(Mark(b).byte))
           = IF mxml_bad_char(b) THEN EOF ELSE b
  <1>1. CASE mxmlEntityGetName(b)
    <2>1. Mark(b) = [entity |-> b] /\ ~mxml_bad_char(b)
      BY <1>1, ByteFacts DEF Mark
    <2>2. DOMAIN [entity |-> b] = {"entity"} /\ [entity |-> b].entity = b
      OBVIOUS
    <2> QED BY <2>1, <2>2
  <1>2. CASE ~mxmlEntityGetName(b)
    <2>1. Mark(b) = [byte |-> b] /\ mxml_string_getc(b) = IF mxml_bad_char(b) THEN EOF ELSE b
      BY <1>2, ByteFacts DEF Mark
    <2>2. DOMAIN [byte |-> b] = {"byte"} /\ [byte |-> b].byte = b
      OBVIOUS
    <2> QED BY <2>1, <2>2
  <1> QED BY <1>1, <1>2

\* What is read for the characters of a written string: the bytes themselves, and an
\* end where the string has a control character.
LEMMA ReadBack ==
    ASSUME NEW s \in Seq(1..255)
    PROVE  LET T == mxml_write_string(s) IN
           /\ Len(T) = Len(s) /\ DOMAIN T = 1..Len(s)
           /\ Ends(T) = {i \in DOMAIN s : mxml_bad_char(s[i])}
           /\ \A k \in 1..Len(s) : T[k] = [byte |-> 61] => s[k] = 61
           /\ Ends(T) = {} => Buffer(T, Len(s)) = s
  <1> DEFINE T == [i \in 1..Len(s) |-> Mark(s[i])]
             bad == {i \in DOMAIN s : mxml_bad_char(s[i])}
  <1>1. Len(s) \in Nat /\ DOMAIN s = 1..Len(s) /\ \A i \in 1..Len(s) : s[i] \in 1..255
    BY LenProperties, ElementOfSeq
  <1>2. DOMAIN T = 1..Len(s) /\ Len(T) = Len(s) /\ \A i \in 1..Len(s) : T[i] = Mark(s[i])
    <2> DEFINE S == {Mark(s[i]) : i \in 1..Len(s)}
    <2>1. T \in [1..Len(s) -> S]
      OBVIOUS
    <2>2. \A i \in 1..Len(s) : T[i] = Mark(s[i])
      OBVIOUS
    <2> HIDE DEF S, T
    <2> QED BY <1>1, <2>1, <2>2
  <1>3. mxml_write_string(s) = T
    BY WriteOnes
  <1> HIDE DEF T
  <1>5. \A i \in 1..Len(s) : Chars(T)[i] = IF mxml_bad_char(s[i]) THEN EOF ELSE s[i]
    <2> SUFFICES ASSUME NEW i \in 1..Len(s)
                 PROVE  Chars(T)[i] = IF mxml_bad_char(s[i]) THEN EOF ELSE s[i]
      OBVIOUS
    <2>1. PICK b \in 1..255 : b = s[i]
      BY <1>1
    <2>2. T[i] = Mark(b) /\ i \in DOMAIN T
      BY <1>2, <2>1
    <2>3. Chars(T)[i] = IF "entity" \in DOMAIN T[i] THEN T[i].entity ELSE mxml_string_getc(T[i].byte)
      BY <2>2 DEF Chars
    <2> QED BY <2>1, <2>2, <2>3, ReadMark
  <1>6. \A i \in 1..Len(s) : Chars(T)[i] = EOF <=> mxml_bad_char(s[i])
    <2>1. \A i \in 1..Len(s) : s[i] # EOF
      BY <1>1, ByteFacts
    <2> QED BY <1>5, <2>1
  <1>7. Ends(T) = bad
    BY <1>1, <1>2, <1>6 DEF Ends
  <1>8. ASSUME NEW k \in 1..Len(s), T[k] = [byte |-> 61]  PROVE s[k] = 61
    <2>1. PICK b : b = s[k] /\ Mark(b) = [byte |-> 61]
      BY <1>2, <1>8
    <2>2. CASE mxmlEntityGetName(b)
      <3>1. [entity |-> b] = [byte |-> 61]
        BY <2>1, <2>2 DEF Mark
      <3>2. DOMAIN [entity |-> b] = {"entity"} /\ DOMAIN [byte |-> 61] = {"byte"}
        OBVIOUS
      <3> QED BY <3>1, <3>2
    <2>3. CASE ~mxmlEntityGetName(b)
      <3>1. [byte |-> b] = [byte |-> 61]
        BY <2>1, <2>3 DEF Mark
      <3> QED BY <2>1, <3>1
    <2> QED BY <2>2, <2>3
  <1>9. ASSUME Ends(T) = {}  PROVE Buffer(T, Len(s)) = s
    <2>1. \A i \in 1..Len(s) : mxml_add_char(Chars(T)[i]) = <<s[i]>>
      <3> SUFFICES ASSUME NEW i \in 1..Len(s)  PROVE mxml_add_char(Chars(T)[i]) = <<s[i]>>
        OBVIOUS
      <3>1. Chars(T)[i] = s[i]
        <4>1. ~mxml_bad_char(s[i])
          BY <1>1, <1>7, <1>9
        <4> QED BY <1>5, <4>1
      <3> QED BY <1>1, <3>1, ByteFacts
    <2>2. Buffer(T, Len(s)) = FlattenSeq([i \in 1..Len(s) |-> <<s[i]>>])
      <3>1. Buffer(T, Len(s)) = FlattenSeq([i \in 1..Len(s) |-> mxml_add_char(Chars(T)[i])])
        BY DEF Buffer
      <3>2. [i \in 1..Len(s) |-> mxml_add_char(Chars(T)[i])] = [i \in 1..Len(s) |-> <<s[i]>>]
        BY <2>1
      <3> QED BY <3>1, <3>2
    <2>3. FlattenSeq([i \in 1..Len(s) |-> <<s[i]>>]) = [i \in 1..Len(s) |-> s[i]]
      BY <1>1, FlattenOnes
    <2>4. [i \in 1..Len(s) |-> s[i]] = s
      BY <1>1
    <2> QED BY <2>2, <2>3, <2>4
  <1> HIDE DEF bad
  <1>10. /\ Len(T) = Len(s) /\ DOMAIN T = 1..Len(s) /\ Ends(T) = bad
         /\ \A k \in 1..Len(s) : T[k] = [byte |-> 61] => s[k] = 61
         /\ Ends(T) = {} => Buffer(T, Len(s)) = s
    BY <1>2, <1>7, <1>8, <1>9
  <1> QED BY <1>3, <1>10, Zenon DEF bad

\* A string of bytes of any length and content, written by mxml_write_string and read
\* back by mxml_load_data or mxml_parse_element (mxml-file.c), is the same unless it
\* has a control character: every byte from 0x80 on is written as one byte and read as
\* one, and every entity is read back as the character it stands for.  With a control
\* character no text comes back, and an attribute only with an = behind it.
THEOREM StringsSurvive == TextSpec => []TextSurvives
  <1> DEFINE Typed == text \in Seq(1..255)
  <1>1. TextInit => Typed
    BY DEF TextInit
  <1>2. Typed /\ [TextNext]_text => Typed'
    <2> SUFFICES ASSUME Typed, NEW b \in Bytes, text' = Append(text, b)  PROVE Typed'
      BY DEF TextNext
    <2>1. b \in 1..255
      BY BytesAssumption
    <2> QED BY <2>1, AppendProperties
  <1>3. Typed => TextSurvives
    <2> SUFFICES ASSUME text \in Seq(1..255)  PROVE TextSurvives
      OBVIOUS
    <2> DEFINE bad == {i \in DOMAIN text : mxml_bad_char(text[i])}
    <2>1. PICK T : /\ T = mxml_write_string(text) /\ Len(T) = Len(text) /\ DOMAIN T = 1..Len(text)
                   /\ Ends(T) = bad
                   /\ \A k \in 1..Len(text) : T[k] = [byte |-> 61] => text[k] = 61
                   /\ Ends(T) = {} => Buffer(T, Len(text)) = text
      BY ReadBack
    <2>2. DOMAIN text = 1..Len(text)
      BY LenProperties
    <2> HIDE DEF bad
    <2>3. ASSUME bad = {}  PROVE ReadString(T) = <<text>> /\ ReadAttr(T) = {<<text>>}
      BY <2>1, <2>3 DEF ReadString, ReadAttr
    <2>4. ASSUME bad # {}
          PROVE  /\ ReadString(T) = <<>>
                 /\ \A s \in ReadAttr(T) \ {<<>>} : \E i \in bad, k \in DOMAIN text : i < k /\ text[k] = 61
      <3>1. ReadString(T) = <<>>
        BY <2>1, <2>4 DEF ReadString
      <3>2. ASSUME NEW s \in ReadAttr(T) \ {<<>>}
            PROVE  \E i \in bad, k \in DOMAIN text : i < k /\ text[k] = 61
        <4>1. PICK i \in Ends(T) : \E k \in DOMAIN T : k > i /\ T[k] = [byte |-> 61]
          BY <2>1, <2>4, <3>2, Zenon DEF ReadAttr
        <4>2. PICK k \in DOMAIN T : k > i /\ T[k] = [byte |-> 61]
          BY <4>1
        <4>3. i \in bad /\ k \in DOMAIN text /\ text[k] = 61 /\ i \in Int /\ k \in Int
          BY <2>1, <2>2, <4>1, <4>2 DEF bad
        <4>4. i < k
          BY <4>2, <4>3
        <4> QED BY <4>3, <4>4
      <3> QED BY <3>1, <3>2
    <2>5. LET toks == T IN
          /\ bad = {} => ReadString(toks) = <<text>> /\ ReadAttr(toks) = {<<text>>}
          /\ bad # {} => /\ ReadString(toks) = <<>>
                         /\ \A s \in ReadAttr(toks) \ {<<>>} :
                               \E i \in bad, k \in DOMAIN text : i < k /\ text[k] = 61
      BY <2>3, <2>4
    <2> QED BY <2>1, <2>5, Zenon DEF TextSurvives, bad
  <1> QED BY <1>1, <1>2, <1>3, PTL DEF TextSpec

-----------------------------------------------------------------------------
(***************************************************************************)
(* Dates.                                                                  *)
(***************************************************************************)

\* A day of the calendar, in any year from 0 on.
RealDate(n) == n \in Nat /\ Month(n) \in 1..12 /\ Day(n) \in 1..RMONTHDAYS(Month(n), Year(n))

\* The number YYYYMMDD, the days before a month of a year, and before a year.
DateOf(y, m, d) == y * 10000 + m * 100 + d
Before(m, y) == <<0, 31, 59, 90, 120, 151, 181, 212, 243, 273, 304, 334>>[m]
                + (IF m > 2 /\ IsLeapYear(y) THEN 1 ELSE 0)
Leaps(k) == k \div 4 - k \div 100 + k \div 400
YearStart(y) == 365 * y + (IF y = 0 THEN 0 ELSE Leaps(y - 1) + 1)

\* DayNumber by its parts.
LEMMA DayNumberParts ==
    ASSUME NEW n
    PROVE  DayNumber(n) = YearStart(Year(n)) + <<0, 31, 59, 90, 120, 151, 181, 212, 243, 273, 304, 334>>[Month(n)]
                          + (IF Month(n) > 2 /\ IsLeapYear(Year(n)) THEN 1 ELSE 0) + Day(n)
  BY DEF DayNumber, YearStart, Leaps

\* The parts of a date are integers.
LEMMA DateParts ==
    ASSUME NEW n \in Nat
    PROVE  Year(n) \in Nat /\ Month(n) \in Nat /\ Day(n) \in Nat /\ n = DateOf(Year(n), Month(n), Day(n))
  BY DEF Year, Month, Day, DateOf

\* A date put together has the parts it was made of.
LEMMA DateOfParts ==
    ASSUME NEW y \in Nat, NEW m \in 1..12, NEW d \in 1..31
    PROVE  LET n == DateOf(y, m, d) IN n \in Nat /\ Year(n) = y /\ Month(n) = m /\ Day(n) = d
  <1> DEFINE n == DateOf(y, m, d)
  <1>1. PICK k : k = m * 100 + d /\ k \in 0..9999
    OBVIOUS
  <1>2. n = y * 10000 + k /\ n \in Nat
    BY <1>1 DEF DateOf
  <1>3. n \div 10000 = y /\ n % 10000 = k
    BY <1>1, <1>2
  <1>4. k \div 100 = m /\ k % 100 = d
    BY <1>1
  <1>5. n % 100 = d
    BY <1>1, <1>2, <1>4
  <1> QED BY <1>2, <1>3, <1>4, <1>5 DEF Year, Month, Day

\* The lengths of the months.
LEMMA MonthLengths ==
    ASSUME NEW m \in 1..12, NEW y \in Nat
    PROVE  /\ RMONTHDAYS(m, y) \in 28..31
           /\ RMONTHDAYS(m, y) = (CASE m \in {1, 3, 5, 7, 8, 10, 12} -> 31
                                    [] m \in {4, 6, 9, 11} -> 30
                                    [] m = 2 -> IF IsLeapYear(y) THEN 29 ELSE 28)
  BY DEF RMONTHDAYS, MON2DAYS

\* The days before a month are those of the months before it.
LEMMA BeforeMonth ==
    ASSUME NEW m \in 1..12, NEW y \in Nat
    PROVE  /\ Before(m, y) \in Nat
           /\ m < 12 => Before(m + 1, y) = Before(m, y) + RMONTHDAYS(m, y)
           /\ m = 1 => Before(m, y) = 0
           /\ m = 12 => Before(m, y) + RMONTHDAYS(m, y) = YEARDAYS(y)
  <1>1. m = 1 \/ m = 2 \/ m = 3 \/ m = 4 \/ m = 5 \/ m = 6 \/ m = 7 \/ m = 8 \/ m = 9 \/ m = 10 \/ m = 11 \/ m = 12
    OBVIOUS
  <1> QED BY <1>1 DEF Before, RMONTHDAYS, MON2DAYS, YEARDAYS

\* The days before a year are those of the years before it.
LEMMA BeforeYear ==
    ASSUME NEW y \in Nat
    PROVE  YearStart(y) \in Int /\ YearStart(y + 1) = YearStart(y) + YEARDAYS(y)
  <1>1. CASE y = 0
    BY <1>1 DEF YearStart, Leaps, YEARDAYS, IsLeapYear
  <1>2. CASE y # 0
    <2>1. y \div 4 = (y - 1) \div 4 + (IF y % 4 = 0 THEN 1 ELSE 0)
      BY <1>2
    <2>2. y \div 100 = (y - 1) \div 100 + (IF y % 100 = 0 THEN 1 ELSE 0)
      BY <1>2
    <2>3. y \div 400 = (y - 1) \div 400 + (IF y % 400 = 0 THEN 1 ELSE 0)
      BY <1>2
    <2>4. (y % 400 = 0 => y % 100 = 0) /\ (y % 100 = 0 => y % 4 = 0)
      OBVIOUS
    <2>5. y - 1 \in Nat /\ y + 1 - 1 = y /\ y + 1 # 0
      BY <1>2
    <2>6. Leaps(y) = Leaps(y - 1) + (IF IsLeapYear(y) THEN 1 ELSE 0) /\ Leaps(y - 1) \in Int
      BY <2>1, <2>2, <2>3, <2>4, <2>5 DEF Leaps, IsLeapYear
    <2>7. YEARDAYS(y) = 365 + (IF IsLeapYear(y) THEN 1 ELSE 0)
      BY DEF YEARDAYS
    <2> QED BY <1>2, <2>5, <2>6, <2>7 DEF YearStart
  <1> QED BY <1>1, <1>2

\* DayNumber of a date put together.
LEMMA DayNumberOf ==
    ASSUME NEW y \in Nat, NEW m \in 1..12, NEW d \in 1..31
    PROVE  DayNumber(DateOf(y, m, d)) = YearStart(y) + Before(m, y) + d
  <1>0. PICK n : n = DateOf(y, m, d)
    OBVIOUS
  <1>1. n = DateOf(y, m, d) /\ Year(n) = y /\ Month(n) = m /\ Day(n) = d
    BY <1>0, DateOfParts
  <1>2. DayNumber(n) = YearStart(y) + <<0, 31, 59, 90, 120, 151, 181, 212, 243, 273, 304, 334>>[m]
                       + (IF m > 2 /\ IsLeapYear(y) THEN 1 ELSE 0) + d
    BY <1>1, DayNumberParts
  <1>3. PICK b \in Nat : b = <<0, 31, 59, 90, 120, 151, 181, 212, 243, 273, 304, 334>>[m]
    <2>1. m = 1 \/ m = 2 \/ m = 3 \/ m = 4 \/ m = 5 \/ m = 6 \/ m = 7 \/ m = 8 \/ m = 9 \/ m = 10 \/ m = 11 \/ m = 12
      OBVIOUS
    <2> QED BY <2>1
  <1>4. PICK c \in Nat : c = IF m > 2 /\ IsLeapYear(y) THEN 1 ELSE 0
    OBVIOUS
  <1>5. Before(m, y) = b + c
    BY <1>3, <1>4 DEF Before
  <1>6. YearStart(y) \in Int
    BY BeforeYear
  <1>7. DayNumber(n) = YearStart(y) + b + c + d
    BY <1>2, <1>3, <1>4
  <1> QED BY <1>1, <1>5, <1>6, <1>7

\* A date put together from the calendar is a day of it.
LEMMA RealDateOf ==
    ASSUME NEW y \in Nat, NEW m \in 1..12, NEW d \in 1..RMONTHDAYS(m, y)
    PROVE  RealDate(DateOf(y, m, d)) /\ d \in 1..31
  <1>1. RMONTHDAYS(m, y) \in 28..31
    BY MonthLengths
  <1>2. d \in 1..31
    BY <1>1
  <1>3. PICK n : n = DateOf(y, m, d)
    OBVIOUS
  <1>4. n \in Nat /\ Year(n) = y /\ Month(n) = m /\ Day(n) = d
    BY <1>2, <1>3, DateOfParts
  <1> QED BY <1>2, <1>3, <1>4 DEF RealDate

\* DayNumber of a day of the calendar.
LEMMA DayNumberReal ==
    ASSUME NEW n, RealDate(n)
    PROVE  /\ DayNumber(n) = YearStart(Year(n)) + Before(Month(n), Year(n)) + Day(n)
           /\ Year(n) \in Nat /\ Month(n) \in 1..12 /\ Day(n) \in 1..31
  <1>1. PICK y, m, d : y = Year(n) /\ m = Month(n) /\ d = Day(n)
    OBVIOUS
  <1>2. y \in Nat /\ m \in 1..12 /\ d \in 1..RMONTHDAYS(m, y) /\ n = DateOf(y, m, d)
    BY <1>1, DateParts DEF RealDate
  <1>3. RMONTHDAYS(m, y) \in 28..31
    BY <1>2, MonthLengths
  <1>4. d \in 1..31
    BY <1>2, <1>3
  <1>5. DayNumber(n) = YearStart(y) + Before(m, y) + d
    BY <1>2, <1>4, DayNumberOf
  <1> QED BY <1>1, <1>2, <1>4, <1>5

\* One turn of the loop of CountDate gives the next or the previous day.
LEMMA DayStepCounts ==
    ASSUME NEW n, RealDate(n), NEW step \in {1, -1}
    PROVE  LET k == DayStep(n, step) IN
           k \in Int /\ (k >= 0 => RealDate(k) /\ DayNumber(k) = DayNumber(n) + step)
  <1>1. PICK y, m, d : y = Year(n) /\ m = Month(n) /\ d = Day(n)
    OBVIOUS
  <1>2. PICK M : M = RMONTHDAYS(m, y)
    OBVIOUS
  <1>3. y \in Nat /\ m \in 1..12 /\ d \in 1..M /\ M \in 28..31 /\ d \in 1..31
    <2>1. y \in Nat /\ m \in 1..12 /\ d \in 1..M /\ d \in 1..31
      BY <1>1, <1>2, DayNumberReal DEF RealDate
    <2> QED BY <1>2, <2>1, MonthLengths
  <1>4. DayNumber(n) = YearStart(y) + Before(m, y) + d /\ YearStart(y) \in Int /\ Before(m, y) \in Nat
    BY <1>1, <1>3, DayNumberReal, BeforeYear, BeforeMonth
  <1>5. PICK k : k = DayStep(n, step)
    OBVIOUS
  <1>6. CASE d + step \in 1..M
    <2>1. k = DateOf(y, m, d + step)
      BY <1>1, <1>2, <1>5, <1>6 DEF DayStep, DateOf
    <2>2. RealDate(k) /\ d + step \in 1..31
      BY <1>2, <1>3, <1>6, <2>1, RealDateOf
    <2>3. DayNumber(k) = YearStart(y) + Before(m, y) + (d + step)
      BY <1>3, <2>1, <2>2, DayNumberOf
    <2> QED BY <1>3, <1>4, <1>5, <2>2, <2>3 DEF RealDate
  <1>7. CASE step = 1 /\ d = M /\ m < 12
    <2>1. k = DateOf(y, m + 1, 1)
      <3>1. ~(d + 1 \in 1..M) /\ m + 1 \in 1..12 /\ ~(m + 1 <= 0) /\ ~(m + 1 > 12) /\ ~(d + 1 <= 0)
        BY <1>3, <1>7
      <3> QED BY <1>1, <1>2, <1>5, <1>7, <3>1 DEF DayStep, DateOf
    <2>2. m + 1 \in 1..12 /\ RMONTHDAYS(m + 1, y) \in 28..31
      BY <1>3, <1>7, MonthLengths
    <2>3. 1 \in 1..RMONTHDAYS(m + 1, y)
      BY <2>2
    <2>4. RealDate(k) /\ DayNumber(k) = YearStart(y) + Before(m + 1, y) + 1
      BY <1>3, <2>1, <2>2, <2>3, RealDateOf, DayNumberOf
    <2>5. Before(m + 1, y) = Before(m, y) + M
      BY <1>2, <1>3, <1>7, BeforeMonth
    <2> QED BY <1>3, <1>4, <1>5, <1>7, <2>4, <2>5 DEF RealDate
  <1>8. CASE step = 1 /\ d = M /\ m = 12
    <2>1. k = DateOf(y + 1, 1, 1)
      <3>1. ~(d + 1 \in 1..M) /\ ~(d + 1 <= 0)
        BY <1>3, <1>8
      <3> QED BY <1>1, <1>2, <1>5, <1>8, <3>1 DEF DayStep, DateOf
    <2>2. y + 1 \in Nat /\ 1 \in 1..12 /\ RMONTHDAYS(1, y + 1) \in 28..31
      BY <1>3, MonthLengths
    <2>3. 1 \in 1..RMONTHDAYS(1, y + 1)
      BY <2>2
    <2>4. RealDate(k) /\ DayNumber(k) = YearStart(y + 1) + Before(1, y + 1) + 1
      BY <2>1, <2>2, <2>3, RealDateOf, DayNumberOf
    <2>5. Before(1, y + 1) = 0 /\ Before(12, y) + M = YEARDAYS(y)
      BY <1>2, <1>3, <1>8, <2>2, BeforeMonth
    <2>6. YearStart(y + 1) = YearStart(y) + YEARDAYS(y)
      BY <1>3, BeforeYear
    <2> QED BY <1>3, <1>4, <1>5, <1>8, <2>4, <2>5, <2>6 DEF RealDate
  <1>9. CASE step = -1 /\ d = 1 /\ m > 1
    <2>1. k = DateOf(y, m - 1, RMONTHDAYS(m - 1, y))
      <3>1. /\ ~(d + -1 \in 1..M) /\ m + -1 \in 1..12 /\ ~(m + -1 <= 0) /\ ~(m + -1 > 12) /\ d + -1 <= 0
            /\ m + -1 = m - 1
        BY <1>3, <1>9
      <3> QED BY <1>1, <1>2, <1>5, <1>9, <3>1 DEF DayStep, DateOf
    <2>2. m - 1 \in 1..12 /\ RMONTHDAYS(m - 1, y) \in 28..31
      BY <1>3, <1>9, MonthLengths
    <2>3. RMONTHDAYS(m - 1, y) \in 1..RMONTHDAYS(m - 1, y) /\ RMONTHDAYS(m - 1, y) \in 1..31
      BY <2>2
    <2>4. RealDate(k) /\ DayNumber(k) = YearStart(y) + Before(m - 1, y) + RMONTHDAYS(m - 1, y)
      BY <1>3, <2>1, <2>2, <2>3, RealDateOf, DayNumberOf
    <2>5. Before(m, y) = Before(m - 1, y) + RMONTHDAYS(m - 1, y) /\ Before(m - 1, y) \in Nat
      <3>1. m - 1 < 12 /\ m - 1 + 1 = m
        BY <1>3
      <3> QED BY <1>3, <2>2, <3>1, BeforeMonth
    <2> QED BY <1>3, <1>4, <1>5, <1>9, <2>2, <2>4, <2>5 DEF RealDate
  <1>10. CASE step = -1 /\ d = 1 /\ m = 1
    <2>1. k = DateOf(y - 1, 12, 31)
      <3>1. /\ ~(d + -1 \in 1..M) /\ d + -1 <= 0 /\ ~(m + -1 \in 1..12) /\ m + -1 <= 0 /\ y + -1 = y - 1
        BY <1>3, <1>10
      <3>2. RMONTHDAYS(12, y - 1) = 31
        BY DEF RMONTHDAYS
      <3> QED BY <1>1, <1>2, <1>5, <1>10, <3>1, <3>2 DEF DayStep, DateOf
    <2>2. CASE y = 0
      <3>1. k = -8769
        BY <2>1, <2>2 DEF DateOf
      <3> QED BY <1>5, <3>1
    <2>3. CASE y # 0
      <3>1. y - 1 \in Nat /\ 12 \in 1..12 /\ y - 1 + 1 = y
        BY <1>3, <2>3
      <3>2. 31 = RMONTHDAYS(12, y - 1)
        BY DEF RMONTHDAYS
      <3>3. RealDate(k) /\ DayNumber(k) = YearStart(y - 1) + Before(12, y - 1) + 31
        <4>1. 31 \in 1..RMONTHDAYS(12, y - 1)
          BY <3>2
        <4> QED BY <2>1, <3>1, <4>1, RealDateOf, DayNumberOf
      <3>4. Before(12, y - 1) + 31 = YEARDAYS(y - 1) /\ Before(12, y - 1) \in Nat /\ Before(m, y) = 0
        BY <1>3, <1>10, <3>1, <3>2, BeforeMonth
      <3>5. YearStart(y) = YearStart(y - 1) + YEARDAYS(y - 1) /\ YearStart(y - 1) \in Int
        BY <3>1, BeforeYear
      <3> QED BY <1>3, <1>4, <1>5, <1>10, <3>3, <3>4, <3>5 DEF RealDate
    <2> QED BY <2>2, <2>3
  <1>11. \/ d + step \in 1..M
         \/ step = 1 /\ d = M /\ (m < 12 \/ m = 12)
         \/ step = -1 /\ d = 1 /\ (m > 1 \/ m = 1)
    BY <1>3
  <1> QED BY <1>6, <1>7, <1>8, <1>9, <1>10, <1>11

\* A day of the calendar up to the year 9999 is what checkdate accepts.
LEMMA CheckedDate ==
    ASSUME NEW n \in Nat
    PROVE  CheckDate(n) = 0 <=> RealDate(n) /\ Year(n) <= 9999
  <1>1. PICK y, m, d : y = Year(n) /\ m = Month(n) /\ d = Day(n) /\ y \in Nat /\ m \in Nat /\ d \in Nat
    BY DateParts
  <1>2. CheckDate(n) = 0 <=> checkdate(y, m, d) = 0
    BY <1>1 DEF CheckDate
  <1>3. CASE m \in 1..12
    <2>1. PICK M : M = RMONTHDAYS(m, y) /\ M = (CASE m \in {1, 3, 5, 7, 8, 10, 12} -> 31
                                    [] m \in {4, 6, 9, 11} -> 30
                                    [] m = 2 -> IF IsLeapYear(y) THEN 29 ELSE 28)
      BY <1>1, <1>3, MonthLengths
    <2>2. checkdate(y, m, d) = IF y < 0 \/ y > 9999 THEN -1 ELSE IF d \in 1..M THEN 0 ELSE -3
      BY <1>3, <2>1 DEF checkdate
    <2>3. RealDate(n) <=> d \in 1..M
      BY <1>1, <1>3, <2>1 DEF RealDate
    <2>4. checkdate(y, m, d) = 0 <=> d \in 1..M /\ y <= 9999
      BY <1>1, <2>2
    <2> QED BY <1>1, <1>2, <2>3, <2>4
  <1>4. CASE m \notin 1..12
    <2>1. checkdate(y, m, d) # 0
      BY <1>1, <1>4 DEF checkdate
    <2> QED BY <1>1, <1>2, <1>4, <2>1 DEF RealDate
  <1> QED BY <1>3, <1>4

\* The loop over the years: the recursive function in its definition has a value,
\* the days from the start of the first year.
LEMMA YearsSummed ==
    ASSUME NEW a \in Nat, NEW b \in Nat, a <= b
    PROVE  YearsSum(a, b) = YearStart(b) - YearStart(a)
  <1> DEFINE g == [y \in a..b |-> YearStart(y) - YearStart(a)]
             sum == CHOOSE h : h = [y \in a..b |-> IF y = a THEN 0 ELSE h[y - 1] + YEARDAYS(y - 1)]
  <1>1. YearsSum(a, b) = sum[b]
    BY DEF YearsSum
  <1>2. \A y \in a..b : g[y] = IF y = a THEN 0 ELSE g[y - 1] + YEARDAYS(y - 1)
    <2> SUFFICES ASSUME NEW y \in a..b  PROVE g[y] = IF y = a THEN 0 ELSE g[y - 1] + YEARDAYS(y - 1)
      OBVIOUS
    <2>1. g[y] = YearStart(y) - YearStart(a)
      OBVIOUS
    <2>2. YearStart(a) \in Int
      BY BeforeYear
    <2>3. CASE y = a
      BY <2>1, <2>2, <2>3
    <2>4. CASE y # a
      <3>1. y - 1 \in a..b /\ y - 1 \in Nat /\ y - 1 + 1 = y
        BY <2>4
      <3>2. g[y - 1] = YearStart(y - 1) - YearStart(a)
        BY <3>1
      <3>3. YearStart(y) = YearStart(y - 1) + YEARDAYS(y - 1) /\ YearStart(y - 1) \in Int
        BY <3>1, BeforeYear
      <3>4. YEARDAYS(y - 1) \in Int
        BY DEF YEARDAYS
      <3> HIDE DEF g
      <3> QED BY <2>1, <2>2, <2>4, <3>2, <3>3, <3>4
    <2> QED BY <2>3, <2>4
  <1>3. g = [y \in a..b |-> IF y = a THEN 0 ELSE g[y - 1] + YEARDAYS(y - 1)]
    <2>1. g = [y \in a..b |-> g[y]]
      OBVIOUS
    <2> HIDE DEF g
    <2>2. [y \in a..b |-> g[y]] = [y \in a..b |-> IF y = a THEN 0 ELSE g[y - 1] + YEARDAYS(y - 1)]
      BY <1>2
    <2> QED BY <2>1, <2>2, Zenon
  <1>4. b \in a..b /\ g[b] = YearStart(b) - YearStart(a)
    OBVIOUS
  <1> HIDE DEF g
  <1>5. sum = [y \in a..b |-> IF y = a THEN 0 ELSE sum[y - 1] + YEARDAYS(y - 1)]
    BY <1>3
  <1> HIDE DEF sum
  <1>6. \A y \in a..b : sum[y] = IF y = a THEN 0 ELSE sum[y - 1] + YEARDAYS(y - 1)
    BY <1>5
  <1> DEFINE B == {y \in a..b : sum[y] # g[y]}
  <1>7. ASSUME B # {}  PROVE FALSE
    <2>1. PICK y \in B : \A k \in B : y <= k
      <3>1. B \in SUBSET Nat
        OBVIOUS
      <3> HIDE DEF B
      <3> QED BY <1>7, <3>1, LeastNat
    <2>2. y \in a..b /\ sum[y] # g[y]
      OBVIOUS
    <2>3. y # a
      BY <1>2, <1>6, <2>2
    <2>4. y - 1 \in a..b /\ y - 1 \notin B
      BY <2>1, <2>2, <2>3
    <2>5. sum[y - 1] = g[y - 1]
      BY <2>4
    <2> QED BY <1>2, <1>6, <2>2, <2>3, <2>5
  <1>8. sum[b] = g[b]
    BY <1>4, <1>7
  <1> QED BY <1>1, <1>4, <1>8

\* The loop over the months.
LEMMA MonthsSummed ==
    ASSUME NEW m \in 1..12, NEW y \in Nat
    PROVE  MonthsSum(m, y) = Before(m, y)
  <1> DEFINE g == [i \in 1..m |-> Before(i, y)]
             sum == CHOOSE h : h = [i \in 1..m |-> IF i = 1 THEN 0 ELSE h[i - 1] + RMONTHDAYS(i - 1, y)]
  <1>1. MonthsSum(m, y) = sum[m]
    BY DEF MonthsSum
  <1>2. \A i \in 1..m : g[i] = IF i = 1 THEN 0 ELSE g[i - 1] + RMONTHDAYS(i - 1, y)
    <2> SUFFICES ASSUME NEW i \in 1..m  PROVE g[i] = IF i = 1 THEN 0 ELSE g[i - 1] + RMONTHDAYS(i - 1, y)
      OBVIOUS
    <2>1. g[i] = Before(i, y)
      OBVIOUS
    <2>2. CASE i = 1
      <3>1. Before(1, y) = 0
        BY BeforeMonth
      <3> QED BY <2>1, <2>2, <3>1
    <2>3. CASE i # 1
      <3>1. i - 1 \in 1..m /\ i - 1 \in 1..12 /\ i - 1 + 1 = i /\ i - 1 < 12
        BY <2>3
      <3>2. g[i - 1] = Before(i - 1, y)
        BY <3>1
      <3>3. Before(i, y) = Before(i - 1, y) + RMONTHDAYS(i - 1, y)
        BY <3>1, BeforeMonth
      <3> HIDE DEF g
      <3> QED BY <2>1, <2>3, <3>2, <3>3
    <2> QED BY <2>2, <2>3
  <1>3. g = [i \in 1..m |-> IF i = 1 THEN 0 ELSE g[i - 1] + RMONTHDAYS(i - 1, y)]
    <2>1. g = [i \in 1..m |-> g[i]]
      OBVIOUS
    <2> HIDE DEF g
    <2>2. [i \in 1..m |-> g[i]] = [i \in 1..m |-> IF i = 1 THEN 0 ELSE g[i - 1] + RMONTHDAYS(i - 1, y)]
      BY <1>2
    <2> QED BY <2>1, <2>2, Zenon
  <1>4. m \in 1..m /\ g[m] = Before(m, y)
    OBVIOUS
  <1> HIDE DEF g
  <1>5. sum = [i \in 1..m |-> IF i = 1 THEN 0 ELSE sum[i - 1] + RMONTHDAYS(i - 1, y)]
    BY <1>3
  <1> HIDE DEF sum
  <1>6. \A i \in 1..m : sum[i] = IF i = 1 THEN 0 ELSE sum[i - 1] + RMONTHDAYS(i - 1, y)
    BY <1>5
  <1> DEFINE B == {i \in 1..m : sum[i] # g[i]}
  <1>7. ASSUME B # {}  PROVE FALSE
    <2>1. PICK i \in B : \A k \in B : i <= k
      <3>1. B \in SUBSET Nat
        OBVIOUS
      <3> HIDE DEF B
      <3> QED BY <1>7, <3>1, LeastNat
    <2>2. i \in 1..m /\ sum[i] # g[i]
      OBVIOUS
    <2>3. i # 1
      BY <1>2, <1>6, <2>2
    <2>4. i - 1 \in 1..m /\ i - 1 \notin B
      BY <2>1, <2>2, <2>3
    <2>5. sum[i - 1] = g[i - 1]
      BY <2>4
    <2> QED BY <1>2, <1>6, <2>2, <2>3, <2>5
  <1>8. sum[m] = g[m]
    BY <1>4, <1>7
  <1> QED BY <1>1, <1>4, <1>8

\* DiffDate is the difference of the day numbers, with its sign.
LEMMA DiffCounts ==
    ASSUME NEW a, RealDate(a), NEW b, RealDate(b)
    PROVE  DiffDate(a, b) = DayNumber(b) - DayNumber(a) /\ DayNumber(a) \in Int /\ DayNumber(b) \in Int
  <1> DEFINE Passed(n) == MonthsSum(Month(n), Year(n)) + Day(n)
  <1>1. ASSUME NEW n, RealDate(n)
        PROVE  /\ DayNumber(n) = YearStart(Year(n)) + Passed(n)
               /\ YearStart(Year(n)) \in Int /\ Passed(n) \in Int /\ Year(n) \in Nat /\ n \in Nat
    <2>1. /\ DayNumber(n) = YearStart(Year(n)) + Before(Month(n), Year(n)) + Day(n)
          /\ Year(n) \in Nat /\ Month(n) \in 1..12 /\ Day(n) \in 1..31
      BY <1>1, DayNumberReal
    <2>2. MonthsSum(Month(n), Year(n)) = Before(Month(n), Year(n)) /\ Before(Month(n), Year(n)) \in Nat
      BY <2>1, MonthsSummed, BeforeMonth
    <2>3. YearStart(Year(n)) \in Int /\ n \in Nat
      BY <1>1, <2>1, BeforeYear DEF RealDate
    <2> QED BY <2>1, <2>2, <2>3
  <1> DEFINE s0 == IF a > b THEN b ELSE a  e0 == IF a > b THEN a ELSE b
  <1>2. DiffDate(a, b) = (IF a > b THEN -1 ELSE 1) * (YearsSum(Year(s0), Year(e0)) + Passed(e0) - Passed(s0))
    BY DEF DiffDate
  <1> HIDE DEF Passed
  <1>3. ASSUME NEW s, RealDate(s), NEW e, RealDate(e), s <= e
        PROVE  /\ YearsSum(Year(s), Year(e)) + Passed(e) - Passed(s) = DayNumber(e) - DayNumber(s)
               /\ DayNumber(e) \in Int /\ DayNumber(s) \in Int
    <2>1. /\ DayNumber(s) = YearStart(Year(s)) + Passed(s) /\ YearStart(Year(s)) \in Int
          /\ Passed(s) \in Int /\ Year(s) \in Nat /\ s \in Nat
      BY <1>1, <1>3
    <2>2. /\ DayNumber(e) = YearStart(Year(e)) + Passed(e) /\ YearStart(Year(e)) \in Int
          /\ Passed(e) \in Int /\ Year(e) \in Nat /\ e \in Nat
      BY <1>1, <1>3
    <2>3. Year(s) <= Year(e)
      BY <1>3, <2>1, <2>2 DEF Year
    <2>4. YearsSum(Year(s), Year(e)) = YearStart(Year(e)) - YearStart(Year(s))
      BY <2>1, <2>2, <2>3, YearsSummed
    <2> QED BY <2>1, <2>2, <2>4
  <1>4. a \in Nat /\ b \in Nat
    BY DEF RealDate
  <1>5. CASE a > b
    <2>0. s0 = b /\ e0 = a
      BY <1>5
    <2> HIDE DEF s0, e0
    <2>1. DiffDate(a, b) = (IF a > b THEN -1 ELSE 1) * (YearsSum(Year(b), Year(a)) + Passed(a) - Passed(b))
      BY <1>2, <2>0, Zenon
    <2>2. b <= a
      BY <1>4, <1>5
    <2>3. /\ YearsSum(Year(b), Year(a)) + Passed(a) - Passed(b) = DayNumber(a) - DayNumber(b)
          /\ DayNumber(a) \in Int /\ DayNumber(b) \in Int
      BY <1>3, <2>2
    <2>4. PICK c : c = YearsSum(Year(b), Year(a)) + Passed(a) - Passed(b)
      OBVIOUS
    <2>5. DiffDate(a, b) = -1 * c
      BY <1>5, <2>1, <2>4
    <2> QED BY <2>3, <2>4, <2>5
  <1>6. CASE ~(a > b)
    <2>0. s0 = a /\ e0 = b /\ (IF a > b THEN -1 ELSE 1) = 1
      BY <1>6
    <2> HIDE DEF s0, e0
    <2>1. DiffDate(a, b) = 1 * (YearsSum(Year(a), Year(b)) + Passed(b) - Passed(a))
      BY <1>2, <2>0, Zenon
    <2>2. a <= b
      BY <1>4, <1>6
    <2>3. /\ YearsSum(Year(a), Year(b)) + Passed(b) - Passed(a) = DayNumber(b) - DayNumber(a)
          /\ DayNumber(a) \in Int /\ DayNumber(b) \in Int
      BY <1>3, <2>2
    <2> QED BY <2>1, <2>3
  <1> QED BY <1>5, <1>6

\* The date reached is a day of the calendar, as far from the start as counted, in
\* any year from 0 on; below the year 0 the count stops.
DateInv ==
    /\ RealDate(start) /\ offset \in Int /\ date \in Int
    /\ date >= 0 => RealDate(date) /\ DayNumber(date) = DayNumber(start) + offset

\* CountDate (funtime.c) counts any number of days from any date forwards or
\* backwards to a date that CheckDate accepts, that many days away by the calendar
\* and by DiffDate in both directions, while the year is one of four digits.
THEOREM DatesCount == DateSpec => []DatesAgree
  <1>1. DateInit => DateInv
    <2> SUFFICES ASSUME DateInit  PROVE DateInv
      OBVIOUS
    <2>1. start \in Nat /\ CheckDate(start) = 0 /\ date = start /\ offset = 0
      BY StartsAssumption DEF DateInit
    <2>2. RealDate(start)
      BY <2>1, CheckedDate
    <2>3. DayNumber(start) \in Int
      BY <2>2, DiffCounts
    <2> QED BY <2>1, <2>2, <2>3 DEF DateInv
  <1>2. DateInv /\ [DateNext]_dateVars => DateInv'
    <2> SUFFICES ASSUME DateInv, [DateNext]_dateVars  PROVE DateInv'
      OBVIOUS
    <2>1. ASSUME NEW step \in {1, -1}, CountDate(step)  PROVE DateInv'
      <3>1. date >= 0 /\ date' = DayStep(date, step) /\ offset' = offset + step /\ start' = start
        BY <2>1 DEF CountDate
      <3>2. RealDate(date) /\ DayNumber(date) = DayNumber(start) + offset /\ offset \in Int /\ RealDate(start)
        BY <3>1 DEF DateInv
      <3>3. date' \in Int /\ (date' >= 0 => RealDate(date') /\ DayNumber(date') = DayNumber(date) + step)
        BY <3>1, <3>2, DayStepCounts
      <3>4. DayNumber(start) \in Int
        BY <3>2, DiffCounts
      <3>5. offset' \in Int /\ DayNumber(date) + step = DayNumber(start) + offset'
        BY <3>1, <3>2, <3>4
      <3> QED BY <3>1, <3>2, <3>3, <3>5 DEF DateInv
    <2>2. CASE UNCHANGED dateVars
      BY <2>2 DEF dateVars, DateInv
    <2> QED BY <2>1, <2>2 DEF DateNext
  <1>3. DateInv => DatesAgree
    <2>0. SUFFICES ASSUME DateInv, Year(date) \in 0..9999, date >= 0
                 PROVE  /\ CheckStrDate(date) = 0
                        /\ DayNumber(date) - DayNumber(start) = offset
                        /\ DiffDate(start, date) = offset /\ DiffDate(date, start) = -offset
      BY DEF DatesAgree
    <2>1. RealDate(date) /\ RealDate(start) /\ DayNumber(date) = DayNumber(start) + offset /\ offset \in Int
      BY <2>0 DEF DateInv
    <2>2. CheckStrDate(date) = 0
      <3>1. date \in Nat /\ Year(date) <= 9999
        <4>1. date \in Nat
          BY <2>1 DEF RealDate
        <4>2. PICK y \in 0..9999 : y = Year(date)
          BY <2>0
        <4>3. y <= 9999
          OBVIOUS
        <4> QED BY <4>1, <4>2, <4>3
      <3> QED BY <2>1, <3>1, CheckedDate DEF CheckStrDate
    <2>3. /\ DiffDate(start, date) = DayNumber(date) - DayNumber(start)
          /\ DiffDate(date, start) = DayNumber(start) - DayNumber(date)
          /\ DayNumber(start) \in Int
      BY <2>1, DiffCounts
    <2> QED BY <2>1, <2>2, <2>3
  <1> QED BY <1>1, <1>2, <1>3, PTL DEF DateSpec
=============================================================================
