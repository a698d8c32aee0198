------------------------------ MODULE XmlForest -----------------------------
(***************************************************************************)
(* What the node functions of Mini-XML promise (the comments above         *)
(* mxmlAdd, mxmlRemove, mxmlDelete in mxml-node.c): a forest of nodes, each *)
(* with an ordered list of children, and operations that put a node into   *)
(* a list, take it out, or delete it with all its children.                *)
(***************************************************************************)
EXTENDS Naturals, Sequences, SequencesExt

CONSTANTS Node, NULL

VARIABLES live,   \* the nodes there are
          kids    \* the children of every node, in order

forest == <<live, kids>>

\* Position of c in a list, 0 when it is not in it.
Place(s, c) == IF c \in Range(s) THEN CHOOSE i \in DOMAIN s : s[i] = c ELSE 0

\* The lists of a forest without n in any of them.
Without(n) == [p \in Node |-> LET i == Place(kids[p], n) IN
                              IF i = 0 THEN kids[p] ELSE RemoveAt(kids[p], i)]

\* n and all its descendants.
Family(n) ==
    LET Closed == {S \in SUBSET Node : n \in S /\ \A p \in S : Range(kids[p]) \subseteq S}
    IN {m \in Node : \A S \in Closed : m \in S}

\* The list s with n in front of c (or first), behind c (or last).
Placed(s, where, c, n) ==
    LET i == Place(s, c) IN
    IF where = "before" THEN InsertAt(s, IF i = 0 THEN 1 ELSE i, n)
                        ELSE InsertAt(s, IF i = 0 THEN Len(s) + 1 ELSE i + 1, n)

\* A new node without a parent, or the last child of p.
New(n, p) ==
    /\ n \notin live
    /\ live' = live \cup {n}
    /\ kids' = IF p = NULL THEN kids ELSE [kids EXCEPT ![p] = Append(@, n)]

\* The node leaves its list and goes to a place in the list of p, which is not
\* below it.
Add(n) ==
    /\ n \in live
    /\ UNCHANGED live
    /\ LET rest == Without(n)  new == kids' IN
       \E p \in live \ {n} :
          /\ \A q \in Node \ {p} : new[q] = rest[q]
          /\ \E c \in live \cup {NULL}, where \in {"before", "after"} :
                new[p] = Placed(rest[p], where, c, n)
          /\ p \notin Family(n)

Detach(n) == n \in live /\ UNCHANGED live /\ kids' = Without(n)

Delete(n) ==
    /\ n \in live
    /\ live' = live \ Family(n)
    /\ kids' = [p \in Node |-> IF p \in Family(n) THEN <<>> ELSE Without(n)[p]]

Init == live = {} /\ kids = [p \in Node |-> <<>>]

Next == \E n \in Node :
    \/ Add(n) \/ Detach(n) \/ Delete(n)
    \/ \E p \in live \cup {NULL} : New(n, p)

Spec == Init /\ [][Next]_forest
=============================================================================
