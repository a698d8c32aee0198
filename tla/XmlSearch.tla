----------------------------- MODULE XmlSearch ------------------------------
(***************************************************************************)
(* Walking and searching a tree (mxml-search.c), and what the links mean:  *)
(* the lists of children of XmlForest.                                     *)
(***************************************************************************)
EXTENDS XmlTree, SequencesExt

\* The nodes from x on along next.
Chain(x) ==
    LET f[y \in Ptr] == IF y = NULL THEN <<>> ELSE <<y>> \o f[h.next[y]] IN f[x]

Kids(p) == Chain(h.child[p])

Forest == INSTANCE XmlForest WITH kids <- [p \in Node |-> Kids(p)]

\* The five links of every node always say the same, and every library call does to
\* the lists of children they stand for what XmlForest says: it adds, moves or
\* takes out one node, or deletes one with all below it, and leaves the rest as
\* and in the order it was.
ForestSpec == Forest!Spec

\* The chain of next from a node's child visits exactly the nodes whose parent it
\* is, each once: mxmlDelete and the walks reach every child, and none is on the
\* chain of another node or on a ring of its own.
ChildrenListed == \A p \in Node :
    LET k == Kids(p) IN
    /\ Range(k) = {x \in Node : h.parent[x] = p}
    /\ \A i, j \in DOMAIN k : k[i] = k[j] => i = j

\* After any calls of mxmlAdd, mxmlRemove, mxmlDelete and mxmlRelease the heap is a
\* forest: the five links agree and none is to a freed node, child and next list
\* exactly the children of every node, and no chain of parents closes.
TreesOK == LinksOK /\ ChildrenListed /\ NoCycle

-----------------------------------------------------------------------------
\* The inner loop of mxmlWalkNext: up from node to the first ancestor below
\* top that has a successor.
Climb(node, top) ==
    LET f[y \in Node] == IF h.next[y] # NULL THEN h.next[y]
                         ELSE IF h.parent[y] \in {top, NULL} THEN NULL
                         ELSE f[h.parent[y]]
    IN f[node]

mxmlWalkNext(node, top, descend) ==
    IF node = NULL THEN NULL
    ELSE IF h.child[node] # NULL /\ descend # "no" THEN h.child[node]
    ELSE IF node = top THEN NULL
    ELSE IF h.next[node] # NULL THEN h.next[node]
    ELSE IF h.parent[node] \in {top, NULL} THEN NULL
    ELSE Climb(h.parent[node], top)

Bottom(node) ==
    LET f[y \in Node] == IF h.last_child[y] = NULL THEN y ELSE f[h.last_child[y]] IN f[node]

\* Mutant: the walk back steps over what is below the previous node.
WalkPrev_over(node, top, descend) ==
    IF node \in {NULL, top} THEN NULL
    ELSE IF h.prev[node] # NULL THEN h.prev[node]
    ELSE IF h.parent[node] # top THEN h.parent[node] ELSE NULL

mxmlWalkPrev(node, top, descend) ==
    IF node \in {NULL, top} THEN NULL
    ELSE IF h.prev[node] # NULL
         THEN IF descend # "no" THEN Bottom(h.prev[node]) ELSE h.prev[node]
    ELSE IF h.parent[node] # top THEN h.parent[node] ELSE NULL

\* What mxmlFindElement looks for; name, attr and val may be NULL for any.
Matches(m, name, attr, val) ==
    /\ kind[m] = "element" /\ value[m] # NULL
    /\ name = NULL \/ value[m] = name
    /\ attr # NULL => /\ mxmlElementGetAttr(m, attr) # NULL
                      /\ val \in {NULL, mxmlElementGetAttr(m, attr)}

\* Mutant: an element that does not match ends the search of its siblings.
Search_stop(node, top, name, attr, val, descend) ==
    IF node # NULL /\ Matches(node, name, attr, val) THEN node ELSE NULL

\* The loop: with MXML_DESCEND on through the tree, else along the siblings.
Search(node, top, name, attr, val, descend) ==
    LET f[y \in Ptr] ==
            IF y = NULL \/ Matches(y, name, attr, val) THEN y
            ELSE IF descend = "descend" THEN f[mxmlWalkNext(y, top, descend)]
            ELSE f[h.next[y]]
    IN IF node = NULL THEN NULL ELSE f[node]

mxmlFindElement(node, top, name, attr, val, descend) ==
    IF attr = NULL /\ val # NULL THEN NULL
    ELSE Search(mxmlWalkNext(node, top, descend), top, name, attr, val, descend)

-----------------------------------------------------------------------------
\* Reference: a tree in document order.
Preorder(top) ==
    LET f[x \in Node] == <<x>> \o FlattenSeq([i \in 1..Len(Kids(x)) |-> f[Kids(x)[i]]]) IN f[top]

\* All results of repeating a search until it returns NULL.
FindAll(top, name, attr, val, first, then) ==
    LET f[y \in Ptr] == IF y = NULL THEN <<>>
                        ELSE <<y>> \o f[mxmlFindElement(y, top, name, attr, val, then)]
    IN f[mxmlFindElement(top, top, name, attr, val, first)]

\* mxmlWalkNext from any top visits what is below it once, in document order,
\* and never leaves it, wherever the top stands in a larger tree;
\* mxmlWalkPrev from the last node goes the same way back.
WalksInOrder == \A top \in live :
    LET s == Preorder(top) IN
    \A i \in 1..Len(s) :
        /\ mxmlWalkNext(s[i], top, "descend") = (IF i = Len(s) THEN NULL ELSE s[i + 1])
        /\ i > 1 => mxmlWalkPrev(s[i], top, "descend") = (IF i = 2 THEN NULL ELSE s[i - 1])

\* Repeated searches with MXML_DESCEND give every matching element below top in
\* document order; MXML_DESCEND_FIRST and then MXML_NO_DESCEND from each result
\* give every matching child of top.
FindsAll == \A top \in live, name \in Names \cup {NULL}, attr \in AttrNames \cup {NULL} :
    \A val \in IF attr = NULL THEN {NULL} ELSE Values \cup {NULL} :
        LET Hit(m) == Matches(m, name, attr, val) IN
        /\ FindAll(top, name, attr, val, "descend", "descend")
             = SelectSeq(Tail(Preorder(top)), Hit)
        /\ FindAll(top, name, attr, val, "first", "no") = SelectSeq(Kids(top), Hit)
=============================================================================
