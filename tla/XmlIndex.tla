------------------------------ MODULE XmlIndex ------------------------------
(***************************************************************************)
(* Indexes (mxml-index.c).  A node is the pair of its element name and the *)
(* value of the indexed attribute, both numbers in the order of strcmp.    *)
(***************************************************************************)
EXTENDS Integers, FiniteSets, Sequences, SequencesExt

CONSTANTS Keys,      \* names and values
          MaxIndex   \* bound on the nodes of an index

VARIABLES given,     \* the nodes in the order of the tree
          nodes,     \* ind->nodes, <<>> before it is sorted
          cur_node,
          attr,      \* TRUE: the index is on an attribute, too
          want,      \* what is looked for: element and value, NULL for any
          out        \* history: the positions returned since the last reset

indexVars == <<given, nodes, cur_node, attr, want, out>>

NULL == 0

\* index_compare: the name, then the attribute's value.
index_compare(a, m, n) == IF m[1] # n[1] THEN m[1] - n[1] ELSE IF a THEN m[2] - n[2] ELSE 0

\* index_find: the wanted name and value less those of the node.
index_find(w, n) ==
    IF w[1] # NULL /\ w[1] # n[1] THEN w[1] - n[1]
    ELSE IF w[2] # NULL /\ w[2] # n[2] THEN w[2] - n[2] ELSE 0

Swap(s, i, j) == [s EXCEPT ![i] = s[j], ![j] = s[i]]

\* The first position from i on, up to right, whose node is above the pivot, and
\* the last one from j on, down to left, whose node is not.
MoveLeft(a, s, pivot, i, right) ==
    LET S == {k \in i..right : k = right \/ index_compare(a, s[k], pivot) > 0}
    IN IF S = {} THEN i ELSE CHOOSE k \in S : \A n \in S : k <= n
MoveRight(a, s, pivot, j, left) ==
    LET S == {k \in left..j : k = left \/ index_compare(a, s[k], pivot) <= 0}
    IN IF S = {} THEN j ELSE CHOOSE k \in S : \A n \in S : k >= n

\* The loop that partitions: the nodes and the place of the pivot.
RECURSIVE Partition(_, _, _, _, _, _, _)
Partition(a, s, pivot, left, right, templ, tempr) ==
    IF templ >= tempr THEN <<s, tempr>>
    ELSE LET i == MoveLeft(a, s, pivot, templ, right)
             j == MoveRight(a, s, pivot, tempr, left)
         IN Partition(a, IF i < j THEN Swap(s, i, j) ELSE s, pivot, left, right, i, j)

\* Mutant: the right partition is left as it is when it has two nodes.
RECURSIVE Sort_short(_, _, _, _)
Sort_short(a, s, left, right) ==
    LET p == Partition(a, s, s[left], left, right, left, right)
        t == p[1]  j == p[2]
        u == IF index_compare(a, s[left], t[j]) > 0 THEN [t EXCEPT ![left] = t[j], ![j] = s[left]] ELSE t
        v == IF left < j - 1 THEN Sort_short(a, u, left, j - 1) ELSE u
    IN IF right > j + 2 THEN Sort_short(a, v, j + 1, right) ELSE v

RECURSIVE index_sort(_, _, _, _)
index_sort(a, s, left, right) ==
    LET p == Partition(a, s, s[left], left, right, left, right)
        t == p[1]  j == p[2]
        u == IF index_compare(a, s[left], t[j]) > 0 THEN [t EXCEPT ![left] = t[j], ![j] = s[left]] ELSE t
        v == IF left < j - 1 THEN index_sort(a, u, left, j - 1) ELSE u
    IN IF right > j + 1 THEN index_sort(a, v, j + 1, right) ELSE v

\* The position of the first match, 0 for none: a binary search, from a match
\* back to the first one, and the last two positions one by one.
RECURSIVE Bisect(_, _, _, _)
Bisect(s, w, first, last) ==
    LET current == (first + last) \div 2
        Hit(k) == index_find(w, s[k]) = 0
        Back == CHOOSE k \in 1..current : /\ \A n \in k..current : Hit(n)
                                          /\ k = 1 \/ ~Hit(k - 1)
    IN IF last - first <= 1 THEN IF Hit(first) THEN first ELSE IF Hit(last) THEN last ELSE 0
       ELSE IF Hit(current) THEN Back
       ELSE IF index_find(w, s[current]) < 0 THEN Bisect(s, w, first, current)
       ELSE Bisect(s, w, current, last)

FirstMatch(s, w) == Bisect(s, w, 1, Len(s))

-----------------------------------------------------------------------------
IndexInit ==
    /\ given \in UNION {[1..n -> Keys \X Keys] : n \in 1..MaxIndex}
    /\ attr \in BOOLEAN
    /\ nodes = <<>> /\ cur_node = 0 /\ want = <<NULL, NULL>> /\ out = <<>>

\* mxmlIndexNew collects the nodes and sorts them.
mxmlIndexNew ==
    /\ nodes = <<>>
    /\ nodes' = IF Len(given) > 1 THEN index_sort(attr, given, 1, Len(given)) ELSE given
    /\ UNCHANGED <<given, cur_node, attr, want, out>>

\* mxmlIndexReset, and the caller decides what it looks for.  Without an
\* attribute a value is never found.
mxmlIndexReset ==
    /\ nodes # <<>> /\ cur_node = 0 /\ want = <<NULL, NULL>>   \* bound: one search per index
    /\ want' \in (Keys \cup {NULL}) \X (IF attr THEN Keys \cup {NULL} ELSE {NULL})
    /\ cur_node' = 0 /\ out' = <<>>
    /\ UNCHANGED <<given, nodes, attr>>

\* What mxmlIndexFind returns, 0 for NULL, with mxmlIndexEnum for no criteria.
Found ==
    IF want = <<NULL, NULL>> THEN IF cur_node < Len(nodes) THEN cur_node + 1 ELSE 0
    ELSE IF cur_node = 0 THEN FirstMatch(nodes, want)
    ELSE IF cur_node < Len(nodes) /\ index_find(want, nodes[cur_node + 1]) = 0 THEN cur_node + 1 ELSE 0

\* One call; after NULL the caller stops.
mxmlIndexFind ==
    /\ nodes # <<>> /\ 0 \notin Range(out)
    /\ out' = Append(out, Found)
    /\ cur_node' = IF Found = 0 THEN Len(nodes) ELSE Found
    /\ UNCHANGED <<given, nodes, attr, want>>

IndexNext == mxmlIndexNew \/ mxmlIndexReset \/ mxmlIndexFind

-----------------------------------------------------------------------------
Times(s, n) == Cardinality({i \in DOMAIN s : s[i] = n})
Wanted(n) == index_find(want, n) = 0

\* Calls until NULL return every node of the tree that has the wanted name and
\* value, each as often as it is there, in ascending order.  A search for a value
\* alone needs an index of one name: the nodes are sorted by name first.
FindComplete ==
    LET s == SelectSeq(out, LAMBDA i : i # 0) IN
    0 \in Range(out) /\ given # <<>> /\ (want[1] # NULL \/ want[2] = NULL \/ Cardinality({n[1] : n \in Range(given)}) = 1) =>
        /\ \A n \in Keys \X Keys : Times([i \in DOMAIN s |-> nodes[s[i]]], n)
                                      = IF Wanted(n) THEN Times(given, n) ELSE 0
        /\ \A i \in 1..Len(s) - 1 : s[i] < s[i + 1] /\ index_compare(attr, nodes[s[i]], nodes[s[i + 1]]) <= 0
=============================================================================
