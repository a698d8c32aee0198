------------------------------ MODULE XmlTree ------------------------------
(***************************************************************************)
(* The node heap of Mini-XML (src/dev/src/pubfun/xml/mxml-node.c,          *)
(* mxml-attr.c, mxml-set.c): nodes linked by parent, child, last_child,    *)
(* prev and next, with a type, a value, attributes and a reference count.  *)
(* One action per library call that changes the heap.  A call whose range  *)
(* check or allocation fails returns without a change and is a stuttering  *)
(* step.  Strings are members of small sets.                               *)
(***************************************************************************)
EXTENDS Naturals, FiniteSets, Sequences

CONSTANTS Node,           \* addresses calloc may return
          NULL,
          Names,          \* element names
          CDataNames,     \* the ones that begin with ![CDATA[
          Values,         \* integers, reals and strings of value nodes
          AttrNames,
          Data,           \* custom data
          MaxExtras       \* bound: value and CDATA nodes, attributes and retained references

ASSUME TreeAssumption == /\ NULL \notin Node \cup AttrNames \cup Names \cup Values \cup Data
                         /\ CDataNames \subseteq Names
                         /\ MaxExtras \in Nat

VARIABLES live,    \* allocated nodes
          h,       \* the five links of every node
          kind,    \* node->type
          value,   \* name, number, string or custom data
          attrs,   \* value.element.attrs, in order
          ref,     \* node->ref_count
          datum    \* whether a node owns a piece of custom data

vars == <<live, h, kind, value, attrs, ref, datum>>

Ptr   == Node \cup {NULL}
Links == [parent : [Node -> Ptr], child : [Node -> Ptr], last_child : [Node -> Ptr],
          prev : [Node -> Ptr], next : [Node -> Ptr]]
Kinds == {"element", "integer", "opaque", "real", "text", "custom"}
Attr  == [name : AttrNames, value : Values \cup {NULL}]

\* *p = v for a pointer field f; a store through NULL is never made.
Store(f, p, v) == IF p = NULL THEN f ELSE [f EXCEPT ![p] = v]

-----------------------------------------------------------------------------
(***************************************************************************)
(* Linking and unlinking.                                                  *)
(***************************************************************************)

\* Mutant: mxmlRemove forgets node->next.
Unlink_next(g, n) ==
    LET p == g.parent[n]  a == g.prev[n]  b == g.next[n] IN
    IF p = NULL THEN g ELSE
    [parent     |-> Store(g.parent, n, NULL),
     child      |-> IF a = NULL THEN Store(g.child, p, b) ELSE g.child,
     last_child |-> IF b = NULL THEN Store(g.last_child, p, a) ELSE g.last_child,
     prev       |-> Store(Store(g.prev, b, a), n, NULL),
     next       |-> Store(g.next, a, b)]

\* mxmlRemove: nothing without a parent; else the neighbours, or the parent's
\* child and last_child, skip the node.
Unlink(g, n) ==
    LET p == g.parent[n]  a == g.prev[n]  b == g.next[n] IN
    IF p = NULL THEN g ELSE
    [parent     |-> Store(g.parent, n, NULL),
     child      |-> IF a = NULL THEN Store(g.child, p, b) ELSE g.child,
     last_child |-> IF b = NULL THEN Store(g.last_child, p, a) ELSE g.last_child,
     prev       |-> Store(Store(g.prev, b, a), n, NULL),
     next       |-> Store(Store(g.next, a, b), n, NULL)]

\* MXML_ADD_BEFORE without a child of p to go by: as the first child.
LinkFirst(g, p, n) ==
    LET f == g.child[p] IN
    [parent     |-> Store(g.parent, n, p),
     child      |-> Store(g.child, p, n),
     last_child |-> IF f = NULL THEN Store(g.last_child, p, n) ELSE g.last_child,
     prev       |-> Store(g.prev, f, n),
     next       |-> Store(g.next, n, f)]

\* MXML_ADD_BEFORE a child c of p.
LinkBefore(g, p, c, n) ==
    LET a == g.prev[c] IN
    [parent     |-> Store(g.parent, n, p),
     child      |-> IF a = NULL THEN Store(g.child, p, n) ELSE g.child,
     last_child |-> g.last_child,
     prev       |-> Store(Store(g.prev, n, a), c, n),
     next       |-> Store(Store(g.next, n, c), a, n)]

\* MXML_ADD_AFTER without a child of p to go by: as the last child.
LinkLast(g, p, n) ==
    LET l == g.last_child[p] IN
    [parent     |-> Store(g.parent, n, p),
     child      |-> IF l = NULL THEN Store(g.child, p, n) ELSE g.child,
     last_child |-> Store(g.last_child, p, n),
     prev       |-> Store(g.prev, n, l),
     next       |-> Store(g.next, l, n)]

\* MXML_ADD_AFTER a child c of p.
LinkAfter(g, p, c, n) ==
    LET b == g.next[c] IN
    [parent     |-> Store(g.parent, n, p),
     child      |-> g.child,
     last_child |-> IF b = NULL THEN Store(g.last_child, p, n) ELSE g.last_child,
     prev       |-> Store(Store(g.prev, n, c), b, n),
     next       |-> Store(Store(g.next, n, b), c, n)]

\* Mutant: the neighbour need not be a child of p.
AddTo_foreign(g0, p, where, c, n) ==
    LET g == Unlink(g0, n) IN
    IF where = "before"
    THEN IF c = NULL \/ c = g.child[p] THEN LinkFirst(g, p, n) ELSE LinkBefore(g, p, c, n)
    ELSE IF c = NULL \/ c = g.last_child[p] THEN LinkLast(g, p, n) ELSE LinkAfter(g, p, c, n)

\* The links after mxmlAdd: the node leaves its old parent first.
AddTo(g0, p, where, c, n) ==
    LET g == Unlink(g0, n) IN
    IF where = "before"
    THEN IF c = NULL \/ c = g.child[p] \/ g.parent[c] # p
         THEN LinkFirst(g, p, n) ELSE LinkBefore(g, p, c, n)
    ELSE IF c = NULL \/ c = g.last_child[p] \/ g.parent[c] # p
         THEN LinkLast(g, p, n) ELSE LinkAfter(g, p, c, n)

\* n and the nodes below it.
Sub(g, n) ==
    LET Closed == {S \in SUBSET Node : n \in S /\ \A x \in Node : g.parent[x] \in S => x \in S}
    IN {m \in Node : \A S \in Closed : m \in S}

\* Freed nodes; calloc returns them with all links NULL.
Cleared(g, D) ==
    [parent     |-> [x \in Node |-> IF x \in D THEN NULL ELSE g.parent[x]],
     child      |-> [x \in Node |-> IF x \in D THEN NULL ELSE g.child[x]],
     last_child |-> [x \in Node |-> IF x \in D THEN NULL ELSE g.last_child[x]],
     prev       |-> [x \in Node |-> IF x \in D THEN NULL ELSE g.prev[x]],
     next       |-> [x \in Node |-> IF x \in D THEN NULL ELSE g.next[x]]]

-----------------------------------------------------------------------------
\* The bound on what makes a tree more than a shape.
AllAttrs == UNION {{n} \X DOMAIN attrs[n] : n \in Node}
Room == Cardinality({m \in live : kind[m] # "element" \/ value[m] \in CDataNames})
        + Cardinality(AllAttrs) + Cardinality({m \in live : ref[m] > 1}) < MaxExtras

(***************************************************************************)
(* Creating nodes.                                                         *)
(***************************************************************************)

\* mxml_new: a node of type k and value v at the end of p's children.
mxml_new(n, p, k, v) ==
    /\ n \notin live /\ p \in live \cup {NULL}
    /\ k # "element" \/ v \in CDataNames => Room
    /\ live' = live \cup {n}
    /\ h' = IF p = NULL THEN h ELSE AddTo(h, p, "after", NULL, n)
    /\ kind' = [kind EXCEPT ![n] = k]
    /\ value' = [value EXCEPT ![n] = v]
    /\ ref' = [ref EXCEPT ![n] = 1]
    /\ UNCHANGED attrs

mxmlNewElement(n, p) ==
    \E v \in Names \ CDataNames : mxml_new(n, p, "element", v) /\ UNCHANGED datum

\* "![CDATA[%s]]" makes a name of CDataNames.
mxmlNewCDATA(n, p) ==
    \E v \in CDataNames : mxml_new(n, p, "element", v) /\ UNCHANGED datum

\* An element named ?xml version="..."? without a parent.
mxmlNewXML(n) ==
    \E v \in Names \ CDataNames : mxml_new(n, NULL, "element", v) /\ UNCHANGED datum

mxmlNewInteger(n, p) ==
    \E v \in Values : mxml_new(n, p, "integer", v) /\ UNCHANGED datum

mxmlNewOpaque(n, p) ==
    \E v \in Values : mxml_new(n, p, "opaque", v) /\ UNCHANGED datum

mxmlNewReal(n, p) ==
    \E v \in Values : mxml_new(n, p, "real", v) /\ UNCHANGED datum

mxmlNewText(n, p) ==
    \E v \in Values : mxml_new(n, p, "text", v) /\ UNCHANGED datum

\* The same with a formatted string.
mxmlNewTextf(n, p) ==
    \E v \in Values : mxml_new(n, p, "text", v) /\ UNCHANGED datum

\* The node takes over d, which no other node has.
mxmlNewCustom(n, p) ==
    \E d \in Data : /\ datum[d] = "free"
                    /\ mxml_new(n, p, "custom", d)
                    /\ datum' = [datum EXCEPT ![d] = "held"]

-----------------------------------------------------------------------------
(***************************************************************************)
(* Moving and deleting nodes.                                              *)
(***************************************************************************)

\* A caller may not put a node below itself nor name the node as its own
\* neighbour: the code does not check it and would close a cycle.
mxmlAdd(p, where, c, n) ==
    /\ {p, n} \subseteq live /\ c \in live \cup {NULL}
    /\ c # n /\ p \notin Sub(h, n)
    /\ h' = AddTo(h, p, where, c, n)
    /\ UNCHANGED <<live, kind, value, attrs, ref, datum>>

mxmlRemove(n) ==
    /\ n \in live
    /\ h' = Unlink(h, n)
    /\ UNCHANGED <<live, kind, value, attrs, ref, datum>>

\* Mutant: custom data is not handed to its destructor.
Destroyed_kept(D) == datum

\* The destructor calls of mxmlDelete for the custom nodes of D.
Destroyed(D) == [d \in Data |-> IF \E m \in D : kind[m] = "custom" /\ value[m] = d
                                THEN "free" ELSE datum[d]]

\* mxmlDelete: the node leaves its parent, its children are deleted one after
\* the other, their values are freed.
DeleteTree(n) ==
    LET D == Sub(h, n) IN
    /\ live'  = live \ D
    /\ h'     = Cleared(Unlink(h, n), D)
    /\ datum' = Destroyed(D)
    /\ kind'  = [m \in Node |-> IF m \in D THEN "element" ELSE kind[m]]
    /\ value' = [m \in Node |-> IF m \in D THEN NULL ELSE value[m]]
    /\ attrs' = [m \in Node |-> IF m \in D THEN <<>> ELSE attrs[m]]
    /\ ref'   = [m \in Node |-> IF m \in D THEN 0 ELSE ref[m]]

mxmlDelete(n) == n \in live /\ DeleteTree(n)

mxmlRetain(n) ==
    /\ n \in live /\ ref[n] < 2 /\ Room
    /\ ref' = [ref EXCEPT ![n] = @ + 1]
    /\ UNCHANGED <<live, h, kind, value, attrs, datum>>

\* The last reference deletes the node and all its children, whatever
\* references to them there are.
mxmlRelease(n) ==
    /\ n \in live
    /\ IF ref[n] <= 1
       THEN DeleteTree(n)
       ELSE /\ ref' = [ref EXCEPT ![n] = @ - 1]
            /\ UNCHANGED <<live, h, kind, value, attrs, datum>>

-----------------------------------------------------------------------------
(***************************************************************************)
(* Attributes (mxml-attr.c).                                               *)
(***************************************************************************)

\* The positions of an attribute; the loops take the first.
AttrAt(n, a) == {i \in DOMAIN attrs[n] : attrs[n][i].name = a}
FirstOf(S) == CHOOSE i \in S : \A j \in S : i <= j

\* mxmlElementGetAttr: an attribute whose value is NULL is as good as none.
mxmlElementGetAttr(n, a) ==
    IF kind[n] # "element" \/ AttrAt(n, a) = {} THEN NULL
    ELSE attrs[n][FirstOf(AttrAt(n, a))].value

\* Mutant: the new attribute is appended without looking for the old one.
SetAttr_append(n, a, v) == Append(attrs[n], [name |-> a, value |-> v])

\* mxml_set_attr: the value is replaced where the name is found, else a pair
\* is added at the end.
mxml_set_attr(n, a, v) ==
    IF AttrAt(n, a) # {}
    THEN [attrs[n] EXCEPT ![FirstOf(AttrAt(n, a))].value = v]
    ELSE Append(attrs[n], [name |-> a, value |-> v])

mxmlElementSetAttr(n, a, v) ==
    /\ n \in live /\ kind[n] = "element"
    /\ AttrAt(n, a) # {} \/ Room
    /\ attrs' = [attrs EXCEPT ![n] = mxml_set_attr(n, a, v)]
    /\ UNCHANGED <<live, h, kind, value, ref, datum>>

\* The same with a formatted value, which cannot be NULL.
mxmlElementSetAttrf(n, a, v) ==
    /\ v # NULL
    /\ mxmlElementSetAttr(n, a, v)

\* The pairs behind the deleted one move down.
mxmlElementDeleteAttr(n, a) ==
    /\ n \in live /\ kind[n] = "element" /\ AttrAt(n, a) # {}
    /\ LET i == FirstOf(AttrAt(n, a)) IN
       attrs' = [attrs EXCEPT ![n] = SubSeq(@, 1, i - 1) \o SubSeq(@, i + 1, Len(@))]
    /\ UNCHANGED <<live, h, kind, value, ref, datum>>

-----------------------------------------------------------------------------
(***************************************************************************)
(* Values (mxml-set.c): each setter checks the node's type.                *)
(***************************************************************************)
SetValue(n, k, v) ==
    /\ n \in live /\ kind[n] = k
    /\ value' = [value EXCEPT ![n] = v]
    /\ UNCHANGED <<live, h, kind, attrs, ref>>

mxmlSetElement(n) ==
    \E v \in Names \ CDataNames : SetValue(n, "element", v) /\ UNCHANGED datum

mxmlSetCDATA(n) ==
    /\ value[n] \in CDataNames
    /\ \E v \in CDataNames : SetValue(n, "element", v) /\ UNCHANGED datum

mxmlSetInteger(n) == \E v \in Values : SetValue(n, "integer", v) /\ UNCHANGED datum
mxmlSetOpaque(n)  == \E v \in Values : SetValue(n, "opaque", v)  /\ UNCHANGED datum
mxmlSetReal(n)    == \E v \in Values : SetValue(n, "real", v)    /\ UNCHANGED datum
mxmlSetText(n)    == \E v \in Values : SetValue(n, "text", v)    /\ UNCHANGED datum

\* The va_list goes to the variadic _mxml_strdupf: the string is some string.
mxmlSetTextf(n)   == \E v \in Values : SetValue(n, "text", v)    /\ UNCHANGED datum

\* The old data go to the destructor, the node takes over d.
mxmlSetCustom(n) ==
    \E d \in Data : /\ datum[d] = "free"
                    /\ SetValue(n, "custom", d)
                    /\ datum' = [Destroyed({n}) EXCEPT ![d] = "held"]

-----------------------------------------------------------------------------
Init ==
    /\ live = {}
    /\ h = [parent |-> [x \in Node |-> NULL], child |-> [x \in Node |-> NULL],
            last_child |-> [x \in Node |-> NULL], prev |-> [x \in Node |-> NULL],
            next |-> [x \in Node |-> NULL]]
    /\ kind = [x \in Node |-> "element"]
    /\ value = [x \in Node |-> NULL]
    /\ attrs = [x \in Node |-> <<>>]
    /\ ref = [x \in Node |-> 0]
    /\ datum = [d \in Data |-> "free"]

Grow == \E n \in Node :
    \/ mxmlNewXML(n)
    \/ \E p \in Ptr : \/ mxmlNewElement(n, p) \/ mxmlNewCDATA(n, p) \/ mxmlNewInteger(n, p)
                      \/ mxmlNewOpaque(n, p)  \/ mxmlNewReal(n, p)  \/ mxmlNewText(n, p)
                      \/ mxmlNewTextf(n, p)   \/ mxmlNewCustom(n, p)

Reshape == \E n \in Node :
    \/ \E p \in Node, c \in Ptr, w \in {"before", "after"} : mxmlAdd(p, w, c, n)
    \/ mxmlRemove(n) \/ mxmlDelete(n) \/ mxmlRetain(n) \/ mxmlRelease(n)

Edit == \E n \in Node :
    \/ \E a \in AttrNames : \/ mxmlElementDeleteAttr(n, a)
                            \/ \E v \in Values \cup {NULL} : \/ mxmlElementSetAttr(n, a, v)
                                                             \/ mxmlElementSetAttrf(n, a, v)
    \/ mxmlSetElement(n) \/ mxmlSetCDATA(n) \/ mxmlSetInteger(n) \/ mxmlSetOpaque(n)
    \/ mxmlSetReal(n) \/ mxmlSetText(n) \/ mxmlSetTextf(n) \/ mxmlSetCustom(n)

Next == Grow \/ Reshape \/ Edit

Spec == Init /\ [][Next]_vars

-----------------------------------------------------------------------------
(***************************************************************************)
(* Properties.                                                             *)
(***************************************************************************)

\* Every variable has its type.
TypeOK ==
    /\ live \in SUBSET Node
    /\ h \in Links
    /\ kind \in [Node -> Kinds]
    /\ value \in [Node -> Names \cup Values \cup Data \cup {NULL}]
    /\ attrs \in [Node -> Seq(Attr)]
    /\ ref \in [Node -> Nat]
    /\ datum \in [Data -> {"free", "held"}]

\* next and prev of two neighbours agree and the neighbours share a parent.
Neighbours(g) == \A m, n \in Node :
    (g.next[m] = n <=> g.prev[n] = m) /\ (g.next[m] = n => g.parent[m] = g.parent[n])

\* child and last_child are the nodes without prev and next under a parent,
\* and a parent has both or none.
Ends(g) == \A p \in Node :
    /\ g.child[p] = NULL <=> g.last_child[p] = NULL
    /\ \A n \in Node : /\ g.child[p] = n      <=> (g.parent[n] = p /\ g.prev[n] = NULL)
                       /\ g.last_child[p] = n <=> (g.parent[n] = p /\ g.next[n] = NULL)

\* A node without a parent has no neighbours.
Roots(g) == \A n \in Node : g.parent[n] = NULL => g.prev[n] = NULL /\ g.next[n] = NULL

\* Only nodes of L have links, and only to nodes of L.
Inside(g, L) == \A n \in Node :
    /\ g.parent[n] \in L \cup {NULL}
    /\ n \notin L => g.parent[n] = NULL /\ g.child[n] = NULL /\ g.last_child[n] = NULL

\* Whatever calls of mxmlAdd, mxmlRemove, mxmlDelete and mxmlRelease were made,
\* the five links of the nodes agree and no node links to a freed one.
LinksOK == Neighbours(h) /\ Ends(h) /\ Roots(h) /\ Inside(h, live)

\* No chain of parents ever closes, however nodes are moved under each other: in
\* every set of nodes one has its parent outside, so that the climb of
\* mxmlWalkNext and the descent of mxmlDelete come to an end.
NoCycle == \A S \in SUBSET Node : S # {} => \E x \in S : h.parent[x] \notin S

\* An element has no two attributes of one name, so the attribute that
\* mxmlElementGetAttr finds is the one mxmlElementDeleteAttr removes.
AttrsUnique == \A n \in Node : \A i, j \in DOMAIN attrs[n] :
    attrs[n][i].name = attrs[n][j].name => i = j

\* Custom data are destroyed with their node or by mxmlSetCustom and never
\* while a node holds them; data handed over are held until then.
DataOwned == \A d \in Data :
    datum[d] = "held" <=> \E m \in live : kind[m] = "custom" /\ value[m] = d
=============================================================================
