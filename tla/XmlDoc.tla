------------------------------- MODULE XmlDoc -------------------------------
(***************************************************************************)
(* The message interface of xml.c: one document per process, <Message>     *)
(* with a <Public> element and <RecordSet> lists, built with XmlSet and    *)
(* XmlAddList, read with XmlGet and XmlFetchList, written and read back as *)
(* a string.  The tree is the abstract document of XmlFile.                *)
(***************************************************************************)
EXTENDS XmlFile, TLC

CONSTANTS Tags,      \* names of public fields
          Sets,      \* names of record sets
          RecIDs,
          EmNames,   \* names of the elements of a record
          Strings,   \* values
          Ints       \* integers of at most ten characters, as sData holds no more

VARIABLES doc,       \* the nodes of the document
          l_pIntXml, \* its root, 0 for NULL, -1 for a tree that was freed
          heap,      \* "sound", or "corrupt" once a freed tree was used
          torn,      \* history: XmlInit failed halfway and nothing was loaded since
          wire,      \* a string that was saved and is not yet loaded
          cut,       \* the buffer was too small for the string
          content,   \* auxiliary: the message in the document
          held       \* auxiliary: the message that loading wire gives

vars == <<doc, l_pIntXml, heap, torn, wire, cut, content, held>>

\* sprintf "%d".
Dec(n) == ToString(n)

Values == Strings \cup {Dec(n) : n \in Ints}
Field  == ({"Public"} \X {0} \X Tags) \cup (Sets \X RecIDs \X EmNames)

-----------------------------------------------------------------------------
\* Mutant: the attribute is not looked at.
Find_last(d, p, name, attr, v) ==
    LET Hit(i) == d[i].kind = "element" /\ d[i].name = name /\ d[i].up = p /\ p # 0
    IN SelectLastInSeq([i \in 1..Len(d) |-> i], Hit)

\* mxmlFindElement with MXML_DESCEND_FIRST: the first child of p with the name
\* and, unless attr is NULL, the value of that attribute.
Find(d, p, name, attr, v) ==
    LET Hit(i) == /\ d[i].kind = "element" /\ d[i].name = name
                  /\ attr = Nothing \/ AttrOf(d[i].attrs, attr) = v
                  /\ d[i].up = p /\ p # 0
    IN SelectInSeq([i \in 1..Len(d) |-> i], Hit)

Message(d, root) == Find(d, root, "Message", Nothing, Nothing)
Public(d, root)  == Find(d, Message(d, root), "Public", Nothing, Nothing)

ValueAt(d, n) == IF n = 0 THEN Nothing ELSE AttrOf(d[n].attrs, "value")

\* XmlGet: the value of a public field, Nothing for the return code -1.
XmlGet(d, root, tag) == ValueAt(d, Find(d, Public(d, root), tag, Nothing, Nothing))

\* XmlFetchList.
XmlFetchList(d, root, set, rec, em) ==
    LET s == Find(d, Message(d, root), "RecordSet", "name", set)
        r == Find(d, s, "Record", "RecID", Dec(rec))
    IN ValueAt(d, Find(d, r, em, Nothing, Nothing))

\* The message in a document.
Content(d, root) == [f \in Field |->
    IF f[1] = "Public" THEN XmlGet(d, root, f[3]) ELSE XmlFetchList(d, root, f[1], f[2], f[3])]

NoMessage == [f \in Field |-> Nothing]

Loaded(toks) == LET l == mxmlLoadString(<<>>, 0, toks, "none") IN
    Content(IF Result(l) = 0 THEN <<>> ELSE l.doc, Result(l))

-----------------------------------------------------------------------------
Usable == l_pIntXml # -1

\* The tree is left alone between a save and the load of the string: the string
\* is a copy of it, so calls in between change nothing for either.
Ready == Usable /\ wire = <<>>

\* The document becomes d with this root.
Becomes(d, root) ==
    /\ doc' = d /\ l_pIntXml' = root
    /\ content' = IF root = -1 THEN NoMessage ELSE Content(d, root)

\* d with the attribute set at the child found, or at a new last child of p.
Put(d, p, n, name, attr, v) ==
    IF n # 0 THEN [d EXCEPT ![n].attrs = WithAttr(@, attr, v)]
    ELSE Append(d, Elem(p, name, <<<<attr, v>>>>))

\* XmlInit, with every allocation.  The old tree is deleted.
XmlInit ==
    /\ Ready
    /\ Becomes(<<Elem(0, "?xml", <<>>), Elem(1, "Message", <<>>), Elem(2, "Public", <<>>)>>, 1)
    /\ UNCHANGED <<heap, torn, wire, cut, held>>

\* The first allocation fails, or a later one: then the tree is deleted and
\* the handle still points to it.
XmlInitFails ==
    /\ Usable
    /\ \E root \in {0, -1} : Becomes(<<>>, root) /\ torn' = (root = -1)
    /\ UNCHANGED <<heap, wire, cut, held>>

\* The next XmlInit deletes that tree again, and XmlFree, XmlGet, XmlSet and the
\* others go through it: what follows is undefined.  XmlLoadString is not among them.
UseFreed ==
    /\ l_pIntXml = -1 /\ heap = "sound"
    /\ heap' = "corrupt"
    /\ UNCHANGED <<doc, l_pIntXml, torn, wire, cut, content, held>>

\* Mutant: the handle is kept.
XmlFree_kept ==
    /\ Ready
    /\ Becomes(<<>>, IF l_pIntXml = 0 THEN 0 ELSE -1)
    /\ UNCHANGED <<heap, torn, wire, cut, held>>

XmlFree ==
    /\ Ready
    /\ Becomes(<<>>, 0)
    /\ UNCHANGED <<heap, torn, wire, cut, held>>

\* XmlSet: the element is found or added under <Public>; when it cannot be added
\* nothing changes.
SetField(tag, v) ==
    LET p == Public(doc, l_pIntXml) IN
    /\ Ready /\ p # 0
    /\ Becomes(Put(doc, p, Find(doc, p, tag, Nothing, Nothing), tag, "value", v), l_pIntXml)
    /\ UNCHANGED <<heap, torn, wire, cut, held>>

XmlSet(tag, v)     == SetField(tag, v)
XmlCharSet(tag, v) == SetField(tag, v)
XmlIntSet(tag, n)  == SetField(tag, Dec(n))

\* XmlAddList: the record set is found or added in <Message> (m), then the record
\* in it, then the element in that.  Each gives the document and the node.
RecordSet(d, m, set) ==
    LET s == Find(d, m, "RecordSet", "name", set)
    IN IF s # 0 THEN <<d, s>> ELSE <<Put(d, m, 0, "RecordSet", "name", set), Len(d) + 1>>
Record(d, s, rec) ==
    LET r == Find(d, s, "Record", "RecID", Dec(rec))
    IN IF r # 0 THEN <<d, r>> ELSE <<Put(d, s, 0, "Record", "RecID", Dec(rec)), Len(d) + 1>>

AddToList(set, rec, em, v) ==
    LET m == Message(doc, l_pIntXml)
        s == RecordSet(doc, m, set)
        r == Record(s[1], s[2], rec)
    IN /\ Ready /\ m # 0
       /\ Becomes(Put(r[1], r[2], Find(r[1], r[2], em, Nothing, Nothing), em, "value", v), l_pIntXml)
       /\ UNCHANGED <<heap, torn, wire, cut, held>>

\* The allocation of the record or of the element fails: what was added before
\* it stays.
AddListFails(set, rec, em) ==
    LET m == Message(doc, l_pIntXml)
        s == RecordSet(doc, m, set)
        r == Record(s[1], s[2], rec)
    IN /\ Ready /\ m # 0 /\ Find(r[1], r[2], em, Nothing, Nothing) = 0
       /\ \A n \in 1..Len(doc) : doc[n].kind = "element" /\ doc[n].name # "RecordSet"   \* bound: in the first list
       /\ \E d \in {s[1], r[1]} : d # doc /\ Becomes(d, l_pIntXml)
       /\ UNCHANGED <<heap, torn, wire, cut, held>>

XmlAddList(set, rec, em, v)    == AddToList(set, rec, em, v)
XmlAddIntList(set, rec, em, n) == AddToList(set, rec, em, Dec(n))

\* What a buffer that is too small holds of a string: whole tokens, then
\* perhaps a part of a tag.
PartOf(tok) ==
    CASE tok.t = "open"  -> {<<>>, <<[tok EXCEPT !.end = "eof", !.attrs = <<>>]>>, <<[tok EXCEPT !.end = "bad"]>>}
      [] tok.t = "close" -> {<<>>, <<[tok EXCEPT !.name = "cut"]>>, <<tok>>}
      [] tok.t = "pi"    -> {<<>>, <<[t |-> "cut"]>>}
      [] OTHER -> {<<>>}
Cuts(toks) == {toks} \cup UNION {{SubSeq(toks, 1, k - 1) \o x : x \in PartOf(toks[k])} : k \in DOMAIN toks}

\* mxmlSaveString and mxmlSaveFile; nothing is written for NULL.
Written(ws) == IF l_pIntXml = 0 THEN <<>> ELSE mxml_write_node(doc, l_pIntXml, ws)
Save(ws) ==
    /\ Ready
    /\ ws => \A i \in 1..Len(doc) : doc[i].kind = "element"   \* bound: one round with whitespace
    /\ LET w == Written(ws) IN
        \E s \in Cuts(w) : wire' = s /\ cut' = (s # w) /\ held' = Loaded(s)
    /\ UNCHANGED <<doc, l_pIntXml, heap, torn, content>>

\* XmlSaveString without, XmlShow with the whitespace callback; the file is read
\* back as a string.
XmlSaveString == Save(FALSE)
XmlShow       == Save(TRUE)

\* XmlLoadString.  The handle is overwritten: a tree it points to is not freed, and
\* one that was freed is not used.
XmlLoadString ==
    /\ heap = "sound" /\ wire # <<>>
    /\ LET l == mxmlLoadString(<<>>, 0, wire, "none") IN
        Becomes(IF Result(l) = 0 THEN <<>> ELSE l.doc, Result(l))
    /\ wire' = <<>> /\ cut' = FALSE /\ held' = NoMessage /\ torn' = FALSE
    /\ UNCHANGED heap

Init == /\ doc = <<>> /\ l_pIntXml = 0 /\ heap = "sound" /\ torn = FALSE
        /\ wire = <<>> /\ cut = FALSE /\ content = NoMessage /\ held = NoMessage

Next ==
    \/ XmlInit \/ XmlInitFails \/ UseFreed \/ XmlFree \/ XmlSaveString \/ XmlShow \/ XmlLoadString
    \/ \E tag \in Tags : \/ \E v \in Strings : XmlSet(tag, v) \/ XmlCharSet(tag, v)
                         \/ \E n \in Ints : XmlIntSet(tag, n)
    \/ \E set \in Sets, rec \in RecIDs, em \in EmNames :
          \/ \E v \in Strings : XmlAddList(set, rec, em, v)
          \/ \E n \in Ints : XmlAddIntList(set, rec, em, n)
          \/ AddListFails(set, rec, em)

Spec == Init /\ [][Next]_vars

-----------------------------------------------------------------------------
\* The document as a message, and the saved string as the message that loading
\* it gives.
Records == INSTANCE XmlRecords WITH
    Value <- Values, message <- content, saved <- held

\* Fields set are the fields read, whatever else was set before or after; a
\* saved string holds exactly the message, with or without the whitespace of
\* XmlShow; and a string cut off anywhere is refused or holds the whole message
\* or none of it, never a part.
RecordsSpec == Records!Spec

\* The handle is NULL or the outermost node and all nodes are below it: no load,
\* of whatever was saved and cut, leaves a node of the document out of its reach.
HandleWhole == IF l_pIntXml \in {0, -1} THEN doc = <<>>
               ELSE doc[l_pIntXml].up = 0 /\ Under(doc, l_pIntXml) = 1..Len(doc)

\* A freed tree is used only by a caller that goes on after XmlInit failed halfway
\* without loading a string first: every other sequence of calls, XmlFree and the
\* failure of the first allocation included, leaves a handle that may be used.
DocSound == HandleWhole /\ (heap = "corrupt" => torn)
=============================================================================
