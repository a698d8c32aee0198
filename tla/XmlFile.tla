------------------------------ MODULE XmlFile -------------------------------
(***************************************************************************)
(* Reading and writing XML (src/dev/src/pubfun/xml/mxml-file.c).  A file   *)
(* or a string is a sequence of tokens: a whitespace or another character, *)
(* or one tag with all it contains.  A document is a sequence of nodes in  *)
(* the order of their creation; both the reader and xml.c add a node only  *)
(* as the last child of its parent, so siblings are in ascending order.    *)
(***************************************************************************)
EXTENDS Integers, FiniteSets, Sequences, SequencesExt

Nothing == "nothing"   \* a NULL string

-----------------------------------------------------------------------------
(***************************************************************************)
(* Documents.  Node 0 stands for NULL.                                     *)
(***************************************************************************)
Elem(p, name, attrs) == [up |-> p, kind |-> "element", name |-> name, attrs |-> attrs, ws |-> FALSE]
Val(p, type, s, ws)  == [up |-> p, kind |-> type, name |-> s, attrs |-> <<>>, ws |-> ws]

KidsOf(doc, p) == SelectSeq([i \in 1..Len(doc) |-> i], LAMBDA i : doc[i].up = p)

\* n and all nodes below it; a child is younger than its parent.
Under(doc, n) ==
    LET below[i \in 0..Len(doc)] == i # 0 /\ (i = n \/ below[doc[i].up])
    IN {i \in 1..Len(doc) : below[i]}

\* mxmlElementGetAttr and mxml_set_attr on a list of pairs.
AttrOf(attrs, a) == LET S == {i \in DOMAIN attrs : attrs[i][1] = a} IN
    IF S = {} THEN Nothing ELSE attrs[CHOOSE i \in S : \A j \in S : i <= j][2]

WithAttr(attrs, a, v) == LET S == {i \in DOMAIN attrs : attrs[i][1] = a} IN
    IF S = {} THEN Append(attrs, <<a, v>>) ELSE [i \in DOMAIN attrs |-> IF i \in S THEN <<a, v>> ELSE attrs[i]]

-----------------------------------------------------------------------------
(***************************************************************************)
(* Characters.                                                             *)
(***************************************************************************)

Utf8(ch) ==
    IF ch < 128 THEN <<ch>>
    ELSE IF ch < 2048 THEN <<192 + (ch \div 64), 128 + (ch % 64)>>
    ELSE IF ch < 65536 THEN <<224 + (ch \div 4096), 128 + ((ch \div 64) % 64), 128 + (ch % 64)>>
    ELSE <<240 + (ch \div 262144), 128 + ((ch \div 4096) % 64),
           128 + ((ch \div 64) % 64), 128 + (ch % 64)>>

\* Mutant: every character is encoded, as in mxml-file-utf8.c, which is not built.
add_char_utf8(ch) == Utf8(ch)

\* mxml_add_char: what has the bit 0x80 is stored as one byte.
mxml_add_char(ch) == IF (ch \div 128) % 2 = 1 THEN <<ch % 256>> ELSE Utf8(ch)

\* The putc functions: the argument is a char of the string written, negative
\* from 0x80 on, and one byte is written for it.
Signed(b) == IF b < 128 THEN b ELSE b - 256
mxml_string_putc(c) == IF c < 0 THEN <<c + 256>> ELSE Utf8(c)

\* mxml_bad_char: control characters other than newline, return and tab.
mxml_bad_char(ch) == ch < 32 /\ ch \notin {9, 10, 13}

EOF == 256
\* The getc functions in the encoding they start with and never leave: the
\* first branch takes every byte.
mxml_string_getc(b) == IF mxml_bad_char(b) THEN EOF ELSE b

\* mxmlEntityGetName: the characters written as entities.
mxmlEntityGetName(b) == b \in {34, 38, 60, 62}

-----------------------------------------------------------------------------
(***************************************************************************)
(* mxml_load_data, one token at a time.  The record l holds its variables: *)
(* the nodes made, parent, first, the type of values, the whitespace flag, *)
(* the buffer, the state and the freed nodes.  sax is "off" or what the    *)
(* caller's callback does with every node: "retain" it or not ("drop").    *)
(***************************************************************************)
Load0(doc, top, cb, sax) ==
    [doc |-> doc, top |-> top, cb |-> cb, sax |-> sax, parent |-> top, first |-> 0,
     type |-> IF cb # "none" /\ top # 0 THEN cb ELSE "text",
     ws |-> FALSE, buf |-> <<>>, st |-> "reading", freed |-> {}]

\* Mutant: the error return deletes the open element only.
Fail_parent(l) == [l EXCEPT !.st = "error", !.freed = @ \cup Under(l.doc, l.parent)]

\* goto error: the first node is deleted with all below it.
Fail(l) == [l EXCEPT !.st = "error", !.freed = @ \cup Under(l.doc, l.first)]

\* A node that is complete: the SAX callback sees it and it is released.
Leaf(l, rec) ==
    LET n == Len(l.doc) + 1 IN
    [l EXCEPT !.doc = Append(@, rec),
              !.freed = IF l.sax = "drop" THEN @ \cup {n} ELSE @,
              !.first = IF @ = 0 /\ l.sax # "drop" THEN n ELSE @]

\* The node becomes the parent; its callback chooses the type of its values.
Enter(l, n) == [l EXCEPT !.parent = n, !.type = IF l.cb # "none" /\ n # 0 THEN l.cb ELSE @]

\* The value in the buffer becomes a node at whitespace or <.  A number that
\* does not parse leaves the loop without the error return.
ValueNode(l, space) ==
    LET rec == Val(l.parent, l.type, l.buf, l.ws)
        m   == IF l.type = "ignore" THEN l ELSE Leaf(l, rec)
    IN IF l.buf = <<>> THEN l
       ELSE IF l.type = "custom" THEN Fail(l)    \* no handler is installed
       ELSE IF l.type \in {"integer", "real"} /\ "x" \in Range(l.buf)
            THEN [l EXCEPT !.doc = Append(@, rec), !.st = "stop"]
       ELSE [m EXCEPT !.buf = <<>>, !.ws = space /\ l.type = "text"]

\* A character other than <.
Space(l) ==
    IF l.type \in {"opaque", "custom"} THEN [l EXCEPT !.buf = Append(@, " ")]
    ELSE IF l.buf # <<>> THEN ValueNode(l, TRUE)
    ELSE [l EXCEPT !.ws = (l.type = "text") \/ @]

Char(l, c) == [l EXCEPT !.buf = Append(@, c)]

\* Lone whitespace before a tag is a node of its own.
BeforeTag(l0) ==
    LET l == ValueNode(l0, FALSE) IN
    IF l.st = "reading" /\ l.ws /\ l.type = "text"
    THEN [Leaf(l, Val(l.parent, "text", <<>>, TRUE)) EXCEPT !.ws = FALSE] ELSE l

\* Comments and CDATA sections.
Comment(l, name) == Leaf(l, Elem(l.parent, name, <<>>))
CData(l, name)   == Leaf(l, Elem(l.parent, name, <<>>))

\* A processing instruction becomes the parent of what follows when there is none.
Instruction(l, name) ==
    LET m == Leaf(l, Elem(l.parent, name, <<>>)) IN
    IF l.parent = 0 /\ l.sax # "drop" THEN Enter(m, Len(m.doc)) ELSE m

\* So does a declaration.
Declaration(l, name) ==
    LET m == Leaf(l, Elem(l.parent, name, <<>>)) IN
    IF l.parent = 0 /\ l.sax # "drop" THEN Enter(m, Len(m.doc)) ELSE m

\* Mutant: the element is released while it is still the parent.
Close_late(l, name) ==
    IF l.parent = 0 \/ l.doc[l.parent].name # name THEN Fail(l)
    ELSE LET m == [l EXCEPT !.freed = IF l.sax = "drop" THEN @ \cup Under(l.doc, l.parent) ELSE @]
         IN IF l.sax = "drop" THEN m ELSE Enter(m, l.doc[l.parent].up)

\* A close tag must name the parent; its end is not looked for after EOF.
Close(l, name) ==
    IF l.parent = 0 \/ l.doc[l.parent].name # name THEN Fail(l)
    ELSE Enter([l EXCEPT !.freed = IF l.sax = "drop" THEN @ \cup Under(l.doc, l.parent) ELSE @],
               l.doc[l.parent].up)

\* mxml_parse_element: every attribute has a value and a name of its own.
mxml_parse_element(attrs) ==
    /\ \A i \in DOMAIN attrs : attrs[i][2] # Nothing
    /\ \A i, j \in DOMAIN attrs : attrs[i][1] = attrs[j][1] => i = j

\* An open tag.  end is ">" or "/" (an empty element), "bad" (an error inside
\* the tag), "bad/" (/ without >: the node is deleted first), or "eof" (the
\* input ends in the name).
Open(l, name, attrs, end) ==
    LET n == Len(l.doc) + 1
        m == [l EXCEPT !.doc = Append(@, Elem(l.parent, name, attrs))]
        k == [m EXCEPT !.first = IF @ = 0 THEN n ELSE @]
    IN IF end = "bad/" THEN Fail([m EXCEPT !.freed = @ \cup {n}])
       ELSE IF end = "bad" \/ ~mxml_parse_element(attrs) THEN Fail(m)
       ELSE IF end = "eof" THEN [k EXCEPT !.st = "stop"]
       ELSE IF end = ">" THEN Enter(k, n)
       ELSE IF l.sax # "drop" THEN k
       ELSE [k EXCEPT !.freed = @ \cup {n}, !.first = IF @ = n THEN 0 ELSE @]

\* Mutant: open elements are not looked for.
Finish_lax(l) == [l EXCEPT !.st = "done"]

\* The end of the input: only the outermost parent, below top or without a
\* parent, may still be open.  The climb to it ends where it begins if it takes
\* no step.
Finish(l) ==
    IF l.parent # 0 /\ l.doc[l.parent].up \notin {0, l.top} THEN Fail(l)
    ELSE [l EXCEPT !.st = "done"]

\* The node mxml_load_data returns.
Result(l) == IF l.st # "done" THEN 0 ELSE IF l.parent # 0 THEN l.parent ELSE l.first

Tag(l, tok) ==
    IF l.st # "reading" THEN l ELSE
    CASE tok.t = "comment"  -> Comment(l, tok.name)
      [] tok.t = "cdata"    -> CData(l, tok.name)
      [] tok.t = "pi"       -> Instruction(l, tok.name)
      [] tok.t = "decl"     -> Declaration(l, tok.name)
      [] tok.t = "close"    -> Close(l, tok.name)
      [] tok.t = "open"     -> Open(l, tok.name, tok.attrs, tok.end)
      [] tok.t = "cut"      -> Fail(l)    \* early EOF, bare <, bad entity in a name

\* One token; "badent" is an entity that mxml_get_entity refuses and "badchr"
\* a control character, which reads as the end of the input.
mxml_load_data(l, tok) ==
    CASE tok.t = "sp"     -> Space(l)
      [] tok.t = "chr"    -> Char(l, tok.c)
      [] tok.t = "badent" -> Fail(l)
      [] tok.t = "badchr" -> [l EXCEPT !.st = "stop"]
      [] OTHER            -> LET m == Tag(BeforeTag(l), tok) IN
                             IF m.st = "reading" THEN [m EXCEPT !.buf = <<>>] ELSE m

\* mxmlLoadString, mxmlLoadFile, mxmlLoadFd: all tokens, then the end.
mxmlLoadString(doc, top, toks, cb) ==
    LET step(l, tok) == IF l.st = "reading" THEN mxml_load_data(l, tok) ELSE l
        m == FoldLeft(step, Load0(doc, top, cb, "off"), toks)
    IN IF m.st = "error" THEN m ELSE Finish(m)

-----------------------------------------------------------------------------
(***************************************************************************)
(* mxml_write_node: the tokens of a node, its children and its following   *)
(* siblings.  ws: with a whitespace callback, as mxmlSaveFile and          *)
(* mxmlSaveFd always have one.  No line is ever wrapped.                   *)
(***************************************************************************)
Special(name) == name \in {"?xml", "!DOCTYPE", "!--"}   \* names that begin with ? or !
TagOf(name, attrs, end) ==
    CASE name = "?xml" -> [t |-> "pi", name |-> name]
      [] name = "!DOCTYPE" -> [t |-> "decl", name |-> name]
      [] name = "!--" -> [t |-> "comment", name |-> name]
      [] OTHER -> [t |-> "open", name |-> name, attrs |-> attrs, end |-> end]

Spaces(n) == [i \in 1..n |-> [t |-> "sp"]]

\* _write_ws_cb: a newline before the first element of a parent, an indent of
\* two per level below the root, an indent before a close tag when there are
\* element children, a newline after it.
Depth(doc, i) == LET f[j \in 0..Len(doc)] == IF j = 0 THEN 0 ELSE 1 + f[doc[j].up] IN f[i]
HasElement(doc, p) == \E i \in 1..Len(doc) : doc[i].up = p /\ doc[i].kind = "element"
Indent(doc, i) == LET d == Depth(doc, i) IN IF d > 2 THEN 2 * (d - 2) ELSE 0
BeforeOpen(doc, i) == Spaces(Indent(doc, i) +
    IF doc[i].up # 0 /\ ~\E j \in 1..i - 1 : doc[j].up = doc[i].up /\ doc[j].kind = "element" THEN 1 ELSE 0)
BeforeClose(doc, i) == Spaces(IF HasElement(doc, i) THEN Indent(doc, i) ELSE 0)

\* An element, given the tokens of its children.
WriteElement(doc, ws, kids, i) ==
    LET n == doc[i]
        leaf == KidsOf(doc, i) = <<>>
        W(s) == IF ws THEN s ELSE <<>> IN
    W(BeforeOpen(doc, i)) \o
    (IF Special(n.name) THEN <<TagOf(n.name, <<>>, ">")>> \o kids \o W(IF leaf THEN Spaces(1) ELSE <<>>)
     ELSE IF leaf THEN <<TagOf(n.name, n.attrs, "/")>> \o W(Spaces(1))
     ELSE <<TagOf(n.name, n.attrs, ">")>> \o kids \o W(BeforeClose(doc, i))
          \o <<[t |-> "close", name |-> n.name]>> \o W(Spaces(1)))

\* A value: a text with the space read before it, a number with one when it is not
\* the first child.  The space of a text is left out at the start of a line, which
\* only the whitespace callback begins.
WriteValue(doc, i) ==
    LET n == doc[i]
        gap == CASE n.kind = "text" -> n.ws
                 [] n.kind \in {"integer", "real"} -> \E j \in 1..i - 1 : doc[j].up = n.up
                 [] OTHER -> FALSE
    IN (IF gap THEN Spaces(1) ELSE <<>>) \o [k \in DOMAIN n.name |-> [t |-> "chr", c |-> n.name[k]]]

\* mxml_write_node from a root, which has no siblings, and the newline that
\* mxmlSaveString, mxmlSaveFile and mxmlSaveFd add when the line is not empty.
mxml_write_node(doc, root, ws) ==
    LET f[i \in 1..Len(doc)] ==
            IF doc[i].kind = "element"
            THEN WriteElement(doc, ws, FlattenSeq([k \in 1..Len(KidsOf(doc, i)) |-> f[KidsOf(doc, i)[k]]]), i)
            ELSE WriteValue(doc, i)
    IN f[root] \o (IF ws THEN <<>> ELSE Spaces(1))
=============================================================================
