------------------------------- MODULE XmlLoad -------------------------------
(***************************************************************************)
(* mxml_load_data on every input: whatever tokens come, with every type of *)
(* values the callback may choose, into no tree, into a tree's root or     *)
(* into a node below it, and with a SAX callback that retains the nodes or *)
(* does not.                                                               *)
(***************************************************************************)
EXTENDS XmlFile

CONSTANTS Tokens,    \* what the input may hold
          MaxNodes,  \* bound on the nodes made
          MaxText    \* bound on the characters and spaces read

ASSUME TokensAssumption == \A tok \in Tokens :
    tok.t \in {"sp", "chr", "badent", "badchr", "comment", "cdata", "pi", "decl", "close", "open", "cut"}

VARIABLES l,         \* the variables of mxml_load_data
          open,      \* history: names of the open tags read completely and not closed
          seen       \* history: kind of the first token, number of characters

loadVars == <<l, open, seen>>

\* The caller's tree and the node to load into: NULL, its root, a child of it.
Tops == {<<<<>>, 0>>, <<<<Elem(0, "t", <<>>)>>, 1>>,
         <<<<Elem(0, "t", <<>>), Elem(1, "a", <<>>)>>, 2>>}
Old(m) == m.top   \* the number of the caller's nodes

LoadInit ==
    /\ \E t \in Tops, cb \in {"none", "integer", "opaque", "ignore", "custom"},
          sax \in {"off", "retain", "drop"} :
          /\ cb # "none" => t[2] = 1 /\ sax = "off"   \* bound: they are independent
          /\ l = Load0(t[1], t[2], cb, sax)
    /\ open = <<>> /\ seen = [first |-> "", chars |-> 0]

IsText(tok) == tok.t \in {"sp", "chr"}

\* One token.  A complete open tag is remembered until it is closed.
Read(tok) ==
    LET m == mxml_load_data(l, tok) IN
    /\ l.st = "reading"
    /\ Len(m.doc) <= Old(l) + MaxNodes
    /\ IsText(tok) => seen.chars < MaxText
    /\ l' = m
    /\ open' = IF m.st # "reading" THEN open
               ELSE CASE tok.t = "open" /\ tok.end = ">" -> Append(open, tok.name)
                      [] tok.t = "close" /\ open # <<>> -> Front(open)
                      [] OTHER -> open
    /\ seen' = [first |-> IF seen.first = "" THEN tok.t ELSE seen.first,
                chars |-> IF IsText(tok) THEN seen.chars + 1 ELSE seen.chars]

\* The end of the input, or the end of the loop at what reads as one.
ReadEnd ==
    /\ l.st \in {"reading", "stop"}
    /\ l' = Finish(l)
    /\ UNCHANGED <<open, seen>>

LoadNext == ReadEnd \/ \E tok \in Tokens : Read(tok)

LoadSpec == LoadInit /\ [][LoadNext]_loadVars

-----------------------------------------------------------------------------
New == Old(l) + 1 .. Len(l.doc)
OneRoot == Cardinality({n \in 1..Len(l.doc) : l.doc[n].up = 0}) <= 1

\* Without a SAX callback, whether the load ends well or with an error and
\* wherever that is met, every node made is freed, in the tree returned or in
\* the caller's tree, unless the input has several outermost nodes or ends within
\* its first one; and no node of the caller's is freed.
NothingLost == l.sax = "off" /\ l.st \in {"error", "done"} =>
    /\ OneRoot /\ l.first # 0 => New \subseteq l.freed \cup Under(l.doc, Result(l)) \cup Under(l.doc, IF l.top = 0 THEN 0 ELSE 1)
    /\ l.freed \subseteq New

\* While reading, the node that the next one is added to has not been freed, also
\* when the callback retains no node and nodes are freed as they are closed.
ParentLive == l.st = "reading" => l.parent \notin l.freed

\* An input that begins with <?xml or a declaration and is loaded with success,
\* with that node the only outermost one, has closed every tag that it opened,
\* however the input ended.
CutRefused == l.st = "done" /\ l.top = 0 /\ seen.first \in {"pi", "decl"} /\ l.sax # "drop" /\ OneRoot
                => open = <<>>
=============================================================================
