----------------------------- MODULE MCLibrary ------------------------------
(* The loader, the index, the codec and the dates for TLC.  They share no    *)
(* state: in one behaviour one of them works and the others stay idle.       *)
EXTENDS XmlLoad, XmlIndex, XmlText, Dates

Open1(name, attrs, end) == [t |-> "open", name |-> name, attrs |-> attrs, end |-> end]

AllTokens ==
    {[t |-> x] : x \in {"sp", "badent", "badchr", "cut"}}
    \cup {[t |-> "chr", c |-> c] : c \in {"1", "x"}}
    \cup {[t |-> "comment", name |-> "!--"], [t |-> "cdata", name |-> "![CDATA["],
          [t |-> "pi", name |-> "?xml"], [t |-> "decl", name |-> "!DOCTYPE"]}
    \cup {[t |-> "close", name |-> n] : n \in {"a", "t", "?xml"}}
    \cup {Open1("a", <<>>, e) : e \in {">", "/", "bad", "bad/", "eof"}}
    \cup {Open1("b", <<<<"k", "v">>, <<"k", "w">>>>, ">")}

NoLoad  == l = [Load0(<<>>, 0, "none", "off") EXCEPT !.st = "idle"]
           /\ open = <<>> /\ seen = [first |-> "", chars |-> 0]
NoIndex == given = <<>> /\ nodes = <<>> /\ cur_node = 0 /\ attr = FALSE /\ want = <<0, 0>> /\ out = <<0>>
NoText  == text = <<>>
NoDate  == start = 0 /\ date = -1 /\ offset = 0

vars == <<loadVars, indexVars, text, dateVars>>

Init == \/ LoadInit /\ NoIndex /\ NoText /\ NoDate
        \/ NoLoad /\ IndexInit /\ NoText /\ NoDate
        \/ NoLoad /\ NoIndex /\ TextInit /\ NoDate
        \/ NoLoad /\ NoIndex /\ NoText /\ DateInit

Next == \/ LoadNext /\ UNCHANGED <<indexVars, text, dateVars>>
        \/ given # <<>> /\ IndexNext /\ UNCHANGED <<loadVars, text, dateVars>>
        \/ l.st = "idle" /\ given = <<>> /\ start = 0 /\ TextNext /\ UNCHANGED <<loadVars, indexVars, dateVars>>
        \/ start # 0 /\ DateNext /\ UNCHANGED <<loadVars, indexVars, text>>

Spec == Init /\ [][Next]_vars
=============================================================================
