------------------------------- MODULE XmlText -------------------------------
(***************************************************************************)
(* Strings written by mxml_write_string and read back by the loader: byte  *)
(* sequences in an encoding like GBK, whose bytes from 0x80 on belong to   *)
(* no UTF-8 sequence.  NUL ends a string and cannot be in one.             *)
(***************************************************************************)
EXTENDS XmlFile

CONSTANTS Bytes, MaxBytes

ASSUME BytesAssumption == Bytes \subseteq 1..255

VARIABLE text

\* mxml_write_string: an entity, or what the putc functions write for a char.
mxml_write_string(s) ==
    FlattenSeq([i \in DOMAIN s |-> IF mxmlEntityGetName(s[i]) THEN <<[entity |-> s[i]]>>
                                   ELSE [k \in DOMAIN mxml_string_putc(Signed(s[i])) |->
                                            [byte |-> mxml_string_putc(Signed(s[i]))[k]]]])

\* The characters getc and mxml_get_entity give for what is written, and where one
\* of them is the end of the input: a control character that mxml_bad_char refuses.
Chars(toks) == [i \in DOMAIN toks |-> IF "entity" \in DOMAIN toks[i] THEN toks[i].entity
                                      ELSE mxml_string_getc(toks[i].byte)]
Ends(toks)  == {i \in DOMAIN toks : Chars(toks)[i] = EOF}

\* The first n characters in the buffer.
Buffer(toks, n) == FlattenSeq([i \in 1..n |-> mxml_add_char(Chars(toks)[i])])

\* What is read is a list of the strings that come back, one or none.  An opaque
\* value: at the end of the input mxml_load_data leaves its loop and frees the
\* buffer, and no node is made of it.
ReadString(toks) == IF Ends(toks) = {} THEN <<Buffer(toks, Len(toks))>> ELSE <<>>

\* An attribute value, as the set of what a tag may give for it.  At the end of the
\* input the characters before it are set, but mxml_parse_element goes on with those
\* behind it as the name of another attribute: without = and a value the load fails.
ReadAttr(toks) ==
    IF Ends(toks) = {} THEN {<<Buffer(toks, Len(toks))>>}
    ELSE {<<>>} \cup {<<Buffer(toks, e - 1)>> : e \in
             {i \in Ends(toks) : /\ \A j \in Ends(toks) : i <= j
                                 /\ \E k \in DOMAIN toks : k > i /\ toks[k] = [byte |-> 61]}}

TextInit == text = <<>>
TextNext == \E b \in Bytes : Len(text) < MaxBytes /\ text' = Append(text, b)
TextSpec == TextInit /\ [][TextNext]_text

\* What is written is read back byte by byte, entities and bytes from 0x80 on
\* included, as text and as an attribute.  A string with a control character never
\* comes back as text, and as an attribute it comes back, cut, only when an =
\* follows that character: else the document is refused.
TextSurvives ==
    LET toks == mxml_write_string(text)
        bad  == {i \in DOMAIN text : mxml_bad_char(text[i])}
    IN /\ bad = {} => ReadString(toks) = <<text>> /\ ReadAttr(toks) = {<<text>>}
       /\ bad # {} => /\ ReadString(toks) = <<>>
                      /\ \A s \in ReadAttr(toks) \ {<<>>} :
                            \E i \in bad, k \in DOMAIN text : i < k /\ text[k] = 61
=============================================================================
