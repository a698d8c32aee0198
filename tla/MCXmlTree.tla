----------------------------- MODULE MCXmlTree ------------------------------
(* XmlSearch with interchangeable nodes, attribute names and custom data. *)
EXTENDS XmlSearch, TLC

Symmetric == Permutations(Node) \cup Permutations(AttrNames) \cup Permutations(Data)
=============================================================================
