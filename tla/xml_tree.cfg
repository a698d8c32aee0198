SPECIFICATION Spec
CONSTANTS
    Node = {n1, n2, n3, n4}
    NULL = NULL
    Names = {"a", "![CDATA["}
    CDataNames = {"![CDATA["}
    Values = {v1}
    AttrNames = {x, y}
    Data = {d1, d2}
    MaxExtras = 2
SYMMETRY Symmetric
INVARIANTS TreesOK AttrsUnique DataOwned WalksInOrder FindsAll
PROPERTIES ForestSpec
CHECK_DEADLOCK FALSE
