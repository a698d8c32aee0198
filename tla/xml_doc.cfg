SPECIFICATION Spec
CONSTANTS
    Tags = {"a"}
    Sets = {"s"}
    RecIDs = {1, 2}
    EmNames = {"e"}
    Strings = {"v"}
    Ints = {7}
INVARIANTS DocSound
PROPERTIES RecordsSpec
CHECK_DEADLOCK FALSE
