----------------------------- MODULE XmlRecords -----------------------------
(***************************************************************************)
(* What xml.c offers its callers: one message with public fields and       *)
(* record lists that are set, read, written to a string and read back.     *)
(***************************************************************************)
CONSTANTS Field,     \* a public field or one element of one record
          Value,
          Nothing

VARIABLES message,   \* the value of every field
          saved,     \* the message a saved string stands for
          cut        \* the string did not fit its buffer

Empty == [f \in Field |-> Nothing]

Init == message = Empty /\ saved = Empty /\ cut = FALSE

Clear == message' = Empty /\ UNCHANGED <<saved, cut>>

Set == \E f \in Field, v \in Value : message' = [message EXCEPT ![f] = v] /\ UNCHANGED <<saved, cut>>

\* A string that was cut off stands for no message at all, never for a part.
Save == /\ cut' \in BOOLEAN
        /\ saved' \in (IF cut' THEN {message, Empty} ELSE {message})
        /\ UNCHANGED message

Load == message' = saved /\ saved' = Empty /\ cut' = FALSE

Next == Clear \/ Set \/ Save \/ Load

Spec == Init /\ [][Next]_<<message, saved, cut>>
=============================================================================
