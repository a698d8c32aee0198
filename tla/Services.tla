------------------------------ MODULE Services ------------------------------
(***************************************************************************)
(* The service table in shared memory (tuxmgr.c): tux_advertise and        *)
(* tux_unadvertise, run by every worker, and the look-up of tux_service.   *)
(* No lock is taken: the search, the zeroing of the slot and the stores of *)
(* the name, the function and the server's number are steps others come    *)
(* between, and a worker may end at any of them.  A slot's flag is -1 when *)
(* it is free and 0 for ever after, since the assignment that would mark   *)
(* it in use is a comparison and a deletion zeroes the slot.               *)
(***************************************************************************)
EXTENDS Integers, FiniteSets

CONSTANTS Workers,   \* processes that advertise a service
          Name,      \* Name[w]: the service of w
          Fun,       \* Fun[w]: the address of its function in w
          Svrno,     \* Svrno[n]: row of the server table with service n
          NSvc       \* number of slots

\* The name and the function of a zeroed slot, which no worker advertises:
\* tux_advertise refuses a null function.
NoName == ""
Null   == 0

ASSUME NameAssumption == NSvc \in Nat /\ \A w \in Workers : Name[w] # NoName /\ Fun[w] # Null

VARIABLES svc,       \* the slots
          work,      \* per worker: its step and the slot it found
          spilt,     \* a full table: the pid row before the table is overwritten
          rushed,    \* history: a worker searched for its slot while another, also of
                     \* the same service, was between its search and its function
          taken      \* history: services that were taken back

svcVars == <<svc, work, spilt, rushed, taken>>

Slots == 0..NSvc-1
Blank == [flags |-> 0, name |-> NoName, fun |-> Null, svrid |-> 0]
Free  == [Blank EXCEPT !.flags = -1]

SvcInit ==
    /\ svc = [i \in Slots |-> Free] /\ work = [w \in Workers |-> [pc |-> "out", pos |-> -1]]
    /\ spilt = FALSE /\ rushed = FALSE /\ taken = {}

Lowest(S) == CHOOSE i \in S : \A j \in S : i <= j
Or(S)     == IF S = {} THEN -1 ELSE Lowest(S)

\* tux_find_service: the slot of a name; and the first free slot, noted on the way.
tux_find_service(n) == Or({i \in Slots : svc[i].name = n})
FreeSlot            == Or({i \in Slots : svc[i].flags = -1})

At(w, pc, pos) == work' = [work EXCEPT ![w] = [pc |-> pc, pos |-> pos]]
Writing == {"zero", "name", "fun"}
Rush    == rushed' = (rushed \/ \E v \in Workers : work[v].pc \in Writing)

-----------------------------------------------------------------------------
\* tux_advertise: the search of tux_new_service.  A name that is there is taken over
\* when the function is the same, else the call fails.
Advertise(w) ==
    LET i == tux_find_service(Name[w]) IN
    /\ work[w].pc = "out" /\ Rush
    /\ \/ i < 0 /\ At(w, "zero", FreeSlot)
       \/ i >= 0 /\ svc[i].fun = Fun[w] /\ At(w, "number", i)
       \/ i >= 0 /\ svc[i].fun # Fun[w] /\ At(w, "failed", -1)
    /\ UNCHANGED <<svc, spilt, taken>>

\* The free slot is zeroed; then the name is stored in it, then the function.  Without
\* a free one all this goes to the row before the table, and the position, -1, then
\* reads as a failure.
ZeroSlot(w) ==
    LET i == work[w].pos IN
    /\ work[w].pc = "zero"
    /\ IF i < 0 THEN spilt' = TRUE /\ At(w, "failed", -1) /\ UNCHANGED svc
                ELSE svc' = [svc EXCEPT ![i] = Blank] /\ At(w, "name", i) /\ UNCHANGED spilt
    /\ UNCHANGED <<rushed, taken>>

StoreName(w) ==
    /\ work[w].pc = "name"
    /\ svc' = [svc EXCEPT ![work[w].pos].name = Name[w]]
    /\ At(w, "fun", work[w].pos) /\ UNCHANGED <<spilt, rushed, taken>>

StoreFun(w) ==
    /\ work[w].pc = "fun"
    /\ svc' = [svc EXCEPT ![work[w].pos].fun = Fun[w]]
    /\ At(w, "number", work[w].pos) /\ UNCHANGED <<spilt, rushed, taken>>

Number(w) ==
    /\ work[w].pc = "number"
    /\ svc' = [svc EXCEPT ![work[w].pos].svrid = Svrno[Name[w]]]
    /\ At(w, "in", -1) /\ UNCHANGED <<spilt, rushed, taken>>

\* tux_unadvertise: the search of tux_del_service, and the zeroing of the slot.
Unadvertise(w) ==
    LET i == tux_find_service(Name[w]) IN
    /\ work[w].pc = "in"
    /\ IF i < 0 THEN At(w, "out", -1) ELSE At(w, "clear", i)
    /\ UNCHANGED <<svc, spilt, rushed, taken>>

\* Mutant: the slot is given back.
DelService_free(w) ==
    /\ work[w].pc = "clear"
    /\ svc' = [svc EXCEPT ![work[w].pos] = Free] /\ taken' = taken \cup {Name[w]}
    /\ At(w, "out", -1) /\ UNCHANGED <<spilt, rushed>>

DelService(w) ==
    /\ work[w].pc = "clear"
    /\ svc' = [svc EXCEPT ![work[w].pos] = Blank] /\ taken' = taken \cup {Name[w]}
    /\ At(w, "out", -1) /\ UNCHANGED <<spilt, rushed>>

\* tux_service: a request's name is looked up, and what is then in the slot is called.
FindForCall(w) ==
    LET i == tux_find_service(Name[w]) IN
    /\ work[w].pc = "in" /\ i >= 0
    /\ At(w, "call", i) /\ UNCHANGED <<svc, spilt, rushed, taken>>

Call(w) == work[w].pc = "call" /\ At(w, "in", -1) /\ UNCHANGED <<svc, spilt, rushed, taken>>

\* A worker ends, leaving its slot; the Governor starts it anew.
Restart(w) == work[w].pc # "out" /\ At(w, "out", -1) /\ UNCHANGED <<svc, spilt, rushed, taken>>

SvcNext == \E w \in Workers :
    \/ Advertise(w) \/ ZeroSlot(w) \/ StoreName(w) \/ StoreFun(w) \/ Number(w) \/ Unadvertise(w) \/ DelService(w)
    \/ FindForCall(w) \/ Call(w) \/ Restart(w)

SvcSpec == SvcInit /\ [][SvcNext]_svcVars

-----------------------------------------------------------------------------
\* Unless a worker searched for its slot while another had not yet stored its function,
\* and also when workers end at any step, withdraw and look up services meanwhile, when
\* several offer one service and when the table is full: until it is taken back, a
\* service has one slot and every worker that is in finds its own function there;
\* and the slot a worker found for a request holds, when it calls, that service or
\* nothing, never another, since no slot is used twice.
ServicesKept == ~rushed =>
    /\ \A i, j \in Slots : svc[i].name = svc[j].name => svc[i].name \in taken \cup {NoName} \/ i = j
    /\ \A w \in Workers : work[w].pc \in {"in", "call"} /\ Name[w] \notin taken =>
         LET i == tux_find_service(Name[w]) IN i >= 0 /\ svc[i].fun = Fun[w]
    /\ \A w \in Workers : work[w].pc = "call" => svc[work[w].pos].name \in {Name[w], NoName}
=============================================================================
