------------------------------ MODULE ShortConn -----------------------------
(***************************************************************************)
(* C001, short connections: the parent accepts a connection and forks a    *)
(* child, which reads one request, makes one tux_call with its own pid as  *)
(* the reply type, writes the reply, closes and exits.  The parent waits   *)
(* for one child per SIGCLD, and signals that come together are one.  The  *)
(* server that replies is the Bus, seen from here as a set of requests and *)
(* a queue of replies.                                                     *)
(***************************************************************************)
EXTENDS Integers, FiniteSets, Sequences

CONSTANTS Clients,   \* connections, one request each
          Pids,      \* pids the system gives to children
          None

ASSUME PidsAssumption == IsFiniteSet(Pids)

VARIABLES conn,      \* the connections
          kid,       \* the children, by pid
          parent,    \* "up" or "down"
          sigcld,    \* SIGCLD is pending
          reqs,      \* requests with the server
          rsps,      \* the reply queue
          merged,    \* history: deaths whose SIGCLD was pending already
          stale      \* history: pids of children that left their reply behind

shortVars == <<conn, kid, parent, sigcld, reqs, rsps, merged, stale>>

NoConn == [st |-> "out", sent |-> FALSE, hung |-> FALSE, got |-> None, by |-> None]
NoKid  == [st |-> "none", for |-> None, rep |-> None]
Active == {"rcv", "wait", "write"}

ShortInit ==
    /\ conn = [k \in Clients |-> NoConn] /\ kid = [p \in Pids |-> NoKid]
    /\ parent = "up" /\ sigcld = FALSE /\ reqs = {} /\ rsps = <<>>
    /\ merged = 0 /\ stale = {}

-----------------------------------------------------------------------------
\* A client connects, sends its request, hangs up.
Connect(k) ==
    /\ conn[k].st = "out" /\ parent = "up"
    /\ conn' = [conn EXCEPT ![k].st = "queued"]
    /\ UNCHANGED <<kid, parent, sigcld, reqs, rsps, merged, stale>>

SendRequest(k) ==
    /\ conn[k].st \in {"queued", "open"} /\ ~conn[k].sent /\ ~conn[k].hung
    /\ conn' = [conn EXCEPT ![k].sent = TRUE]
    /\ UNCHANGED <<kid, parent, sigcld, reqs, rsps, merged, stale>>

HangUp(k) ==
    /\ conn[k].st \in {"queued", "open"} /\ ~conn[k].hung
    /\ conn' = [conn EXCEPT ![k].hung = TRUE]
    /\ UNCHANGED <<kid, parent, sigcld, reqs, rsps, merged, stale>>

\* The server replies, at any time.
ServerReplies(r) ==
    /\ r \in reqs
    /\ reqs' = reqs \ {r} /\ rsps' = Append(rsps, r)
    /\ UNCHANGED <<conn, kid, parent, sigcld, merged, stale>>

-----------------------------------------------------------------------------
\* main: accept and fork.  reg_child registers nothing, and the connection is now
\* the child's.  A pid is given again only after the child was waited for.
Fork(k, p) ==
    /\ parent = "up" /\ conn[k].st = "queued" /\ kid[p].st = "none"
    /\ kid' = [kid EXCEPT ![p] = [NoKid EXCEPT !.st = "rcv", !.for = k]]
    /\ conn' = [conn EXCEPT ![k].st = "open"]
    /\ UNCHANGED <<parent, sigcld, reqs, rsps, merged, stale>>

ForkFails(k) ==
    /\ parent = "up" /\ conn[k].st = "queued"
    /\ conn' = [conn EXCEPT ![k].st = "closed"]
    /\ UNCHANGED <<kid, parent, sigcld, reqs, rsps, merged, stale>>

\* Mutant: all children share their parent's reply type.
ReplyType_parent(p) == 0

\* call_svr: getpid().
ReplyType(p) == p

\* The child closes its connection and exits: a zombie and a SIGCLD, unless its
\* parent has gone.  got is what it wrote, None for nothing.
Exit(p, got) ==
    LET k == kid[p].for IN
    /\ conn' = [conn EXCEPT ![k].st = "closed", ![k].got = got, ![k].by = p]
    /\ IF parent = "up"
       THEN /\ kid' = [kid EXCEPT ![p] = [NoKid EXCEPT !.st = "zombie"]]
            /\ sigcld' = TRUE /\ merged' = IF sigcld THEN merged + 1 ELSE merged
       ELSE kid' = [kid EXCEPT ![p] = NoKid] /\ UNCHANGED <<sigcld, merged>>
    /\ UNCHANGED parent

\* child_proc: the request is read and sent to the bus.
RcvRequest(p) ==
    LET k == kid[p].for IN
    /\ kid[p].st = "rcv" /\ conn[k].sent
    /\ reqs' = reqs \cup {[type |-> ReplyType(p), for |-> k]}
    /\ kid' = [kid EXCEPT ![p].st = "wait"]
    /\ UNCHANGED <<conn, parent, sigcld, rsps, merged, stale>>

\* Nothing to read any more, or a call that is refused: no error response is written.
RcvOrCallFails(p) ==
    LET k == kid[p].for IN
    /\ kid[p].st = "rcv" /\ TRUE \in {conn[k].sent, conn[k].hung}
    /\ Exit(p, None) /\ UNCHANGED <<reqs, rsps, stale>>

\* tux_call takes the oldest reply of its type.
GetReply(p) ==
    LET mine == {i \in DOMAIN rsps : rsps[i].type = ReplyType(p)}
        i == CHOOSE i \in mine : \A j \in mine : i <= j IN
    /\ kid[p].st = "wait" /\ mine # {}
    /\ kid' = [kid EXCEPT ![p].st = "write", ![p].rep = rsps[i].for]
    /\ rsps' = SubSeq(rsps, 1, i - 1) \o SubSeq(rsps, i + 1, Len(rsps))
    /\ UNCHANGED <<conn, parent, sigcld, reqs, merged, stale>>

\* The call times out; the packed error response is not written.
CallTimesOut(p) ==
    /\ kid[p].st = "wait"
    /\ Exit(p, None) /\ stale' = stale \cup {p} /\ UNCHANGED <<reqs, rsps>>

\* The reply is written, or the client has gone or does not read.
WriteReply(p) ==
    /\ kid[p].st = "write"
    /\ \/ ~conn[kid[p].for].hung /\ Exit(p, kid[p].rep)
       \/ Exit(p, None)
    /\ UNCHANGED <<reqs, rsps, stale>>

\* The SIGCLD handler returns after the first child that is not registered.
child_exit ==
    LET zombies == {p \in Pids : kid[p].st = "zombie"} IN
    /\ parent = "up" /\ sigcld /\ sigcld' = FALSE
    /\ IF zombies = {} THEN UNCHANGED kid
       ELSE \E p \in zombies : kid' = [kid EXCEPT ![p] = NoKid]
    /\ UNCHANGED <<conn, parent, reqs, rsps, merged, stale>>

\* SIGTERM: no child is registered, none is told to end; they go on without a parent.
main_exit ==
    /\ parent = "up" /\ parent' = "down" /\ sigcld' = FALSE
    /\ kid' = [p \in Pids |-> IF kid[p].st = "zombie" THEN NoKid ELSE kid[p]]
    /\ conn' = [k \in Clients |-> IF conn[k].st = "queued" THEN [conn[k] EXCEPT !.st = "closed"] ELSE conn[k]]
    /\ UNCHANGED <<reqs, rsps, merged, stale>>

ShortNext ==
    \/ \E k \in Clients : \/ Connect(k) \/ SendRequest(k) \/ HangUp(k) \/ ForkFails(k)
                          \/ \E p \in Pids : Fork(k, p)
    \/ \E r \in reqs : ServerReplies(r)
    \/ \E p \in Pids : \/ RcvRequest(p) \/ RcvOrCallFails(p) \/ GetReply(p)
                       \/ CallTimesOut(p) \/ WriteReply(p)
    \/ child_exit \/ main_exit

ShortSpec == ShortInit /\ [][ShortNext]_shortVars

-----------------------------------------------------------------------------
\* A client is answered with the reply to its own request, unless a child with its
\* child's pid had left a reply behind.
OwnAnswer == \A k \in Clients : conn[k].got = None \/ conn[k].by \in stale \/ conn[k].got = k

\* Every dead child is waited for, but those whose SIGCLD merged with another.
Waited == Cardinality({p \in Pids : kid[p].st = "zombie"}) <= (IF sigcld THEN 1 ELSE 0) + merged

\* An open connection has exactly one child that will close it, with or without a
\* parent, and a child holds no other.
OneChild == \A k \in Clients :
    Cardinality({p \in Pids : kid[p].st \in Active /\ kid[p].for = k}) = IF conn[k].st = "open" THEN 1 ELSE 0

\* The three of them: C001 answers each client for itself, leaves no connection
\* behind, and leaves only those zombies behind whose signals merged.
ShortSound == OwnAnswer /\ Waited /\ OneChild
=============================================================================
