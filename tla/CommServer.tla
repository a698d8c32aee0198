----------------------------- MODULE CommServer -----------------------------
(***************************************************************************)
(* The communication server (dev/src/comm/commserver/commserver.c): a main *)
(* thread that accepts connections and waits for events, one reader thread *)
(* per connection table and one writer thread.  A connection belongs to    *)
(* table fd % Num; a reader passes a request to the bus (tux_acall) with   *)
(* the connection's fd and number, the writer takes replies from the bus   *)
(* (tux_getreply) and writes them to that fd.                              *)
(*                                                                         *)
(* The readers, the writer and the event handling of the main thread lock  *)
(* the table they touch; new_accept and clean_time_out_connect do not.     *)
(* What is done under a lock is one step, but for del_connect_fd, which    *)
(* closes the fd before it clears the slot.  What is done without the lock *)
(* is as many steps as it has accesses that another thread may separate;   *)
(* a single record is read, written or copied at once.                     *)
(*                                                                         *)
(* Clients send a request when they wait for no reply, and hang up only    *)
(* then.                                                                   *)
(***************************************************************************)
EXTENDS Integers, FiniteSets

CONSTANTS
    Num,        \* tables and reader threads (option -n)
    MaxFd,      \* MAX_FD_NUM, 1000: slots of a table
    Fds,        \* the file descriptors accept may return
    MaxConn,    \* bound on the connections
    MaxMsgs,    \* bound on the requests
    Events      \* what clients and time may do: subset of {"hangup", "idle", "partial"}

Tables == 0..(Num - 1)
Slots  == 0..(MaxFd - 1)

ASSUME SizeAssumption ==
    /\ Num \in Nat \ {0} /\ MaxFd \in Nat \ {0} /\ Num < MaxFd
    /\ Fds \subseteq Nat
    /\ MaxConn \in Nat /\ MaxMsgs \in Nat

\* The states of a slot.
FD_STAT_REG   == 0
FD_STAT_POLL  == 1
FD_STAT_READ  == 2
FD_STAT_WRITE == 3

VARIABLES
    tab,     \* client_ctrl: the tables
    gssn,    \* the number of the next connection
    sock,    \* the sockets of the process, by fd
    lis,     \* the listening socket
    main,    \* the main thread
    rd,      \* the readers
    bus,     \* requests sent and not yet answered
    wr,      \* the writer
    old,     \* connections below this number are older than idletime
    msgs,    \* requests sent so far
    broken   \* history: the hazards that have struck

vars == <<tab, gssn, sock, lis, main, rd, bus, wr, old, msgs, broken>>

\* conn is the number of the connection, in its unread requests, hup that
\* the client hung up, edge that epoll has an event to report, busy that the
\* client waits for a reply.
Closed == [conn |-> -1, in |-> 0, hup |-> FALSE, edge |-> FALSE, busy |-> FALSE]

NoSlot == [fd |-> -1, ssn |-> 0, st |-> -1]

Waiting == [at |-> "wait", ev |-> {}, lis |-> FALSE, fd |-> -1, pos |-> 0, t |-> 0]
Resting == [at |-> "idle", fd |-> -1, ssn |-> 0, who |-> -1]

TableOf(fd) == fd % Num

\* comm_init.
Init ==
    /\ tab = [t \in Tables |-> [num |-> 0, conn |-> [k \in Slots |-> NoSlot]]]
    /\ gssn = 0
    /\ sock = [fd \in Fds |-> Closed]
    /\ lis = [backlog |-> 0, edge |-> FALSE, joined |-> 0]
    /\ main = Waiting
    /\ rd = [t \in Tables |-> Resting]
    /\ bus = {}
    /\ wr = Resting
    /\ old = 0 /\ msgs = 0
    /\ broken = {}

-----------------------------------------------------------------------------
(***************************************************************************)
(* The tables.                                                             *)
(***************************************************************************)

FirstSlot(S) == CHOOSE k \in S : \A j \in S : k <= j

FirstOrNone(S) == IF S = {} THEN -1 ELSE FirstSlot(S)

SlotFd(t, k) == tab[t].conn[k].fd

\* The scans that stop at a free slot see the slots before the first one.
Seen(t) == {k \in Slots : \A j \in 0..k : SlotFd(t, j) # -1}

get_connect_pos(t, fd) == FirstOrNone({k \in Slots : SlotFd(t, k) = fd})

get_read_fd(t) == FirstOrNone({k \in Seen(t) : tab[t].conn[k].st = FD_STAT_POLL})

\* Mutant: the slot is marked free and nothing is moved.
ClearFd_hole(T, t, j) == [T EXCEPT ![t].conn[j] = NoSlot]

\* CommClearFd(t, j): MaxFd - t - 1 records are moved down by one, from slot
\* j + 1 on, and the last slot is freed.  The count is right for j = t.  For
\* j > t the move reads, and for j > t + 1 writes, the memory behind the
\* table, which is the next table, or zero: its records lie one word further,
\* so that num receives the status of slot 0 and each slot the fd and the
\* number of the next, for the Over slots that are overwritten.  The number
\* the freed slot is left with is then the fd behind the table (-1 stands for
\* the unsigned 4294967295).
Moved(t, j, k) == k >= j /\ k < j + MaxFd - t - 1

Over(t, j) == j - t - 1

FdBehind(T, t) == IF t + 1 \in Tables THEN T[t + 1].conn[0].fd ELSE 0

ShiftedDown(c, t, j, behind) ==
    [k \in Slots |->
       IF k = MaxFd - 1
       THEN [fd |-> -1, ssn |-> IF Moved(t, j, k) THEN behind ELSE c[k].ssn, st |-> -1]
       ELSE IF Moved(t, j, k) THEN c[k + 1] ELSE c[k]]

Overwritten(n, over) ==
    [num  |-> IF n.conn[0].st = -1 THEN 255 ELSE n.conn[0].st,
     conn |-> [k \in Slots |->
                 [fd  |-> IF k < over THEN n.conn[k + 1].fd ELSE n.conn[k].fd,
                  ssn |-> IF k < over THEN n.conn[k + 1].ssn ELSE n.conn[k].ssn,
                  st  |-> IF k < over - 1 THEN n.conn[k + 1].st ELSE n.conn[k].st]]]

CommClearFd(T, t, j) ==
    [i \in Tables |-> IF i = t THEN [T[t] EXCEPT !.conn = ShiftedDown(@, t, j, FdBehind(T, t))]
                      ELSE IF i = t + 1 /\ Over(t, j) > 0 THEN Overwritten(T[i], Over(t, j))
                      ELSE T[i]]

\* What goes wrong with that: the next table is overwritten, or slots in use
\* are moved only in part.
ClearHazard(t, j) ==
    IF \/ Over(t, j) > 0 /\ t + 1 \in Tables
       \/ \E k \in Slots : /\ k > j /\ SlotFd(t, k) # -1
                           /\ ~Moved(t, j, k - 1) \/ (k # MaxFd - 1 /\ ~Moved(t, j, k))
    THEN {"overrun"} ELSE {}

CloseSocket(fd) == [sock EXCEPT ![fd] = Closed]

\* A thread uses the fd of connection c, which was closed and is another's.
Reused(fd, c) == IF sock[fd].conn \in {-1, c} THEN {} ELSE {"reuse"}

-----------------------------------------------------------------------------
(***************************************************************************)
(* Clients and time.                                                       *)
(***************************************************************************)

Connect ==
    /\ lis.joined < MaxConn
    /\ lis' = [backlog |-> lis.backlog + 1, edge |-> TRUE, joined |-> lis.joined + 1]
    /\ UNCHANGED <<tab, gssn, sock, main, rd, bus, wr, old, msgs, broken>>

Idle(fd) == sock[fd].conn # -1 /\ ~sock[fd].hup /\ ~sock[fd].busy

SendRequest(fd) ==
    /\ msgs < MaxMsgs
    /\ Idle(fd)
    /\ msgs' = msgs + 1
    /\ sock' = [sock EXCEPT ![fd].in = @ + 1, ![fd].edge = TRUE, ![fd].busy = TRUE]
    /\ UNCHANGED <<tab, gssn, lis, main, rd, bus, wr, old, broken>>

HangUp(fd) ==
    /\ "hangup" \in Events
    /\ Idle(fd)
    /\ sock' = [sock EXCEPT ![fd].hup = TRUE, ![fd].edge = TRUE]
    /\ UNCHANGED <<tab, gssn, lis, main, rd, bus, wr, old, msgs, broken>>

\* The oldest connection that is not yet older than idletime becomes so.
Expire ==
    /\ "idle" \in Events
    /\ old < gssn
    /\ old' = old + 1
    /\ UNCHANGED <<tab, gssn, sock, lis, main, rd, bus, wr, msgs, broken>>

-----------------------------------------------------------------------------
(***************************************************************************)
(* The main thread.                                                        *)
(***************************************************************************)

\* epoll_wait reports every edge there is; get_wait_time lets it time out
\* when a table has a connection in its first slot.
epoll_wait ==
    /\ main.at = "wait"
    /\ \/ lis.edge
       \/ \E fd \in Fds : sock[fd].edge
       \/ \E t \in Tables : SlotFd(t, 0) # -1
    /\ main' = [main EXCEPT !.at = "events", !.lis = lis.edge,
                            !.ev = {fd \in Fds : sock[fd].edge}]
    /\ sock' = [fd \in Fds |-> [sock[fd] EXCEPT !.edge = FALSE]]
    /\ lis' = [lis EXCEPT !.edge = FALSE]
    /\ UNCHANGED <<tab, gssn, rd, bus, wr, old, msgs, broken>>

\* new_accept up to the search for a free slot: one connection per event; a
\* full table refuses it.
new_accept ==
    /\ main.at = "events" /\ main.lis
    /\ lis' = [lis EXCEPT !.backlog = @ - 1]
    /\ \E fd \in Fds :
         LET pos == get_connect_pos(TableOf(fd), -1) IN
         /\ sock[fd].conn = -1
         /\ IF pos = -1
            THEN main' = [main EXCEPT !.lis = FALSE] /\ UNCHANGED sock
            ELSE /\ main' = [main EXCEPT !.at = "fd", !.lis = FALSE, !.fd = fd,
                                         !.pos = pos, !.t = TableOf(fd)]
                 /\ sock' = [sock EXCEPT ![fd] = [Closed EXCEPT !.conn = gssn]]
    /\ UNCHANGED <<tab, gssn, rd, bus, wr, old, msgs, broken>>

StoreFd ==
    /\ main.at = "fd"
    /\ tab' = [tab EXCEPT ![main.t].conn[main.pos].fd = main.fd]
    /\ main' = [main EXCEPT !.at = "rest"]
    /\ UNCHANGED <<gssn, sock, lis, rd, bus, wr, old, msgs, broken>>

StoreRest ==
    /\ main.at = "rest"
    /\ tab' = [tab EXCEPT ![main.t].conn[main.pos] =
                            [@ EXCEPT !.ssn = gssn, !.st = FD_STAT_REG]]
    /\ gssn' = gssn + 1
    /\ main' = [main EXCEPT !.at = "events", !.fd = -1, !.pos = 0, !.t = 0]
    /\ UNCHANGED <<sock, lis, rd, bus, wr, old, msgs, broken>>

Unlocked(t) == rd[t].at # "clear"

\* Mutant: the reader is not told.
PollIn_quiet(fd) ==
    LET t == TableOf(fd)
        pos == get_connect_pos(t, fd)
    IN  /\ main.at = "events" /\ fd \in main.ev /\ Unlocked(t)
        /\ main' = [main EXCEPT !.ev = @ \ {fd}]
        /\ IF pos = -1
           THEN sock' = CloseSocket(fd) /\ UNCHANGED tab
           ELSE tab' = [tab EXCEPT ![t].conn[pos].st = FD_STAT_POLL] /\ UNCHANGED sock
        /\ UNCHANGED <<gssn, lis, rd, bus, wr, old, msgs, broken>>

\* An event of a connection: its slot is marked and the reader woken; an fd
\* without slot is closed.  (Hang-ups come with EPOLLIN too, so that the last
\* branch of the loop is not taken.)
PollIn(fd) ==
    LET t == TableOf(fd)
        pos == get_connect_pos(t, fd)
    IN  /\ main.at = "events" /\ fd \in main.ev /\ Unlocked(t)
        /\ main' = [main EXCEPT !.ev = @ \ {fd}]
        /\ IF pos = -1
           THEN sock' = CloseSocket(fd) /\ UNCHANGED tab
           ELSE /\ tab' = [tab EXCEPT ![t].conn[pos].st = FD_STAT_POLL, ![t].num = @ + 1]
                /\ UNCHANGED sock
        /\ UNCHANGED <<gssn, lis, rd, bus, wr, old, msgs, broken>>

EventsDone ==
    /\ main.at = "events" /\ main.ev = {} /\ ~main.lis
    /\ main' = [main EXCEPT !.at = "clean", !.t = 0]
    /\ UNCHANGED <<tab, gssn, sock, lis, rd, bus, wr, old, msgs, broken>>

\* clean_time_out_connect: as long as the first connection of a table is too
\* old it is closed and cleared; the others of the table are not older.
CleanNext ==
    /\ main.at = "clean"
    /\ IF main.t = Num
       THEN main' = Waiting /\ UNCHANGED sock
       ELSE LET first == tab[main.t].conn[0] IN
            IF first.fd # -1 /\ first.ssn < old
            THEN main' = [main EXCEPT !.at = "clear", !.fd = first.fd] /\ sock' = CloseSocket(first.fd)
            ELSE main' = [main EXCEPT !.t = @ + 1] /\ UNCHANGED sock
    /\ UNCHANGED <<tab, gssn, lis, rd, bus, wr, old, msgs, broken>>

CleanClear ==
    /\ main.at = "clear"
    /\ tab' = CommClearFd(tab, main.t, 0)
    /\ broken' = broken \cup ClearHazard(main.t, 0)
                        \cup (IF SlotFd(main.t, 0) # main.fd THEN {"overlap"} ELSE {})
    /\ main' = [main EXCEPT !.at = "clean", !.fd = -1]
    /\ UNCHANGED <<gssn, sock, lis, rd, bus, wr, old, msgs>>

-----------------------------------------------------------------------------
(***************************************************************************)
(* A reader: read_task.                                                    *)
(***************************************************************************)

\* The next connection with an event; without one the counter is corrected.
Pick(t) ==
    /\ rd[t].at = "idle" /\ tab[t].num # 0
    /\ LET pos == get_read_fd(t) IN
       IF pos = -1
       THEN tab' = [tab EXCEPT ![t].num = 0] /\ UNCHANGED rd
       ELSE /\ tab' = [tab EXCEPT ![t].conn[pos].st = FD_STAT_READ, ![t].num = @ - 1]
            /\ rd' = [rd EXCEPT ![t] = [at |-> "recv", fd |-> SlotFd(t, pos),
                                        ssn |-> tab[t].conn[pos].ssn, who |-> -1]]
    /\ UNCHANGED <<gssn, sock, lis, main, bus, wr, old, msgs, broken>>

\* Mutant: a failed read is not the end of the connection.
RcvTxnMsg_keep(t) ==
    LET fd == rd[t].fd IN
    /\ rd[t].at = "recv"
    /\ IF sock[fd].in > 0
       THEN /\ sock' = [sock EXCEPT ![fd].in = @ - 1]
            /\ rd' = [rd EXCEPT ![t].at = "call", ![t].who = sock[fd].conn]
       ELSE rd' = [rd EXCEPT ![t] = Resting] /\ UNCHANGED sock
    /\ UNCHANGED <<tab, gssn, lis, main, bus, wr, old, msgs, broken>>

\* One request is read.  The sockets do not block: the read fails on an
\* empty, a hung-up or a closed one, and when only a part of the request has
\* arrived.
RcvTxnMsg(t) ==
    LET fd == rd[t].fd IN
    /\ rd[t].at = "recv"
    /\ \/ /\ sock[fd].in > 0
          /\ sock' = [sock EXCEPT ![fd].in = @ - 1]
          /\ rd' = [rd EXCEPT ![t].at = "call", ![t].who = sock[fd].conn]
       \/ /\ sock[fd].in = 0 \/ "partial" \in Events
          /\ rd' = [rd EXCEPT ![t].at = "close"]
          /\ UNCHANGED sock
    /\ broken' = broken \cup Reused(fd, rd[t].ssn)
    /\ UNCHANGED <<tab, gssn, lis, main, bus, wr, old, msgs>>

\* tux_acall takes the request, or response_err_req answers it.
Call(t) ==
    /\ rd[t].at = "call"
    /\ \/ /\ bus' = bus \cup {[fd |-> rd[t].fd, ssn |-> rd[t].ssn, who |-> rd[t].who]}
          /\ UNCHANGED <<sock, broken>>
       \/ /\ sock' = [sock EXCEPT ![rd[t].fd].busy = FALSE]
          /\ broken' = broken \cup Reused(rd[t].fd, rd[t].who)
          /\ UNCHANGED bus
    /\ rd' = [rd EXCEPT ![t] = Resting]
    /\ UNCHANGED <<tab, gssn, lis, main, wr, old, msgs>>

\* del_connect_fd, with the table locked: the fd is closed ...
DelClose(t) ==
    /\ rd[t].at = "close"
    /\ sock' = CloseSocket(rd[t].fd)
    /\ rd' = [rd EXCEPT ![t].at = "clear"]
    /\ broken' = broken \cup Reused(rd[t].fd, rd[t].ssn)
    /\ UNCHANGED <<tab, gssn, lis, main, bus, wr, old, msgs>>

\* Mutant: the counter may become negative.
Uncounted_below(t, k) ==
    IF tab[t].conn[k].st = FD_STAT_POLL /\ k \in Tables
    THEN [tab EXCEPT ![k].num = @ - 1] ELSE tab

\* ... and its slot cleared.  A pending event is taken off the counter of
\* the table that has the slot's index.
Uncounted(t, k) ==
    IF tab[t].conn[k].st = FD_STAT_POLL /\ k \in Tables /\ tab[k].num # 0
    THEN [tab EXCEPT ![k].num = @ - 1] ELSE tab

DelClear(t) ==
    LET k == FirstOrNone({j \in Seen(t) : SlotFd(t, j) = rd[t].fd}) IN
    /\ rd[t].at = "clear"
    /\ tab' = IF k = -1 THEN tab ELSE CommClearFd(Uncounted(t, k), t, k)
    /\ broken' = IF k = -1 THEN broken
                 ELSE broken \cup ClearHazard(t, k)
                             \cup (IF main.at \in {"fd", "rest"} /\ main.t = t
                                   THEN {"overlap"} ELSE {})
                             \cup (IF tab[t].conn[k].ssn # rd[t].ssn THEN {"reuse"} ELSE {})
                             \cup (IF k # t /\ Uncounted(t, k) # tab THEN {"count"} ELSE {})
    /\ rd' = [rd EXCEPT ![t] = Resting]
    /\ UNCHANGED <<gssn, sock, lis, main, bus, wr, old, msgs>>

-----------------------------------------------------------------------------
(***************************************************************************)
(* The writer: write_task.                                                 *)
(***************************************************************************)

\* A reply comes back and its connection is looked up by number, with the
\* table locked (get_conn_inf).  In a full table without it the function ends
\* without a value.
Look(m) ==
    LET t == TableOf(m.fd)
        k == FirstOrNone({j \in Seen(t) : tab[t].conn[j].ssn = m.ssn})
        found == [at |-> "write", fd |-> m.fd, ssn |-> m.ssn, who |-> m.who]
    IN  /\ wr.at = "idle" /\ m \in bus /\ Unlocked(t)
        /\ bus' = bus \ {m}
        /\ IF k # -1
           THEN wr' = found /\ tab' = [tab EXCEPT ![t].conn[k].st = FD_STAT_WRITE]
           ELSE wr' \in {Resting} \cup (IF Seen(t) = Slots THEN {found} ELSE {}) /\ UNCHANGED tab
        /\ UNCHANGED <<gssn, sock, lis, main, rd, old, msgs, broken>>

\* The reply is written to the fd of the request, without the lock.
WriteSocket ==
    /\ wr.at = "write"
    /\ sock' = [sock EXCEPT ![wr.fd].busy = FALSE]
    /\ broken' = broken \cup Reused(wr.fd, wr.who)
    /\ wr' = Resting
    /\ UNCHANGED <<tab, gssn, lis, main, rd, bus, old, msgs>>

-----------------------------------------------------------------------------

Clients == Connect \/ Expire \/ \E fd \in Fds : SendRequest(fd) \/ HangUp(fd)

MainStep == \/ epoll_wait \/ new_accept \/ StoreFd \/ StoreRest
            \/ \E fd \in Fds : PollIn(fd)
            \/ EventsDone \/ CleanNext \/ CleanClear

Reader(t) == Pick(t) \/ RcvTxnMsg(t) \/ Call(t) \/ DelClose(t) \/ DelClear(t)

Writer == WriteSocket \/ \E m \in bus : Look(m)

Next == Clients \/ MainStep \/ Writer \/ \E t \in Tables : Reader(t)

Spec == Init /\ [][Next]_vars

\* Threads run; clients and time need not.
Fairness == WF_vars(MainStep) /\ WF_vars(Writer) /\ \A t \in Tables : WF_vars(Reader(t))

FairSpec == Spec /\ Fairness

-----------------------------------------------------------------------------
(***************************************************************************)
(* Properties.                                                             *)
(***************************************************************************)

SlotRec == [fd : Fds \cup {-1}, ssn : Nat \cup {-1}, st : -1..3]

TypeOK ==
    /\ tab \in [Tables -> [num : Nat, conn : [Slots -> SlotRec]]]
    /\ gssn \in Nat /\ old \in Nat /\ msgs \in Nat
    /\ sock \in [Fds -> [conn : Nat \cup {-1}, in : Nat, hup : BOOLEAN, edge : BOOLEAN,
                         busy : BOOLEAN]]
    /\ lis \in [backlog : Nat, edge : BOOLEAN, joined : Nat]
    /\ main.at \in {"wait", "events", "fd", "rest", "clean", "clear"}
    /\ main.ev \subseteq Fds
    /\ main.at \in {"fd", "rest"} => main.fd \in Fds /\ main.pos \in Slots /\ main.t \in Tables
    /\ main.at = "clear" => main.fd \in Fds /\ main.t \in Tables
    /\ \A t \in Tables : /\ rd[t].at \in {"idle", "recv", "call", "close", "clear"}
                         /\ rd[t].at # "idle" => rd[t].fd \in Fds
    /\ wr.at \in {"idle", "write"} /\ (wr.at = "write" => wr.fd \in Fds)
    /\ broken \subseteq {"overlap", "overrun", "reuse", "count"}

\* An fd some thread is storing or clearing.
InTransit(fd) ==
    \/ main.at \in {"fd", "rest", "clear"} /\ main.fd = fd
    \/ \E t \in Tables : rd[t].at = "clear" /\ rd[t].fd = fd

\* The tables and the sockets agree: an open connection is in the table of
\* its fd, once, with its number, and where the scans that stop at a free
\* slot see it; and what they see is open.  This holds until a slot is
\* cleared while the main thread is accepting or cleaning without the lock
\* ("overlap"), CommClearFd moves the wrong records ("overrun"), or a reader
\* closes or clears an fd that is another connection's by now ("reuse").
Registered ==
    broken \subseteq {"count"} =>
        /\ \A fd \in Fds : sock[fd].conn # -1 /\ ~InTransit(fd) =>
             \E k \in Seen(TableOf(fd)) :
                /\ tab[TableOf(fd)].conn[k].fd = fd
                /\ tab[TableOf(fd)].conn[k].ssn = sock[fd].conn
                /\ \A j \in Slots \ {k} : SlotFd(TableOf(fd), j) # fd
        /\ \A t \in Tables : \A k \in Seen(t) :
             sock[SlotFd(t, k)].conn # -1 \/ InTransit(SlotFd(t, k))

\* Every request a client sends is read, or its connection closed, whatever
\* other clients do: no event is lost between the main thread, the counters
\* and the readers, until a hazard strikes.
RequestsRead ==
    \A fd \in Fds : sock[fd].in > 0 ~> (sock[fd].in = 0 \/ broken # {})

\* The socket of a client that hung up is closed eventually.
HangUpsClosed ==
    \A fd \in Fds : sock[fd].hup ~> (~sock[fd].hup \/ broken # {})

-----------------------------------------------------------------------------
(***************************************************************************)
(* What comments of the code say.                                          *)
(***************************************************************************)

\* funmsq.h:32: the fd of a message is that of the client that made the
\* request: the writer writes a reply to no other.
OwnConnection == wr.at = "write" => sock[wr.fd].conn \in {-1, wr.who}

=============================================================================
