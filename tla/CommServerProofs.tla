-------------------------- MODULE CommServerProofs --------------------------
(***************************************************************************)
(* Proofs about CommServer: its type invariant, and that the tables and    *)
(* the sockets agree until one of the hazards strikes, for any number of   *)
(* tables, slots, descriptors, connections and requests.                   *)
(***************************************************************************)
EXTENDS CommServer, WellFoundedInduction, TLAPS

Tabs == [Tables -> [num : Nat, conn : [Slots -> SlotRec]]]

SockRec == [conn : Nat \cup {-1}, in : Nat, hup : BOOLEAN, edge : BOOLEAN, busy : BOOLEAN]

Socks == [Fds -> SockRec]

Mains == [at : {"wait", "events", "fd", "rest", "clean", "clear"}, ev : SUBSET Fds,
          lis : BOOLEAN, fd : Fds \cup {-1}, pos : Slots, t : 0..Num]

Readers == [at : {"idle", "recv", "call", "close", "clear"}, fd : Fds \cup {-1},
            ssn : Nat \cup {-1}, who : Nat \cup {-1}]

Calls == [fd : Fds, ssn : Nat \cup {-1}, who : Nat \cup {-1}]

\* TypeOK with the whole records of the threads.
CommType ==
    /\ tab \in Tabs
    /\ gssn \in Nat /\ old \in Nat /\ msgs \in Nat
    /\ sock \in Socks
    /\ lis \in [backlog : Nat, edge : BOOLEAN, joined : Nat]
    /\ main \in Mains
    /\ rd \in [Tables -> Readers]
    /\ bus \in SUBSET Calls
    /\ wr \in [at : {"idle", "write"}, fd : Fds \cup {-1}, ssn : Nat \cup {-1}, who : Nat \cup {-1}]
    /\ broken \subseteq {"overlap", "overrun", "reuse", "count"}

\* Threads at work have an fd, and the main thread a table.
Busy ==
    /\ main.at \in {"fd", "rest", "clear"} => main.fd \in Fds /\ main.t \in Tables
    /\ \A t \in Tables : rd[t].at # "idle" => rd[t].fd \in Fds
    /\ wr.at = "write" => wr.fd \in Fds

\* An edge of the listening socket, seen by the main thread or not, is a
\* connection in the backlog: accept always finds one.
Pending ==
    /\ main.at \notin {"events", "fd", "rest"} => ~main.lis
    /\ lis.edge \/ main.lis => lis.backlog >= 1
    /\ lis.edge /\ main.lis => lis.backlog >= 2

TypeInv == CommType /\ Busy /\ Pending

-----------------------------------------------------------------------------
(***************************************************************************)
(* The invariant of the tables.                                            *)
(***************************************************************************)

Ssn(t, k) == tab[t].conn[k].ssn

\* A slot whose record is complete: not the one new_accept has begun.
Kept(t, k) ==
    /\ SlotFd(t, k) # -1
    /\ ~(main.at = "rest" /\ main.t = t /\ main.pos = k)

\* The reader of its table has closed fd and not yet cleared its slot.
Closing(fd) == rd[TableOf(fd)].at = "clear" /\ rd[TableOf(fd)].fd = fd

Cleaning(fd) == main.at = "clear" /\ main.fd = fd

Storing(fd) == main.at \in {"fd", "rest"} /\ main.fd = fd

\* The slots of fd, and those of them with a complete record.
Of(fd) == {k \in Slots : SlotFd(TableOf(fd), k) = fd}

KeptOf(fd) == {k \in Of(fd) : Kept(TableOf(fd), k)}

\* No free slot before one in use.
Packed ==
    \A t \in Tables : \A j, k \in Slots : j < k /\ SlotFd(t, k) # -1 => SlotFd(t, j) # -1

\* Everything about an fd is in its table.
Homed ==
    /\ \A t \in Tables : \A k \in Slots : SlotFd(t, k) # -1 => TableOf(SlotFd(t, k)) = t
    /\ \A t \in Tables : rd[t].at # "idle" => TableOf(rd[t].fd) = t
    /\ main.at \in {"fd", "rest", "clear"} => TableOf(main.fd) = main.t

\* Connection numbers are given once.
Numbered ==
    /\ \A t \in Tables : \A k \in Slots : Kept(t, k) => Ssn(t, k) \in 0..(gssn - 1)
    /\ \A t \in Tables : \A k \in Slots : tab[t].conn[k].st = FD_STAT_POLL => Kept(t, k)
    /\ \A t \in Tables : rd[t].at # "idle" => rd[t].ssn \in 0..(gssn - 1)
    /\ \A t \in Tables : \A j, k \in Slots :
          Kept(t, j) /\ Kept(t, k) /\ Ssn(t, j) = Ssn(t, k) => j = k

\* new_accept's slot is still the first free one, or was.
Accepting ==
    /\ main.at \in {"fd", "rest"} => sock[main.fd].conn = gssn
    /\ main.at = "fd" => \A k \in Slots : SlotFd(main.t, k) # -1 <=> k < main.pos
    /\ main.at = "rest" => /\ SlotFd(main.t, main.pos) = main.fd
                           /\ \A k \in Slots : SlotFd(main.t, k) # -1 <=> k <= main.pos

\* An open connection has its record.
Recorded ==
    \A fd \in Fds : sock[fd].conn # -1 /\ ~Storing(fd) =>
        \E k \in KeptOf(fd) : Ssn(TableOf(fd), k) = sock[fd].conn

\* An fd no thread is closing has no record but that of its connection.
Current ==
    \A fd \in Fds : ~Closing(fd) /\ ~Cleaning(fd) =>
        \A k \in KeptOf(fd) : Ssn(TableOf(fd), k) = sock[fd].conn

\* What the idle clean-up has closed is closed, and has one record at most.
Cleaned ==
    main.at = "clear" =>
        /\ sock[main.fd].conn = -1
        /\ ~Closing(main.fd) => \A j, k \in Of(main.fd) : j = k

\* The record of the connection the reader of fd has closed comes first, and
\* beside it there is at most that of the connection that has the fd now ...
OldFirst(fd) ==
    \E k \in KeptOf(fd) :
        /\ Ssn(TableOf(fd), k) = rd[TableOf(fd)].ssn
        /\ \A j \in Of(fd) : k <= j
        /\ IF Cleaning(fd) THEN \A i, j \in Of(fd) \ {k} : i = j
           ELSE \A j \in KeptOf(fd) \ {k} : Ssn(TableOf(fd), j) = sock[fd].conn

\* ... or that record is gone, and del_connect_fd will find another's or none.
OldGone(fd) == \A k \in KeptOf(fd) : Ssn(TableOf(fd), k) # rd[TableOf(fd)].ssn

Deleting ==
    \A fd \in Fds : Closing(fd) =>
        /\ sock[fd].conn # rd[TableOf(fd)].ssn
        /\ OldFirst(fd) \/ OldGone(fd)

Sound == Packed /\ Homed /\ Numbered /\ Accepting /\ Recorded /\ Current /\ Cleaned /\ Deleting

TableInv == broken \subseteq {"count"} => Sound

-----------------------------------------------------------------------------
(***************************************************************************)
(* Scans.                                                                  *)
(***************************************************************************)

LEMMA TableOfType == ASSUME NEW fd \in Fds PROVE TableOf(fd) \in Tables
BY SizeAssumption DEF TableOf, Tables

LEMMA SlotBounds == 0 \in Slots /\ Slots \subseteq Nat /\ MaxFd - 1 \in Slots
BY SizeAssumption DEF Slots

\* A set of slots has a first one.
LEMMA FirstIsLeast ==
    ASSUME NEW S \in SUBSET Slots, S # {}
    PROVE  FirstSlot(S) \in S /\ \A k \in S : FirstSlot(S) <= k
<1>1. S \in SUBSET Nat
  BY SlotBounds
<1> DEFINE Less == {ss \in Nat \X Nat : ss[1] < ss[2]}
<1>2. IsWellFoundedOn(Less, Nat)
  BY NatLessThanWellFounded, Zenon DEF OpToRel
<1>3. PICK n \in S : \A m \in S : ~ (<<m, n>> \in Less)
  <2> HIDE DEF Less
  <2> QED
    BY <1>1, <1>2, WFMin, Zenon
<1>4. ASSUME NEW m \in S PROVE n <= m
  <2>1. m \in Nat /\ n \in Nat
    BY <1>1
  <2>2. m < n => <<m, n>> \in Less
    BY <2>1
  <2> HIDE DEF Less
  <2>3. ~(m < n)
    BY <1>3, <2>2
  <2> QED
    BY <2>1, <2>3
<1> QED
  BY <1>4 DEF FirstSlot

\* A scan returns the first slot it looks for, or -1 if there is none.
LEMMA ScanFinds ==
    ASSUME NEW S \in SUBSET Slots
    PROVE  /\ FirstOrNone(S) # -1 => FirstOrNone(S) \in S /\ \A k \in S : FirstOrNone(S) <= k
           /\ FirstOrNone(S) = -1 <=> S = {}
<1>1. CASE S = {}
  BY <1>1 DEF FirstOrNone
<1>2. CASE S # {}
  <2>1. FirstSlot(S) \in S /\ \A k \in S : FirstSlot(S) <= k
    BY <1>2, FirstIsLeast
  <2>2. FirstSlot(S) # -1
    BY <2>1, SlotBounds
  <2> QED
    BY <1>2, <2>1, <2>2 DEF FirstOrNone
<1> QED
  BY <1>1, <1>2

-----------------------------------------------------------------------------
(***************************************************************************)
(* The type invariant.                                                     *)
(***************************************************************************)

\* A slot in use has a descriptor.
LEMMA SlotFdType ==
    ASSUME CommType, NEW t \in Tables, NEW k \in Slots
    PROVE  /\ SlotFd(t, k) \in Fds \cup {-1}
           /\ Ssn(t, k) \in Nat \cup {-1}
           /\ tab[t].conn[k] \in SlotRec
           /\ Seen(t) \subseteq Slots
           /\ k \in Seen(t) => SlotFd(t, k) \in Fds
<1>1. tab[t].conn[k] \in SlotRec
  BY DEF CommType, Tabs
<1>2. k \in 0..k
  BY SlotBounds
<1> QED
  BY <1>1, <1>2 DEF SlotFd, Ssn, Seen, SlotRec

LEMMA ShiftedType ==
    ASSUME NEW c \in [Slots -> SlotRec], NEW t \in Tables, NEW j \in Slots, NEW b \in Nat \cup {-1}
    PROVE  ShiftedDown(c, t, j, b) \in [Slots -> SlotRec]
<1> SUFFICES ASSUME NEW k \in Slots PROVE ShiftedDown(c, t, j, b)[k] \in SlotRec
  BY DEF ShiftedDown
<1>1. CASE k = MaxFd - 1
  <2>1. ShiftedDown(c, t, j, b)[k] = [fd |-> -1, ssn |-> IF Moved(t, j, k) THEN b ELSE c[k].ssn, st |-> -1]
    BY <1>1 DEF ShiftedDown
  <2>2. c[k].ssn \in Nat \cup {-1}
    BY DEF SlotRec
  <2> QED
    BY <2>1, <2>2 DEF SlotRec
<1>2. CASE k # MaxFd - 1 /\ Moved(t, j, k)
  <2>1. k + 1 \in Slots
    BY <1>2, SizeAssumption DEF Slots
  <2>2. ShiftedDown(c, t, j, b)[k] = c[k + 1]
    BY <1>2 DEF ShiftedDown
  <2> QED
    BY <2>1, <2>2
<1>3. CASE k # MaxFd - 1 /\ ~Moved(t, j, k)
  <2>1. ShiftedDown(c, t, j, b)[k] = c[k]
    BY <1>3 DEF ShiftedDown
  <2> QED
    BY <2>1
<1> QED
  BY <1>1, <1>2, <1>3

LEMMA OverwrittenType ==
    ASSUME NEW n \in [num : Nat, conn : [Slots -> SlotRec]], NEW over \in Int, over < MaxFd
    PROVE  Overwritten(n, over) \in [num : Nat, conn : [Slots -> SlotRec]]
<1>1. ASSUME NEW k \in Slots PROVE n.conn[k] \in SlotRec
  BY <1>1
<1>2. n.conn[0].st \in -1..3
  BY <1>1, SlotBounds DEF SlotRec
<1>3. ASSUME NEW k \in Slots, k < over PROVE k + 1 \in Slots
  BY <1>3, SizeAssumption DEF Slots
<1>3a. ASSUME NEW k \in Slots, k < over - 1 PROVE k + 1 \in Slots
  BY <1>3a, SizeAssumption DEF Slots
<1>4. ASSUME NEW k \in Slots
      PROVE  [fd  |-> IF k < over THEN n.conn[k + 1].fd ELSE n.conn[k].fd,
              ssn |-> IF k < over THEN n.conn[k + 1].ssn ELSE n.conn[k].ssn,
              st  |-> IF k < over - 1 THEN n.conn[k + 1].st ELSE n.conn[k].st] \in SlotRec
  <2>1. \A i \in Slots : n.conn[i].fd \in Fds \cup {-1} /\ n.conn[i].ssn \in Nat \cup {-1} /\ n.conn[i].st \in -1..3
    BY <1>1 DEF SlotRec
  <2> QED
    BY <1>3, <1>3a, <2>1 DEF SlotRec
<1> QED
  BY <1>2, <1>4 DEF Overwritten

LEMMA ClearType ==
    ASSUME NEW T \in Tabs, NEW t \in Tables, NEW j \in Slots
    PROVE  CommClearFd(T, t, j) \in Tabs
<1>1. t \in Nat /\ j \in Nat /\ j < MaxFd
  BY SizeAssumption DEF Tables, Slots
<1> SUFFICES ASSUME NEW i \in Tables
             PROVE  CommClearFd(T, t, j)[i] \in [num : Nat, conn : [Slots -> SlotRec]]
  BY DEF CommClearFd, Tabs
<1>2. T[i] \in [num : Nat, conn : [Slots -> SlotRec]]
  BY DEF Tabs
<1>3. CASE i = t
  <2>1. CommClearFd(T, t, j)[i] = [T[t] EXCEPT !.conn = ShiftedDown(@, t, j, FdBehind(T, t))]
    BY <1>3 DEF CommClearFd
  <2>2. FdBehind(T, t) \in Nat \cup {-1}
    <3>1. CASE t + 1 \in Tables
      <4>1. T[t + 1].conn[0] \in SlotRec
        BY <3>1, SlotBounds DEF Tabs
      <4>2. T[t + 1].conn[0].fd \in Nat \cup {-1}
        BY <4>1, SizeAssumption DEF SlotRec
      <4> QED
        BY <3>1, <4>2 DEF FdBehind
    <3> QED
      BY <3>1 DEF FdBehind
  <2>3. ShiftedDown(T[t].conn, t, j, FdBehind(T, t)) \in [Slots -> SlotRec]
    BY <1>2, <1>3, <2>2, ShiftedType
  <2> QED
    BY <1>2, <1>3, <2>1, <2>3
<1>4. CASE i # t /\ i = t + 1 /\ Over(t, j) > 0
  <2>1. CommClearFd(T, t, j)[i] = Overwritten(T[i], Over(t, j))
    BY <1>4 DEF CommClearFd
  <2>2. Over(t, j) \in Int /\ Over(t, j) < MaxFd
    BY <1>1, SizeAssumption DEF Over
  <2> QED
    BY <1>2, <2>1, <2>2, OverwrittenType
<1>5. CASE i # t /\ ~(i = t + 1 /\ Over(t, j) > 0)
  BY <1>2, <1>5 DEF CommClearFd
<1> QED
  BY <1>3, <1>4, <1>5

LEMMA UncountedType ==
    ASSUME CommType, NEW t \in Tables, NEW k \in Slots
    PROVE  Uncounted(t, k) \in Tabs
<1>1. tab \in Tabs
  BY DEF CommType
<1>2. CASE k \in Tables /\ tab[k].num # 0
  <2>1. tab[k].num - 1 \in Nat
    BY <1>1, <1>2 DEF Tabs
  <2>2. [tab EXCEPT ![k].num = @ - 1] \in Tabs
    BY <1>1, <1>2, <2>1 DEF Tabs
  <2> QED
    BY <1>1, <2>2 DEF Uncounted
<1>3. CASE ~(k \in Tables /\ tab[k].num # 0)
  BY <1>1, <1>3 DEF Uncounted
<1> QED
  BY <1>2, <1>3

LEMMA InitTyped == Init => TypeInv
<1> SUFFICES ASSUME Init PROVE TypeInv
  OBVIOUS
<1>1. NoSlot \in SlotRec
  BY DEF NoSlot, SlotRec
<1>2. tab \in Tabs
  BY <1>1 DEF Init, Tabs
<1>3. main \in Mains
  BY SlotBounds, SizeAssumption DEF Init, Waiting, Mains
<1>4. CommType
  BY <1>2, <1>3 DEF Init, CommType, Socks, SockRec, Readers, Closed, Resting
<1>5. Busy /\ Pending
  BY DEF Init, Busy, Pending, Waiting, Resting
<1> QED
  BY <1>4, <1>5 DEF TypeInv

LEMMA ClientsTyped ==
    ASSUME TypeInv, Clients PROVE TypeInv'
<1> USE DEF TypeInv
<1>1. CASE Connect
  BY <1>1 DEF Connect, CommType, Busy, Pending
<1>2. CASE Expire
  BY <1>2 DEF Expire, CommType, Busy, Pending
<1>3. ASSUME NEW fd \in Fds, SendRequest(fd) PROVE TypeInv'
  <2>0. sock[fd] \in SockRec
    BY DEF CommType, Socks
  <2>a. sock[fd].in + 1 \in Nat
    BY <2>0 DEF SockRec
  <2>1. sock' \in Socks
    BY <1>3, <2>0, <2>a DEF SendRequest, CommType, Socks, SockRec
  <2> QED
    BY <1>3, <2>1 DEF SendRequest, CommType, Busy, Pending
<1>4. ASSUME NEW fd \in Fds, HangUp(fd) PROVE TypeInv'
  <2>0. sock[fd] \in SockRec
    BY DEF CommType, Socks
  <2>1. sock' \in Socks
    BY <1>4, <2>0 DEF HangUp, CommType, Socks, SockRec
  <2> QED
    BY <1>4, <2>1 DEF HangUp, CommType, Busy, Pending
<1> QED
  BY <1>1, <1>2, <1>3, <1>4 DEF Clients

LEMMA CloseTyped ==
    ASSUME CommType, NEW fd \in Fds PROVE CloseSocket(fd) \in Socks
<1>1. Closed \in SockRec
  BY DEF Closed, SockRec
<1> QED
  BY <1>1 DEF CommType, Socks, CloseSocket

\* A descriptor is looked for and found in its table, or -1 is returned.
LEMMA PosFound ==
    ASSUME NEW t \in Tables, NEW fd
    PROVE  /\ get_connect_pos(t, fd) # -1 =>
                /\ get_connect_pos(t, fd) \in Slots
                /\ SlotFd(t, get_connect_pos(t, fd)) = fd
                /\ \A k \in Slots : SlotFd(t, k) = fd => get_connect_pos(t, fd) <= k
           /\ get_connect_pos(t, fd) = -1 => \A k \in Slots : SlotFd(t, k) # fd
<1> DEFINE S == {k \in Slots : SlotFd(t, k) = fd}
<1>1. S \in SUBSET Slots
  OBVIOUS
<1>2. /\ FirstOrNone(S) # -1 => FirstOrNone(S) \in S /\ \A k \in S : FirstOrNone(S) <= k
      /\ FirstOrNone(S) = -1 <=> S = {}
  BY <1>1, ScanFinds
<1>3. get_connect_pos(t, fd) = FirstOrNone(S)
  BY DEF get_connect_pos
<1> HIDE DEF get_connect_pos
<1>4. CASE get_connect_pos(t, fd) = -1
  <2>1. S = {}
    BY <1>2, <1>3, <1>4
  <2> QED
    BY <1>4, <2>1
<1>5. CASE get_connect_pos(t, fd) # -1
  <2>1. get_connect_pos(t, fd) \in S /\ \A k \in S : get_connect_pos(t, fd) <= k
    BY <1>2, <1>3, <1>5
  <2> QED
    BY <1>5, <2>1
<1> QED
  BY <1>4, <1>5

LEMMA ReadPosFound ==
    ASSUME NEW t \in Tables, get_read_fd(t) # -1
    PROVE  /\ get_read_fd(t) \in Slots /\ get_read_fd(t) \in Seen(t)
           /\ tab[t].conn[get_read_fd(t)].st = FD_STAT_POLL
<1> DEFINE S == {k \in Seen(t) : tab[t].conn[k].st = FD_STAT_POLL}
<1>1. S \in SUBSET Slots
  BY DEF Seen
<1>2. FirstOrNone(S) # -1 => FirstOrNone(S) \in S
  BY <1>1, ScanFinds
<1>3. get_read_fd(t) = FirstOrNone(S)
  BY DEF get_read_fd
<1> QED
  BY <1>1, <1>2, <1>3

LEMMA WaitTyped ==
    ASSUME TypeInv, epoll_wait \/ EventsDone PROVE TypeInv'
<1> USE DEF TypeInv
<1>0. main \in Mains
  BY DEF CommType
<1>1. CASE epoll_wait
  <2>0. ASSUME NEW fd \in Fds PROVE [sock[fd] EXCEPT !.edge = FALSE] \in SockRec
    <3>1. sock[fd] \in SockRec
      BY DEF CommType, Socks
    <3> QED
      BY <3>1 DEF SockRec
  <2>1. sock' \in Socks
    BY <1>1, <2>0 DEF epoll_wait, Socks
  <2>2. main' \in Mains /\ main'.at = "events" /\ main'.lis = lis.edge /\ ~main.lis
    BY <1>0, <1>1 DEF epoll_wait, CommType, Mains, Pending
  <2>3. lis' \in [backlog : Nat, edge : BOOLEAN, joined : Nat] /\ lis'.backlog = lis.backlog /\ ~lis'.edge
    BY <1>1 DEF epoll_wait, CommType
  <2>4. Pending'
    BY <2>2, <2>3 DEF Pending
  <2> QED
    BY <1>1, <2>1, <2>2, <2>3, <2>4 DEF epoll_wait, CommType, Busy
<1>2. CASE EventsDone
  <2>1. 0 \in 0..Num
    BY SizeAssumption
  <2>2. main' \in Mains /\ main'.at = "clean" /\ ~main'.lis /\ ~main.lis
    BY <1>0, <1>2, <2>1 DEF EventsDone, Mains
  <2>4. Pending'
    BY <1>2, <2>2 DEF Pending, EventsDone
  <2> QED
    BY <1>2, <2>2, <2>4 DEF EventsDone, CommType, Busy
<1> QED
  BY <1>1, <1>2

LEMMA AcceptTyped ==
    ASSUME TypeInv, new_accept PROVE TypeInv'
<1> USE DEF TypeInv
<1>0. main \in Mains /\ sock \in Socks /\ gssn \in Nat
  BY DEF CommType
<1>1. PICK fd \in Fds :
        IF get_connect_pos(TableOf(fd), -1) = -1
        THEN main' = [main EXCEPT !.lis = FALSE] /\ UNCHANGED sock
        ELSE /\ main' = [main EXCEPT !.at = "fd", !.lis = FALSE, !.fd = fd,
                                     !.pos = get_connect_pos(TableOf(fd), -1), !.t = TableOf(fd)]
             /\ sock' = [sock EXCEPT ![fd] = [Closed EXCEPT !.conn = gssn]]
  BY Zenon DEF new_accept
<1>2. TableOf(fd) \in Tables /\ TableOf(fd) \in 0..Num
  BY TableOfType, SizeAssumption DEF Tables
<1>3. sock' \in Socks
  <2>1. [Closed EXCEPT !.conn = gssn] \in SockRec
    BY <1>0 DEF Closed, SockRec
  <2> QED
    BY <1>0, <1>1, <2>1 DEF Socks
<1>4. /\ main' \in Mains /\ ~main'.lis /\ main'.at \in {"events", "fd"}
      /\ main'.at = "fd" => main'.fd \in Fds /\ main'.t \in Tables
  <2>1. CASE get_connect_pos(TableOf(fd), -1) = -1
    BY <1>0, <1>1, <2>1 DEF Mains, new_accept
  <2>2. CASE get_connect_pos(TableOf(fd), -1) # -1
    <3>1. get_connect_pos(TableOf(fd), -1) \in Slots
      BY <2>2, <1>2, PosFound
    <3> QED
      BY <1>0, <1>1, <1>2, <2>2, <3>1 DEF Mains
  <2> QED
    BY <2>1, <2>2
<1>5. /\ lis' \in [backlog : Nat, edge : BOOLEAN, joined : Nat]
      /\ Pending'
  <2>1. main.lis /\ lis' = [lis EXCEPT !.backlog = @ - 1]
    BY DEF new_accept
  <2>2. lis'.backlog = lis.backlog - 1 /\ lis'.edge = lis.edge /\ lis.backlog \in Nat
    BY <2>1 DEF CommType
  <2> QED
    BY <1>4, <2>1, <2>2 DEF CommType, Pending
<1> QED
  BY <1>3, <1>4, <1>5 DEF new_accept, CommType, Busy

\* What the assignments to one slot leave typed.
LEMMA SlotStored ==
    ASSUME CommType, NEW t \in Tables, NEW k \in Slots, NEW x \in Fds \cup {-1},
           NEW n \in Nat \cup {-1}, NEW s \in -1..3, NEW m \in Nat
    PROVE  /\ [tab EXCEPT ![t].conn[k].fd = x] \in Tabs
           /\ [tab EXCEPT ![t].conn[k] = [@ EXCEPT !.ssn = n, !.st = s]] \in Tabs
           /\ [tab EXCEPT ![t].conn[k].st = s] \in Tabs
           /\ [tab EXCEPT ![t].conn[k].st = s, ![t].num = m] \in Tabs
           /\ [tab EXCEPT ![t].num = m] \in Tabs
<1>1. tab \in Tabs /\ tab[t].conn[k] \in SlotRec
  BY DEF CommType, Tabs
<1>2. [tab[t].conn[k] EXCEPT !.fd = x] \in SlotRec /\ [tab[t].conn[k] EXCEPT !.st = s] \in SlotRec
  BY <1>1 DEF SlotRec
<1>3. [tab[t].conn[k] EXCEPT !.ssn = n, !.st = s] \in SlotRec
  BY <1>1 DEF SlotRec
<1>4. [tab EXCEPT ![t].conn[k].fd = x] \in Tabs
  BY <1>1, <1>2 DEF Tabs
<1>5. [tab EXCEPT ![t].conn[k].st = s] \in Tabs
  BY <1>1, <1>2 DEF Tabs
<1>6. [tab EXCEPT ![t].conn[k] = [@ EXCEPT !.ssn = n, !.st = s]] \in Tabs
  BY <1>1, <1>3 DEF Tabs
<1>7. [tab EXCEPT ![t].conn[k].st = s, ![t].num = m] \in Tabs
  BY <1>1, <1>2 DEF Tabs
<1>8. [tab EXCEPT ![t].num = m] \in Tabs
  BY <1>1 DEF Tabs
<1> QED
  BY <1>4, <1>5, <1>6, <1>7, <1>8

LEMMA StoreTyped ==
    ASSUME TypeInv, StoreFd \/ StoreRest PROVE TypeInv'
<1> USE DEF TypeInv
<1>0. main \in Mains /\ main.fd \in Fds /\ main.t \in Tables /\ main.pos \in Slots /\ gssn \in Nat
  BY DEF CommType, Mains, Busy, StoreFd, StoreRest
<1>1. CASE StoreFd
  <2>1. tab' \in Tabs
    <3>1. 0 \in Nat /\ 0 \in -1..3 /\ 0 \in Nat \cup {-1}
      OBVIOUS
    <3> QED
      BY <1>0, <1>1, <3>1, SlotStored, Zenon DEF StoreFd
  <2>2. main' \in Mains /\ main'.at = "rest" /\ main'.fd = main.fd /\ main'.t = main.t
        /\ main'.lis = main.lis
    BY <1>0, <1>1 DEF StoreFd, Mains
  <2> QED
    BY <1>0, <1>1, <2>1, <2>2 DEF StoreFd, CommType, Busy, Pending
<1>2. CASE StoreRest
  <2>1. tab' \in Tabs
    <3>1. FD_STAT_REG \in -1..3 /\ gssn \in Nat \cup {-1}
      BY <1>0 DEF FD_STAT_REG
    <3> QED
      BY <1>0, <1>2, <3>1, SlotStored, Zenon DEF StoreRest
  <2>2. main' \in Mains /\ main'.at = "events" /\ main'.lis = main.lis
    <3>1. 0 \in 0..Num /\ 0 \in Slots
      BY SizeAssumption, SlotBounds
    <3> QED
      BY <1>0, <1>2, <3>1 DEF StoreRest, Mains
  <2> QED
    BY <1>0, <1>2, <2>1, <2>2 DEF StoreRest, CommType, Busy, Pending
<1> QED
  BY <1>1, <1>2

LEMMA PollTyped ==
    ASSUME TypeInv, NEW fd \in Fds, PollIn(fd) PROVE TypeInv'
<1> USE DEF TypeInv
<1> DEFINE t == TableOf(fd)
           pos == get_connect_pos(t, fd)
<1>0. main \in Mains /\ t \in Tables
  BY TableOfType DEF CommType
<1>1. IF pos = -1 THEN sock' = CloseSocket(fd) /\ UNCHANGED tab
      ELSE /\ tab' = [tab EXCEPT ![t].conn[pos].st = FD_STAT_POLL, ![t].num = @ + 1]
           /\ UNCHANGED sock
  BY Zenon DEF PollIn
<1>2. pos # -1 => pos \in Slots
  BY <1>0, PosFound
<1> HIDE DEF t, pos
<1>3. sock' \in Socks
  BY <1>1, CloseTyped DEF CommType
<1>4. tab' \in Tabs
  <2>1. FD_STAT_POLL \in -1..3 /\ tab[t].num + 1 \in Nat
    BY <1>0 DEF FD_STAT_POLL, CommType, Tabs
  <2>2. pos # -1 => [tab EXCEPT ![t].conn[pos].st = FD_STAT_POLL, ![t].num = tab[t].num + 1] \in Tabs
    BY <1>0, <1>2, <2>1, SlotStored, SlotBounds, SizeAssumption
  <2> QED
    BY <1>1, <2>2 DEF CommType
<1>5. main' \in Mains /\ main'.at = main.at /\ main'.lis = main.lis /\ main'.fd = main.fd /\ main'.t = main.t
  BY <1>0 DEF PollIn, Mains
<1> QED
  BY <1>3, <1>4, <1>5 DEF PollIn, CommType, Busy, Pending

LEMMA CleanTyped ==
    ASSUME TypeInv, CleanNext \/ CleanClear PROVE TypeInv'
<1> USE DEF TypeInv
<1>0. main \in Mains
  BY DEF CommType
<1>1. CASE CleanNext
  <2>1. CASE main.t = Num
    <3>1. main' = Waiting /\ sock' = sock
      BY <1>1, <2>1 DEF CleanNext
    <3>2. 0 \in 0..Num /\ 0 \in Slots
      BY SizeAssumption, SlotBounds
    <3>3. main' \in Mains /\ main'.at = "wait" /\ ~main'.lis
      BY <3>1, <3>2 DEF Waiting, Mains
    <3> QED
      BY <1>1, <3>1, <3>3 DEF CleanNext, CommType, Busy, Pending
  <2>2. CASE main.t # Num
    <3> DEFINE first == tab[main.t].conn[0]
    <3>1. main.t \in Tables /\ main.t + 1 \in 0..Num
      BY <1>0, <2>2, SizeAssumption DEF Mains, Tables
    <3>2. first \in SlotRec
      BY <3>1, SlotBounds DEF CommType, Tabs
    <3>3. main.at = "clean"
      BY <1>1 DEF CleanNext
    <3>4. CASE first.fd # -1 /\ first.ssn < old
      <4>1. main' = [main EXCEPT !.at = "clear", !.fd = first.fd] /\ sock' = CloseSocket(first.fd)
        BY <1>1, <2>2, <3>4 DEF CleanNext
      <4>2. first.fd \in Fds
        BY <3>2, <3>4 DEF SlotRec
      <4> HIDE DEF first
      <4>3. sock' \in Socks
        BY <4>1, <4>2, CloseTyped
      <4>4. main' \in Mains /\ main'.at = "clear" /\ main'.fd \in Fds /\ main'.t = main.t
            /\ main'.lis = main.lis
        BY <1>0, <4>1, <4>2 DEF Mains
      <4> QED
        BY <1>1, <3>1, <3>3, <4>3, <4>4 DEF CleanNext, CommType, Busy, Pending
    <3>5. CASE ~(first.fd # -1 /\ first.ssn < old)
      <4>1. main' = [main EXCEPT !.t = @ + 1] /\ sock' = sock
        BY <1>1, <2>2, <3>5, Zenon DEF CleanNext
      <4>2. main' \in Mains /\ main'.at = "clean" /\ main'.lis = main.lis
        BY <1>0, <3>1, <3>3, <4>1 DEF Mains
      <4> QED
        BY <1>1, <3>3, <4>1, <4>2 DEF CleanNext, CommType, Busy, Pending
    <3> QED
      BY <3>4, <3>5
  <2> QED
    BY <2>1, <2>2
<1>2. CASE CleanClear
  <2>1. main.t \in Tables /\ main.at = "clear"
    BY <1>2 DEF CleanClear, Busy
  <2>2. tab' \in Tabs
    BY <1>2, <2>1, ClearType, SlotBounds DEF CleanClear, CommType
  <2>3. main' \in Mains /\ main'.at = "clean" /\ main'.lis = main.lis
    BY <1>0, <1>2 DEF CleanClear, Mains
  <2>4. broken' \subseteq {"overlap", "overrun", "reuse", "count"}
    <3>1. broken' = broken \cup ClearHazard(main.t, 0)
                        \cup (IF SlotFd(main.t, 0) # main.fd THEN {"overlap"} ELSE {})
      BY <1>2 DEF CleanClear
    <3>2. ClearHazard(main.t, 0) \subseteq {"overrun"}
      BY Zenon DEF ClearHazard
    <3> QED
      BY <3>1, <3>2 DEF CommType
  <2> QED
    BY <1>2, <2>1, <2>2, <2>3, <2>4 DEF CleanClear, CommType, Busy, Pending
<1> QED
  BY <1>1, <1>2

\* The hazards recorded are of the four kinds.
LEMMA HazardKinds ==
    /\ \A t, k : ClearHazard(t, k) \subseteq {"overrun"}
    /\ \A fd, c : Reused(fd, c) \subseteq {"reuse"}
<1>1. \A t, k : ClearHazard(t, k) \subseteq {"overrun"}
  BY Zenon DEF ClearHazard
<1>2. \A fd, c : Reused(fd, c) \subseteq {"reuse"}
  BY Zenon DEF Reused
<1> QED
  BY <1>1, <1>2

\* Where del_connect_fd finds the slot it clears.
LEMMA DelFound ==
    ASSUME NEW t \in Tables, NEW k, k = FirstOrNone({j \in Seen(t) : SlotFd(t, j) = rd[t].fd})
    PROVE  /\ k # -1 => /\ k \in Slots /\ k \in Seen(t) /\ SlotFd(t, k) = rd[t].fd
                        /\ \A j \in Seen(t) : SlotFd(t, j) = rd[t].fd => k <= j
           /\ k = -1 => \A j \in Seen(t) : SlotFd(t, j) # rd[t].fd
<1> DEFINE S == {j \in Seen(t) : SlotFd(t, j) = rd[t].fd}
<1>1. S \in SUBSET Slots
  BY DEF Seen
<1>2. /\ k # -1 => k \in S /\ \A j \in S : k <= j
      /\ k = -1 <=> S = {}
  BY <1>1, ScanFinds
<1>3. CASE k = -1
  <2>1. S = {}
    BY <1>2, <1>3
  <2> QED
    BY <1>3, <2>1
<1>4. CASE k # -1
  <2>1. k \in S /\ \A j \in S : k <= j
    BY <1>2, <1>4
  <2> QED
    BY <1>1, <1>4, <2>1
<1> QED
  BY <1>3, <1>4

LEMMA ReaderTyped ==
    ASSUME TypeInv, NEW t \in Tables, Reader(t) PROVE TypeInv'
<1> USE DEF TypeInv
<1>0. rd[t] \in Readers /\ rd \in [Tables -> Readers] /\ sock \in Socks /\ tab \in Tabs
  BY DEF CommType
<1>a. Resting \in Readers
  BY DEF Resting, Readers
<1>1. CASE Pick(t)
  <2> DEFINE pos == get_read_fd(t)
  <2>0. tab[t].num \in Nat /\ tab[t].num # 0 /\ tab[t].num - 1 \in Nat /\ 0 \in Nat
    BY <1>0, <1>1 DEF Tabs, Pick
  <2>1. CASE pos = -1
    <3>1. tab' = [tab EXCEPT ![t].num = 0] /\ rd' = rd
      BY <1>1, <2>1, Zenon DEF Pick
    <3>2. tab' \in Tabs
      BY <1>0, <3>1 DEF Tabs
    <3> QED
      BY <1>1, <3>1, <3>2 DEF Pick, CommType, Busy, Pending
  <2>2. CASE pos # -1
    <3>1. /\ tab' = [tab EXCEPT ![t].conn[pos].st = FD_STAT_READ, ![t].num = @ - 1]
          /\ rd' = [rd EXCEPT ![t] = [at |-> "recv", fd |-> SlotFd(t, pos),
                                      ssn |-> tab[t].conn[pos].ssn, who |-> -1]]
      BY <1>1, <2>2, Zenon DEF Pick
    <3>2. pos \in Slots /\ pos \in Seen(t)
      BY <2>2, ReadPosFound
    <3>3. SlotFd(t, pos) \in Fds /\ tab[t].conn[pos].ssn \in Nat \cup {-1}
      BY <3>2, SlotFdType DEF Ssn
    <3> HIDE DEF pos
    <3>4. tab' \in Tabs
      <4>1. FD_STAT_READ \in -1..3
        BY DEF FD_STAT_READ
      <4>2. [tab EXCEPT ![t].conn[pos].st = FD_STAT_READ, ![t].num = tab[t].num - 1] \in Tabs
        BY <2>0, <3>2, <3>3, <4>1, SlotStored, Zenon
      <4> QED
        BY <3>1, <4>2
    <3>5. /\ rd' \in [Tables -> Readers]
          /\ \A u \in Tables : rd'[u].at # "idle" => rd'[u].fd \in Fds
      BY <1>0, <3>1, <3>3 DEF Readers, Busy
    <3> QED
      BY <1>1, <3>4, <3>5 DEF Pick, CommType, Busy, Pending
  <2> QED
    BY <2>1, <2>2
<1>2. CASE RcvTxnMsg(t)
  <2> DEFINE fd == rd[t].fd
  <2>0. fd \in Fds /\ sock[fd] \in SockRec
    BY <1>0, <1>2 DEF RcvTxnMsg, Busy, Socks
  <2>1. \/ /\ sock[fd].in > 0
           /\ sock' = [sock EXCEPT ![fd].in = @ - 1]
           /\ rd' = [rd EXCEPT ![t].at = "call", ![t].who = sock[fd].conn]
        \/ /\ rd' = [rd EXCEPT ![t].at = "close"]
           /\ UNCHANGED sock
    BY <1>2, Zenon DEF RcvTxnMsg
  <2> HIDE DEF fd
  <2>2. sock' \in Socks
    <3>1. sock[fd].in > 0 => sock[fd].in - 1 \in Nat
      BY <2>0 DEF SockRec
    <3> QED
      BY <1>0, <2>0, <2>1, <3>1 DEF Socks, SockRec
  <2>3. rd' \in [Tables -> Readers] /\ \A u \in Tables : rd'[u].fd = rd[u].fd /\ (u # t => rd'[u] = rd[u])
    BY <1>0, <2>0, <2>1 DEF Readers, SockRec
  <2>4. broken' \subseteq {"overlap", "overrun", "reuse", "count"}
    BY <1>2, HazardKinds DEF RcvTxnMsg, CommType
  <2>5. Busy'
    BY <1>2, <2>0, <2>3 DEF RcvTxnMsg, Busy, fd
  <2> QED
    BY <1>2, <2>2, <2>3, <2>4, <2>5 DEF RcvTxnMsg, CommType, Pending
<1>3. CASE Call(t)
  <2>0. rd[t].fd \in Fds
    BY <1>3 DEF Call, Busy
  <2>1. rd' \in [Tables -> Readers] /\ \A u \in Tables : rd'[u] = rd[u] \/ rd'[u].at = "idle"
    BY <1>0, <1>3, <1>a DEF Call, Resting
  <2>2. sock' \in Socks /\ bus' \in SUBSET Calls
    <3>1. CASE UNCHANGED sock /\ bus' = bus \cup {[fd |-> rd[t].fd, ssn |-> rd[t].ssn, who |-> rd[t].who]}
      BY <1>0, <2>0, <3>1 DEF CommType, Calls, Readers
    <3>2. CASE UNCHANGED bus /\ sock' = [sock EXCEPT ![rd[t].fd].busy = FALSE]
      <4>1. sock[rd[t].fd] \in SockRec
        BY <1>0, <2>0 DEF Socks
      <4>2. sock' \in Socks
        BY <1>0, <2>0, <3>2, <4>1 DEF Socks, SockRec
      <4> QED
        BY <3>2, <4>2 DEF CommType
    <3> QED
      BY <1>3, <3>1, <3>2, Zenon DEF Call
  <2>3. broken' \subseteq {"overlap", "overrun", "reuse", "count"}
    BY <1>3, HazardKinds DEF Call, CommType
  <2> QED
    BY <1>3, <2>1, <2>2, <2>3 DEF Call, CommType, Busy, Pending
<1>4. CASE DelClose(t)
  <2>0. rd[t].fd \in Fds
    BY <1>4 DEF DelClose, Busy
  <2>1. rd' \in [Tables -> Readers] /\ \A u \in Tables : rd'[u].fd = rd[u].fd /\ (u # t => rd'[u] = rd[u])
    BY <1>0, <1>4 DEF DelClose, Readers
  <2>2. sock' \in Socks
    BY <1>4, <2>0, CloseTyped DEF DelClose
  <2>3. broken' \subseteq {"overlap", "overrun", "reuse", "count"}
    BY <1>4, HazardKinds DEF DelClose, CommType
  <2>4. Busy'
    BY <1>4, <2>0, <2>1 DEF DelClose, Busy
  <2> QED
    BY <1>4, <2>1, <2>2, <2>3, <2>4 DEF DelClose, CommType, Pending
<1>5. CASE DelClear(t)
  <2> DEFINE k == FirstOrNone({j \in Seen(t) : SlotFd(t, j) = rd[t].fd})
  <2>1. rd' \in [Tables -> Readers] /\ \A u \in Tables : rd'[u] = rd[u] \/ rd'[u].at = "idle"
    BY <1>0, <1>5, <1>a DEF DelClear, Resting
  <2>2. tab' \in Tabs
    <3>1. tab' = IF k = -1 THEN tab ELSE CommClearFd(Uncounted(t, k), t, k)
      BY <1>5, Zenon DEF DelClear
    <3>2. k # -1 => k \in Slots
      BY DelFound
    <3> HIDE DEF k
    <3>3. k # -1 => Uncounted(t, k) \in Tabs
      BY <3>2, UncountedType
    <3> QED
      BY <1>0, <3>1, <3>2, <3>3, ClearType
  <2>3. broken' \subseteq {"overlap", "overrun", "reuse", "count"}
    <3>1. \/ broken' = broken
          \/ broken' = broken \cup ClearHazard(t, k)
                             \cup (IF main.at \in {"fd", "rest"} /\ main.t = t
                                   THEN {"overlap"} ELSE {})
                             \cup (IF tab[t].conn[k].ssn # rd[t].ssn THEN {"reuse"} ELSE {})
                             \cup (IF k # t /\ Uncounted(t, k) # tab THEN {"count"} ELSE {})
      BY <1>5, Zenon DEF DelClear
    <3> QED
      BY <3>1, HazardKinds, ZenonT(60) DEF CommType
  <2> QED
    BY <1>5, <2>1, <2>2, <2>3 DEF DelClear, CommType, Busy, Pending
<1> QED
  BY <1>1, <1>2, <1>3, <1>4, <1>5 DEF Reader

LEMMA WriterTyped ==
    ASSUME TypeInv, Writer PROVE TypeInv'
<1> USE DEF TypeInv
<1>1. CASE WriteSocket
  <2>1. wr.fd \in Fds /\ sock \in Socks
    BY <1>1 DEF WriteSocket, Busy, CommType
  <2>2. sock' \in Socks
    BY <1>1, <2>1 DEF WriteSocket, Socks, SockRec
  <2>3. wr' \in [at : {"idle", "write"}, fd : Fds \cup {-1}, ssn : Nat \cup {-1}, who : Nat \cup {-1}]
        /\ wr'.at = "idle"
    BY <1>1 DEF WriteSocket, Resting
  <2>4. broken' \subseteq {"overlap", "overrun", "reuse", "count"}
    BY <1>1, HazardKinds DEF WriteSocket, CommType
  <2> QED
    BY <1>1, <2>2, <2>3, <2>4 DEF WriteSocket, CommType, Busy, Pending
<1>2. ASSUME NEW m \in bus, Look(m) PROVE TypeInv'
  <2> DEFINE t == TableOf(m.fd)
             k == FirstOrNone({j \in Seen(t) : tab[t].conn[j].ssn = m.ssn})
             found == [at |-> "write", fd |-> m.fd, ssn |-> m.ssn, who |-> m.who]
  <2>0. m \in Calls /\ m.fd \in Fds /\ t \in Tables
    BY TableOfType DEF CommType, Calls
  <2>1. IF k # -1
        THEN wr' = found /\ tab' = [tab EXCEPT ![t].conn[k].st = FD_STAT_WRITE]
        ELSE wr' \in {Resting} \cup (IF Seen(t) = Slots THEN {found} ELSE {}) /\ UNCHANGED tab
    BY <1>2, Zenon DEF Look
  <2>2. k # -1 => k \in Slots
    <3>1. {j \in Seen(t) : tab[t].conn[j].ssn = m.ssn} \in SUBSET Slots
      BY DEF Seen
    <3> QED
      BY <3>1, ScanFinds
  <2>3. wr' = found \/ wr' = Resting
    BY <2>1
  <2>4. wr' \in [at : {"idle", "write"}, fd : Fds \cup {-1}, ssn : Nat \cup {-1}, who : Nat \cup {-1}]
        /\ (wr'.at = "write" => wr'.fd \in Fds)
    BY <2>0, <2>3 DEF Calls, Resting
  <2> HIDE DEF t, k, found
  <2>5. tab' \in Tabs
    <3>1. FD_STAT_WRITE \in -1..3 /\ 0 \in Nat /\ -1 \in Fds \cup {-1} /\ 0 \in Nat \cup {-1}
      BY DEF FD_STAT_WRITE
    <3>2. k # -1 => [tab EXCEPT ![t].conn[k].st = FD_STAT_WRITE] \in Tabs
      BY <2>0, <2>2, <3>1, SlotStored, Zenon
    <3> QED
      BY <2>1, <3>2 DEF CommType
  <2> QED
    BY <1>2, <2>4, <2>5 DEF Look, CommType, Busy, Pending
<1> QED
  BY <1>1, <1>2 DEF Writer

\* The threads and tables are typed: no index leaves its table, no counter
\* becomes negative, and accept is called only when a connection waits.
LEMMA NextTyped == TypeInv /\ [Next]_vars => TypeInv'
<1> SUFFICES ASSUME TypeInv, [Next]_vars PROVE TypeInv'
  OBVIOUS
<1>1. CASE UNCHANGED vars
  BY <1>1 DEF vars, TypeInv, CommType, Busy, Pending
<1>2. CASE Next
  BY <1>2, ClientsTyped, WaitTyped, AcceptTyped, StoreTyped, PollTyped, CleanTyped, ReaderTyped,
     WriterTyped DEF Next, MainStep
<1> QED
  BY <1>1, <1>2

LEMMA Typed == Spec => []TypeInv
BY InitTyped, NextTyped, PTL DEF Spec

\* For any number of tables, slots and descriptors the threads keep to their
\* tables: no counter becomes negative, and every thread at work has a
\* descriptor that accept may return and a table that there is.
THEOREM CommTypeCorrect == Spec => []TypeOK
<1>1. TypeInv => TypeOK
  BY DEF TypeInv, CommType, Busy, TypeOK, Tabs, Socks, SockRec, Mains, Readers
<1> QED
  BY <1>1, Typed, PTL

-----------------------------------------------------------------------------
(***************************************************************************)
(* Steps that leave the tables' fds and numbers, the open sockets and the  *)
(* threads that store or clear as they are.                                *)
(***************************************************************************)

Transit == {"fd", "rest", "clear"}

SameMain ==
    \/ main' = main
    \/ /\ main'.at = main.at /\ main'.fd = main.fd /\ main'.pos = main.pos /\ main'.t = main.t
    \/ main.at \notin Transit /\ main'.at \notin Transit

SameSlots ==
    \A t \in Tables : \A k \in Slots :
        tab'[t].conn[k].fd = tab[t].conn[k].fd /\ tab'[t].conn[k].ssn = tab[t].conn[k].ssn

SamePolls ==
    \A t \in Tables : \A k \in Slots :
        tab'[t].conn[k].st = FD_STAT_POLL => tab[t].conn[k].st = FD_STAT_POLL

SameConns == \A fd \in Fds : sock'[fd].conn = sock[fd].conn

\* A reader that is not about to clear a slot.
ReaderQuiet(t) ==
    \/ rd'[t] = rd[t]
    \/ /\ rd[t].at # "clear" /\ rd'[t].at # "clear"
       /\ rd'[t].at # "idle" => TableOf(rd'[t].fd) = t /\ rd'[t].ssn \in 0..(gssn - 1)

LEMMA SameKept ==
    ASSUME SameMain, SameSlots, NEW t \in Tables, NEW k \in Slots
    PROVE  /\ SlotFd(t, k)' = SlotFd(t, k) /\ Ssn(t, k)' = Ssn(t, k)
           /\ Kept(t, k)' <=> Kept(t, k)
BY DEF SameMain, SameSlots, SlotFd, Ssn, Kept, Transit

LEMMA SameOf ==
    ASSUME SameMain, SameSlots, NEW fd \in Fds
    PROVE  Of(fd)' = Of(fd) /\ KeptOf(fd)' = KeptOf(fd)
<1>1. TableOf(fd) \in Tables /\ TableOf(fd)' = TableOf(fd)
  BY TableOfType DEF TableOf
<1>2. ASSUME NEW k \in Slots
      PROVE  SlotFd(TableOf(fd), k)' = SlotFd(TableOf(fd), k) /\ (Kept(TableOf(fd), k)' <=> Kept(TableOf(fd), k))
  BY <1>1, SameKept
<1>3. Of(fd)' = Of(fd)
  BY <1>2 DEF Of
<1> QED
  BY <1>2, <1>3 DEF KeptOf, Of

LEMMA SameThreads ==
    ASSUME SameMain, NEW fd \in Fds, \A t \in Tables : ReaderQuiet(t)
    PROVE  /\ Closing(fd)' <=> Closing(fd)
           /\ Cleaning(fd)' <=> Cleaning(fd)
           /\ Storing(fd)' <=> Storing(fd)
           /\ Closing(fd) => rd'[TableOf(fd)] = rd[TableOf(fd)]
<1>1. TableOf(fd) \in Tables /\ TableOf(fd)' = TableOf(fd)
  BY TableOfType DEF TableOf
<1>2. ReaderQuiet(TableOf(fd))
  BY <1>1
<1>3. (Closing(fd)' <=> Closing(fd)) /\ (Closing(fd) => rd'[TableOf(fd)] = rd[TableOf(fd)])
  BY <1>1, <1>2 DEF ReaderQuiet, Closing
<1>4. (Cleaning(fd)' <=> Cleaning(fd)) /\ (Storing(fd)' <=> Storing(fd))
  BY DEF SameMain, Transit, Cleaning, Storing
<1> QED
  BY <1>3, <1>4

LEMMA QuietSound ==
    ASSUME TypeInv, Sound, SameMain, SameSlots, SameConns, gssn' = gssn,
           \A t \in Tables : ReaderQuiet(t),
           \A t \in Tables : \A k \in Slots : tab'[t].conn[k].st = FD_STAT_POLL => Kept(t, k)
    PROVE  Sound'
<1>1. Packed'
  BY SameKept DEF Sound, Packed
<1>2. Homed'
  <2>1. \A t \in Tables : \A k \in Slots : (SlotFd(t, k) # -1 => TableOf(SlotFd(t, k)) = t)'
    <3> SUFFICES ASSUME NEW t \in Tables, NEW k \in Slots, SlotFd(t, k)' # -1
                 PROVE  TableOf(SlotFd(t, k)') = t
      BY DEF TableOf
    <3>1. SlotFd(t, k)' = SlotFd(t, k)
      BY SameKept
    <3> QED
      BY <3>1 DEF Sound, Homed, TableOf
  <2>2. \A t \in Tables : (rd[t].at # "idle" => TableOf(rd[t].fd) = t)'
    BY DEF Sound, Homed, ReaderQuiet, TableOf
  <2>3. (main.at \in {"fd", "rest", "clear"} => TableOf(main.fd) = main.t)'
    BY DEF Sound, Homed, SameMain, Transit, TableOf
  <2> QED
    BY <2>1, <2>2, <2>3 DEF Homed
<1>3. Numbered'
  <2>1. \A t \in Tables : \A k \in Slots : (Kept(t, k) => Ssn(t, k) \in 0..(gssn - 1))'
    BY SameKept DEF Sound, Numbered
  <2>2. \A t \in Tables : \A k \in Slots : (tab[t].conn[k].st = FD_STAT_POLL => Kept(t, k))'
    BY SameKept DEF FD_STAT_POLL
  <2>3. \A t \in Tables : (rd[t].at # "idle" => rd[t].ssn \in 0..(gssn - 1))'
    BY DEF Sound, Numbered, ReaderQuiet
  <2>4. \A t \in Tables : \A j, k \in Slots :
          (Kept(t, j) /\ Kept(t, k) /\ Ssn(t, j) = Ssn(t, k) => j = k)'
    BY SameKept DEF Sound, Numbered
  <2> QED
    BY <2>1, <2>2, <2>3, <2>4 DEF Numbered
<1>4. Accepting'
  <2> SUFFICES ASSUME main'.at \in {"fd", "rest"} PROVE Accepting'
    BY DEF Accepting
  <2>1. main'.at = main.at /\ main'.fd = main.fd /\ main'.pos = main.pos /\ main'.t = main.t
    BY DEF SameMain, Transit
  <2>2. main.fd \in Fds /\ main.t \in Tables /\ main.pos \in Slots
    BY <2>1 DEF TypeInv, CommType, Mains, Busy
  <2>3. sock'[main.fd].conn = sock[main.fd].conn
    BY <2>2 DEF SameConns
  <2>4. \A k \in Slots : tab'[main.t].conn[k].fd = tab[main.t].conn[k].fd
    BY <2>2 DEF SameSlots
  <2>5. Accepting
    BY DEF Sound
  <2> QED
    BY <2>1, <2>2, <2>3, <2>4, <2>5 DEF Accepting, SlotFd
<1>5. Recorded'
  <2> SUFFICES ASSUME NEW fd \in Fds, sock'[fd].conn # -1, ~Storing(fd)'
               PROVE  \E k \in KeptOf(fd)' : Ssn(TableOf(fd), k)' = sock'[fd].conn
    BY DEF Recorded
  <2>1. sock[fd].conn # -1 /\ ~Storing(fd) /\ sock'[fd].conn = sock[fd].conn
    BY SameThreads DEF SameConns
  <2>2. PICK k \in KeptOf(fd) : Ssn(TableOf(fd), k) = sock[fd].conn
    BY <2>1 DEF Sound, Recorded
  <2>3. k \in KeptOf(fd)'
    BY SameOf
  <2>4. Ssn(TableOf(fd), k)' = Ssn(TableOf(fd), k)
    BY TableOfType DEF SameSlots, Ssn, TableOf, KeptOf, Of
  <2> QED
    BY <2>1, <2>2, <2>3, <2>4
<1>a. ASSUME NEW fd \in Fds, NEW k \in Of(fd) PROVE Ssn(TableOf(fd), k)' = Ssn(TableOf(fd), k)
  BY TableOfType DEF SameSlots, Ssn, TableOf, Of
<1>b. \A fd \in Fds : KeptOf(fd) \subseteq Of(fd)
  BY DEF KeptOf
<1>6. Current'
  <2> SUFFICES ASSUME NEW fd \in Fds, ~Closing(fd)', ~Cleaning(fd)', NEW k \in KeptOf(fd)'
               PROVE  Ssn(TableOf(fd), k)' = sock'[fd].conn
    BY DEF Current
  <2>1. ~Closing(fd) /\ ~Cleaning(fd) /\ k \in KeptOf(fd)
    BY SameThreads, SameOf
  <2> QED
    BY <1>a, <1>b, <2>1 DEF Sound, Current, SameConns
<1>7. Cleaned'
  <2> SUFFICES ASSUME main'.at = "clear" PROVE Cleaned'
    BY DEF Cleaned
  <2>1. main.at = "clear" /\ main'.fd = main.fd /\ main.fd \in Fds
    BY DEF SameMain, Transit, TypeInv, Busy
  <2>2. PICK f \in Fds : f = main.fd
    BY <2>1
  <2>3. sock[f].conn = -1 /\ (~Closing(f) => \A j, k \in Of(f) : j = k)
    BY <2>1, <2>2 DEF Sound, Cleaned
  <2>4. sock'[f].conn = -1 /\ (~Closing(f)' => \A j, k \in Of(f)' : j = k)
    BY <2>3, SameThreads, SameOf DEF SameConns
  <2>5. (Closing(f) <=> Closing(main.fd))' /\ (Of(f) = Of(main.fd))'
    BY <2>1, <2>2 DEF Closing, Of, TableOf
  <2> QED
    BY <2>1, <2>2, <2>4, <2>5 DEF Cleaned
<1>8. Deleting'
  <2> SUFFICES ASSUME NEW fd \in Fds, Closing(fd)'
               PROVE  /\ sock'[fd].conn # rd'[TableOf(fd)].ssn
                      /\ OldFirst(fd)' \/ OldGone(fd)'
    BY DEF Deleting, TableOf
  <2>1. Closing(fd) /\ rd'[TableOf(fd)] = rd[TableOf(fd)] /\ (Cleaning(fd)' <=> Cleaning(fd))
    BY SameThreads
  <2>2. sock[fd].conn # rd[TableOf(fd)].ssn /\ (OldFirst(fd) \/ OldGone(fd))
    BY <2>1 DEF Sound, Deleting
  <2>3. Of(fd)' = Of(fd) /\ KeptOf(fd)' = KeptOf(fd) /\ sock'[fd].conn = sock[fd].conn
    BY SameOf DEF SameConns
  <2>4. TableOf(fd)' = TableOf(fd)
    BY DEF TableOf
  <2>5. CASE OldFirst(fd)
    <3>1. PICK k \in KeptOf(fd) :
            /\ Ssn(TableOf(fd), k) = rd[TableOf(fd)].ssn
            /\ \A j \in Of(fd) : k <= j
            /\ IF Cleaning(fd) THEN \A i, j \in Of(fd) \ {k} : i = j
               ELSE \A j \in KeptOf(fd) \ {k} : Ssn(TableOf(fd), j) = sock[fd].conn
      BY <2>5 DEF OldFirst
    <3>2. /\ Ssn(TableOf(fd), k)' = rd'[TableOf(fd)].ssn
          /\ \A j \in Of(fd)' : k <= j
      BY <3>1, <2>1, <2>3, <1>a, <1>b
    <3>3. Cleaning(fd)' => \A i, j \in Of(fd)' \ {k} : i = j
      BY <3>1, <2>1, <2>3
    <3>4. ~Cleaning(fd)' => \A j \in KeptOf(fd)' \ {k} : Ssn(TableOf(fd), j)' = sock'[fd].conn
      BY <3>1, <2>1, <2>3, <1>a, <1>b
    <3>5. OldFirst(fd)'
      BY <3>2, <3>3, <3>4, <2>3, <2>4 DEF OldFirst
    <3> QED
      BY <3>5, <2>1, <2>2, <2>3
  <2>6. CASE OldGone(fd)
    <3>1. OldGone(fd)'
      BY <2>6, <2>1, <2>3, <1>a, <1>b DEF OldGone, TableOf
    <3> QED
      BY <3>1, <2>1, <2>2, <2>3
  <2> QED
    BY <2>2, <2>5, <2>6
<1> QED
  BY <1>1, <1>2, <1>3, <1>4, <1>5, <1>6, <1>7, <1>8 DEF Sound

\* Nothing but the events of the sockets, and the counters, changes.
LEMMA UntouchedSound ==
    ASSUME TypeInv, Sound, SameMain, SameConns, UNCHANGED <<tab, gssn, rd>>
    PROVE  Sound'
<1>1. SameSlots /\ \A t \in Tables : ReaderQuiet(t)
  BY DEF SameSlots, ReaderQuiet
<1>2. \A t \in Tables : \A k \in Slots : tab'[t].conn[k].st = FD_STAT_POLL => Kept(t, k)
  BY DEF Sound, Numbered
<1> QED
  BY <1>1, <1>2, QuietSound

LEMMA ClientsSound ==
    ASSUME TypeInv, Sound, Clients PROVE Sound'
<1>1. sock \in Socks /\ \A fd \in Fds : sock[fd] \in SockRec
  BY DEF TypeInv, CommType, Socks
<1>2. SameConns
  <2>1. CASE Connect \/ Expire
    BY <2>1 DEF Connect, Expire, SameConns
  <2>2. ASSUME NEW fd \in Fds, SendRequest(fd) PROVE SameConns
    BY <1>1, <2>2 DEF SendRequest, SameConns, Socks, SockRec
  <2>3. ASSUME NEW fd \in Fds, HangUp(fd) PROVE SameConns
    BY <1>1, <2>3 DEF HangUp, SameConns, Socks, SockRec
  <2> QED
    BY <2>1, <2>2, <2>3 DEF Clients
<1>3. main' = main /\ UNCHANGED <<tab, gssn, rd>>
  BY DEF Clients, Connect, Expire, SendRequest, HangUp
<1> QED
  BY <1>2, <1>3, UntouchedSound DEF SameMain

LEMMA WaitSound ==
    ASSUME TypeInv, Sound, epoll_wait \/ EventsDone PROVE Sound'
<1>1. sock \in Socks /\ (\A fd \in Fds : sock[fd] \in SockRec) /\ main \in Mains
  BY DEF TypeInv, CommType, Socks
<1>2. SameConns
  <2>1. CASE epoll_wait
    BY <1>1, <2>1 DEF epoll_wait, SameConns, Socks, SockRec
  <2>2. CASE EventsDone
    BY <2>2 DEF EventsDone, SameConns
  <2> QED
    BY <2>1, <2>2
<1>3. main.at \notin Transit /\ main'.at \notin Transit
  BY <1>1 DEF epoll_wait, EventsDone, Transit, Mains
<1>4. UNCHANGED <<tab, gssn, rd>>
  BY DEF epoll_wait, EventsDone
<1> QED
  BY <1>2, <1>3, <1>4, UntouchedSound DEF SameMain

\* An fd without slot is closed already: nothing more is closed.
LEMMA PollSound ==
    ASSUME TypeInv, Sound, NEW fd \in Fds, PollIn(fd) PROVE Sound'
<1> DEFINE t == TableOf(fd)
           pos == get_connect_pos(t, fd)
<1>0. main \in Mains /\ t \in Tables /\ main.at = "events" /\ sock \in Socks /\ tab \in Tabs
  BY TableOfType DEF TypeInv, CommType, PollIn
<1>1. IF pos = -1 THEN sock' = CloseSocket(fd) /\ UNCHANGED tab
      ELSE /\ tab' = [tab EXCEPT ![t].conn[pos].st = FD_STAT_POLL, ![t].num = @ + 1]
           /\ UNCHANGED sock
  BY Zenon DEF PollIn
<1>2. /\ pos # -1 => pos \in Slots /\ SlotFd(t, pos) = fd
      /\ pos = -1 => \A k \in Slots : SlotFd(t, k) # fd
  BY <1>0, PosFound
<1>3. main'.at = "events" /\ UNCHANGED <<gssn, rd>> /\ main.at \notin Transit /\ main'.at \notin Transit
  BY <1>0 DEF PollIn, Mains, Transit
<1> HIDE DEF pos
<1>4. CASE pos = -1
  <2>1. sock[fd].conn = -1
    <3> SUFFICES ASSUME sock[fd].conn # -1 PROVE FALSE
      OBVIOUS
    <3>1. ~Storing(fd)
      BY <1>0 DEF Storing
    <3>2. PICK k \in KeptOf(fd) : TRUE
      BY <3>1 DEF Sound, Recorded
    <3> QED
      BY <1>2, <1>4, <3>2 DEF KeptOf, Of
  <2>2. SameConns
    BY <1>0, <1>1, <1>4, <2>1 DEF SameConns, CloseSocket, Closed, Socks
  <2> QED
    BY <1>1, <1>3, <1>4, <2>2, UntouchedSound DEF SameMain
<1>5. CASE pos # -1
  <2>1. tab' = [tab EXCEPT ![t].conn[pos].st = FD_STAT_POLL, ![t].num = @ + 1] /\ sock' = sock
    BY <1>1, <1>5
  <2>2. tab[t].conn \in [Slots -> SlotRec] /\ tab[t].conn[pos] \in SlotRec /\ pos \in Slots
    BY <1>0, <1>2, <1>5 DEF Tabs
  <2>3. ASSUME NEW u \in Tables, NEW k \in Slots
        PROVE  /\ tab'[u].conn[k].fd = tab[u].conn[k].fd /\ tab'[u].conn[k].ssn = tab[u].conn[k].ssn
               /\ tab'[u].conn[k].st = tab[u].conn[k].st \/ (u = t /\ k = pos)
    BY <1>0, <2>1, <2>2 DEF Tabs, SlotRec
  <2>4. Kept(t, pos)
    BY <1>0, <1>2, <1>5, SizeAssumption DEF Kept, SlotFd
  <2>5. SameSlots /\ SameConns /\ SameMain /\ \A u \in Tables : ReaderQuiet(u)
    BY <2>1, <2>3, <1>3 DEF SameSlots, SameConns, SameMain, ReaderQuiet
  <2>6. \A u \in Tables : \A k \in Slots : tab'[u].conn[k].st = FD_STAT_POLL => Kept(u, k)
    BY <2>3, <2>4 DEF Sound, Numbered
  <2> QED
    BY <1>3, <2>5, <2>6, QuietSound
<1> QED
  BY <1>4, <1>5

\* Readers before they close an fd.
LEMMA ReadSound ==
    ASSUME TypeInv, Sound, NEW t \in Tables, Pick(t) \/ RcvTxnMsg(t) \/ Call(t) PROVE Sound'
<1>0. /\ rd[t] \in Readers /\ rd \in [Tables -> Readers] /\ sock \in Socks /\ tab \in Tabs
      /\ \A fd \in Fds : sock[fd] \in SockRec
  BY DEF TypeInv, CommType, Socks
<1>a. SameMain /\ gssn' = gssn
  BY DEF Pick, RcvTxnMsg, Call, SameMain
<1>1. CASE Pick(t)
  <2> DEFINE pos == get_read_fd(t)
  <2>1. CASE pos = -1
    <3>1. tab' = [tab EXCEPT ![t].num = 0] /\ rd' = rd /\ sock' = sock
      BY <1>1, <2>1, Zenon DEF Pick
    <3>2. \A u \in Tables : tab'[u].conn = tab[u].conn
      BY <1>0, <3>1 DEF Tabs
    <3>3. SameSlots /\ SameConns /\ \A u \in Tables : ReaderQuiet(u)
      BY <3>1, <3>2 DEF SameSlots, SameConns, ReaderQuiet
    <3>4. \A u \in Tables : \A k \in Slots : tab'[u].conn[k].st = FD_STAT_POLL => Kept(u, k)
      BY <3>2 DEF Sound, Numbered
    <3> QED
      BY <1>a, <3>3, <3>4, QuietSound
  <2>2. CASE pos # -1
    <3>1. /\ tab' = [tab EXCEPT ![t].conn[pos].st = FD_STAT_READ, ![t].num = @ - 1]
          /\ rd' = [rd EXCEPT ![t] = [at |-> "recv", fd |-> SlotFd(t, pos),
                                      ssn |-> tab[t].conn[pos].ssn, who |-> -1]]
          /\ sock' = sock /\ rd[t].at = "idle"
      BY <1>1, <2>2, Zenon DEF Pick
    <3>2. pos \in Slots /\ tab[t].conn[pos].st = FD_STAT_POLL
      BY <2>2, ReadPosFound
    <3> HIDE DEF pos
    <3>3. tab[t].conn \in [Slots -> SlotRec] /\ tab[t].conn[pos] \in SlotRec
      BY <1>0, <3>2 DEF Tabs
    <3>4. ASSUME NEW u \in Tables, NEW k \in Slots
          PROVE  /\ tab'[u].conn[k].fd = tab[u].conn[k].fd /\ tab'[u].conn[k].ssn = tab[u].conn[k].ssn
                 /\ tab'[u].conn[k].st = tab[u].conn[k].st \/ tab'[u].conn[k].st = FD_STAT_READ
      BY <1>0, <3>1, <3>2, <3>3 DEF Tabs, SlotRec
    <3>5. SameSlots /\ SameConns
      BY <3>1, <3>4 DEF SameSlots, SameConns
    <3>6. \A u \in Tables : \A k \in Slots : tab'[u].conn[k].st = FD_STAT_POLL => Kept(u, k)
      BY <3>4 DEF Sound, Numbered, FD_STAT_POLL, FD_STAT_READ
    <3>7. Kept(t, pos) /\ SlotFd(t, pos) # -1
      BY <3>2 DEF Sound, Numbered, Kept
    <3>8. TableOf(SlotFd(t, pos)) = t /\ tab[t].conn[pos].ssn \in 0..(gssn - 1)
      BY <3>2, <3>7 DEF Sound, Homed, Numbered, Ssn
    <3>9. \A u \in Tables : ReaderQuiet(u)
      BY <1>0, <3>1, <3>8 DEF ReaderQuiet
    <3> QED
      BY <1>a, <3>5, <3>6, <3>9, QuietSound
  <2> QED
    BY <2>1, <2>2
<1>2. CASE RcvTxnMsg(t) \/ Call(t)
  <2>0. rd[t].fd \in Fds /\ rd[t].at \notin {"idle", "clear"}
    BY <1>2 DEF TypeInv, Busy, RcvTxnMsg, Call
  <2>1. tab' = tab /\ SameSlots
    BY <1>2 DEF RcvTxnMsg, Call, SameSlots
  <2>2. SameConns
    <3>1. \/ sock' = sock \/ sock' = [sock EXCEPT ![rd[t].fd].in = @ - 1]
          \/ sock' = [sock EXCEPT ![rd[t].fd].busy = FALSE]
      BY <1>2, Zenon DEF RcvTxnMsg, Call
    <3> QED
      BY <1>0, <2>0, <3>1 DEF SameConns, Socks, SockRec
  <2>3. TableOf(rd[t].fd) = t /\ rd[t].ssn \in 0..(gssn - 1)
    BY <2>0 DEF Sound, Homed, Numbered
  <2>4. /\ \A u \in Tables : u # t => rd'[u] = rd[u]
        /\ rd'[t].at # "clear"
        /\ rd'[t].at # "idle" => rd'[t].fd = rd[t].fd /\ rd'[t].ssn = rd[t].ssn
    <3>1. \/ rd' = [rd EXCEPT ![t].at = "call", ![t].who = sock[rd[t].fd].conn]
          \/ rd' = [rd EXCEPT ![t].at = "close"]
          \/ rd' = [rd EXCEPT ![t] = Resting]
      BY <1>2, Zenon DEF RcvTxnMsg, Call
    <3>2. Resting.at = "idle"
      BY DEF Resting
    <3> QED
      BY <1>0, <3>1, <3>2 DEF Readers
  <2>5. \A u \in Tables : ReaderQuiet(u)
    BY <2>0, <2>3, <2>4 DEF ReaderQuiet
  <2>6. \A u \in Tables : \A k \in Slots : tab'[u].conn[k].st = FD_STAT_POLL => Kept(u, k)
    BY <2>1 DEF Sound, Numbered
  <2> QED
    BY <1>a, <2>1, <2>2, <2>5, <2>6, QuietSound
<1> QED
  BY <1>1, <1>2

LEMMA WriterSound ==
    ASSUME TypeInv, Sound, Writer PROVE Sound'
<1>0. /\ sock \in Socks /\ tab \in Tabs
      /\ \A fd \in Fds : sock[fd] \in SockRec
  BY DEF TypeInv, CommType, Socks
<1>1. CASE WriteSocket
  <2>1. wr.fd \in Fds
    BY <1>1 DEF WriteSocket, TypeInv, Busy
  <2>2. SameConns
    BY <1>0, <1>1, <2>1 DEF WriteSocket, SameConns, Socks, SockRec
  <2> QED
    BY <1>1, <2>2, UntouchedSound DEF WriteSocket, SameMain
<1>2. ASSUME NEW m \in bus, Look(m) PROVE Sound'
  <2> DEFINE t == TableOf(m.fd)
             k == FirstOrNone({j \in Seen(t) : tab[t].conn[j].ssn = m.ssn})
  <2>0. m.fd \in Fds /\ t \in Tables
    BY TableOfType DEF TypeInv, CommType, Calls
  <2>1. (k # -1 /\ tab' = [tab EXCEPT ![t].conn[k].st = FD_STAT_WRITE]) \/ tab' = tab
    BY <1>2, Zenon DEF Look
  <2>2. k # -1 => k \in Slots
    <3>1. {j \in Seen(t) : tab[t].conn[j].ssn = m.ssn} \in SUBSET Slots
      BY DEF Seen
    <3> QED
      BY <3>1, ScanFinds
  <2>a. UNCHANGED <<gssn, sock, main, rd>>
    BY <1>2 DEF Look
  <2> HIDE DEF t, k
  <2>3. ASSUME NEW u \in Tables, NEW j \in Slots
        PROVE  /\ tab'[u].conn[j].fd = tab[u].conn[j].fd /\ tab'[u].conn[j].ssn = tab[u].conn[j].ssn
               /\ tab'[u].conn[j].st = tab[u].conn[j].st \/ tab'[u].conn[j].st = FD_STAT_WRITE
    <3>1. CASE k # -1 /\ tab' = [tab EXCEPT ![t].conn[k].st = FD_STAT_WRITE]
      <4>1. tab[t].conn \in [Slots -> SlotRec] /\ tab[t].conn[k] \in SlotRec
        BY <1>0, <2>0, <2>2, <3>1 DEF Tabs
      <4> QED
        BY <1>0, <2>0, <2>2, <3>1, <4>1 DEF Tabs, SlotRec
    <3> QED
      BY <2>1, <3>1
  <2>4. SameSlots /\ SameConns /\ SameMain /\ \A u \in Tables : ReaderQuiet(u)
    BY <2>3, <2>a DEF SameSlots, SameConns, SameMain, ReaderQuiet
  <2>5. \A u \in Tables : \A j \in Slots : tab'[u].conn[j].st = FD_STAT_POLL => Kept(u, j)
    BY <2>3 DEF Sound, Numbered, FD_STAT_POLL, FD_STAT_WRITE
  <2> QED
    BY <2>4, <2>5, <2>a, QuietSound
<1> QED
  BY <1>1, <1>2 DEF Writer

-----------------------------------------------------------------------------
(***************************************************************************)
(* The steps of new_accept.                                                *)
(***************************************************************************)

\* Nothing is being stored or cleared: every slot in use is complete.
LEMMA AllKept ==
    ASSUME main.at # "rest", NEW t \in Tables, NEW k \in Slots
    PROVE  Kept(t, k) <=> SlotFd(t, k) # -1
BY DEF Kept

\* Numbers of complete records are not negative.
LEMMA KeptNumber ==
    ASSUME Sound, gssn \in Nat, NEW fd \in Fds, NEW k \in KeptOf(fd)
    PROVE  /\ Ssn(TableOf(fd), k) \in 0..(gssn - 1) /\ Ssn(TableOf(fd), k) # -1
           /\ k \in Slots /\ TableOf(fd) \in Tables
<1>1. k \in Slots /\ TableOf(fd) \in Tables /\ Kept(TableOf(fd), k)
  BY TableOfType DEF KeptOf, Of
<1> QED
  BY <1>1 DEF Sound, Numbered

\* The number of the connection a reader is about to clear.
LEMMA ClosingNumber ==
    ASSUME Sound, gssn \in Nat, NEW fd \in Fds, Closing(fd)
    PROVE  rd[TableOf(fd)].ssn \in 0..(gssn - 1) /\ rd[TableOf(fd)].ssn # -1
BY TableOfType DEF Sound, Numbered, Closing

LEMMA AcceptSound ==
    ASSUME TypeInv, Sound, new_accept PROVE Sound'
<1>0. main \in Mains /\ sock \in Socks /\ gssn \in Nat /\ main.at = "events"
  BY DEF TypeInv, CommType, new_accept
<1>a. UNCHANGED <<tab, gssn, rd>>
  BY DEF new_accept
<1>1. PICK fd \in Fds :
        /\ sock[fd].conn = -1
        /\ IF get_connect_pos(TableOf(fd), -1) = -1
           THEN main' = [main EXCEPT !.lis = FALSE] /\ UNCHANGED sock
           ELSE /\ main' = [main EXCEPT !.at = "fd", !.lis = FALSE, !.fd = fd,
                                        !.pos = get_connect_pos(TableOf(fd), -1), !.t = TableOf(fd)]
                /\ sock' = [sock EXCEPT ![fd] = [Closed EXCEPT !.conn = gssn]]
  BY Zenon DEF new_accept
<1> DEFINE t == TableOf(fd)
           pos == get_connect_pos(t, -1)
<1>2. CASE pos = -1
  <2>1. SameMain /\ SameConns
    BY <1>0, <1>1, <1>2 DEF SameMain, SameConns, Mains
  <2> QED
    BY <1>a, <2>1, UntouchedSound
<1>3. CASE pos # -1
  <2>1. main' = [main EXCEPT !.at = "fd", !.lis = FALSE, !.fd = fd, !.pos = pos, !.t = t]
        /\ sock' = [sock EXCEPT ![fd] = [Closed EXCEPT !.conn = gssn]]
    BY <1>1, <1>3
  <2>2. t \in Tables /\ pos \in Slots /\ SlotFd(t, pos) = -1
        /\ \A k \in Slots : SlotFd(t, k) = -1 => pos <= k
    BY <1>3, TableOfType, PosFound
  <2> HIDE DEF pos
  <2>3. main'.at = "fd" /\ main'.fd = fd /\ main'.pos = pos /\ main'.t = t
    BY <1>0, <2>1 DEF Mains
  <2>4. sock'[fd].conn = gssn /\ \A f \in Fds \ {fd} : sock'[f] = sock[f]
    BY <1>0, <2>1 DEF Socks, Closed
  <2>5. ASSUME NEW u \in Tables, NEW k \in Slots
        PROVE  SlotFd(u, k)' = SlotFd(u, k) /\ Ssn(u, k)' = Ssn(u, k) /\ (Kept(u, k)' <=> Kept(u, k))
    BY <1>0, <1>a, <2>3 DEF SlotFd, Ssn, Kept
  <2>6. ASSUME NEW f \in Fds
        PROVE  /\ TableOf(f) \in Tables /\ TableOf(f)' = TableOf(f)
               /\ Of(f)' = Of(f) /\ KeptOf(f)' = KeptOf(f)
               /\ KeptOf(f) \subseteq Slots
               /\ Closing(f)' <=> Closing(f)
               /\ ~Cleaning(f) /\ ~Cleaning(f)' /\ ~Storing(f)
               /\ Storing(f)' <=> f = fd
    <3>1. TableOf(f) \in Tables /\ TableOf(f)' = TableOf(f)
      BY TableOfType DEF TableOf
    <3>2. Of(f)' = Of(f)
      BY <2>5, <3>1 DEF Of
    <3>3. KeptOf(f)' = KeptOf(f) /\ KeptOf(f) \subseteq Slots
      BY <2>5, <3>1, <3>2 DEF KeptOf, Of
    <3>4. (Closing(f)' <=> Closing(f)) /\ ~Cleaning(f) /\ ~Cleaning(f)' /\ ~Storing(f) /\ (Storing(f)' <=> f = fd)
      BY <1>0, <1>a, <2>3, <3>1 DEF Closing, Cleaning, Storing
    <3> QED
      BY <3>1, <3>2, <3>3, <3>4
  <2>7. Packed' /\ Numbered'
    BY <1>a, <2>5 DEF Sound, Packed, Numbered
  <2>8. Homed'
    BY <1>a, <2>3 DEF Sound, Homed, SlotFd, TableOf
  <2>9. Accepting'
    <3>1. ASSUME NEW k \in Slots PROVE SlotFd(t, k) # -1 <=> k < pos
      <4>1. k \in Nat /\ pos \in Nat
        BY <2>2, SlotBounds
      <4>2. SlotFd(t, k) # -1 /\ pos <= k => FALSE
        BY <2>2, <4>1 DEF Sound, Packed
      <4> QED
        BY <2>2, <4>1, <4>2
    <3> QED
      BY <2>3, <2>4, <3>1, <1>a DEF Accepting, SlotFd
  <2>10. Recorded'
    <3> SUFFICES ASSUME NEW f \in Fds, sock'[f].conn # -1, f # fd
                 PROVE  \E k \in KeptOf(f)' : Ssn(TableOf(f), k)' = sock'[f].conn
      BY <2>6 DEF Recorded
    <3>1. PICK k \in KeptOf(f) : Ssn(TableOf(f), k) = sock[f].conn
      BY <2>4, <2>6 DEF Sound, Recorded
    <3> QED
      BY <2>4, <2>5, <2>6, <3>1
  <2>11. Current'
    <3> SUFFICES ASSUME NEW f \in Fds, ~Closing(f)', NEW k \in KeptOf(f)'
                 PROVE  Ssn(TableOf(f), k)' = sock'[f].conn
      BY DEF Current
    <3>1. k \in KeptOf(f) /\ Ssn(TableOf(f), k) = sock[f].conn /\ Ssn(TableOf(f), k)' = Ssn(TableOf(f), k)
      BY <2>5, <2>6 DEF Sound, Current
    <3>2. f # fd
      BY <1>0, <1>1, <3>1, KeptNumber
    <3> QED
      BY <2>4, <3>1, <3>2
  <2>12. Cleaned'
    BY <2>3 DEF Cleaned
  <2>13. Deleting'
    <3> SUFFICES ASSUME NEW f \in Fds, Closing(f)'
                 PROVE  sock'[f].conn # rd[TableOf(f)].ssn /\ (OldFirst(f)' \/ OldGone(f)')
      BY <1>a DEF Deleting, TableOf
    <3>1. Closing(f) /\ sock[f].conn # rd[TableOf(f)].ssn /\ (OldFirst(f) \/ OldGone(f))
      BY <2>6 DEF Sound, Deleting
    <3>2. sock'[f].conn # rd[TableOf(f)].ssn
      BY <1>0, <2>4, <3>1, ClosingNumber
    <3>3. CASE OldGone(f)
      BY <1>a, <2>5, <2>6, <3>2, <3>3 DEF OldGone
    <3>4. CASE OldFirst(f)
      <4>1. PICK k \in KeptOf(f) :
              /\ Ssn(TableOf(f), k) = rd[TableOf(f)].ssn
              /\ \A j \in Of(f) : k <= j
              /\ \A j \in KeptOf(f) \ {k} : Ssn(TableOf(f), j) = sock[f].conn
        BY <2>6, <3>4 DEF OldFirst
      <4>2. \A j \in KeptOf(f) \ {k} : Ssn(TableOf(f), j)' = sock'[f].conn
        <5>1. CASE f = fd
          BY <1>0, <1>1, <4>1, <5>1, KeptNumber
        <5>2. CASE f # fd
          BY <2>4, <2>5, <2>6, <4>1, <5>2
        <5> QED
          BY <5>1, <5>2
      <4>3. OldFirst(f)'
        BY <1>a, <2>5, <2>6, <4>1, <4>2 DEF OldFirst
      <4> QED
        BY <3>2, <4>3
    <3> QED
      BY <3>1, <3>3, <3>4
  <2> QED
    BY <2>7, <2>8, <2>9, <2>10, <2>11, <2>12, <2>13 DEF Sound
<1> QED
  BY <1>2, <1>3

LEMMA StoreFdSound ==
    ASSUME TypeInv, Sound, StoreFd PROVE Sound'
<1>0. /\ main \in Mains /\ gssn \in Nat /\ main.at = "fd" /\ tab \in Tabs
      /\ main.fd \in Fds /\ main.t \in Tables /\ main.pos \in Slots
  BY DEF TypeInv, CommType, StoreFd, Busy, Mains
<1> PICK t \in Tables : t = main.t
  BY <1>0
<1> PICK pos \in Slots : pos = main.pos
  BY <1>0
<1>a. UNCHANGED <<gssn, sock, rd>> /\ tab' = [tab EXCEPT ![t].conn[pos].fd = main.fd]
  BY DEF StoreFd
<1>1. main'.at = "rest" /\ main'.fd = main.fd /\ main'.pos = pos /\ main'.t = t
  BY <1>0 DEF StoreFd, Mains
<1>2. /\ sock[main.fd].conn = gssn /\ TableOf(main.fd) = t
      /\ \A k \in Slots : SlotFd(t, k) # -1 <=> k < pos
  BY <1>0 DEF Sound, Accepting, Homed
<1>3. pos \in Nat /\ main.fd # -1 /\ SlotFd(t, pos) = -1
  BY <1>0, <1>2, SlotBounds, SizeAssumption
<1>4. ASSUME NEW u \in Tables, NEW k \in Slots
      PROVE  /\ SlotFd(u, k)' = IF u = t /\ k = pos THEN main.fd ELSE SlotFd(u, k)
             /\ Ssn(u, k)' = Ssn(u, k)
             /\ tab'[u].conn[k].st = tab[u].conn[k].st
  <2>1. tab[t].conn \in [Slots -> SlotRec] /\ tab[t].conn[pos] \in SlotRec
    BY <1>0 DEF Tabs
  <2>2. tab'[u].conn[k] = IF u = t /\ k = pos THEN [tab[t].conn[pos] EXCEPT !.fd = main.fd]
                          ELSE tab[u].conn[k]
    BY <1>0, <1>a, <2>1 DEF Tabs
  <2> QED
    BY <2>1, <2>2 DEF SlotFd, Ssn, SlotRec
<1>5. ASSUME NEW u \in Tables, NEW k \in Slots PROVE Kept(u, k)' <=> Kept(u, k)
  BY <1>0, <1>1, <1>3, <1>4 DEF Kept
<1>6. ASSUME NEW f \in Fds
      PROVE  /\ TableOf(f) \in Tables /\ TableOf(f)' = TableOf(f)
             /\ Of(f)' \subseteq Of(f) \cup {pos}
             /\ KeptOf(f)' = KeptOf(f)
             /\ \A k \in KeptOf(f) : k \in Slots /\ Ssn(TableOf(f), k)' = Ssn(TableOf(f), k)
             /\ Closing(f)' <=> Closing(f)
             /\ ~Cleaning(f) /\ ~Cleaning(f)'
             /\ Storing(f)' <=> Storing(f)
  <2>1. TableOf(f) \in Tables /\ TableOf(f)' = TableOf(f)
    BY TableOfType DEF TableOf
  <2>2. Of(f)' \subseteq Of(f) \cup {pos}
    BY <1>4, <2>1 DEF Of
  <2>3. ASSUME NEW k \in Slots
        PROVE  SlotFd(TableOf(f), k)' = f /\ Kept(TableOf(f), k)' <=> SlotFd(TableOf(f), k) = f /\ Kept(TableOf(f), k)
    BY <1>0, <1>1, <1>3, <1>4, <1>5, <2>1 DEF Kept
  <2>4. KeptOf(f)' = KeptOf(f)
    BY <2>1, <2>3 DEF KeptOf, Of
  <2>5. \A k \in KeptOf(f) : k \in Slots /\ Ssn(TableOf(f), k)' = Ssn(TableOf(f), k)
    BY <1>4, <2>1 DEF KeptOf, Of
  <2>6. Closing(f)' <=> Closing(f)
    BY <1>a, <2>1 DEF Closing
  <2>7. ~Cleaning(f) /\ ~Cleaning(f)' /\ (Storing(f)' <=> Storing(f))
    BY <1>0, <1>1 DEF Cleaning, Storing
  <2> QED
    BY <2>1, <2>2, <2>4, <2>5, <2>6, <2>7
<1>7. Packed'
  <2> SUFFICES ASSUME NEW u \in Tables, NEW j \in Slots, NEW k \in Slots, j < k, SlotFd(u, k)' # -1
               PROVE  SlotFd(u, j)' # -1
    BY DEF Packed
  <2>1. j \in Nat /\ k \in Nat
    BY SlotBounds
  <2>2. CASE u = t
    BY <1>2, <1>3, <1>4, <2>1, <2>2
  <2>3. CASE u # t
    BY <1>4, <2>3 DEF Sound, Packed
  <2> QED
    BY <2>2, <2>3
<1>8. Homed'
  <2>1. ASSUME NEW u \in Tables, NEW k \in Slots, SlotFd(u, k)' # -1 PROVE TableOf(SlotFd(u, k)') = u
    <3>1. SlotFd(u, k) # -1 => TableOf(SlotFd(u, k)) = u
      BY DEF Sound, Homed
    <3>2. CASE u = t /\ k = pos
      BY <1>2, <1>4, <3>2
    <3>3. CASE ~(u = t /\ k = pos)
      BY <1>4, <2>1, <3>1, <3>3
    <3> QED
      BY <3>2, <3>3
  <2>2. \A u \in Tables : rd'[u].at # "idle" => TableOf(rd'[u].fd) = u
    BY <1>a DEF Sound, Homed
  <2> QED
    BY <1>1, <1>2, <2>1, <2>2 DEF Homed, TableOf
<1>9. Numbered'
  <2>1. \A u \in Tables : \A k \in Slots : (Kept(u, k) => Ssn(u, k) \in 0..(gssn - 1))'
    BY <1>a, <1>4, <1>5 DEF Sound, Numbered
  <2>2. \A u \in Tables : \A k \in Slots : (tab[u].conn[k].st = FD_STAT_POLL => Kept(u, k))'
    BY <1>4, <1>5 DEF Sound, Numbered, FD_STAT_POLL
  <2>3. \A u \in Tables : (rd[u].at # "idle" => rd[u].ssn \in 0..(gssn - 1))'
    BY <1>a DEF Sound, Numbered
  <2>4. \A u \in Tables : \A j, k \in Slots :
          (Kept(u, j) /\ Kept(u, k) /\ Ssn(u, j) = Ssn(u, k) => j = k)'
    BY <1>4, <1>5 DEF Sound, Numbered
  <2> QED
    BY <2>1, <2>2, <2>3, <2>4 DEF Numbered
<1>10. Accepting'
  <2>1. SlotFd(t, pos)' = main.fd
    BY <1>0, <1>4
  <2>2. ASSUME NEW k \in Slots PROVE SlotFd(t, k)' # -1 <=> k <= pos
    <3>1. k \in Nat
      BY SlotBounds
    <3>2. SlotFd(t, k)' = IF k = pos THEN main.fd ELSE SlotFd(t, k)
      BY <1>0, <1>4
    <3> QED
      BY <1>2, <1>3, <3>1, <3>2
  <2>3. sock'[main.fd].conn = gssn'
    BY <1>a, <1>2
  <2> QED
    BY <1>1, <2>1, <2>2, <2>3 DEF Accepting, SlotFd
<1>11. Recorded'
  BY <1>a, <1>6 DEF Sound, Recorded
<1>12. Current'
  BY <1>a, <1>6 DEF Sound, Current
<1>13. Cleaned'
  BY <1>1 DEF Cleaned
<1>14. Deleting'
  <2> SUFFICES ASSUME NEW f \in Fds, Closing(f)'
               PROVE  sock[f].conn # rd[TableOf(f)].ssn /\ (OldFirst(f)' \/ OldGone(f)')
    BY <1>a DEF Deleting, TableOf
  <2>1. Closing(f) /\ sock[f].conn # rd[TableOf(f)].ssn /\ (OldFirst(f) \/ OldGone(f))
    BY <1>6 DEF Sound, Deleting
  <2>2. CASE OldGone(f)
    BY <1>a, <1>6, <2>1, <2>2 DEF OldGone
  <2>3. CASE OldFirst(f)
    <3>1. PICK k \in KeptOf(f) :
            /\ Ssn(TableOf(f), k) = rd[TableOf(f)].ssn
            /\ \A j \in Of(f) : k <= j
            /\ \A j \in KeptOf(f) \ {k} : Ssn(TableOf(f), j) = sock[f].conn
      BY <1>6, <2>3 DEF OldFirst
    <3>2. \A j \in Of(f)' : k <= j
      <4>1. k \in Nat /\ k \in Slots /\ SlotFd(TableOf(f), k) = f /\ f # -1
        BY SlotBounds, SizeAssumption DEF KeptOf, Of
      <4>2. TableOf(f) = t => k < pos
        BY <1>2, <4>1
      <4>3. ASSUME NEW j \in Of(f)' PROVE k <= j
        <5>1. CASE j \in Of(f)
          BY <3>1, <5>1
        <5>2. CASE j \notin Of(f)
          <6>1. j \in Slots /\ SlotFd(TableOf(f), j)' = f /\ SlotFd(TableOf(f), j) # f
            BY <1>6, <5>2 DEF Of
          <6>2. TableOf(f) = t /\ j = pos
            BY <1>4, <1>6, <6>1
          <6> QED
            BY <1>3, <4>1, <4>2, <6>2
        <5> QED
          BY <5>1, <5>2
      <4> QED
        BY <4>3
    <3>3. OldFirst(f)'
      BY <1>a, <1>6, <3>1, <3>2 DEF OldFirst
    <3> QED
      BY <2>1, <3>3
  <2> QED
    BY <2>1, <2>2, <2>3
<1> QED
  BY <1>7, <1>8, <1>9, <1>10, <1>11, <1>12, <1>13, <1>14 DEF Sound

LEMMA StoreRestSound ==
    ASSUME TypeInv, Sound, StoreRest PROVE Sound'
<1>0. /\ main \in Mains /\ gssn \in Nat /\ main.at = "rest" /\ tab \in Tabs
      /\ main.fd \in Fds /\ main.t \in Tables /\ main.pos \in Slots
  BY DEF TypeInv, CommType, StoreRest, Busy, Mains
<1> PICK t \in Tables : t = main.t
  BY <1>0
<1> PICK pos \in Slots : pos = main.pos
  BY <1>0
<1>a. /\ UNCHANGED <<sock, rd>> /\ gssn' = gssn + 1
      /\ tab' = [tab EXCEPT ![t].conn[pos] = [@ EXCEPT !.ssn = gssn, !.st = FD_STAT_REG]]
  BY DEF StoreRest
<1>1. main'.at = "events"
  BY <1>0 DEF StoreRest, Mains
<1>2. /\ sock[main.fd].conn = gssn /\ TableOf(main.fd) = t
      /\ SlotFd(t, pos) = main.fd /\ ~Kept(t, pos)
  BY <1>0 DEF Sound, Accepting, Homed, Kept
<1>3. main.fd # -1
  BY <1>0, SizeAssumption
<1>4. ASSUME NEW u \in Tables, NEW k \in Slots
      PROVE  /\ SlotFd(u, k)' = SlotFd(u, k)
             /\ Ssn(u, k)' = IF u = t /\ k = pos THEN gssn ELSE Ssn(u, k)
             /\ tab'[u].conn[k].st = IF u = t /\ k = pos THEN FD_STAT_REG ELSE tab[u].conn[k].st
             /\ Kept(u, k)' <=> Kept(u, k) \/ (u = t /\ k = pos)
  <2>1. tab[t].conn \in [Slots -> SlotRec] /\ tab[t].conn[pos] \in SlotRec
    BY <1>0 DEF Tabs
  <2>2. tab'[u].conn[k] = IF u = t /\ k = pos
                          THEN [tab[t].conn[pos] EXCEPT !.ssn = gssn, !.st = FD_STAT_REG]
                          ELSE tab[u].conn[k]
    BY <1>0, <1>a, <2>1 DEF Tabs
  <2>3. /\ SlotFd(u, k)' = SlotFd(u, k)
        /\ Ssn(u, k)' = IF u = t /\ k = pos THEN gssn ELSE Ssn(u, k)
        /\ tab'[u].conn[k].st = IF u = t /\ k = pos THEN FD_STAT_REG ELSE tab[u].conn[k].st
    BY <2>1, <2>2 DEF SlotFd, Ssn, SlotRec
  <2>4. Kept(u, k)' <=> Kept(u, k) \/ (u = t /\ k = pos)
    BY <1>0, <1>1, <1>2, <1>3, <2>3 DEF Kept
  <2> QED
    BY <2>3, <2>4
<1>6. ASSUME NEW f \in Fds
      PROVE  /\ TableOf(f) \in Tables /\ TableOf(f)' = TableOf(f)
             /\ Of(f)' = Of(f)
             /\ KeptOf(f)' = IF f = main.fd THEN KeptOf(f) \cup {pos} ELSE KeptOf(f)
             /\ \A k \in KeptOf(f) : k \in Slots /\ Ssn(TableOf(f), k)' = Ssn(TableOf(f), k)
             /\ Closing(f)' <=> Closing(f)
             /\ ~Cleaning(f) /\ ~Cleaning(f)' /\ ~Storing(f)'
             /\ Storing(f) <=> f = main.fd
  <2>1. TableOf(f) \in Tables /\ TableOf(f)' = TableOf(f)
    BY TableOfType DEF TableOf
  <2>2. Of(f)' = Of(f)
    BY <1>4, <2>1 DEF Of
  <2>3. ASSUME NEW k \in Of(f)
        PROVE  Kept(TableOf(f), k)' <=> Kept(TableOf(f), k) \/ (f = main.fd /\ k = pos)
    <3>1. k \in Slots /\ SlotFd(TableOf(f), k) = f
      BY DEF Of
    <3> QED
      BY <1>2, <1>4, <2>1, <3>1
  <2>4. pos \in Of(main.fd)
    BY <1>0, <1>2 DEF Of
  <2>5. KeptOf(f)' = IF f = main.fd THEN KeptOf(f) \cup {pos} ELSE KeptOf(f)
    BY <2>1, <2>2, <2>3, <2>4 DEF KeptOf
  <2>6. \A k \in KeptOf(f) : k \in Slots /\ Ssn(TableOf(f), k)' = Ssn(TableOf(f), k)
    BY <1>2, <1>4, <2>1 DEF KeptOf, Of
  <2>7. Closing(f)' <=> Closing(f)
    BY <1>a, <2>1 DEF Closing
  <2>8. ~Cleaning(f) /\ ~Cleaning(f)' /\ ~Storing(f)' /\ (Storing(f) <=> f = main.fd)
    BY <1>0, <1>1 DEF Cleaning, Storing
  <2> QED
    BY <2>1, <2>2, <2>5, <2>6, <2>7, <2>8
<1>b. Ssn(t, pos)' = gssn /\ pos \in Slots /\ t \in Tables
  BY <1>0, <1>4
<1>7. Packed'
  BY <1>4 DEF Sound, Packed
<1>8. Homed'
  <2>1. \A u \in Tables : \A k \in Slots : SlotFd(u, k)' # -1 => TableOf(SlotFd(u, k)') = u
    BY <1>4 DEF Sound, Homed
  <2>2. \A u \in Tables : rd'[u].at # "idle" => TableOf(rd'[u].fd) = u
    BY <1>a DEF Sound, Homed
  <2> QED
    BY <1>1, <2>1, <2>2 DEF Homed, TableOf
<1>9. Numbered'
  <2>0. \A u \in Tables : \A k \in Slots : Kept(u, k) => Ssn(u, k) \in 0..(gssn - 1)
    BY DEF Sound, Numbered
  <2>1. \A u \in Tables : \A k \in Slots : (Kept(u, k) => Ssn(u, k) \in 0..(gssn - 1))'
    BY <1>0, <1>a, <1>4, <2>0
  <2>2. \A u \in Tables : \A k \in Slots : (tab[u].conn[k].st = FD_STAT_POLL => Kept(u, k))'
    BY <1>4 DEF Sound, Numbered, FD_STAT_POLL, FD_STAT_REG
  <2>3. \A u \in Tables : (rd[u].at # "idle" => rd[u].ssn \in 0..(gssn - 1))'
    BY <1>0, <1>a DEF Sound, Numbered
  <2>4. \A u \in Tables : \A j, k \in Slots :
          (Kept(u, j) /\ Kept(u, k) /\ Ssn(u, j) = Ssn(u, k) => j = k)'
    <3> SUFFICES ASSUME NEW u \in Tables, NEW j \in Slots, NEW k \in Slots,
                        Kept(u, j)', Kept(u, k)', Ssn(u, j)' = Ssn(u, k)', j # k
                 PROVE  FALSE
      OBVIOUS
    <3>1. CASE Kept(u, j) /\ Kept(u, k) /\ ~(u = t /\ j = pos) /\ ~(u = t /\ k = pos)
      BY <1>4, <3>1 DEF Sound, Numbered
    <3>2. CASE u = t /\ j = pos
      BY <1>0, <1>4, <2>0, <3>2
    <3>3. CASE u = t /\ k = pos
      BY <1>0, <1>4, <2>0, <3>3
    <3> QED
      BY <1>4, <3>1, <3>2, <3>3
  <2> QED
    BY <2>1, <2>2, <2>3, <2>4 DEF Numbered
<1>10. Accepting'
  BY <1>1 DEF Accepting
<1>11. Recorded'
  <2> SUFFICES ASSUME NEW f \in Fds, sock'[f].conn # -1
               PROVE  \E k \in KeptOf(f)' : Ssn(TableOf(f), k)' = sock'[f].conn
    BY DEF Recorded
  <2>1. CASE f = main.fd
    BY <1>a, <1>b, <1>2, <1>6, <2>1
  <2>2. CASE f # main.fd
    BY <1>a, <1>6, <2>2 DEF Sound, Recorded
  <2> QED
    BY <2>1, <2>2
<1>12. Current'
  <2> SUFFICES ASSUME NEW f \in Fds, ~Closing(f)', NEW k \in KeptOf(f)'
               PROVE  Ssn(TableOf(f), k)' = sock'[f].conn
    BY DEF Current
  <2>1. CASE k \in KeptOf(f)
    BY <1>a, <1>6, <2>1 DEF Sound, Current
  <2>2. CASE k \notin KeptOf(f)
    BY <1>a, <1>b, <1>2, <1>6, <2>2
  <2> QED
    BY <2>1, <2>2
<1>13. Cleaned'
  BY <1>1 DEF Cleaned
<1>14. Deleting'
  <2> SUFFICES ASSUME NEW f \in Fds, Closing(f)'
               PROVE  sock[f].conn # rd[TableOf(f)].ssn /\ (OldFirst(f)' \/ OldGone(f)')
    BY <1>a DEF Deleting, TableOf
  <2>1. Closing(f) /\ sock[f].conn # rd[TableOf(f)].ssn /\ (OldFirst(f) \/ OldGone(f))
    BY <1>6 DEF Sound, Deleting
  <2>a. \A k \in KeptOf(f)' : k \in KeptOf(f) \/ (f = main.fd /\ Ssn(TableOf(f), k)' = sock[f].conn)
    BY <1>b, <1>2, <1>6
  <2>2. CASE OldGone(f)
    BY <1>a, <1>6, <2>1, <2>a, <2>2 DEF OldGone
  <2>3. CASE OldFirst(f)
    <3>1. PICK k \in KeptOf(f) :
            /\ Ssn(TableOf(f), k) = rd[TableOf(f)].ssn
            /\ \A j \in Of(f) : k <= j
            /\ \A j \in KeptOf(f) \ {k} : Ssn(TableOf(f), j) = sock[f].conn
      BY <1>6, <2>3 DEF OldFirst
    <3>2. \A j \in KeptOf(f)' \ {k} : Ssn(TableOf(f), j)' = sock'[f].conn
      BY <1>a, <1>6, <2>a, <3>1
    <3>3. k \in KeptOf(f)'
      BY <1>6
    <3>4. OldFirst(f)'
      BY <1>a, <1>6, <3>1, <3>2, <3>3 DEF OldFirst
    <3> QED
      BY <2>1, <3>4
  <2> QED
    BY <2>1, <2>2, <2>3
<1> QED
  BY <1>7, <1>8, <1>9, <1>10, <1>11, <1>12, <1>13, <1>14 DEF Sound

-----------------------------------------------------------------------------
(***************************************************************************)
(* Closing a socket.                                                       *)
(***************************************************************************)

LEMMA CleanNextSound ==
    ASSUME TypeInv, Sound, CleanNext PROVE Sound'
<1>0. main \in Mains /\ sock \in Socks /\ gssn \in Nat /\ main.at = "clean"
  BY DEF TypeInv, CommType, CleanNext
<1>a. UNCHANGED <<tab, gssn, rd>>
  BY DEF CleanNext
<1>1. CASE sock' = sock /\ main'.at \notin Transit
  <2>1. SameMain /\ SameConns
    BY <1>0, <1>1 DEF SameMain, SameConns, Transit
  <2> QED
    BY <1>a, <2>1, UntouchedSound
<1>2. CASE /\ main.t # Num /\ tab[main.t].conn[0].fd # -1
           /\ main' = [main EXCEPT !.at = "clear", !.fd = tab[main.t].conn[0].fd]
           /\ sock' = CloseSocket(tab[main.t].conn[0].fd)
  <2>t. main.t \in Tables
    BY <1>0, <1>2, SizeAssumption DEF Mains, Tables
  <2> PICK t \in Tables : t = main.t
    BY <2>t
  <2>1. SlotFd(t, 0) \in Fds /\ 0 \in Slots
    <3>1. tab[t].conn[0] \in SlotRec
      BY SlotBounds DEF TypeInv, CommType, Tabs
    <3> QED
      BY <1>2, <3>1, SlotBounds DEF SlotFd, SlotRec
  <2> PICK fd \in Fds : fd = SlotFd(t, 0)
    BY <2>1
  <2>2. TableOf(fd) = t /\ fd # -1
    BY <2>1, SizeAssumption DEF Sound, Homed
  <2>3. main'.at = "clear" /\ main'.fd = fd /\ main'.t = t
    BY <1>0, <1>2 DEF Mains, SlotFd
  <2>4. sock'[fd].conn = -1 /\ \A f \in Fds \ {fd} : sock'[f] = sock[f]
    BY <1>0, <1>2 DEF CloseSocket, Socks, Closed, SlotFd
  <2>5. ASSUME NEW u \in Tables, NEW k \in Slots
        PROVE  /\ SlotFd(u, k)' = SlotFd(u, k) /\ Ssn(u, k)' = Ssn(u, k) /\ (Kept(u, k)' <=> Kept(u, k))
               /\ Kept(u, k) <=> SlotFd(u, k) # -1
    BY <1>0, <1>a, <2>3 DEF SlotFd, Ssn, Kept
  <2>6. ASSUME NEW f \in Fds
        PROVE  /\ TableOf(f) \in Tables /\ TableOf(f)' = TableOf(f)
               /\ Of(f)' = Of(f) /\ KeptOf(f)' = KeptOf(f) /\ KeptOf(f) = Of(f)
               /\ Of(f) \subseteq Slots
               /\ Closing(f)' <=> Closing(f)
               /\ ~Cleaning(f) /\ ~Storing(f) /\ ~Storing(f)'
               /\ Cleaning(f)' <=> f = fd
    <3>1. TableOf(f) \in Tables /\ TableOf(f)' = TableOf(f)
      BY TableOfType DEF TableOf
    <3>2. Of(f)' = Of(f) /\ Of(f) \subseteq Slots
      BY <2>5, <3>1 DEF Of
    <3>3. f # -1
      BY SizeAssumption
    <3>4. KeptOf(f)' = KeptOf(f) /\ KeptOf(f) = Of(f)
      BY <2>5, <3>1, <3>2, <3>3 DEF KeptOf, Of
    <3>5. (Closing(f)' <=> Closing(f)) /\ ~Cleaning(f) /\ ~Storing(f) /\ ~Storing(f)' /\ (Cleaning(f)' <=> f = fd)
      BY <1>0, <1>a, <2>3, <3>1 DEF Closing, Cleaning, Storing
    <3> QED
      BY <3>1, <3>2, <3>4, <3>5
  <2>a. ASSUME NEW f \in Fds, NEW i \in Of(f), NEW j \in Of(f), Ssn(TableOf(f), i) = Ssn(TableOf(f), j)
        PROVE  i = j
    <3>1. Kept(TableOf(f), i) /\ Kept(TableOf(f), j) /\ i \in Slots /\ j \in Slots /\ TableOf(f) \in Tables
      BY <2>6 DEF KeptOf
    <3> QED
      BY <2>a, <3>1 DEF Sound, Numbered
  <2>7. Packed' /\ Numbered'
    BY <1>a, <2>5 DEF Sound, Packed, Numbered
  <2>8. Homed'
    BY <1>a, <2>2, <2>3 DEF Sound, Homed, SlotFd, TableOf
  <2>9. Accepting'
    BY <2>3 DEF Accepting
  <2>10. Recorded'
    <3> SUFFICES ASSUME NEW f \in Fds, sock'[f].conn # -1, f # fd
                 PROVE  \E k \in KeptOf(f)' : Ssn(TableOf(f), k)' = sock'[f].conn
      BY <2>4 DEF Recorded
    <3>1. PICK k \in KeptOf(f) : Ssn(TableOf(f), k) = sock[f].conn
      BY <2>4, <2>6 DEF Sound, Recorded
    <3> QED
      BY <2>4, <2>5, <2>6, <3>1
  <2>11. Current'
    <3> SUFFICES ASSUME NEW f \in Fds, ~Closing(f)', f # fd, NEW k \in KeptOf(f)'
                 PROVE  Ssn(TableOf(f), k)' = sock'[f].conn
      BY <2>6 DEF Current
    <3>1. k \in KeptOf(f) /\ Ssn(TableOf(f), k) = sock[f].conn /\ Ssn(TableOf(f), k)' = Ssn(TableOf(f), k)
      BY <2>5, <2>6 DEF Sound, Current
    <3> QED
      BY <2>4, <3>1
  <2>12. Cleaned'
    <3>1. ASSUME ~Closing(fd)', NEW j \in Of(fd)', NEW k \in Of(fd)' PROVE j = k
      <4>1. j \in Of(fd) /\ k \in Of(fd) /\ ~Closing(fd) /\ ~Cleaning(fd) /\ Of(fd) = KeptOf(fd)
        BY <2>6, <3>1
      <4>2. Ssn(TableOf(fd), j) = sock[fd].conn /\ Ssn(TableOf(fd), k) = sock[fd].conn
        BY <4>1 DEF Sound, Current
      <4> QED
        BY <2>a, <4>1, <4>2
    <3>2. (Closing(fd) <=> Closing(main.fd))' /\ (Of(fd) = Of(main.fd))'
      BY <2>3 DEF Closing, Of, TableOf
    <3> QED
      BY <2>3, <2>4, <3>1, <3>2 DEF Cleaned
  <2>13. Deleting'
    <3> SUFFICES ASSUME NEW f \in Fds, Closing(f)'
                 PROVE  sock'[f].conn # rd[TableOf(f)].ssn /\ (OldFirst(f)' \/ OldGone(f)')
      BY <1>a DEF Deleting, TableOf
    <3>1. Closing(f) /\ sock[f].conn # rd[TableOf(f)].ssn /\ (OldFirst(f) \/ OldGone(f))
      BY <2>6 DEF Sound, Deleting
    <3>2. sock'[f].conn # rd[TableOf(f)].ssn
      BY <1>0, <2>4, <3>1, ClosingNumber
    <3>3. CASE OldGone(f)
      BY <1>a, <2>5, <2>6, <3>2, <3>3 DEF OldGone
    <3>4. CASE OldFirst(f)
      <4>1. PICK k \in KeptOf(f) :
              /\ Ssn(TableOf(f), k) = rd[TableOf(f)].ssn
              /\ \A j \in Of(f) : k <= j
              /\ \A j \in KeptOf(f) \ {k} : Ssn(TableOf(f), j) = sock[f].conn
        BY <2>6, <3>4 DEF OldFirst
      <4>2. \A i, j \in Of(f) \ {k} : i = j
        BY <2>6, <2>a, <4>1
      <4>3. f # fd => \A j \in KeptOf(f) \ {k} : Ssn(TableOf(f), j)' = sock'[f].conn
        BY <2>4, <2>5, <2>6, <4>1
      <4>4. k \in KeptOf(f)' /\ Ssn(TableOf(f), k)' = rd'[TableOf(f)].ssn
        BY <1>a, <2>5, <2>6, <4>1
      <4>5. OldFirst(f)'
        <5>1. CASE f = fd
          BY <2>6, <4>1, <4>2, <4>4, <5>1 DEF OldFirst
        <5>2. CASE f # fd
          BY <2>6, <4>1, <4>3, <4>4, <5>2 DEF OldFirst
        <5> QED
          BY <5>1, <5>2
      <4> QED
        BY <3>2, <4>5
    <3> QED
      BY <3>1, <3>3, <3>4
  <2> QED
    BY <2>7, <2>8, <2>9, <2>10, <2>11, <2>12, <2>13 DEF Sound
<1>3. (sock' = sock /\ main'.at \notin Transit)
      \/ (/\ main.t # Num /\ tab[main.t].conn[0].fd # -1
          /\ main' = [main EXCEPT !.at = "clear", !.fd = tab[main.t].conn[0].fd]
          /\ sock' = CloseSocket(tab[main.t].conn[0].fd))
  <2>1. \/ main' = Waiting /\ sock' = sock
        \/ main' = [main EXCEPT !.t = @ + 1] /\ sock' = sock
        \/ (/\ main.t # Num /\ tab[main.t].conn[0].fd # -1
            /\ main' = [main EXCEPT !.at = "clear", !.fd = tab[main.t].conn[0].fd]
            /\ sock' = CloseSocket(tab[main.t].conn[0].fd))
    BY Zenon DEF CleanNext
  <2>2. CASE main' = Waiting /\ sock' = sock
    BY <2>2 DEF Waiting, Transit
  <2>3. CASE main' = [main EXCEPT !.t = @ + 1] /\ sock' = sock
    BY <1>0, <2>3 DEF Mains, Transit
  <2> QED
    BY <2>1, <2>2, <2>3
<1> QED
  BY <1>1, <1>2, <1>3

\* The reader closes an fd: the hazards excluded, it is that of the
\* connection it read, or closed already.
LEMMA DelCloseSound ==
    ASSUME TypeInv, Sound, NEW t \in Tables, DelClose(t), broken' \subseteq {"count"} PROVE Sound'
<1>0. /\ rd \in [Tables -> Readers] /\ rd[t] \in Readers /\ sock \in Socks /\ gssn \in Nat
      /\ rd[t].at = "close" /\ rd[t].fd \in Fds
  BY DEF TypeInv, CommType, DelClose, Busy
<1>a. UNCHANGED <<tab, gssn, main>>
  BY DEF DelClose
<1> PICK fd \in Fds : fd = rd[t].fd
  BY <1>0
<1>1. TableOf(fd) = t /\ rd[t].ssn \in 0..(gssn - 1) /\ rd[t].ssn # -1 /\ rd[t].ssn # gssn
  BY <1>0 DEF Sound, Homed, Numbered
<1>2. sock[fd].conn \in {-1, rd[t].ssn}
  <2>1. Reused(fd, rd[t].ssn) \subseteq {"count"}
    BY DEF DelClose
  <2> QED
    BY <2>1 DEF Reused
<1>3. sock'[fd].conn = -1 /\ \A f \in Fds \ {fd} : sock'[f] = sock[f]
  BY <1>0 DEF DelClose, CloseSocket, Socks, Closed
<1>4. /\ rd'[t].at = "clear" /\ rd'[t].fd = fd /\ rd'[t].ssn = rd[t].ssn
      /\ \A u \in Tables \ {t} : rd'[u] = rd[u]
  BY <1>0 DEF DelClose, Readers
<1>5. SameMain /\ SameSlots
  BY <1>a DEF SameMain, SameSlots
<1>6. ASSUME NEW f \in Fds
      PROVE  /\ TableOf(f) \in Tables /\ TableOf(f)' = TableOf(f)
             /\ Of(f)' = Of(f) /\ KeptOf(f)' = KeptOf(f) /\ KeptOf(f) \subseteq Of(f) /\ Of(f) \subseteq Slots
             /\ \A k \in Of(f) : Ssn(TableOf(f), k)' = Ssn(TableOf(f), k)
             /\ Closing(f)' <=> Closing(f) \/ f = fd
             /\ Closing(f) => rd'[TableOf(f)] = rd[TableOf(f)] /\ f # fd
             /\ Cleaning(f)' <=> Cleaning(f)
             /\ Storing(f)' <=> Storing(f)
  <2>1. TableOf(f) \in Tables /\ TableOf(f)' = TableOf(f)
    BY TableOfType DEF TableOf
  <2>2. Of(f)' = Of(f) /\ KeptOf(f)' = KeptOf(f) /\ KeptOf(f) \subseteq Of(f) /\ Of(f) \subseteq Slots
    BY <1>5, SameOf DEF KeptOf, Of
  <2>3. \A k \in Of(f) : Ssn(TableOf(f), k)' = Ssn(TableOf(f), k)
    BY <1>a, <2>1 DEF Ssn
  <2>4. (Closing(f)' <=> Closing(f) \/ f = fd) /\ (Closing(f) => rd'[TableOf(f)] = rd[TableOf(f)] /\ f # fd)
    <3>1. CASE TableOf(f) = t
      BY <1>0, <1>1, <1>4, <2>1, <3>1 DEF Closing
    <3>2. CASE TableOf(f) # t
      BY <1>0, <1>1, <1>4, <2>1, <3>2 DEF Closing
    <3> QED
      BY <3>1, <3>2
  <2>5. (Cleaning(f)' <=> Cleaning(f)) /\ (Storing(f)' <=> Storing(f))
    BY <1>a DEF Cleaning, Storing
  <2> QED
    BY <2>1, <2>2, <2>3, <2>4, <2>5
<1>7. Packed'
  BY <1>a DEF Sound, Packed, SlotFd
<1>8. Homed'
  <2>1. \A u \in Tables : rd'[u].at # "idle" => TableOf(rd'[u].fd) = u
    BY <1>1, <1>4 DEF Sound, Homed
  <2> QED
    BY <1>a, <2>1 DEF Sound, Homed, SlotFd, TableOf
<1>9. Numbered'
  <2>1. \A u \in Tables : rd'[u].at # "idle" => rd'[u].ssn \in 0..(gssn - 1)
    BY <1>1, <1>4 DEF Sound, Numbered
  <2> QED
    BY <1>a, <2>1 DEF Sound, Numbered, Kept, SlotFd, Ssn
<1>10. Accepting'
  <2>1. main.at \in {"fd", "rest"} => sock'[main.fd].conn = gssn
    <3> SUFFICES ASSUME main.at \in {"fd", "rest"} PROVE sock'[main.fd].conn = gssn
      OBVIOUS
    <3>1. main.fd \in Fds /\ sock[main.fd].conn = gssn
      BY DEF Sound, Accepting, TypeInv, Busy
    <3>2. main.fd # fd
      BY <1>0, <1>1, <1>2, <3>1
    <3> QED
      BY <1>3, <3>1, <3>2
  <2> QED
    BY <1>a, <2>1 DEF Sound, Accepting, SlotFd
<1>11. Recorded'
  <2> SUFFICES ASSUME NEW f \in Fds, sock'[f].conn # -1, ~Storing(f)'
               PROVE  \E k \in KeptOf(f)' : Ssn(TableOf(f), k)' = sock'[f].conn
    BY DEF Recorded
  <2>1. sock'[f] = sock[f] /\ ~Storing(f)
    BY <1>3, <1>6
  <2>2. PICK k \in KeptOf(f) : Ssn(TableOf(f), k) = sock[f].conn
    BY <2>1 DEF Sound, Recorded
  <2> QED
    BY <1>6, <2>1, <2>2
<1>12. Current'
  <2> SUFFICES ASSUME NEW f \in Fds, ~Closing(f)', ~Cleaning(f)', NEW k \in KeptOf(f)'
               PROVE  Ssn(TableOf(f), k)' = sock'[f].conn
    BY DEF Current
  <2>1. f # fd /\ ~Closing(f) /\ ~Cleaning(f) /\ k \in KeptOf(f)
    BY <1>6
  <2>2. Ssn(TableOf(f), k) = sock[f].conn
    BY <2>1 DEF Sound, Current
  <2> QED
    BY <1>3, <1>6, <2>1, <2>2
<1>13. Cleaned'
  <2> SUFFICES ASSUME main.at = "clear" PROVE Cleaned'
    BY <1>a DEF Cleaned
  <2>1. main.fd \in Fds
    BY DEF TypeInv, Busy
  <2> PICK g \in Fds : g = main.fd
    BY <2>1
  <2>2. sock[g].conn = -1 /\ (~Closing(g) => \A j, k \in Of(g) : j = k)
    BY DEF Sound, Cleaned
  <2>3. sock'[g].conn = -1 /\ (~Closing(g)' => \A j, k \in Of(g)' : j = k)
    BY <1>3, <1>6, <2>2
  <2>4. (Closing(g) <=> Closing(main.fd))' /\ (Of(g) = Of(main.fd))' /\ main'.fd = g
    BY <1>a DEF Closing, Of, TableOf
  <2> QED
    BY <2>3, <2>4 DEF Cleaned
<1>14. Deleting'
  <2>1. ASSUME NEW f \in Fds, Closing(f)', f # fd
        PROVE  sock'[f].conn # rd'[TableOf(f)].ssn /\ (OldFirst(f)' \/ OldGone(f)')
    <3>1. /\ Closing(f) /\ rd'[TableOf(f)] = rd[TableOf(f)] /\ sock'[f] = sock[f]
          /\ sock[f].conn # rd[TableOf(f)].ssn /\ (OldFirst(f) \/ OldGone(f))
      BY <1>3, <1>6, <2>1 DEF Sound, Deleting
    <3>2. CASE OldGone(f)
      <4>1. OldGone(f)'
        BY <1>6, <3>1, <3>2 DEF OldGone
      <4> QED
        BY <3>1, <4>1
    <3>3. CASE OldFirst(f)
      <4>1. PICK k \in KeptOf(f) :
              /\ Ssn(TableOf(f), k) = rd[TableOf(f)].ssn
              /\ \A j \in Of(f) : k <= j
              /\ IF Cleaning(f) THEN \A i, j \in Of(f) \ {k} : i = j
                 ELSE \A j \in KeptOf(f) \ {k} : Ssn(TableOf(f), j) = sock[f].conn
        BY <3>3 DEF OldFirst
      <4>2. /\ k \in KeptOf(f)' /\ Ssn(TableOf(f), k)' = rd'[TableOf(f)].ssn
            /\ \A j \in Of(f)' : k <= j
        BY <1>6, <3>1, <4>1
      <4>3. Cleaning(f)' => \A i, j \in Of(f)' \ {k} : i = j
        BY <1>6, <4>1
      <4>4. ~Cleaning(f)' => \A j \in KeptOf(f)' \ {k} : Ssn(TableOf(f), j)' = sock'[f].conn
        BY <1>6, <3>1, <4>1
      <4>5. OldFirst(f)'
        BY <1>6, <4>2, <4>3, <4>4 DEF OldFirst
      <4> QED
        BY <3>1, <4>5
    <3> QED
      BY <3>1, <3>2, <3>3
  <2>2. sock'[fd].conn # rd'[TableOf(fd)].ssn
    BY <1>1, <1>3, <1>4
  <2>3. OldFirst(fd)' \/ OldGone(fd)'
    <3>0. ~Closing(fd) /\ TableOf(fd)' = t /\ ~Storing(fd)
      <4>1. Storing(fd) => sock[fd].conn = gssn
        BY DEF Storing, Sound, Accepting
      <4>2. gssn # -1
        BY <1>0
      <4> QED
        BY <1>1, <1>2, <1>6, <4>1, <4>2
    <3>1. CASE \A k \in KeptOf(fd) : Ssn(t, k) # rd[t].ssn
      <4>1. OldGone(fd)'
        BY <1>1, <1>4, <1>6, <3>0, <3>1 DEF OldGone
      <4> QED
        BY <4>1
    <3>2. ASSUME NEW k \in KeptOf(fd), Ssn(t, k) = rd[t].ssn PROVE OldFirst(fd)'
      <4>1. Of(fd) = KeptOf(fd)
        <5>1. ASSUME NEW j \in Of(fd) PROVE Kept(TableOf(fd), j)
          <6>1. j \in Slots /\ SlotFd(t, j) = fd /\ fd # -1
            BY <1>1, SizeAssumption DEF Of
          <6>2. ~(main.at = "rest" /\ main.t = t /\ main.pos = j)
            <7> SUFFICES ASSUME main.at = "rest", main.t = t, main.pos = j PROVE FALSE
              OBVIOUS
            <7>1. main.fd = fd
              BY <6>1 DEF Sound, Accepting
            <7> QED
              BY <3>0, <7>1 DEF Storing
          <6> QED
            BY <1>1, <6>1, <6>2 DEF Kept
        <5> QED
          BY <5>1 DEF KeptOf
      <4>2. \A i, j \in Of(fd) : i = j
        <5>1. CASE Cleaning(fd)
          BY <3>0, <5>1 DEF Cleaning, Sound, Cleaned
        <5>2. CASE ~Cleaning(fd)
          <6>1. \A j \in KeptOf(fd) : Ssn(TableOf(fd), j) = sock[fd].conn
            BY <3>0, <5>2 DEF Sound, Current
          <6>2. \A j \in Of(fd) : Ssn(t, j) = sock[fd].conn /\ Kept(t, j) /\ j \in Slots
            BY <1>1, <4>1, <6>1 DEF KeptOf, Of
          <6> QED
            BY <6>2 DEF Sound, Numbered
        <5> QED
          BY <5>1, <5>2
      <4>3. k \in Of(fd) /\ k \in Nat
        BY <4>1, SlotBounds DEF Of
      <4>4. \A j \in Of(fd) : j = k
        BY <4>2, <4>3
      <4>5. \A j \in Of(fd)' : k <= j
        <5>1. Of(fd)' = Of(fd)
          BY <1>6
        <5>2. k <= k
          BY <4>3
        <5> QED
          BY <4>4, <5>1, <5>2, Zenon
      <4>6. k \in KeptOf(fd)' /\ Ssn(TableOf(fd), k)' = rd'[TableOf(fd)].ssn
        BY <1>1, <1>4, <1>6, <3>2, <4>3
      <4>7. (\A i, j \in Of(fd)' \ {k} : i = j) /\ KeptOf(fd)' \ {k} = {}
        BY <1>6, <4>4
      <4>8. TableOf(fd)' = TableOf(fd)
        BY DEF TableOf
      <4> QED
        BY <4>5, <4>6, <4>7, <4>8 DEF OldFirst
    <3> QED
      BY <3>1, <3>2
  <2>4. \A f \in Fds : TableOf(f)' = TableOf(f)
    BY DEF TableOf
  <2> QED
    BY <2>1, <2>2, <2>3, <2>4 DEF Deleting
<1> QED
  BY <1>7, <1>8, <1>9, <1>10, <1>11, <1>12, <1>13, <1>14 DEF Sound

-----------------------------------------------------------------------------
(***************************************************************************)
(* Clearing a slot.                                                        *)
(***************************************************************************)

Up(j, k) == IF k < j THEN k ELSE k + 1

Down(j, k) == IF k < j THEN k ELSE k - 1

\* What CommClearFd(t, j) does when it moves the right records: slot j is
\* gone, those behind it have moved down by one, nothing else has changed.
Shifted(t, j) ==
    /\ \A u \in Tables \ {t} : tab'[u].conn = tab[u].conn
    /\ \A k \in Slots : tab'[t].conn[k].fd # -1 =>
          Up(j, k) \in Slots /\ tab'[t].conn[k] = tab[t].conn[Up(j, k)]
    /\ \A k \in Slots : tab[t].conn[k].fd # -1 /\ k # j =>
          Down(j, k) \in Slots /\ tab'[t].conn[Down(j, k)] = tab[t].conn[k]
    /\ \A k \in Slots : tab'[t].conn[k].st = FD_STAT_POLL => tab'[t].conn[k].fd # -1

LEMMA UpDown ==
    ASSUME NEW j \in Slots, NEW k \in Slots
    PROVE  /\ Up(j, k) # j /\ Down(j, Up(j, k)) = k /\ Up(j, k) \in Nat
           /\ k # j => Up(j, Down(j, k)) = k
           /\ \A i \in Slots : /\ i < k <=> Up(j, i) < Up(j, k)
                               /\ i # j /\ k # j => (i <= k <=> Down(j, i) <= Down(j, k))
BY SlotBounds DEF Up, Down

LEMMA ClearShifts ==
    ASSUME TypeInv, Sound, NEW t \in Tables, NEW j \in Slots, NEW T \in Tabs,
           \A u \in Tables : T[u].conn = tab[u].conn,
           tab' = CommClearFd(T, t, j), ClearHazard(t, j) = {}, SlotFd(t, j) # -1,
           ~(main.at = "rest" /\ main.t = t)
    PROVE  Shifted(t, j)
<1> DEFINE c == tab[t].conn
           d == ShiftedDown(c, t, j, FdBehind(T, t))
<1>0. c \in [Slots -> SlotRec] /\ t \in Nat /\ j \in Nat /\ MaxFd \in Nat /\ MaxFd - 1 \in Slots
  BY SlotBounds, SizeAssumption DEF TypeInv, CommType, Tabs, Tables
<1>1. /\ ~(Over(t, j) > 0 /\ t + 1 \in Tables)
      /\ \A k \in Slots : k > j /\ SlotFd(t, k) # -1 =>
            Moved(t, j, k - 1) /\ (k = MaxFd - 1 \/ Moved(t, j, k))
  BY DEF ClearHazard
<1>2. tab'[t].conn = d
  <2>1. tab'[t] = [T[t] EXCEPT !.conn = ShiftedDown(@, t, j, FdBehind(T, t))]
    BY DEF CommClearFd
  <2>2. T[t] \in [num : Nat, conn : [Slots -> SlotRec]]
    BY DEF Tabs
  <2> QED
    BY <2>1, <2>2
<1>3. \A u \in Tables \ {t} : tab'[u].conn = tab[u].conn
  BY <1>1 DEF CommClearFd
<1>4. ASSUME NEW k \in Slots
      PROVE  /\ k = MaxFd - 1 => d[k].fd = -1 /\ d[k].st = -1
             /\ k # MaxFd - 1 /\ Moved(t, j, k) => d[k] = c[k + 1] /\ k + 1 \in Slots
             /\ k # MaxFd - 1 /\ ~Moved(t, j, k) => d[k] = c[k]
  <2>1. k # MaxFd - 1 => k + 1 \in Slots
    BY SizeAssumption DEF Slots
  <2> QED
    BY <2>1 DEF ShiftedDown
<1>5. \A k \in Slots : c[k].st = FD_STAT_POLL => c[k].fd # -1
  BY DEF Sound, Numbered, Kept, SlotFd
<1>6. \A i, k \in Slots : i < k /\ c[k].fd # -1 => c[i].fd # -1
  BY DEF Sound, Packed, SlotFd
<1>7. c[j].fd # -1
  BY DEF SlotFd
<1>8. \A k \in Slots : k > j /\ c[k].fd # -1 =>
            Moved(t, j, k - 1) /\ (k = MaxFd - 1 \/ Moved(t, j, k))
  BY <1>1 DEF SlotFd
<1>9. \A k \in Slots : k \in Nat /\ k < MaxFd
  BY SizeAssumption DEF Slots
<1> HIDE DEF c, d
<1>10. ASSUME NEW k \in Slots, d[k].fd # -1
       PROVE  Up(j, k) \in Slots /\ d[k] = c[Up(j, k)]
  <2>1. k # MaxFd - 1
    BY <1>4, <1>10
  <2>2. CASE k < j
    <3>1. ~Moved(t, j, k)
      BY <1>0, <1>9, <2>2 DEF Moved
    <3> QED
      BY <1>4, <2>1, <2>2, <3>1 DEF Up
  <2>3. CASE ~(k < j) /\ Moved(t, j, k)
    BY <1>4, <2>1, <2>3 DEF Up
  <2>4. CASE ~(k < j) /\ ~Moved(t, j, k)
    <3>1. c[k].fd # -1
      BY <1>4, <1>10, <2>1, <2>4
    <3>2. CASE k = j
      <4>1. t >= MaxFd - 1
        BY <1>0, <1>9, <2>4, <3>2 DEF Moved
      <4> QED
        BY <4>1, SizeAssumption DEF Tables
    <3>3. CASE k # j
      <4>a. k \in Nat /\ j \in Nat /\ ~(k < j)
        BY <1>0, <1>9, <2>4, Zenon
      <4>1. k > j
        BY <3>3, <4>a
      <4> QED
        BY <1>8, <2>1, <2>4, <3>1, <4>1
    <3> QED
      BY <3>2, <3>3
  <2> QED
    BY <2>2, <2>3, <2>4
<1>11. ASSUME NEW k \in Slots, c[k].fd # -1, k # j
       PROVE  Down(j, k) \in Slots /\ d[Down(j, k)] = c[k]
  <2>1. CASE k < j
    <3>1. ~Moved(t, j, k) /\ k # MaxFd - 1
      BY <1>0, <1>9, <2>1 DEF Moved
    <3> QED
      BY <1>4, <2>1, <3>1 DEF Down
  <2>2. CASE ~(k < j)
    <3>1. k > j /\ k \in Nat /\ k < MaxFd
      BY <1>0, <1>9, <1>11, <2>2
    <3>2. Moved(t, j, k - 1)
      BY <1>8, <1>11, <3>1
    <3>3. k - 1 \in Slots /\ k - 1 # MaxFd - 1 /\ (k - 1) + 1 = k
      BY <1>0, <3>1 DEF Slots
    <3>4. d[k - 1] = c[k]
      BY <1>4, <3>2, <3>3
    <3> QED
      BY <2>2, <3>3, <3>4 DEF Down
  <2> QED
    BY <2>1, <2>2
<1>12. ASSUME NEW k \in Slots, d[k].st = FD_STAT_POLL PROVE d[k].fd # -1
  <2>1. k # MaxFd - 1
    BY <1>4, <1>12 DEF FD_STAT_POLL
  <2>2. CASE Moved(t, j, k)
    BY <1>4, <1>5, <1>12, <2>1, <2>2
  <2>3. CASE ~Moved(t, j, k)
    BY <1>4, <1>5, <1>12, <2>1, <2>3
  <2> QED
    BY <2>2, <2>3
<1> QED
  BY <1>2, <1>3, <1>10, <1>11, <1>12 DEF Shifted, c

\* The slots of a table that was shifted, and of one that was not.
LEMMA ShiftedSlots ==
    ASSUME TypeInv, Sound, NEW t \in Tables, NEW j \in Slots, Shifted(t, j),
           ~(main.at = "rest" /\ main.t = t), ~(main'.at = "rest" /\ main'.t = t),
           \A u \in Tables \ {t} : (main'.at = "rest" /\ main'.t = u) <=> (main.at = "rest" /\ main.t = u),
           main.at = "rest" => main'.pos = main.pos
    PROVE  /\ \A u \in Tables : \A k \in Slots : u # t =>
                /\ SlotFd(u, k)' = SlotFd(u, k) /\ Ssn(u, k)' = Ssn(u, k)
                /\ tab'[u].conn[k].st = tab[u].conn[k].st
                /\ Kept(u, k)' <=> Kept(u, k)
           /\ \A k \in Slots : (Kept(t, k)' <=> SlotFd(t, k)' # -1) /\ (Kept(t, k) <=> SlotFd(t, k) # -1)
           /\ \A k \in Slots : SlotFd(t, k)' # -1 =>
                /\ Up(j, k) \in Slots
                /\ SlotFd(t, Up(j, k)) = SlotFd(t, k)' /\ Ssn(t, Up(j, k)) = Ssn(t, k)'
           /\ \A k \in Slots : SlotFd(t, k) # -1 /\ k # j =>
                /\ Down(j, k) \in Slots
                /\ SlotFd(t, Down(j, k))' = SlotFd(t, k) /\ Ssn(t, Down(j, k))' = Ssn(t, k)
           /\ \A k \in Slots : tab'[t].conn[k].st = FD_STAT_POLL => SlotFd(t, k)' # -1
<1>1. ASSUME NEW u \in Tables, NEW k \in Slots, u # t
      PROVE  /\ SlotFd(u, k)' = SlotFd(u, k) /\ Ssn(u, k)' = Ssn(u, k)
             /\ tab'[u].conn[k].st = tab[u].conn[k].st
             /\ Kept(u, k)' <=> Kept(u, k)
  <2>1. tab'[u].conn = tab[u].conn
    BY <1>1 DEF Shifted
  <2> QED
    BY <1>1, <2>1 DEF SlotFd, Ssn, Kept
<1>2. ASSUME NEW k \in Slots
      PROVE  (Kept(t, k)' <=> SlotFd(t, k)' # -1) /\ (Kept(t, k) <=> SlotFd(t, k) # -1)
  BY DEF Kept
<1>3. ASSUME NEW k \in Slots, SlotFd(t, k)' # -1
      PROVE  /\ Up(j, k) \in Slots
             /\ SlotFd(t, Up(j, k)) = SlotFd(t, k)' /\ Ssn(t, Up(j, k)) = Ssn(t, k)'
  BY <1>3 DEF Shifted, SlotFd, Ssn
<1>4. ASSUME NEW k \in Slots, SlotFd(t, k) # -1, k # j
      PROVE  /\ Down(j, k) \in Slots
             /\ SlotFd(t, Down(j, k))' = SlotFd(t, k) /\ Ssn(t, Down(j, k))' = Ssn(t, k)
  BY <1>4 DEF Shifted, SlotFd, Ssn, Down
<1>5. \A k \in Slots : tab'[t].conn[k].st = FD_STAT_POLL => SlotFd(t, k)' # -1
  BY DEF Shifted, SlotFd
<1> QED
  BY <1>1, <1>2, <1>3, <1>4, <1>5

\* A slot is cleared in table t, where the main thread is not accepting.
Cut(t, j) ==
    /\ Shifted(t, j)
    /\ ~(main.at = "rest" /\ main.t = t) /\ ~(main'.at = "rest" /\ main'.t = t)
    /\ \A u \in Tables \ {t} : (main'.at = "rest" /\ main'.t = u) <=> (main.at = "rest" /\ main.t = u)
    /\ main.at = "rest" => main'.pos = main.pos

LEMMA CutTables ==
    ASSUME TypeInv, Sound, NEW t \in Tables, NEW j \in Slots, Cut(t, j), gssn' = gssn
    PROVE  /\ Packed'
           /\ \A u \in Tables : \A k \in Slots : SlotFd(u, k)' # -1 => TableOf(SlotFd(u, k)') = u
           /\ \A u \in Tables : \A k \in Slots : (Kept(u, k) => Ssn(u, k) \in 0..(gssn - 1))'
           /\ \A u \in Tables : \A k \in Slots : (tab[u].conn[k].st = FD_STAT_POLL => Kept(u, k))'
           /\ \A u \in Tables : \A i, k \in Slots :
                 (Kept(u, i) /\ Kept(u, k) /\ Ssn(u, i) = Ssn(u, k) => i = k)'
<1>1. ASSUME NEW u \in Tables, NEW k \in Slots, u # t
      PROVE  /\ SlotFd(u, k)' = SlotFd(u, k) /\ Ssn(u, k)' = Ssn(u, k)
             /\ tab'[u].conn[k].st = tab[u].conn[k].st
             /\ Kept(u, k)' <=> Kept(u, k)
  BY <1>1, ShiftedSlots DEF Cut
<1>2. ASSUME NEW k \in Slots
      PROVE  (Kept(t, k)' <=> SlotFd(t, k)' # -1) /\ (Kept(t, k) <=> SlotFd(t, k) # -1)
  BY ShiftedSlots DEF Cut
<1>3. ASSUME NEW k \in Slots, SlotFd(t, k)' # -1
      PROVE  /\ Up(j, k) \in Slots
             /\ SlotFd(t, Up(j, k)) = SlotFd(t, k)' /\ Ssn(t, Up(j, k)) = Ssn(t, k)'
  BY <1>3, ShiftedSlots DEF Cut
<1>4. ASSUME NEW k \in Slots, SlotFd(t, k) # -1, k # j
      PROVE  /\ Down(j, k) \in Slots
             /\ SlotFd(t, Down(j, k))' = SlotFd(t, k) /\ Ssn(t, Down(j, k))' = Ssn(t, k)
  BY <1>4, ShiftedSlots DEF Cut
<1>5. \A k \in Slots : tab'[t].conn[k].st = FD_STAT_POLL => SlotFd(t, k)' # -1
  BY ShiftedSlots DEF Cut
<1>6. Packed'
  <2> SUFFICES ASSUME NEW u \in Tables, NEW i \in Slots, NEW k \in Slots, i < k, SlotFd(u, k)' # -1
               PROVE  SlotFd(u, i)' # -1
    BY DEF Packed
  <2>1. CASE u # t
    BY <1>1, <2>1 DEF Sound, Packed
  <2>2. CASE u = t
    <3>1. Up(j, k) \in Slots /\ SlotFd(t, Up(j, k)) # -1
      BY <1>3, <2>2
    <3>2. Up(j, i) < Up(j, k) /\ Up(j, i) # j /\ Down(j, Up(j, i)) = i
      BY UpDown
    <3>3. Up(j, i) \in Slots
      <4>1. Up(j, i) \in Nat
        BY UpDown
      <4> QED
        BY <3>1, <3>2, <4>1, SizeAssumption DEF Slots
    <3>4. SlotFd(t, Up(j, i)) # -1
      BY <3>1, <3>2, <3>3 DEF Sound, Packed
    <3> QED
      BY <1>4, <2>2, <3>2, <3>3, <3>4
  <2> QED
    BY <2>1, <2>2
<1>7. \A u \in Tables : \A k \in Slots : SlotFd(u, k)' # -1 => TableOf(SlotFd(u, k)') = u
  <2> SUFFICES ASSUME NEW u \in Tables, NEW k \in Slots, SlotFd(u, k)' # -1
               PROVE  TableOf(SlotFd(u, k)') = u
    OBVIOUS
  <2>0. \A v \in Tables : \A i \in Slots : SlotFd(v, i) # -1 => TableOf(SlotFd(v, i)) = v
    BY DEF Sound, Homed
  <2>1. CASE u # t
    BY <1>1, <2>0, <2>1
  <2>2. CASE u = t
    <3>1. Up(j, k) \in Slots /\ SlotFd(t, Up(j, k)) = SlotFd(t, k)'
      BY <1>3, <2>2
    <3> QED
      BY <2>0, <2>2, <3>1
  <2> QED
    BY <2>1, <2>2
<1>8. \A u \in Tables : \A k \in Slots : (Kept(u, k) => Ssn(u, k) \in 0..(gssn - 1))'
  <2> SUFFICES ASSUME NEW u \in Tables, NEW k \in Slots, Kept(u, k)'
               PROVE  Ssn(u, k)' \in 0..(gssn - 1)
    OBVIOUS
  <2>0. \A v \in Tables : \A i \in Slots : Kept(v, i) => Ssn(v, i) \in 0..(gssn - 1)
    BY DEF Sound, Numbered
  <2>1. CASE u # t
    BY <1>1, <2>0, <2>1
  <2>2. CASE u = t
    <3>1. Up(j, k) \in Slots /\ SlotFd(t, Up(j, k)) # -1 /\ Ssn(t, Up(j, k)) = Ssn(t, k)'
      BY <1>2, <1>3, <2>2
    <3>2. Kept(t, Up(j, k))
      BY <1>2, <3>1
    <3> QED
      BY <2>0, <2>2, <3>1, <3>2
  <2> QED
    BY <2>1, <2>2
<1>9. \A u \in Tables : \A k \in Slots : (tab[u].conn[k].st = FD_STAT_POLL => Kept(u, k))'
  <2> SUFFICES ASSUME NEW u \in Tables, NEW k \in Slots, tab'[u].conn[k].st = FD_STAT_POLL
               PROVE  Kept(u, k)'
    BY DEF FD_STAT_POLL
  <2>1. CASE u # t
    BY <1>1, <2>1 DEF Sound, Numbered
  <2>2. CASE u = t
    BY <1>2, <1>5, <2>2
  <2> QED
    BY <2>1, <2>2
<1>10. \A u \in Tables : \A i, k \in Slots :
          (Kept(u, i) /\ Kept(u, k) /\ Ssn(u, i) = Ssn(u, k) => i = k)'
  <2> SUFFICES ASSUME NEW u \in Tables, NEW i \in Slots, NEW k \in Slots,
                      Kept(u, i)', Kept(u, k)', Ssn(u, i)' = Ssn(u, k)'
               PROVE  i = k
    OBVIOUS
  <2>0. \A v \in Tables : \A a, b \in Slots : Kept(v, a) /\ Kept(v, b) /\ Ssn(v, a) = Ssn(v, b) => a = b
    BY DEF Sound, Numbered
  <2>1. CASE u # t
    BY <1>1, <2>0, <2>1
  <2>2. CASE u = t
    <3>1. Up(j, i) \in Slots /\ SlotFd(t, Up(j, i)) # -1 /\ Ssn(t, Up(j, i)) = Ssn(t, i)'
      BY <1>2, <1>3, <2>2
    <3>2. Up(j, k) \in Slots /\ SlotFd(t, Up(j, k)) # -1 /\ Ssn(t, Up(j, k)) = Ssn(t, k)'
      BY <1>2, <1>3, <2>2
    <3>3. Kept(t, Up(j, i)) /\ Kept(t, Up(j, k))
      BY <1>2, <3>1, <3>2
    <3>4. Up(j, i) = Up(j, k)
      BY <2>0, <2>2, <3>1, <3>2, <3>3
    <3>5. Down(j, Up(j, i)) = i /\ Down(j, Up(j, k)) = k
      BY UpDown
    <3> QED
      BY <3>4, <3>5
  <2> QED
    BY <2>1, <2>2
<1> QED
  BY <1>6, <1>7, <1>8, <1>9, <1>10

LEMMA CutOf ==
    ASSUME TypeInv, Sound, NEW t \in Tables, NEW j \in Slots, Cut(t, j), NEW f \in Fds
    PROVE  /\ TableOf(f) # t =>
                /\ Of(f)' = Of(f) /\ KeptOf(f)' = KeptOf(f)
                /\ \A k \in Of(f) : Ssn(TableOf(f), k)' = Ssn(TableOf(f), k)
           /\ TableOf(f) = t =>
                /\ KeptOf(f) = Of(f) /\ KeptOf(f)' = Of(f)'
                /\ \A k \in Of(f)' : /\ Up(j, k) \in Of(f) /\ Down(j, Up(j, k)) = k
                                     /\ Up(j, k) # j
                                     /\ Ssn(t, k)' = Ssn(t, Up(j, k))
                /\ \A k \in Of(f) \ {j} : Down(j, k) \in Of(f)' /\ Ssn(t, Down(j, k))' = Ssn(t, k)
           /\ TableOf(f)' = TableOf(f) /\ TableOf(f) \in Tables /\ Of(f) \subseteq Slots
           /\ Of(f)' \subseteq Slots /\ KeptOf(f) \subseteq Of(f) /\ KeptOf(f)' \subseteq Of(f)'
<1>0. /\ TableOf(f)' = TableOf(f) /\ TableOf(f) \in Tables /\ Of(f) \subseteq Slots /\ f # -1
      /\ Of(f)' \subseteq Slots /\ KeptOf(f) \subseteq Of(f) /\ KeptOf(f)' \subseteq Of(f)'
  BY TableOfType, SizeAssumption DEF TableOf, Of, KeptOf
<1>1. ASSUME TableOf(f) # t
      PROVE  /\ Of(f)' = Of(f) /\ KeptOf(f)' = KeptOf(f)
             /\ \A k \in Of(f) : Ssn(TableOf(f), k)' = Ssn(TableOf(f), k)
  <2>1. ASSUME NEW k \in Slots
        PROVE  /\ SlotFd(TableOf(f), k)' = SlotFd(TableOf(f), k)
               /\ Ssn(TableOf(f), k)' = Ssn(TableOf(f), k)
               /\ Kept(TableOf(f), k)' <=> Kept(TableOf(f), k)
    BY <1>0, <1>1, ShiftedSlots DEF Cut
  <2>2. Of(f)' = Of(f)
    BY <1>0, <2>1 DEF Of
  <2>3. KeptOf(f)' = KeptOf(f)
    BY <1>0, <2>1, <2>2 DEF KeptOf
  <2> QED
    BY <1>0, <2>1, <2>2, <2>3
<1>2. ASSUME TableOf(f) = t
      PROVE  /\ KeptOf(f) = Of(f) /\ KeptOf(f)' = Of(f)'
             /\ \A k \in Of(f)' : /\ Up(j, k) \in Of(f) /\ Down(j, Up(j, k)) = k
                                  /\ Up(j, k) # j
                                  /\ Ssn(t, k)' = Ssn(t, Up(j, k))
             /\ \A k \in Of(f) \ {j} : Down(j, k) \in Of(f)' /\ Ssn(t, Down(j, k))' = Ssn(t, k)
  <2>1. \A k \in Slots : (Kept(t, k)' <=> SlotFd(t, k)' # -1) /\ (Kept(t, k) <=> SlotFd(t, k) # -1)
    BY ShiftedSlots DEF Cut
  <2>2. Of(f) = {k \in Slots : SlotFd(t, k) = f} /\ Of(f)' = {k \in Slots : SlotFd(t, k)' = f}
    BY <1>0, <1>2 DEF Of
  <2>3. KeptOf(f) = Of(f)
    BY <1>0, <1>2, <2>1, <2>2 DEF KeptOf
  <2>4. KeptOf(f)' = Of(f)'
    BY <1>0, <1>2, <2>1, <2>2 DEF KeptOf
  <2>5. ASSUME NEW k \in Of(f)'
        PROVE  /\ Up(j, k) \in Of(f) /\ Down(j, Up(j, k)) = k /\ Up(j, k) # j
               /\ Ssn(t, k)' = Ssn(t, Up(j, k))
    <3>1. k \in Slots /\ SlotFd(t, k)' = f
      BY <2>2
    <3>2. /\ Up(j, k) \in Slots
          /\ SlotFd(t, Up(j, k)) = SlotFd(t, k)' /\ Ssn(t, Up(j, k)) = Ssn(t, k)'
      BY <1>0, <3>1, ShiftedSlots DEF Cut
    <3> QED
      BY <2>2, <3>1, <3>2, UpDown
  <2>6. ASSUME NEW k \in Of(f) \ {j} PROVE Down(j, k) \in Of(f)' /\ Ssn(t, Down(j, k))' = Ssn(t, k)
    <3>1. k \in Slots /\ SlotFd(t, k) = f /\ k # j
      BY <2>2
    <3>2. /\ Down(j, k) \in Slots
          /\ SlotFd(t, Down(j, k))' = SlotFd(t, k) /\ Ssn(t, Down(j, k))' = Ssn(t, k)
      BY <1>0, <3>1, ShiftedSlots DEF Cut
    <3> QED
      BY <2>2, <3>1, <3>2
  <2> QED
    BY <2>3, <2>4, <2>5, <2>6
<1> QED
  BY <1>0, <1>1, <1>2

\* The idle clean-up clears the slot of the fd it has closed.
LEMMA CleanClearSound ==
    ASSUME TypeInv, Sound, CleanClear, broken' \subseteq {"count"} PROVE Sound'
<1>0. /\ main \in Mains /\ gssn \in Nat /\ main.at = "clear" /\ tab \in Tabs
      /\ main.fd \in Fds /\ main.t \in Tables /\ 0 \in Slots
  BY SlotBounds DEF TypeInv, CommType, CleanClear, Busy
<1> PICK t \in Tables : t = main.t
  BY <1>0
<1> PICK fd \in Fds : fd = main.fd
  BY <1>0
<1>a. UNCHANGED <<gssn, sock, rd>> /\ tab' = CommClearFd(tab, t, 0)
  BY DEF CleanClear
<1>1. main'.at = "clean"
  BY <1>0 DEF CleanClear, Mains
<1>2. ClearHazard(t, 0) = {} /\ SlotFd(t, 0) = fd
  <2>1. broken' = broken \cup ClearHazard(main.t, 0)
                         \cup (IF SlotFd(main.t, 0) # main.fd THEN {"overlap"} ELSE {})
    BY DEF CleanClear
  <2>2. ClearHazard(t, 0) \subseteq {"overrun"}
    BY HazardKinds
  <2> QED
    BY <2>1, <2>2
<1>3. /\ TableOf(fd) = t /\ fd # -1 /\ sock[fd].conn = -1
      /\ ~Closing(fd) => \A i, k \in Of(fd) : i = k
  BY <1>0, SizeAssumption DEF Sound, Homed, Cleaned
<1>4. Cut(t, 0)
  <2>1. Shifted(t, 0)
    BY <1>0, <1>a, <1>2, <1>3, ClearShifts
  <2> QED
    BY <1>0, <1>1, <2>1 DEF Cut
<1>5. 0 \in Of(fd) /\ \A k \in Slots : 0 <= k
  BY <1>0, <1>2, <1>3, SlotBounds DEF Of
<1>6. ASSUME NEW f \in Fds
      PROVE  /\ Closing(f)' <=> Closing(f)
             /\ ~Cleaning(f)' /\ ~Storing(f) /\ ~Storing(f)'
             /\ Cleaning(f) <=> f = fd
             /\ f # fd => 0 \notin Of(f) \/ TableOf(f) # t
  <2>1. (Closing(f)' <=> Closing(f)) /\ ~Cleaning(f)' /\ ~Storing(f) /\ ~Storing(f)' /\ (Cleaning(f) <=> f = fd)
    BY <1>0, <1>1, <1>a DEF Closing, Cleaning, Storing, TableOf
  <2>2. f # fd => 0 \notin Of(f) \/ TableOf(f) # t
    BY <1>2 DEF Of
  <2> QED
    BY <2>1, <2>2
<1>7. Packed' /\ Homed' /\ Numbered' /\ Accepting' /\ Cleaned'
  <2>1. Packed' /\ Numbered'
    <3>1. \A u \in Tables : (rd[u].at # "idle" => rd[u].ssn \in 0..(gssn - 1))'
      BY <1>a DEF Sound, Numbered
    <3> QED
      BY <1>0, <1>4, <1>a, <3>1, CutTables DEF Numbered
  <2>2. Homed'
    <3>1. \A u \in Tables : \A k \in Slots : SlotFd(u, k)' # -1 => TableOf(SlotFd(u, k)') = u
      BY <1>0, <1>4, <1>a, CutTables
    <3>2. \A u \in Tables : rd'[u].at # "idle" => TableOf(rd'[u].fd) = u
      BY <1>a DEF Sound, Homed
    <3> QED
      BY <1>1, <3>1, <3>2 DEF Homed, TableOf
  <2> QED
    BY <1>1, <2>1, <2>2 DEF Accepting, Cleaned
<1>8. Recorded'
  <2> SUFFICES ASSUME NEW f \in Fds, sock[f].conn # -1
               PROVE  \E k \in KeptOf(f)' : Ssn(TableOf(f), k)' = sock[f].conn
    BY <1>a DEF Recorded
  <2>1. PICK k \in KeptOf(f) : Ssn(TableOf(f), k) = sock[f].conn
    BY <1>6 DEF Sound, Recorded
  <2>2. CASE TableOf(f) # t
    BY <1>0, <1>4, <2>1, <2>2, CutOf
  <2>3. CASE TableOf(f) = t
    <3>1. f # fd /\ k \in Of(f) /\ k # 0
      BY <1>3, <1>6, <2>1, <2>3 DEF KeptOf
    <3>2. Down(0, k) \in Of(f)' /\ Ssn(t, Down(0, k))' = Ssn(t, k) /\ KeptOf(f)' = Of(f)'
      BY <1>0, <1>4, <2>3, <3>1, CutOf
    <3>3. Ssn(TableOf(f), Down(0, k))' = Ssn(t, Down(0, k))'
      BY <2>3 DEF TableOf
    <3> QED
      BY <2>1, <2>3, <3>2, <3>3
  <2> QED
    BY <2>2, <2>3
<1>9. Current'
  <2> SUFFICES ASSUME NEW f \in Fds, ~Closing(f), NEW k \in KeptOf(f)'
               PROVE  Ssn(TableOf(f), k)' = sock[f].conn
    BY <1>a, <1>6 DEF Current
  <2>1. CASE f = fd
    <3>1. k \in Of(f)' /\ Up(0, k) \in Of(fd) /\ Up(0, k) # 0
      BY <1>0, <1>3, <1>4, <2>1, CutOf
    <3> QED
      BY <1>3, <1>5, <2>1, <3>1
  <2>2. CASE f # fd /\ TableOf(f) # t
    <3>1. k \in KeptOf(f) /\ Ssn(TableOf(f), k)' = Ssn(TableOf(f), k)
      BY <1>0, <1>4, <2>2, CutOf
    <3> QED
      BY <1>6, <2>2, <3>1 DEF Sound, Current
  <2>3. CASE f # fd /\ TableOf(f) = t
    <3>1. Up(0, k) \in KeptOf(f) /\ Ssn(t, k)' = Ssn(t, Up(0, k))
      BY <1>0, <1>4, <2>3, CutOf
    <3>2. Ssn(TableOf(f), Up(0, k)) = sock[f].conn
      BY <1>6, <2>3, <3>1 DEF Sound, Current
    <3>3. Ssn(TableOf(f), k)' = Ssn(t, k)'
      BY <2>3 DEF TableOf
    <3> QED
      BY <2>3, <3>1, <3>2, <3>3
  <2> QED
    BY <2>1, <2>2, <2>3
<1>10. Deleting'
  <2> SUFFICES ASSUME NEW f \in Fds, Closing(f)
               PROVE  sock[f].conn # rd[TableOf(f)].ssn /\ (OldFirst(f)' \/ OldGone(f)')
    BY <1>a, <1>6 DEF Deleting, TableOf
  <2>1. sock[f].conn # rd[TableOf(f)].ssn /\ (OldFirst(f) \/ OldGone(f))
    BY DEF Sound, Deleting
  <2>2. TableOf(f)' = TableOf(f) /\ rd' = rd /\ sock' = sock /\ ~Cleaning(f)'
    BY <1>6, <1>a DEF TableOf
  <2>3. CASE TableOf(f) # t
    <3>0. ~Cleaning(f) /\ f # fd
      BY <1>3, <1>6, <2>3
    <3>1. Of(f)' = Of(f) /\ KeptOf(f)' = KeptOf(f) /\ KeptOf(f) \subseteq Of(f)
          /\ \A k \in Of(f) : Ssn(TableOf(f), k)' = Ssn(TableOf(f), k)
      BY <1>0, <1>4, <2>3, CutOf
    <3>2. OldGone(f) => OldGone(f)'
      BY <2>2, <3>1 DEF OldGone
    <3>3. OldFirst(f) => OldFirst(f)'
      BY <2>2, <3>0, <3>1 DEF OldFirst
    <3> QED
      BY <2>1, <3>2, <3>3
  <2>4. CASE TableOf(f) = t
    <3>1. /\ KeptOf(f) = Of(f) /\ KeptOf(f)' = Of(f)'
          /\ \A k \in Of(f)' : /\ Up(0, k) \in Of(f) /\ Down(0, Up(0, k)) = k
                               /\ Up(0, k) # 0
                               /\ Ssn(t, k)' = Ssn(t, Up(0, k))
          /\ \A k \in Of(f) \ {0} : Down(0, k) \in Of(f)' /\ Ssn(t, Down(0, k))' = Ssn(t, k)
          /\ Of(f) \subseteq Slots /\ Of(f)' \subseteq Slots
      BY <1>0, <1>4, <2>4, CutOf
    <3>2. ASSUME OldGone(f) PROVE OldGone(f)'
      <4>1. \A k \in KeptOf(f) : Ssn(t, k) # rd[t].ssn
        BY <2>4, <3>2 DEF OldGone
      <4>2. \A k \in KeptOf(f)' : Ssn(t, k)' # rd'[t].ssn
        BY <2>2, <3>1, <4>1
      <4> QED
        BY <2>2, <2>4, <4>2 DEF OldGone
    <3>3. ASSUME f = fd, OldFirst(f) PROVE OldGone(f)'
      <4>1. PICK k \in KeptOf(f) : Ssn(t, k) = rd[t].ssn /\ \A i \in Of(f) : k <= i
        BY <2>4, <3>3 DEF OldFirst
      <4>2. k = 0
        <5>1. k <= 0 /\ 0 <= k /\ k \in Nat
          BY <1>5, <3>1, <3>3, <4>1, SlotBounds
        <5> QED
          BY <5>1
      <4>3. \A i \in Of(f) \ {0} : Ssn(t, i) # rd[t].ssn
        <5>1. \A i \in Of(f) : i \in Slots /\ Kept(t, i)
          BY <2>4, <3>1 DEF KeptOf
        <5> QED
          BY <3>1, <4>1, <4>2, <5>1 DEF Sound, Numbered
      <4>4. \A i \in KeptOf(f)' : Ssn(t, i)' # rd'[t].ssn
        BY <2>2, <3>1, <4>3
      <4> QED
        BY <2>2, <2>4, <4>4 DEF OldGone
    <3>4. ASSUME f # fd, OldFirst(f) PROVE OldFirst(f)'
      <4>0. ~Cleaning(f) /\ 0 \notin Of(f)
        BY <1>6, <2>4, <3>4
      <4>1. PICK k \in KeptOf(f) :
              /\ Ssn(t, k) = rd[t].ssn
              /\ \A i \in Of(f) : k <= i
              /\ \A i \in KeptOf(f) \ {k} : Ssn(t, i) = sock[f].conn
        BY <2>4, <3>4, <4>0 DEF OldFirst
      <4>2. k \in Of(f) \ {0} /\ k \in Slots
        BY <3>1, <4>0
      <4>3. Down(0, k) \in KeptOf(f)' /\ Ssn(t, Down(0, k))' = rd'[t].ssn
        BY <2>2, <3>1, <4>1, <4>2
      <4>4. ASSUME NEW i \in Of(f)' PROVE Down(0, k) <= i
        <5>1. Up(0, i) \in Of(f) /\ Up(0, i) # 0 /\ Down(0, Up(0, i)) = i /\ k <= Up(0, i)
          BY <3>1, <4>1
        <5>2. Up(0, i) \in Slots
          BY <3>1, <5>1
        <5>3. Down(0, k) <= Down(0, Up(0, i))
          BY <1>0, <4>2, <5>1, <5>2, UpDown
        <5> QED
          BY <5>1, <5>3
      <4>5. ASSUME NEW i \in KeptOf(f)' \ {Down(0, k)} PROVE Ssn(t, i)' = sock'[f].conn
        <5>1. Up(0, i) \in KeptOf(f) /\ Down(0, Up(0, i)) = i /\ Ssn(t, i)' = Ssn(t, Up(0, i))
          BY <3>1
        <5>2. Up(0, i) # k
          BY <5>1
        <5> QED
          BY <2>2, <4>1, <5>1, <5>2
      <4> QED
        BY <2>2, <2>4, <4>3, <4>4, <4>5 DEF OldFirst
    <3> QED
      BY <2>1, <3>2, <3>3, <3>4
  <2> QED
    BY <2>3, <2>4
<1> QED
  BY <1>7, <1>8, <1>9, <1>10 DEF Sound

\* The scans see every slot in use.
LEMMA SeenInUse ==
    ASSUME TypeInv, Sound, NEW t \in Tables, NEW k \in Slots
    PROVE  k \in Seen(t) <=> SlotFd(t, k) # -1
<1>1. k \in 0..k /\ k \in Nat
  BY SlotBounds
<1>2. ASSUME SlotFd(t, k) # -1, NEW i \in 0..k PROVE SlotFd(t, i) # -1
  <2>1. i \in Slots
    BY <1>1, SizeAssumption DEF Slots
  <2>2. i < k \/ i = k
    BY <1>1
  <2> QED
    BY <1>2, <2>1, <2>2 DEF Sound, Packed
<1> QED
  BY <1>1, <1>2 DEF Seen

\* The reader has cleared its slot, or found none.
LEMMA ReaderRests ==
    ASSUME TypeInv, NEW t \in Tables, DelClear(t), Sound
    PROVE  /\ rd[t].at = "clear" /\ rd[t].fd \in Fds /\ TableOf(rd[t].fd) = t
           /\ rd'[t].at = "idle" /\ \A u \in Tables \ {t} : rd'[u] = rd[u]
           /\ UNCHANGED <<gssn, sock, main>>
           /\ \A f \in Fds : /\ Closing(f)' <=> Closing(f) /\ f # rd[t].fd
                             /\ Closing(f)' => TableOf(f) # t /\ rd'[TableOf(f)] = rd[TableOf(f)]
                             /\ Closing(rd[t].fd)
                             /\ Cleaning(f)' <=> Cleaning(f)
                             /\ Storing(f)' <=> Storing(f)
           /\ \A u \in Tables : (rd[u].at # "idle" => rd[u].ssn \in 0..(gssn - 1))'
           /\ \A u \in Tables : rd'[u].at # "idle" => TableOf(rd'[u].fd) = u
<1>1. /\ rd[t].at = "clear" /\ rd[t].fd \in Fds /\ rd' = [rd EXCEPT ![t] = Resting]
      /\ UNCHANGED <<gssn, sock, main>> /\ rd \in [Tables -> Readers]
  BY DEF DelClear, TypeInv, CommType, Busy
<1>2. TableOf(rd[t].fd) = t
  BY <1>1 DEF Sound, Homed
<1>3. rd'[t].at = "idle" /\ \A u \in Tables \ {t} : rd'[u] = rd[u]
  BY <1>1 DEF Resting
<1>4. ASSUME NEW f \in Fds
      PROVE  /\ Closing(f)' <=> Closing(f) /\ f # rd[t].fd
             /\ Closing(f)' => TableOf(f) # t /\ rd'[TableOf(f)] = rd[TableOf(f)]
             /\ Closing(rd[t].fd)
             /\ Cleaning(f)' <=> Cleaning(f)
             /\ Storing(f)' <=> Storing(f)
  <2>1. TableOf(f) \in Tables /\ TableOf(f)' = TableOf(f)
    BY TableOfType DEF TableOf
  <2>2. Closing(rd[t].fd)
    BY <1>1, <1>2 DEF Closing
  <2>3. (Cleaning(f)' <=> Cleaning(f)) /\ (Storing(f)' <=> Storing(f))
    BY <1>1 DEF Cleaning, Storing
  <2>4. CASE TableOf(f) = t
    BY <1>1, <1>3, <2>1, <2>2, <2>3, <2>4 DEF Closing
  <2>5. CASE TableOf(f) # t
    BY <1>2, <1>3, <2>1, <2>2, <2>3, <2>5 DEF Closing
  <2> QED
    BY <2>4, <2>5
<1>5. \A u \in Tables : (rd[u].at # "idle" => rd[u].ssn \in 0..(gssn - 1))'
  BY <1>1, <1>3 DEF Sound, Numbered
<1>6. \A u \in Tables : rd'[u].at # "idle" => TableOf(rd'[u].fd) = u
  BY <1>3 DEF Sound, Homed
<1> QED
  BY <1>1, <1>2, <1>3, <1>4, <1>5, <1>6

\* The slot was gone already.
LEMMA DelNothingSound ==
    ASSUME TypeInv, Sound, NEW t \in Tables, DelClear(t), tab' = tab,
           \A k \in Slots : SlotFd(t, k) # rd[t].fd
    PROVE  Sound'
<1>0. rd[t].fd \in Fds
  BY ReaderRests
<1> PICK fd \in Fds : fd = rd[t].fd
  BY <1>0
<1>1. /\ TableOf(fd) = t /\ UNCHANGED <<gssn, sock, main>>
      /\ \A u \in Tables : (rd[u].at # "idle" => rd[u].ssn \in 0..(gssn - 1))'
      /\ \A u \in Tables : rd'[u].at # "idle" => TableOf(rd'[u].fd) = u
  BY ReaderRests
<1>2. ASSUME NEW f \in Fds
      PROVE  /\ Closing(f)' <=> Closing(f) /\ f # fd
             /\ Closing(f)' => rd'[TableOf(f)] = rd[TableOf(f)]
             /\ Cleaning(f)' <=> Cleaning(f)
             /\ Storing(f)' <=> Storing(f)
  BY ReaderRests
<1>3. Of(fd) = {} /\ KeptOf(fd) = {}
  BY <1>1 DEF Of, KeptOf
<1>4. SameMain /\ SameSlots
  BY <1>1 DEF SameMain, SameSlots
<1>5. ASSUME NEW f \in Fds
      PROVE  /\ Of(f)' = Of(f) /\ KeptOf(f)' = KeptOf(f) /\ TableOf(f)' = TableOf(f)
             /\ \A k : Ssn(TableOf(f), k)' = Ssn(TableOf(f), k)
  BY <1>4, SameOf DEF Ssn, TableOf
<1>6. Packed' /\ Numbered' /\ Homed' /\ Accepting'
  <2>1. Packed'
    BY DEF Sound, Packed, SlotFd
  <2>2. Numbered'
    BY <1>1 DEF Sound, Numbered, Kept, SlotFd, Ssn
  <2>3. Homed'
    BY <1>1 DEF Sound, Homed, SlotFd, TableOf
  <2>4. Accepting'
    BY <1>1 DEF Sound, Accepting, SlotFd
  <2> QED
    BY <2>1, <2>2, <2>3, <2>4
<1>7. Recorded'
  BY <1>1, <1>2, <1>5 DEF Sound, Recorded
<1>8. Current'
  <2> SUFFICES ASSUME NEW f \in Fds, ~Closing(f)', ~Cleaning(f)', NEW k \in KeptOf(f)'
               PROVE  Ssn(TableOf(f), k)' = sock'[f].conn
    BY DEF Current
  <2>1. f # fd /\ ~Closing(f) /\ ~Cleaning(f) /\ k \in KeptOf(f)
    BY <1>2, <1>3, <1>5
  <2> QED
    BY <1>1, <1>5, <2>1 DEF Sound, Current
<1>9. Cleaned'
  <2> SUFFICES ASSUME main.at = "clear" PROVE Cleaned'
    BY <1>1 DEF Cleaned
  <2>1. main.fd \in Fds
    BY DEF TypeInv, Busy
  <2> PICK g \in Fds : g = main.fd
    BY <2>1
  <2>2. sock[g].conn = -1 /\ (~Closing(g) => \A j, k \in Of(g) : j = k)
    BY DEF Sound, Cleaned
  <2>3. sock'[g].conn = -1 /\ (~Closing(g)' => \A j, k \in Of(g)' : j = k)
    BY <1>1, <1>2, <1>3, <1>5, <2>2
  <2>4. (Closing(g) <=> Closing(main.fd))' /\ (Of(g) = Of(main.fd))' /\ main'.fd = g
    BY <1>1 DEF Closing, Of, TableOf
  <2> QED
    BY <2>3, <2>4 DEF Cleaned
<1>10. Deleting'
  <2> SUFFICES ASSUME NEW f \in Fds, Closing(f)'
               PROVE  sock[f].conn # rd[TableOf(f)].ssn /\ (OldFirst(f)' \/ OldGone(f)')
    BY <1>1, <1>2 DEF Deleting, TableOf
  <2>1. /\ sock[f].conn # rd[TableOf(f)].ssn /\ (OldFirst(f) \/ OldGone(f))
        /\ rd'[TableOf(f)] = rd[TableOf(f)] /\ (Cleaning(f)' <=> Cleaning(f)) /\ sock' = sock
    BY <1>1, <1>2 DEF Sound, Deleting
  <2>2. OldGone(f) => OldGone(f)'
    BY <1>5, <2>1 DEF OldGone
  <2>3. OldFirst(f) => OldFirst(f)'
    BY <1>5, <2>1 DEF OldFirst
  <2> QED
    BY <2>1, <2>2, <2>3
<1> QED
  BY <1>6, <1>7, <1>8, <1>9, <1>10 DEF Sound

\* The slot cleared is that of the connection the reader has closed, and the
\* main thread is not accepting into its table.
LEMMA DelSlotSound ==
    ASSUME TypeInv, Sound, NEW t \in Tables, DelClear(t), NEW j \in Slots, Shifted(t, j),
           SlotFd(t, j) = rd[t].fd, \A k \in Slots : SlotFd(t, k) = rd[t].fd => j <= k,
           ~(main.at \in {"fd", "rest"} /\ main.t = t), Ssn(t, j) = rd[t].ssn
    PROVE  Sound'
<1>0. rd[t].fd \in Fds
  BY ReaderRests
<1> PICK fd \in Fds : fd = rd[t].fd
  BY <1>0
<1>1. /\ TableOf(fd) = t /\ UNCHANGED <<gssn, sock, main>> /\ Closing(fd)
      /\ \A u \in Tables : (rd[u].at # "idle" => rd[u].ssn \in 0..(gssn - 1))'
      /\ \A u \in Tables : rd'[u].at # "idle" => TableOf(rd'[u].fd) = u
  BY ReaderRests
<1>2. ASSUME NEW f \in Fds
      PROVE  /\ Closing(f)' <=> Closing(f) /\ f # fd
             /\ Closing(f)' => TableOf(f) # t /\ rd'[TableOf(f)] = rd[TableOf(f)]
             /\ Cleaning(f)' <=> Cleaning(f)
             /\ Storing(f)' <=> Storing(f)
  BY ReaderRests
<1>3. Cut(t, j)
  BY <1>1 DEF Cut
<1>4. j \in Of(fd) /\ j \in KeptOf(fd) /\ \A k \in Of(fd) : j <= k
  <2>1. j \in Of(fd) /\ \A k \in Of(fd) : j <= k
    BY <1>1 DEF Of
  <2> QED
    BY <1>1, <1>3, <2>1, CutOf
<1>5. /\ sock[fd].conn # rd[t].ssn
      /\ IF Cleaning(fd) THEN \A i, k \in Of(fd) \ {j} : i = k
         ELSE \A k \in KeptOf(fd) \ {j} : Ssn(t, k) = sock[fd].conn
  <2>1. sock[fd].conn # rd[t].ssn /\ (OldFirst(fd) \/ OldGone(fd))
    BY <1>1 DEF Sound, Deleting
  <2>2. ~OldGone(fd)
    BY <1>1, <1>4 DEF OldGone
  <2>3. PICK k \in KeptOf(fd) :
          /\ \A i \in Of(fd) : k <= i
          /\ IF Cleaning(fd) THEN \A h, i \in Of(fd) \ {k} : h = i
             ELSE \A i \in KeptOf(fd) \ {k} : Ssn(t, i) = sock[fd].conn
    BY <1>1, <2>1, <2>2 DEF OldFirst
  <2>4. k = j
    <3>1. k <= j /\ j <= k /\ k \in Nat /\ j \in Nat
      BY <1>4, <2>3, SlotBounds DEF KeptOf, Of
    <3> QED
      BY <3>1
  <2> QED
    BY <2>1, <2>3, <2>4
<1>6. Packed' /\ Numbered' /\ Homed'
  <2>1. Packed' /\ Numbered'
    BY <1>1, <1>3, CutTables DEF Numbered
  <2>2. Homed'
    <3>1. \A u \in Tables : \A k \in Slots : SlotFd(u, k)' # -1 => TableOf(SlotFd(u, k)') = u
      BY <1>1, <1>3, CutTables
    <3>2. main'.at \in {"fd", "rest", "clear"} => TableOf(main'.fd) = main'.t
      BY <1>1 DEF Sound, Homed
    <3> QED
      BY <1>1, <3>1, <3>2 DEF Homed, TableOf
  <2> QED
    BY <2>1, <2>2
<1>7. Accepting'
  <2> SUFFICES ASSUME main.at \in {"fd", "rest"} PROVE Accepting'
    BY <1>1 DEF Accepting
  <2>1. main.t \in Tables \ {t}
    BY DEF TypeInv, Busy
  <2>2. tab'[main.t].conn = tab[main.t].conn
    BY <2>1 DEF Shifted
  <2> QED
    BY <1>1, <2>2 DEF Sound, Accepting, SlotFd
<1>8. Recorded'
  <2> SUFFICES ASSUME NEW f \in Fds, sock[f].conn # -1, ~Storing(f)
               PROVE  \E k \in KeptOf(f)' : Ssn(TableOf(f), k)' = sock[f].conn
    BY <1>1, <1>2 DEF Recorded
  <2>1. PICK k \in KeptOf(f) : Ssn(TableOf(f), k) = sock[f].conn
    BY DEF Sound, Recorded
  <2>2. CASE TableOf(f) # t
    BY <1>3, <2>1, <2>2, CutOf
  <2>3. CASE TableOf(f) = t
    <3>1. k \in Of(f) /\ k # j
      <4>1. k \in Of(f)
        BY DEF KeptOf
      <4>2. k = j => f = fd
        BY <2>3, <4>1 DEF Of
      <4> QED
        BY <1>5, <2>1, <2>3, <4>1, <4>2
    <3>2. Down(j, k) \in Of(f)' /\ Ssn(t, Down(j, k))' = Ssn(t, k) /\ KeptOf(f)' = Of(f)'
      BY <1>3, <2>3, <3>1, CutOf
    <3>3. Ssn(TableOf(f), Down(j, k))' = Ssn(t, Down(j, k))'
      BY <2>3 DEF TableOf
    <3> QED
      BY <2>1, <2>3, <3>2, <3>3
  <2> QED
    BY <2>2, <2>3
<1>9. Current'
  <2> SUFFICES ASSUME NEW f \in Fds, ~Closing(f)', ~Cleaning(f), NEW k \in KeptOf(f)'
               PROVE  Ssn(TableOf(f), k)' = sock[f].conn
    BY <1>1, <1>2 DEF Current
  <2>1. CASE TableOf(f) # t
    <3>1. k \in KeptOf(f) /\ Ssn(TableOf(f), k)' = Ssn(TableOf(f), k) /\ ~Closing(f)
      BY <1>1, <1>2, <1>3, <2>1, CutOf
    <3> QED
      BY <3>1 DEF Sound, Current
  <2>2. CASE TableOf(f) = t
    <3>1. Up(j, k) \in KeptOf(f) /\ Up(j, k) # j /\ Ssn(t, k)' = Ssn(t, Up(j, k))
      BY <1>3, <2>2, CutOf
    <3>2. Ssn(t, Up(j, k)) = sock[f].conn
      <4>1. CASE f = fd
        BY <1>5, <3>1, <4>1
      <4>2. CASE f # fd
        <5>1. ~Closing(f)
          BY <1>2, <4>2
        <5> QED
          BY <2>2, <3>1, <5>1 DEF Sound, Current
      <4> QED
        BY <4>1, <4>2
    <3>3. Ssn(TableOf(f), k)' = Ssn(t, k)'
      BY <2>2 DEF TableOf
    <3> QED
      BY <3>1, <3>2, <3>3
  <2> QED
    BY <2>1, <2>2
<1>10. Cleaned'
  <2> SUFFICES ASSUME main.at = "clear" PROVE Cleaned'
    BY <1>1 DEF Cleaned
  <2>1. main.fd \in Fds
    BY DEF TypeInv, Busy
  <2> PICK g \in Fds : g = main.fd
    BY <2>1
  <2>2. sock[g].conn = -1 /\ (~Closing(g) => \A i, k \in Of(g) : i = k) /\ Cleaning(g)
    BY DEF Sound, Cleaned, Cleaning
  <2>3. ASSUME ~Closing(g)', NEW i \in Of(g)', NEW k \in Of(g)' PROVE i = k
    <3>1. CASE TableOf(g) # t
      BY <1>1, <1>2, <1>3, <2>2, <2>3, <3>1, CutOf
    <3>2. CASE TableOf(g) = t
      <4>1. /\ Up(j, i) \in Of(g) \ {j} /\ Down(j, Up(j, i)) = i
            /\ Up(j, k) \in Of(g) \ {j} /\ Down(j, Up(j, k)) = k
        BY <1>3, <3>2, CutOf
      <4>2. Up(j, i) = Up(j, k)
        <5>1. CASE g = fd
          BY <1>5, <2>2, <4>1, <5>1
        <5>2. CASE g # fd
          BY <1>2, <2>2, <2>3, <4>1, <5>2
        <5> QED
          BY <5>1, <5>2
      <4> QED
        BY <4>1, <4>2
    <3> QED
      BY <3>1, <3>2
  <2>4. (Closing(g) <=> Closing(main.fd))' /\ (Of(g) = Of(main.fd))' /\ main'.fd = g
    BY <1>1 DEF Closing, Of, TableOf
  <2> QED
    BY <1>1, <2>2, <2>3, <2>4 DEF Cleaned
<1>11. Deleting'
  <2> SUFFICES ASSUME NEW f \in Fds, Closing(f)'
               PROVE  sock[f].conn # rd[TableOf(f)].ssn /\ (OldFirst(f)' \/ OldGone(f)')
    BY <1>1, <1>2 DEF Deleting, TableOf
  <2>1. /\ sock[f].conn # rd[TableOf(f)].ssn /\ (OldFirst(f) \/ OldGone(f))
        /\ rd'[TableOf(f)] = rd[TableOf(f)] /\ (Cleaning(f)' <=> Cleaning(f)) /\ sock' = sock
        /\ TableOf(f) # t /\ TableOf(f)' = TableOf(f)
    BY <1>1, <1>2 DEF Sound, Deleting, TableOf
  <2>2. /\ Of(f)' = Of(f) /\ KeptOf(f)' = KeptOf(f) /\ KeptOf(f) \subseteq Of(f)
        /\ \A k \in Of(f) : Ssn(TableOf(f), k)' = Ssn(TableOf(f), k)
    BY <1>3, <2>1, CutOf
  <2>3. OldGone(f) => OldGone(f)'
    BY <2>1, <2>2 DEF OldGone
  <2>4. OldFirst(f) => OldFirst(f)'
    BY <2>1, <2>2 DEF OldFirst
  <2> QED
    BY <2>1, <2>3, <2>4
<1> QED
  BY <1>6, <1>7, <1>8, <1>9, <1>10, <1>11 DEF Sound

LEMMA DelClearSound ==
    ASSUME TypeInv, Sound, NEW t \in Tables, DelClear(t), broken' \subseteq {"count"} PROVE Sound'
<1> DEFINE k == FirstOrNone({j \in Seen(t) : SlotFd(t, j) = rd[t].fd})
<1>0. rd[t].fd \in Fds /\ rd[t].fd # -1
  BY ReaderRests, SizeAssumption
<1>1. CASE k = -1
  <2>1. tab' = tab
    BY <1>1, Zenon DEF DelClear
  <2>2. \A j \in Seen(t) : SlotFd(t, j) # rd[t].fd
    BY <1>1, DelFound
  <2>3. \A j \in Slots : SlotFd(t, j) # rd[t].fd
    BY <1>0, <2>2, SeenInUse
  <2> QED
    BY <2>1, <2>3, DelNothingSound
<1>2. CASE k # -1
  <2>1. /\ k \in Slots /\ k \in Seen(t) /\ SlotFd(t, k) = rd[t].fd
        /\ \A j \in Seen(t) : SlotFd(t, j) = rd[t].fd => k <= j
    BY <1>2, DelFound
  <2>2. /\ tab' = CommClearFd(Uncounted(t, k), t, k)
        /\ broken' = broken \cup ClearHazard(t, k)
                             \cup (IF main.at \in {"fd", "rest"} /\ main.t = t
                                   THEN {"overlap"} ELSE {})
                             \cup (IF tab[t].conn[k].ssn # rd[t].ssn THEN {"reuse"} ELSE {})
                             \cup (IF k # t /\ Uncounted(t, k) # tab THEN {"count"} ELSE {})
    BY <1>2, Zenon DEF DelClear
  <2> HIDE DEF k
  <2>3. \A j \in Slots : SlotFd(t, j) = rd[t].fd => k <= j
    BY <1>0, <2>1, SeenInUse
  <2>4. ClearHazard(t, k) = {} /\ ~(main.at \in {"fd", "rest"} /\ main.t = t)
        /\ tab[t].conn[k].ssn = rd[t].ssn
    <3>1. ClearHazard(t, k) \subseteq {"overrun"}
      BY HazardKinds
    <3> QED
      BY <2>2, <3>1
  <2>5. Uncounted(t, k) \in Tabs /\ \A u \in Tables : Uncounted(t, k)[u].conn = tab[u].conn
    <3>1. Uncounted(t, k) \in Tabs
      BY <2>1, UncountedType DEF TypeInv
    <3>2. \/ Uncounted(t, k) = tab
          \/ k \in Tables /\ Uncounted(t, k) = [tab EXCEPT ![k].num = @ - 1]
      BY DEF Uncounted
    <3>3. tab \in Tabs
      BY DEF TypeInv, CommType
    <3> QED
      BY <3>1, <3>2, <3>3 DEF Tabs
  <2>6. Shifted(t, k)
    BY <1>0, <2>1, <2>2, <2>4, <2>5, ClearShifts
  <2> QED
    BY <2>1, <2>3, <2>4, <2>6, DelSlotSound DEF Ssn
<1> QED
  BY <1>1, <1>2

-----------------------------------------------------------------------------
(***************************************************************************)
(* The tables and the sockets agree.                                       *)
(***************************************************************************)

LEMMA InitSound == Init => Sound
<1> SUFFICES ASSUME Init PROVE Sound
  OBVIOUS
<1>1. \A t \in Tables : \A k \in Slots : tab[t].conn[k] = NoSlot
  BY DEF Init
<1>2. \A t \in Tables : \A k \in Slots : SlotFd(t, k) = -1 /\ tab[t].conn[k].st = -1
  BY <1>1 DEF SlotFd, NoSlot
<1>3. main.at = "wait" /\ (\A t \in Tables : rd[t].at = "idle") /\ \A fd \in Fds : sock[fd].conn = -1
  BY DEF Init, Waiting, Resting, Closed
<1>4. \A fd \in Fds : Of(fd) = {} /\ KeptOf(fd) = {} /\ ~Closing(fd)
  BY <1>2, <1>3, TableOfType, SizeAssumption DEF Of, KeptOf, Closing
<1>5. Packed /\ Homed /\ Numbered
  BY <1>2, <1>3 DEF Packed, Homed, Numbered, Kept, FD_STAT_POLL
<1>6. Accepting /\ Recorded /\ Current /\ Cleaned /\ Deleting
  BY <1>3, <1>4 DEF Accepting, Recorded, Current, Cleaned, Deleting
<1> QED
  BY <1>5, <1>6 DEF Sound

\* What has struck is not forgotten.
LEMMA BrokenGrows == ASSUME Next PROVE broken \subseteq broken'
<1>1. CASE Clients
  BY <1>1 DEF Clients, Connect, Expire, SendRequest, HangUp
<1>2. CASE MainStep
  BY <1>2 DEF MainStep, epoll_wait, new_accept, StoreFd, StoreRest, PollIn, EventsDone, CleanNext,
              CleanClear
<1>3. CASE Writer
  BY <1>3 DEF Writer, WriteSocket, Look
<1>4. ASSUME NEW t \in Tables, Reader(t) PROVE broken \subseteq broken'
  <2>1. CASE Pick(t)
    BY <2>1 DEF Pick
  <2>2. CASE RcvTxnMsg(t) \/ Call(t) \/ DelClose(t)
    BY <2>2 DEF RcvTxnMsg, Call, DelClose
  <2>3. CASE DelClear(t)
    BY <2>3 DEF DelClear
  <2> QED
    BY <1>4, <2>1, <2>2, <2>3 DEF Reader
<1> QED
  BY <1>1, <1>2, <1>3, <1>4 DEF Next

LEMMA NextSound == TypeInv /\ TableInv /\ [Next]_vars => TableInv'
<1> SUFFICES ASSUME TypeInv, TableInv, [Next]_vars, broken' \subseteq {"count"} PROVE Sound'
  BY DEF TableInv
<1>1. CASE UNCHANGED vars
  <2>1. Sound
    BY <1>1 DEF TableInv, vars
  <2>2. SameMain /\ SameConns /\ UNCHANGED <<tab, gssn, rd>>
    BY <1>1 DEF vars, SameMain, SameConns
  <2> QED
    BY <2>1, <2>2, UntouchedSound
<1>2. CASE Next
  <2>1. Sound
    BY <1>2, BrokenGrows DEF TableInv
  <2>2. CASE Clients \/ Writer
    BY <2>1, <2>2, ClientsSound, WriterSound
  <2>3. CASE MainStep
    BY <2>1, <2>3, WaitSound, AcceptSound, StoreFdSound, StoreRestSound, PollSound, CleanNextSound,
       CleanClearSound DEF MainStep
  <2>4. ASSUME NEW t \in Tables, Reader(t) PROVE Sound'
    BY <2>1, <2>4, ReadSound, DelCloseSound, DelClearSound DEF Reader
  <2> QED
    BY <1>2, <2>2, <2>3, <2>4 DEF Next
<1> QED
  BY <1>1, <1>2

\* For any number of tables, slots, descriptors and connections, and whatever
\* the threads do without the lock: until a slot is cleared under the main
\* thread's hands, CommClearFd moves the wrong records or a reader closes or
\* clears what is another's, every open connection is in its table once, with
\* its number and where the scans see it, and every slot they see is open.
THEOREM TablesAgree == Spec => []Registered
<1>1. Init => TableInv
  BY InitSound DEF TableInv
<1>2. TypeInv /\ TableInv => Registered
  <2> SUFFICES ASSUME TypeInv, Sound
               PROVE  /\ \A fd \in Fds : sock[fd].conn # -1 /\ ~InTransit(fd) =>
                           \E k \in Seen(TableOf(fd)) :
                              /\ tab[TableOf(fd)].conn[k].fd = fd
                              /\ tab[TableOf(fd)].conn[k].ssn = sock[fd].conn
                              /\ \A j \in Slots \ {k} : SlotFd(TableOf(fd), j) # fd
                      /\ \A t \in Tables : \A k \in Seen(t) :
                           sock[SlotFd(t, k)].conn # -1 \/ InTransit(SlotFd(t, k))
    BY DEF TableInv, Registered
  <2>0. ASSUME NEW fd \in Fds, ~InTransit(fd)
        PROVE  ~Storing(fd) /\ ~Closing(fd) /\ ~Cleaning(fd) /\ KeptOf(fd) = Of(fd)
    <3>1. ~Storing(fd) /\ ~Closing(fd) /\ ~Cleaning(fd)
      BY <2>0, TableOfType DEF InTransit, Storing, Closing, Cleaning
    <3>2. ASSUME NEW k \in Of(fd) PROVE Kept(TableOf(fd), k)
      <4>1. k \in Slots /\ SlotFd(TableOf(fd), k) = fd /\ fd # -1
        BY SizeAssumption DEF Of
      <4>2. main.at = "rest" /\ main.t = TableOf(fd) /\ main.pos = k => main.fd = fd
        BY <4>1 DEF Sound, Accepting
      <4> QED
        BY <3>1, <4>1, <4>2 DEF Kept, Storing
    <3> QED
      BY <3>1, <3>2 DEF KeptOf
  <2>1. ASSUME NEW fd \in Fds, sock[fd].conn # -1, ~InTransit(fd)
        PROVE  \E k \in Seen(TableOf(fd)) :
                  /\ tab[TableOf(fd)].conn[k].fd = fd
                  /\ tab[TableOf(fd)].conn[k].ssn = sock[fd].conn
                  /\ \A j \in Slots \ {k} : SlotFd(TableOf(fd), j) # fd
    <3>1. ~Storing(fd) /\ ~Closing(fd) /\ ~Cleaning(fd) /\ KeptOf(fd) = Of(fd)
      BY <2>0, <2>1
    <3>2. PICK k \in KeptOf(fd) : Ssn(TableOf(fd), k) = sock[fd].conn
      BY <2>1, <3>1 DEF Sound, Recorded
    <3>3. k \in Slots /\ SlotFd(TableOf(fd), k) = fd /\ fd # -1 /\ TableOf(fd) \in Tables
      BY TableOfType, SizeAssumption DEF KeptOf, Of
    <3>4. k \in Seen(TableOf(fd))
      BY <3>3, SeenInUse
    <3>5. ASSUME NEW j \in Slots \ {k}, SlotFd(TableOf(fd), j) = fd PROVE FALSE
      <4>1. j \in KeptOf(fd)
        BY <3>1, <3>5 DEF Of
      <4>2. Ssn(TableOf(fd), j) = sock[fd].conn
        BY <3>1, <4>1 DEF Sound, Current
      <4>3. Kept(TableOf(fd), j) /\ Kept(TableOf(fd), k)
        BY <4>1 DEF KeptOf
      <4> QED
        BY <3>2, <3>3, <4>2, <4>3 DEF Sound, Numbered
    <3> QED
      BY <3>2, <3>3, <3>4, <3>5 DEF SlotFd, Ssn
  <2>2. ASSUME NEW t \in Tables, NEW k \in Seen(t)
        PROVE  sock[SlotFd(t, k)].conn # -1 \/ InTransit(SlotFd(t, k))
    <3>1. k \in Slots
      BY DEF Seen
    <3>2. SlotFd(t, k) \in Fds /\ SlotFd(t, k) # -1
      BY <3>1, SlotFdType, SeenInUse DEF TypeInv
    <3> PICK fd \in Fds : fd = SlotFd(t, k)
      BY <3>2
    <3>3. TableOf(fd) = t /\ k \in Of(fd)
      BY <3>1, <3>2 DEF Sound, Homed, Of
    <3>4. ~InTransit(fd) => Ssn(t, k) = sock[fd].conn /\ k \in KeptOf(fd)
      BY <2>0, <3>3 DEF Sound, Current
    <3>5. k \in KeptOf(fd) => Ssn(t, k) # -1
      BY <3>3, KeptNumber DEF TypeInv, CommType
    <3> QED
      BY <3>4, <3>5
  <2> QED
    BY <2>1, <2>2
<1> QED
  BY <1>1, <1>2, NextSound, Typed, PTL DEF Spec

=============================================================================
