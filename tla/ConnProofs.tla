------------------------------- MODULE ConnProofs ---------------------------
(***************************************************************************)
(* Proofs about the two gateways.  C001, one child per connection: whose   *)
(* answer a client gets, which zombies stay and that each open connection  *)
(* has its child, for any number of clients and pids.  C002, one link: the *)
(* order of the requests put on the bus and the end of the children, for   *)
(* any number of messages and of children that die or are stopped.         *)
(***************************************************************************)
EXTENDS ShortConn, LongConn, SequenceTheorems, FiniteSetTheorems, WellFoundedInduction, TLAPS

-----------------------------------------------------------------------------
(***************************************************************************)
(* C001.                                                                   *)
(***************************************************************************)

ConnRec == [st : {"out", "queued", "open", "closed"}, sent : BOOLEAN, hung : BOOLEAN,
            got : Clients \cup {None}, by : Pids \cup {None}]
KidRec  == [st : {"none", "rcv", "wait", "write", "zombie"}, for : Clients \cup {None},
            rep : Clients \cup {None}]
Msg     == [type : Pids, for : Clients]

ShortType ==
    /\ conn \in [Clients -> ConnRec]
    /\ kid \in [Pids -> KidRec]
    /\ reqs \subseteq Msg
    /\ rsps \in Seq(Msg)
    /\ merged \in Nat

\* A child at work has an open connection, which no other child has.
Served ==
    /\ \A p \in Pids : kid[p].st \in Active => kid[p].for \in Clients /\ conn[kid[p].for].st = "open"
    /\ \A p, q \in Pids : kid[p].st \in Active /\ kid[q].st \in Active /\ kid[p].for = kid[q].for => p = q
    /\ \A k \in Clients : conn[k].st = "open" => \E p \in Pids : kid[p].st \in Active /\ kid[p].for = k

\* A message on the bus belongs to the child that waits for it.
Owned(m) == m.type \in stale \/ (kid[m.type].st = "wait" /\ kid[m.type].for = m.for)

\* Unless a child with its pid left one behind, a child has at most one message on
\* the bus, its own, and writes the reply to it.
Replied ==
    /\ \A m \in reqs : Owned(m)
    /\ \A i \in 1..Len(rsps) : Owned(rsps[i])
    /\ \A m \in reqs : \A i \in 1..Len(rsps) : m.type = rsps[i].type => m.type \in stale
    /\ \A i, j \in 1..Len(rsps) : i # j /\ rsps[i].type = rsps[j].type => rsps[i].type \in stale
    /\ \A p \in Pids : kid[p].st = "write" => p \in stale \/ kid[p].rep = kid[p].for

ShortInv == ShortType /\ Served /\ Replied /\ OwnAnswer /\ Waited

-----------------------------------------------------------------------------
(***************************************************************************)
(* Sets of children and queues of replies.                                 *)
(***************************************************************************)

Zombies == {p \in Pids : kid[p].st = "zombie"}
Pending == IF sigcld THEN 1 ELSE 0

\* The sets of children are finite.
LEMMA ZombiesFinite == IsFiniteSet(Zombies) /\ Cardinality(Zombies) \in Nat
<1>1. Zombies \subseteq Pids
  BY DEF Zombies
<1> QED BY <1>1, PidsAssumption, FS_Subset, FS_CardinalityType

\* Steps after which there are the same zombies keep the bound.
LEMMA SameZombies ==
    ASSUME Waited, UNCHANGED <<sigcld, merged>>,
           \A p \in Pids : kid'[p].st = "zombie" <=> kid[p].st = "zombie"
    PROVE  Waited'
<1>1. {p \in Pids : kid'[p].st = "zombie"} = {p \in Pids : kid[p].st = "zombie"}
  OBVIOUS
<1> QED BY <1>1 DEF Waited

\* The queue without the message that msgrcv takes.
LEMMA RemovedFacts ==
    ASSUME NEW s \in Seq(Msg), NEW i \in 1..Len(s),
           NEW u, u = SubSeq(s, 1, i - 1) \o SubSeq(s, i + 1, Len(s))
    PROVE  /\ u \in Seq(Msg) /\ Len(u) = Len(s) - 1
           /\ \A j \in 1..Len(u) : u[j] = s[IF j < i THEN j ELSE j + 1]
<1> DEFINE a == SubSeq(s, 1, i - 1)
           b == SubSeq(s, i + 1, Len(s))
<1>0. Len(s) \in Nat /\ i \in Nat
  OBVIOUS
<1>1. a \in Seq(Msg) /\ Len(a) = i - 1 /\ \A j \in 1..(i - 1) : a[j] = s[j]
  BY <1>0, SubSeqProperties
<1>2. b \in Seq(Msg) /\ Len(b) = Len(s) - i /\ \A j \in 1..(Len(s) - i) : b[j] = s[i + j]
  BY <1>0, SubSeqProperties
<1> HIDE DEF a, b
<1>3. /\ a \o b \in Seq(Msg) /\ Len(a \o b) = Len(a) + Len(b)
      /\ \A j \in 1..(Len(a) + Len(b)) : (a \o b)[j] = IF j <= Len(a) THEN a[j] ELSE b[j - Len(a)]
  BY <1>1, <1>2, ConcatProperties
<1>4. u = a \o b
  BY DEF a, b
<1>5. Len(u) = Len(s) - 1 /\ u \in Seq(Msg) /\ Len(a) + Len(b) = Len(u)
  <2>1. Len(u) = Len(a) + Len(b) /\ u \in Seq(Msg)
    BY <1>3, <1>4, Zenon
  <2>2. Len(a) + Len(b) = Len(s) - 1
    BY <1>0, <1>1, <1>2
  <2> QED BY <2>1, <2>2, Zenon
<1>6. ASSUME NEW j \in 1..Len(u) PROVE u[j] = s[IF j < i THEN j ELSE j + 1]
  <2>1. j \in 1..(Len(a) + Len(b)) /\ j \in Nat /\ j <= Len(s) - 1
    <3>1. j \in 1..(Len(s) - 1)
      BY <1>5, Zenon
    <3>2. 1..(Len(a) + Len(b)) = 1..(Len(s) - 1)
      BY <1>5, Zenon
    <3> QED BY <1>0, <3>1, <3>2
  <2>2. CASE j < i
    <3>1. u[j] = IF j <= Len(a) THEN a[j] ELSE b[j - Len(a)]
      BY <1>3, <1>4, <2>1
    <3>2. j <= i - 1 /\ j \in 1..(i - 1)
      BY <1>0, <2>1, <2>2
    <3> QED BY <1>1, <2>2, <3>1, <3>2
  <2>3. CASE ~(j < i)
    <3>1. j - (i - 1) \in 1..(Len(s) - i) /\ i + (j - (i - 1)) = j + 1
      BY <1>0, <2>1, <2>3
    <3>2. u[j] = IF j <= Len(a) THEN a[j] ELSE b[j - Len(a)]
      BY <1>3, <1>4, <2>1
    <3>3. ~(j <= i - 1)
      BY <1>0, <2>1, <2>3
    <3>4. u[j] = b[j - (i - 1)]
      BY <1>1, <3>2, <3>3
    <3> QED BY <1>2, <2>3, <3>1, <3>4
  <2> QED BY <2>2, <2>3
<1> QED BY <1>5, <1>6

-----------------------------------------------------------------------------
(***************************************************************************)
(* The steps.                                                              *)
(***************************************************************************)

\* Nobody is connected and nothing on the bus.
LEMMA ShortStart == ShortInit => ShortInv
<1> SUFFICES ASSUME ShortInit PROVE ShortInv
  OBVIOUS
<1>1. NoConn \in ConnRec /\ NoKid \in KidRec
  BY DEF NoConn, NoKid, ConnRec, KidRec
<1>2. \A k \in Clients : conn[k].st = "out" /\ conn[k].got = None
  BY DEF ShortInit, NoConn
<1>3. \A p \in Pids : kid[p].st = "none"
  BY DEF ShortInit, NoKid
<1>4. reqs = {} /\ rsps = <<>> /\ Len(rsps) = 0 /\ merged = 0 /\ merged \in Nat
  BY DEF ShortInit
<1>5. ShortType
  BY <1>1, <1>4 DEF ShortInit, ShortType
<1>6. Served /\ Replied /\ OwnAnswer
  BY <1>2, <1>3, <1>4 DEF Served, Replied, OwnAnswer, Active
<1>7. Waited
  <2>1. {p \in Pids : kid[p].st = "zombie"} = {}
    BY <1>3
  <2>2. Cardinality({}) = 0
    BY FS_EmptySet
  <2>3. sigcld = FALSE
    BY DEF ShortInit
  <2>4. Cardinality({p \in Pids : kid[p].st = "zombie"}) = 0
    BY <2>1, <2>2, Zenon
  <2>5. Waited <=> 0 <= 0 + 0
    BY <1>4, <2>3, <2>4, Zenon DEF Waited
  <2> QED BY <2>5
<1> QED BY <1>5, <1>6, <1>7 DEF ShortInv

\* What a client does to its connection while no child has it, or without closing it.
LEMMA ClientKeeps ==
    ASSUME ShortInv, NEW k \in Clients, Connect(k) \/ SendRequest(k) \/ HangUp(k) \/ ForkFails(k)
    PROVE  ShortInv'
<1>0. conn \in [Clients -> ConnRec] /\ conn[k] \in ConnRec
  BY DEF ShortInv, ShortType
<1>1. UNCHANGED <<kid, reqs, rsps, merged, sigcld, stale>>
  BY DEF Connect, SendRequest, HangUp, ForkFails
<1>2. ASSUME NEW c \in ConnRec, conn' = [conn EXCEPT ![k] = c],
             c.st = "open" <=> conn[k].st = "open", c.got = conn[k].got, c.by = conn[k].by
      PROVE  /\ conn' \in [Clients -> ConnRec]
             /\ \A j \in Clients : /\ conn'[j].st = "open" <=> conn[j].st = "open"
                                   /\ conn'[j].got = conn[j].got /\ conn'[j].by = conn[j].by
  BY <1>0, <1>2
<1>3. /\ conn' \in [Clients -> ConnRec]
      /\ \A j \in Clients : /\ conn'[j].st = "open" <=> conn[j].st = "open"
                            /\ conn'[j].got = conn[j].got /\ conn'[j].by = conn[j].by
  <2>1. CASE Connect(k) \/ ForkFails(k)
    <3>1. PICK st \in {"queued", "closed"} :
            conn' = [conn EXCEPT ![k] = [conn[k] EXCEPT !.st = st]] /\ conn[k].st \in {"out", "queued"}
      BY <2>1 DEF Connect, ForkFails
    <3> DEFINE c == [conn[k] EXCEPT !.st = st]
    <3>2. c \in ConnRec /\ c.st = st /\ c.got = conn[k].got /\ c.by = conn[k].by
      BY <1>0 DEF ConnRec
    <3>3. conn' = [conn EXCEPT ![k] = c]
      BY <3>1
    <3> HIDE DEF c
    <3> QED BY <1>2, <3>1, <3>2, <3>3
  <2>2. CASE SendRequest(k)
    <3> DEFINE c == [conn[k] EXCEPT !.sent = TRUE]
    <3>1. conn' = [conn EXCEPT ![k] = c]
      BY <2>2 DEF SendRequest
    <3>2. c \in ConnRec /\ c.st = conn[k].st /\ c.got = conn[k].got /\ c.by = conn[k].by
      BY <1>0 DEF ConnRec
    <3> HIDE DEF c
    <3> QED BY <1>2, <3>1, <3>2
  <2>3. CASE HangUp(k)
    <3> DEFINE c == [conn[k] EXCEPT !.hung = TRUE]
    <3>1. conn' = [conn EXCEPT ![k] = c]
      BY <2>3 DEF HangUp
    <3>2. c \in ConnRec /\ c.st = conn[k].st /\ c.got = conn[k].got /\ c.by = conn[k].by
      BY <1>0 DEF ConnRec
    <3> HIDE DEF c
    <3> QED BY <1>2, <3>1, <3>2
  <2> QED BY <2>1, <2>2, <2>3
<1>4. ShortType'
  BY <1>1, <1>3 DEF ShortInv, ShortType
<1>5. Served' /\ OwnAnswer'
  BY <1>1, <1>3 DEF ShortInv, Served, OwnAnswer
<1>6. Replied' /\ Waited'
  BY <1>1 DEF ShortInv, Replied, Owned, Waited
<1> QED BY <1>4, <1>5, <1>6 DEF ShortInv

\* The server replies: the message moves from the requests to the replies.
LEMMA ReplyKeeps == ASSUME ShortInv, NEW r \in reqs, ServerReplies(r) PROVE ShortInv'
<1>0. ShortType /\ Replied /\ r \in Msg
  BY DEF ShortInv, ShortType
<1>1. /\ reqs' = reqs \ {r} /\ rsps' = Append(rsps, r)
      /\ UNCHANGED <<conn, kid, sigcld, merged, stale>>
  BY DEF ServerReplies
<1>2. /\ rsps' \in Seq(Msg) /\ Len(rsps') = Len(rsps) + 1 /\ Len(rsps) \in Nat
      /\ \A i \in 1..Len(rsps) : rsps'[i] = rsps[i]
      /\ rsps'[Len(rsps) + 1] = r
  BY <1>0, <1>1, AppendProperties DEF ShortType
<1>3. ShortType'
  BY <1>0, <1>1, <1>2 DEF ShortType
<1>4. \A i \in 1..Len(rsps') : (i \in 1..Len(rsps) /\ rsps'[i] = rsps[i]) \/ (i = Len(rsps) + 1 /\ rsps'[i] = r)
  BY <1>2
<1>5. \A m : Owned(m)' <=> Owned(m)
  BY <1>1 DEF Owned
<1>6. Replied'
  <2>1. /\ \A m \in reqs' : Owned(m)
        /\ \A i \in 1..Len(rsps') : Owned(rsps'[i])
    BY <1>0, <1>1, <1>4 DEF Replied
  <2>2. ASSUME NEW m \in reqs', NEW i \in 1..Len(rsps'), m.type = rsps'[i].type
        PROVE  m.type \in stale
    <3>1. CASE i \in 1..Len(rsps)
      BY <1>0, <1>1, <1>2, <2>2, <3>1 DEF Replied
    <3>2. CASE rsps'[i] = r
      <4>1. m # r /\ m \in Msg /\ Owned(m) /\ Owned(r)
        BY <1>0, <1>1 DEF Replied, ShortType
      <4>2. m.for = r.for => m = r
        BY <1>0, <2>2, <3>2, <4>1 DEF Msg
      <4> QED BY <2>2, <3>2, <4>1, <4>2 DEF Owned
    <3> QED BY <1>4, <3>1, <3>2
  <2>3. ASSUME NEW i \in 1..Len(rsps'), NEW j \in 1..Len(rsps'), i # j, rsps'[i].type = rsps'[j].type
        PROVE  rsps'[i].type \in stale
    <3>1. CASE i \in 1..Len(rsps) /\ j \in 1..Len(rsps)
      BY <1>0, <1>2, <2>3, <3>1 DEF Replied
    <3>2. CASE i \notin 1..Len(rsps) \/ j \notin 1..Len(rsps)
      BY <1>0, <1>4, <2>3, <3>2 DEF Replied
    <3> QED BY <3>1, <3>2
  <2> QED BY <1>0, <1>1, <1>5, <2>1, <2>2, <2>3 DEF Replied
<1>7. Served' /\ OwnAnswer' /\ Waited'
  BY <1>1 DEF ShortInv, Served, OwnAnswer, Waited
<1> QED BY <1>3, <1>6, <1>7 DEF ShortInv

\* A child is forked for a connection that waits.
LEMMA ForkKeeps == ASSUME ShortInv, NEW k \in Clients, NEW p \in Pids, Fork(k, p) PROVE ShortInv'
<1> DEFINE n == [NoKid EXCEPT !.st = "rcv", !.for = k]
           c == [conn[k] EXCEPT !.st = "open"]
<1>0. ShortType /\ Served /\ Replied /\ OwnAnswer /\ conn[k] \in ConnRec
  BY DEF ShortInv, ShortType
<1>1. n \in KidRec /\ n.st = "rcv" /\ n.for = k
  BY DEF NoKid, KidRec
<1>2. c \in ConnRec /\ c.st = "open" /\ c.got = conn[k].got /\ c.by = conn[k].by
  BY <1>0 DEF ConnRec
<1>3. /\ conn[k].st = "queued" /\ kid[p].st = "none"
      /\ kid' = [kid EXCEPT ![p] = n] /\ conn' = [conn EXCEPT ![k] = c]
      /\ UNCHANGED <<sigcld, reqs, rsps, merged, stale>>
  BY DEF Fork
<1> HIDE DEF n, c
<1>4. /\ kid' \in [Pids -> KidRec] /\ kid'[p] = n /\ \A q \in Pids : q # p => kid'[q] = kid[q]
      /\ conn' \in [Clients -> ConnRec] /\ conn'[k] = c /\ \A j \in Clients : j # k => conn'[j] = conn[j]
  BY <1>0, <1>1, <1>2, <1>3 DEF ShortType
<1>5. ShortType'
  BY <1>0, <1>3, <1>4 DEF ShortType
<1>6. Served'
  BY <1>0, <1>1, <1>2, <1>3, <1>4 DEF Served, Active
<1>7. \A m \in Msg : Owned(m) => Owned(m)'
  BY <1>3, <1>4 DEF Owned, Msg
<1>8. \A i \in 1..Len(rsps) : rsps[i] \in Msg
  BY <1>0, ElementOfSeq DEF ShortType
<1>9. Replied'
  BY <1>0, <1>1, <1>3, <1>4, <1>7, <1>8 DEF Replied, ShortType
<1>10. OwnAnswer'
  BY <1>0, <1>2, <1>3, <1>4 DEF OwnAnswer
<1>11. Waited'
  BY <1>1, <1>3, <1>4, SameZombies DEF ShortInv
<1> QED BY <1>5, <1>6, <1>9, <1>10, <1>11 DEF ShortInv

\* The child sends its request: it is the only message of a pid without leftovers.
LEMMA ShortSendKeeps == ASSUME ShortInv, NEW p \in Pids, RcvRequest(p) PROVE ShortInv'
<1> DEFINE k == kid[p].for
           n == [kid[p] EXCEPT !.st = "wait"]
<1>0. ShortType /\ Served /\ Replied /\ kid[p] \in KidRec
  BY DEF ShortInv, ShortType
<1>a. PICK m : m = [type |-> p, for |-> k]
  OBVIOUS
<1>1. /\ kid[p].st = "rcv" /\ reqs' = reqs \cup {m} /\ kid' = [kid EXCEPT ![p] = n]
      /\ UNCHANGED <<conn, sigcld, rsps, merged, stale>>
  BY <1>a DEF RcvRequest, ReplyType
<1>2. n \in KidRec /\ n.st = "wait" /\ n.for = k
  BY <1>0 DEF KidRec
<1>3. k \in Clients /\ m \in Msg /\ m.type = p /\ m.for = k
  BY <1>0, <1>1, <1>a DEF Served, Active, Msg
<1> HIDE DEF n
<1>4. kid' \in [Pids -> KidRec] /\ kid'[p] = n /\ \A q \in Pids : q # p => kid'[q] = kid[q]
  BY <1>0, <1>1, <1>2 DEF ShortType
<1>5. ShortType'
  BY <1>0, <1>1, <1>3, <1>4 DEF ShortType
<1>6. Served'
  BY <1>0, <1>1, <1>2, <1>4 DEF Served, Active
<1>7. /\ \A x \in Msg : Owned(x) => Owned(x)'
      /\ \A x \in Msg : Owned(x) /\ x.type = p => p \in stale
      /\ Owned(m)'
  BY <1>1, <1>2, <1>3, <1>4 DEF Owned, Msg
<1>8. \A i \in 1..Len(rsps) : rsps[i] \in Msg
  BY <1>0, ElementOfSeq DEF ShortType
<1>9. Replied'
  <2>1. /\ \A x \in reqs' : Owned(x)'
        /\ \A i \in 1..Len(rsps') : Owned(rsps[i])'
    BY <1>0, <1>1, <1>7, <1>8 DEF Replied, ShortType
  <2>2. \A x \in reqs' : \A i \in 1..Len(rsps) : x.type = rsps[i].type => x.type \in stale
    BY <1>0, <1>1, <1>3, <1>7, <1>8 DEF Replied
  <2>3. \A q \in Pids : kid'[q].st = "write" => q \in stale \/ kid'[q].rep = kid'[q].for
    BY <1>0, <1>2, <1>4 DEF Replied
  <2> QED BY <1>0, <1>1, <2>1, <2>2, <2>3 DEF Replied
<1>10. OwnAnswer'
  BY <1>1 DEF ShortInv, OwnAnswer
<1>11. Waited'
  BY <1>1, <1>2, <1>4, SameZombies DEF ShortInv
<1> QED BY <1>5, <1>6, <1>9, <1>10, <1>11 DEF ShortInv

\* msgrcv returns a message of the child's type.
LEMMA MineFacts ==
    ASSUME ShortType, NEW p \in Pids, GetReply(p)
    PROVE  \E i \in 1..Len(rsps) :
             /\ rsps[i].type = p
             /\ kid' = [kid EXCEPT ![p] = [[kid[p] EXCEPT !.st = "write"] EXCEPT !.rep = rsps[i].for]]
             /\ rsps' = SubSeq(rsps, 1, i - 1) \o SubSeq(rsps, i + 1, Len(rsps))
<1> DEFINE mine == {i \in DOMAIN rsps : rsps[i].type = ReplyType(p)}
           i == CHOOSE i \in mine : \A j \in mine : i <= j
           Less == {ss \in Nat \X Nat : ss[1] < ss[2]}
<1>1. /\ mine # {}
      /\ kid' = [kid EXCEPT ![p].st = "write", ![p].rep = rsps[i].for]
      /\ rsps' = SubSeq(rsps, 1, i - 1) \o SubSeq(rsps, i + 1, Len(rsps))
  BY DEF GetReply
<1>2. DOMAIN rsps = 1..Len(rsps) /\ Len(rsps) \in Nat /\ mine \subseteq Nat
  BY DEF ShortType
<1>3. IsWellFoundedOn(Less, Nat)
  BY NatLessThanWellFounded, Zenon DEF OpToRel
<1>4. PICK n \in mine : \A x \in mine : ~ (<<x, n>> \in Less)
  <2> HIDE DEF Less, mine
  <2> QED BY <1>1, <1>2, <1>3, WFMin, Zenon
<1>5. \A x \in mine : n <= x
  <2> TAKE x \in mine
  <2>1. x \in Nat /\ n \in Nat /\ ~ (<<x, n>> \in Less)
    BY <1>2, <1>4
  <2> QED BY <2>1
<1>6. i \in mine
  <2> HIDE DEF mine
  <2> QED BY <1>5
<1>7. i \in 1..Len(rsps) /\ rsps[i].type = p
  <2> HIDE DEF i
  <2> QED BY <1>2, <1>6 DEF ReplyType
<1> HIDE DEF i, mine
<1>8. kid' = [kid EXCEPT ![p] = [[kid[p] EXCEPT !.st = "write"] EXCEPT !.rep = rsps[i].for]]
  BY <1>1 DEF ShortType
<1> QED BY <1>1, <1>7, <1>8

\* The child takes its reply.
LEMMA GetKeeps == ASSUME ShortInv, NEW p \in Pids, GetReply(p) PROVE ShortInv'
<1>0. ShortType /\ Served /\ Replied /\ kid[p] \in KidRec
  BY DEF ShortInv, ShortType
<1>1. PICK i \in 1..Len(rsps) :
             /\ rsps[i].type = p
             /\ kid' = [kid EXCEPT ![p] = [[kid[p] EXCEPT !.st = "write"] EXCEPT !.rep = rsps[i].for]]
             /\ rsps' = SubSeq(rsps, 1, i - 1) \o SubSeq(rsps, i + 1, Len(rsps))
  BY <1>0, MineFacts
<1>2. kid[p].st = "wait" /\ UNCHANGED <<conn, sigcld, reqs, merged, stale>>
  BY DEF GetReply
<1> DEFINE n == [[kid[p] EXCEPT !.st = "write"] EXCEPT !.rep = rsps[i].for]
<1>3. \A j \in 1..Len(rsps) : rsps[j] \in Msg
  BY <1>0, ElementOfSeq DEF ShortType
<1>4. n \in KidRec /\ n.st = "write" /\ n.for = kid[p].for /\ n.rep = rsps[i].for
  <2> DEFINE a == [kid[p] EXCEPT !.st = "write"]
  <2>1. a \in KidRec /\ a.st = "write" /\ a.for = kid[p].for
    BY <1>0 DEF KidRec
  <2>2. rsps[i].for \in Clients
    BY <1>3 DEF Msg
  <2> HIDE DEF a
  <2>3. LET b == [a EXCEPT !.rep = rsps[i].for]
        IN  b \in KidRec /\ b.st = a.st /\ b.for = a.for /\ b.rep = rsps[i].for
    BY <2>1, <2>2 DEF KidRec
  <2> QED BY <2>1, <2>3 DEF a
<1>5. kid' = [kid EXCEPT ![p] = n]
  BY <1>1
<1> HIDE DEF n
<1>6. kid' \in [Pids -> KidRec] /\ kid'[p] = n /\ \A q \in Pids : q # p => kid'[q] = kid[q]
  BY <1>0, <1>4, <1>5 DEF ShortType
<1>7. /\ rsps' \in Seq(Msg) /\ Len(rsps') = Len(rsps) - 1 /\ Len(rsps) \in Nat
      /\ \A j \in 1..Len(rsps') : rsps'[j] = rsps[IF j < i THEN j ELSE j + 1]
  <2>1. rsps \in Seq(Msg) /\ Len(rsps) \in Nat
    BY <1>0 DEF ShortType
  <2> DEFINE u == rsps'
  <2>2. u = SubSeq(rsps, 1, i - 1) \o SubSeq(rsps, i + 1, Len(rsps))
    BY <1>1
  <2> HIDE DEF u
  <2>3. /\ u \in Seq(Msg) /\ Len(u) = Len(rsps) - 1
        /\ \A j \in 1..Len(u) : u[j] = rsps[IF j < i THEN j ELSE j + 1]
    BY <2>1, <2>2, RemovedFacts
  <2> QED BY <2>1, <2>3 DEF u
<1>8. ShortType'
  BY <1>0, <1>2, <1>6, <1>7 DEF ShortType
<1>9. Served'
  BY <1>0, <1>2, <1>4, <1>6 DEF Served, Active
<1> DEFINE at(j) == IF j < i THEN j ELSE j + 1
<1>10. \A j \in 1..Len(rsps') : at(j) \in 1..Len(rsps) /\ at(j) # i /\ rsps'[j] = rsps[at(j)]
  BY <1>7
<1>11. \A x, y \in 1..Len(rsps') : x # y => at(x) # at(y)
  BY <1>7
<1> HIDE DEF at
<1>12. \A x \in Msg : Owned(x) /\ (x.type = p => p \in stale) => Owned(x)'
  BY <1>2, <1>6 DEF Owned, Msg
<1>13. Replied'
  <2>1. \A x \in reqs : x \in Msg /\ Owned(x) /\ (x.type = p => p \in stale)
    BY <1>0, <1>1 DEF Replied, ShortType
  <2>2. \A j \in 1..Len(rsps') : LET x == rsps'[j] IN x \in Msg /\ Owned(x) /\ (x.type = p => p \in stale)
    BY <1>0, <1>1, <1>3, <1>10 DEF Replied
  <2>3. /\ \A x \in reqs' : Owned(x)'
        /\ \A j \in 1..Len(rsps') : Owned(rsps[j])'
    BY <1>2, <1>12, <2>1, <2>2
  <2>4. \A x \in reqs : \A j \in 1..Len(rsps') : x.type = rsps'[j].type => x.type \in stale
    BY <1>0, <1>10 DEF Replied
  <2>5. \A x, y \in 1..Len(rsps') : x # y /\ rsps'[x].type = rsps'[y].type => rsps'[x].type \in stale
    BY <1>0, <1>10, <1>11 DEF Replied
  <2>6. p \in stale \/ n.rep = n.for
    BY <1>0, <1>1, <1>4 DEF Replied, Owned
  <2>7. \A q \in Pids : kid'[q].st = "write" => q \in stale \/ kid'[q].rep = kid'[q].for
    BY <1>0, <1>6, <2>6 DEF Replied
  <2> QED BY <1>2, <2>3, <2>4, <2>5, <2>7 DEF Replied
<1>14. OwnAnswer'
  BY <1>2 DEF ShortInv, OwnAnswer
<1>15. Waited'
  BY <1>2, <1>4, <1>6, SameZombies DEF ShortInv
<1> QED BY <1>8, <1>9, <1>13, <1>14, <1>15 DEF ShortInv

\* A child closes its connection and exits.
LEMMA ExitKeeps ==
    ASSUME ShortInv, NEW p \in Pids, kid[p].st \in Active, NEW got, Exit(p, got),
           got = None \/ (kid[p].st = "write" /\ got = kid[p].rep),
           UNCHANGED <<reqs, rsps>>, stale \subseteq stale',
           kid[p].st = "wait" => p \in stale'
    PROVE  ShortInv'
<1>0. ShortType /\ Served /\ Replied /\ OwnAnswer /\ Waited /\ kid[p] \in KidRec
  BY DEF ShortInv, ShortType
<1>1. PICK k \in Clients : k = kid[p].for /\ conn[k].st = "open"
  BY <1>0 DEF Served
<1>2. conn[k] \in ConnRec /\ got \in Clients \cup {None}
  BY <1>0 DEF ShortType, KidRec
<1> DEFINE c == [st |-> "closed", sent |-> conn[k].sent, hung |-> conn[k].hung, got |-> got, by |-> p]
<1>3. c \in ConnRec
  BY <1>2 DEF ConnRec
<1>4. conn' = [conn EXCEPT ![k] = c]
  <2>1. conn' = [conn EXCEPT ![k].st = "closed", ![k].got = got, ![k].by = p]
    BY <1>1 DEF Exit
  <2>2. conn' = [conn EXCEPT ![k] = [[[conn[k] EXCEPT !.st = "closed"] EXCEPT !.got = got] EXCEPT !.by = p]]
    BY <1>0, <2>1 DEF ShortType
  <2>3. [[[conn[k] EXCEPT !.st = "closed"] EXCEPT !.got = got] EXCEPT !.by = p] = c
    <3> DEFINE r == [conn[k] EXCEPT !.st = "closed"]
               q == [r EXCEPT !.got = got]
    <3>1. r \in ConnRec /\ r.st = "closed" /\ r.sent = conn[k].sent /\ r.hung = conn[k].hung
      BY <1>2 DEF ConnRec
    <3>2. q \in ConnRec /\ q.st = r.st /\ q.sent = r.sent /\ q.hung = r.hung /\ q.got = got
      <4> HIDE DEF r
      <4> QED BY <1>2, <3>1 DEF ConnRec
    <3>3. [q EXCEPT !.by = p] = c
      <4> HIDE DEF q, r
      <4> QED BY <3>1, <3>2 DEF ConnRec
    <3> QED BY <3>3
  <2> QED BY <2>2, <2>3
<1>5. /\ c.st = "closed" /\ c.got = got /\ c.by = p
      /\ conn' \in [Clients -> ConnRec] /\ conn'[k] = c
      /\ \A j \in Clients : j # k => conn'[j] = conn[j]
  BY <1>0, <1>3, <1>4 DEF ShortType
<1> HIDE DEF c
<1> DEFINE n == IF parent = "up" THEN [NoKid EXCEPT !.st = "zombie"] ELSE NoKid
<1>6. n \in KidRec /\ n.st \in {"zombie", "none"} /\ (n.st = "zombie" <=> parent = "up")
  BY DEF NoKid, KidRec
<1>7. /\ kid' = [kid EXCEPT ![p] = n]
      /\ parent = "up" => sigcld' = TRUE /\ merged' = IF sigcld THEN merged + 1 ELSE merged
      /\ parent # "up" => UNCHANGED <<sigcld, merged>>
  BY DEF Exit
<1> HIDE DEF n
<1>8. kid' \in [Pids -> KidRec] /\ kid'[p] = n /\ \A q \in Pids : q # p => kid'[q] = kid[q]
  BY <1>0, <1>6, <1>7 DEF ShortType
<1>9. ShortType'
  <2>1. merged' \in Nat
    BY <1>0, <1>7 DEF ShortType
  <2> QED BY <1>0, <1>5, <1>8, <2>1 DEF ShortType
<1>10. Served'
  <2>1. \A q \in Pids : kid'[q].st \in Active => q # p /\ kid'[q] = kid[q] /\ kid[q].for # k
    BY <1>0, <1>1, <1>6, <1>8 DEF Served, Active
  <2>2. \A j \in Clients : conn'[j].st = "open" => j # k /\ conn[j].st = "open"
    BY <1>5
  <2>3. \A j \in Clients : conn'[j].st = "open" =>
           \E q \in Pids : kid'[q].st \in Active /\ kid'[q].for = j
    BY <1>0, <1>1, <1>8, <2>2 DEF Served
  <2> QED BY <1>0, <1>5, <2>1, <2>3 DEF Served
<1>11. Replied'
  <2>1. \A x \in Msg : Owned(x) => Owned(x)'
    BY <1>8 DEF Owned, Msg
  <2>2. \A i \in 1..Len(rsps) : rsps[i] \in Msg
    BY <1>0, ElementOfSeq DEF ShortType
  <2>3. /\ \A x \in reqs' : Owned(x)'
        /\ \A i \in 1..Len(rsps') : Owned(rsps[i])'
    BY <1>0, <2>1, <2>2 DEF Replied, ShortType
  <2>4. \A q \in Pids : kid'[q].st = "write" => q \in stale' \/ kid'[q].rep = kid'[q].for
    BY <1>0, <1>6, <1>8 DEF Replied
  <2> QED BY <1>0, <2>3, <2>4 DEF Replied
<1>12. OwnAnswer'
  <2>1. got = None \/ p \in stale' \/ got = k
    BY <1>0, <1>1 DEF Replied
  <2> QED BY <1>0, <1>5, <2>1 DEF OwnAnswer
<1>13. Waited'
  <2>1. CASE parent # "up"
    BY <1>0, <1>6, <1>7, <1>8, <2>1, SameZombies DEF Active
  <2>2. CASE parent = "up"
    <3> DEFINE Z == Zombies
               c1 == Cardinality(Z)
    <3>1. Zombies' = Z \cup {p} /\ p \notin Z
      BY <1>6, <1>8, <2>2 DEF Zombies, Active
    <3>2. IsFiniteSet(Z) /\ c1 \in Nat
      BY ZombiesFinite
    <3> HIDE DEF Z
    <3>3. Cardinality(Z \cup {p}) = c1 + 1
      BY <3>1, <3>2, FS_AddElement
    <3>4. Cardinality(Zombies') = c1 + 1
      BY <3>1, <3>3, Zenon
    <3>5. c1 <= Pending + merged /\ merged \in Nat
      BY <1>0 DEF Waited, Z, Zombies, Pending, ShortType
    <3> HIDE DEF c1
    <3>6. Pending' = 1 /\ merged' = Pending + merged
      BY <1>7, <2>2, <3>5 DEF Pending
    <3>7. Pending \in Nat
      BY DEF Pending
    <3>8. c1 + 1 <= Pending' + merged'
      BY <3>2, <3>5, <3>6, <3>7
    <3>9. Cardinality(Zombies') <= Pending' + merged'
      BY <3>4, <3>8, Zenon
    <3> QED BY <3>9 DEF Waited, Zombies, Pending
  <2> QED BY <2>1, <2>2
<1> QED BY <1>9, <1>10, <1>11, <1>12, <1>13 DEF ShortInv

\* Zombies that are waited for, or left to init: they have no messages.
LEMMA CleanedKeeps ==
    ASSUME ShortInv, NEW Z, Z \subseteq Zombies, UNCHANGED <<reqs, rsps, merged, stale>>,
           kid' = [p \in Pids |-> IF p \in Z THEN NoKid ELSE kid[p]],
           conn' \in [Clients -> ConnRec],
           \A k \in Clients : /\ conn'[k].st = "open" <=> conn[k].st = "open"
                              /\ conn'[k].got = conn[k].got /\ conn'[k].by = conn[k].by,
           Waited'
    PROVE  ShortInv'
<1>0. ShortType /\ Served /\ Replied /\ OwnAnswer
  BY DEF ShortInv
<1>1. NoKid \in KidRec /\ NoKid.st = "none"
  BY DEF NoKid, KidRec
<1>2. /\ kid' \in [Pids -> KidRec]
      /\ \A p \in Pids : kid'[p] = kid[p] \/ (kid'[p].st = "none" /\ kid[p].st = "zombie")
  BY <1>0, <1>1 DEF ShortType, Zombies
<1>3. ShortType'
  BY <1>0, <1>2 DEF ShortType
<1>4. \A p \in Pids : (kid'[p].st \in Active \/ kid[p].st \in Active) => kid'[p] = kid[p]
  BY <1>2 DEF Active
<1>5. Served'
  BY <1>0, <1>4 DEF Served
<1>6. Replied'
  <2>1. \A x \in Msg : Owned(x) => Owned(x)'
    BY <1>4 DEF Owned, Msg, Active
  <2>2. \A i \in 1..Len(rsps) : rsps[i] \in Msg
    BY <1>0, ElementOfSeq DEF ShortType
  <2>3. \A x \in reqs' : Owned(x)'
    BY <1>0, <2>1 DEF Replied, ShortType
  <2>4. \A i \in 1..Len(rsps') : Owned(rsps[i])'
    BY <1>0, <2>1, <2>2 DEF Replied
  <2>5. \A q \in Pids : kid'[q].st = "write" => q \in stale' \/ kid'[q].rep = kid'[q].for
    BY <1>0, <1>4 DEF Replied, Active
  <2> QED BY <1>0, <2>3, <2>4, <2>5 DEF Replied
<1>7. OwnAnswer'
  BY <1>0 DEF OwnAnswer
<1> QED BY <1>3, <1>5, <1>6, <1>7 DEF ShortInv

\* The SIGCLD handler waits for one child.
LEMMA ChildExitKeeps == ASSUME ShortInv, child_exit PROVE ShortInv'
<1>0. /\ sigcld /\ sigcld' = FALSE /\ UNCHANGED <<conn, reqs, rsps, merged, stale>>
      /\ \/ Zombies = {} /\ kid' = kid
         \/ \E p \in Zombies : kid' = [kid EXCEPT ![p] = NoKid]
  BY DEF child_exit, Zombies
<1>1. ShortType /\ Waited /\ merged \in Nat
  BY DEF ShortInv, ShortType
<1>2. IsFiniteSet(Zombies) /\ Cardinality(Zombies) \in Nat
  BY ZombiesFinite
<1>3. Cardinality(Zombies) <= 1 + merged
  BY <1>0, <1>1 DEF Waited, Zombies
<1>4. PICK Z : /\ Z \subseteq Zombies /\ Zombies' = Zombies \ Z
               /\ kid' = [p \in Pids |-> IF p \in Z THEN NoKid ELSE kid[p]]
               /\ Cardinality(Zombies \ Z) <= merged
  <2>1. CASE Zombies = {} /\ kid' = kid
    <3>1. kid' = [p \in Pids |-> IF p \in {} THEN NoKid ELSE kid[p]] /\ Zombies' = Zombies \ {}
      BY <1>1, <2>1 DEF ShortType, Zombies
    <3>2. Cardinality(Zombies \ {}) = 0
      BY <2>1, FS_EmptySet
    <3>3. Cardinality(Zombies \ {}) <= merged
      BY <1>1, <3>2
    <3> QED BY <3>1, <3>3
  <2>2. ASSUME NEW p \in Zombies, kid' = [kid EXCEPT ![p] = NoKid]
        PROVE  /\ {p} \subseteq Zombies /\ Zombies' = Zombies \ {p}
               /\ kid' = [q \in Pids |-> IF q \in {p} THEN NoKid ELSE kid[q]]
               /\ Cardinality(Zombies \ {p}) <= merged
    <3>1. kid' = [q \in Pids |-> IF q \in {p} THEN NoKid ELSE kid[q]]
      BY <1>1, <2>2 DEF ShortType, Zombies
    <3>2. Zombies' = Zombies \ {p}
      BY <3>1 DEF Zombies, NoKid
    <3>3. Cardinality(Zombies \ {p}) = Cardinality(Zombies) - 1
      BY <1>2, FS_RemoveElement
    <3>4. Cardinality(Zombies \ {p}) <= merged
      BY <1>1, <1>2, <1>3, <3>3
    <3> QED BY <3>1, <3>2, <3>4
  <2> QED BY <1>0, <2>1, <2>2
<1>5. Waited'
  <2>1. Cardinality(Zombies') <= merged
    BY <1>4, Zenon
  <2>2. (IF sigcld' THEN 1 ELSE 0) + merged' = merged
    BY <1>0, <1>1
  <2> QED BY <2>1, <2>2 DEF Waited, Zombies
<1>6. conn' \in [Clients -> ConnRec] /\ conn' = conn
  BY <1>0, <1>1 DEF ShortType
<1> QED BY <1>0, <1>4, <1>5, <1>6, CleanedKeeps

\* The parent ends: no zombies are left and no connection is opened any more.
LEMMA MainExitKeeps == ASSUME ShortInv, main_exit PROVE ShortInv'
<1>0. /\ sigcld' = FALSE /\ UNCHANGED <<reqs, rsps, merged, stale>>
      /\ kid' = [p \in Pids |-> IF p \in Zombies THEN NoKid ELSE kid[p]]
      /\ conn' = [k \in Clients |-> IF conn[k].st = "queued" THEN [conn[k] EXCEPT !.st = "closed"] ELSE conn[k]]
  BY DEF main_exit, Zombies
<1>1. ShortType /\ merged \in Nat
  BY DEF ShortInv, ShortType
<1>2. ASSUME NEW k \in Clients
      PROVE  /\ conn'[k] \in ConnRec
             /\ conn'[k].st = "open" <=> conn[k].st = "open"
             /\ conn'[k].got = conn[k].got /\ conn'[k].by = conn[k].by
  <2> DEFINE c == [conn[k] EXCEPT !.st = "closed"]
  <2>1. conn[k] \in ConnRec
    BY <1>1 DEF ShortType
  <2>2. c \in ConnRec /\ c.st = "closed" /\ c.got = conn[k].got /\ c.by = conn[k].by
    BY <2>1 DEF ConnRec
  <2>3. conn'[k] = IF conn[k].st = "queued" THEN c ELSE conn[k]
    BY <1>0
  <2> HIDE DEF c
  <2> QED BY <2>1, <2>2, <2>3
<1>3. conn' \in [Clients -> ConnRec]
  BY <1>0, <1>2
<1>4. Waited'
  <2>1. Zombies' = {}
    BY <1>0 DEF Zombies, NoKid
  <2>2. Cardinality(Zombies') = 0
    BY <2>1, FS_EmptySet
  <2>3. (IF sigcld' THEN 1 ELSE 0) + merged' = merged
    BY <1>0, <1>1
  <2> QED BY <1>1, <2>2, <2>3 DEF Waited, Zombies
<1> QED BY <1>0, <1>2, <1>3, <1>4, CleanedKeeps

\* The invariant is inductive.
LEMMA ShortStep == ShortInv /\ [ShortNext]_shortVars => ShortInv'
<1> SUFFICES ASSUME ShortInv, [ShortNext]_shortVars PROVE ShortInv'
  OBVIOUS
<1>1. ASSUME NEW k \in Clients, Connect(k) \/ SendRequest(k) \/ HangUp(k) \/ ForkFails(k) PROVE ShortInv'
  BY <1>1, ClientKeeps
<1>2. ASSUME NEW k \in Clients, NEW p \in Pids, Fork(k, p) PROVE ShortInv'
  BY <1>2, ForkKeeps
<1>3. ASSUME NEW r \in reqs, ServerReplies(r) PROVE ShortInv'
  BY <1>3, ReplyKeeps
<1>4. ASSUME NEW p \in Pids, RcvRequest(p) PROVE ShortInv'
  BY <1>4, ShortSendKeeps
<1>5. ASSUME NEW p \in Pids, GetReply(p) PROVE ShortInv'
  BY <1>5, GetKeeps
<1>6. ASSUME NEW p \in Pids, RcvOrCallFails(p) PROVE ShortInv'
  <2>1. kid[p].st = "rcv" /\ Exit(p, None) /\ UNCHANGED <<reqs, rsps, stale>>
    BY <1>6 DEF RcvOrCallFails
  <2> QED BY <2>1, ExitKeeps DEF Active
<1>7. ASSUME NEW p \in Pids, CallTimesOut(p) PROVE ShortInv'
  <2>1. kid[p].st = "wait" /\ Exit(p, None) /\ UNCHANGED <<reqs, rsps>> /\ stale' = stale \cup {p}
    BY <1>7 DEF CallTimesOut
  <2> QED BY <2>1, ExitKeeps DEF Active
<1>8. ASSUME NEW p \in Pids, WriteReply(p) PROVE ShortInv'
  <2>1. kid[p].st = "write" /\ UNCHANGED <<reqs, rsps, stale>> /\ (Exit(p, kid[p].rep) \/ Exit(p, None))
    BY <1>8 DEF WriteReply
  <2> QED BY <2>1, ExitKeeps DEF Active
<1>9. CASE UNCHANGED shortVars
  BY <1>9 DEF shortVars, ShortInv, ShortType, Served, Replied, Owned, OwnAnswer, Waited
<1> QED BY <1>1, <1>2, <1>3, <1>4, <1>5, <1>6, <1>7, <1>8, <1>9, ChildExitKeeps, MainExitKeeps DEF ShortNext

\* For any number of clients and pids: a client of C001 gets the reply to its own
\* request unless a child with that pid left one behind, only the zombies whose
\* signals merged stay, and an open connection has exactly one child.
THEOREM ShortKept == ShortSpec => []ShortSound
<1>1. ShortInv => ShortSound
  <2> SUFFICES ASSUME ShortInv PROVE ShortSound
    OBVIOUS
  <2>1. OwnAnswer /\ Waited /\ Served
    BY DEF ShortInv
  <2>2. OneChild
    <3> SUFFICES ASSUME NEW k \in Clients
                 PROVE  Cardinality({p \in Pids : kid[p].st \in Active /\ kid[p].for = k})
                          = IF conn[k].st = "open" THEN 1 ELSE 0
      BY DEF OneChild
    <3> DEFINE Q == {p \in Pids : kid[p].st \in Active /\ kid[p].for = k}
    <3>1. CASE conn[k].st = "open"
      <4>1. PICK p \in Pids : Q = {p}
        BY <2>1, <3>1 DEF Served
      <4> QED BY <3>1, <4>1, FS_Singleton
    <3>2. CASE conn[k].st # "open"
      <4>1. Q = {}
        BY <2>1, <3>2 DEF Served
      <4> QED BY <3>2, <4>1, FS_EmptySet
    <3> QED BY <3>1, <3>2
  <2> QED BY <2>1, <2>2 DEF ShortSound
<1> QED BY <1>1, ShortStart, ShortStep, PTL DEF ShortSpec

-----------------------------------------------------------------------------
(***************************************************************************)
(* C002.                                                                   *)
(***************************************************************************)

States == {"none", "check", "head", "body", "acall", "get", "write", "dead"}
Child  == [role : Roles, st : States, msg : Nat, stopped : BOOLEAN]
Part   == [part : {"head", "body", "empty"}, msg : Nat]

\* The types the proof needs.
LongType ==
    /\ main \in {"up", "down"}
    /\ son \in [Sons -> Child]
    /\ cur \in [Roles -> Sons]
    /\ forks \in 0..MaxForks
    /\ link \in Seq(Part)
    /\ peer \in [sent : Nat, there : BOOLEAN]
    /\ bus \in Seq(Nat)
    /\ extra \in [Sons -> Nat]

\* The children the parent knows have their roles and were forked already.
Known == \A r \in Roles : son[cur[r]].role = r /\ cur[r] <= forks + 2

\* A child counts no message while its parent is there, and once it has counted
\* one without it, it is at the top of its loop or gone.
Counted == \A k \in Sons :
    /\ main = "up" => extra[k] = 0
    /\ extra[k] = 0 \/ (extra[k] = 1 /\ son[k].st \in {"check", "dead"})

\* The stream holds whole messages, in order, and none the peer has not sent: a
\* head is followed by its body, and only they have the same number.
Whole ==
    /\ \A i \in 1..Len(link) : link[i].msg <= peer.sent
    /\ \A i \in 1..Len(link) : link[i].part = "head" => i < Len(link) /\ link[i+1].part = "body"
    /\ \A i, j \in 1..Len(link) : i < j =>
          link[i].msg < link[j].msg \/ (link[i].msg = link[j].msg /\ link[i].part = "head")

\* No child that was replaced goes on in the stream.
Alone == \A k \in Sons :
    son[k].role = "svr" /\ k # cur["svr"] => son[k].st \in {"none", "dead"} \/ son[k].stopped

\* A child that has read a head has the body before it.
AtBody == son[cur["svr"]].st = "body" => Len(link) > 0 /\ link[1].part = "body"

\* What is on the bus comes before what the child is about to put there, and both
\* before what is still in the stream.
Before ==
    /\ \A i \in 1..Len(bus) : bus[i] <= peer.sent
    /\ \A i, j \in 1..Len(bus) : i < j => bus[i] < bus[j]
    /\ \A i \in 1..Len(bus) : \A j \in 1..Len(link) : bus[i] < link[j].msg
    /\ son[cur["svr"]].st = "acall" =>
          /\ son[cur["svr"]].msg <= peer.sent
          /\ \A i \in 1..Len(bus) : bus[i] < son[cur["svr"]].msg
          /\ \A j \in 1..Len(link) : son[cur["svr"]].msg < link[j].msg

LongInv == LongType /\ Known /\ Counted /\ (skewed \/ (Whole /\ Alone /\ AtBody /\ Before))

\* The stream without its first part.
LEMMA TailFacts ==
    ASSUME NEW s \in Seq(Part), s # <<>>
    PROVE  /\ Tail(s) \in Seq(Part) /\ Len(Tail(s)) = Len(s) - 1 /\ Len(s) \in Nat \ {0}
           /\ \A i \in 1..Len(Tail(s)) : Tail(s)[i] = s[i+1]
           /\ s[1] \in Part
<1>1. Len(s) \in Nat \ {0}
  BY EmptySeq
<1>2. s[1] \in Part
  BY <1>1, ElementOfSeq
<1> QED BY <1>1, <1>2, HeadTailProperties

\* A child's next state: it keeps its role, and stays stopped or not.
LEMMA SonFacts ==
    ASSUME LongType, NEW k \in Sons, NEW st \in States, NEW m \in Nat, Son(k, st, m)
    PROVE  /\ son' \in [Sons -> Child]
           /\ son'[k].st = st /\ son'[k].msg = m
           /\ son'[k].role = son[k].role /\ son'[k].stopped = son[k].stopped
           /\ \A q \in Sons : q # k => son'[q] = son[q]
<1>1. son[k] \in Child
  BY DEF LongType
<1> DEFINE x == [son[k] EXCEPT !.st = st, !.msg = m]
<1>2. x \in Child /\ x.st = st /\ x.msg = m /\ x.role = son[k].role /\ x.stopped = son[k].stopped
  BY <1>1 DEF Child
<1>3. son' = [son EXCEPT ![k] = x]
  BY DEF Son
<1> HIDE DEF x
<1>4. son' \in [Sons -> Child] /\ son'[k] = x /\ \A q \in Sons : q # k => son'[q] = son[q]
  BY <1>2, <1>3 DEF LongType
<1> QED BY <1>2, <1>4 DEF x

\* A child counts a message only without its parent.
LEMMA HandledFacts ==
    ASSUME LongType, NEW k \in Sons, Handled(k)
    PROVE  /\ extra' \in [Sons -> Nat]
           /\ main = "up" => extra' = extra
           /\ extra'[k] \in {extra[k], extra[k] + 1}
           /\ \A q \in Sons : q # k => extra'[q] = extra[q]
  BY DEF LongType, Handled

\* Each child is fresh and nothing has been sent.
LEMMA LongStart == LongInit => LongInv
<1> SUFFICES ASSUME LongInit PROVE LongInv
  OBVIOUS
<1>1. 1 \in Sons /\ 2 \in Sons /\ "svr" \in Roles /\ "clt" \in Roles /\ 0 \in 0..MaxForks
  BY ForksAssumption DEF Sons, Roles
<1>2. Forked("clt") \in Child /\ Forked("svr") \in Child /\ Unborn \in Child
  BY DEF Forked, Unborn, Child, Roles, States
<1>3. LongType
  BY <1>1, <1>2 DEF LongInit, LongType
<1>4. Known /\ Counted
  BY <1>1 DEF LongInit, Known, Counted, Forked, Roles
<1>5. Whole /\ Alone /\ AtBody /\ Before
  BY <1>1 DEF LongInit, Whole, Alone, AtBody, Before, Forked, Unborn, Roles
<1> QED BY <1>3, <1>4, <1>5 DEF LongInv

\* A message of the peer is put behind the stream, its head before its body.
LEMMA SendKeeps == ASSUME LongInv, PeerSends PROVE LongInv'
<1>0. LongType
  BY DEF LongInv
<1> DEFINE n == peer.sent + 1
           h == [part |-> "head", msg |-> n]
           b == [part |-> "body", msg |-> n]
           e == [part |-> "empty", msg |-> n]
<1>1. peer' \in [sent : Nat, there : BOOLEAN] /\ peer'.sent = n /\ n \in Nat /\ n > peer.sent
  <2>1. peer \in [sent : Nat, there : BOOLEAN] /\ peer' = [peer EXCEPT !.sent = peer.sent + 1]
    BY <1>0 DEF PeerSends, LongType
  <2> QED BY <2>1
<1>2. h \in Part /\ b \in Part /\ e \in Part
  BY <1>1 DEF Part
<1>3. link' = link \o <<h, b>> \/ link' = link \o <<e>>
  <2>1. PICK parts \in {<<"head", "body">>, <<"empty">>} :
          link' = link \o [i \in DOMAIN parts |-> [part |-> parts[i], msg |-> n]]
    BY DEF PeerSends
  <2>2. CASE parts = <<"head", "body">>
    <3>1. [i \in DOMAIN parts |-> [part |-> parts[i], msg |-> n]] = <<h, b>>
      BY <2>2
    <3> QED BY <2>1, <3>1
  <2>3. CASE parts = <<"empty">>
    <3>1. [i \in DOMAIN parts |-> [part |-> parts[i], msg |-> n]] = <<e>>
      BY <2>3
    <3> QED BY <2>1, <3>1
  <2> QED BY <2>1, <2>2, <2>3
<1>4. link \in Seq(Part) /\ Len(link) \in Nat
  BY <1>0 DEF LongType
<1> HIDE DEF h, b, e, n
<1>5. /\ link' \in Seq(Part)
      /\ \A i \in 1..Len(link) : link'[i] = link[i]
      /\ \/ Len(link') = Len(link) + 2 /\ link'[Len(link) + 1] = h /\ link'[Len(link) + 2] = b
         \/ Len(link') = Len(link) + 1 /\ link'[Len(link) + 1] = e
  <2>1. CASE link' = link \o <<h, b>>
    <3>1. <<h, b>> \in Seq(Part) /\ Len(<<h, b>>) = 2 /\ <<h, b>>[1] = h /\ <<h, b>>[2] = b
      BY <1>2
    <3> DEFINE u == <<h, b>>
    <3> HIDE DEF u
    <3> QED BY <1>4, <2>1, <3>1, ConcatProperties DEF u
  <2>2. CASE link' = link \o <<e>>
    <3>1. <<e>> \in Seq(Part) /\ Len(<<e>>) = 1 /\ <<e>>[1] = e
      BY <1>2
    <3> DEFINE u == <<e>>
    <3> HIDE DEF u
    <3> QED BY <1>4, <2>2, <3>1, ConcatProperties DEF u
  <2> QED BY <1>3, <2>1, <2>2
<1>6. UNCHANGED <<main, son, cur, bus, replies, forks, skewed, extra>>
  BY DEF PeerSends
<1>7. LongType' /\ Known' /\ Counted'
  BY <1>0, <1>1, <1>5, <1>6 DEF LongInv, LongType, Known, Counted
<1>8. CASE skewed
  BY <1>6, <1>7, <1>8 DEF LongInv
<1>9. CASE ~skewed
  <2>1. Whole /\ Alone /\ AtBody /\ Before
    BY <1>9 DEF LongInv
  <2>2. /\ h.part = "head" /\ h.msg = n /\ b.part = "body" /\ b.msg = n
        /\ e.part = "empty" /\ e.msg = n
    BY DEF h, b, e
  <2>3. peer.sent \in Nat /\ \A i \in 1..Len(link) : link[i] \in Part
    BY <1>0, <1>4, ElementOfSeq DEF LongType
  <2>4. Len(bus) \in Nat /\ \A i \in 1..Len(bus) : bus[i] \in Nat
    BY <1>0, ElementOfSeq DEF LongType
  <2> DEFINE L == Len(link)
  <2>a. \A i \in 1..Len(link') :
           \/ i \in 1..L /\ link'[i] = link[i] /\ link[i].msg \in Nat
           \/ i > L /\ link'[i].msg = n
    <3> SUFFICES ASSUME NEW i \in 1..Len(link')
                 PROVE  \/ i \in 1..L /\ link'[i] = link[i] /\ link[i].msg \in Nat
                        \/ i > L /\ link'[i].msg = n
      OBVIOUS
    <3>1. CASE i \in 1..L
      BY <1>5, <2>3, <3>1 DEF Part
    <3>2. CASE i \notin 1..L
      <4>1. i = L + 1 \/ i = L + 2
        BY <1>4, <1>5, <3>2
      <4>2. i > L
        BY <1>4, <4>1
      <4> QED
        BY <1>4, <1>5, <2>2, <4>1, <4>2
    <3> QED BY <3>1, <3>2
  <2>b. L \in Nat /\ Len(link') \in Nat
    BY <1>4, <1>5
  <2>5. Whole'
    <3>1. \A i \in 1..Len(link') : link'[i].msg <= n
      BY <1>1, <2>a, <2>1, <2>3 DEF Whole
    <3>2. ASSUME NEW i \in 1..Len(link'), link'[i].part = "head"
          PROVE  i < Len(link') /\ link'[i+1].part = "body"
      <4>1. CASE i \in 1..L
        BY <1>5, <2>1, <2>b, <3>2, <4>1, SMTT(30) DEF Whole
      <4>2. CASE i \notin 1..L
        BY <1>5, <2>2, <2>b, <3>2, <4>2
      <4> QED BY <4>1, <4>2
    <3>3. ASSUME NEW i \in 1..Len(link'), NEW j \in 1..Len(link'), i < j
          PROVE  link'[i].msg < link'[j].msg \/ (link'[i].msg = link'[j].msg /\ link'[i].part = "head")
      <4>1. CASE j \in 1..L
        BY <1>5, <2>1, <2>b, <3>3, <4>1 DEF Whole
      <4>2. CASE j \notin 1..L /\ i \in 1..L
        BY <1>1, <2>a, <2>1, <2>3, <4>2 DEF Whole
      <4>3. CASE i \notin 1..L
        BY <1>5, <2>2, <2>b, <3>3, <4>3
      <4> QED BY <2>b, <3>3, <4>1, <4>2, <4>3
    <3> QED BY <1>1, <3>1, <3>2, <3>3 DEF Whole
  <2>6. Alone' /\ AtBody'
    BY <1>4, <1>5, <1>6, <2>1 DEF Alone, AtBody
  <2>7. son[cur["svr"]].msg \in Nat
    BY <1>0 DEF LongType, Roles, Child
  <2>8. Before'
    <3>1. \A i \in 1..Len(bus) : bus[i] <= n
      BY <1>1, <2>1, <2>3, <2>4 DEF Before
    <3>2. \A i \in 1..Len(bus) : \A j \in 1..Len(link') : bus[i] < link'[j].msg
      <4> SUFFICES ASSUME NEW i \in 1..Len(bus), NEW j \in 1..Len(link')
                   PROVE  bus[i] < link'[j].msg
        OBVIOUS
      <4>1. bus[i] < n /\ bus[i] \in Nat
        BY <1>1, <2>1, <2>3, <2>4 DEF Before
      <4> QED BY <2>a, <2>1, <4>1 DEF Before
    <3>3. son[cur["svr"]].st = "acall" => /\ son[cur["svr"]].msg <= n
                                     /\ \A j \in 1..Len(link') : son[cur["svr"]].msg < link'[j].msg
      BY <1>1, <2>a, <2>1, <2>3, <2>7, SMTT(30) DEF Before
    <3> QED BY <1>1, <1>6, <2>1, <3>1, <3>2, <3>3 DEF Before
  <2> QED BY <1>7, <2>5, <2>6, <2>8 DEF LongInv
<1> QED BY <1>8, <1>9

\* A child reads the next part of the stream: what it has then read comes after
\* everything on the bus and before the rest.
LEMMA ReadKeeps == ASSUME LongInv, NEW k \in Sons, RcvHead(k) \/ RcvBody(k) PROVE LongInv'
<1>0. LongType /\ Known /\ Counted
  BY DEF LongInv
<1>1. /\ link # <<>> /\ link' = Tail(link)
      /\ UNCHANGED <<main, cur, peer, bus, forks, skewed>>
      /\ son[k].role = "svr" /\ ~son[k].stopped
  BY DEF RcvHead, RcvBody, Ready
<1>2. /\ link' \in Seq(Part) /\ Len(link') = Len(link) - 1 /\ Len(link) \in Nat \ {0}
      /\ \A i \in 1..Len(link') : link'[i] = link[i+1]
      /\ link[1] \in Part
  BY <1>0, <1>1, TailFacts DEF LongType
<1>3. link[1].msg \in Nat
  BY <1>2 DEF Part
<1>4. \/ /\ link[1].part = "head" /\ son[k].st = "head" /\ extra' = extra
         /\ Son(k, "body", link[1].msg)
      \/ /\ son[k].st = "head" /\ Handled(k) /\ Son(k, "check", 0)
      \/ /\ son[k].st = "body" /\ extra' = extra /\ Son(k, "acall", link[1].msg)
  BY DEF RcvHead, RcvBody, Ready
<1>5. /\ extra' \in [Sons -> Nat]
      /\ main = "up" => extra' = extra
      /\ extra' = extra \/ son'[k].st = "check"
      /\ extra'[k] \in {extra[k], extra[k] + 1}
      /\ \A q \in Sons : q # k => extra'[q] = extra[q]
  <2>1. CASE extra' = extra
    BY <1>0, <2>1 DEF LongType
  <2>2. CASE Handled(k) /\ Son(k, "check", 0)
    <3>1. "check" \in States /\ 0 \in Nat
      BY DEF States
    <3>2. son'[k].st = "check"
      BY <1>0, <2>2, <3>1, SonFacts
    <3> QED BY <1>0, <2>2, <3>2, HandledFacts
  <2> QED BY <1>4, <2>1, <2>2
<1>6. /\ son' \in [Sons -> Child]
      /\ \A q \in Sons : q # k => son'[q] = son[q]
      /\ son'[k].role = son[k].role
      /\ son[k].st \in {"head", "body"}
      /\ son'[k].st = "body" => link[1].part = "head"
      /\ son'[k].st = "acall" => son[k].st = "body" /\ son'[k].msg = link[1].msg
  <2>1. ASSUME NEW st \in States, NEW m \in Nat, Son(k, st, m)
        PROVE  /\ son' \in [Sons -> Child]
               /\ son'[k].st = st /\ son'[k].msg = m /\ son'[k].role = son[k].role
               /\ \A q \in Sons : q # k => son'[q] = son[q]
    <3>1. LongType
      BY <1>0
    <3> QED BY <2>1, <3>1, SonFacts
  <2>2. {"body", "check", "acall"} \subseteq States /\ 0 \in Nat
    BY DEF States
  <2> QED BY <1>3, <1>4, <2>1, <2>2
<1>7. LongType' /\ Known'
  <2>1. LongType'
    BY <1>0, <1>1, <1>2, <1>5, <1>6 DEF LongType
  <2>2. \A q \in Sons : son'[q].role = son[q].role
    BY <1>6
  <2>3. Known'
    BY <1>0, <1>1, <2>2 DEF LongType, Known
  <2> QED BY <2>1, <2>3
<1>8. Counted'
  <2>1. extra[k] = 0
    BY <1>0, <1>6 DEF Counted
  <2> QED BY <1>0, <1>1, <1>5, <1>6, <2>1, SMTT(30) DEF Counted, LongType
<1>9. CASE skewed
  BY <1>1, <1>7, <1>8, <1>9 DEF LongInv
<1>10. CASE ~skewed
  <2>1. Whole /\ Alone /\ AtBody /\ Before
    BY <1>10 DEF LongInv
  <2>a. k = cur["svr"] /\ cur' = cur
    BY <1>1, <1>6, <2>1 DEF Alone
  <2>2. \A i \in 1..Len(link') : i+1 \in 1..Len(link) /\ link'[i] = link[i+1]
    BY <1>2
  <2>3. Whole'
    BY <1>1, <1>2, <2>1, <2>2 DEF Whole
  <2>b. Alone'
    BY <1>6, <2>1, <2>a DEF Alone
  <2>4. AtBody'
    <3>1. CASE son'[k].st = "body"
      <4>1. link[1].part = "head"
        BY <1>6, <3>1
      <4> QED BY <1>2, <2>1, <2>2, <4>1 DEF Whole, AtBody
    <3> QED BY <2>a, <3>1 DEF AtBody
  <2>5. Before'
    <3>1. /\ \A i \in 1..Len(bus) : bus[i] <= peer.sent
          /\ \A i, j \in 1..Len(bus) : i < j => bus[i] < bus[j]
          /\ \A i \in 1..Len(bus) : \A j \in 1..Len(link') : bus[i] < link'[j].msg
      BY <2>1, <2>2 DEF Before
    <3>2. ASSUME son'[k].st = "acall"
          PROVE  /\ son'[k].msg <= peer.sent
                 /\ \A i \in 1..Len(bus) : bus[i] < son'[k].msg
                 /\ \A j \in 1..Len(link') : son'[k].msg < link'[j].msg
      <4>1. son'[k].msg = link[1].msg /\ son[k].st = "body"
        BY <1>6, <3>2
      <4>2. link[1].part = "body" /\ 1 \in 1..Len(link)
        BY <1>2, <2>1, <2>a, <4>1 DEF AtBody
      <4>3. \A j \in 1..Len(link') : link[1].msg < link[j+1].msg
        BY <1>2, <2>1, <2>2, <4>2 DEF Whole
      <4> QED BY <2>1, <2>2, <4>1, <4>2, <4>3 DEF Whole, Before
    <3> QED BY <1>1, <2>a, <3>1, <3>2 DEF Before
  <2> QED BY <1>7, <1>8, <2>3, <2>b, <2>4, <2>5 DEF LongInv
<1> QED BY <1>9, <1>10

\* A child puts its request on the bus, or drops it.
LEMMA AcallKeeps == ASSUME LongInv, NEW k \in Sons, Acall(k) PROVE LongInv'
<1>0. LongType /\ Known /\ Counted
  BY DEF LongInv
<1>1. /\ UNCHANGED <<main, cur, link, peer, forks, skewed>>
      /\ son[k].role = "svr" /\ ~son[k].stopped /\ son[k].st = "acall" /\ Handled(k)
      /\ bus' = bus \/ bus' = Append(bus, son[k].msg)
      /\ \E st \in {"check", "dead"} : Son(k, st, 0)
  BY DEF Acall, Ready
<1>2. /\ son' \in [Sons -> Child]
      /\ son'[k].st \in {"check", "dead"}
      /\ son'[k].role = son[k].role
      /\ \A q \in Sons : q # k => son'[q] = son[q]
  <2>1. PICK st \in {"check", "dead"} : Son(k, st, 0)
    BY <1>1
  <2>2. st \in States /\ 0 \in Nat /\ LongType
    BY <1>0 DEF States
  <2>3. /\ son' \in [Sons -> Child] /\ son'[k].st = st /\ son'[k].role = son[k].role
        /\ \A q \in Sons : q # k => son'[q] = son[q]
    BY <2>1, <2>2, SonFacts
  <2> QED BY <2>3
<1>3. /\ extra' \in [Sons -> Nat]
      /\ main = "up" => extra' = extra
      /\ extra'[k] \in {extra[k], extra[k] + 1}
      /\ \A q \in Sons : q # k => extra'[q] = extra[q]
  BY <1>0, <1>1, HandledFacts
<1>4. son[k].msg \in Nat
  BY <1>0 DEF LongType, Child
<1>5. /\ bus' \in Seq(Nat) /\ Len(bus) \in Nat
      /\ \A i \in 1..Len(bus) : bus'[i] = bus[i] /\ bus[i] \in Nat
      /\ \/ Len(bus') = Len(bus)
         \/ Len(bus') = Len(bus) + 1 /\ bus'[Len(bus) + 1] = son[k].msg
  <2>1. bus \in Seq(Nat)
    BY <1>0 DEF LongType
  <2>2. \A i \in 1..Len(bus) : bus[i] \in Nat
    BY <2>1, ElementOfSeq
  <2>3. CASE bus' = bus
    BY <2>1, <2>2, <2>3
  <2>4. CASE bus' = Append(bus, son[k].msg)
    BY <1>4, <2>1, <2>2, <2>4, AppendProperties
  <2> QED BY <1>1, <2>3, <2>4
<1>6. LongType' /\ Known'
  <2>1. LongType'
    BY <1>0, <1>1, <1>2, <1>3, <1>5 DEF LongType
  <2>2. \A q \in Sons : son'[q].role = son[q].role
    BY <1>2
  <2>3. Known'
    BY <1>0, <1>1, <2>2 DEF LongType, Known
  <2> QED BY <2>1, <2>3
<1>7. Counted'
  <2>1. extra[k] = 0
    BY <1>0, <1>1 DEF Counted
  <2>2. \A q \in Sons : extra'[q] = extra[q] \/ (q = k /\ main # "up" /\ extra'[q] = 1)
    BY <1>0, <1>3, <2>1
  <2> QED BY <1>0, <1>1, <1>2, <2>2 DEF Counted
<1>8. CASE skewed
  BY <1>1, <1>6, <1>7, <1>8 DEF LongInv
<1>9. CASE ~skewed
  <2>1. Whole /\ Alone /\ AtBody /\ Before
    BY <1>9 DEF LongInv
  <2>a. k = cur["svr"] /\ cur' = cur
    BY <1>1, <2>1 DEF Alone
  <2>2. Whole' /\ Alone' /\ AtBody'
    BY <1>1, <1>2, <2>1, <2>a DEF Whole, Alone, AtBody
  <2>3. \A i \in 1..Len(bus') : \/ i \in 1..Len(bus) /\ bus'[i] = bus[i]
                                \/ i = Len(bus) + 1 /\ bus'[i] = son[k].msg
    <3> SUFFICES ASSUME NEW i \in 1..Len(bus')
                 PROVE  \/ i \in 1..Len(bus) /\ bus'[i] = bus[i]
                        \/ i = Len(bus) + 1 /\ bus'[i] = son[k].msg
      OBVIOUS
    <3>1. i \in 1..Len(bus) \/ (i = Len(bus) + 1 /\ Len(bus') = Len(bus) + 1)
      BY <1>5
    <3>2. Len(bus') = Len(bus) + 1 => bus'[Len(bus) + 1] = son[k].msg
      BY <1>5
    <3> QED BY <1>5, <3>1, <3>2
  <2>4. Before'
    <3>1. /\ \A i \in 1..Len(bus) : bus[i] < son[k].msg
          /\ \A j \in 1..Len(link) : son[k].msg < link[j].msg
          /\ son[k].msg <= peer.sent
      BY <1>1, <2>1, <2>a DEF Before
    <3>2. \A i \in 1..Len(bus') : bus'[i] <= peer.sent
      BY <2>1, <2>3, <3>1 DEF Before
    <3>3. \A i \in 1..Len(bus') : \A j \in 1..Len(link) : bus'[i] < link[j].msg
      BY <2>1, <2>3, <3>1 DEF Before
    <3>4. ASSUME NEW i \in 1..Len(bus'), NEW j \in 1..Len(bus'), i < j PROVE bus'[i] < bus'[j]
      <4>1. i \in 1..Len(bus)
        BY <1>5, <3>4
      <4> QED BY <1>5, <2>1, <2>3, <3>1, <3>4, <4>1 DEF Before
    <3> QED BY <1>1, <1>2, <2>a, <3>2, <3>3, <3>4 DEF Before
  <2> QED BY <1>6, <1>7, <2>2, <2>4 DEF LongInv
<1> QED BY <1>8, <1>9

\* A child changes its state and neither reads the stream nor writes to the bus: it is
\* the one the parent knows, or it does not go on in the stream.
LEMMA ChildKeeps ==
    ASSUME LongInv, NEW k \in Sons, NEW x \in Child,
           son' = [son EXCEPT ![k] = x], x.role = son[k].role,
           UNCHANGED <<main, cur, link, peer, bus, forks>>,
           skewed => skewed',
           \/ x.st \in {"check", "head", "get", "write", "dead"}
           \/ x.st = son[k].st /\ x.msg = son[k].msg,
           \/ skewed' \/ x.role # "svr" \/ k = cur["svr"] \/ x.stopped \/ x.st \in {"none", "dead"},
           \/ extra[k] = 0
           \/ extra' = extra /\ (x.st \in {"check", "dead"} \/ x.st = son[k].st),
           extra' = extra \/ (Handled(k) /\ x.st \in {"check", "dead"})
    PROVE  LongInv'
<1>0. LongType /\ Known /\ Counted
  BY DEF LongInv
<1>1. son' \in [Sons -> Child] /\ son'[k] = x /\ \A q \in Sons : q # k => son'[q] = son[q]
  BY <1>0 DEF LongType
<1>2. /\ extra' \in [Sons -> Nat]
      /\ main = "up" => extra' = extra
      /\ extra'[k] \in {extra[k], extra[k] + 1}
      /\ \A q \in Sons : q # k => extra'[q] = extra[q]
  <2>1. CASE extra' = extra
    BY <1>0, <2>1 DEF LongType
  <2>2. CASE Handled(k)
    BY <1>0, <2>2, HandledFacts
  <2> QED BY <2>1, <2>2
<1>3. LongType' /\ Known'
  BY <1>0, <1>1, <1>2 DEF LongType, Known
<1>4. Counted'
  <2>1. ASSUME NEW q \in Sons
        PROVE  /\ main = "up" => extra'[q] = 0
               /\ extra'[q] = 0 \/ (extra'[q] = 1 /\ son'[q].st \in {"check", "dead"})
    BY <1>0, <1>1, <1>2 DEF Counted
  <2> QED BY <2>1 DEF Counted
<1>5. CASE skewed'
  BY <1>3, <1>4, <1>5 DEF LongInv
<1>6. CASE ~skewed'
  <2>1. Whole /\ Alone /\ AtBody /\ Before
    BY <1>6 DEF LongInv
  <2>2. Whole'
    BY <2>1 DEF Whole
  <2>3. Alone'
    BY <1>1, <1>6, <2>1 DEF Alone
  <2>4. cur["svr"] \in Sons
    BY <1>0 DEF LongType, Roles
  <2>5. \/ son'[cur["svr"]].st \notin {"body", "acall"}
        \/ /\ son'[cur["svr"]].st = son[cur["svr"]].st
           /\ son'[cur["svr"]].msg = son[cur["svr"]].msg
    BY <1>1, <2>4
  <2>6. AtBody'
    BY <2>1, <2>5 DEF AtBody
  <2>7. Before'
    BY <2>1, <2>5 DEF Before
  <2> QED BY <1>3, <1>4, <2>2, <2>3, <2>6, <2>7 DEF LongInv
<1> QED BY <1>5, <1>6

\* A child at work without reading or writing: it is the one the parent knows, unless
\* one that was replaced went on.
LEMMA WorkKeeps ==
    ASSUME LongInv, NEW k \in Sons, ~son[k].stopped, son[k].st \notin {"none", "dead"},
           NEW st \in {"check", "head", "get", "write", "dead"}, NEW m \in Nat, Son(k, st, m),
           UNCHANGED <<main, cur, link, peer, bus, forks, skewed>>,
           extra[k] = 0 \/ (extra' = extra /\ st \in {"check", "dead"}),
           extra' = extra \/ (Handled(k) /\ st \in {"check", "dead"})
    PROVE  LongInv'
<1>1. LongType /\ st \in States
  BY DEF LongInv, States
<1> DEFINE x == [son[k] EXCEPT !.st = st, !.msg = m]
<1>2. x \in Child /\ x.st = st /\ x.role = son[k].role
  BY <1>1 DEF LongType, Child
<1>3. son' = [son EXCEPT ![k] = x]
  BY DEF Son
<1>4. skewed \/ son[k].role # "svr" \/ k = cur["svr"]
  BY DEF LongInv, Alone
<1> HIDE DEF x
<1> QED BY <1>2, <1>3, <1>4, ChildKeeps

\* A child is killed, stopped or continued.
LEMMA SignalKeeps ==
    ASSUME LongInv, NEW k \in Sons, Crash(k) \/ Stop(k) \/ Continue(k)
    PROVE  LongInv'
<1>0. LongType /\ Counted /\ son[k] \in Child
  BY DEF LongInv, LongType
<1>1. UNCHANGED <<main, cur, link, peer, bus, forks, extra>> /\ (skewed => skewed')
  <2>1. CASE Crash(k)
    BY <2>1 DEF Crash
  <2>2. CASE Stop(k)
    BY <2>2 DEF Stop
  <2>3. CASE Continue(k)
    BY <2>3 DEF Continue
  <2> QED BY <2>1, <2>2, <2>3
<1>2. CASE Crash(k)
  <2> DEFINE x == [son[k] EXCEPT !.st = "dead", !.msg = 0, !.stopped = FALSE]
  <2>1. x \in Child /\ x.st = "dead" /\ x.role = son[k].role
    BY <1>0 DEF Child, States
  <2>2. son' = [son EXCEPT ![k] = x]
    BY <1>2 DEF Crash
  <2> HIDE DEF x
  <2> QED BY <1>1, <2>1, <2>2, ChildKeeps
<1>3. CASE Stop(k)
  <2> DEFINE x == [son[k] EXCEPT !.stopped = TRUE]
  <2>1. x \in Child /\ x.st = son[k].st /\ x.msg = son[k].msg /\ x.role = son[k].role /\ x.stopped
    BY <1>0 DEF Child
  <2>2. son' = [son EXCEPT ![k] = x]
    BY <1>3 DEF Stop
  <2> HIDE DEF x
  <2> QED BY <1>1, <2>1, <2>2, ChildKeeps
<1>4. CASE Continue(k)
  <2> DEFINE x == [son[k] EXCEPT !.stopped = FALSE]
  <2>1. x \in Child /\ x.st = son[k].st /\ x.msg = son[k].msg /\ x.role = son[k].role
    BY <1>0 DEF Child
  <2>2. son' = [son EXCEPT ![k] = x]
    BY <1>4 DEF Continue
  <2>3. skewed' \/ x.role # "svr" \/ k = cur["svr"]
    BY <1>4, <2>1 DEF Continue
  <2> HIDE DEF x
  <2> QED BY <1>1, <2>1, <2>2, <2>3, ChildKeeps
<1> QED BY <1>2, <1>3, <1>4

\* The parent replaces a child that ended or is stopped: the new one is at the top of
\* its loop, and the old one does not go on by itself.
LEMMA ReforkKeeps == ASSUME LongInv, Refork PROVE LongInv'
<1>0. LongType /\ Known /\ Counted
  BY DEF LongInv
<1>1. main = "up" /\ UNCHANGED <<link, peer, bus, extra>>
      /\ forks < MaxForks /\ forks' = forks + 1 /\ forks + 1 \in 0..MaxForks
  BY <1>0, ForksAssumption DEF Refork, LongType
<1>2. CASE main' = "down" /\ UNCHANGED <<son, cur, skewed>>
  <2>1. LongType' /\ Known' /\ Counted'
    BY <1>0, <1>1, <1>2, ForksAssumption DEF LongType, Known, Counted, Sons
  <2>2. Whole /\ Alone /\ AtBody /\ Before => Whole' /\ Alone' /\ AtBody' /\ Before'
    BY <1>1, <1>2 DEF Whole, Alone, AtBody, Before
  <2> QED BY <1>2, <2>1, <2>2 DEF LongInv
<1>3. CASE main' = main /\ main' # "down"
  <2> DEFINE n == forks + 3
  <2>1. n \in Sons /\ \A r \in Roles : cur[r] < n /\ cur[r] \in Sons /\ cur[r] # n
    BY <1>0, <1>1, ForksAssumption DEF LongType, Known, Sons
  <2>2. PICK r \in Roles : /\ son[cur[r]].st = "dead" \/ son[cur[r]].stopped
                           /\ son' = [son EXCEPT ![n] = Forked(r)]
                           /\ cur' = [cur EXCEPT ![r] = n]
                           /\ skewed' = (skewed \/ son[cur[r]].st = "body")
    BY <1>3 DEF Refork
  <2> HIDE DEF n
  <2>3. Forked(r) \in Child /\ Forked(r).role = r /\ Forked(r).st = "check"
    BY DEF Forked, Child, States
  <2>4. /\ son' \in [Sons -> Child] /\ son'[n] = Forked(r)
        /\ \A q \in Sons : q # n => son'[q] = son[q]
        /\ cur' \in [Roles -> Sons] /\ cur'[r] = n
        /\ \A q \in Roles : q # r => cur'[q] = cur[q]
    BY <1>0, <2>1, <2>2, <2>3 DEF LongType
  <2>5. LongType'
    BY <1>0, <1>1, <1>3, <2>4 DEF LongType
  <2>6. Known'
    <3> SUFFICES ASSUME NEW q \in Roles PROVE son'[cur'[q]].role = q /\ cur'[q] <= forks' + 2
      BY DEF Known
    <3>1. CASE q = r
      <4>1. n <= forks' + 2
        BY <1>0, <1>1 DEF LongType, n
      <4> QED BY <2>3, <2>4, <3>1, <4>1
    <3>2. CASE q # r
      <4>1. cur[q] <= forks' + 2
        BY <1>0, <1>1, <2>1 DEF Known, LongType, Sons
      <4> QED BY <1>0, <2>1, <2>4, <3>2, <4>1 DEF Known
    <3> QED BY <3>1, <3>2
  <2>7. Counted'
    BY <1>0, <1>1, <1>3 DEF Counted
  <2>8. ASSUME ~skewed' PROVE Whole' /\ Alone' /\ AtBody' /\ Before'
    <3>1. Whole /\ Alone /\ AtBody /\ Before
      BY <2>2, <2>8 DEF LongInv
    <3>2. Whole'
      BY <1>1, <3>1 DEF Whole
    <3>3. Alone'
      <4> SUFFICES ASSUME NEW k \in Sons, son'[k].role = "svr", k # cur'["svr"]
                   PROVE  son'[k].st \in {"none", "dead"} \/ son'[k].stopped
        BY DEF Alone
      <4>1. "svr" \in Roles
        BY DEF Roles
      <4>2. k # n
        BY <2>3, <2>4
      <4>3. son'[k] = son[k]
        BY <2>4, <4>2
      <4>4. CASE k = cur["svr"]
        <5>1. r = "svr"
          BY <2>4, <4>1, <4>4
        <5> QED BY <2>2, <4>3, <4>4, <5>1
      <4>5. CASE k # cur["svr"]
        BY <3>1, <4>3, <4>5 DEF Alone
      <4> QED BY <4>4, <4>5
    <3>4. \/ son'[cur'["svr"]].st = "check"
          \/ cur'["svr"] = cur["svr"] /\ son'[cur["svr"]] = son[cur["svr"]]
      BY <2>1, <2>3, <2>4 DEF Roles
    <3>5. AtBody' /\ Before'
      BY <1>1, <3>1, <3>4 DEF AtBody, Before
    <3> QED BY <3>2, <3>3, <3>5
  <2> QED BY <2>5, <2>6, <2>7, <2>8 DEF LongInv
<1> QED BY <1>1, <1>2, <1>3 DEF Refork

\* Steps of the others.
LEMMA OtherKeeps ==
    ASSUME LongInv, PeerCloses \/ ReplySent \/ Terminate \/ UNCHANGED longVars
    PROVE  LongInv'
<1>0. LongType /\ Known /\ Counted
  BY DEF LongInv
<1>1. /\ UNCHANGED <<son, cur, link, bus, forks, skewed, extra>> /\ main' \in {main, "down"}
      /\ peer' = peer \/ peer' = [peer EXCEPT !.there = FALSE]
  BY DEF PeerCloses, ReplySent, Terminate, longVars
<1>2. peer' \in [sent : Nat, there : BOOLEAN] /\ peer'.sent = peer.sent
  <2>1. peer \in [sent : Nat, there : BOOLEAN]
    BY <1>0 DEF LongType
  <2> QED BY <1>1, <2>1
<1>3. LongType' /\ Known' /\ Counted'
  BY <1>0, <1>1, <1>2 DEF LongType, Known, Counted
<1>4. Whole /\ Alone /\ AtBody /\ Before => Whole' /\ Alone' /\ AtBody' /\ Before'
  BY <1>1, <1>2 DEF Whole, Alone, AtBody, Before
<1> QED BY <1>1, <1>3, <1>4 DEF LongInv

\* A child looks for its parent, takes or passes on a reply, or finds the peer gone.
LEMMA LoopKeeps ==
    ASSUME LongInv, NEW k \in Sons, Check(k) \/ RcvEnd(k) \/ TakeReply(k) \/ PassReply(k)
    PROVE  LongInv'
<1>0. LongType /\ Counted
  BY DEF LongInv
<1>1. /\ UNCHANGED <<main, cur, link, peer, bus, forks, skewed>>
      /\ ~son[k].stopped /\ son[k].st \in {"check", "head", "body", "get", "write"}
  BY DEF Check, RcvEnd, TakeReply, PassReply, Ready
<1>2. 0 \in Nat
  OBVIOUS
<1>3. CASE Check(k)
  <2>1. extra' = extra
    BY <1>3 DEF Check
  <2>2. \/ main = "down" /\ Son(k, "dead", 0)
        \/ main # "down" /\ (Son(k, "head", 0) \/ Son(k, "get", 0))
    BY <1>3 DEF Check
  <2>3. main # "down" => extra[k] = 0
    BY <1>0 DEF LongType, Counted
  <2> QED BY <1>1, <1>2, <2>1, <2>2, <2>3, WorkKeeps
<1>4. CASE ~Check(k)
  <2>1. /\ extra[k] = 0 /\ (extra' = extra \/ Handled(k))
        /\ \/ Son(k, "check", 0) \/ Son(k, "dead", 0)
           \/ Son(k, "write", 0) /\ extra' = extra
    BY <1>0, <1>4 DEF RcvEnd, TakeReply, PassReply, Ready, Counted
  <2> QED BY <1>1, <1>2, <2>1, WorkKeeps
<1> QED BY <1>3, <1>4

\* The invariant is inductive.
LEMMA LongStep == LongInv /\ [LongNext]_longVars => LongInv'
<1> SUFFICES ASSUME LongInv, [LongNext]_longVars PROVE LongInv'
  OBVIOUS
<1>1. CASE PeerSends
  BY <1>1, SendKeeps
<1>2. CASE PeerCloses \/ ReplySent \/ Terminate \/ UNCHANGED longVars
  BY <1>2, OtherKeeps
<1>3. CASE Refork
  BY <1>3, ReforkKeeps
<1>4. ASSUME NEW k \in Sons, Crash(k) \/ Stop(k) \/ Continue(k) PROVE LongInv'
  BY <1>4, SignalKeeps
<1>5. ASSUME NEW k \in Sons, RcvHead(k) \/ RcvBody(k) PROVE LongInv'
  BY <1>5, ReadKeeps
<1>6. ASSUME NEW k \in Sons, Acall(k) PROVE LongInv'
  BY <1>6, AcallKeeps
<1>7. ASSUME NEW k \in Sons, Check(k) \/ RcvEnd(k) \/ TakeReply(k) \/ PassReply(k) PROVE LongInv'
  BY <1>7, LoopKeeps
<1> QED BY <1>1, <1>2, <1>3, <1>4, <1>5, <1>6, <1>7 DEF LongNext

\* For any number of messages and of children that die or are stopped and are forked
\* anew: requests get to the bus in the peer's order and once each, unless a child was
\* killed or replaced inside a message or went on after it was replaced, and no child
\* outlives its parent by more than a message.
THEOREM LinkKept == LongSpec => []LinkSound
<1>1. LongInv => LinkSound
  <2> SUFFICES ASSUME LongInv PROVE LinkSound
    OBVIOUS
  <2>1. OneMore
    BY DEF LongInv, Counted, OneMore
  <2>2. InOrder
    <3>1. DOMAIN bus = 1..Len(bus)
      BY DEF LongInv, LongType
    <3> QED BY <3>1 DEF LongInv, Before, InOrder
  <2> QED BY <2>1, <2>2 DEF LinkSound
<1> QED BY <1>1, LongStart, LongStep, PTL DEF LongSpec
=============================================================================
