------------------------------ MODULE LongConn ------------------------------
(***************************************************************************)
(* C002, one long connection: a child that serves reads the peer's         *)
(* requests from one socket and puts them on the bus, another child takes  *)
(* replies from the bus and writes them to the peer.  The parent forks a   *)
(* child anew when waitpid reports it, with the same two sockets, so that  *)
(* one child goes on in the stream where the other stopped.  waitpid asks  *)
(* for WUNTRACED: a child that was only stopped is replaced as well, and   *)
(* may go on beside the new one.                                           *)
(***************************************************************************)
EXTENDS Integers, Sequences

CONSTANTS MaxMsgs,   \* bound on the peer's messages, and on the replies
          MaxForks   \* bound on the children forked anew

ASSUME ForksAssumption == MaxForks \in Nat

Roles == {"svr", "clt"}
Sons  == 1..MaxForks + 2     \* all children ever forked

VARIABLES main,      \* the parent: "up" or "down"
          son,       \* the children
          cur,       \* gpidSonPid: the child the parent knows in each role
          link,      \* the stream from the peer: heads and bodies of messages
          peer,      \* what the peer has sent, and whether it is there
          bus,       \* requests put on the bus, in order
          replies,   \* how many replies of the type the child waits for are queued
          forks,
          skewed,    \* history: a child was lost or replaced between a head and its
                     \* body, or went on reading after it was replaced
          extra      \* history: messages each child handled after its parent ended

longVars == <<main, son, cur, link, peer, bus, replies, forks, skewed, extra>>

Forked(r) == [role |-> r, st |-> "check", msg |-> 0, stopped |-> FALSE]
Unborn   == [role |-> "clt", st |-> "none", msg |-> 0, stopped |-> FALSE]

LongInit ==
    /\ main = "up" /\ cur = [r \in Roles |-> IF r = "clt" THEN 1 ELSE 2]
    /\ son = [k \in Sons |-> IF k = 1 THEN Forked("clt") ELSE IF k = 2 THEN Forked("svr") ELSE Unborn]
    /\ link = <<>> /\ peer = [sent |-> 0, there |-> TRUE] /\ bus = <<>> /\ replies = 0
    /\ forks = 0 /\ skewed = FALSE /\ extra = [k \in Sons |-> 0]

Living(k)        == son[k].st \notin {"none", "dead"}
Ready(k, role, st) == son[k].role = role /\ son[k].st = st /\ ~son[k].stopped
Son(k, st, msg) == son' = [son EXCEPT ![k] = [@ EXCEPT !.st = st, !.msg = msg]]
Handled(k)      == extra' = IF main = "down" THEN [extra EXCEPT ![k] = @ + 1] ELSE extra

-----------------------------------------------------------------------------
\* The peer sends a message, or one without a body (a heartbeat), and goes away;
\* somebody sends a reply to the type the child waits for.
PeerSends ==
    /\ peer.there /\ peer.sent < MaxMsgs /\ peer' = [peer EXCEPT !.sent = @ + 1]
    /\ \E parts \in {<<"head", "body">>, <<"empty">>} :
         link' = link \o [i \in DOMAIN parts |-> [part |-> parts[i], msg |-> peer.sent + 1]]
    /\ UNCHANGED <<main, son, cur, bus, replies, forks, skewed, extra>>

PeerCloses ==
    /\ peer.there /\ peer' = [peer EXCEPT !.there = FALSE]
    /\ UNCHANGED <<main, son, cur, link, bus, replies, forks, skewed, extra>>

ReplySent ==
    /\ replies < MaxMsgs /\ replies' = replies + 1
    /\ UNCHANGED <<main, son, cur, link, peer, bus, forks, skewed, extra>>

\* A child is killed; a body that it was to read becomes the next child's head.
Crash(k) ==
    /\ Living(k)
    /\ son' = [son EXCEPT ![k] = [@ EXCEPT !.st = "dead", !.msg = 0, !.stopped = FALSE]]
    /\ skewed' = (skewed \/ son[k].st = "body")
    /\ UNCHANGED <<main, cur, link, peer, bus, replies, forks, extra>>

\* A child is stopped, by SIGSTOP or by its terminal, and goes on.
Stop(k) ==
    /\ Living(k) /\ ~son[k].stopped /\ son' = [son EXCEPT ![k].stopped = TRUE]
    /\ UNCHANGED <<main, cur, link, peer, bus, replies, forks, skewed, extra>>

Continue(k) ==
    /\ son[k].stopped /\ son' = [son EXCEPT ![k].stopped = FALSE]
    /\ skewed' = (skewed \/ (son[k].role = "svr" /\ k # cur["svr"]))
    /\ UNCHANGED <<main, cur, link, peer, bus, replies, forks, extra>>

-----------------------------------------------------------------------------
\* Mutant: the child does not look for its parent.
Check_never(k) ==
    /\ son[k].st = "check" /\ ~son[k].stopped
    /\ Son(k, IF son[k].role = "svr" THEN "head" ELSE "get", 0)
    /\ UNCHANGED <<main, cur, link, peer, bus, replies, forks, skewed, extra>>

\* The top of both loops: a child whose parent has ended exits.
Check(k) ==
    /\ son[k].st = "check" /\ ~son[k].stopped
    /\ Son(k, IF main = "down" THEN "dead" ELSE IF son[k].role = "svr" THEN "head" ELSE "get", 0)
    /\ UNCHANGED <<main, cur, link, peer, bus, replies, forks, skewed, extra>>

\* RcvTxnMsg, the length; an empty message is skipped, and so is a body that is
\* taken for a length and is no number.
RcvHead(k) ==
    /\ Ready(k, "svr", "head") /\ link # <<>> /\ link' = Tail(link)
    /\ \/ link[1].part = "head" /\ Son(k, "body", link[1].msg) /\ UNCHANGED extra
       \/ link[1].part # "head" /\ Son(k, "check", 0) /\ Handled(k)
    /\ UNCHANGED <<main, cur, peer, bus, replies, forks, skewed>>

\* RcvTxnMsg, as many bytes as the length says.
RcvBody(k) ==
    /\ Ready(k, "svr", "body") /\ link # <<>> /\ link' = Tail(link)
    /\ Son(k, "acall", link[1].msg)
    /\ UNCHANGED <<main, cur, peer, bus, replies, forks, skewed, extra>>

\* The peer has gone: the child exits, or reads again and again when errno still
\* says that a call was interrupted.
RcvEnd(k) ==
    /\ Ready(k, "svr", "head") \/ Ready(k, "svr", "body")
    /\ link = <<>> /\ ~peer.there
    /\ \E st \in {"check", "dead"} : Son(k, st, 0)
    /\ UNCHANGED <<main, cur, link, peer, bus, replies, forks, skewed, extra>>

\* tux_acall: sent; or refused, and the request is dropped; or the system is down.
Acall(k) ==
    /\ Ready(k, "svr", "acall")
    /\ \/ bus' = Append(bus, son[k].msg) /\ Son(k, "check", 0)
       \/ UNCHANGED bus /\ \E st \in {"check", "dead"} : Son(k, st, 0)
    /\ Handled(k) /\ UNCHANGED <<main, cur, link, peer, replies, forks, skewed>>

\* tux_getreply, or its failure when the queue is gone.
TakeReply(k) ==
    /\ Ready(k, "clt", "get")
    /\ \/ replies > 0 /\ Son(k, "write", 0) /\ replies' = replies - 1
       \/ Son(k, "dead", 0) /\ UNCHANGED replies
    /\ UNCHANGED <<main, cur, link, peer, bus, forks, skewed, extra>>

\* The reply is written; or the peer has gone; or the alarm, which this child does
\* not handle, ends it.
PassReply(k) ==
    /\ Ready(k, "clt", "write")
    /\ \/ peer.there /\ Son(k, "check", 0)
       \/ Son(k, "dead", 0)
    /\ Handled(k) /\ UNCHANGED <<main, cur, link, peer, bus, replies, forks, skewed>>

\* The SIGCLD handler forks a child anew that ended or was stopped; when it cannot the
\* parent ends.  A stopped child it no longer knows is not replaced when it ends.
Refork ==
    /\ main = "up" /\ forks < MaxForks /\ forks' = forks + 1
    /\ \E r \in Roles :
         /\ son[cur[r]].st = "dead" \/ son[cur[r]].stopped
         /\ \/ /\ son' = [son EXCEPT ![forks + 3] = Forked(r)] /\ cur' = [cur EXCEPT ![r] = forks + 3]
               /\ skewed' = (skewed \/ son[cur[r]].st = "body") /\ UNCHANGED main
            \/ main' = "down" /\ UNCHANGED <<son, cur, skewed>>
    /\ UNCHANGED <<link, peer, bus, replies, extra>>

\* SIGTERM: the children are told to end, but they were forked with that signal held.
Terminate ==
    /\ main = "up" /\ main' = "down"
    /\ UNCHANGED <<son, cur, link, peer, bus, replies, forks, skewed, extra>>

LongNext ==
    \/ PeerSends \/ PeerCloses \/ ReplySent
    \/ \E k \in Sons : \/ Crash(k) \/ Stop(k) \/ Continue(k) \/ Check(k) \/ RcvHead(k) \/ RcvBody(k)
                       \/ RcvEnd(k) \/ Acall(k) \/ TakeReply(k) \/ PassReply(k)
    \/ Refork \/ Terminate

LongSpec == LongInit /\ [][LongNext]_longVars

-----------------------------------------------------------------------------
\* Requests get to the bus in the order the peer sent them and once each, whichever
\* child read them, unless one was lost inside a message or, stopped and replaced,
\* went on beside the new one.
InOrder == skewed \/ \A i, j \in DOMAIN bus : i < j => bus[i] < bus[j]

\* After its parent's end a child handles at most the message it had begun to wait for.
OneMore == \A k \in Sons : extra[k] <= 1

\* Both: the replacement of children neither repeats nor reorders the peer's
\* requests, and none of them outlives its parent by more than one message.
LinkSound == InOrder /\ OneMore
=============================================================================
