-------------------------------- MODULE Bus --------------------------------
(***************************************************************************)
(* The message bus (dev/src/pubfun/tux/tuxmgr.c over the two System V      *)
(* queues of dev/src/pubfun/common/funmsq.c): synchronous calls            *)
(* (tux_call, by the children of C001 and by the operators' tools),        *)
(* asynchronous calls and their replies (tux_acall and tux_getreply, by    *)
(* the communication servers), the workers' loop (tux_service) with        *)
(* tux_return and tux_forward, and what the Governor's tmexit and tmfresh  *)
(* do to all of them (clean_task_msg, server_kill).                        *)
(*                                                                         *)
(* A message of the request queue is typed with its server, one of the     *)
(* reply queue with the reply type its caller chose: C001's children use   *)
(* their pid, a tool its command, so that two callers may share a type.    *)
(* A caller stands for all the processes that have its pid, one after the  *)
(* other.                                                                  *)
(***************************************************************************)
EXTENDS Integers, FiniteSets, SequencesExt

CONSTANTS
    SyncCallers,   \* processes that use tux_call
    AsyncCallers,  \* threads that use tux_acall
    Servers,
    Workers,
    Serves,        \* the server of a worker
    Advertised,    \* servers whose workers advertise the service they are called by
    Types,
    NoType,
    RType,         \* the reply type of a caller
    ReadTypes,     \* reply types with a tux_getreply loop
    MsqMax,        \* MSQ_MAX_NUM, 1024
    KCap,          \* messages the kernel takes before msgsnd blocks
    Outcomes,      \* what else happens: "early" alarms, "none" (no reply), "forward", "crash"
    MaxCalls,      \* bound on the calls
    MaxCmds,       \* bound on the operators' commands
    MaxCrash       \* bound on workers that crash

Callers == SyncCallers \cup AsyncCallers

ASSUME SetAssumption ==
    /\ IsFiniteSet(Callers) /\ IsFiniteSet(Workers)
    /\ SyncCallers \cap AsyncCallers = {}
    /\ NoType \notin Types
    /\ Serves \in [Workers -> Servers]
    /\ RType \in [Callers -> Types]
    /\ ReadTypes \subseteq Types

ASSUME LimitAssumption ==
    /\ MsqMax \in Nat /\ KCap \in Nat /\ MaxCalls \in Nat
    /\ MaxCmds \in Nat /\ MaxCrash \in Nat

VARIABLES
    state,     \* "up" or "dead": what tux_call reads in the server table
    req, rsp,  \* the request queue and the reply queue
    call,      \* the callers
    wk,        \* the workers
    gov,       \* the Governor's command handler
    ids,       \* calls made so far; a call's number is its identity
    cmds, crashes,
    orphaned   \* history: reply types with a call that ended without its reply

vars == <<state, req, rsp, call, wk, gov, ids, cmds, crashes, orphaned>>

NoCall == [at |-> "idle", to |-> 0, id |-> 0, rep |-> 0, late |-> FALSE]
NoMsg  == [type |-> NoType, id |-> 0]
NoWork == [at |-> "idle", term |-> FALSE, msg |-> NoMsg, to |-> 0]
GovIdle == [at |-> "idle", s |-> 0]

Init ==
    /\ state = [s \in Servers |-> "up"]
    /\ req = <<>> /\ rsp = <<>>
    /\ call = [c \in Callers |-> NoCall]
    /\ wk = [w \in Workers |-> NoWork]
    /\ gov = GovIdle
    /\ ids = 0 /\ cmds = 0 /\ crashes = 0
    /\ orphaned = {}

-----------------------------------------------------------------------------
(***************************************************************************)
(* The queues.  msgrcv with a positive type takes the oldest message of    *)
(* that type; MsqSnd checks the number of messages in one system call and  *)
(* sends in another, and the second blocks while the kernel is full.       *)
(***************************************************************************)

FirstTo(s, i) == i \in DOMAIN req /\ req[i].to = s /\ \A j \in 1..(i - 1) : req[j].to # s

FirstOf(t, i) == i \in DOMAIN rsp /\ rsp[i].type = t /\ \A j \in 1..(i - 1) : rsp[j].type # t

\* Mutant: the check is not asked for (MSQ_CHK_NO).
QueueFull_off(q) == FALSE

\* MsqSnd's check refuses the message.
QueueFull(q) == Len(q) > MsqMax

\* msgsnd does not block.
HasRoom(q) == Len(q) < KCap

-----------------------------------------------------------------------------
(***************************************************************************)
(* Callers: tux_call and tux_acall.                                        *)
(***************************************************************************)

\* The state of the server, read once.
Locate(c, s) ==
    /\ call[c].at = "idle"
    /\ ids < MaxCalls
    /\ ids' = ids + 1
    /\ call' = IF state[s] = "dead" THEN call           \* SYS_DEAD_SVC
               ELSE [call EXCEPT ![c] = [at |-> "stat", to |-> s, id |-> ids + 1,
                                         rep |-> 0, late |-> FALSE]]
    /\ UNCHANGED <<state, req, rsp, wk, gov, cmds, crashes, orphaned>>

\* MsqSnd, msgctl(IPC_STAT).
Stat(c) ==
    /\ call[c].at = "stat"
    /\ call' = [call EXCEPT ![c] = IF QueueFull(req) THEN NoCall ELSE [@ EXCEPT !.at = "send"]]
    /\ UNCHANGED <<state, req, rsp, wk, gov, ids, cmds, crashes, orphaned>>

\* MsqSnd, msgsnd; tux_acall returns.
Send(c) ==
    /\ call[c].at = "send"
    /\ HasRoom(req)
    /\ req' = Append(req, [to |-> call[c].to, type |-> RType[c], id |-> call[c].id])
    /\ call' = [call EXCEPT ![c] = IF c \in SyncCallers THEN [@ EXCEPT !.at = "sent"]
                                                        ELSE NoCall]
    /\ UNCHANGED <<state, rsp, wk, gov, ids, cmds, crashes, orphaned>>

\* The alarm goes off after tux_settimer and before msgrcv.
AlarmEarly(c) ==
    /\ "early" \in Outcomes
    /\ call[c].at = "sent" /\ ~call[c].late
    /\ call' = [call EXCEPT ![c].late = TRUE]
    /\ UNCHANGED <<state, req, rsp, wk, gov, ids, cmds, crashes, orphaned>>

\* The caller blocks in msgrcv.
Listen(c) ==
    /\ call[c].at = "sent"
    /\ call' = [call EXCEPT ![c].at = "wait"]
    /\ UNCHANGED <<state, req, rsp, wk, gov, ids, cmds, crashes, orphaned>>

\* Mutants: any reply is taken; the interrupted msgrcv is called again, as in
\* tux_service.
Receive_any(c) ==
    /\ call[c].at = "wait"
    /\ rsp # <<>>
    /\ rsp' = Tail(rsp)
    /\ call' = [call EXCEPT ![c].at = "got", ![c].rep = rsp[1].id]
    /\ UNCHANGED <<state, req, wk, gov, ids, cmds, crashes, orphaned>>
Interrupt_again(c) ==
    /\ call[c].at = "wait" /\ ~call[c].late
    /\ UNCHANGED vars

\* msgrcv returns the oldest reply of the caller's type.
Receive(c) ==
    /\ call[c].at = "wait"
    /\ \E i \in DOMAIN rsp :
         /\ FirstOf(RType[c], i)
         /\ rsp' = RemoveAt(rsp, i)
         /\ call' = [call EXCEPT ![c].at = "got", ![c].rep = rsp[i].id]
    /\ UNCHANGED <<state, req, wk, gov, ids, cmds, crashes, orphaned>>

\* The alarm interrupts msgrcv: tux_call fails and the reply, if it comes, stays.
Interrupt(c) ==
    /\ call[c].at = "wait" /\ ~call[c].late
    /\ call' = [call EXCEPT ![c] = NoCall]
    /\ orphaned' = orphaned \cup {RType[c]}
    /\ UNCHANGED <<state, req, rsp, wk, gov, ids, cmds, crashes>>

\* The alarm goes off after msgrcv and before tux_unsettimer.
AlarmLate(c) ==
    /\ call[c].at = "got" /\ ~call[c].late
    /\ call' = [call EXCEPT ![c].late = TRUE]
    /\ UNCHANGED <<state, req, rsp, wk, gov, ids, cmds, crashes, orphaned>>

\* tux_call returns the reply, or SYS_TIMEOUT when the alarm went off.
Return(c) ==
    /\ call[c].at = "got"
    /\ call' = [call EXCEPT ![c] = NoCall]
    /\ orphaned' = IF call[c].rep = call[c].id THEN orphaned ELSE orphaned \cup {RType[c]}
    /\ UNCHANGED <<state, req, rsp, wk, gov, ids, cmds, crashes>>

\* tux_getreply, flags 0: one message of the type is taken.
tux_getreply(t) ==
    /\ \E i \in DOMAIN rsp : FirstOf(t, i) /\ rsp' = RemoveAt(rsp, i)
    /\ UNCHANGED <<state, req, call, wk, gov, ids, cmds, crashes, orphaned>>

-----------------------------------------------------------------------------
(***************************************************************************)
(* Workers: tux_service, tux_return and tux_forward.                       *)
(***************************************************************************)

\* The next request of the worker's server; one for a service the worker
\* does not advertise is dropped.
Received(w, m) ==
    IF Serves[w] \in Advertised
    THEN [wk EXCEPT ![w].at = "busy", ![w].msg = [type |-> m.type, id |-> m.id]]
    ELSE wk

\* Mutants: the message stays in the queue; only the head of the queue is read.
Take_peek(w) ==
    /\ wk[w].at = "idle"
    /\ \E i \in DOMAIN req : FirstTo(Serves[w], i) /\ wk' = Received(w, req[i])
    /\ UNCHANGED <<state, req, rsp, call, gov, ids, cmds, crashes, orphaned>>
Take_head(w) ==
    /\ wk[w].at = "idle"
    /\ FirstTo(Serves[w], 1)
    /\ req' = Tail(req)
    /\ wk' = Received(w, req[1])
    /\ UNCHANGED <<state, rsp, call, gov, ids, cmds, crashes, orphaned>>

Take(w) ==
    /\ wk[w].at = "idle"
    /\ \E i \in DOMAIN req :
         /\ FirstTo(Serves[w], i)
         /\ req' = RemoveAt(req, i)
         /\ wk' = Received(w, req[i])
    /\ UNCHANGED <<state, rsp, call, gov, ids, cmds, crashes, orphaned>>

Finished(w) == [wk EXCEPT ![w] = [NoWork EXCEPT !.term = wk[w].term]]

\* The handler returns without a reply: flags -1, no data, or too much.
NoReply(w) ==
    /\ "none" \in Outcomes
    /\ wk[w].at = "busy"
    /\ wk' = Finished(w)
    /\ UNCHANGED <<state, req, rsp, call, gov, ids, cmds, crashes, orphaned>>

\* tux_return_reply: MsqSnd's check; a reply that does not fit is dropped.
ReplyStat(w) ==
    /\ wk[w].at = "busy"
    /\ wk' = IF QueueFull(rsp) THEN Finished(w) ELSE [wk EXCEPT ![w].at = "reply"]
    /\ UNCHANGED <<state, req, rsp, call, gov, ids, cmds, crashes, orphaned>>

ReplySend(w) ==
    /\ wk[w].at = "reply"
    /\ HasRoom(rsp)
    /\ rsp' = Append(rsp, wk[w].msg)
    /\ wk' = Finished(w)
    /\ UNCHANGED <<state, req, call, gov, ids, cmds, crashes, orphaned>>

\* Mutant: the destination is not remembered.
FwdStat_lost(w, s) ==
    /\ "forward" \in Outcomes
    /\ wk[w].at = "busy"
    /\ ~QueueFull(req)
    /\ wk' = [wk EXCEPT ![w].at = "fwd"]
    /\ UNCHANGED <<state, req, rsp, call, gov, ids, cmds, crashes, orphaned>>

\* tux_forward reads no state; with a full queue it returns to the handler,
\* which is still "busy".
FwdStat(w, s) ==
    /\ "forward" \in Outcomes
    /\ wk[w].at = "busy"
    /\ ~QueueFull(req)
    /\ wk' = [wk EXCEPT ![w].at = "fwd", ![w].to = s]
    /\ UNCHANGED <<state, req, rsp, call, gov, ids, cmds, crashes, orphaned>>

\* What is sent is what the handler passes; tux_forward adds no head, so that
\* the data have to begin with the request's own head (gipcMsgHead).
FwdSend(w) ==
    /\ wk[w].at = "fwd"
    /\ HasRoom(req)
    /\ req' = Append(req, [to |-> wk[w].to, type |-> wk[w].msg.type, id |-> wk[w].msg.id])
    /\ wk' = Finished(w)
    /\ UNCHANGED <<state, rsp, call, gov, ids, cmds, crashes, orphaned>>

\* A handler crashes, with the request it has.
Crash(w) ==
    /\ "crash" \in Outcomes
    /\ crashes < MaxCrash
    /\ wk[w].at = "busy"
    /\ crashes' = crashes + 1
    /\ wk' = [wk EXCEPT ![w] = [NoWork EXCEPT !.at = "gone"]]
    /\ UNCHANGED <<state, req, rsp, call, gov, ids, cmds, orphaned>>

\* msgrcv fails in another way than EINTR: tux_service returns -1 and the worker's
\* loop ends (tuxmain.c), unless an earlier call left SYS_NOENT in tux_errno, when
\* it goes on.
ServiceFails(w) ==
    /\ "crash" \in Outcomes
    /\ crashes < MaxCrash
    /\ wk[w].at = "idle"
    /\ crashes' = crashes + 1
    /\ wk' = [wk EXCEPT ![w] = [NoWork EXCEPT !.at = "gone"]]
    /\ UNCHANGED <<state, req, rsp, call, gov, ids, cmds, orphaned>>

\* exit_handler of tuxmain.c, wherever SIGTERM finds the worker.
TermExit(w) ==
    /\ wk[w].term
    /\ wk' = [wk EXCEPT ![w] = [NoWork EXCEPT !.at = "gone"]]
    /\ UNCHANGED <<state, req, rsp, call, gov, ids, cmds, crashes, orphaned>>

\* The Governor starts the worker again (module Governor says when).
Start(w) ==
    /\ wk[w].at = "gone"
    /\ gov.at = "idle"
    /\ state[Serves[w]] = "up"
    /\ wk' = [wk EXCEPT ![w] = NoWork]
    /\ UNCHANGED <<state, req, rsp, call, gov, ids, cmds, crashes, orphaned>>

-----------------------------------------------------------------------------
(***************************************************************************)
(* The Governor's commands, as far as they touch the bus.                  *)
(***************************************************************************)

\* TUX_DEAD and server_kill; next is what the command does after that.
Stopped(s, next) ==
    /\ gov.at = "idle"
    /\ cmds < MaxCmds
    /\ cmds' = cmds + 1
    /\ state' = [state EXCEPT ![s] = "dead"]
    /\ wk' = [w \in Workers |-> IF Serves[w] = s /\ wk[w].at # "gone"
                                THEN [wk[w] EXCEPT !.term = TRUE] ELSE wk[w]]
    /\ gov' = [at |-> next, s |-> s]
    /\ UNCHANGED <<req, rsp, call, ids, crashes, orphaned>>

CmdExit(s)  == Stopped(s, "clean")
CmdFresh(s) == Stopped(s, "run")

\* clean_task_msg: one message after the other until there is none.
clean_task_msg ==
    /\ gov.at = "clean"
    /\ \/ /\ \E i \in DOMAIN req : FirstTo(gov.s, i) /\ req' = RemoveAt(req, i)
          /\ UNCHANGED gov
       \/ /\ \A i \in DOMAIN req : req[i].to # gov.s
          /\ gov' = GovIdle
          /\ UNCHANGED req
    /\ UNCHANGED <<state, rsp, call, wk, ids, cmds, crashes, orphaned>>

\* run_task_id ends with TUX_IDLE.
FreshDone ==
    /\ gov.at = "run"
    /\ state' = [state EXCEPT ![gov.s] = "up"]
    /\ gov' = GovIdle
    /\ UNCHANGED <<req, rsp, call, wk, ids, cmds, crashes, orphaned>>

-----------------------------------------------------------------------------

CallerStep(c) == \/ \E s \in Servers : Locate(c, s)
                 \/ Stat(c) \/ Send(c) \/ AlarmEarly(c) \/ Listen(c) \/ Receive(c)
                 \/ Interrupt(c) \/ AlarmLate(c) \/ Return(c)

WorkerStep(w) == \/ Take(w) \/ NoReply(w) \/ ReplyStat(w) \/ ReplySend(w)
                 \/ \E s \in Servers : FwdStat(w, s)
                 \/ FwdSend(w) \/ Crash(w) \/ ServiceFails(w) \/ TermExit(w) \/ Start(w)

GovStep == \/ \E s \in Servers : CmdExit(s) \/ CmdFresh(s)
           \/ clean_task_msg \/ FreshDone

Next == \/ \E c \in Callers : CallerStep(c)
        \/ \E w \in Workers : WorkerStep(w)
        \/ \E t \in ReadTypes : tux_getreply(t)
        \/ GovStep

Spec == Init /\ [][Next]_vars

\* System calls return when they can, alarms go off, handlers end, SIGTERM is
\* delivered, the Governor finishes its commands and restarts its workers.
Fairness ==
    /\ \A c \in Callers : /\ WF_vars(Stat(c)) /\ WF_vars(Send(c)) /\ WF_vars(Listen(c))
                          /\ WF_vars(Receive(c)) /\ WF_vars(Interrupt(c)) /\ WF_vars(Return(c))
    /\ \A w \in Workers : /\ WF_vars(Take(w)) /\ WF_vars(TermExit(w)) /\ WF_vars(Start(w))
                          /\ WF_vars(NoReply(w) \/ ReplyStat(w))
                          /\ WF_vars(ReplySend(w)) /\ WF_vars(FwdSend(w))
    /\ \A t \in ReadTypes : WF_vars(tux_getreply(t))
    /\ WF_vars(clean_task_msg) /\ WF_vars(FreshDone)

FairSpec == Spec /\ Fairness
-----------------------------------------------------------------------------
(***************************************************************************)
(* Properties.                                                             *)
(***************************************************************************)

CallRec == [at : {"idle", "stat", "send", "sent", "wait", "got"}, to : Servers \cup {0},
            id : Nat, rep : Nat, late : BOOLEAN]
Msg     == [type : Types \cup {NoType}, id : Nat]
WorkRec == [at : {"idle", "busy", "reply", "fwd", "gone"}, term : BOOLEAN, msg : Msg,
            to : Servers \cup {0}]

\* Types, and: a worker has a request exactly while it handles one, and only
\* a caller of tux_call waits for a reply.
TypeOK ==
    /\ state \in [Servers -> {"up", "dead"}]
    /\ req \in Seq([to : Servers, type : Types, id : Nat])
    /\ rsp \in Seq([type : Types, id : Nat])
    /\ call \in [Callers -> CallRec]
    /\ wk \in [Workers -> WorkRec]
    /\ gov.at \in {"idle", "clean", "run"} /\ (gov.at # "idle" => gov.s \in Servers)
    /\ ids \in Nat /\ cmds \in Nat /\ crashes \in Nat
    /\ orphaned \subseteq Types
    /\ \A c \in Callers : call[c].at \in {"stat", "send"} => call[c].to \in Servers
    /\ \A w \in Workers : wk[w].at \in {"busy", "reply", "fwd"} => wk[w].msg.type \in Types
    /\ \A w \in Workers : wk[w].at = "fwd" => wk[w].to \in Servers

\* Where a call is on the bus: in one of the queues, in a worker or with the
\* caller that received its reply.
Copies(n) ==
    Cardinality({i \in DOMAIN req : req[i].id = n}) + Cardinality({i \in DOMAIN rsp : rsp[i].id = n})
    + Cardinality({w \in Workers : wk[w].msg.id = n}) + Cardinality({c \in Callers : call[c].rep = n})

\* No request is executed twice and no reply is delivered twice: whatever
\* crashes, is cleaned, forwarded or times out, a call is in one place at most.
OneCopy == \A n \in 1..ids : Copies(n) <= 1

\* tux_call returns the reply to its own request: no two calls are ever mixed
\* up, as long as no earlier call of the same reply type ended without its
\* reply.
OwnReply ==
    \A c \in SyncCallers :
        call[c].at = "got" /\ call[c].rep # call[c].id => RType[c] \in orphaned

Forwarders == IF "forward" \in Outcomes THEN Workers ELSE {}

\* MSQ_MAX_NUM is not a bound of the queues, since each sender checks and
\* sends in two steps; but the queues never hold more than one message per
\* sender above it.
QueuesBounded ==
    /\ Len(req) <= MsqMax + Cardinality(Callers) + Cardinality(Forwarders)
    /\ Len(rsp) <= MsqMax + Cardinality(Workers)

\* Every tux_call and tux_acall returns.
CallReturns == \A c \in Callers : call[c].at # "idle" ~> call[c].at = "idle"

\* A request for a server that is up is taken out of the queue, whatever
\* requests of other servers are before it, or its server is stopped.
RequestsTaken ==
    \A n \in 1..MaxCalls :
        (\E i \in DOMAIN req : req[i].id = n /\ state[req[i].to] = "up")
        ~> (\A i \in DOMAIN req : req[i].id = n => state[req[i].to] = "dead")

-----------------------------------------------------------------------------
(***************************************************************************)
(* What comments of the code say.                                          *)
(***************************************************************************)

\* tux.h:84 and 89: tux_call is synchronous and its rsp_buf is the reply.
ReplyMatches == \A c \in SyncCallers : call[c].at = "got" => call[c].rep = call[c].id

=============================================================================
