----------------------------- MODULE BusProofs -----------------------------
(***************************************************************************)
(* Proofs about Bus: its type invariant, the bound of its queues, that a   *)
(* call is in one place and that replies are not mixed up, for any number  *)
(* of callers, workers and servers and any limits.                         *)
(***************************************************************************)
EXTENDS Bus, SequenceTheorems, FiniteSetTheorems, TLAPS

\* msgrcv takes one message away and leaves a queue of the same type.
LEMMA RemoveAtSeq ==
    ASSUME NEW S, NEW q \in Seq(S), NEW i \in DOMAIN q
    PROVE  /\ RemoveAt(q, i) \in Seq(S)
           /\ Len(RemoveAt(q, i)) = Len(q) - 1
<1>1. i \in 1..Len(q) /\ Len(q) \in Nat
  OBVIOUS
<1>2. /\ SubSeq(q, 1, i - 1) \in Seq(S)
      /\ Len(SubSeq(q, 1, i - 1)) = i - 1
  BY <1>1, SubSeqProperties
<1>3. /\ SubSeq(q, i + 1, Len(q)) \in Seq(S)
      /\ Len(SubSeq(q, i + 1, Len(q))) = Len(q) - i
  BY <1>1, SubSeqProperties
<1> DEFINE a == SubSeq(q, 1, i - 1)
           b == SubSeq(q, i + 1, Len(q))
<1>4. a \o b \in Seq(S) /\ Len(a \o b) = Len(a) + Len(b)
  <2> HIDE DEF a, b
  <2> QED
    BY <1>2, <1>3, ConcatProperties DEF a, b
<1>5. RemoveAt(q, i) = a \o b
  BY Zenon DEF RemoveAt
<1> HIDE DEF a, b
<1>6. Len(a) = i - 1 /\ Len(b) = Len(q) - i
  BY <1>2, <1>3 DEF a, b
<1> QED
  BY <1>1, <1>4, <1>5, <1>6, SMTT(30)

\* A message of a queue has the type of its messages.
LEMMA MessageType ==
    ASSUME NEW S, NEW q \in Seq(S), NEW i \in DOMAIN q
    PROVE  q[i] \in S
  BY ElementOfSeq

-----------------------------------------------------------------------------
(***************************************************************************)
(* Types.                                                                  *)
(***************************************************************************)

\* Every variable is empty or idle when the bus is created.
LEMMA InitType == Init => TypeOK
<1> SUFFICES ASSUME Init PROVE TypeOK
  OBVIOUS
<1>1. NoCall \in CallRec /\ NoMsg \in Msg /\ NoWork \in WorkRec
  BY DEF NoCall, CallRec, NoMsg, Msg, NoWork, WorkRec
<1> QED
  BY <1>1 DEF Init, TypeOK, GovIdle, NoCall, NoWork

\* The steps of a caller keep the types.
LEMMA CallerType == ASSUME TypeOK, NEW c \in Callers, CallerStep(c) PROVE TypeOK'
<1> USE SetAssumption, LimitAssumption
<1>0. NoCall \in CallRec /\ NoCall.at = "idle"
  BY DEF NoCall, CallRec
<1>1. ASSUME NEW s \in Servers, Locate(c, s) PROVE TypeOK'
  <2> DEFINE r == [at |-> "stat", to |-> s, id |-> ids + 1, rep |-> 0, late |-> FALSE]
  <2>1. r \in CallRec /\ r.to \in Servers
    BY DEF CallRec, TypeOK
  <2>a. call' = call \/ call' = [call EXCEPT ![c] = r]
    BY <1>1 DEF Locate
  <2> HIDE DEF r
  <2>2. /\ call' \in [Callers -> CallRec]
        /\ \A d \in Callers : d # c => call'[d] = call[d]
        /\ call'[c] = call[c] \/ call'[c].to \in Servers
    BY <2>1, <2>a DEF TypeOK
  <2> QED
    BY <1>1, <2>2 DEF Locate, TypeOK
<1>2. CASE Stat(c)
  <2>1. [call[c] EXCEPT !.at = "send"] \in CallRec
    BY DEF TypeOK, CallRec
  <2> QED
    BY <1>0, <1>2, <2>1 DEF Stat, TypeOK, CallRec
<1>3. CASE Send(c)
  <2>1. [call[c] EXCEPT !.at = "sent"] \in CallRec
    BY DEF TypeOK, CallRec
  <2>2. [to |-> call[c].to, type |-> RType[c], id |-> call[c].id]
          \in [to : Servers, type : Types, id : Nat]
    BY <1>3 DEF Send, TypeOK, CallRec
  <2>3. req' \in Seq([to : Servers, type : Types, id : Nat])
    BY <1>3, <2>2 DEF Send, TypeOK
  <2>4. call' \in [Callers -> CallRec] /\ \A d \in Callers : d # c => call'[d] = call[d]
    BY <1>0, <1>3, <2>1 DEF Send, TypeOK
  <2>5. call'[c].at \notin {"stat", "send"}
    BY <1>0, <1>3, <2>1 DEF Send, TypeOK, CallRec
  <2> QED
    BY <1>3, <2>3, <2>4, <2>5 DEF Send, TypeOK
<1>4. CASE AlarmEarly(c) \/ AlarmLate(c) \/ Listen(c)
  <2>1. [call[c] EXCEPT !.late = TRUE] \in CallRec /\ [call[c] EXCEPT !.at = "wait"] \in CallRec
    BY DEF TypeOK, CallRec
  <2>2. /\ call' \in [Callers -> CallRec]
        /\ \A d \in Callers : d # c => call'[d] = call[d]
        /\ call'[c].at \notin {"stat", "send"}
    <3>1. CASE AlarmEarly(c) \/ AlarmLate(c)
      <4>1. call' = [call EXCEPT ![c] = [call[c] EXCEPT !.late = TRUE]]
            /\ call[c].at \notin {"stat", "send"}
        BY <3>1 DEF AlarmEarly, AlarmLate, TypeOK
      <4>2. [call[c] EXCEPT !.late = TRUE].at = call[c].at
        BY DEF TypeOK, CallRec
      <4> QED
        BY <2>1, <4>1, <4>2 DEF TypeOK
    <3>2. CASE Listen(c)
      BY <3>2, <2>1 DEF Listen, TypeOK, CallRec
    <3> QED
      BY <1>4, <3>1, <3>2
  <2>3. UNCHANGED <<state, req, rsp, wk, gov, ids, cmds, crashes, orphaned>>
    BY <1>4 DEF AlarmEarly, AlarmLate, Listen
  <2> QED
    BY <2>2, <2>3 DEF TypeOK
<1>5. CASE Receive(c)
  <2>1. PICK i \in DOMAIN rsp :
          /\ rsp' = RemoveAt(rsp, i)
          /\ call' = [call EXCEPT ![c].at = "got", ![c].rep = rsp[i].id]
    BY <1>5 DEF Receive
  <2>2. rsp' \in Seq([type : Types, id : Nat])
    BY <2>1, RemoveAtSeq DEF TypeOK
  <2>3. rsp[i] \in [type : Types, id : Nat]
    BY MessageType DEF TypeOK
  <2>4. call' \in [Callers -> CallRec] /\ call'[c].at = "got"
        /\ \A d \in Callers : d # c => call'[d] = call[d]
    <3>1. [call[c] EXCEPT !.at = "got", !.rep = rsp[i].id] \in {r \in CallRec : r.at = "got"}
      <4> DEFINE r == [call[c] EXCEPT !.at = "got"]
      <4>1. r \in CallRec /\ r.at = "got"
        BY DEF TypeOK, CallRec
      <4>2. [call[c] EXCEPT !.at = "got", !.rep = rsp[i].id] = [r EXCEPT !.rep = rsp[i].id]
        BY DEF TypeOK, CallRec
      <4> HIDE DEF r
      <4>3. [r EXCEPT !.rep = rsp[i].id] \in {x \in CallRec : x.at = "got"}
        BY <2>3, <4>1 DEF CallRec
      <4> QED
        BY <4>2, <4>3
    <3>2. call' = [call EXCEPT ![c] = [call[c] EXCEPT !.at = "got", !.rep = rsp[i].id]]
      BY <2>1 DEF TypeOK
    <3> QED
      BY <3>1, <3>2 DEF TypeOK
  <2> QED
    BY <1>5, <2>2, <2>4 DEF Receive, TypeOK
<1>6. CASE Interrupt(c) \/ Return(c)
  BY <1>0, <1>6 DEF Interrupt, Return, TypeOK
<1> QED
  BY <1>1, <1>2, <1>3, <1>4, <1>5, <1>6 DEF CallerStep

\* The steps of a worker keep the types.
LEMMA WorkerType == ASSUME TypeOK, NEW w \in Workers, WorkerStep(w) PROVE TypeOK'
<1> USE SetAssumption, LimitAssumption
<1>0. /\ NoMsg \in Msg /\ NoWork \in WorkRec /\ NoWork.at = "idle"
      /\ [NoWork EXCEPT !.at = "gone"] \in WorkRec
      /\ [NoWork EXCEPT !.at = "gone"].at = "gone"
  BY DEF NoMsg, Msg, NoWork, WorkRec
<1>a. /\ Finished(w) \in [Workers -> WorkRec]
      /\ Finished(w)[w].at = "idle"
      /\ \A v \in Workers : v # w => Finished(w)[v] = wk[v]
  <2>1. [NoWork EXCEPT !.term = wk[w].term] \in {r \in WorkRec : r.at = "idle"}
    BY <1>0 DEF NoWork, NoMsg, Msg, WorkRec, TypeOK
  <2> QED
    BY <2>1 DEF Finished, TypeOK
<1>1. CASE Take(w)
  <2>1. PICK i \in DOMAIN req : req' = RemoveAt(req, i) /\ wk' = Received(w, req[i])
    BY <1>1 DEF Take
  <2>2. req' \in Seq([to : Servers, type : Types, id : Nat])
    BY <2>1, RemoveAtSeq DEF TypeOK
  <2>3. [type |-> req[i].type, id |-> req[i].id] \in Msg /\ req[i].type \in Types
    <3>1. req[i] \in [to : Servers, type : Types, id : Nat]
      BY MessageType DEF TypeOK
    <3> QED
      BY <3>1 DEF Msg
  <2>4. /\ wk' \in [Workers -> WorkRec]
        /\ \A v \in Workers : v # w => wk'[v] = wk[v]
        /\ wk'[w] = wk[w] \/ (wk'[w].at = "busy" /\ wk'[w].msg.type \in Types)
    <3> DEFINE m == [type |-> req[i].type, id |-> req[i].id]
               r == [wk[w] EXCEPT !.at = "busy", !.msg = m]
    <3>1. m.type = req[i].type
      OBVIOUS
    <3> HIDE DEF m
    <3>2. r \in WorkRec /\ r.at = "busy" /\ r.msg = m
      BY <2>3 DEF m, TypeOK, WorkRec
    <3>3. wk' = wk \/ wk' = [wk EXCEPT ![w] = r]
      BY <2>1 DEF Received, TypeOK, m
    <3> HIDE DEF r
    <3> QED
      BY <2>3, <3>1, <3>2, <3>3 DEF TypeOK
  <2> QED
    BY <1>1, <2>2, <2>4 DEF Take, TypeOK
<1>2. CASE NoReply(w)
  BY <1>2, <1>a DEF NoReply, TypeOK
<1>3. CASE ReplyStat(w)
  <2>1. [wk EXCEPT ![w].at = "reply"] \in [Workers -> WorkRec]
    BY DEF TypeOK, WorkRec
  <2>2. wk' \in [Workers -> WorkRec] /\ \A v \in Workers : v # w => wk'[v] = wk[v]
    BY <1>3, <1>a, <2>1 DEF ReplyStat, TypeOK
  <2>3. wk'[w].at = "idle" \/ (wk'[w].at = "reply" /\ wk'[w].msg = wk[w].msg)
    BY <1>3, <1>a DEF ReplyStat, TypeOK, WorkRec
  <2>4. wk[w].msg.type \in Types
    BY <1>3 DEF ReplyStat, TypeOK
  <2> QED
    BY <1>3, <2>2, <2>3, <2>4 DEF ReplyStat, TypeOK
<1>4. CASE ReplySend(w)
  <2>1. wk[w].msg \in [type : Types, id : Nat]
    BY <1>4 DEF ReplySend, TypeOK, WorkRec, Msg
  <2>2. rsp' \in Seq([type : Types, id : Nat])
    BY <1>4, <2>1 DEF ReplySend, TypeOK
  <2> QED
    BY <1>4, <1>a, <2>2 DEF ReplySend, TypeOK
<1>5. ASSUME NEW s \in Servers, FwdStat(w, s) PROVE TypeOK'
  <2>1. /\ wk' \in [Workers -> WorkRec] /\ \A v \in Workers : v # w => wk'[v] = wk[v]
        /\ wk'[w].msg = wk[w].msg /\ wk'[w].to = s
    BY <1>5, ZenonT(60) DEF FwdStat, TypeOK, WorkRec
  <2>2. wk[w].msg.type \in Types
    BY <1>5 DEF FwdStat, TypeOK
  <2> QED
    BY <1>5, <2>1, <2>2 DEF FwdStat, TypeOK
<1>6. CASE FwdSend(w)
  <2>1. [to |-> wk[w].to, type |-> wk[w].msg.type, id |-> wk[w].msg.id]
          \in [to : Servers, type : Types, id : Nat]
    BY <1>6 DEF FwdSend, TypeOK, WorkRec, Msg
  <2>2. req' \in Seq([to : Servers, type : Types, id : Nat])
    BY <1>6, <2>1 DEF FwdSend, TypeOK
  <2> QED
    BY <1>6, <1>a, <2>2 DEF FwdSend, TypeOK
<1>7. CASE Crash(w) \/ ServiceFails(w) \/ TermExit(w) \/ Start(w)
  <2> DEFINE gone == [NoWork EXCEPT !.at = "gone"]
  <2>1. wk' = [wk EXCEPT ![w] = gone] \/ wk' = [wk EXCEPT ![w] = NoWork]
    BY <1>7 DEF Crash, ServiceFails, TermExit, Start
  <2>2. gone \in WorkRec /\ gone.at = "gone"
    BY <1>0
  <2> HIDE DEF gone
  <2>3. /\ wk' \in [Workers -> WorkRec]
        /\ \A v \in Workers : v # w => wk'[v] = wk[v]
        /\ wk'[w].at \in {"gone", "idle"}
    BY <1>0, <2>1, <2>2 DEF TypeOK
  <2>4. crashes' \in Nat /\ UNCHANGED <<state, req, rsp, call, gov, ids, cmds, orphaned>>
    BY <1>7 DEF Crash, ServiceFails, TermExit, Start, TypeOK
  <2> QED
    BY <2>3, <2>4 DEF TypeOK
<1> QED
  BY <1>1, <1>2, <1>3, <1>4, <1>5, <1>6, <1>7 DEF WorkerStep

\* The Governor's steps and the reply readers keep the types.
LEMMA GovType == TypeOK /\ (GovStep \/ \E t \in ReadTypes : tux_getreply(t)) => TypeOK'
<1> SUFFICES ASSUME TypeOK, GovStep \/ \E t \in ReadTypes : tux_getreply(t) PROVE TypeOK'
  OBVIOUS
<1>1. ASSUME NEW s \in Servers, CmdExit(s) \/ CmdFresh(s) PROVE TypeOK'
  <2>1. /\ wk' = [w \in Workers |-> IF Serves[w] = s /\ wk[w].at # "gone"
                                    THEN [wk[w] EXCEPT !.term = TRUE] ELSE wk[w]]
        /\ state' = [state EXCEPT ![s] = "dead"]
        /\ gov' \in {[at |-> "clean", s |-> s], [at |-> "run", s |-> s]}
        /\ cmds' = cmds + 1
        /\ UNCHANGED <<req, rsp, call, ids, crashes, orphaned>>
    BY <1>1 DEF CmdExit, CmdFresh, Stopped
  <2>2. \A w \in Workers : /\ wk'[w] \in WorkRec
                           /\ wk'[w].at = wk[w].at /\ wk'[w].msg = wk[w].msg
                           /\ wk'[w].to = wk[w].to
    BY <2>1 DEF TypeOK, WorkRec
  <2>3. wk' \in [Workers -> WorkRec]
    BY <2>1, <2>2
  <2>4. gov'.at \in {"idle", "clean", "run"} /\ gov'.s \in Servers
    BY <2>1
  <2> QED
    BY <2>1, <2>2, <2>3, <2>4 DEF TypeOK
<1>2. CASE clean_task_msg
  <2>1. req' \in Seq([to : Servers, type : Types, id : Nat])
    BY <1>2, RemoveAtSeq DEF clean_task_msg, TypeOK
  <2>2. gov'.at \in {"idle", "clean", "run"} /\ (gov'.at # "idle" => gov'.s \in Servers)
    BY <1>2 DEF clean_task_msg, TypeOK, GovIdle
  <2> QED
    BY <1>2, <2>1, <2>2 DEF clean_task_msg, TypeOK
<1>3. CASE FreshDone
  BY <1>3 DEF FreshDone, TypeOK, GovIdle
<1>4. ASSUME NEW t \in ReadTypes, tux_getreply(t) PROVE TypeOK'
  <2>1. rsp' \in Seq([type : Types, id : Nat])
    BY <1>4, RemoveAtSeq DEF tux_getreply, TypeOK
  <2> QED
    BY <1>4, <2>1 DEF tux_getreply, TypeOK
<1> QED
  BY <1>1, <1>2, <1>3, <1>4 DEF GovStep

\* The bus is well typed in every run: the queues hold only messages for
\* servers and reply types that exist, and a worker that answers has a
\* request whose reply type it knows.
THEOREM BusTypeCorrect == Spec => []TypeOK
<1>1. TypeOK /\ [Next]_vars => TypeOK'
  <2> SUFFICES ASSUME TypeOK, [Next]_vars PROVE TypeOK'
    OBVIOUS
  <2>1. CASE UNCHANGED vars
    BY <2>1 DEF vars, TypeOK
  <2>2. CASE Next
    BY <2>2, CallerType, WorkerType, GovType DEF Next
  <2> QED
    BY <2>1, <2>2
<1> QED
  BY <1>1, InitType, PTL DEF Spec

-----------------------------------------------------------------------------
(***************************************************************************)
(* The bound of the queues.  Len(req) <= MsqMax + ... is not inductive: a  *)
(* sender that has passed the check will send whatever the others did      *)
(* since.  Each such sender counts as a message that is already there.     *)
(***************************************************************************)

Sending    == {c \in Callers : call[c].at = "send"}
Forwarding == {w \in Workers : wk[w].at = "fwd"}
Replying   == {w \in Workers : wk[w].at = "reply"}

BoundInv ==
    /\ Forwarding \subseteq Forwarders
    /\ Len(req) + Cardinality(Sending) + Cardinality(Forwarding)
         <= MsqMax + Cardinality(Callers) + Cardinality(Forwarders)
    /\ Len(rsp) + Cardinality(Replying) <= MsqMax + Cardinality(Workers)

\* The senders are finite sets, so that they can be counted.
LEMMA Finite ==
    /\ IsFiniteSet(Callers) /\ Cardinality(Callers) \in Nat
    /\ IsFiniteSet(Workers) /\ Cardinality(Workers) \in Nat
    /\ IsFiniteSet(Forwarders) /\ Cardinality(Forwarders) \in Nat
    /\ \A T \in SUBSET Callers : /\ IsFiniteSet(T) /\ Cardinality(T) \in Nat
                                 /\ Cardinality(T) <= Cardinality(Callers)
    /\ \A T \in SUBSET Workers : /\ IsFiniteSet(T) /\ Cardinality(T) \in Nat
                                 /\ Cardinality(T) <= Cardinality(Workers)
    /\ \A T \in SUBSET Forwarders : Cardinality(T) <= Cardinality(Forwarders)
<1>1. IsFiniteSet(Callers) /\ IsFiniteSet(Workers)
  BY SetAssumption
<1>2. IsFiniteSet(Forwarders)
  BY <1>1, FS_EmptySet DEF Forwarders
<1> QED
  BY <1>1, <1>2, FS_Subset, FS_CardinalityType

\* The bus starts with empty queues and no sender.
LEMMA InitBound == Init => BoundInv
<1> SUFFICES ASSUME Init PROVE BoundInv
  OBVIOUS
<1>1. Sending = {} /\ Forwarding = {} /\ Replying = {}
  BY DEF Init, Sending, Forwarding, Replying, NoCall, NoWork
<1>2. Len(req) = 0 /\ Len(rsp) = 0
  BY DEF Init
<1> QED
  BY <1>1, <1>2, Finite, FS_EmptySet, LimitAssumption DEF BoundInv

\* The two bounds, as functions of what they count.
ReqBound(q, S, F) ==
    Len(q) + Cardinality(S) + Cardinality(F)
      <= MsqMax + Cardinality(Callers) + Cardinality(Forwarders)
RspBound(q, R) == Len(q) + Cardinality(R) <= MsqMax + Cardinality(Workers)

\* Fewer messages and fewer senders keep the bounds, ...
LEMMA ReqLess ==
    ASSUME NEW S \in SUBSET Callers, NEW F \in SUBSET Workers, NEW q, NEW p,
           Len(q) \in Nat, Len(p) \in Nat, Len(p) <= Len(q), ReqBound(q, S, F),
           NEW T \in SUBSET S, NEW G \in SUBSET F
    PROVE  ReqBound(p, T, G)
<1>1. /\ Cardinality(S) \in Nat /\ Cardinality(F) \in Nat
      /\ Cardinality(T) \in Nat /\ Cardinality(G) \in Nat
      /\ IsFiniteSet(S) /\ IsFiniteSet(F)
  BY Finite
<1>2. Cardinality(T) <= Cardinality(S) /\ Cardinality(G) <= Cardinality(F)
  BY <1>1, FS_Subset
<1>3. MsqMax \in Nat /\ Cardinality(Callers) \in Nat /\ Cardinality(Forwarders) \in Nat
  BY Finite, LimitAssumption
<1> QED
  BY <1>1, <1>2, <1>3, SMTT(30) DEF ReqBound
\* ... in the reply queue too.
LEMMA RspLess ==
    ASSUME NEW R \in SUBSET Workers, NEW q, NEW p, NEW T \in SUBSET R,
           Len(q) \in Nat, Len(p) \in Nat, Len(p) <= Len(q), RspBound(q, R)
    PROVE  RspBound(p, T)
<1>1. Cardinality(R) \in Nat /\ Cardinality(T) \in Nat /\ IsFiniteSet(R)
  BY Finite
<1>2. Cardinality(T) <= Cardinality(R)
  BY <1>1, FS_Subset
<1>3. MsqMax \in Nat /\ Cardinality(Workers) \in Nat
  BY Finite, LimitAssumption
<1> QED
  BY <1>1, <1>2, <1>3 DEF RspBound

\* A queue that MsqSnd's check accepts has room for every sender there is.
LEMMA AcceptedBound ==
    ASSUME NEW q, Len(q) \in Nat, ~QueueFull(q),
           NEW S \in SUBSET Callers, NEW F \in SUBSET Forwarders, NEW R \in SUBSET Workers
    PROVE  ReqBound(q, S, F) /\ RspBound(q, R)
<1>1. F \in SUBSET Workers
  BY DEF Forwarders
<1>2. /\ Cardinality(S) \in Nat /\ Cardinality(F) \in Nat /\ Cardinality(R) \in Nat
      /\ Cardinality(S) <= Cardinality(Callers) /\ Cardinality(F) <= Cardinality(Forwarders)
      /\ Cardinality(R) <= Cardinality(Workers)
  BY <1>1, Finite
<1>3. /\ MsqMax \in Nat /\ Cardinality(Callers) \in Nat /\ Cardinality(Forwarders) \in Nat
      /\ Cardinality(Workers) \in Nat
  BY Finite, LimitAssumption
<1> QED
  BY <1>2, <1>3 DEF ReqBound, RspBound, QueueFull

\* A sender that sends becomes the message it counted as.
LEMMA SentBound ==
    ASSUME NEW q, NEW p, Len(q) \in Nat, Len(p) = Len(q) + 1,
           NEW S \in SUBSET Callers, NEW F \in SUBSET Workers, NEW R \in SUBSET Workers
    PROVE  /\ \A c \in S : ReqBound(q, S, F) => ReqBound(p, S \ {c}, F)
           /\ \A w \in F : ReqBound(q, S, F) => ReqBound(p, S, F \ {w})
           /\ \A w \in R : RspBound(q, R) => RspBound(p, R \ {w})
<1>1. /\ IsFiniteSet(S) /\ IsFiniteSet(F) /\ IsFiniteSet(R)
      /\ Cardinality(S) \in Nat /\ Cardinality(F) \in Nat /\ Cardinality(R) \in Nat
  BY Finite
<1>2. /\ \A c \in S : Cardinality(S \ {c}) = Cardinality(S) - 1
      /\ \A w \in F : Cardinality(F \ {w}) = Cardinality(F) - 1
      /\ \A w \in R : Cardinality(R \ {w}) = Cardinality(R) - 1
  BY <1>1, FS_RemoveElement
<1>3. /\ MsqMax \in Nat /\ Cardinality(Callers) \in Nat /\ Cardinality(Forwarders) \in Nat
      /\ Cardinality(Workers) \in Nat
  BY Finite, LimitAssumption
<1>4. ASSUME NEW c \in S, ReqBound(q, S, F) PROVE ReqBound(p, S \ {c}, F)
  <2>1. Cardinality(S \ {c}) = Cardinality(S) - 1
    BY <1>2, <1>4
  <2>2. Len(q) \in Nat /\ Len(p) = Len(q) + 1 /\ Cardinality(S) \in Nat /\ Cardinality(F) \in Nat
    BY <1>1
  <2> QED
    BY <2>1, <2>2, <1>3, <1>4 DEF ReqBound
<1>5. ASSUME NEW w \in F, ReqBound(q, S, F) PROVE ReqBound(p, S, F \ {w})
  <2>1. Cardinality(F \ {w}) = Cardinality(F) - 1
    BY <1>2, <1>5
  <2>2. Len(q) \in Nat /\ Len(p) = Len(q) + 1 /\ Cardinality(S) \in Nat /\ Cardinality(F) \in Nat
    BY <1>1
  <2> QED
    BY <2>1, <2>2, <1>3, <1>5 DEF ReqBound
<1>6. ASSUME NEW w \in R, RspBound(q, R) PROVE RspBound(p, R \ {w})
  <2>1. Cardinality(R \ {w}) = Cardinality(R) - 1
    BY <1>2, <1>6
  <2>2. Len(q) \in Nat /\ Len(p) = Len(q) + 1 /\ Cardinality(R) \in Nat
    BY <1>1
  <2> QED
    BY <2>1, <2>2, <1>3, <1>6 DEF RspBound
<1> QED
  BY <1>4, <1>5, <1>6

\* The invariant in terms of the bounds.
LEMMA BoundSplit ==
    BoundInv <=> /\ Forwarding \subseteq Forwarders
                 /\ ReqBound(req, Sending, Forwarding) /\ RspBound(rsp, Replying)
  BY DEF BoundInv, ReqBound, RspBound

\* The queues have a length, and the senders are who they are.
LEMMA Lengths ==
    TypeOK => /\ Len(req) \in Nat /\ Len(rsp) \in Nat
              /\ Sending \in SUBSET Callers /\ Forwarding \in SUBSET Workers
              /\ Replying \in SUBSET Workers
  BY DEF TypeOK, Sending, Forwarding, Replying

\* Steps that add no sender and no message.
LEMMA BoundFrame ==
    ASSUME TypeOK, TypeOK', BoundInv,
           Len(req') <= Len(req), Len(rsp') <= Len(rsp),
           Sending' \subseteq Sending, Forwarding' \subseteq Forwarding,
           Replying' \subseteq Replying
    PROVE  BoundInv'
<1>a. /\ Len(req) \in Nat /\ Len(rsp) \in Nat
      /\ Sending \in SUBSET Callers /\ Forwarding \in SUBSET Workers
      /\ Replying \in SUBSET Workers
  BY Lengths
<1>b. Len(req') \in Nat /\ Len(rsp') \in Nat
  BY DEF TypeOK
<1>c. ReqBound(req, Sending, Forwarding) /\ RspBound(rsp, Replying)
  BY BoundSplit
<1>1. ReqBound(req', Sending', Forwarding')
  BY <1>a, <1>b, <1>c, ReqLess
<1>2. RspBound(rsp', Replying')
  BY <1>a, <1>b, <1>c, RspLess
<1>3. Forwarding' \subseteq Forwarders
  BY BoundSplit
<1> QED
  BY <1>1, <1>2, <1>3 DEF BoundInv, ReqBound, RspBound, Forwarders

\* The steps of a caller keep the bounds: only Stat makes it a sender, and
\* only when the queue is accepted; only Send adds a message.
LEMMA CallerBound ==
    ASSUME TypeOK, TypeOK', BoundInv, NEW c \in Callers, CallerStep(c)
    PROVE  BoundInv'
<1>a. /\ Len(req) \in Nat /\ Len(rsp) \in Nat
      /\ Sending \in SUBSET Callers /\ Forwarding \in SUBSET Workers
      /\ Replying \in SUBSET Workers
  BY Lengths
<1>b. /\ ReqBound(req, Sending, Forwarding) /\ RspBound(rsp, Replying)
      /\ Forwarding \subseteq Forwarders
  BY BoundSplit
<1>c. wk' = wk /\ Forwarding' = Forwarding /\ Replying' = Replying
  BY DEF CallerStep, Locate, Stat, Send, AlarmEarly, Listen, Receive, Interrupt,
         AlarmLate, Return, Forwarding, Replying
<1>d. \A d \in Callers : d # c => call'[d] = call[d]
  BY DEF CallerStep, Locate, Stat, Send, AlarmEarly, Listen, Receive, Interrupt,
         AlarmLate, Return, TypeOK
<1>1. CASE Stat(c) /\ ~QueueFull(req)
  <2>1. req' = req /\ rsp' = rsp
    BY <1>1 DEF Stat
  <2>2. Sending' \in SUBSET Callers
    BY DEF Sending
  <2>3. ReqBound(req', Sending', Forwarding')
    BY <1>1, <1>a, <1>b, <1>c, <2>1, <2>2, AcceptedBound
  <2> QED
    BY <1>b, <1>c, <2>1, <2>3 DEF BoundInv, ReqBound, RspBound, Forwarders
<1>2. CASE Send(c)
  <2>1. Len(req') = Len(req) + 1 /\ rsp' = rsp
    BY <1>2, <1>a DEF Send, TypeOK
  <2>2. c \in Sending
    BY <1>2 DEF Send, Sending
  <2>3. call'[c].at # "send"
    BY <1>2 DEF Send, TypeOK, CallRec, NoCall
  <2>4. Sending' = Sending \ {c}
    BY <1>d, <2>3 DEF Sending
  <2>5. ReqBound(req', Sending \ {c}, Forwarding)
    BY <1>a, <1>b, <2>1, <2>2, SentBound
  <2> QED
    BY <1>b, <1>c, <2>1, <2>4, <2>5 DEF BoundInv, ReqBound, RspBound, Forwarders
<1>3. CASE ~Send(c) /\ ~(Stat(c) /\ ~QueueFull(req))
  <2>1. Len(req') <= Len(req) /\ Len(rsp') <= Len(rsp)
    <3>1. CASE Receive(c)
      BY <3>1, <1>a, RemoveAtSeq DEF Receive, TypeOK
    <3>2. CASE ~Receive(c)
      <4>1. req' = req /\ rsp' = rsp
        BY <1>3, <3>2 DEF CallerStep, Locate, Stat, AlarmEarly, Listen, Interrupt, AlarmLate, Return
      <4> QED
        BY <4>1, <1>a
    <3> QED
      BY <3>1, <3>2
  <2>2. call'[c].at # "send" \/ call'[c] = call[c]
    <3>1. ASSUME NEW s \in Servers, Locate(c, s) PROVE call'[c].at # "send" \/ call'[c] = call[c]
      BY <3>1 DEF Locate, TypeOK
    <3>2. CASE Stat(c)
      BY <1>3, <3>2 DEF Stat, TypeOK, NoCall
    <3>3. CASE AlarmEarly(c) \/ AlarmLate(c)
      BY <3>3 DEF AlarmEarly, AlarmLate, TypeOK, CallRec
    <3>4. CASE Listen(c)
      BY <3>4 DEF Listen, TypeOK, CallRec
    <3>5. CASE Receive(c)
      BY <3>5 DEF Receive, TypeOK, CallRec
    <3>6. CASE Interrupt(c) \/ Return(c)
      BY <3>6 DEF Interrupt, Return, TypeOK, NoCall
    <3> QED
      BY <1>3, <3>1, <3>2, <3>3, <3>4, <3>5, <3>6 DEF CallerStep
  <2>3. Sending' \subseteq Sending
    BY <1>d, <2>2 DEF Sending
  <2> QED
    BY <1>c, <2>1, <2>3, BoundFrame
<1> QED
  BY <1>1, <1>2, <1>3

\* The steps of a worker keep the bounds: FwdStat and ReplyStat make it a
\* sender, FwdSend and ReplySend add its message.
LEMMA WorkerBound ==
    ASSUME TypeOK, TypeOK', BoundInv, NEW w \in Workers, WorkerStep(w)
    PROVE  BoundInv'
<1>a. /\ Len(req) \in Nat /\ Len(rsp) \in Nat
      /\ Sending \in SUBSET Callers /\ Forwarding \in SUBSET Workers
      /\ Replying \in SUBSET Workers
  BY Lengths
<1>b. /\ ReqBound(req, Sending, Forwarding) /\ RspBound(rsp, Replying)
      /\ Forwarding \subseteq Forwarders
  BY BoundSplit
<1>c. call' = call /\ Sending' = Sending
  BY DEF WorkerStep, Take, NoReply, ReplyStat, ReplySend, FwdStat, FwdSend, Crash, ServiceFails,
         TermExit, Start, Sending
<1>d. \A v \in Workers : v # w => wk'[v] = wk[v]
  BY DEF WorkerStep, Take, NoReply, ReplyStat, ReplySend, FwdStat, FwdSend, Crash, ServiceFails,
         TermExit, Start, Received, Finished, TypeOK
<1>e. Finished(w)[w].at = "idle"
  BY DEF Finished, NoWork, TypeOK
<1>1. CASE ReplyStat(w) /\ ~QueueFull(rsp)
  <2>1. req' = req /\ rsp' = rsp /\ wk'[w].at = "reply"
    BY <1>1 DEF ReplyStat, TypeOK, WorkRec
  <2>2. Replying' \in SUBSET Workers /\ Forwarding' \subseteq Forwarding
    BY <1>d, <2>1 DEF Replying, Forwarding
  <2>3. RspBound(rsp', Replying')
    BY <1>1, <1>a, <1>b, <2>1, <2>2, AcceptedBound
  <2>4. ReqBound(req', Sending', Forwarding')
    BY <1>a, <1>b, <1>c, <2>1, <2>2, ReqLess
  <2> QED
    BY <1>b, <2>2, <2>3, <2>4 DEF BoundInv, ReqBound, RspBound, Forwarders
<1>2. CASE ReplySend(w)
  <2>1. Len(rsp') = Len(rsp) + 1 /\ req' = req
    BY <1>2, <1>a DEF ReplySend, TypeOK
  <2>2. w \in Replying /\ wk'[w].at = "idle"
    BY <1>2, <1>e DEF ReplySend, Replying
  <2>3. Replying' = Replying \ {w} /\ Forwarding' \subseteq Forwarding
    BY <1>d, <2>2 DEF Replying, Forwarding
  <2>4. RspBound(rsp', Replying \ {w})
    BY <1>a, <1>b, <2>1, <2>2, SentBound
  <2>5. ReqBound(req', Sending', Forwarding')
    BY <1>a, <1>b, <1>c, <2>1, <2>3, ReqLess
  <2> QED
    BY <1>b, <2>3, <2>4, <2>5 DEF BoundInv, ReqBound, RspBound, Forwarders
<1>3. ASSUME NEW s \in Servers, FwdStat(w, s) PROVE BoundInv'
  <2>1. req' = req /\ rsp' = rsp /\ wk'[w].at = "fwd" /\ ~QueueFull(req) /\ w \in Forwarders
    BY <1>3 DEF FwdStat, TypeOK, WorkRec, Forwarders
  <2>2. Forwarding' \subseteq Forwarders /\ Replying' \subseteq Replying
    BY <1>b, <1>d, <2>1 DEF Forwarding, Replying
  <2>3. ReqBound(req', Sending', Forwarding')
    BY <1>a, <1>b, <1>c, <2>1, <2>2, AcceptedBound
  <2>4. RspBound(rsp', Replying')
    BY <1>a, <1>b, <2>1, <2>2, RspLess
  <2> QED
    BY <2>2, <2>3, <2>4 DEF BoundInv, ReqBound, RspBound, Forwarders
<1>4. CASE FwdSend(w)
  <2>1. Len(req') = Len(req) + 1 /\ rsp' = rsp
    BY <1>4, <1>a DEF FwdSend, TypeOK
  <2>2. w \in Forwarding /\ wk'[w].at = "idle"
    BY <1>4, <1>e DEF FwdSend, Forwarding
  <2>3. Forwarding' = Forwarding \ {w} /\ Replying' \subseteq Replying
    BY <1>d, <2>2 DEF Replying, Forwarding
  <2>4. ReqBound(req', Sending, Forwarding \ {w})
    BY <1>a, <1>b, <2>1, <2>2, SentBound
  <2>5. RspBound(rsp', Replying')
    BY <1>a, <1>b, <2>1, <2>3, RspLess
  <2> QED
    BY <1>b, <1>c, <2>3, <2>4, <2>5 DEF BoundInv, ReqBound, RspBound, Forwarders
<1>5. CASE \/ Take(w) \/ NoReply(w) \/ (ReplyStat(w) /\ QueueFull(rsp))
           \/ Crash(w) \/ ServiceFails(w) \/ TermExit(w) \/ Start(w)
  <2>1. Len(req') <= Len(req) /\ Len(rsp') <= Len(rsp)
    <3>1. CASE Take(w)
      BY <3>1, <1>a, RemoveAtSeq DEF Take, TypeOK
    <3>2. CASE ~Take(w)
      <4>1. req' = req /\ rsp' = rsp
        BY <1>5, <3>2 DEF NoReply, ReplyStat, Crash, ServiceFails, TermExit, Start
      <4> QED
        BY <4>1, <1>a
    <3> QED
      BY <3>1, <3>2
  <2>2. wk'[w].at \notin {"reply", "fwd"} \/ wk'[w] = wk[w]
    <3>1. CASE Take(w)
      BY <3>1 DEF Take, Received, TypeOK, WorkRec
    <3>2. CASE NoReply(w) \/ (ReplyStat(w) /\ QueueFull(rsp))
      BY <3>2, <1>e DEF NoReply, ReplyStat
    <3>3. CASE Crash(w) \/ ServiceFails(w) \/ TermExit(w) \/ Start(w)
      BY <3>3 DEF Crash, ServiceFails, TermExit, Start, TypeOK, NoWork
    <3> QED
      BY <1>5, <3>1, <3>2, <3>3
  <2>3. Forwarding' \subseteq Forwarding /\ Replying' \subseteq Replying
    BY <1>d, <2>2 DEF Forwarding, Replying
  <2> QED
    BY <1>c, <2>1, <2>3, BoundFrame
<1> QED
  BY <1>1, <1>2, <1>3, <1>4, <1>5 DEF WorkerStep

\* The Governor and the reply readers only take messages away.
LEMMA GovBound ==
    ASSUME TypeOK, TypeOK', BoundInv, GovStep \/ \E t \in ReadTypes : tux_getreply(t)
    PROVE  BoundInv'
<1>a. Len(req) \in Nat /\ Len(rsp) \in Nat
  BY Lengths
<1>1. ASSUME NEW s \in Servers, CmdExit(s) \/ CmdFresh(s) PROVE BoundInv'
  <2>1. req' = req /\ rsp' = rsp /\ call' = call
    BY <1>1 DEF CmdExit, CmdFresh, Stopped
  <2>2. \A w \in Workers : wk'[w].at = wk[w].at
    <3>1. wk' = [w \in Workers |-> IF Serves[w] = s /\ wk[w].at # "gone"
                                   THEN [wk[w] EXCEPT !.term = TRUE] ELSE wk[w]]
      BY <1>1 DEF CmdExit, CmdFresh, Stopped
    <3> QED
      BY <3>1 DEF TypeOK, WorkRec
  <2>3. Sending' = Sending /\ Forwarding' = Forwarding /\ Replying' = Replying
    BY <2>1, <2>2 DEF Sending, Forwarding, Replying
  <2> QED
    BY <1>a, <2>1, <2>3, BoundFrame
<1>2. CASE clean_task_msg \/ FreshDone \/ \E t \in ReadTypes : tux_getreply(t)
  <2>1. call' = call /\ wk' = wk
    BY <1>2 DEF clean_task_msg, FreshDone, tux_getreply
  <2>2. Sending' = Sending /\ Forwarding' = Forwarding /\ Replying' = Replying
    BY <2>1 DEF Sending, Forwarding, Replying
  <2>3. Len(req') <= Len(req) /\ Len(rsp') <= Len(rsp)
    <3>1. CASE clean_task_msg
      BY <3>1, <1>a, RemoveAtSeq DEF clean_task_msg, TypeOK
    <3>2. CASE FreshDone
      BY <3>2, <1>a DEF FreshDone
    <3>3. CASE \E t \in ReadTypes : tux_getreply(t)
      BY <3>3, <1>a, RemoveAtSeq DEF tux_getreply, TypeOK
    <3> QED
      BY <1>2, <3>1, <3>2, <3>3
  <2> QED
    BY <2>2, <2>3, BoundFrame
<1> QED
  BY <1>1, <1>2 DEF GovStep

\* For any number of callers and workers, and however their checks and sends
\* interleave, MsqSnd lets no queue grow beyond its limit by more than one
\* message for each process that sends to it.
THEOREM QueuesStayBounded == Spec => []QueuesBounded
<1>1. TypeOK /\ TypeOK' /\ BoundInv /\ [Next]_vars => BoundInv'
  <2> SUFFICES ASSUME TypeOK, TypeOK', BoundInv, [Next]_vars PROVE BoundInv'
    OBVIOUS
  <2>1. CASE UNCHANGED vars
    BY <2>1 DEF vars, BoundInv, Sending, Forwarding, Replying, Forwarders
  <2>2. CASE Next
    BY <2>2, CallerBound, WorkerBound, GovBound DEF Next
  <2> QED
    BY <2>1, <2>2
<1>2. TypeOK /\ BoundInv => QueuesBounded
  <2> SUFFICES ASSUME TypeOK, BoundInv PROVE QueuesBounded
    OBVIOUS
  <2>1. /\ Len(req) \in Nat /\ Len(rsp) \in Nat
        /\ Sending \in SUBSET Callers /\ Forwarding \in SUBSET Workers
        /\ Replying \in SUBSET Workers
    BY Lengths
  <2>2. /\ Cardinality(Sending) \in Nat /\ Cardinality(Forwarding) \in Nat
        /\ Cardinality(Replying) \in Nat
    BY <2>1, Finite
  <2>3. /\ MsqMax \in Nat /\ Cardinality(Callers) \in Nat /\ Cardinality(Forwarders) \in Nat
        /\ Cardinality(Workers) \in Nat
    BY Finite, LimitAssumption
  <2> QED
    BY <2>1, <2>2, <2>3 DEF BoundInv, QueuesBounded
<1> QED
  BY <1>1, <1>2, InitBound, BusTypeCorrect, PTL DEF Spec

-----------------------------------------------------------------------------
(***************************************************************************)
(* A call is in one place.  The invariant says so with sets of ids: those  *)
(* of the two queues, of the workers' requests and of the replies that     *)
(* callers have taken are disjoint, none comes twice in its place, and the *)
(* id of a call that is not sent yet is in none of them.                   *)
(***************************************************************************)

Ids(q)  == {q[i].id : i \in DOMAIN q}
Once(q) == \A i, j \in DOMAIN q : q[i].id = q[j].id => i = j

WorkIds == {wk[w].msg.id : w \in Workers} \ {0}
HandIds == {call[c].rep : c \in Callers} \ {0}

OnceWork == \A v, w \in Workers : wk[v].msg.id = wk[w].msg.id /\ wk[v].msg.id # 0 => v = w
OnceHand == \A c, d \in Callers : call[c].rep = call[d].rep /\ call[c].rep # 0 => c = d
OnceEach == Once(req) /\ Once(rsp) /\ OnceWork /\ OnceHand

Apart == /\ Ids(req) \cap Ids(rsp) = {} /\ Ids(req) \cap WorkIds = {} /\ Ids(req) \cap HandIds = {}
         /\ Ids(rsp) \cap WorkIds = {} /\ Ids(rsp) \cap HandIds = {} /\ WorkIds \cap HandIds = {}

OnBus == Ids(req) \cup Ids(rsp) \cup WorkIds \cup HandIds

Unsent(c) == call[c].at \in {"stat", "send"}

Numbered == /\ OnBus \subseteq 1..ids
            /\ \A c \in Callers : Unsent(c) => call[c].id \in (1..ids) \ OnBus
            /\ \A c, d \in Callers : Unsent(c) /\ Unsent(d) /\ call[c].id = call[d].id => c = d
            /\ \A w \in Workers : wk[w].at \in {"busy", "reply", "fwd"} => wk[w].msg.id # 0

CopyInv == OnceEach /\ Apart /\ Numbered

\* msgrcv takes one id out of a queue, ...
LEMMA RemoveIds ==
    ASSUME NEW S, NEW q \in Seq(S), NEW i \in DOMAIN q, Once(q)
    PROVE  Once(RemoveAt(q, i)) /\ Ids(RemoveAt(q, i)) = Ids(q) \ {q[i].id}
<1>1. i \in 1..Len(q) /\ Len(q) \in Nat
  OBVIOUS
<1> DEFINE r == RemoveAt(q, i)
<1>2. r \in Seq(S) /\ Len(r) = Len(q) - 1
  BY RemoveAtSeq
<1>3. \A j \in 1..Len(r) : r[j] = IF j < i THEN q[j] ELSE q[j + 1]
  <2> DEFINE a == SubSeq(q, 1, i - 1)
             b == SubSeq(q, i + 1, Len(q))
  <2>1. /\ a \in Seq(S) /\ Len(a) = i - 1 /\ \A j \in 1..(i - 1) : a[j] = q[j]
    BY <1>1, SubSeqProperties
  <2>2. /\ b \in Seq(S) /\ Len(b) = Len(q) - i /\ \A j \in 1..(Len(q) - i) : b[j] = q[i + j]
    BY <1>1, SubSeqProperties
  <2>3. r = a \o b
    BY Zenon DEF RemoveAt
  <2> HIDE DEF a, b, r
  <2>4. \A j \in 1..(Len(a) + Len(b)) : (a \o b)[j] = IF j <= Len(a) THEN a[j] ELSE b[j - Len(a)]
    BY <2>1, <2>2, ConcatProperties
  <2> TAKE j \in 1..Len(r)
  <2>5. j \in 1..(Len(a) + Len(b)) /\ j \in Nat
    BY <1>1, <1>2, <2>1, <2>2
  <2>6. r[j] = IF j <= Len(a) THEN a[j] ELSE b[j - Len(a)]
    BY <2>3, <2>4, <2>5
  <2>7. CASE j < i
    <3>1. j <= Len(a) /\ j \in 1..(i - 1)
      BY <1>1, <2>1, <2>5, <2>7
    <3> QED
      BY <2>1, <2>6, <2>7, <3>1
  <2>8. CASE ~(j < i)
    <3>1. PICK n \in Nat : n = Len(q)
      BY <1>1
    <3>2. Len(a) = i - 1 /\ Len(b) = n - i /\ i \in 1..n
      BY <1>1, <2>1, <2>2, <3>1
    <3>3. j \in 1..((i - 1) + (n - i)) /\ j \in Nat
      BY <2>5, <3>2
    <3>4. ~(j <= i - 1) /\ j - (i - 1) \in 1..(n - i) /\ i + (j - (i - 1)) = j + 1
      <4>1. i \in Nat /\ i >= 1 /\ i <= n /\ j \in Nat /\ j >= i /\ j <= n - 1
        <5>1. i \in Nat /\ i >= 1 /\ i <= n
          BY <3>2
        <5>2. j <= (i - 1) + (n - i)
          BY <3>3
        <5>3. (i - 1) + (n - i) = n - 1
          BY <5>1
        <5>4. j >= i
          BY <2>8, <3>3, <5>1
        <5> QED
          BY <3>3, <5>1, <5>2, <5>3, <5>4
      <4> QED
        BY <4>1
    <3>5. r[j] = b[j - (i - 1)]
      BY <2>6, <3>2, <3>4
    <3>6. b[j - (i - 1)] = q[i + (j - (i - 1))]
      BY <2>2, <3>1, <3>4
    <3> QED
      BY <2>8, <3>4, <3>5, <3>6
  <2> QED
    BY <2>7, <2>8
<1> HIDE DEF r
<1>4. DOMAIN r = 1..Len(r) /\ DOMAIN q = 1..Len(q)
  BY <1>2
<1>5. Once(r)
  <2> DEFINE f(j) == IF j < i THEN j ELSE j + 1
  <2>1. \A j \in DOMAIN r : f(j) \in DOMAIN q /\ r[j] = q[f(j)]
    BY <1>1, <1>2, <1>3, <1>4
  <2>2. \A j, k \in DOMAIN r : f(j) = f(k) => j = k
    BY <1>1, <1>2, <1>4
  <2> HIDE DEF f
  <2> QED
    BY <2>1, <2>2 DEF Once
<1>6. ASSUME NEW j \in DOMAIN r PROVE r[j].id \in Ids(q) \ {q[i].id}
  BY <1>1, <1>2, <1>3, <1>4, SMTT(30) DEF Once, Ids
<1>7. ASSUME NEW j \in DOMAIN q, j # i PROVE q[j].id \in Ids(r)
  <2>1. CASE j < i
    <3>1. j \in DOMAIN r /\ r[j] = q[j]
      BY <1>1, <1>2, <1>3, <1>4, <2>1
    <3> QED
      BY <3>1 DEF Ids
  <2>2. CASE j > i
    <3>1. j - 1 \in DOMAIN r /\ r[j - 1] = q[j]
      BY <1>1, <1>2, <1>3, <1>4, <2>2
    <3> QED
      BY <3>1 DEF Ids
  <2> QED
    BY <1>1, <1>4, <1>7, <2>1, <2>2
<1>8. Ids(r) = Ids(q) \ {q[i].id}
  BY <1>6, <1>7 DEF Ids
<1> QED
  BY <1>5, <1>8 DEF r

\* ... and msgsnd puts one into it.
LEMMA AppendIds ==
    ASSUME NEW S, NEW q \in Seq(S), NEW m \in S, Once(q), m.id \notin Ids(q)
    PROVE  Once(Append(q, m)) /\ Ids(Append(q, m)) = Ids(q) \cup {m.id}
<1> DEFINE r == Append(q, m)
<1>1. /\ r \in Seq(S) /\ Len(r) = Len(q) + 1 /\ Len(q) \in Nat
      /\ \A j \in 1..Len(q) : r[j] = q[j]
      /\ r[Len(q) + 1] = m
  OBVIOUS
<1>2. DOMAIN r = 1..(Len(q) + 1) /\ DOMAIN q = 1..Len(q)
  BY <1>1
<1> HIDE DEF r
<1>3. Once(r)
  BY <1>1, <1>2 DEF Once, Ids
<1>4. Ids(r) = Ids(q) \cup {m.id}
  BY <1>1, <1>2 DEF Ids
<1> QED
  BY <1>3, <1>4 DEF r

\* One worker's request changes: its id leaves and, perhaps, another one comes.
LEMMA WorkMoved ==
    ASSUME OnceWork, NEW w \in Workers, \A v \in Workers : v # w => wk'[v] = wk[v],
           wk'[w].msg.id \in {0, wk[w].msg.id} \/ wk'[w].msg.id \notin WorkIds
    PROVE  /\ OnceWork'
           /\ WorkIds' = (WorkIds \ {wk[w].msg.id}) \cup ({wk'[w].msg.id} \ {0})
<1>1. OnceWork'
  BY DEF OnceWork, WorkIds
<1>2. ASSUME NEW n PROVE n \in WorkIds' <=> n \in (WorkIds \ {wk[w].msg.id}) \cup ({wk'[w].msg.id} \ {0})
  BY DEF OnceWork, WorkIds
<1> QED
  BY <1>1, <1>2

\* The same for the reply a caller has taken.
LEMMA HandMoved ==
    ASSUME OnceHand, NEW c \in Callers, \A d \in Callers : d # c => call'[d] = call[d],
           call'[c].rep \in {0, call[c].rep} \/ call'[c].rep \notin HandIds
    PROVE  /\ OnceHand'
           /\ HandIds' = (HandIds \ {call[c].rep}) \cup ({call'[c].rep} \ {0})
<1>1. OnceHand'
  BY DEF OnceHand, HandIds
<1>2. ASSUME NEW n PROVE n \in HandIds' <=> n \in (HandIds \ {call[c].rep}) \cup ({call'[c].rep} \ {0})
  BY DEF OnceHand, HandIds
<1> QED
  BY <1>1, <1>2

LEMMA InitCopy == Init => CopyInv
<1> SUFFICES ASSUME Init PROVE CopyInv
  OBVIOUS
<1>1. /\ req = <<>> /\ rsp = <<>> /\ \A c \in Callers : call[c] = NoCall
      /\ \A w \in Workers : wk[w] = NoWork
  BY DEF Init
<1>2. NoCall.rep = 0 /\ NoCall.at = "idle" /\ NoWork.at = "idle" /\ NoWork.msg = NoMsg /\ NoMsg.id = 0
  BY DEF NoCall, NoWork, NoMsg
<1>3. Ids(req) = {} /\ Ids(rsp) = {} /\ WorkIds = {} /\ HandIds = {}
  BY <1>1, <1>2 DEF Ids, WorkIds, HandIds
<1>4. OnceEach
  BY <1>1, <1>2 DEF OnceEach, Once, OnceWork, OnceHand
<1> QED
  BY <1>1, <1>2, <1>3, <1>4 DEF CopyInv, Apart, Numbered, OnBus, Unsent

\* What a caller's step leaves in its record, apart from its next step.
LEMMA CallerCopy ==
    ASSUME TypeOK, TypeOK', CopyInv, NEW c \in Callers, CallerStep(c)
    PROVE  CopyInv'
<1>a. /\ wk' = wk /\ WorkIds' = WorkIds /\ OnceWork' = OnceWork
  BY DEF CallerStep, Locate, Stat, Send, AlarmEarly, Listen, Receive, Interrupt,
         AlarmLate, Return, WorkIds, OnceWork
<1>b. \A d \in Callers : d # c => call'[d] = call[d]
  BY DEF CallerStep, Locate, Stat, Send, AlarmEarly, Listen, Receive, Interrupt,
         AlarmLate, Return, TypeOK
<1>c. OnceEach /\ Apart /\ Numbered /\ ids \in Nat /\ call[c] \in CallRec /\ call'[c] \in CallRec
  BY DEF CopyInv, TypeOK
<1>n. NoCall.at = "idle" /\ NoCall.rep = 0
  BY DEF NoCall
<1>1. ASSUME NEW s \in Servers, Locate(c, s) PROVE CopyInv'
  <2>1. ids' = ids + 1 /\ UNCHANGED <<req, rsp>>
    BY <1>1 DEF Locate
  <2>2. \/ call'[c] = call[c]
        \/ call'[c].rep = 0 /\ call'[c].id = ids + 1
    BY <1>1 DEF Locate, TypeOK
  <2>3. OnceHand' /\ HandIds' \subseteq HandIds
    <3>0. call'[c].rep \in {0, call[c].rep}
      BY <2>2
    <3>1. HandIds' = (HandIds \ {call[c].rep}) \cup ({call'[c].rep} \ {0}) /\ OnceHand'
      BY <1>b, <1>c, <3>0, HandMoved DEF OnceEach
    <3>2. call[c].rep \in HandIds \cup {0}
      BY DEF HandIds
    <3> QED
      BY <3>0, <3>1, <3>2
  <2>4. OnceEach' /\ Apart' /\ OnBus' \subseteq OnBus
    BY <1>a, <1>c, <2>1, <2>3 DEF OnceEach, Apart, OnBus
  <2>5. Numbered'
    BY <1>a, <1>b, <1>c, <2>1, <2>2, <2>4 DEF Numbered, Unsent
  <2> QED
    BY <2>4, <2>5 DEF CopyInv
<1>2. CASE Stat(c) \/ AlarmEarly(c) \/ Listen(c) \/ AlarmLate(c) \/ Interrupt(c) \/ Return(c)
  <2>1. UNCHANGED <<req, rsp, ids>>
    BY <1>2 DEF Stat, AlarmEarly, Listen, AlarmLate, Interrupt, Return
  <2>2. /\ call'[c].rep \in {0, call[c].rep}
        /\ Unsent(c)' => Unsent(c) /\ call'[c].id = call[c].id
    <3>1. CASE Stat(c)
      BY <3>1, <1>n DEF Stat, TypeOK, CallRec, Unsent
    <3>2. CASE AlarmEarly(c) \/ AlarmLate(c)
      BY <3>2 DEF AlarmEarly, AlarmLate, TypeOK, CallRec, Unsent
    <3>3. CASE Listen(c)
      BY <3>3 DEF Listen, TypeOK, CallRec, Unsent
    <3>4. CASE Interrupt(c) \/ Return(c)
      BY <3>4, <1>n DEF Interrupt, Return, TypeOK, Unsent
    <3> QED
      BY <1>2, <3>1, <3>2, <3>3, <3>4
  <2>3. OnceHand' /\ HandIds' \subseteq HandIds
    <3>1. HandIds' = (HandIds \ {call[c].rep}) \cup ({call'[c].rep} \ {0}) /\ OnceHand'
      BY <1>b, <1>c, <2>2, HandMoved DEF OnceEach
    <3>2. call[c].rep \in HandIds \cup {0}
      BY DEF HandIds
    <3> QED
      BY <2>2, <3>1, <3>2
  <2>4. OnceEach' /\ Apart' /\ OnBus' \subseteq OnBus
    BY <1>a, <1>c, <2>1, <2>3 DEF OnceEach, Apart, OnBus
  <2>5. Numbered'
    BY <1>a, <1>b, <1>c, <2>1, <2>2, <2>4 DEF Numbered, Unsent
  <2> QED
    BY <2>4, <2>5 DEF CopyInv
<1>3. CASE Send(c)
  <2> DEFINE n == call[c].id
             m == [to |-> call[c].to, type |-> RType[c], id |-> n]
  <2>1. UNCHANGED <<rsp, ids>> /\ Unsent(c)
    BY <1>3 DEF Send, Unsent
  <2>2. n \in (1..ids) \ OnBus
    BY <1>c, <2>1 DEF Numbered
  <2>3. Once(req') /\ Ids(req') = Ids(req) \cup {n}
    <3>1. m \in [to : Servers, type : Types, id : Nat] /\ m.id = n
      BY <1>3, SetAssumption DEF Send, TypeOK, CallRec
    <3>2. req' = Append(req, m) /\ req \in Seq([to : Servers, type : Types, id : Nat])
      BY <1>3 DEF Send, TypeOK
    <3> HIDE DEF m
    <3>3. m.id \notin Ids(req)
      BY <2>2, <3>1 DEF OnBus
    <3>4. Once(Append(req, m)) /\ Ids(Append(req, m)) = Ids(req) \cup {m.id}
      <4>1. Once(req)
        BY <1>c DEF OnceEach
      <4>2. PICK S : S = [to : Servers, type : Types, id : Nat]
        OBVIOUS
      <4>3. req \in Seq(S) /\ m \in S
        BY <3>1, <3>2, <4>2
      <4> QED
        BY <3>3, <4>1, <4>3, AppendIds
    <3> HIDE DEF n
    <3>5. req' = Append(req, m) /\ m.id = n
      BY <3>1, <3>2
    <3> QED
      BY <3>4, <3>5
  <2>4. call'[c].rep \in {0, call[c].rep} /\ ~Unsent(c)'
    BY <1>3, <1>n DEF Send, TypeOK, CallRec, Unsent
  <2>5. OnceHand' /\ HandIds' \subseteq HandIds
    <3>1. HandIds' = (HandIds \ {call[c].rep}) \cup ({call'[c].rep} \ {0}) /\ OnceHand'
      BY <1>b, <1>c, <2>4, HandMoved DEF OnceEach
    <3>2. call[c].rep \in HandIds \cup {0}
      BY DEF HandIds
    <3> QED
      BY <2>4, <3>1, <3>2
  <2> HIDE DEF n, m
  <2>6. OnceEach' /\ Apart' /\ OnBus' \subseteq OnBus \cup {n}
    BY <1>a, <1>c, <2>1, <2>2, <2>3, <2>5 DEF OnceEach, Apart, OnBus
  <2>7. Numbered'
    <3>1. \A d \in Callers : Unsent(d)' => d # c /\ Unsent(d) /\ call'[d].id = call[d].id
      BY <1>b, <2>4 DEF Unsent
    <3>2. \A d \in Callers : Unsent(d)' => call[d].id # n
      BY <1>c, <2>1, <3>1 DEF Numbered, n
    <3>3. /\ OnBus' \subseteq 1..ids
          /\ \A d \in Callers : Unsent(d)' => call'[d].id \in (1..ids) \ OnBus'
      BY <1>c, <2>2, <2>6, <3>1, <3>2 DEF Numbered
    <3>4. \A d, e \in Callers : Unsent(d)' /\ Unsent(e)' /\ call'[d].id = call'[e].id => d = e
      BY <1>c, <3>1 DEF Numbered
    <3> QED
      BY <1>a, <1>c, <2>1, <3>3, <3>4 DEF Numbered
  <2> QED
    BY <2>6, <2>7 DEF CopyInv
<1>4. CASE Receive(c)
  <2>1. PICK i \in DOMAIN rsp :
          /\ rsp' = RemoveAt(rsp, i)
          /\ call' = [call EXCEPT ![c].at = "got", ![c].rep = rsp[i].id]
    BY <1>4 DEF Receive
  <2>2. PICK n : n = rsp[i].id
    OBVIOUS
  <2>3. Once(rsp') /\ Ids(rsp') = Ids(rsp) \ {n} /\ n \in Ids(rsp)
    <3>1. rsp \in Seq([type : Types, id : Nat])
      BY DEF TypeOK
    <3> QED
      BY <1>c, <2>1, <2>2, <3>1, RemoveIds DEF OnceEach, Ids
  <2>4. call'[c].rep = n /\ ~Unsent(c)' /\ UNCHANGED <<req, ids>>
    BY <1>4, <2>1, <2>2, SMTT(30) DEF Receive, TypeOK, CallRec, Unsent
  <2>5. n \notin HandIds
    BY <1>c, <2>3 DEF Apart
  <2>6. OnceHand' /\ HandIds' \subseteq HandIds \cup {n}
    BY <1>b, <1>c, <2>4, <2>5, HandMoved DEF OnceEach
  <2>7. OnceEach' /\ Apart' /\ OnBus' \subseteq OnBus
    BY <1>a, <1>c, <2>3, <2>4, <2>6 DEF OnceEach, Apart, OnBus
  <2>8. Numbered'
    BY <1>a, <1>b, <1>c, <2>4, <2>7 DEF Numbered, Unsent
  <2> QED
    BY <2>7, <2>8 DEF CopyInv
<1> QED
  BY <1>1, <1>2, <1>3, <1>4 DEF CallerStep
\* A worker that gets rid of its request, or keeps it, disturbs nothing.
LEMMA WorkKept ==
    ASSUME CopyInv, NEW w \in Workers, UNCHANGED <<req, rsp, call, ids>>,
           \A v \in Workers : v # w => wk'[v] = wk[v],
           wk'[w].msg.id \in {0, wk[w].msg.id},
           wk'[w].at \in {"busy", "reply", "fwd"} => wk'[w].msg.id # 0
    PROVE  CopyInv'
<1>1. OnceEach /\ Apart /\ Numbered
  BY DEF CopyInv
<1>2. HandIds' = HandIds /\ OnceHand' = OnceHand
  BY DEF HandIds, OnceHand
<1>3. OnceWork' /\ WorkIds' \subseteq WorkIds
  <2>1. OnceWork' /\ WorkIds' = (WorkIds \ {wk[w].msg.id}) \cup ({wk'[w].msg.id} \ {0})
    BY <1>1, WorkMoved DEF OnceEach
  <2>2. wk[w].msg.id \in WorkIds \cup {0}
    BY DEF WorkIds
  <2> QED
    BY <2>1, <2>2
<1>4. OnceEach' /\ Apart' /\ OnBus' \subseteq OnBus
  BY <1>1, <1>2, <1>3 DEF OnceEach, Apart, OnBus
<1>5. Numbered'
  BY <1>1, <1>4 DEF Numbered, Unsent
<1> QED
  BY <1>4, <1>5 DEF CopyInv

\* A worker whose request goes to one of the queues has it no more.
LEMMA WorkSent ==
    ASSUME CopyInv, NEW w \in Workers, UNCHANGED <<call, ids>>,
           \A v \in Workers : v # w => wk'[v] = wk[v],
           wk[w].msg.id # 0, wk'[w].msg.id = 0, wk'[w].at \notin {"busy", "reply", "fwd"},
           NEW n, n = wk[w].msg.id, Once(req'), Once(rsp'),
           \/ req' = req /\ Ids(rsp') = Ids(rsp) \cup {n}
           \/ rsp' = rsp /\ Ids(req') = Ids(req) \cup {n}
    PROVE  CopyInv'
<1>1. OnceEach /\ Apart /\ Numbered
  BY DEF CopyInv
<1>2. HandIds' = HandIds /\ OnceHand' = OnceHand
  BY DEF HandIds, OnceHand
<1>3. OnceWork' /\ WorkIds' = WorkIds \ {n} /\ n \in WorkIds
  <2>1. OnceWork' /\ WorkIds' = (WorkIds \ {wk[w].msg.id}) \cup ({wk'[w].msg.id} \ {0})
    BY <1>1, WorkMoved DEF OnceEach
  <2>2. wk[w].msg.id \in WorkIds
    BY DEF WorkIds
  <2> QED
    BY <2>1, <2>2
<1>4. OnceEach' /\ Apart' /\ OnBus' \subseteq OnBus
  <2>1. OnceEach'
    BY <1>1, <1>2, <1>3 DEF OnceEach
  <2>2. Apart'
    BY <1>1, <1>2, <1>3 DEF Apart
  <2>3. OnBus' \subseteq OnBus
    BY <1>2, <1>3 DEF OnBus
  <2> QED
    BY <2>1, <2>2, <2>3
<1>5. Numbered'
  BY <1>1, <1>4 DEF Numbered, Unsent
<1> QED
  BY <1>4, <1>5 DEF CopyInv

LEMMA WorkerCopy ==
    ASSUME TypeOK, TypeOK', CopyInv, NEW w \in Workers, WorkerStep(w)
    PROVE  CopyInv'
<1>a. \A v \in Workers : v # w => wk'[v] = wk[v]
  BY DEF WorkerStep, Take, Received, NoReply, ReplyStat, ReplySend, FwdStat, FwdSend, Crash, ServiceFails,
         TermExit, Start, Finished, TypeOK
<1>b. call' = call /\ ids' = ids
  BY DEF WorkerStep, Take, NoReply, ReplyStat, ReplySend, FwdStat, FwdSend, Crash, ServiceFails,
         TermExit, Start
<1>c. OnceEach /\ Apart /\ Numbered /\ ids \in Nat /\ wk[w] \in WorkRec /\ wk'[w] \in WorkRec
  BY DEF CopyInv, TypeOK
<1>n. NoWork.at = "idle" /\ NoWork.msg.id = 0
  BY DEF NoWork, NoMsg
<1>f. wk' = Finished(w) => wk'[w].at = "idle" /\ wk'[w].msg.id = 0
  BY DEF Finished, NoWork, NoMsg, TypeOK
<1>1. CASE Take(w)
  <2>1. PICK i \in DOMAIN req : req' = RemoveAt(req, i) /\ wk' = Received(w, req[i])
    BY <1>1 DEF Take
  <2>2. PICK n : n = req[i].id
    OBVIOUS
  <2>3. Once(req') /\ Ids(req') = Ids(req) \ {n} /\ n \in Ids(req)
    <3>1. PICK S : S = [to : Servers, type : Types, id : Nat]
      OBVIOUS
    <3>2. req \in Seq(S) /\ Once(req)
      BY <1>c, <3>1 DEF TypeOK, OnceEach
    <3>3. Once(RemoveAt(req, i)) /\ Ids(RemoveAt(req, i)) = Ids(req) \ {req[i].id}
      BY <3>2, RemoveIds
    <3>4. req[i].id \in Ids(req)
      BY DEF Ids
    <3> QED
      BY <2>1, <2>2, <3>3, <3>4
  <2>4. \/ wk'[w] = wk[w]
        \/ wk'[w].msg.id = n
    BY <2>1, <2>2 DEF Received, TypeOK, WorkRec
  <2>5. n \in 1..ids /\ n \notin WorkIds
    BY <1>c, <2>3 DEF Apart, Numbered, OnBus
  <2>6. OnceWork' /\ WorkIds' \subseteq WorkIds \cup {n}
    <3>1. OnceWork' /\ WorkIds' = (WorkIds \ {wk[w].msg.id}) \cup ({wk'[w].msg.id} \ {0})
      BY <1>a, <1>c, <2>4, <2>5, WorkMoved DEF OnceEach
    <3>2. wk[w].msg.id \in WorkIds \cup {0}
      BY DEF WorkIds
    <3> QED
      BY <2>4, <3>1, <3>2
  <2>7. rsp' = rsp /\ HandIds' = HandIds /\ OnceHand' = OnceHand
    BY <1>1, <1>b DEF Take, HandIds, OnceHand
  <2>8. OnceEach' /\ Apart' /\ OnBus' \subseteq OnBus
    BY <1>c, <2>3, <2>6, <2>7 DEF OnceEach, Apart, OnBus
  <2>9. Numbered'
    <3>1. wk'[w].at \in {"busy", "reply", "fwd"} => wk'[w].msg.id # 0
      BY <1>c, <2>4, <2>5 DEF Numbered
    <3> QED
      BY <1>a, <1>b, <1>c, <2>8, <3>1 DEF Numbered, Unsent
  <2> QED
    BY <2>8, <2>9 DEF CopyInv
<1>2. CASE NoReply(w) \/ ReplyStat(w) \/ (\E s \in Servers : FwdStat(w, s)) \/ Crash(w) \/ ServiceFails(w) \/ TermExit(w) \/ Start(w)
  <2>1. UNCHANGED <<req, rsp>>
    BY <1>2 DEF NoReply, ReplyStat, FwdStat, Crash, ServiceFails, TermExit, Start
  <2>2. /\ wk'[w].msg.id \in {0, wk[w].msg.id}
        /\ wk'[w].at \in {"busy", "reply", "fwd"} => wk'[w].msg.id # 0
    <3>1. CASE NoReply(w)
      BY <1>f, <3>1 DEF NoReply
    <3>2. CASE ReplyStat(w)
      <4>1. CASE wk' = Finished(w)
        BY <1>f, <4>1
      <4>2. CASE wk' = [wk EXCEPT ![w].at = "reply"]
        <5>1. wk'[w].msg = wk[w].msg
          BY <4>2 DEF TypeOK, WorkRec
        <5>2. wk[w].msg.id # 0
          BY <1>c, <3>2 DEF ReplyStat, Numbered
        <5> QED
          BY <5>1, <5>2
      <4> QED
        BY <3>2, <4>1, <4>2 DEF ReplyStat
    <3>3. CASE \E s \in Servers : FwdStat(w, s)
      BY <1>c, <3>3 DEF FwdStat, TypeOK, WorkRec, Numbered
    <3>4. CASE Crash(w) \/ ServiceFails(w) \/ TermExit(w)
      BY <1>n, <3>4 DEF Crash, ServiceFails, TermExit, TypeOK, NoWork
    <3>5. CASE Start(w)
      BY <1>n, <3>5 DEF Start, TypeOK
    <3> QED
      BY <1>2, <3>1, <3>2, <3>3, <3>4, <3>5
  <2> QED
    BY <1>a, <1>b, <2>1, <2>2, WorkKept
<1>3. CASE ReplySend(w)
  <2>1. PICK m : m = wk[w].msg
    OBVIOUS
  <2>2. rsp' = Append(rsp, m) /\ req' = req /\ wk' = Finished(w) /\ wk[w].at = "reply"
    BY <1>3, <2>1 DEF ReplySend
  <2>3. m.id # 0 /\ m.id \notin Ids(rsp)
    BY <1>c, <2>1, <2>2 DEF Numbered, Apart, WorkIds
  <2>4. Once(rsp') /\ Ids(rsp') = Ids(rsp) \cup {m.id}
    <3>1. PICK S : S = [type : Types, id : Nat]
      OBVIOUS
    <3>2. rsp \in Seq(S) /\ m \in S /\ Once(rsp)
      BY <1>c, <2>1, <2>2, <3>1 DEF TypeOK, WorkRec, Msg, OnceEach
    <3> QED
      BY <2>2, <2>3, <3>2, AppendIds
  <2>5. Once(req')
    BY <1>c, <2>2 DEF OnceEach
  <2> QED
    BY <1>a, <1>b, <1>f, <2>1, <2>2, <2>3, <2>4, <2>5, WorkSent
<1>4. CASE FwdSend(w)
  <2>1. PICK m : m = [to |-> wk[w].to, type |-> wk[w].msg.type, id |-> wk[w].msg.id]
    OBVIOUS
  <2>2. req' = Append(req, m) /\ rsp' = rsp /\ wk' = Finished(w) /\ wk[w].at = "fwd" /\ m.id = wk[w].msg.id
    BY <1>4, <2>1 DEF FwdSend
  <2>3. m.id # 0 /\ m.id \notin Ids(req)
    BY <1>c, <2>2 DEF Numbered, Apart, WorkIds
  <2>4. Once(req') /\ Ids(req') = Ids(req) \cup {m.id}
    <3>1. PICK S : S = [to : Servers, type : Types, id : Nat]
      OBVIOUS
    <3>2. req \in Seq(S) /\ m \in S /\ Once(req)
      BY <1>c, <2>1, <2>2, <3>1 DEF TypeOK, WorkRec, Msg, OnceEach
    <3> QED
      BY <2>2, <2>3, <3>2, AppendIds
  <2>5. Once(rsp')
    BY <1>c, <2>2 DEF OnceEach
  <2> QED
    BY <1>a, <1>b, <1>f, <2>2, <2>3, <2>4, <2>5, WorkSent
<1> QED
  BY <1>1, <1>2, <1>3, <1>4 DEF WorkerStep

\* The Governor and the reply readers take ids away, and SIGTERM none.
LEMMA GovCopy ==
    ASSUME TypeOK, TypeOK', CopyInv, GovStep \/ \E t \in ReadTypes : tux_getreply(t)
    PROVE  CopyInv'
<1>a. OnceEach /\ Apart /\ Numbered
  BY DEF CopyInv
<1>b. call' = call /\ ids' = ids /\ HandIds' = HandIds /\ OnceHand' = OnceHand
  BY DEF GovStep, CmdExit, CmdFresh, Stopped, clean_task_msg, FreshDone, tux_getreply, HandIds, OnceHand
<1>c. \A w \in Workers : wk'[w].at = wk[w].at /\ wk'[w].msg = wk[w].msg
  <2>1. CASE \E s \in Servers : CmdExit(s) \/ CmdFresh(s)
    <3>1. PICK s \in Servers :
            wk' = [w \in Workers |-> IF Serves[w] = s /\ wk[w].at # "gone"
                                     THEN [wk[w] EXCEPT !.term = TRUE] ELSE wk[w]]
      BY <2>1 DEF CmdExit, CmdFresh, Stopped
    <3> QED
      BY <3>1 DEF TypeOK, WorkRec
  <2>2. CASE wk' = wk
    BY <2>2
  <2> QED
    BY <2>1, <2>2 DEF GovStep, clean_task_msg, FreshDone, tux_getreply
<1>d. WorkIds' = WorkIds /\ OnceWork'
  BY <1>a, <1>c DEF WorkIds, OnceWork, OnceEach
<1>e. Once(req') /\ Ids(req') \subseteq Ids(req)
  <2>1. CASE req' = req
    BY <1>a, <2>1 DEF OnceEach
  <2>2. CASE \E i \in DOMAIN req : req' = RemoveAt(req, i)
    <3>1. PICK i \in DOMAIN req : req' = RemoveAt(req, i)
      BY <2>2
    <3>2. PICK S : S = [to : Servers, type : Types, id : Nat]
      OBVIOUS
    <3>3. req \in Seq(S) /\ Once(req)
      BY <1>a, <3>2 DEF TypeOK, OnceEach
    <3>4. Once(RemoveAt(req, i)) /\ Ids(RemoveAt(req, i)) = Ids(req) \ {req[i].id}
      BY <3>3, RemoveIds
    <3> QED
      BY <3>1, <3>4
  <2> QED
    BY <2>1, <2>2 DEF GovStep, CmdExit, CmdFresh, Stopped, clean_task_msg, FreshDone, tux_getreply
<1>f. Once(rsp') /\ Ids(rsp') \subseteq Ids(rsp)
  <2>1. CASE rsp' = rsp
    BY <1>a, <2>1 DEF OnceEach
  <2>2. CASE \E i \in DOMAIN rsp : rsp' = RemoveAt(rsp, i)
    <3>1. PICK i \in DOMAIN rsp : rsp' = RemoveAt(rsp, i)
      BY <2>2
    <3>2. PICK S : S = [type : Types, id : Nat]
      OBVIOUS
    <3>3. rsp \in Seq(S) /\ Once(rsp)
      BY <1>a, <3>2 DEF TypeOK, OnceEach
    <3>4. Once(RemoveAt(rsp, i)) /\ Ids(RemoveAt(rsp, i)) = Ids(rsp) \ {rsp[i].id}
      BY <3>3, RemoveIds
    <3> QED
      BY <3>1, <3>4
  <2> QED
    BY <2>1, <2>2 DEF GovStep, CmdExit, CmdFresh, Stopped, clean_task_msg, FreshDone, tux_getreply
<1>1. OnceEach'
  BY <1>a, <1>b, <1>d, <1>e, <1>f DEF OnceEach
<1>2. Apart'
  BY <1>a, <1>b, <1>d, <1>e, <1>f DEF Apart
<1>3. OnBus' \subseteq OnBus
  BY <1>b, <1>d, <1>e, <1>f DEF OnBus
<1>4. Numbered'
  BY <1>a, <1>b, <1>c, <1>3 DEF Numbered, Unsent
<1> QED
  BY <1>1, <1>2, <1>4 DEF CopyInv

LEMMA CopyInvariant == Spec => []CopyInv
<1>1. TypeOK /\ TypeOK' /\ CopyInv /\ [Next]_vars => CopyInv'
  <2> SUFFICES ASSUME TypeOK, TypeOK', CopyInv, [Next]_vars PROVE CopyInv'
    OBVIOUS
  <2>1. CASE UNCHANGED vars
    <3>1. req' = req /\ rsp' = rsp /\ call' = call /\ wk' = wk /\ ids' = ids
      BY <2>1 DEF vars
    <3>2. WorkIds' = WorkIds /\ HandIds' = HandIds /\ OnceWork' = OnceWork /\ OnceHand' = OnceHand
      BY <3>1 DEF WorkIds, HandIds, OnceWork, OnceHand
    <3>3. OnceEach' = OnceEach /\ Apart' = Apart /\ OnBus' = OnBus
      BY <3>1, <3>2 DEF OnceEach, Apart, OnBus
    <3>4. Numbered' = Numbered
      BY <3>1, <3>3 DEF Numbered, Unsent
    <3> QED
      BY <3>3, <3>4 DEF CopyInv
  <2>2. CASE Next
    BY <2>2, CallerCopy, WorkerCopy, GovCopy DEF Next
  <2> QED
    BY <2>1, <2>2
<1> QED
  BY <1>1, InitCopy, BusTypeCorrect, PTL DEF Spec

\* At most one member: none, or just the one.
LEMMA AtMostOne ==
    ASSUME NEW S, \A x, y \in S : x = y
    PROVE  Cardinality(S) \in {0, 1} /\ (Cardinality(S) = 1 => S # {})
<1>1. CASE S = {}
  BY <1>1, FS_EmptySet
<1>2. CASE \E x : S = {x}
  BY <1>2, FS_Singleton
<1> QED
  BY <1>1, <1>2

\* For any callers, workers and sequence of crashes, commands and timeouts, a
\* call is in one place at most: no request is executed twice and no reply is
\* delivered twice.
THEOREM NoCallTwice == Spec => []OneCopy
<1>1. CopyInv => OneCopy
  <2> SUFFICES ASSUME CopyInv, NEW n \in 1..ids PROVE Copies(n) <= 1
    BY DEF OneCopy
  <2> DEFINE A == {i \in DOMAIN req : req[i].id = n}
             B == {i \in DOMAIN rsp : rsp[i].id = n}
             C == {w \in Workers : wk[w].msg.id = n}
             D == {c \in Callers : call[c].rep = n}
  <2>0. n # 0
    OBVIOUS
  <2>1. /\ \A x, y \in A : x = y
        /\ \A x, y \in B : x = y
        /\ \A x, y \in C : x = y
        /\ \A x, y \in D : x = y
    BY <2>0 DEF CopyInv, OnceEach, Once, OnceWork, OnceHand
  <2>2. /\ A # {} => n \in Ids(req)
        /\ B # {} => n \in Ids(rsp)
        /\ C # {} => n \in WorkIds
        /\ D # {} => n \in HandIds
    BY <2>0 DEF Ids, WorkIds, HandIds
  <2>3. Copies(n) = Cardinality(A) + Cardinality(B) + Cardinality(C) + Cardinality(D)
    BY DEF Copies
  <2> HIDE DEF A, B, C, D
  <2>4. /\ A = {} \/ (B = {} /\ C = {} /\ D = {})
        /\ B = {} \/ (C = {} /\ D = {})
        /\ C = {} \/ D = {}
    BY <2>2 DEF CopyInv, Apart
  <2>5. /\ Cardinality(A) \in {0, 1} /\ (Cardinality(A) = 1 => A # {})
        /\ Cardinality(B) \in {0, 1} /\ (Cardinality(B) = 1 => B # {})
        /\ Cardinality(C) \in {0, 1} /\ (Cardinality(C) = 1 => C # {})
        /\ Cardinality(D) \in {0, 1} /\ (Cardinality(D) = 1 => D # {})
    BY <2>1, AtMostOne
  <2> QED
    BY <2>3, <2>4, <2>5
<1> QED
  BY <1>1, CopyInvariant, PTL
-----------------------------------------------------------------------------
(***************************************************************************)
(* Replies are not mixed up.  A child of C001 takes its pid for reply      *)
(* type, which nobody shares; two tools that send the same command share   *)
(* one, and for them the property does not hold.  As long as every call    *)
(* of a type ended with its reply, a message of that type belongs to the   *)
(* call its caller is waiting for.                                         *)
(***************************************************************************)

\* The reply type of a caller of tux_call is its own.
PrivateReplies == \A c \in SyncCallers, d \in Callers : RType[c] = RType[d] => c = d

\* Call n, of reply type t, is on the bus and its reply is not taken yet.
Held(t, n) == \/ \E i \in DOMAIN req : req[i].type = t /\ req[i].id = n
              \/ \E i \in DOMAIN rsp : rsp[i].type = t /\ rsp[i].id = n
              \/ \E w \in Workers : wk[w].msg.type = t /\ wk[w].msg.id = n

Awaits(c, n) == call[c].at \in {"sent", "wait"} /\ call[c].id = n

OwnInv == \A c \in SyncCallers :
            RType[c] \notin orphaned =>
                /\ \A n : Held(RType[c], n) => Awaits(c, n)
                /\ call[c].at = "got" => call[c].rep = call[c].id

\* What is in a queue after msgrcv was in it before.
LEMMA RemoveFrom ==
    ASSUME NEW T, NEW q \in Seq(T), NEW i \in DOMAIN q, NEW j \in DOMAIN RemoveAt(q, i)
    PROVE  \E k \in DOMAIN q : RemoveAt(q, i)[j] = q[k]
<1> DEFINE S == {q[k] : k \in DOMAIN q}
<1>1. q \in Seq(S)
  <2>1. DOMAIN q = 1..Len(q) /\ Len(q) \in Nat /\ q = [k \in 1..Len(q) |-> q[k]]
    OBVIOUS
  <2>2. \A k \in 1..Len(q) : q[k] \in S
    BY <2>1
  <2>3. q \in [1..Len(q) -> S]
    <3> HIDE DEF S
    <3> QED
      BY <2>1, <2>2
  <2> QED
    BY <2>1, <2>3, SeqDef
<1> HIDE DEF S
<1>2. RemoveAt(q, i) \in Seq(S)
  BY <1>1, RemoveAtSeq
<1>3. RemoveAt(q, i)[j] \in S
  BY <1>2
<1> QED
  BY <1>3 DEF S

LEMMA WorkerHolds ==
    ASSUME TypeOK, NEW w \in Workers, WorkerStep(w), NEW t \in Types, NEW n, Held(t, n)'
    PROVE  Held(t, n)
<1>a. \A v \in Workers : v # w => wk'[v] = wk[v]
  BY DEF WorkerStep, Take, Received, NoReply, ReplyStat, ReplySend, FwdStat, FwdSend, Crash, ServiceFails,
         TermExit, Start, Finished, TypeOK
<1>n. NoWork.msg.type \notin Types
  BY SetAssumption DEF NoWork, NoMsg
<1>f. wk' = Finished(w) => wk'[w].msg.type \notin Types
  BY SetAssumption DEF Finished, NoWork, NoMsg, TypeOK
<1>1. CASE Take(w)
  <2>1. PICK i \in DOMAIN req : req' = RemoveAt(req, i) /\ wk' = Received(w, req[i])
    BY <1>1 DEF Take
  <2>2. PICK h : h = req[i]
    OBVIOUS
  <2>3. wk'[w] = wk[w] \/ (wk'[w].msg.type = h.type /\ wk'[w].msg.id = h.id)
    BY <2>1, <2>2 DEF Received, TypeOK, WorkRec
  <2>4. \A j \in DOMAIN req' : \E k \in DOMAIN req : req'[j] = req[k]
    <3>1. PICK S : req \in Seq(S)
      BY DEF TypeOK
    <3>2. \A j \in DOMAIN RemoveAt(req, i) : \E k \in DOMAIN req : RemoveAt(req, i)[j] = req[k]
      BY <3>1, RemoveFrom
    <3> QED
      BY <2>1, <3>2
  <2>5. rsp' = rsp
    BY <1>1 DEF Take
  <2>6. CASE \E j \in DOMAIN req' : req'[j].type = t /\ req'[j].id = n
    BY <2>4, <2>6 DEF Held
  <2>7. CASE \E j \in DOMAIN rsp' : rsp'[j].type = t /\ rsp'[j].id = n
    BY <2>5, <2>7 DEF Held
  <2>8. CASE \E v \in Workers : wk'[v].msg.type = t /\ wk'[v].msg.id = n
    BY <1>a, <2>2, <2>3, <2>8 DEF Held
  <2> QED
    BY <2>6, <2>7, <2>8 DEF Held
<1>2. CASE NoReply(w) \/ ReplyStat(w) \/ (\E s \in Servers : FwdStat(w, s)) \/ Crash(w) \/ ServiceFails(w) \/ TermExit(w) \/ Start(w)
  <2>1. UNCHANGED <<req, rsp>>
    BY <1>2 DEF NoReply, ReplyStat, FwdStat, Crash, ServiceFails, TermExit, Start
  <2>2. wk'[w].msg = wk[w].msg \/ wk'[w].msg.type \notin Types
    <3>1. CASE wk' = Finished(w)
      BY <1>f, <3>1
    <3>2. CASE wk' = [wk EXCEPT ![w].at = "reply"]
      BY <3>2 DEF TypeOK, WorkRec
    <3>3. CASE \E s \in Servers : FwdStat(w, s)
      BY <3>3 DEF FwdStat, TypeOK, WorkRec
    <3>4. CASE Crash(w) \/ ServiceFails(w) \/ TermExit(w)
      BY <1>n, <3>4 DEF Crash, ServiceFails, TermExit, TypeOK, NoWork
    <3>5. CASE Start(w)
      BY <1>n, <3>5 DEF Start, TypeOK
    <3> QED
      BY <1>2, <3>1, <3>2, <3>3, <3>4, <3>5 DEF NoReply, ReplyStat
  <2> QED
    BY <1>a, <2>1, <2>2 DEF Held
<1>3. CASE ReplySend(w)
  <2>1. PICK m : m = wk[w].msg
    OBVIOUS
  <2>2. rsp' = Append(rsp, m) /\ req' = req /\ wk' = Finished(w)
    BY <1>3, <2>1 DEF ReplySend
  <2>3. \A j \in DOMAIN rsp' : rsp'[j] = m \/ \E k \in DOMAIN rsp : rsp'[j] = rsp[k]
    BY <2>2 DEF TypeOK
  <2>4. CASE \E j \in DOMAIN rsp' : rsp'[j].type = t /\ rsp'[j].id = n
    BY <2>1, <2>3, <2>4 DEF Held
  <2>5. CASE \E j \in DOMAIN req' : req'[j].type = t /\ req'[j].id = n
    BY <2>2, <2>5 DEF Held
  <2>6. CASE \E v \in Workers : wk'[v].msg.type = t /\ wk'[v].msg.id = n
    BY <1>a, <1>f, <2>2, <2>6 DEF Held
  <2> QED
    BY <2>4, <2>5, <2>6 DEF Held
<1>4. CASE FwdSend(w)
  <2>1. PICK m : m = [to |-> wk[w].to, type |-> wk[w].msg.type, id |-> wk[w].msg.id]
    OBVIOUS
  <2>2. /\ req' = Append(req, m) /\ rsp' = rsp /\ wk' = Finished(w)
        /\ m.type = wk[w].msg.type /\ m.id = wk[w].msg.id
    BY <1>4, <2>1 DEF FwdSend
  <2>3. \A j \in DOMAIN req' : req'[j] = m \/ \E k \in DOMAIN req : req'[j] = req[k]
    BY <2>2 DEF TypeOK
  <2>4. CASE \E j \in DOMAIN req' : req'[j].type = t /\ req'[j].id = n
    BY <2>2, <2>3, <2>4 DEF Held
  <2>5. CASE \E j \in DOMAIN rsp' : rsp'[j].type = t /\ rsp'[j].id = n
    BY <2>2, <2>5 DEF Held
  <2>6. CASE \E v \in Workers : wk'[v].msg.type = t /\ wk'[v].msg.id = n
    BY <1>a, <1>f, <2>2, <2>6 DEF Held
  <2> QED
    BY <2>4, <2>5, <2>6 DEF Held
<1> QED
  BY <1>1, <1>2, <1>3, <1>4 DEF WorkerStep

LEMMA GovHolds ==
    ASSUME TypeOK, GovStep \/ \E t \in ReadTypes : tux_getreply(t), NEW u, NEW n, Held(u, n)'
    PROVE  Held(u, n)
<1>1. \A w \in Workers : wk'[w].msg = wk[w].msg
  <2>1. CASE \E s \in Servers : CmdExit(s) \/ CmdFresh(s)
    <3>1. PICK s \in Servers :
            wk' = [w \in Workers |-> IF Serves[w] = s /\ wk[w].at # "gone"
                                     THEN [wk[w] EXCEPT !.term = TRUE] ELSE wk[w]]
      BY <2>1 DEF CmdExit, CmdFresh, Stopped
    <3> QED
      BY <3>1 DEF TypeOK, WorkRec
  <2>2. CASE wk' = wk
    BY <2>2
  <2> QED
    BY <2>1, <2>2 DEF GovStep, clean_task_msg, FreshDone, tux_getreply
<1>2. \A j \in DOMAIN req' : \E k \in DOMAIN req : req'[j] = req[k]
  <2>1. CASE \E i \in DOMAIN req : req' = RemoveAt(req, i)
    <3>1. PICK S : req \in Seq(S)
      BY DEF TypeOK
    <3>2. PICK i \in DOMAIN req : req' = RemoveAt(req, i)
      BY <2>1
    <3>3. \A j \in DOMAIN RemoveAt(req, i) : \E k \in DOMAIN req : RemoveAt(req, i)[j] = req[k]
      BY <3>1, RemoveFrom
    <3> QED
      BY <3>2, <3>3
  <2> QED
    BY <2>1 DEF GovStep, CmdExit, CmdFresh, Stopped, clean_task_msg, FreshDone, tux_getreply
<1>3. \A j \in DOMAIN rsp' : \E k \in DOMAIN rsp : rsp'[j] = rsp[k]
  <2>1. CASE \E i \in DOMAIN rsp : rsp' = RemoveAt(rsp, i)
    <3>1. PICK S : rsp \in Seq(S)
      BY DEF TypeOK
    <3>2. PICK i \in DOMAIN rsp : rsp' = RemoveAt(rsp, i)
      BY <2>1
    <3>3. \A j \in DOMAIN RemoveAt(rsp, i) : \E k \in DOMAIN rsp : RemoveAt(rsp, i)[j] = rsp[k]
      BY <3>1, RemoveFrom
    <3> QED
      BY <3>2, <3>3
  <2> QED
    BY <2>1 DEF GovStep, CmdExit, CmdFresh, Stopped, clean_task_msg, FreshDone, tux_getreply
<1> QED
  BY <1>1, <1>2, <1>3 DEF Held
LEMMA CallerOwn ==
    ASSUME PrivateReplies, TypeOK, TypeOK', CopyInv, CopyInv', OwnInv,
           NEW d \in Callers, CallerStep(d)
    PROVE  OwnInv'
<1> SUFFICES ASSUME NEW c \in SyncCallers, RType[c] \notin orphaned'
             PROVE  /\ \A n : Held(RType[c], n)' => Awaits(c, n)'
                    /\ call'[c].at = "got" => call'[c].rep = call'[c].id
  BY DEF OwnInv
<1>a. RType[c] \notin orphaned /\ c \in Callers
  BY DEF CallerStep, Locate, Stat, Send, AlarmEarly, Listen, Receive, Interrupt,
         AlarmLate, Return, Callers
<1>b. \A e \in Callers : e # d => call'[e] = call[e]
  BY DEF CallerStep, Locate, Stat, Send, AlarmEarly, Listen, Receive, Interrupt,
         AlarmLate, Return, TypeOK
<1>c. /\ \A n : Held(RType[c], n) => Awaits(c, n)
      /\ call[c].at = "got" => call[c].rep = call[c].id
  BY <1>a DEF OwnInv
<1>w. wk' = wk
  BY DEF CallerStep, Locate, Stat, Send, AlarmEarly, Listen, Receive, Interrupt,
         AlarmLate, Return
<1>n. NoCall.at = "idle"
  BY DEF NoCall
<1>d. CASE c # d
  <2>1. call'[c] = call[c]
    BY <1>a, <1>b, <1>d
  <2>2. RType[d] # RType[c]
    BY <1>d DEF PrivateReplies
  <2>3. ASSUME NEW n, Held(RType[c], n)' PROVE Held(RType[c], n)
    <3>1. CASE UNCHANGED <<req, rsp>>
      BY <1>w, <2>3, <3>1 DEF Held
    <3>2. CASE Send(d)
      <4>1. PICK m : m = [to |-> call[d].to, type |-> RType[d], id |-> call[d].id]
        OBVIOUS
      <4>2. req' = Append(req, m) /\ rsp' = rsp /\ m.type = RType[d]
        BY <3>2, <4>1 DEF Send
      <4>3. \A j \in DOMAIN req' : req'[j] = m \/ \E k \in DOMAIN req : req'[j] = req[k]
        BY <4>2 DEF TypeOK
      <4> QED
        BY <1>w, <2>2, <2>3, <4>2, <4>3 DEF Held
    <3>3. CASE Receive(d)
      <4>1. PICK i \in DOMAIN rsp : rsp' = RemoveAt(rsp, i)
        BY <3>3 DEF Receive
      <4>2. PICK S : rsp \in Seq(S)
        BY DEF TypeOK
      <4>3. \A j \in DOMAIN RemoveAt(rsp, i) : \E k \in DOMAIN rsp : RemoveAt(rsp, i)[j] = rsp[k]
        BY <4>2, RemoveFrom
      <4>4. req' = req
        BY <3>3 DEF Receive
      <4>5. \A j \in DOMAIN rsp' : \E k \in DOMAIN rsp : rsp'[j] = rsp[k]
        BY <4>1, <4>3
      <4> QED
        BY <1>w, <2>3, <4>4, <4>5 DEF Held
    <3> QED
      BY <3>1, <3>2, <3>3 DEF CallerStep, Locate, Stat, AlarmEarly, Listen, Interrupt,
                              AlarmLate, Return
  <2> QED
    BY <1>c, <2>1, <2>3 DEF Awaits
<1>e. CASE c = d
  <2>1. ASSUME NEW s \in Servers, Locate(d, s)
        PROVE  /\ \A n : Held(RType[c], n)' => Awaits(c, n)'
               /\ call'[c].at = "got" => call'[c].rep = call'[c].id
    <3>1. call[c].at = "idle" /\ call'[c].at \in {"idle", "stat"} /\ UNCHANGED <<req, rsp>>
      BY <1>e, <2>1 DEF Locate, TypeOK
    <3>2. ASSUME NEW n, Held(RType[c], n)' PROVE FALSE
      BY <1>c, <1>w, <3>1, <3>2 DEF Held, Awaits
    <3> QED
      BY <3>1, <3>2
  <2>2. CASE Stat(d)
    <3>1. call[c].at = "stat" /\ call'[c].at \in {"idle", "send"} /\ UNCHANGED <<req, rsp>>
      BY <1>e, <1>n, <2>2 DEF Stat, TypeOK, CallRec
    <3>2. ASSUME NEW n, Held(RType[c], n)' PROVE FALSE
      BY <1>c, <1>w, <3>1, <3>2 DEF Held, Awaits
    <3> QED
      BY <3>1, <3>2
  <2>3. CASE Send(d)
    <3>1. PICK m : m = [to |-> call[d].to, type |-> RType[d], id |-> call[d].id]
      OBVIOUS
    <3>2. req' = Append(req, m) /\ rsp' = rsp /\ m.id = call[c].id /\ call[c].at = "send"
      BY <1>e, <2>3, <3>1 DEF Send
    <3>3. call'[c].at = "sent" /\ call'[c].id = call[c].id
      BY <1>e, <2>3 DEF Send, TypeOK, CallRec
    <3>4. \A j \in DOMAIN req' : req'[j] = m \/ \E k \in DOMAIN req : req'[j] = req[k]
      BY <3>2 DEF TypeOK
    <3>5. ASSUME NEW n, Held(RType[c], n)' PROVE n = call[c].id
      <4>1. ~Held(RType[c], n)
        BY <1>c, <3>2 DEF Awaits
      <4> QED
        BY <1>w, <3>2, <3>4, <3>5, <4>1 DEF Held
    <3> QED
      BY <3>3, <3>5 DEF Awaits
  <2>4. CASE AlarmEarly(d) \/ Listen(d)
    <3>1. /\ call'[c].at \in {"sent", "wait"} /\ call'[c].id = call[c].id
          /\ call[c].at = "sent" /\ UNCHANGED <<req, rsp>>
      BY <1>e, <2>4 DEF AlarmEarly, Listen, TypeOK, CallRec
    <3>2. ASSUME NEW n, Held(RType[c], n)' PROVE Held(RType[c], n)
      BY <1>w, <3>1, <3>2 DEF Held
    <3> QED
      BY <1>c, <3>1, <3>2 DEF Awaits
  <2>5. CASE Receive(d)
    <3>1. PICK i \in DOMAIN rsp :
            /\ rsp[i].type = RType[c] /\ rsp' = RemoveAt(rsp, i)
            /\ call' = [call EXCEPT ![d].at = "got", ![d].rep = rsp[i].id]
      BY <1>e, <2>5 DEF Receive, FirstOf
    <3>2. PICK n : n = rsp[i].id
      OBVIOUS
    <3>3. Held(RType[c], n) /\ n = call[c].id
      BY <1>c, <3>1, <3>2 DEF Held, Awaits
    <3>4. call'[c].at = "got" /\ call'[c].rep = n /\ call'[c].id = call[c].id /\ req' = req
      BY <1>e, <2>5, <3>1, <3>2, SMTT(30) DEF Receive, TypeOK, CallRec
    <3>5. n \in HandIds' /\ n # 0
      <4>1. n \in Ids(rsp)
        BY <3>2 DEF Ids
      <4>2. Ids(rsp) \subseteq 1..ids
        BY DEF CopyInv, Numbered, OnBus
      <4>3. n # 0
        BY <4>1, <4>2 DEF TypeOK
      <4> QED
        BY <1>a, <3>4, <4>3 DEF HandIds
    <3>6. ~Held(RType[c], n)'
      <4> SUFFICES ASSUME Held(RType[c], n)' PROVE FALSE
        OBVIOUS
      <4>1. n \in Ids(req)' \cup Ids(rsp)' \cup WorkIds'
        BY <3>5 DEF Held, Ids, WorkIds
      <4> QED
        BY <3>5, <4>1 DEF CopyInv, Apart
    <3>7. ASSUME NEW k, Held(RType[c], k)' PROVE Held(RType[c], k)
      <4>1. PICK S : rsp \in Seq(S)
        BY DEF TypeOK
      <4>2. \A j \in DOMAIN RemoveAt(rsp, i) : \E l \in DOMAIN rsp : RemoveAt(rsp, i)[j] = rsp[l]
        BY <4>1, RemoveFrom
      <4>3. \A j \in DOMAIN rsp' : \E l \in DOMAIN rsp : rsp'[j] = rsp[l]
        BY <3>1, <4>2
      <4> QED
        BY <1>w, <3>4, <3>7, <4>3 DEF Held
    <3>8. ASSUME NEW k, Held(RType[c], k)' PROVE FALSE
      <4>1. Held(RType[c], k)
        BY <3>7, <3>8
      <4>2. k = n
        BY <1>c, <3>3, <4>1 DEF Awaits
      <4> QED
        BY <3>6, <3>8, <4>2
    <3> QED
      BY <3>3, <3>4, <3>8
  <2>6. CASE AlarmLate(d)
    <3>1. /\ call'[c].at = "got" /\ call'[c].id = call[c].id /\ call'[c].rep = call[c].rep
          /\ call[c].at = "got" /\ UNCHANGED <<req, rsp>>
      BY <1>e, <2>6 DEF AlarmLate, TypeOK, CallRec
    <3>2. ASSUME NEW n, Held(RType[c], n)' PROVE FALSE
      BY <1>c, <1>w, <3>1, <3>2 DEF Held, Awaits
    <3> QED
      BY <1>c, <3>1, <3>2
  <2>7. CASE Interrupt(d)
    BY <1>e, <2>7 DEF Interrupt
  <2>8. CASE Return(d)
    <3>1. call'[c].at = "idle" /\ call[c].at = "got" /\ UNCHANGED <<req, rsp>>
      BY <1>e, <1>n, <2>8 DEF Return, TypeOK
    <3>2. ASSUME NEW n, Held(RType[c], n)' PROVE FALSE
      BY <1>c, <1>w, <3>1, <3>2 DEF Held, Awaits
    <3> QED
      BY <3>1, <3>2
  <2> QED
    BY <2>1, <2>2, <2>3, <2>4, <2>5, <2>6, <2>7, <2>8 DEF CallerStep
<1> QED
  BY <1>d, <1>e

\* As long as no call of a reply type ended without its reply, tux_call with a
\* type of its own returns the reply to its own request: however requests are
\* forwarded, cleaned and overtaken, replies are not mixed up.
THEOREM RepliesOwn == PrivateReplies => (Spec => []OwnReply)
<1> SUFFICES ASSUME PrivateReplies PROVE Spec => []OwnReply
  OBVIOUS
<1>1. Init => OwnInv
  <2> SUFFICES ASSUME Init, NEW c \in SyncCallers
               PROVE (\A n : ~Held(RType[c], n)) /\ call[c].at # "got"
    BY DEF OwnInv
  <2>1. call[c].at = "idle"
    BY DEF Init, NoCall, Callers
  <2>2. RType[c] # NoType
    BY SetAssumption DEF Callers
  <2>3. req = <<>> /\ rsp = <<>> /\ \A w \in Workers : wk[w].msg.type = NoType
    BY DEF Init, NoWork, NoMsg
  <2> QED
    BY <2>1, <2>2, <2>3 DEF Held
<1>2. TypeOK /\ TypeOK' /\ CopyInv /\ CopyInv' /\ OwnInv /\ [Next]_vars => OwnInv'
  <2> SUFFICES ASSUME TypeOK, TypeOK', CopyInv, CopyInv', OwnInv, [Next]_vars PROVE OwnInv'
    OBVIOUS
  <2>1. CASE UNCHANGED vars
    <3>1. req' = req /\ rsp' = rsp /\ call' = call /\ wk' = wk /\ orphaned' = orphaned
      BY <2>1 DEF vars
    <3>2. ASSUME NEW t, NEW n PROVE Held(t, n)' = Held(t, n)
      BY <3>1 DEF Held
    <3> QED
      BY <3>1, <3>2 DEF OwnInv, Awaits
  <2>2. CASE (\E w \in Workers : WorkerStep(w)) \/ GovStep \/ (\E t \in ReadTypes : tux_getreply(t))
    <3>1. call' = call /\ orphaned' = orphaned
      BY <2>2 DEF WorkerStep, Take, NoReply, ReplyStat, ReplySend, FwdStat, FwdSend, Crash, ServiceFails, TermExit,
                  Start, GovStep, CmdExit, CmdFresh, Stopped, clean_task_msg, FreshDone, tux_getreply
    <3>2. ASSUME NEW t \in Types, NEW n, Held(t, n)' PROVE Held(t, n)
      BY <2>2, <3>2, WorkerHolds, GovHolds
    <3>3. \A c \in SyncCallers : RType[c] \in Types
      BY SetAssumption DEF Callers
    <3> QED
      BY <3>1, <3>2, <3>3 DEF OwnInv, Awaits
  <2>3. CASE \E c \in Callers : CallerStep(c)
    BY <2>3, CallerOwn
  <2> QED
    BY <2>1, <2>2, <2>3 DEF Next
<1>3. OwnInv => OwnReply
  BY DEF OwnInv, OwnReply
<1> QED
  BY <1>1, <1>2, <1>3, BusTypeCorrect, CopyInvariant, PTL DEF Spec
=============================================================================
