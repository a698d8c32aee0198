-------------------------- MODULE LifecycleProofs ---------------------------
(***************************************************************************)
(* What is proved of the System V objects for any number of processes and  *)
(* segments: ConnectedUsable, Recoverable and LockExcludes.                *)
(*                                                                         *)
(* The three rest on one inductive invariant.  Its first part holds        *)
(* always; the rest while no start or removal overlapped, and of that      *)
(* Ready needs also that none ended halfway, Named that nobody stored late *)
(* what he found before a start, and Locked besides that nobody set the    *)
(* value of a semaphore that was held.                                     *)
(***************************************************************************)
EXTENDS Lifecycle, FiniteSetTheorems, TLAPS

Filling == {"req", "rsp", "sem"}            \* a start that has made the segment
Taking  == {"rmq", "rms", "rmm"}            \* a removal past stop_system
Working == {"make"} \cup Filling \cup Taking

Joining == {"joinsem", "storesem", "getreq", "storereq", "getrsp", "storersp"}

Pcs == {"off", "connect", "kill", "up"} \cup Joining \cup Working

SegRec  == [keys : BOOLEAN, req : Int, rsp : Int, sem : Int, main : Govs \cup {"none"}]
ProcRec == [pc : Pcs, att : 0..MaxGen, got : Int, lock : Nat, undo : Int]

LifeType ==
    /\ shm \in 0..MaxGen
    /\ seg \in [Gens -> SegRec]
    /\ que \in [req : Nat, rsp : Nat]
    /\ sem \in [id : Nat, val : Nat]
    /\ ids \in Nat
    /\ proc \in [Procs -> ProcRec]

\* Which steps belong to which program, and what a process has at each.
Placed == \A p \in Procs :
    /\ proc[p].att = 0 <=> proc[p].pc \in {"off", "make"}
    /\ proc[p].lock # 0 => proc[p].pc = "up"
    /\ proc[p].pc \in {"make", "connect"} \cup Filling => p \in Govs
    /\ proc[p].pc \in {"kill"} \cup Taking => p \in Downs

\* Segments are made in order; only made ones are named or attached.
InUse(g) == seg[g].main # "none"
Made == /\ \E n \in 0..MaxGen : \A g \in Gens : InUse(g) <=> g <= n
        /\ shm # 0 => InUse(shm)
        /\ \A p \in Procs : proc[p].att # 0 => InUse(proc[p].att)

\* No id is used that was not given out.
Given == /\ sem.id <= ids
         /\ \A g \in Gens : seg[g].sem <= ids
         /\ que.req <= ids /\ que.rsp <= ids
         /\ \A p \in Procs : proc[p].lock <= ids /\ proc[p].got <= ids

\* One start or removal at a time, and it is at work on the segment of the name.
OneWorks == \A p, q \in Procs : proc[p].pc \in Working /\ proc[q].pc \in Working => p = q

\* The semaphore is the last to come and goes before the segment.
Bare == /\ shm = 0 => sem.id = 0
        /\ \A p \in Procs :
             /\ proc[p].pc \in {"make", "rmm"} \cup Filling => sem.id = 0
             /\ proc[p].pc = "make" => shm = 0
             /\ proc[p].pc \in Filling \cup Taking => proc[p].att = shm

\* Whoever joins a segment that is being filled has found no semaphore.
Alone == \A p, q \in Procs :
    p # q /\ proc[p].pc \in Filling /\ proc[q].att = proc[p].att =>
        /\ proc[q].pc \in {"joinsem", "storesem", "getreq"}
        /\ proc[q].pc = "storesem" => proc[q].got = -1
        /\ proc[q].pc = "getreq" => seg[proc[q].att].sem < 0

\* What a process has found of the queues of the segment of the name is there, or none is.
Fetched == \A p \in Procs : proc[p].att = shm =>
    /\ proc[p].pc = "storereq" => que.req = 0 \/ proc[p].got = que.req
    /\ proc[p].pc = "storersp" => que.rsp = 0 \/ proc[p].got = que.rsp

\* A Governor is attached to the segment of the name, which it made, and is gone
\* before anything is removed.
Owned == \A p \in Govs : proc[p].att # 0 =>
    /\ proc[p].att = shm /\ seg[shm].main = p
    /\ \A q \in Procs : proc[q].pc \notin Taking

\* The segment of the name holds the ids of the queues, and the semaphore is there.
Whole == /\ seg[shm].keys
         /\ seg[shm].req = que.req /\ que.req # 0
         /\ seg[shm].rsp = que.rsp /\ que.rsp # 0
         /\ sem.id # 0
Ready == /\ shm # 0 => Whole \/ \E p \in Procs : proc[p].pc \in Halfway
         /\ \A p \in Procs : /\ proc[p].pc \in {"rsp", "sem"} =>
                                  seg[shm].keys /\ seg[shm].req = que.req /\ que.req # 0
                             /\ proc[p].pc = "sem" => seg[shm].rsp = que.rsp /\ que.rsp # 0

\* The segment of the name holds the id of the semaphore.
Named == sem.id # 0 => seg[shm].sem = sem.id

\* A lock is the semaphore's that is there exactly when its holder is attached to the
\* segment of the name, no other segment names that semaphore or is about to; what
\* the kernel undoes is the lock.
Holds(p) == sem.id # 0 /\ proc[p].lock = sem.id
Locked == /\ sem.id # 0 => \/ sem.val = 1 /\ \A p \in Procs : ~Holds(p)
                           \/ sem.val = 0 /\ \E p \in Procs : \A q \in Procs : Holds(q) <=> q = p
          /\ \A p \in Procs :
               /\ proc[p].undo = IF Holds(p) THEN 1 ELSE 0
               /\ sem.id # 0 /\ proc[p].lock # 0 => (Holds(p) <=> proc[p].att = shm)
               /\ sem.id # 0 /\ proc[p].pc = "storesem" /\ proc[p].got = sem.id => proc[p].att = shm
          /\ sem.id # 0 => \A g \in Gens \ {shm} : seg[g].sem # sem.id

Always  == LifeType /\ Placed /\ Made /\ Given
Orderly == OneWorks /\ Bare /\ Alone /\ Fetched /\ Owned

LifeInv == /\ Always
           /\ "overlap" \notin marred => Orderly
           /\ marred \cap {"overlap", "halfway"} = {} => Ready
           /\ marred \cap {"overlap", "late"} = {} => Named
           /\ marred \cap {"overlap", "setval", "late"} = {} => Locked

-----------------------------------------------------------------------------
(***************************************************************************)
(* What the updates of the processes do.                                   *)
(***************************************************************************)

\* Only the next step of p changes.
Stepped(p, x) ==
    /\ proc'[p].pc = x /\ proc'[p].att = proc[p].att
    /\ proc'[p].lock = proc[p].lock /\ proc'[p].undo = proc[p].undo /\ proc'[p].got = proc[p].got
    /\ \A q \in Procs \ {p} : proc'[q] = proc[q]

\* The process p ends.
Gone(p) ==
    /\ proc'[p].pc = "off" /\ proc'[p].att = 0
    /\ proc'[p].lock = 0 /\ proc'[p].undo = 0 /\ proc'[p].got = 0
    /\ \A q \in Procs \ {p} : proc'[q] = proc[q]

LEMMA StepOf ==
    ASSUME LifeType, NEW p \in Procs, NEW x \in Pcs, proc' = [proc EXCEPT ![p].pc = x]
    PROVE  proc' \in [Procs -> ProcRec] /\ Stepped(p, x)
  BY DEF LifeType, ProcRec, Stepped

\* The process p is attached to the segment g.
Attached(p, x, g) ==
    /\ proc' \in [Procs -> ProcRec]
    /\ proc'[p].pc = x /\ proc'[p].att = g
    /\ proc'[p].lock = proc[p].lock /\ proc'[p].undo = proc[p].undo /\ proc'[p].got = proc[p].got
    /\ \A q \in Procs \ {p} : proc'[q] = proc[q]

LEMMA AttachOf ==
    ASSUME LifeType, NEW p \in Procs, NEW x \in Pcs, NEW g \in 0..MaxGen
    PROVE  proc' = [proc EXCEPT ![p].pc = x, ![p].att = g] => Attached(p, x, g)
  <1> DEFINE pr == [proc EXCEPT ![p].pc = x]
  <1>1. pr \in [Procs -> ProcRec] /\ pr[p].pc = x /\ pr[p].lock = proc[p].lock
        /\ pr[p].undo = proc[p].undo /\ pr[p].got = proc[p].got
        /\ \A q \in Procs \ {p} : pr[q] = proc[q]
    BY DEF LifeType, ProcRec
  <1> HIDE DEF pr
  <1>2. proc' = [proc EXCEPT ![p].pc = x, ![p].att = g] => proc' = [pr EXCEPT ![p].att = g]
    BY DEF pr
  <1>3. proc' = [pr EXCEPT ![p].att = g] => Attached(p, x, g)
    BY <1>1 DEF ProcRec, Attached
  <1> QED
    BY <1>2, <1>3

LEMMA OffOf ==
    ASSUME LifeType, NEW p \in Procs, proc' = [proc EXCEPT ![p] = Off]
    PROVE  proc' \in [Procs -> ProcRec] /\ Gone(p)
  <1>1. MaxGen \in Nat /\ "off" \in Pcs
    BY ProgramsAssumption DEF Pcs, Joining, Working
  <1>2. Off \in ProcRec
    BY <1>1 DEF Off, ProcRec
  <1> QED
    BY <1>2 DEF LifeType, Gone, Off

LEMMA ClearedOf ==
    ASSUME LifeType, NEW p \in Procs, NEW x \in Pcs,
           proc' = Cleared([proc EXCEPT ![p].pc = x])
    PROVE  /\ proc' \in [Procs -> ProcRec]
           /\ proc'[p].pc = x
           /\ \A q \in Procs : /\ q # p => proc'[q].pc = proc[q].pc
                               /\ proc'[q].att = proc[q].att
                               /\ proc'[q].lock = proc[q].lock
                               /\ proc'[q].got = proc[q].got
                               /\ proc'[q].undo = 0
  <1> DEFINE pr == [proc EXCEPT ![p].pc = x]
  <1>1. /\ pr \in [Procs -> ProcRec]
        /\ pr[p].pc = x
        /\ \A q \in Procs : /\ q # p => pr[q].pc = proc[q].pc
                            /\ pr[q].att = proc[q].att
                            /\ pr[q].lock = proc[q].lock
                            /\ pr[q].got = proc[q].got
    BY DEF LifeType, ProcRec
  <1> HIDE DEF pr
  <1>2. proc' = [q \in Procs |-> [pr[q] EXCEPT !.undo = 0]]
    BY DEF Cleared, pr
  <1>3. ASSUME NEW r \in ProcRec, NEW r2, r2 = [r EXCEPT !.undo = 0]
        PROVE  r2 \in ProcRec /\ r2.pc = r.pc /\ r2.att = r.att /\ r2.lock = r.lock
               /\ r2.got = r.got /\ r2.undo = 0
    BY <1>3 DEF ProcRec
  <1>4. \A q \in Procs : proc'[q] = [pr[q] EXCEPT !.undo = 0]
    BY <1>2
  <1>5. \A q \in Procs : /\ proc'[q] \in ProcRec /\ proc'[q].pc = pr[q].pc /\ proc'[q].att = pr[q].att
                        /\ proc'[q].lock = pr[q].lock /\ proc'[q].got = pr[q].got /\ proc'[q].undo = 0
    <2> TAKE q \in Procs
    <2>1. pr[q] \in ProcRec
      BY <1>1
    <2>2. proc'[q] = [pr[q] EXCEPT !.undo = 0]
      BY <1>4
    <2> QED
      BY <1>3, <2>1, <2>2
  <1>6. proc' \in [Procs -> ProcRec]
    BY <1>2, <1>5
  <1>7. \A q \in Procs : /\ q # p => proc'[q].pc = proc[q].pc
                         /\ proc'[q].att = proc[q].att /\ proc'[q].lock = proc[q].lock
                         /\ proc'[q].got = proc[q].got /\ proc'[q].undo = 0
    <2> TAKE q \in Procs
    <2>1. /\ q # p => pr[q].pc = proc[q].pc
          /\ pr[q].att = proc[q].att /\ pr[q].lock = proc[q].lock /\ pr[q].got = proc[q].got
      BY <1>1
    <2>2. /\ proc'[q].pc = pr[q].pc /\ proc'[q].att = pr[q].att
          /\ proc'[q].lock = pr[q].lock /\ proc'[q].got = pr[q].got /\ proc'[q].undo = 0
      BY <1>5
    <2> QED
      BY <2>1, <2>2
  <1>8. proc'[p].pc = x
    BY <1>1, <1>5
  <1> QED
    BY <1>6, <1>7, <1>8

-----------------------------------------------------------------------------
(***************************************************************************)
(* sys_start keeps the invariant.                                          *)
(***************************************************************************)
LEMMA ShmCheckKeeps ==
    ASSUME LifeInv, NEW p \in Procs, p \in Govs, ShmCheck(p)
    PROVE  LifeInv'
  <1> USE DEF Filling, Taking, Working, Joining, Pcs
  <1>1. /\ proc[p].pc = "off" /\ shm = 0
        /\ proc' \in [Procs -> ProcRec] /\ Stepped(p, "make")
        /\ UNCHANGED <<shm, seg, que, sem, ids>>
    BY StepOf DEF ShmCheck, LifeInv, Always
  <1>2. "overlap" \notin marred' => "overlap" \notin marred /\ ~Busy(p)
    BY DEF ShmCheck, Mark
  <1>3. "overlap" \in marred => "overlap" \in marred'
    BY DEF ShmCheck, Mark
  <1>4. \A x \in {"halfway", "setval", "late"} : x \in marred <=> x \in marred'
    BY DEF ShmCheck, Mark
  <1>5. Always'
    <2>1. LifeType'
      BY <1>1 DEF LifeInv, Always, LifeType
    <2>2. Placed'
      BY <1>1 DEF LifeInv, Always, Placed, Stepped
    <2>3. Made'
      BY <1>1 DEF LifeInv, Always, Made, InUse, Stepped
    <2>4. Given'
      BY <1>1 DEF LifeInv, Always, Given, Stepped
    <2> QED
      BY <2>1, <2>2, <2>3, <2>4 DEF Always
  <1>6. ASSUME "overlap" \notin marred' PROVE Orderly'
    <2>0. Orderly /\ \A q \in Procs \ {p} : proc[q].pc \notin Working
      BY <1>2, <1>6 DEF LifeInv, Busy, Starting, Removing
    <2>1. OneWorks'
      BY <1>1, <2>0 DEF OneWorks, Stepped
    <2>2. Bare'
      BY <1>1, <2>0 DEF Orderly, Bare, Stepped
    <2>3. Alone'
      BY <1>1, <2>0 DEF Alone, Stepped
    <2>4. Owned'
      BY <1>1, <2>0 DEF Orderly, Owned, Stepped, Procs
    <2>5. Fetched'
      BY <1>1, <2>0 DEF Orderly, Fetched, Stepped
    <2> QED
      BY <2>1, <2>2, <2>3, <2>4, <2>5 DEF Orderly
  <1>7. ASSUME marred' \cap {"overlap", "halfway"} = {} PROVE Ready'
    <2>0. Ready
      BY <1>3, <1>4, <1>7 DEF LifeInv
    <2> QED
      BY <1>1, <2>0 DEF Ready, Whole, Halfway, Stepped
  <1>8. ASSUME marred' \cap {"overlap", "setval", "late"} = {} PROVE Locked'
    <2>0. Locked
      BY <1>3, <1>4, <1>8 DEF LifeInv
    <2> QED
      BY <1>1, <2>0 DEF Locked, Holds, Stepped
  <1>n. ASSUME marred' \cap {"overlap", "late"} = {} PROVE Named'
    <2>0. Named
      BY <1>3, <1>4, <1>n DEF LifeInv
    <2> QED
      BY <1>1, <2>0 DEF Named
  <1> QED
    BY <1>n, <1>5, <1>6, <1>7, <1>8 DEF LifeInv

\* A process ends that neither holds the lock nor is halfway, and changes nothing else.
LEMMA EndKeeps ==
    ASSUME LifeInv, NEW p \in Procs, proc[p].lock = 0, proc[p].pc \notin Halfway,
           proc' = [proc EXCEPT ![p] = Off], UNCHANGED <<shm, seg, que, sem, ids, marred>>
    PROVE  LifeInv'
  <1> USE DEF Filling, Taking, Working, Joining, Pcs
  <1>1. proc' \in [Procs -> ProcRec] /\ Gone(p)
    BY OffOf DEF LifeInv, Always
  <1>2. Always'
    <2>1. LifeType'
      BY <1>1 DEF LifeInv, Always, LifeType
    <2>2. Placed'
      BY <1>1 DEF LifeInv, Always, Placed, Gone
    <2>3. Made'
      BY <1>1 DEF LifeInv, Always, Made, InUse, Gone
    <2>4. Given'
      BY <1>1 DEF LifeInv, Always, LifeType, Given, Gone
    <2> QED
      BY <2>1, <2>2, <2>3, <2>4 DEF Always
  <1>3. ASSUME "overlap" \notin marred PROVE Orderly'
    <2>0. Orderly /\ Placed
      BY <1>3 DEF LifeInv, Always
    <2>1. OneWorks'
      BY <1>1, <2>0 DEF Orderly, OneWorks, Gone
    <2>2. Bare'
      BY <1>1, <2>0 DEF Orderly, Bare, Gone
    <2>3. Alone'
      BY <1>1, <2>0 DEF Orderly, Alone, Placed, Gone
    <2>4. Owned'
      BY <1>1, <2>0 DEF Orderly, Owned, Gone, Procs
    <2>5. Fetched'
      BY <1>1, <2>0 DEF Orderly, Fetched, Gone
    <2> QED
      BY <2>1, <2>2, <2>3, <2>4, <2>5 DEF Orderly
  <1>4. ASSUME Ready PROVE Ready'
    BY <1>1, <1>4 DEF Ready, Whole, Halfway, Gone
  <1>5. ASSUME Locked PROVE Locked'
    BY <1>1, <1>5 DEF Locked, Holds, Gone
  <1>n. ASSUME Named PROVE Named'
    BY <1>n DEF Named
  <1> QED
    BY <1>n, <1>2, <1>3, <1>4, <1>5 DEF LifeInv

\* A new segment is the next one.
LEMMA NextSegment ==
    ASSUME LifeType, Made, shm = 0
    PROVE  LET used == {g \in Gens : g = shm \/ seg[g].main # "none"} IN
           /\ Cardinality(used) \in 0..MaxGen
           /\ \A g \in Gens : InUse(g) <=> g <= Cardinality(used)
  <1>1. PICK n \in 0..MaxGen : \A g \in Gens : InUse(g) <=> g <= n
    BY DEF Made
  <1>2. {g \in Gens : g = shm \/ seg[g].main # "none"} = 1..n
    BY <1>1, ProgramsAssumption DEF Gens, InUse
  <1>3. Cardinality(1..n) = n
    <2>1. Cardinality(1..n) = IF 1 > n THEN 0 ELSE n - 1 + 1
      BY FS_Interval, 1 \in Int, n \in Int
    <2> QED
      BY <2>1
  <1> QED
    BY <1>1, <1>2, <1>3

LEMMA ShmMakeKeeps ==
    ASSUME LifeInv, NEW p \in Procs, p \in Govs, ShmMake(p)
    PROVE  LifeInv'
  <1> USE DEF Filling, Taking, Working, Joining, Pcs
  <1> DEFINE used == {g \in Gens : g = shm \/ seg[g].main # "none"}
             g == IF shm # 0 THEN shm ELSE Cardinality(used) + 1
  <1>1. proc[p].pc = "make" /\ g \in Gens /\ UNCHANGED <<que, sem, ids, marred>>
    BY DEF ShmMake
  <1>2. LifeType /\ Placed /\ Made /\ Given /\ proc[p].lock = 0
    BY <1>1 DEF LifeInv, Always, Placed
  <1>3. \/ /\ shm' = g /\ seg' = [seg EXCEPT ![g] = [Zeroed EXCEPT !.main = p]]
           /\ proc' = [proc EXCEPT ![p].pc = "req", ![p].att = g]
        \/ proc' = [proc EXCEPT ![p] = Off] /\ UNCHANGED <<shm, seg>>
    BY DEF ShmMake
  <1>4. shm = 0 => g \in 1..(MaxGen + 1) /\ \A h \in Gens : InUse(h) <=> h < g
    <2> SUFFICES ASSUME shm = 0 PROVE g \in 1..(MaxGen + 1) /\ \A h \in Gens : InUse(h) <=> h < g
      OBVIOUS
    <2> DEFINE n == Cardinality(used)
    <2>1. n \in 0..MaxGen /\ \A h \in Gens : InUse(h) <=> h <= n
      BY <1>2, NextSegment
    <2>2. g = n + 1
      OBVIOUS
    <2> HIDE DEF n, g
    <2> QED
      BY <2>1, <2>2, ProgramsAssumption DEF Gens
  <1>5. shm # 0 => g = shm
    OBVIOUS
  <1> HIDE DEF used, g
  <1>6. CASE proc' = [proc EXCEPT ![p] = Off] /\ UNCHANGED <<shm, seg>>
    <2>1. proc[p].pc \notin Halfway
      BY <1>1 DEF Halfway
    <2>2. UNCHANGED <<shm, seg, que, sem, ids, marred>>
      BY <1>1, <1>6
    <2>3. proc' = [proc EXCEPT ![p] = Off] /\ proc[p].lock = 0
      BY <1>2, <1>6
    <2> HIDE DEF Filling, Taking, Working, Joining, Pcs
    <2> QED
      BY <2>1, <2>2, <2>3, EndKeeps
  <1>7. CASE /\ shm' = g /\ seg' = [seg EXCEPT ![g] = [Zeroed EXCEPT !.main = p]]
             /\ proc' = [proc EXCEPT ![p].pc = "req", ![p].att = g]
    <2>1. /\ seg' \in [Gens -> SegRec]
          /\ seg'[g].main = p /\ seg'[g].sem = 0
          /\ \A h \in Gens \ {g} : seg'[h] = seg[h]
      <3> DEFINE z == [Zeroed EXCEPT !.main = p]
      <3>1. z \in SegRec /\ z.main = p /\ z.sem = 0
        <4>1. Zeroed \in SegRec /\ Zeroed.sem = 0
          BY DEF Zeroed, SegRec
        <4> QED
          BY <4>1 DEF SegRec
      <3> HIDE DEF z
      <3>2. seg' = [seg EXCEPT ![g] = z]
        BY <1>7 DEF z
      <3> QED
        BY <1>1, <1>2, <3>1, <3>2 DEF LifeType
    <2>2. /\ proc' \in [Procs -> ProcRec]
          /\ proc'[p].pc = "req" /\ proc'[p].att = g
          /\ proc'[p].lock = proc[p].lock /\ proc'[p].undo = proc[p].undo /\ proc'[p].got = proc[p].got
          /\ \A q \in Procs \ {p} : proc'[q] = proc[q]
      <3>1. g \in 0..MaxGen
        BY <1>1, ProgramsAssumption DEF Gens
      <3>2. "req" \in Pcs
        OBVIOUS
      <3>3. Attached(p, "req", g)
        BY <1>2, <1>7, <3>1, <3>2, AttachOf
      <3> QED
        BY <3>3 DEF Attached
    <2>3. Always'
      <3>1. LifeType'
        BY <1>1, <1>2, <1>7, <2>1, <2>2, ProgramsAssumption DEF LifeType, Gens
      <3>2. Placed'
        BY <1>1, <1>2, <2>2, ProgramsAssumption DEF Placed, Gens
      <3>3. Made'
        <4>1. p # "none"
          BY ProgramsAssumption
        <4>2. \A h \in Gens : InUse(h)' <=> InUse(h) \/ h = g
          BY <2>1, <4>1 DEF InUse
        <4>3. \E n \in 0..MaxGen : \A h \in Gens : InUse(h)' <=> h <= n
          <5>1. CASE shm = 0
            BY <1>1, <1>4, <4>2, <5>1, ProgramsAssumption DEF Gens
          <5>2. CASE shm # 0
            BY <1>2, <1>5, <4>2, <5>2 DEF Made
          <5> QED
            BY <5>1, <5>2
        <4>4. \A q \in Procs : proc'[q].att # 0 => seg'[proc'[q].att].main # "none"
          <5> SUFFICES ASSUME NEW q \in Procs, proc'[q].att # 0
                       PROVE  seg'[proc'[q].att].main # "none"
            OBVIOUS
          <5>1. CASE q = p
            BY <2>1, <2>2, <4>1, <5>1
          <5>2. CASE q # p
            <6>1. proc'[q].att = proc[q].att /\ proc[q].att \in Gens
              BY <1>2, <2>2, <5>2, ProgramsAssumption DEF LifeType, ProcRec, Gens
            <6> QED
              BY <1>2, <4>2, <6>1 DEF Made, InUse
          <5> QED
            BY <5>1, <5>2
        <4> QED
          BY <1>7, <2>1, <4>1, <4>3, <4>4 DEF Made, InUse
      <3>4. Given'
        BY <1>1, <1>2, <2>1, <2>2 DEF Given, LifeType
      <3> QED
        BY <3>1, <3>2, <3>3, <3>4 DEF Always
    <2>4. ASSUME "overlap" \notin marred
          PROVE  Orderly /\ shm = 0 /\ sem.id = 0 /\ \A q \in Procs \ {p} : proc[q].att # g
      <3>1. Orderly /\ shm = 0 /\ sem.id = 0
        BY <1>1, <2>4 DEF LifeInv, Orderly, Bare
      <3>2. \A q \in Procs : proc[q].att # 0 => proc[q].att \in Gens
        BY <1>2, ProgramsAssumption DEF LifeType, ProcRec, Gens
      <3>3. ASSUME NEW q \in Procs, proc[q].att = g PROVE FALSE
        <4>1. proc[q].att \in Gens /\ InUse(proc[q].att)
          BY <1>1, <1>2, <3>2, <3>3 DEF Made, Gens
        <4>2. proc[q].att < g
          BY <1>4, <3>1, <4>1
        <4>3. g \in Int
          BY <1>1 DEF Gens
        <4> QED
          BY <3>3, <4>2, <4>3
      <3> QED
        BY <3>1, <3>3
    <2>5. ASSUME "overlap" \notin marred PROVE Orderly'
      <3>1. OneWorks'
        BY <1>1, <2>2, <2>4, <2>5 DEF Orderly, OneWorks
      <3>2. Bare'
        BY <1>1, <1>7, <2>2, <2>4, <2>5 DEF Orderly, OneWorks, Bare
      <3>3. Alone'
        BY <1>1, <1>7, <2>2, <2>4, <2>5 DEF Orderly, OneWorks, Alone
      <3>4. Owned'
        <4>1. \A q \in Govs : q # p => proc[q].att = 0
          BY <2>4, <2>5 DEF Orderly, Owned
        <4> QED
          BY <1>1, <1>7, <2>1, <2>2, <2>4, <2>5, <4>1 DEF Orderly, OneWorks, Owned, Procs
      <3>5. Fetched'
        BY <1>1, <1>7, <2>2, <2>4, <2>5 DEF Fetched
      <3> QED
        BY <3>1, <3>2, <3>3, <3>4, <3>5 DEF Orderly
    <2>6. ASSUME marred \cap {"overlap", "halfway"} = {} PROVE Ready'
      BY <1>1, <2>2, <2>4, <2>6 DEF Orderly, OneWorks, Ready, Halfway
    <2>7. ASSUME marred \cap {"overlap", "setval", "late"} = {} PROVE Locked'
      BY <1>1, <2>2, <2>4, <2>7 DEF LifeInv, Locked, Holds
    <2>n. ASSUME marred \cap {"overlap", "late"} = {} PROVE Named'
      BY <1>1, <2>4, <2>n DEF Named
    <2> QED
      BY <2>n, <1>1, <2>3, <2>5, <2>6, <2>7 DEF LifeInv
  <1> QED
    BY <1>3, <1>6, <1>7

\* A start that fails deletes the segment by its name and ends.
LEMMA FailKeeps ==
    ASSUME LifeInv, NEW p \in Procs, proc[p].pc \in Filling,
           shm' = 0, proc' = [proc EXCEPT ![p] = Off], UNCHANGED <<que, sem, ids, marred>>,
           seg' \in [Gens -> SegRec],
           \A g \in Gens : seg'[g].main = seg[g].main /\ seg'[g].sem = seg[g].sem
    PROVE  LifeInv'
  <1> USE DEF Filling, Taking, Working, Joining, Pcs
  <1>1. proc' \in [Procs -> ProcRec] /\ Gone(p)
    BY OffOf DEF LifeInv, Always
  <1>2. LifeType /\ Placed /\ Made /\ Given /\ proc[p].lock = 0
    BY DEF LifeInv, Always, Placed
  <1>3. \A q \in Procs : proc[q].att # 0 => proc[q].att \in Gens
    BY <1>2, ProgramsAssumption DEF LifeType, ProcRec, Gens
  <1>4. Always'
    <2>1. LifeType'
      BY <1>1, <1>2, ProgramsAssumption DEF LifeType
    <2>2. Placed'
      BY <1>1, <1>2 DEF Placed, Gone
    <2>3. Made'
      BY <1>1, <1>2, <1>3 DEF Made, InUse, Gone
    <2>4. Given'
      BY <1>1, <1>2 DEF LifeType, Given, Gone
    <2> QED
      BY <2>1, <2>2, <2>3, <2>4 DEF Always
  <1>5. ASSUME "overlap" \notin marred PROVE Orderly'
    <2>0. Orderly
      BY <1>5 DEF LifeInv
    <2>1. OneWorks'
      BY <1>1, <2>0 DEF Orderly, OneWorks, Gone
    <2>2. Bare'
      BY <1>1, <2>0 DEF Orderly, OneWorks, Bare, Gone
    <2>3. Alone'
      BY <1>1, <1>2, <2>0 DEF Orderly, OneWorks, Alone, Gone
    <2>4. Owned'
      <3>1. \A q \in Govs : q # p => proc[q].att = 0
        BY <1>2, <2>0 DEF Orderly, Owned, Placed
      <3> QED
        BY <1>1, <3>1 DEF Owned, Gone, Procs
    <2>5. Fetched'
      BY <1>1, <1>2 DEF Fetched, Placed, Gone
    <2> QED
      BY <2>1, <2>2, <2>3, <2>4, <2>5 DEF Orderly
  <1>6. ASSUME marred \cap {"overlap", "halfway"} = {} PROVE Ready'
    <2>0. Orderly
      BY <1>6 DEF LifeInv
    <2> QED
      BY <1>1, <2>0 DEF Orderly, OneWorks, Ready, Gone
  <1>7. ASSUME marred \cap {"overlap", "setval", "late"} = {} PROVE Locked'
    <2>0. Orderly /\ Locked
      BY <1>7 DEF LifeInv
    <2>1. sem.id = 0
      BY <2>0 DEF Orderly, Bare
    <2> QED
      BY <1>1, <2>0, <2>1 DEF Locked, Holds, Gone
  <1>n. ASSUME marred \cap {"overlap", "late"} = {} PROVE Named'
    <2>1. sem.id = 0
      BY <1>n DEF LifeInv, Orderly, Bare
    <2> QED
      BY <2>1 DEF Named
  <1> QED
    BY <1>n, <1>4, <1>5, <1>6, <1>7 DEF LifeInv

LEMMA QueMakeKeeps ==
    ASSUME LifeInv, NEW p \in Procs, p \in Govs, NEW q, NEW next, QueMake(p, q, next),
           (q = "req" /\ next = "rsp") \/ (q = "rsp" /\ next = "sem")
    PROVE  LifeInv'
  <1> USE DEF Filling, Taking, Working, Joining, Pcs
  <1>h. PICK h : h = proc[p].att
    OBVIOUS
  <1>v. PICK v : v = que'[q]
    OBVIOUS
  <1>1. proc[p].pc = q /\ UNCHANGED <<sem, marred>>
    BY DEF QueMake
  <1>2. LifeType /\ Placed /\ Made /\ Given /\ h \in Gens
    <2>1. LifeType /\ Placed /\ Made /\ Given /\ proc[p].att # 0
      BY <1>1 DEF LifeInv, Always, Placed
    <2> QED
      BY <1>h, <2>1, ProgramsAssumption DEF LifeType, ProcRec, Gens
  <1>3. \A r \in Procs : proc[r].att # 0 => proc[r].att \in Gens
    BY <1>2, ProgramsAssumption DEF LifeType, ProcRec, Gens
  <1>4. \/ /\ que' = [que EXCEPT ![q] = GetOrMake(@)] /\ ids' = IdsAfter(que[q])
           /\ seg' = [seg EXCEPT ![h].keys = TRUE, ![h][q] = v]
           /\ proc' = [proc EXCEPT ![p].pc = next] /\ UNCHANGED shm
        \/ /\ seg' = [seg EXCEPT ![h].keys = TRUE, ![h][q] = -1]
           /\ shm' = 0 /\ proc' = [proc EXCEPT ![p] = Off] /\ UNCHANGED <<que, ids>>
    BY <1>h, <1>v DEF QueMake, Here
  <1>5. ASSUME NEW x \in Int, seg' = [seg EXCEPT ![h].keys = TRUE, ![h][q] = x]
        PROVE  /\ seg' \in [Gens -> SegRec]
               /\ \A g \in Gens : seg'[g].main = seg[g].main /\ seg'[g].sem = seg[g].sem
               /\ seg'[h].keys /\ seg'[h][q] = x
               /\ q = "rsp" => seg'[h].req = seg[h].req
    <2> DEFINE sg == [seg EXCEPT ![h].keys = TRUE]
    <2>1. /\ sg \in [Gens -> SegRec]
          /\ \A g \in Gens : sg[g].main = seg[g].main /\ sg[g].sem = seg[g].sem
          /\ sg[h].keys /\ sg[h].req = seg[h].req
      BY <1>2 DEF LifeType, SegRec
    <2>2. seg' = [sg EXCEPT ![h][q] = x]
      BY <1>5
    <2> HIDE DEF sg
    <2> QED
      BY <1>2, <2>1, <2>2 DEF SegRec
  <1>6. CASE /\ seg' = [seg EXCEPT ![h].keys = TRUE, ![h][q] = -1]
             /\ shm' = 0 /\ proc' = [proc EXCEPT ![p] = Off] /\ UNCHANGED <<que, ids>>
    <2>1. -1 \in Int
      OBVIOUS
    <2>2. /\ seg' \in [Gens -> SegRec]
          /\ \A g \in Gens : seg'[g].main = seg[g].main /\ seg'[g].sem = seg[g].sem
      BY <1>5, <1>6, <2>1
    <2> QED
      BY <1>1, <1>6, <2>2, FailKeeps
  <1>7. CASE /\ que' = [que EXCEPT ![q] = GetOrMake(@)] /\ ids' = IdsAfter(que[q])
             /\ seg' = [seg EXCEPT ![h].keys = TRUE, ![h][q] = v]
             /\ proc' = [proc EXCEPT ![p].pc = next] /\ UNCHANGED shm
    <2>1. /\ que' \in [req : Nat, rsp : Nat] /\ v \in Nat /\ v # 0
          /\ q = "rsp" => que'.req = que.req
          /\ ids' \in Nat /\ ids' >= ids /\ que'.req <= ids' /\ que'.rsp <= ids'
      BY <1>2, <1>7, <1>v DEF LifeType, GetOrMake, IdsAfter, Given
    <2>2. /\ seg' \in [Gens -> SegRec]
          /\ \A g \in Gens : seg'[g].main = seg[g].main /\ seg'[g].sem = seg[g].sem
          /\ seg'[h].keys /\ seg'[h][q] = que'[q]
          /\ q = "rsp" => seg'[h].req = seg[h].req
      <3>1. v \in Int /\ seg' = [seg EXCEPT ![h].keys = TRUE, ![h][q] = v]
        BY <1>7, <2>1
      <3>2. /\ seg' \in [Gens -> SegRec]
            /\ \A g \in Gens : seg'[g].main = seg[g].main /\ seg'[g].sem = seg[g].sem
            /\ seg'[h].keys /\ seg'[h][q] = v
            /\ q = "rsp" => seg'[h].req = seg[h].req
        BY <1>5, <3>1
      <3> QED
        BY <1>v, <3>2
    <2>3. proc' \in [Procs -> ProcRec] /\ Stepped(p, next)
      BY <1>2, <1>7, StepOf
    <2>4. Always'
      <3>1. LifeType'
        BY <1>1, <1>2, <1>7, <2>1, <2>2, <2>3 DEF LifeType
      <3>2. Placed'
        BY <1>1, <1>2, <2>3 DEF Placed, Stepped
      <3>3. Made'
        <4>1. shm # 0 => shm \in Gens
          BY <1>2, ProgramsAssumption DEF LifeType, Gens
        <4>2. \A r \in Procs : proc'[r].att = proc[r].att
          BY <2>3 DEF Stepped
        <4> QED
          <5>1. \A g \in Gens : InUse(g)' <=> InUse(g)
            BY <2>2 DEF InUse
          <5>2. \E n \in 0..MaxGen : \A g \in Gens : InUse(g)' <=> g <= n
            BY <1>2, <5>1 DEF Made
          <5>3. shm' # 0 => InUse(shm)'
            BY <1>2, <1>7, <2>2, <4>1 DEF Made, InUse
          <5>4. \A r \in Procs : proc'[r].att # 0 => seg'[proc'[r].att].main # "none"
            BY <1>2, <1>3, <2>2, <4>2 DEF Made, InUse
          <5> QED
            BY <5>2, <5>3, <5>4 DEF Made, InUse
      <3>4. Given'
        <4>1. \A g \in Gens : seg[g].sem \in Int
          BY <1>2 DEF LifeType, SegRec
        <4>2. \A r \in Procs : /\ proc[r].lock \in Nat /\ proc'[r].lock = proc[r].lock
                               /\ proc[r].got \in Int /\ proc'[r].got = proc[r].got
          BY <1>2, <2>3 DEF LifeType, ProcRec, Stepped
        <4> QED
          BY <1>1, <1>2, <2>1, <2>2, <4>1, <4>2 DEF Given, LifeType
      <3> QED
        BY <3>1, <3>2, <3>3, <3>4 DEF Always
    <2>5. ASSUME "overlap" \notin marred PROVE Orderly'
      <3>0. Orderly
        BY <2>5 DEF LifeInv
      <3>1. OneWorks'
        BY <1>1, <2>3, <3>0 DEF Orderly, OneWorks, Stepped
      <3>2. Bare'
        BY <1>1, <1>7, <2>3, <3>0 DEF Orderly, Bare, Stepped
      <3>3. Alone'
        <4>1. \A r \in Procs : /\ proc'[r].att = proc[r].att /\ proc'[r].got = proc[r].got
                               /\ proc'[r].pc \in Filling => r = p
                               /\ r # p => proc'[r].pc = proc[r].pc
          BY <1>1, <2>3, <3>0 DEF Orderly, OneWorks, Stepped
        <4>2. \A r \in Procs : seg[proc[r].att].sem < 0 /\ proc[r].att # 0 => seg'[proc[r].att].sem < 0
          BY <1>3, <2>2
        <4>3. proc[p].att # 0 /\ proc[p].pc \in Filling
          BY <1>1, <1>2 DEF Placed
        <4> QED
          BY <3>0, <4>1, <4>2, <4>3 DEF Orderly, Alone
      <3>4. Owned'
        <4>1. \A r \in Procs : proc'[r].att = proc[r].att
          BY <2>3 DEF Stepped
        <4>2. shm \in Gens
          BY <1>1, <1>2, <1>h, <3>0 DEF Orderly, Bare
        <4>3. \A r \in Procs : proc'[r].pc \in Taking => proc[r].pc \in Taking
          BY <2>3 DEF Stepped
        <4> QED
          BY <1>7, <2>2, <3>0, <4>1, <4>2, <4>3, ZenonT(60) DEF Orderly, Owned, Procs
      <3>5. Fetched'
        BY <1>1, <1>7, <2>3, <3>0 DEF Orderly, Alone, Bare, Fetched, Stepped
      <3> QED
        BY <3>1, <3>2, <3>3, <3>4, <3>5 DEF Orderly
    <2>6. ASSUME marred \cap {"overlap", "halfway"} = {} PROVE Ready'
      <3>0. Orderly /\ Ready /\ h = shm
        BY <1>1, <1>h, <2>6 DEF LifeInv, Orderly, Bare
      <3> QED
        <4>1. \A r \in Procs : r # p => proc'[r].pc \notin Working
          BY <1>1, <2>3, <3>0 DEF Orderly, OneWorks, Stepped
        <4>2. proc'[p].pc = next /\ shm' = h
          BY <1>7, <2>3, <3>0 DEF Stepped
        <4>3. /\ seg'[h].keys /\ seg'[h].req = que'.req /\ que'.req # 0
              /\ q = "rsp" => seg'[h].rsp = que'.rsp /\ que'.rsp # 0
          <5>1. CASE q = "req"
            BY <1>v, <2>1, <2>2, <5>1
          <5>2. CASE q = "rsp"
            BY <1>1, <1>v, <2>1, <2>2, <3>0, <5>2 DEF Ready
          <5> QED
            BY <5>1, <5>2
        <4> QED
          BY <4>1, <4>2, <4>3 DEF Ready, Halfway
    <2>7. ASSUME marred \cap {"overlap", "setval", "late"} = {} PROVE Locked'
      <3>0. Orderly /\ Locked
        BY <2>7 DEF LifeInv
      <3>1. sem.id = 0
        BY <1>1, <3>0 DEF Orderly, Bare
      <3> QED
        BY <1>1, <2>3, <3>0, <3>1 DEF Locked, Holds, Stepped
    <2>n. ASSUME marred \cap {"overlap", "late"} = {} PROVE Named'
      <3>1. sem.id = 0
        BY <1>1, <2>n DEF LifeInv, Orderly, Bare
      <3> QED
        BY <1>1, <3>1 DEF Named
    <2> QED
      BY <2>n, <1>1, <2>4, <2>5, <2>6, <2>7 DEF LifeInv
  <1> QED
    BY <1>4, <1>6, <1>7

\* The segments stay made when none is made and nobody attaches to another one.
LEMMA MadeKept ==
    ASSUME LifeType, Made, shm' \in {0, shm},
           \A g \in Gens : seg'[g].main = seg[g].main,
           \A q \in Procs : proc'[q].att \in {0, shm, proc[q].att}
    PROVE  Made'
  <1>1. \A g \in Gens : InUse(g)' <=> InUse(g)
    BY DEF InUse
  <1>2. \E n \in 0..MaxGen : \A g \in Gens : InUse(g)' <=> g <= n
    BY <1>1 DEF Made
  <1>3. shm # 0 => shm \in Gens
    BY ProgramsAssumption DEF LifeType, Gens
  <1>4. \A q \in Procs : proc[q].att # 0 => proc[q].att \in Gens
    BY ProgramsAssumption DEF LifeType, ProcRec, Gens
  <1>5. shm' # 0 => InUse(shm)'
    BY <1>3 DEF Made, InUse
  <1>6. \A q \in Procs : proc'[q].att # 0 => seg'[proc'[q].att].main # "none"
    BY <1>3, <1>4 DEF Made, InUse
  <1> QED
    BY <1>2, <1>5, <1>6 DEF Made, InUse

LEMMA SemMakeKeeps ==
    ASSUME LifeInv, NEW p \in Procs, p \in Govs, SemMake(p)
    PROVE  LifeInv'
  <1> USE DEF Filling, Taking, Working, Joining, Pcs
  <1>h. PICK h : h = proc[p].att
    OBVIOUS
  <1>v. PICK v : v = sem'.id
    OBVIOUS
  <1>1. proc[p].pc = "sem" /\ UNCHANGED que
    BY DEF SemMake
  <1>2. LifeType /\ Placed /\ Made /\ Given /\ h \in Gens
    <2>1. LifeType /\ Placed /\ Made /\ Given /\ proc[p].att # 0
      BY <1>1 DEF LifeInv, Always, Placed
    <2> QED
      BY <1>h, <2>1, ProgramsAssumption DEF LifeType, ProcRec, Gens
  <1>3. \/ /\ sem' = [id |-> GetOrMake(sem.id), val |-> 1] /\ ids' = IdsAfter(sem.id)
           /\ seg' = [seg EXCEPT ![h].sem = v]
           /\ proc' = Cleared([proc EXCEPT ![p].pc = "connect"])
           /\ Mark("setval", Held # {}) /\ UNCHANGED shm
        \/ shm' = 0 /\ proc' = [proc EXCEPT ![p] = Off] /\ UNCHANGED <<seg, sem, ids, marred>>
    BY <1>h, <1>v DEF SemMake, Here
  <1>4. CASE shm' = 0 /\ proc' = [proc EXCEPT ![p] = Off] /\ UNCHANGED <<seg, sem, ids, marred>>
    BY <1>1, <1>2, <1>4, FailKeeps DEF LifeType
  <1>5. CASE /\ sem' = [id |-> GetOrMake(sem.id), val |-> 1] /\ ids' = IdsAfter(sem.id)
             /\ seg' = [seg EXCEPT ![h].sem = v]
             /\ proc' = Cleared([proc EXCEPT ![p].pc = "connect"])
             /\ Mark("setval", Held # {}) /\ UNCHANGED shm
    <2>1. /\ sem' \in [id : Nat, val : Nat] /\ sem'.val = 1 /\ v \in Nat /\ v # 0
          /\ ids' \in Nat /\ ids' >= ids /\ v <= ids' /\ (sem.id = 0 => v = ids + 1)
          /\ UNCHANGED shm
      BY <1>2, <1>5, <1>v DEF LifeType, Given, GetOrMake, IdsAfter
    <2>2. /\ seg' \in [Gens -> SegRec]
          /\ \A g \in Gens : seg'[g].main = seg[g].main /\ seg'[g].keys = seg[g].keys
          /\ \A g \in Gens \ {h} : seg'[g] = seg[g]
          /\ seg'[h].sem = v /\ seg'[h].req = seg[h].req /\ seg'[h].rsp = seg[h].rsp
      <3>1. v \in Int /\ seg' = [seg EXCEPT ![h].sem = v] /\ seg \in [Gens -> SegRec]
        BY <1>2, <1>5, <2>1 DEF LifeType
      <3> QED
        BY <1>2, <3>1 DEF SegRec
    <2>3. /\ proc' \in [Procs -> ProcRec]
          /\ proc'[p].pc = "connect"
          /\ \A q \in Procs : /\ q # p => proc'[q].pc = proc[q].pc
                              /\ proc'[q].att = proc[q].att
                              /\ proc'[q].lock = proc[q].lock
                              /\ proc'[q].got = proc[q].got
                              /\ proc'[q].undo = 0
      BY <1>2, <1>5, ClearedOf
    <2>4. /\ marred \subseteq marred'
          /\ \A x \in {"overlap", "halfway", "late"} : x \in marred <=> x \in marred'
      BY <1>5 DEF Mark
    <2>5. Always'
      <3>1. LifeType'
        BY <1>1, <1>2, <2>1, <2>2, <2>3 DEF LifeType
      <3>2. Placed'
        BY <1>1, <1>2, <2>3 DEF Placed
      <3>3. Made'
        BY <1>2, <2>1, <2>2, <2>3, MadeKept
      <3>4. Given'
        <4>1. \A g \in Gens : seg'[g].sem <= ids'
          BY <1>2, <2>1, <2>2 DEF Given, LifeType, SegRec
        <4>2. \A r \in Procs : proc[r].lock \in Nat /\ proc[r].got \in Int
          BY <1>2 DEF LifeType, ProcRec
        <4>3. que'.req <= ids' /\ que'.rsp <= ids'
          BY <1>1, <1>2, <2>1 DEF Given, LifeType
        <4> QED
          BY <1>2, <1>v, <2>1, <2>3, <4>1, <4>2, <4>3 DEF Given, LifeType
      <3> QED
        BY <3>1, <3>2, <3>3, <3>4 DEF Always
    <2>6. ASSUME "overlap" \notin marred PROVE Orderly /\ h = shm /\ sem.id = 0
      BY <1>1, <1>h, <2>6 DEF LifeInv, Orderly, Bare
    <2>7. ASSUME "overlap" \notin marred PROVE Orderly'
      <3>1. OneWorks'
        BY <1>1, <2>3, <2>6, <2>7 DEF Orderly, OneWorks
      <3>2. Bare'
        BY <1>1, <1>2, <2>1, <2>3, <2>6, <2>7, ProgramsAssumption DEF Orderly, OneWorks, Bare, Gens
      <3>3. Alone'
        BY <1>1, <2>3, <2>6, <2>7 DEF Orderly, OneWorks, Alone
      <3>4. Owned'
        BY <1>1, <1>2, <2>1, <2>2, <2>3, <2>6, <2>7 DEF Orderly, OneWorks, Owned, Procs
      <3>5. Fetched'
        BY <1>1, <2>1, <2>3, <2>6, <2>7 DEF Orderly, Fetched
      <3> QED
        BY <3>1, <3>2, <3>3, <3>4, <3>5 DEF Orderly
    <2>8. ASSUME marred \cap {"overlap", "halfway"} = {} PROVE Ready'
      <3>1. Orderly /\ Ready /\ h = shm
        BY <1>1, <1>h, <2>6, <2>8 DEF LifeInv
      <3>2. \A r \in Procs : proc'[r].pc \notin Working
        BY <1>1, <2>3, <3>1 DEF Orderly, OneWorks
      <3>3. Whole'
        BY <1>1, <1>2, <1>v, <2>1, <2>2, <3>1 DEF Ready, Whole
      <3> QED
        BY <3>2, <3>3 DEF Ready
    <2>9. ASSUME marred' \cap {"overlap", "setval", "late"} = {} PROVE Locked'
      <3>1. "overlap" \notin marred
        BY <2>4, <2>9
      <3>2. Orderly /\ h = shm /\ v = ids + 1
        BY <2>1, <2>6, <3>1
      <3>3. \A q \in Procs : proc'[q].lock \in Nat /\ proc'[q].lock <= ids /\ proc'[q].undo = 0
        BY <1>2, <2>3 DEF Given, LifeType, ProcRec
      <3>4. \A q \in Procs : ~Holds(q)'
        BY <1>2, <1>v, <3>2, <3>3 DEF Holds, LifeType
      <3>7. \A q \in Procs : proc'[q].got # v
        BY <1>2, <2>3, <3>2 DEF Given, LifeType, ProcRec
      <3>5. \A q \in Procs : proc'[q].lock # 0 => proc'[q].att \in Gens \ {h}
        <4>1. \A q \in Procs : proc[q].lock # 0 => q # p /\ proc[q].pc = "up" /\ proc[q].att # 0
          BY <1>1, <1>2 DEF Placed
        <4>2. \A q \in Procs : proc[q].lock # 0 => proc[q].att # h
          BY <1>1, <1>h, <3>2, <4>1, ZenonT(60) DEF Orderly, Alone
        <4>3. \A q \in Procs : proc[q].att # 0 => proc[q].att \in Gens
          BY <1>2, ProgramsAssumption DEF LifeType, ProcRec, Gens
        <4> QED
          BY <2>3, <4>1, <4>2, <4>3
      <3>6. \A g \in Gens \ {h} : seg'[g].sem # v
        BY <1>2, <2>2, <3>2 DEF Given, LifeType, SegRec
      <3> QED
        BY <1>v, <2>1, <3>2, <3>3, <3>4, <3>5, <3>6, <3>7 DEF Locked
    <2>n. ASSUME marred' \cap {"overlap", "late"} = {} PROVE Named'
      BY <1>v, <2>1, <2>2, <2>4, <2>6, <2>n DEF Named
    <2> QED
      BY <2>n, <2>4, <2>5, <2>7, <2>8, <2>9 DEF LifeInv
  <1> QED
    BY <1>3, <1>4, <1>5

-----------------------------------------------------------------------------
(***************************************************************************)
(* ipc_connect keeps the invariant.                                        *)
(***************************************************************************)
LEMMA AttachKeeps ==
    ASSUME LifeInv, NEW p \in Procs, Attach(p)
    PROVE  LifeInv'
  <1> USE DEF Filling, Taking, Working, Joining, Pcs
  <1>1. /\ proc[p].pc \in {"connect", "off"} /\ (p \in Govs => proc[p].pc = "connect")
        /\ UNCHANGED <<shm, seg, que, sem, ids, marred>>
    BY DEF Attach
  <1>2. LifeType /\ Placed /\ Made /\ Given /\ proc[p].lock = 0
    BY <1>1 DEF LifeInv, Always, Placed
  <1>3. CASE proc' = [proc EXCEPT ![p] = Off]
    BY <1>1, <1>2, <1>3, EndKeeps DEF Halfway
  <1>4. CASE shm # 0 /\ proc' = [proc EXCEPT ![p].pc = "joinsem", ![p].att = shm]
    <2>1. /\ proc' \in [Procs -> ProcRec]
          /\ proc'[p].pc = "joinsem" /\ proc'[p].att = shm
          /\ proc'[p].lock = proc[p].lock /\ proc'[p].undo = proc[p].undo /\ proc'[p].got = proc[p].got
          /\ \A q \in Procs \ {p} : proc'[q] = proc[q]
      <3>1. shm \in 0..MaxGen
        BY <1>2 DEF LifeType
      <3>2. "joinsem" \in Pcs
        OBVIOUS
      <3>3. Attached(p, "joinsem", shm)
        BY <1>2, <1>4, <3>1, <3>2, AttachOf
      <3> QED
        BY <3>3 DEF Attached
    <2>2. Always'
      <3>1. LifeType'
        BY <1>1, <1>2, <2>1 DEF LifeType
      <3>2. Placed'
        BY <1>2, <1>4, <2>1 DEF Placed
      <3>3. Made'
        BY <1>1, <1>2, <2>1, MadeKept
      <3>4. Given'
        BY <1>1, <1>2, <2>1 DEF Given
      <3> QED
        BY <3>1, <3>2, <3>3, <3>4 DEF Always
    <2>3. ASSUME "overlap" \notin marred PROVE Orderly'
      <3>0. Orderly
        BY <2>3 DEF LifeInv
      <3>1. OneWorks'
        BY <2>1, <3>0 DEF Orderly, OneWorks
      <3>2. Bare'
        BY <1>1, <2>1, <3>0 DEF Orderly, Bare
      <3>3. Alone'
        BY <1>1, <2>1, <3>0 DEF Orderly, Alone
      <3>4. Owned'
        BY <1>1, <1>2, <2>1, <3>0 DEF Orderly, Owned, Placed, Procs
      <3>5. Fetched'
        BY <1>1, <2>1, <3>0 DEF Orderly, Fetched
      <3> QED
        BY <3>1, <3>2, <3>3, <3>4, <3>5 DEF Orderly
    <2>4. ASSUME Ready PROVE Ready'
      BY <1>1, <2>1, <2>4 DEF Ready, Whole, Halfway
    <2>5. ASSUME Locked PROVE Locked'
      BY <1>1, <1>2, <2>1, <2>5 DEF Locked, Holds
    <2>n. ASSUME Named PROVE Named'
      BY <1>1, <2>n DEF Named
    <2> QED
      BY <2>n, <1>1, <2>2, <2>3, <2>4, <2>5 DEF LifeInv
  <1> QED
    BY <1>3, <1>4 DEF Attach

\* What p has found is noted.
Noted(p, x, v) ==
    /\ proc' \in [Procs -> ProcRec]
    /\ proc'[p].pc = x /\ proc'[p].got = v /\ proc'[p].att = proc[p].att
    /\ proc'[p].lock = proc[p].lock /\ proc'[p].undo = proc[p].undo
    /\ \A q \in Procs \ {p} : proc'[q] = proc[q]

LEMMA FoundOf ==
    ASSUME LifeType, NEW p \in Procs, NEW x \in Pcs, NEW v \in Int
    PROVE  proc' = [proc EXCEPT ![p].pc = x, ![p].got = v] => Noted(p, x, v)
  <1> DEFINE pr == [proc EXCEPT ![p].pc = x]
  <1>1. pr \in [Procs -> ProcRec] /\ pr[p].pc = x /\ pr[p].lock = proc[p].lock
        /\ pr[p].undo = proc[p].undo /\ pr[p].att = proc[p].att
        /\ \A q \in Procs \ {p} : pr[q] = proc[q]
    BY DEF LifeType, ProcRec
  <1> HIDE DEF pr
  <1>2. proc' = [proc EXCEPT ![p].pc = x, ![p].got = v] => proc' = [pr EXCEPT ![p].got = v]
    BY DEF pr
  <1>3. proc' = [pr EXCEPT ![p].got = v] => Noted(p, x, v)
    BY <1>1 DEF ProcRec, Noted
  <1> QED
    BY <1>2, <1>3

\* A step of a process that joins.
Onward(p) ==
    /\ proc'[p].att = proc[p].att
    /\ \/ proc[p].pc = "joinsem" /\ proc'[p].pc = "storesem" /\ proc'[p].got = Found(sem.id)
       \/ proc[p].pc = "storesem" /\ proc'[p].pc = "getreq" /\ seg'[proc[p].att].sem = proc[p].got
       \/ /\ proc[p].pc = "getreq" /\ proc'[p].pc = "storereq"
          /\ ~(seg[proc[p].att].sem < 0) /\ proc'[p].got = Found(que.req)
       \/ proc[p].pc = "storereq" /\ proc'[p].pc = "getrsp"
       \/ proc[p].pc = "getrsp" /\ proc'[p].pc = "storersp" /\ proc'[p].got = Found(que.rsp)
       \/ proc[p].pc = "storersp" /\ proc'[p].pc = "up"
       \/ proc[p].pc = "storersp" /\ proc'[p].pc = "kill" /\ p \in Downs

\* It stores what it found, where it looked for it, and nothing else.
Storing(p) ==
    /\ seg' \in [Gens -> SegRec]
    /\ \A g \in Gens :
         /\ seg'[g].main = seg[g].main /\ seg'[g].keys = seg[g].keys
         /\ \/ seg'[g].sem = seg[g].sem
            \/ g = proc[p].att /\ proc[p].pc = "storesem" /\ seg'[g].sem = proc[p].got
         /\ \/ seg'[g].req = seg[g].req
            \/ g = proc[p].att /\ proc[p].pc = "storereq" /\ seg'[g].req = proc[p].got
         /\ \/ seg'[g].rsp = seg[g].rsp
            \/ g = proc[p].att /\ proc[p].pc = "storersp" /\ seg'[g].rsp = proc[p].got

\* Such a step goes on or ends; a wrong id of the semaphore is stored late.
LEMMA JoinOrderly ==
    ASSUME LifeInv, NEW p \in Procs, proc[p].pc \in Joining, Storing(p),
           UNCHANGED <<shm, que, ids>>, sem' \in [id : Nat, val : Nat], sem'.id = sem.id,
           proc' \in [Procs -> ProcRec],
           \A q \in Procs \ {p} : /\ proc'[q].pc = proc[q].pc /\ proc'[q].att = proc[q].att
                                  /\ proc'[q].lock = proc[q].lock /\ proc'[q].got = proc[q].got,
           proc'[p].lock = 0, proc'[p].got <= ids,
           (proc'[p].pc = "off" /\ proc'[p].att = 0) \/ Onward(p),
           \A x \in {"overlap", "halfway"} : x \in marred <=> x \in marred',
           "late" \notin marred' =>
               /\ "late" \notin marred
               /\ ~(proc[p].pc = "storesem" /\ proc[p].att = shm /\ sem.id # 0 /\ proc[p].got # sem.id)
    PROVE  /\ Always' /\ ("overlap" \notin marred' => Orderly')
           /\ marred' \cap {"overlap", "halfway"} = {} => Ready'
           /\ marred' \cap {"overlap", "late"} = {} => Named'
  <1>1. LifeType /\ Placed /\ Made /\ Given
    BY DEF LifeInv, Always
  <1>g. \A q \in Procs : proc[q].att # 0 => proc[q].att \in Gens
    <2>1. proc \in [Procs -> ProcRec] /\ MaxGen \in Nat
      BY <1>1, ProgramsAssumption DEF LifeType
    <2> QED
      BY <2>1 DEF ProcRec, Gens
  <1> USE DEF Filling, Taking, Working, Joining, Pcs
  <1>p. proc[p].att \in Gens
    <2>1. proc[p].att # 0
      BY <1>1 DEF Placed
    <2> QED
      BY <1>g, <2>1
  <1>s. shm # 0 => shm \in Gens
    BY <1>1, ProgramsAssumption DEF LifeType, Gens
  <1>2. Always'
    <2>1. LifeType'
      BY <1>1 DEF LifeType, Storing
    <2>2. Placed'
      BY <1>1 DEF Placed, Onward
    <2>3. Made'
      <3>1. /\ shm' \in {0, shm} /\ \A g \in Gens : seg'[g].main = seg[g].main
            /\ \A q \in Procs : proc'[q].att \in {0, shm, proc[q].att}
        BY DEF Onward, Storing
      <3> QED
        BY <1>1, <3>1, MadeKept
    <2>4. Given'
      <3>1. \A g \in Gens : seg'[g].sem <= ids
        BY <1>1 DEF Storing, Given
      <3> QED
        BY <1>1, <3>1 DEF Given, LifeType
    <2> QED
      BY <2>1, <2>2, <2>3, <2>4 DEF Always
  <1>3. ASSUME "overlap" \notin marred PROVE Orderly'
    <2>0. Orderly
      BY <1>3 DEF LifeInv
    <2>1. OneWorks'
      BY <2>0 DEF Orderly, OneWorks, Onward
    <2>2. Bare'
      BY <2>0 DEF Orderly, Bare, Onward
    <2>3. Alone'
      <3> SUFFICES ASSUME NEW r \in Procs, NEW q \in Procs, r # q,
                          proc'[r].pc \in Filling, proc'[q].att = proc'[r].att
                   PROVE  /\ proc'[q].pc \in {"joinsem", "storesem", "getreq"}
                          /\ proc'[q].pc = "storesem" => proc'[q].got = -1
                          /\ proc'[q].pc = "getreq" => seg'[proc'[q].att].sem < 0
        BY DEF Alone
      <3>1. r # p /\ proc[r].pc \in Filling /\ proc'[r].att = proc[r].att /\ sem.id = 0
        BY <2>0 DEF Orderly, Bare, Onward
      <3>2. proc[r].att # 0 /\ proc[r].att \in Gens
        <4>1. proc[r].att # 0
          BY <1>1, <3>1 DEF Placed
        <4> QED
          BY <1>g, <4>1
      <3>3. proc[p].att = proc[r].att =>
                 /\ proc[p].pc \in {"joinsem", "storesem", "getreq"}
                 /\ proc[p].pc = "storesem" => proc[p].got = -1
                 /\ proc[p].pc = "getreq" => seg[proc[p].att].sem < 0
        BY <2>0, <3>1 DEF Orderly, Alone
      <3>4. CASE q = p
        BY <3>1, <3>2, <3>3, <3>4 DEF Onward, Found
      <3>5. CASE q # p
        <4>1. /\ proc[q].pc \in {"joinsem", "storesem", "getreq"}
              /\ proc[q].pc = "storesem" => proc[q].got = -1
              /\ proc[q].pc = "getreq" => seg[proc[q].att].sem < 0
          BY <2>0, <3>1, <3>5 DEF Orderly, Alone
        <4>2. proc[q].att \in Gens
          BY <3>1, <3>2, <3>5
        <4>3. proc[q].pc = "getreq" => seg'[proc[q].att].sem < 0
          BY <3>1, <3>3, <3>5, <4>1, <4>2 DEF Storing
        <4> QED
          BY <3>5, <4>1, <4>3
      <3> QED
        BY <3>4, <3>5
    <2>4. Owned'
      <3>1. \A r \in Govs : proc'[r].att # 0 => proc'[r].att = proc[r].att
        BY DEF Procs, Onward
      <3>2. \A r \in Procs : proc'[r].pc \in Taking => proc[r].pc \in Taking
        BY DEF Onward
      <3>3. \A g \in Gens : seg'[g].main = seg[g].main
        BY DEF Storing
      <3> QED
        BY <1>s, <2>0, <3>1, <3>2, <3>3 DEF Orderly, Owned
    <2>5. Fetched'
      <3> SUFFICES ASSUME NEW q \in Procs, proc'[q].att = shm
                   PROVE  /\ proc'[q].pc = "storereq" => que.req = 0 \/ proc'[q].got = que.req
                          /\ proc'[q].pc = "storersp" => que.rsp = 0 \/ proc'[q].got = que.rsp
        BY DEF Fetched
      <3>1. CASE q = p
        BY <2>0, <3>1 DEF Orderly, Fetched, Onward, Found
      <3>2. CASE q # p
        BY <2>0, <3>2 DEF Orderly, Fetched
      <3> QED
        BY <3>1, <3>2
    <2> QED
      BY <2>1, <2>2, <2>3, <2>4, <2>5 DEF Orderly
  <1>4. ASSUME marred \cap {"overlap", "halfway"} = {} PROVE Ready'
    <2>1. Ready /\ Orderly
      BY <1>4 DEF LifeInv
    <2>2. \A r \in Procs : proc'[r].pc \in Halfway <=> proc[r].pc \in Halfway
      BY DEF Onward, Halfway
    <2>3. \A r \in Procs : proc'[r].pc \in Filling => r # p /\ proc'[r].pc = proc[r].pc
      BY DEF Onward
    <2>4. shm # 0 /\ Whole => Whole'
      <3> SUFFICES ASSUME shm # 0, Whole PROVE Whole'
        OBVIOUS
      <3>1. /\ seg'[shm].keys
            /\ seg'[shm].req = que.req
            /\ seg'[shm].rsp = que.rsp
        BY <1>s, <2>1 DEF Whole, Storing, Orderly, Fetched
      <3> QED
        BY <3>1 DEF Whole
    <2>5. ASSUME NEW r \in Procs, proc[r].pc \in Filling
          PROVE  /\ shm \in Gens /\ seg'[shm].keys = seg[shm].keys
                 /\ seg'[shm].req = seg[shm].req /\ seg'[shm].rsp = seg[shm].rsp
      <3>1. proc[r].att = shm /\ shm # 0 /\ r # p
        BY <1>1, <2>1, <2>5 DEF Orderly, Bare, Placed
      <3>2. proc[p].att = shm => proc[p].pc \notin {"storereq", "storersp"}
        BY <2>1, <2>5, <3>1 DEF Orderly, Alone
      <3> QED
        BY <1>s, <3>1, <3>2 DEF Storing
    <2>6. \A r \in Procs : /\ proc'[r].pc \in {"rsp", "sem"} =>
                                  seg'[shm].keys /\ seg'[shm].req = que.req /\ que.req # 0
                           /\ proc'[r].pc = "sem" => seg'[shm].rsp = que.rsp /\ que.rsp # 0
      BY <2>1, <2>3, <2>5 DEF Ready
    <2>7. shm # 0 => Whole' \/ \E r \in Procs : proc'[r].pc \in Halfway
      BY <2>1, <2>2, <2>4 DEF Ready
    <2> QED
      BY <2>6, <2>7 DEF Ready
  <1>5. ASSUME marred' \cap {"overlap", "late"} = {} PROVE Named'
    <2>1. Named /\ Orderly
      BY <1>5 DEF LifeInv
    <2>2. sem.id # 0 => shm \in Gens
      BY <1>s, <2>1 DEF Orderly, Bare
    <2> QED
      BY <1>5, <2>1, <2>2 DEF Named, Storing
  <1> QED
    BY <1>2, <1>3, <1>4, <1>5

\* The lock does not depend on it either, unless the step sets the semaphore's value.
LEMMA JoinLocked ==
    ASSUME Always, NEW p \in Procs, proc[p].pc \in Joining, Storing(p), UNCHANGED <<shm, sem>>,
           \A q \in Procs \ {p} : proc'[q] = proc[q],
           proc'[p].lock = 0, proc'[p].undo \in {0, proc[p].undo},
           proc'[p].pc = "storesem" => sem.id = 0,
           Locked
    PROVE  Locked'
  <1>1. LifeType /\ Placed /\ proc[p].lock = 0
    BY DEF Always, Placed, Joining
  <1>2. \A q \in Procs : (Holds(q)' <=> Holds(q)) /\ proc'[q].undo = proc[q].undo
    BY <1>1 DEF Locked, Holds
  <1>3. \A q \in Procs : proc'[q].lock # 0 => q # p
    OBVIOUS
  <1>4. sem.id # 0 => \A g \in Gens \ {shm} : seg'[g].sem # sem.id
    BY DEF Locked, Storing
  <1> QED
    BY <1>2, <1>3, <1>4 DEF Locked

LEMMA JoinSemKeeps ==
    ASSUME LifeInv, NEW p \in Procs, JoinSem(p)
    PROVE  LifeInv'
  <1> USE DEF Filling, Taking, Working, Joining, Pcs
  <1>v. PICK v : v = Found(sem.id)
    OBVIOUS
  <1>1. proc[p].pc = "joinsem" /\ UNCHANGED <<shm, seg, que, ids>>
    BY DEF JoinSem
  <1>2. LifeType /\ Placed /\ Given /\ Always /\ proc[p].lock = 0
    BY <1>1 DEF LifeInv, Always, Placed
  <1>3. v \in Int /\ v <= ids /\ (sem.id = 0 => v = -1) /\ (sem.id # 0 => v = sem.id)
    BY <1>2, <1>v DEF Found, LifeType, Given
  <1>4. Storing(p)
    BY <1>1, <1>2 DEF Storing, LifeType
  <1>5. CASE sem.id = 0
    <2>1. proc' = [proc EXCEPT ![p].pc = "storesem", ![p].got = v] /\ UNCHANGED <<sem, marred>>
      BY <1>5, <1>v DEF JoinSem
    <2>2. Noted(p, "storesem", v)
      BY <1>2, <1>3, <2>1, FoundOf
    <2>3. /\ proc' \in [Procs -> ProcRec] /\ proc'[p].lock = 0 /\ proc'[p].got <= ids
          /\ \A q \in Procs \ {p} : proc'[q] = proc[q]
          /\ Onward(p)
      BY <1>1, <1>2, <1>3, <1>v, <2>2 DEF Noted, Onward
    <2>4. sem' \in [id : Nat, val : Nat] /\ sem'.id = sem.id
      BY <1>2, <2>1 DEF LifeType
    <2>5. /\ Always' /\ ("overlap" \notin marred' => Orderly')
          /\ marred' \cap {"overlap", "halfway"} = {} => Ready'
          /\ marred' \cap {"overlap", "late"} = {} => Named'
      BY <1>1, <1>4, <2>1, <2>3, <2>4, JoinOrderly
    <2>6. Locked => Locked'
      BY <1>1, <1>2, <1>4, <1>5, <2>1, <2>2, <2>3, JoinLocked DEF Noted
    <2> QED
      BY <2>1, <2>5, <2>6 DEF LifeInv
  <1>6. CASE sem.id # 0
    <2> DEFINE pr == [proc EXCEPT ![p].pc = "storesem", ![p].got = v]
    <2>1. /\ sem' = [sem EXCEPT !.val = 1]
          /\ proc' = Cleared(pr)
          /\ Mark("setval", Held # {} \/ proc[p].att # shm)
      BY <1>6, <1>v DEF JoinSem, Here
    <2>2. /\ proc' \in [Procs -> ProcRec]
          /\ proc'[p].pc = "storesem" /\ proc'[p].got = v
          /\ \A q \in Procs : /\ q # p => proc'[q].pc = proc[q].pc /\ proc'[q].got = proc[q].got
                              /\ proc'[q].att = proc[q].att
                              /\ proc'[q].lock = proc[q].lock
                              /\ proc'[q].undo = 0
      <3>1. /\ pr \in [Procs -> ProcRec] /\ pr[p].pc = "storesem" /\ pr[p].got = v
            /\ \A q \in Procs : /\ q # p => pr[q].pc = proc[q].pc /\ pr[q].got = proc[q].got
                                /\ pr[q].att = proc[q].att
                                /\ pr[q].lock = proc[q].lock
        <4> DEFINE po == [proc EXCEPT ![p].pc = "storesem"]
        <4>1. /\ po \in [Procs -> ProcRec] /\ po[p].pc = "storesem"
              /\ \A q \in Procs : /\ q # p => po[q].pc = proc[q].pc
                                  /\ po[q].att = proc[q].att /\ po[q].got = proc[q].got
                                  /\ po[q].lock = proc[q].lock
          BY <1>2 DEF LifeType, ProcRec
        <4>2. pr = [po EXCEPT ![p].got = v]
          OBVIOUS
        <4> HIDE DEF po, pr
        <4> QED
          BY <1>3, <4>1, <4>2 DEF ProcRec
      <3> HIDE DEF pr
      <3>2. \A q \in Procs : proc'[q] = [pr[q] EXCEPT !.undo = 0]
        BY <2>1 DEF Cleared
      <3>3. ASSUME NEW r \in ProcRec, NEW r2, r2 = [r EXCEPT !.undo = 0]
            PROVE  r2 \in ProcRec /\ r2.pc = r.pc /\ r2.att = r.att /\ r2.lock = r.lock
                   /\ r2.got = r.got /\ r2.undo = 0
        BY <3>3 DEF ProcRec
      <3>4. \A q \in Procs : /\ proc'[q] \in ProcRec /\ proc'[q].pc = pr[q].pc /\ proc'[q].att = pr[q].att
                            /\ proc'[q].lock = pr[q].lock /\ proc'[q].got = pr[q].got /\ proc'[q].undo = 0
        <4> TAKE q \in Procs
        <4>1. pr[q] \in ProcRec
          BY <3>1
        <4>2. proc'[q] = [pr[q] EXCEPT !.undo = 0]
          BY <3>2
        <4> QED
          BY <3>3, <4>1, <4>2
      <3>5. proc' \in [Procs -> ProcRec]
        <4>1. proc' = [q \in Procs |-> [pr[q] EXCEPT !.undo = 0]]
          BY <2>1 DEF Cleared
        <4> QED
          BY <3>4, <4>1
      <3> QED
        BY <3>1, <3>4, <3>5
    <2>4. sem' \in [id : Nat, val : Nat] /\ sem'.id = sem.id /\ sem'.val = 1
      BY <1>2, <2>1 DEF LifeType
    <2>6. /\ \A x \in {"overlap", "halfway", "late"} : x \in marred <=> x \in marred'
          /\ "setval" \notin marred' => "setval" \notin marred /\ Held = {} /\ proc[p].att = shm
      BY <2>1 DEF Mark
    <2>5. /\ Always' /\ ("overlap" \notin marred' => Orderly')
          /\ marred' \cap {"overlap", "halfway"} = {} => Ready'
          /\ marred' \cap {"overlap", "late"} = {} => Named'
      <3>1. Onward(p) /\ proc'[p].lock = 0 /\ proc'[p].got <= ids
        BY <1>1, <1>2, <1>3, <1>v, <2>2 DEF Onward
      <3>2. /\ proc' \in [Procs -> ProcRec]
            /\ \A q \in Procs \ {p} : /\ proc'[q].pc = proc[q].pc /\ proc'[q].att = proc[q].att
                                      /\ proc'[q].lock = proc[q].lock /\ proc'[q].got = proc[q].got
        BY <2>2
      <3> QED
        BY <1>1, <1>4, <2>4, <2>6, <3>1, <3>2, JoinOrderly
    <2>8. ASSUME marred' \cap {"overlap", "setval", "late"} = {} PROVE Locked'
      <3>1. Locked /\ Held = {} /\ proc[p].att = shm
        BY <2>6, <2>8 DEF LifeInv
      <3>2. \A q \in Procs : ~Holds(q) /\ ~Holds(q)'
        BY <2>2, <2>4, <3>1 DEF Held, Holds
      <3>3. \A q \in Procs : proc'[q].lock # 0 => proc'[q].att # shm
        BY <1>6, <2>2, <3>1, <3>2 DEF Locked
      <3>4. \A q \in Procs : proc'[q].pc = "storesem" /\ proc'[q].got = sem.id => proc'[q].att = shm
        BY <1>6, <2>2, <3>1 DEF Locked
      <3>5. \A g \in Gens \ {shm} : seg[g].sem # sem.id
        BY <1>6, <3>1 DEF Locked
      <3> QED
        BY <1>1, <2>2, <2>4, <3>2, <3>3, <3>4, <3>5 DEF Locked
    <2> QED
      BY <2>5, <2>6, <2>8 DEF LifeInv
  <1> QED
    BY <1>5, <1>6

\* A store in the segment.
LEMMA StoringOf ==
    ASSUME Always, NEW p \in Procs, proc[p].pc \in Joining,
           NEW f, Stored(p, f),
           \/ f = "sem" /\ proc[p].pc = "storesem"
           \/ f = "req" /\ proc[p].pc = "storereq"
           \/ f = "rsp" /\ proc[p].pc = "storersp"
    PROVE  Storing(p) /\ seg'[proc[p].att][f] = proc[p].got
  <1>h. PICK h : h = proc[p].att
    OBVIOUS
  <1>v. PICK v : v = proc[p].got
    OBVIOUS
  <1>1. seg \in [Gens -> SegRec] /\ h \in Gens /\ v \in Int
    BY <1>h, <1>v, ProgramsAssumption DEF Always, Placed, LifeType, ProcRec, Gens, Joining
  <1>2. seg' = [seg EXCEPT ![h][f] = v]
    BY <1>h, <1>v DEF Stored, Here
  <1>3. /\ seg' \in [Gens -> SegRec] /\ seg'[h][f] = v
        /\ \A g \in Gens \ {h} : seg'[g] = seg[g]
        /\ seg'[h].main = seg[h].main /\ seg'[h].keys = seg[h].keys
        /\ f # "sem" => seg'[h].sem = seg[h].sem
        /\ f # "req" => seg'[h].req = seg[h].req
        /\ f # "rsp" => seg'[h].rsp = seg[h].rsp
    <2>1. CASE f = "sem"
      BY <1>1, <1>2, <2>1 DEF SegRec
    <2>2. CASE f = "req"
      BY <1>1, <1>2, <2>2 DEF SegRec
    <2>3. CASE f = "rsp"
      BY <1>1, <1>2, <2>3 DEF SegRec
    <2> QED
      BY <2>1, <2>2, <2>3
  <1> QED
    BY <1>3, <1>h, <1>v DEF Storing

LEMMA StoreSemKeeps ==
    ASSUME LifeInv, NEW p \in Procs, StoreSem(p)
    PROVE  LifeInv'
  <1> USE DEF Filling, Taking, Working, Joining, Pcs
  <1>1. /\ proc[p].pc = "storesem" /\ UNCHANGED <<shm, que, sem, ids>> /\ Stored(p, "sem")
        /\ proc' = [proc EXCEPT ![p].pc = "getreq", ![p].got = 0]
    BY DEF StoreSem
  <1>2. LifeType /\ Placed /\ Always /\ proc[p].lock = 0
    BY <1>1 DEF LifeInv, Always, Placed
  <1>3. Storing(p) /\ seg'[proc[p].att].sem = proc[p].got
    <2>1. Storing(p) /\ seg'[proc[p].att]["sem"] = proc[p].got
      BY <1>1, <1>2, StoringOf
    <2> QED
      BY <2>1
  <1>4. Noted(p, "getreq", 0)
    <2>1. "getreq" \in Pcs /\ 0 \in Int
      OBVIOUS
    <2> QED
      BY <1>1, <1>2, <2>1, FoundOf
  <1>5. /\ \A x \in {"overlap", "halfway", "setval"} : x \in marred <=> x \in marred'
        /\ "late" \notin marred' =>
               /\ "late" \notin marred
               /\ ~(proc[p].pc = "storesem" /\ proc[p].att = shm /\ sem.id # 0 /\ proc[p].got # sem.id)
    BY DEF StoreSem, Mark, Here
  <1>6. /\ proc' \in [Procs -> ProcRec] /\ proc'[p].lock = 0 /\ proc'[p].got <= ids
        /\ \A q \in Procs \ {p} : proc'[q] = proc[q]
        /\ Onward(p)
    BY <1>1, <1>2, <1>3, <1>4 DEF Noted, Onward, LifeType
  <1>7. /\ Always' /\ ("overlap" \notin marred' => Orderly')
        /\ marred' \cap {"overlap", "halfway"} = {} => Ready'
        /\ marred' \cap {"overlap", "late"} = {} => Named'
    <2>1. sem' \in [id : Nat, val : Nat] /\ sem'.id = sem.id
      BY <1>1, <1>2 DEF LifeType
    <2> QED
      BY <1>1, <1>3, <1>5, <1>6, <2>1, JoinOrderly
  <1>8. Locked => Locked'
    BY <1>1, <1>2, <1>3, <1>4, <1>6, JoinLocked DEF Noted
  <1> QED
    BY <1>5, <1>7, <1>8 DEF LifeInv

\* The steps that change neither the semaphore nor the history.
LEMMA JoinQueKeeps ==
    ASSUME LifeInv, NEW p \in Procs, proc[p].pc \in Joining \ {"joinsem", "storesem"}, Storing(p),
           UNCHANGED <<shm, que, sem, ids, marred>>, proc' \in [Procs -> ProcRec],
           \A q \in Procs \ {p} : proc'[q] = proc[q],
           proc'[p].lock = 0, proc'[p].undo \in {0, proc[p].undo}, proc'[p].got <= ids,
           (proc'[p].pc = "off" /\ proc'[p].att = 0) \/ Onward(p)
    PROVE  LifeInv'
  <1> USE DEF Joining
  <1>1. sem' \in [id : Nat, val : Nat] /\ sem'.id = sem.id /\ Always
    BY DEF LifeInv, Always, LifeType
  <1>2. /\ Always' /\ ("overlap" \notin marred' => Orderly')
        /\ marred' \cap {"overlap", "halfway"} = {} => Ready'
        /\ marred' \cap {"overlap", "late"} = {} => Named'
    BY <1>1, JoinOrderly
  <1>3. proc'[p].pc # "storesem"
    BY DEF Onward
  <1>4. Locked => Locked'
    BY <1>1, <1>3, JoinLocked
  <1> QED
    BY <1>2, <1>4 DEF LifeInv

LEMMA QueGetKeeps ==
    ASSUME LifeInv, NEW p \in Procs, GetReq(p) \/ GetRsp(p)
    PROVE  LifeInv'
  <1> USE DEF Filling, Taking, Working, Joining, Pcs
  <1>1. LifeType /\ Placed /\ Given
    BY DEF LifeInv, Always
  <1>2. proc[p].pc \in {"getreq", "getrsp"} /\ UNCHANGED <<shm, seg, que, sem, ids, marred>>
    BY DEF GetReq, GetRsp, QueGet
  <1>3. proc[p].lock = 0 /\ Storing(p)
    BY <1>1, <1>2 DEF Placed, Storing, LifeType
  <1>4. CASE proc' = [proc EXCEPT ![p] = Off]
    BY <1>2, <1>3, <1>4, EndKeeps DEF Halfway
  <1>5. ASSUME NEW q \in {"req", "rsp"}, NEW x \in {"storereq", "storersp"},
               proc[p].pc = "getreq" => x = "storereq" /\ q = "req" /\ ~(seg[proc[p].att].sem < 0),
               proc[p].pc = "getrsp" => x = "storersp" /\ q = "rsp",
               proc' = [proc EXCEPT ![p].pc = x, ![p].got = Found(que[q])]
        PROVE  LifeInv'
    <2>v. PICK v : v = Found(que[q])
      OBVIOUS
    <2>1. v \in Int
      BY <1>1, <2>v DEF Found, LifeType
    <2>2. Noted(p, x, v)
      BY <1>1, <1>5, <2>v, <2>1, FoundOf
    <2>3. v <= ids
      BY <1>1, <2>v DEF Found, LifeType, Given
    <2>4. Onward(p)
      BY <1>2, <1>5, <2>v, <2>2 DEF Noted, Onward
    <2> QED
      BY <1>2, <1>3, <2>2, <2>3, <2>4, JoinQueKeeps DEF Noted
  <1>6. CASE GetReq(p)
    <2>1. \/ proc' = [proc EXCEPT ![p] = Off]
          \/ /\ proc[p].pc = "getreq" /\ ~(seg[proc[p].att]["sem"] < 0)
             /\ proc' = [proc EXCEPT ![p].pc = "storereq", ![p].got = Found(que["req"])]
      BY <1>6 DEF GetReq, QueGet, Here
    <2> QED
      BY <1>4, <1>5, <2>1
  <1>7. CASE GetRsp(p)
    <2>1. \/ proc' = [proc EXCEPT ![p] = Off]
          \/ /\ proc[p].pc = "getrsp"
             /\ proc' = [proc EXCEPT ![p].pc = "storersp", ![p].got = Found(que["rsp"])]
      BY <1>7 DEF GetRsp, QueGet, Here
    <2> QED
      BY <1>4, <1>5, <2>1
  <1> QED
    BY <1>6, <1>7

LEMMA QueStoreKeeps ==
    ASSUME LifeInv, NEW p \in Procs, StoreReq(p) \/ StoreRsp(p)
    PROVE  LifeInv'
  <1> USE DEF Filling, Taking, Working, Joining, Pcs
  <1>1. LifeType /\ Placed /\ Always
    BY DEF LifeInv, Always
  <1>2. proc[p].pc \in {"storereq", "storersp"} /\ UNCHANGED <<shm, que, sem, ids, marred>>
    BY DEF StoreReq, StoreRsp
  <1>3. proc[p].lock = 0
    BY <1>1, <1>2 DEF Placed
  <1>4. Storing(p)
    BY <1>1, <1>2, StoringOf DEF StoreReq, StoreRsp
  <1>5. ASSUME NEW x \in {"getrsp", "up", "kill"}, x = "getrsp" <=> proc[p].pc = "storereq",
               x = "kill" => p \in Downs,
               proc' = [proc EXCEPT ![p].pc = x, ![p].got = 0]
        PROVE  LifeInv'
    <2>1. Noted(p, x, 0)
      <3>1. x \in Pcs /\ 0 \in Int
        OBVIOUS
      <3> QED
        BY <1>1, <1>5, <3>1, FoundOf
    <2>2. Onward(p)
      BY <1>2, <1>5, <2>1 DEF Noted, Onward
    <2>3. 0 <= ids
      BY <1>1 DEF LifeType
    <2> QED
      BY <1>2, <1>3, <1>4, <2>1, <2>2, <2>3, JoinQueKeeps DEF Noted
  <1>6. CASE proc' = [proc EXCEPT ![p] = Off]
    <2>1. proc' \in [Procs -> ProcRec] /\ Gone(p)
      BY <1>1, <1>6, OffOf
    <2>2. 0 <= ids
      BY <1>1 DEF LifeType
    <2> QED
      BY <1>2, <1>3, <1>4, <2>1, <2>2, JoinQueKeeps DEF Gone
  <1>7. CASE StoreReq(p)
    BY <1>5, <1>7 DEF StoreReq
  <1>8. CASE StoreRsp(p)
    BY <1>5, <1>6, <1>8 DEF StoreRsp
  <1> QED
    BY <1>7, <1>8

-----------------------------------------------------------------------------
(***************************************************************************)
(* ipc_remove keeps the invariant.                                         *)
(***************************************************************************)

\* The end of a process gives back the lock it holds and nothing else.
LEMMA SemAfterEndOf ==
    ASSUME LifeType, NEW p \in Procs
    PROVE  /\ SemAfterEnd(p) \in [id : Nat, val : Nat]
           /\ SemAfterEnd(p).id = sem.id
           /\ Locked => SemAfterEnd(p).val = IF Holds(p) THEN sem.val + 1 ELSE sem.val
  <1>1. PICK u \in Int : u = proc[p].undo
    BY DEF LifeType, ProcRec
  <1>2. Locked => u = IF Holds(p) THEN 1 ELSE 0
    BY <1>1 DEF Locked
  <1>3. sem \in [id : Nat, val : Nat]
    BY DEF LifeType
  <1>4. CASE u = 0 \/ sem.id = 0
    <2>1. SemAfterEnd(p) = sem
      BY <1>1, <1>4 DEF SemAfterEnd
    <2> QED
      BY <1>2, <1>3, <1>4, <2>1 DEF Holds
  <1>5. CASE ~(u = 0 \/ sem.id = 0)
    <2>1. PICK n : n = IF sem.val + u < 0 THEN 0 ELSE sem.val + u
      OBVIOUS
    <2>2. SemAfterEnd(p) = [sem EXCEPT !.val = n]
      BY <1>1, <1>5, <2>1 DEF SemAfterEnd
    <2>3. n \in Nat
      BY <1>3, <2>1
    <2>4. Locked => n = sem.val + 1 /\ Holds(p)
      BY <1>2, <1>3, <1>5, <2>1
    <2> QED
      BY <1>3, <2>2, <2>3, <2>4
  <1> QED
    BY <1>4, <1>5

LEMMA StopSystemKeeps ==
    ASSUME LifeInv, NEW p \in Procs, StopSystem(p)
    PROVE  LifeInv'
  <1> USE DEF Filling, Taking, Working, Joining, Pcs
  <1>g. PICK g : g = seg[proc[p].att].main
    OBVIOUS
  <1> DEFINE runs == g \in Govs /\ proc[g].att = proc[p].att
  <1>1. proc[p].pc = "kill" /\ UNCHANGED <<shm, seg, que, ids>>
    BY DEF StopSystem
  <1>2. LifeType /\ Placed /\ Made /\ Given /\ proc[p].lock = 0 /\ p \in Downs
    BY <1>1 DEF LifeInv, Always, Placed
  <1>3. \/ /\ runs /\ proc' = [[proc EXCEPT ![p].pc = "rmq"] EXCEPT ![g] = Off]
           /\ sem' = SemAfterEnd(g) /\ Mark("overlap", Busy(p) \/ proc[p].att # shm)
        \/ /\ proc' = [proc EXCEPT ![p].pc = "rmq"] /\ UNCHANGED sem
           /\ Mark("overlap", Busy(p) \/ proc[p].att # shm \/ runs)
    BY <1>g DEF StopSystem, Here, Ended
  <1>4. /\ \A x \in {"halfway", "setval", "late"} : x \in marred <=> x \in marred'
        /\ "overlap" \notin marred' => "overlap" \notin marred /\ ~Busy(p) /\ proc[p].att = shm
    BY <1>3 DEF Mark
  <1>5. CASE /\ runs /\ proc' = [[proc EXCEPT ![p].pc = "rmq"] EXCEPT ![g] = Off]
             /\ sem' = SemAfterEnd(g) /\ Mark("overlap", Busy(p) \/ proc[p].att # shm)
    <2>1. g \in Procs /\ g \in Govs /\ p # g
      BY <1>2, <1>5, ProgramsAssumption DEF Procs
    <2>2. /\ proc' \in [Procs -> ProcRec]
          /\ proc'[p].pc = "rmq" /\ proc'[p].att = proc[p].att
          /\ proc'[p].lock = proc[p].lock /\ proc'[p].undo = proc[p].undo /\ proc'[p].got = proc[p].got
          /\ proc'[g].pc = "off" /\ proc'[g].att = 0 /\ proc'[g].lock = 0 /\ proc'[g].undo = 0 /\ proc'[g].got = 0
          /\ \A q \in Procs \ {p, g} : proc'[q] = proc[q]
      <3> DEFINE pr == [proc EXCEPT ![p].pc = "rmq"]
      <3>1. pr \in [Procs -> ProcRec] /\ pr[p].pc = "rmq" /\ pr[p].att = proc[p].att
            /\ pr[p].lock = proc[p].lock /\ pr[p].undo = proc[p].undo /\ pr[p].got = proc[p].got
            /\ \A q \in Procs \ {p} : pr[q] = proc[q]
        BY <1>2 DEF LifeType, ProcRec
      <3> HIDE DEF pr
      <3>2. proc' = [pr EXCEPT ![g] = Off]
        BY <1>5 DEF pr
      <3>3. Off \in ProcRec /\ Off.pc = "off" /\ Off.att = 0 /\ Off.lock = 0 /\ Off.undo = 0 /\ Off.got = 0
        BY ProgramsAssumption DEF Off, ProcRec
      <3> QED
        BY <2>1, <3>1, <3>2, <3>3
    <2>3. /\ sem' \in [id : Nat, val : Nat] /\ sem'.id = sem.id
          /\ Locked => sem'.val = IF Holds(g) THEN sem.val + 1 ELSE sem.val
      BY <1>2, <1>5, <2>1, SemAfterEndOf
    <2>4. Always'
      <3>1. LifeType'
        BY <1>1, <1>2, <2>2, <2>3 DEF LifeType
      <3>2. Placed'
        BY <1>2, <1>1, <2>1, <2>2 DEF Placed
      <3>3. Made'
        BY <1>1, <1>2, <2>2, MadeKept
      <3>4. Given'
        BY <1>1, <1>2, <2>2, <2>3 DEF Given, LifeType
      <3> QED
        BY <3>1, <3>2, <3>3, <3>4 DEF Always
    <2>5. ASSUME "overlap" \notin marred'
          PROVE  Orderly /\ proc[p].att = shm /\ \A q \in Procs : proc[q].pc \notin Working
      BY <1>1, <1>4, <2>5 DEF LifeInv, Busy, Starting, Removing
    <2>6. ASSUME "overlap" \notin marred' PROVE Orderly'
      <3>1. OneWorks'
        BY <2>1, <2>2, <2>5, <2>6 DEF OneWorks
      <3>2. Bare'
        BY <1>1, <2>1, <2>2, <2>3, <2>5, <2>6 DEF Orderly, Bare
      <3>3. Alone'
        BY <2>1, <2>2, <2>5, <2>6 DEF Alone
      <3>4. Owned'
        <4>1. \A r \in Govs : proc[r].att # 0 => r = g
          BY <1>g, <2>5, <2>6 DEF Orderly, Owned
        <4> QED
          BY <1>1, <1>2, <2>1, <2>2, <4>1, ProgramsAssumption DEF Owned, Procs
      <3>5. Fetched'
        BY <1>1, <2>1, <2>2, <2>5, <2>6 DEF Orderly, Fetched
      <3> QED
        BY <3>1, <3>2, <3>3, <3>4, <3>5 DEF Orderly
    <2>7. ASSUME marred' \cap {"overlap", "halfway"} = {} PROVE Ready'
      <3>1. Ready /\ \A q \in Procs : proc[q].pc \notin Working
        BY <1>4, <2>5, <2>7 DEF LifeInv
      <3>2. shm # 0 => Whole'
        BY <1>1, <2>3, <3>1 DEF Ready, Whole, Halfway
      <3> QED
        BY <1>1, <2>1, <2>2, <3>1, <3>2 DEF Ready
    <2>8. ASSUME marred' \cap {"overlap", "setval", "late"} = {} PROVE Locked'
      <3>1. Locked
        BY <1>4, <2>8 DEF LifeInv
      <3>2. \A q \in Procs : q # g => /\ proc'[q].lock = proc[q].lock /\ proc'[q].undo = proc[q].undo
                                      /\ proc'[q].att = proc[q].att
        BY <2>2
      <3>3. \A q \in Procs : Holds(q)' <=> Holds(q) /\ q # g
        BY <1>2, <2>1, <2>2, <2>3, <3>2 DEF Holds, LifeType
      <3>4. sem'.id # 0 => \/ sem'.val = 1 /\ \A q \in Procs : ~Holds(q)'
                           \/ sem'.val = 0 /\ \E r \in Procs : \A q \in Procs : Holds(q)' <=> q = r
        BY <1>2, <2>1, <2>3, <3>1, <3>3 DEF Locked, LifeType
      <3> QED
        BY <1>1, <2>1, <2>2, <2>3, <3>1, <3>2, <3>3, <3>4 DEF Locked
    <2>n. ASSUME marred' \cap {"overlap", "late"} = {} PROVE Named'
      <3>0. Named
        BY <1>4, <2>n DEF LifeInv
      <3> QED
        BY <1>1, <2>3, <3>0 DEF Named
    <2> QED
      BY <2>n, <1>4, <2>4, <2>6, <2>7, <2>8 DEF LifeInv
  <1>6. CASE /\ proc' = [proc EXCEPT ![p].pc = "rmq"] /\ UNCHANGED sem
             /\ Mark("overlap", Busy(p) \/ proc[p].att # shm \/ runs)
    <2>1. proc' \in [Procs -> ProcRec] /\ Stepped(p, "rmq")
      BY <1>2, <1>6, StepOf
    <2>2. Always'
      <3>1. LifeType'
        BY <1>1, <1>2, <1>6, <2>1 DEF LifeType
      <3>2. Placed'
        BY <1>2, <1>1, <2>1 DEF Placed, Stepped
      <3>3. Made'
        BY <1>1, <1>2, <2>1, MadeKept DEF Stepped
      <3>4. Given'
        BY <1>1, <1>2, <1>6, <2>1 DEF Given, Stepped
      <3> QED
        BY <3>1, <3>2, <3>3, <3>4 DEF Always
    <2>3. ASSUME "overlap" \notin marred'
          PROVE  Orderly /\ proc[p].att = shm /\ ~runs /\ \A q \in Procs : proc[q].pc \notin Working
      <3>1. ~runs
        BY <1>6, <2>3 DEF Mark
      <3> QED
        BY <1>1, <1>4, <2>3, <3>1 DEF LifeInv, Busy, Starting, Removing
    <2>4. ASSUME "overlap" \notin marred' PROVE Orderly'
      <3>1. OneWorks'
        BY <2>1, <2>3, <2>4 DEF OneWorks, Stepped
      <3>2. Bare'
        BY <1>1, <1>6, <2>1, <2>3, <2>4 DEF Orderly, Bare, Stepped
      <3>3. Alone'
        BY <2>1, <2>3, <2>4 DEF Alone, Stepped
      <3>4. Owned'
        <4>1. \A r \in Govs : proc[r].att = 0
          BY <1>g, <2>3, <2>4 DEF Orderly, Owned
        <4> QED
          BY <2>1, <4>1 DEF Owned, Stepped, Procs
      <3>5. Fetched'
        BY <1>1, <2>1, <2>3, <2>4 DEF Orderly, Fetched, Stepped
      <3> QED
        BY <3>1, <3>2, <3>3, <3>4, <3>5 DEF Orderly
    <2>5. ASSUME marred' \cap {"overlap", "halfway"} = {} PROVE Ready'
      <3>1. Ready /\ \A q \in Procs : proc[q].pc \notin Working
        BY <1>4, <2>3, <2>5 DEF LifeInv
      <3>2. shm # 0 => Whole'
        BY <1>1, <1>6, <3>1 DEF Ready, Whole, Halfway
      <3> QED
        BY <1>1, <2>1, <3>1, <3>2 DEF Ready, Stepped
    <2>6. ASSUME marred' \cap {"overlap", "setval", "late"} = {} PROVE Locked'
      <3>1. Locked
        BY <1>4, <2>6 DEF LifeInv
      <3> QED
        BY <1>1, <1>6, <2>1, <3>1 DEF Locked, Holds, Stepped
    <2>n. ASSUME marred' \cap {"overlap", "late"} = {} PROVE Named'
      <3>0. Named
        BY <1>4, <2>n DEF LifeInv
      <3> QED
        BY <1>1, <1>6, <3>0 DEF Named
    <2> QED
      BY <2>n, <1>4, <2>2, <2>4, <2>5, <2>6 DEF LifeInv
  <1> QED
    BY <1>3, <1>5, <1>6

LEMMA QueRemoveKeeps ==
    ASSUME LifeInv, NEW p \in Procs, QueRemove(p)
    PROVE  LifeInv'
  <1> USE DEF Filling, Taking, Working, Joining, Pcs
  <1>1. /\ proc[p].pc = "rmq" /\ UNCHANGED <<shm, seg, sem, ids, marred>>
        /\ proc' \in [Procs -> ProcRec] /\ Stepped(p, "rms")
    BY StepOf DEF QueRemove, LifeInv, Always
  <1>2. LifeType /\ Placed /\ Made /\ Given
    BY DEF LifeInv, Always
  <1>3. que' \in [req : Nat, rsp : Nat] /\ que'.req \in {0, que.req} /\ que'.rsp \in {0, que.rsp}
    <2>1. que' = [q \in {"req", "rsp"} |-> IF que[q] = seg[proc[p].att][q] THEN 0 ELSE que[q]]
      BY DEF QueRemove, Here
    <2> QED
      BY <1>2, <2>1 DEF LifeType
  <1>4. Always'
    <2>1. LifeType'
      BY <1>1, <1>2, <1>3 DEF LifeType
    <2>2. Placed'
      BY <1>1, <1>2 DEF Placed, Stepped
    <2>3. Made'
      BY <1>1, <1>2, MadeKept DEF Stepped
    <2>4. Given'
      <3>1. que'.req <= ids /\ que'.rsp <= ids
        BY <1>2, <1>3 DEF Given, LifeType
      <3> QED
        BY <1>1, <1>2, <3>1 DEF Given, Stepped
    <2> QED
      BY <2>1, <2>2, <2>3, <2>4 DEF Always
  <1>5. ASSUME "overlap" \notin marred PROVE Orderly'
    <2>0. Orderly
      BY <1>5 DEF LifeInv
    <2>1. OneWorks'
      BY <1>1, <2>0 DEF Orderly, OneWorks, Stepped
    <2>2. Bare'
      BY <1>1, <2>0 DEF Orderly, Bare, Stepped
    <2>3. Alone'
      BY <1>1, <2>0 DEF Orderly, OneWorks, Alone, Stepped
    <2>4. Owned'
      BY <1>1, <2>0 DEF Orderly, Owned, Stepped, Procs
    <2>5. Fetched'
      BY <1>1, <1>3, <2>0 DEF Orderly, Fetched, Stepped
    <2> QED
      BY <2>1, <2>2, <2>3, <2>4, <2>5 DEF Orderly
  <1>6. ASSUME marred \cap {"overlap", "halfway"} = {} PROVE Ready'
    <2>0. Orderly
      BY <1>6 DEF LifeInv
    <2> QED
      BY <1>1, <2>0 DEF Orderly, OneWorks, Ready, Halfway, Stepped
  <1>7. ASSUME Locked PROVE Locked'
    BY <1>1, <1>7 DEF Locked, Holds, Stepped
  <1>n. ASSUME Named PROVE Named'
    BY <1>1, <1>n DEF Named
  <1> QED
    BY <1>n, <1>1, <1>4, <1>5, <1>6, <1>7 DEF LifeInv

LEMMA SemRemoveKeeps ==
    ASSUME LifeInv, NEW p \in Procs, SemRemove(p)
    PROVE  LifeInv'
  <1> USE DEF Filling, Taking, Working, Joining, Pcs
  <1>1. proc[p].pc = "rms" /\ UNCHANGED <<shm, seg, que, ids, marred>>
    BY DEF SemRemove
  <1>2. LifeType /\ Placed /\ Made /\ Given
    BY DEF LifeInv, Always
  <1>3. /\ proc' \in [Procs -> ProcRec]
        /\ proc'[p].pc = "rmm"
        /\ \A q \in Procs : /\ q # p => proc'[q].pc = proc[q].pc
                            /\ proc'[q].att = proc[q].att
                            /\ proc'[q].lock = proc[q].lock
                            /\ proc'[q].got = proc[q].got
                            /\ proc'[q].undo = 0
    BY <1>2, ClearedOf DEF SemRemove
  <1>4. sem' \in [id : Nat, val : Nat] /\ sem'.id = 0
    BY DEF SemRemove
  <1>5. Always'
    <2>1. LifeType'
      BY <1>1, <1>2, <1>3, <1>4 DEF LifeType
    <2>2. Placed'
      BY <1>1, <1>2, <1>3 DEF Placed
    <2>3. Made'
      BY <1>1, <1>2, <1>3, MadeKept
    <2>4. Given'
      BY <1>1, <1>2, <1>3, <1>4 DEF Given, LifeType
    <2> QED
      BY <2>1, <2>2, <2>3, <2>4 DEF Always
  <1>6. ASSUME "overlap" \notin marred PROVE Orderly'
    <2>0. Orderly
      BY <1>6 DEF LifeInv
    <2>1. OneWorks'
      BY <1>1, <1>3, <2>0 DEF Orderly, OneWorks
    <2>2. Bare'
      BY <1>1, <1>3, <1>4, <2>0 DEF Orderly, Bare
    <2>3. Alone'
      BY <1>1, <1>3, <2>0 DEF Orderly, OneWorks, Alone
    <2>4. Owned'
      BY <1>1, <1>3, <2>0 DEF Orderly, Owned, Procs
    <2>5. Fetched'
      BY <1>1, <1>3, <2>0 DEF Orderly, Fetched
    <2> QED
      BY <2>1, <2>2, <2>3, <2>4, <2>5 DEF Orderly
  <1>7. ASSUME marred \cap {"overlap", "halfway"} = {} PROVE Ready'
    <2>0. Orderly
      BY <1>7 DEF LifeInv
    <2> QED
      BY <1>1, <1>3, <2>0 DEF Orderly, OneWorks, Ready, Halfway
  <1>8. Locked'
    BY <1>3, <1>4 DEF Locked, Holds
  <1>n. ASSUME marred \cap {"overlap", "late"} = {} PROVE Named'
    BY <1>4 DEF Named
  <1> QED
    BY <1>n, <1>1, <1>5, <1>6, <1>7, <1>8 DEF LifeInv

LEMMA ShmRemoveKeeps ==
    ASSUME LifeInv, NEW p \in Procs, ShmRemove(p)
    PROVE  LifeInv'
  <1> USE DEF Filling, Taking, Working, Joining, Pcs
  <1>1. proc[p].pc = "rmm" /\ shm' = 0 /\ UNCHANGED <<seg, que, sem, ids, marred>>
    BY DEF ShmRemove
  <1>2. LifeType /\ Placed /\ Made /\ Given
    BY DEF LifeInv, Always
  <1>3. proc' \in [Procs -> ProcRec] /\ Gone(p)
    BY <1>2, OffOf DEF ShmRemove
  <1>4. Always'
    <2>1. LifeType'
      BY <1>1, <1>2, <1>3, ProgramsAssumption DEF LifeType
    <2>2. Placed'
      BY <1>2, <1>3 DEF Placed, Gone
    <2>3. Made'
      BY <1>1, <1>2, <1>3, MadeKept DEF Gone
    <2>4. Given'
      BY <1>1, <1>2, <1>3 DEF Given, LifeType, Gone
    <2> QED
      BY <2>1, <2>2, <2>3, <2>4 DEF Always
  <1>5. ASSUME "overlap" \notin marred PROVE Orderly'
    <2>0. Orderly
      BY <1>5 DEF LifeInv
    <2>1. OneWorks'
      BY <1>3, <2>0 DEF Orderly, OneWorks, Gone
    <2>2. Bare'
      BY <1>1, <1>3, <2>0 DEF Orderly, OneWorks, Bare, Gone
    <2>3. Alone'
      BY <1>1, <1>3, <2>0 DEF Orderly, OneWorks, Alone, Gone
    <2>4. Owned'
      <3>1. \A r \in Govs : proc[r].att = 0
        BY <1>1, <2>0 DEF Orderly, Owned
      <3> QED
        BY <1>3, <3>1 DEF Owned, Gone, Procs
    <2>5. Fetched'
      BY <1>1, <1>2, <1>3 DEF Fetched, Placed, Gone
    <2> QED
      BY <2>1, <2>2, <2>3, <2>4, <2>5 DEF Orderly
  <1>6. ASSUME marred \cap {"overlap", "halfway"} = {} PROVE Ready'
    <2>0. Orderly
      BY <1>6 DEF LifeInv
    <2> QED
      BY <1>1, <1>3, <2>0 DEF Orderly, OneWorks, Ready, Gone
  <1>7. ASSUME marred \cap {"overlap", "setval", "late"} = {} PROVE Locked'
    <2>0. Orderly /\ Locked /\ sem.id = 0
      BY <1>1, <1>7 DEF LifeInv, Orderly, Bare
    <2> QED
      BY <1>1, <1>3, <2>0 DEF Locked, Holds, Gone
  <1>n. ASSUME marred \cap {"overlap", "late"} = {} PROVE Named'
    <2>1. sem.id = 0
      BY <1>1, <1>n DEF LifeInv, Orderly, Bare
    <2> QED
      BY <1>1, <2>1 DEF Named
  <1> QED
    BY <1>n, <1>1, <1>4, <1>5, <1>6, <1>7 DEF LifeInv

-----------------------------------------------------------------------------
(***************************************************************************)
(* The lock and the end of a process keep the invariant.                   *)
(***************************************************************************)

\* What neither the objects nor the steps of the processes depend on.
LEMMA LockOrderly ==
    ASSUME LifeInv, NEW p \in Procs, proc[p].pc = "up", UNCHANGED <<shm, seg, que, ids, marred>>,
           sem' \in [id : Nat, val : Nat], sem'.id = sem.id, proc' \in [Procs -> ProcRec],
           \A q \in Procs \ {p} : proc'[q] = proc[q],
           proc'[p].pc = proc[p].pc, proc'[p].att = proc[p].att, proc'[p].lock <= ids,
           proc'[p].got = proc[p].got
    PROVE  /\ Always' /\ ("overlap" \notin marred => Orderly')
           /\ marred \cap {"overlap", "halfway"} = {} => Ready'
           /\ marred \cap {"overlap", "late"} = {} => Named'
  <1> USE DEF Filling, Taking, Working, Joining, Pcs
  <1>1. LifeType /\ Placed /\ Made /\ Given
    BY DEF LifeInv, Always
  <1>2. \A q \in Procs : /\ proc'[q].pc = proc[q].pc /\ proc'[q].att = proc[q].att
                         /\ proc'[q].got = proc[q].got
    OBVIOUS
  <1>3. Always'
    <2>1. LifeType'
      BY <1>1 DEF LifeType
    <2>2. Placed'
      BY <1>1 DEF Placed
    <2>3. Made'
      BY <1>1, <1>2, MadeKept
    <2>4. Given'
      BY <1>1 DEF Given
    <2> QED
      BY <2>1, <2>2, <2>3, <2>4 DEF Always
  <1>4. ASSUME Orderly PROVE Orderly'
    BY <1>2, <1>4 DEF Orderly, OneWorks, Bare, Alone, Fetched, Owned, Procs
  <1>5. ASSUME Ready PROVE Ready'
    BY <1>2, <1>5 DEF Ready, Whole
  <1>6. ASSUME Named PROVE Named'
    BY <1>6 DEF Named
  <1> QED
    BY <1>3, <1>4, <1>5, <1>6 DEF LifeInv

LEMMA LockOf ==
    ASSUME LifeType, NEW p \in Procs, NEW l \in Nat, NEW u \in Int
    PROVE  proc' = [proc EXCEPT ![p].lock = l, ![p].undo = u] =>
           /\ proc' \in [Procs -> ProcRec]
           /\ proc'[p].pc = proc[p].pc /\ proc'[p].att = proc[p].att
           /\ proc'[p].lock = l /\ proc'[p].undo = u /\ proc'[p].got = proc[p].got
           /\ \A q \in Procs \ {p} : proc'[q] = proc[q]
  <1> DEFINE pr == [proc EXCEPT ![p].lock = l]
  <1>1. pr \in [Procs -> ProcRec] /\ pr[p].pc = proc[p].pc /\ pr[p].att = proc[p].att
        /\ pr[p].lock = l /\ pr[p].undo = proc[p].undo /\ pr[p].got = proc[p].got
        /\ \A q \in Procs \ {p} : pr[q] = proc[q]
    BY DEF LifeType, ProcRec
  <1> HIDE DEF pr
  <1>2. proc' = [proc EXCEPT ![p].lock = l, ![p].undo = u] => proc' = [pr EXCEPT ![p].undo = u]
    BY DEF pr
  <1>3. proc' = [pr EXCEPT ![p].undo = u] =>
           /\ proc' \in [Procs -> ProcRec]
           /\ proc'[p].pc = proc[p].pc /\ proc'[p].att = proc[p].att
           /\ proc'[p].lock = l /\ proc'[p].undo = u /\ proc'[p].got = proc[p].got
           /\ \A q \in Procs \ {p} : proc'[q] = proc[q]
    BY <1>1 DEF ProcRec
  <1> QED
    BY <1>2, <1>3

LEMMA LockKeeps ==
    ASSUME LifeInv, NEW p \in Procs, tux_lock(p)
    PROVE  LifeInv'
  <1>1. /\ proc[p].pc = "up" /\ proc[p].lock = 0
        /\ sem.id # 0 /\ seg[proc[p].att].sem = sem.id /\ sem.val > 0
        /\ sem' = [sem EXCEPT !.val = @ - 1]
        /\ UNCHANGED <<shm, seg, que, ids, marred>>
    BY DEF tux_lock, Here
  <1>2. LifeType /\ Given
    BY DEF LifeInv, Always
  <1>3. /\ proc' \in [Procs -> ProcRec]
        /\ proc'[p].pc = proc[p].pc /\ proc'[p].att = proc[p].att
        /\ proc'[p].lock = sem.id /\ proc'[p].undo = proc[p].undo + 1 /\ proc'[p].got = proc[p].got
        /\ \A q \in Procs \ {p} : proc'[q] = proc[q]
    <2>1. PICK u \in Int : u = proc[p].undo + 1
      BY <1>2 DEF LifeType, ProcRec
    <2>2. sem.id \in Nat /\ proc' = [proc EXCEPT ![p].lock = sem.id, ![p].undo = u]
      BY <1>2, <2>1 DEF tux_lock, LifeType
    <2>3. /\ proc' \in [Procs -> ProcRec]
          /\ proc'[p].pc = proc[p].pc /\ proc'[p].att = proc[p].att
          /\ proc'[p].lock = sem.id /\ proc'[p].undo = u /\ proc'[p].got = proc[p].got
          /\ \A q \in Procs \ {p} : proc'[q] = proc[q]
      BY <1>2, <2>2, LockOf
    <2> QED
      BY <2>1, <2>3
  <1>4. sem' \in [id : Nat, val : Nat] /\ sem'.id = sem.id /\ sem'.val = sem.val - 1
    BY <1>1, <1>2 DEF LifeType
  <1>5. /\ Always' /\ ("overlap" \notin marred => Orderly')
        /\ marred \cap {"overlap", "halfway"} = {} => Ready'
        /\ marred \cap {"overlap", "late"} = {} => Named'
    <2>1. proc'[p].lock <= ids
      BY <1>2, <1>3 DEF Given
    <2> QED
      BY <1>1, <1>3, <1>4, <2>1, LockOrderly
  <1>6. ASSUME Locked PROVE Locked'
    <2>0. proc[p].att = shm
      <3>1. proc[p].att \in Gens
        BY <1>1, ProgramsAssumption DEF LifeInv, Always, Placed, LifeType, ProcRec, Gens
      <3> QED
        BY <1>1, <1>6, <3>1 DEF Locked
    <2>1. sem.val = 1 /\ \A q \in Procs : ~Holds(q)
      BY <1>1, <1>6 DEF Locked
    <2>2. \A q \in Procs : Holds(q)' <=> q = p
      BY <1>1, <1>3, <1>4, <2>1 DEF Holds
    <2>3. sem'.val = 0
      BY <1>4, <2>1
    <2>4. proc[p].undo = 0
      BY <1>6, <2>1 DEF Locked
    <2> QED
      BY <1>1, <1>3, <1>4, <1>6, <2>0, <2>1, <2>2, <2>3, <2>4 DEF Locked
  <1> QED
    BY <1>1, <1>5, <1>6 DEF LifeInv

LEMMA UnlockKeeps ==
    ASSUME LifeInv, NEW p \in Procs, tux_unlock(p)
    PROVE  LifeInv'
  <1>d. PICK there \in BOOLEAN : there <=> sem.id # 0 /\ seg[proc[p].att].sem = sem.id
    OBVIOUS
  <1>1. /\ proc[p].lock # 0 /\ UNCHANGED <<shm, seg, que, ids, marred>>
        /\ sem' = IF there THEN [sem EXCEPT !.val = @ + 1] ELSE sem
    BY <1>d DEF tux_unlock, Here
  <1>2. LifeType /\ Given /\ proc[p].pc = "up"
    BY <1>1 DEF LifeInv, Always, Placed
  <1>3. PICK u \in Int : u = IF there THEN proc[p].undo - 1 ELSE proc[p].undo
    BY <1>2 DEF LifeType, ProcRec
  <1>4. /\ proc' \in [Procs -> ProcRec]
        /\ proc'[p].pc = proc[p].pc /\ proc'[p].att = proc[p].att
        /\ proc'[p].lock = 0 /\ proc'[p].undo = u /\ proc'[p].got = proc[p].got
        /\ \A q \in Procs \ {p} : proc'[q] = proc[q]
    <2>1. 0 \in Nat /\ proc' = [proc EXCEPT ![p].lock = 0, ![p].undo = u]
      BY <1>3, <1>d DEF tux_unlock, Here
    <2> QED
      BY <1>2, <2>1, LockOf
  <1>5. /\ sem' \in [id : Nat, val : Nat] /\ sem'.id = sem.id
        /\ sem'.val = IF there THEN sem.val + 1 ELSE sem.val
    BY <1>1, <1>2 DEF LifeType
  <1>6. /\ Always' /\ ("overlap" \notin marred => Orderly')
        /\ marred \cap {"overlap", "halfway"} = {} => Ready'
        /\ marred \cap {"overlap", "late"} = {} => Named'
    <2>1. proc'[p].lock <= ids
      BY <1>2, <1>4 DEF LifeType
    <2> QED
      BY <1>1, <1>2, <1>4, <1>5, <2>1, LockOrderly
  <1>7. ASSUME Locked, Named PROVE Locked'
    <2>0. proc[p].att \in Gens
      <3>1. proc[p].att # 0
        BY <1>2 DEF LifeInv, Always, Placed
      <3> QED
        BY <1>2, <3>1, ProgramsAssumption DEF LifeType, ProcRec, Gens
    <2>1. there <=> Holds(p)
      BY <1>1, <1>7, <1>d, <2>0 DEF Locked, Named, Holds
    <2>2. \A q \in Procs : Holds(q)' <=> Holds(q) /\ q # p
      BY <1>4, <1>5 DEF Holds
    <2>3. sem'.id # 0 => \/ sem'.val = 1 /\ \A q \in Procs : ~Holds(q)'
                         \/ sem'.val = 0 /\ \E r \in Procs : \A q \in Procs : Holds(q)' <=> q = r
      BY <1>5, <1>7, <2>1, <2>2 DEF Locked
    <2>4. proc'[p].undo = 0
      BY <1>3, <1>4, <1>7, <2>1 DEF Locked
    <2> QED
      BY <1>1, <1>4, <1>5, <1>7, <2>2, <2>3, <2>4 DEF Locked
  <1> QED
    BY <1>1, <1>6, <1>7 DEF LifeInv

LEMMA DieKeeps ==
    ASSUME LifeInv, NEW p \in Procs, Die(p)
    PROVE  LifeInv'
  <1> USE DEF Filling, Taking, Working, Joining, Pcs
  <1>1. /\ proc' = [proc EXCEPT ![p] = Off] /\ sem' = SemAfterEnd(p)
        /\ UNCHANGED <<shm, seg, que, ids>>
    BY DEF Die, Ended
  <1>2. LifeType /\ Placed /\ Made /\ Given
    BY DEF LifeInv, Always
  <1>3. proc' \in [Procs -> ProcRec] /\ Gone(p)
    BY <1>1, <1>2, OffOf
  <1>4. /\ sem' \in [id : Nat, val : Nat] /\ sem'.id = sem.id
        /\ Locked => sem'.val = IF Holds(p) THEN sem.val + 1 ELSE sem.val
    BY <1>1, <1>2, SemAfterEndOf
  <1>5. /\ \A x \in {"overlap", "setval", "late"} : x \in marred <=> x \in marred'
        /\ "halfway" \notin marred' => "halfway" \notin marred /\ proc[p].pc \notin Halfway
    BY DEF Die, Mark
  <1>6. Always'
    <2>1. LifeType'
      BY <1>1, <1>2, <1>3, <1>4 DEF LifeType
    <2>2. Placed'
      BY <1>2, <1>3 DEF Placed, Gone
    <2>3. Made'
      BY <1>1, <1>2, <1>3, MadeKept DEF Gone
    <2>4. Given'
      BY <1>1, <1>2, <1>3, <1>4 DEF Given, LifeType, Gone
    <2> QED
      BY <2>1, <2>2, <2>3, <2>4 DEF Always
  <1>7. ASSUME "overlap" \notin marred PROVE Orderly'
    <2>0. Orderly
      BY <1>7 DEF LifeInv
    <2>1. OneWorks'
      BY <1>3, <2>0 DEF Orderly, OneWorks, Gone
    <2>2. Bare'
      BY <1>1, <1>3, <1>4, <2>0 DEF Orderly, Bare, Gone
    <2>3. Alone'
      <3>1. \A q \in Procs : proc'[q].pc \in Filling => q # p /\ proc[q].att # 0
        BY <1>2, <1>3 DEF Placed, Gone
      <3>2. \A q \in Procs : q # p => proc'[q] = proc[q]
        BY <1>3 DEF Gone
      <3>3. proc'[p].att = 0
        BY <1>3 DEF Gone
      <3> QED
        BY <1>1, <2>0, <3>1, <3>2, <3>3 DEF Orderly, Alone
    <2>4. Owned'
      BY <1>1, <1>3, <2>0 DEF Orderly, Owned, Gone, Procs
    <2>5. Fetched'
      BY <1>1, <1>3, <2>0 DEF Orderly, Fetched, Gone
    <2> QED
      BY <2>1, <2>2, <2>3, <2>4, <2>5 DEF Orderly
  <1>8. ASSUME marred' \cap {"overlap", "halfway"} = {} PROVE Ready'
    <2>0. Ready /\ proc[p].pc \notin Halfway
      BY <1>5, <1>8 DEF LifeInv
    <2> QED
      BY <1>1, <1>3, <1>4, <2>0 DEF Ready, Whole, Halfway, Gone
  <1>n. ASSUME Named PROVE Named'
    BY <1>1, <1>4, <1>n DEF Named
  <1>9. ASSUME Locked PROVE Locked'
    <2>1. \A q \in Procs : Holds(q)' <=> Holds(q) /\ q # p
      BY <1>3, <1>4 DEF Holds, Gone
    <2>2. sem'.id # 0 => \/ sem'.val = 1 /\ \A q \in Procs : ~Holds(q)'
                         \/ sem'.val = 0 /\ \E r \in Procs : \A q \in Procs : Holds(q)' <=> q = r
      BY <1>4, <1>9, <2>1 DEF Locked
    <2> QED
      BY <1>1, <1>3, <1>4, <1>9, <2>1, <2>2 DEF Locked, Gone
  <1> QED
    BY <1>n, <1>5, <1>6, <1>7, <1>8, <1>9 DEF LifeInv

-----------------------------------------------------------------------------
(***************************************************************************)
(* The theorems.                                                           *)
(***************************************************************************)
LEMMA LifeInitInv == LifeInit => LifeInv
  <1> SUFFICES ASSUME LifeInit PROVE LifeInv
    OBVIOUS
  <1> USE DEF Filling, Taking, Working, Joining, Pcs
  <1>1. Zeroed \in SegRec /\ Zeroed.sem = 0 /\ Zeroed.main = "none"
    BY DEF Zeroed, SegRec
  <1>2. Off \in ProcRec /\ Off.pc = "off" /\ Off.att = 0 /\ Off.lock = 0 /\ Off.undo = 0 /\ Off.got = 0
    BY ProgramsAssumption DEF Off, ProcRec
  <1>3. /\ shm = 0 /\ ids = 0 /\ sem = [id |-> 0, val |-> 0] /\ que = [req |-> 0, rsp |-> 0]
        /\ seg = [g \in Gens |-> Zeroed] /\ proc = [p \in Procs |-> Off]
    BY DEF LifeInit
  <1>4. /\ \A p \in Procs : proc[p] = Off
        /\ \A g \in Gens : seg[g] = Zeroed
        /\ sem.id = 0
    BY <1>3
  <1>5. Always
    <2>1. LifeType
      BY <1>1, <1>2, <1>3, ProgramsAssumption DEF LifeType
    <2>2. Placed
      BY <1>2, <1>4 DEF Placed
    <2>3. Made
      <3>1. \A g \in Gens : InUse(g) <=> g <= 0
        BY <1>1, <1>4 DEF InUse, Gens
      <3>2. 0 \in 0..MaxGen
        BY ProgramsAssumption
      <3> QED
        BY <1>2, <1>3, <1>4, <3>1, <3>2 DEF Made
    <2>4. Given
      BY <1>1, <1>2, <1>3, <1>4 DEF Given
    <2> QED
      BY <2>1, <2>2, <2>3, <2>4 DEF Always
  <1>6. Orderly
    BY <1>2, <1>4 DEF Orderly, OneWorks, Bare, Alone, Fetched, Owned, Procs
  <1>7. Ready
    BY <1>2, <1>3, <1>4 DEF Ready
  <1>8. Locked /\ Named
    BY <1>2, <1>4 DEF Locked, Named, Holds
  <1> QED
    BY <1>5, <1>6, <1>7, <1>8 DEF LifeInv

LEMMA LifeNextInv == LifeInv /\ [LifeNext]_lifeVars => LifeInv'
  <1> SUFFICES ASSUME LifeInv, [LifeNext]_lifeVars PROVE LifeInv'
    OBVIOUS
  <1>1. CASE UNCHANGED lifeVars
    BY <1>1 DEF lifeVars, LifeInv, Always, LifeType, Placed, Made, InUse, Given,
                Orderly, OneWorks, Bare, Alone, Fetched, Owned, Ready, Whole, Named, Locked, Holds
  <1>2. ASSUME NEW p \in Procs,
               \/ p \in Govs /\ (ShmCheck(p) \/ ShmMake(p) \/ CreateReq(p) \/ CreateRsp(p) \/ SemMake(p))
               \/ Attach(p) \/ JoinSem(p) \/ StoreSem(p)
               \/ GetReq(p) \/ StoreReq(p) \/ GetRsp(p) \/ StoreRsp(p)
               \/ StopSystem(p) \/ QueRemove(p) \/ SemRemove(p) \/ ShmRemove(p)
               \/ tux_lock(p) \/ tux_unlock(p) \/ Die(p)
        PROVE  LifeInv'
    <2>1. CASE p \in Govs /\ (ShmCheck(p) \/ ShmMake(p) \/ SemMake(p))
      BY <2>1, ShmCheckKeeps, ShmMakeKeeps, SemMakeKeeps
    <2>2. CASE p \in Govs /\ (CreateReq(p) \/ CreateRsp(p))
      BY <2>2, QueMakeKeeps DEF CreateReq, CreateRsp
    <2>3. CASE Attach(p) \/ JoinSem(p) \/ StoreSem(p)
      BY <2>3, AttachKeeps, JoinSemKeeps, StoreSemKeeps
    <2>6. CASE GetReq(p) \/ StoreReq(p) \/ GetRsp(p) \/ StoreRsp(p)
      BY <2>6, QueGetKeeps, QueStoreKeeps
    <2>4. CASE StopSystem(p) \/ QueRemove(p) \/ SemRemove(p) \/ ShmRemove(p)
      BY <2>4, StopSystemKeeps, QueRemoveKeeps, SemRemoveKeeps, ShmRemoveKeeps
    <2>5. CASE tux_lock(p) \/ tux_unlock(p) \/ Die(p)
      BY <2>5, LockKeeps, UnlockKeeps, DieKeeps
    <2> QED
      BY <1>2, <2>1, <2>2, <2>3, <2>4, <2>5, <2>6
  <1> QED
    BY <1>1, <1>2 DEF LifeNext

LEMMA LifeAlways == LifeSpec => []LifeInv
  BY LifeInitInv, LifeNextInv, PTL DEF LifeSpec

\* Unless starts and removals overlapped, ended halfway or outlived their segment:
\* between them, whoever is connected (ipc_connect) finds in the segment the queues
\* there are, and the semaphore unless its id was replaced by a late store (the
\* assignment to semid in ipc_connect), and one Governor runs.
THEOREM Usable == LifeSpec => []ConnectedUsable
  <1>1. LifeInv => ConnectedUsable
    <2> SUFFICES ASSUME LifeInv, Quiet, shm # 0
                 PROVE  LET up == {p \in Procs : proc[p].pc = "up" /\ proc[p].att = shm} IN
                        /\ Whole /\ ("late" \notin marred => seg[shm].sem = sem.id)
                        /\ Cardinality(up \cap Govs) <= 1
      BY DEF ConnectedUsable, Whole
    <2> DEFINE G == {p \in Procs : proc[p].pc = "up" /\ proc[p].att = shm} \cap Govs
    <2>1. Ready /\ Orderly
      BY DEF LifeInv, Quiet
    <2>2. Whole
      BY <2>1 DEF Ready, Quiet, Starting, Removing, Halfway
    <2>5. "late" \notin marred => seg[shm].sem = sem.id
      BY <2>2 DEF LifeInv, Quiet, Named, Whole
    <2>3. G \subseteq {seg[shm].main}
      BY <2>1 DEF Orderly, Owned
    <2>4. Cardinality(G) <= 1
      <3>1. CASE G = {}
        BY <3>1, FS_EmptySet
      <3>2. CASE G # {}
        <4>1. G = {seg[shm].main}
          BY <2>3, <3>2
        <4>2. Cardinality({seg[shm].main}) = 1
          BY FS_Singleton
        <4> HIDE DEF G
        <4> QED
          BY <4>1, <4>2
      <3> QED
        BY <3>1, <3>2
    <2> QED
      BY <2>2, <2>4, <2>5
  <1> QED
    BY <1>1, LifeAlways, PTL

\* Under the same conditions the next start is accepted, or tmdown finds what it
\* needs to connect and to remove.
THEOREM Recovers == LifeSpec => []Recoverable
  <1>1. LifeInv => Recoverable
    BY DEF LifeInv, Recoverable, Quiet, Ready, Whole, Starting, Removing, Halfway
  <1> QED
    BY <1>1, LifeAlways, PTL

\* Unless the value of the semaphore was set while the lock was held, or its id was
\* replaced by a late store: tux_lock lets one process in, and the lock is free when none holds it, whoever died.
THEOREM Excludes == LifeSpec => []LockExcludes
  <1>1. LifeInv => LockExcludes
    <2> SUFFICES ASSUME LifeInv, marred \cap {"setval", "late", "overlap"} = {}, sem.id # 0
                 PROVE  Cardinality(Held) <= 1 /\ sem.val = 1 - Cardinality(Held)
      BY DEF LockExcludes
    <2>1. Locked
      BY DEF LifeInv
    <2>2. \A p \in Procs : p \in Held <=> Holds(p)
      BY DEF Held, Holds
    <2>3. Held \subseteq Procs
      BY DEF Held
    <2>4. CASE sem.val = 1 /\ \A p \in Procs : ~Holds(p)
      <3>1. Held = {}
        BY <2>2, <2>3, <2>4
      <3> QED
        BY <2>4, <3>1, FS_EmptySet
    <2>5. CASE sem.val = 0 /\ \E p \in Procs : \A q \in Procs : Holds(q) <=> q = p
      <3>1. PICK p \in Procs : \A q \in Procs : Holds(q) <=> q = p
        BY <2>5
      <3>2. Held = {p}
        BY <2>2, <2>3, <3>1
      <3>3. Cardinality(Held) = 1
        BY <3>2, FS_Singleton
      <3> QED
        BY <2>5, <3>3
    <2> QED
      BY <2>1, <2>4, <2>5 DEF Locked
  <1> QED
    BY <1>1, LifeAlways, PTL
=============================================================================
