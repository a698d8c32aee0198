----------------------------- MODULE Lifecycle ------------------------------
(***************************************************************************)
(* The System V objects the system lives in: the shared memory segment,    *)
(* the two queues and the semaphore, made by the Governor's sys_start,     *)
(* joined by every process with ipc_connect, removed by tmdown with        *)
(* ipc_remove, and left behind by what fails or dies in between            *)
(* (tuxmgr.c, funsem.c, funmem.c).  All are found by name, and nothing but *)
(* the order of the system calls keeps the processes apart.                *)
(***************************************************************************)
EXTENDS Integers, FiniteSets

CONSTANTS Govs,      \* processes that run Governor
          Apps,      \* processes that connect: communication servers, workers, tools
          Downs,     \* processes that run tmdown
          MaxGen,    \* bound on the segments ever made
          Faults     \* calls of sys_start that may fail: "shm", "req", "rsp", "sem"

VARIABLES shm,       \* the segment the name stands for, 0 for none
          seg,       \* contents of each segment; it outlives its name while attached
          que,       \* ids of the queues, 0 for none
          sem,       \* id and value of the semaphore, id 0 for none
          ids,       \* the number of ids given out
          proc,      \* state of each process: its next step, segment, the id it found, lock, undo value
          marred     \* history: what overlapped, ended halfway or came late

\* A process runs one program, and row 0 of a new segment names none of them.
ASSUME ProgramsAssumption ==
    MaxGen \in Nat /\ Govs \cap Downs = {} /\ "none" \notin Govs

lifeVars == <<shm, seg, que, sem, ids, proc, marred>>

Procs == Govs \cup Apps \cup Downs
Gens  == 1..MaxGen

Zeroed   == [keys |-> FALSE, req |-> 0, rsp |-> 0, sem |-> 0, main |-> "none"]
Starting == {"make", "req", "rsp", "sem"}
Removing == {"kill", "rmq", "rms", "rmm"}
Halfway  == {"req", "rsp", "sem", "rms", "rmm"}
Off      == [pc |-> "off", att |-> 0, got |-> 0, lock |-> 0, undo |-> 0]

LifeInit ==
    /\ shm = 0 /\ seg = [g \in Gens |-> Zeroed] /\ que = [req |-> 0, rsp |-> 0]
    /\ sem = [id |-> 0, val |-> 0] /\ ids = 0
    /\ proc = [p \in Procs |-> Off] /\ marred = {}

Busy(p) == \E q \in Procs \ {p} : proc[q].pc \in Starting \cup Removing
Mark(what, when) == marred' = IF when THEN marred \cup {what} ELSE marred
Here(p) == proc[p].att

\* msgget and semget with IPC_CREAT and without IPC_EXCL: the id that is there, or
\* a new one.
GetOrMake(id) == IF id # 0 THEN id ELSE ids + 1
IdsAfter(id)  == IF id # 0 THEN ids ELSE ids + 1

-----------------------------------------------------------------------------
(***************************************************************************)
(* sys_start.                                                              *)
(***************************************************************************)

\* Refused while the name stands for a segment; the process then ends.
ShmCheck(p) ==
    /\ proc[p].pc = "off" /\ shm = 0
    /\ proc' = [proc EXCEPT ![p].pc = "make"]
    /\ Mark("overlap", Busy(p))
    /\ UNCHANGED <<shm, seg, que, sem, ids>>

\* shm_create takes a segment that was made since; either is zeroed.
ShmMake(p) ==
    LET used == {g \in Gens : g = shm \/ seg[g].main # "none"}
        g == IF shm # 0 THEN shm ELSE Cardinality(used) + 1 IN
    /\ proc[p].pc = "make" /\ g \in Gens
    /\ \/ /\ shm' = g /\ seg' = [seg EXCEPT ![g] = [Zeroed EXCEPT !.main = p]]
          /\ proc' = [proc EXCEPT ![p].pc = "req", ![p].att = g]
       \/ /\ "shm" \in Faults
          /\ proc' = [proc EXCEPT ![p] = Off] /\ UNCHANGED <<shm, seg>>
    /\ UNCHANGED <<que, sem, ids, marred>>

\* createqueue.  When it fails the segment is deleted, by its name, and a request
\* queue that was made is left.
QueMake(p, q, next) ==
    /\ proc[p].pc = q
    /\ \/ /\ que' = [que EXCEPT ![q] = GetOrMake(@)] /\ ids' = IdsAfter(que[q])
          /\ seg' = [seg EXCEPT ![Here(p)].keys = TRUE, ![Here(p)][q] = que'[q]]
          /\ proc' = [proc EXCEPT ![p].pc = next] /\ UNCHANGED shm
       \/ /\ q \in Faults
          /\ seg' = [seg EXCEPT ![Here(p)].keys = TRUE, ![Here(p)][q] = -1]
          /\ shm' = 0 /\ proc' = [proc EXCEPT ![p] = Off] /\ UNCHANGED <<que, ids>>
    /\ UNCHANGED <<sem, marred>>
CreateReq(p) == QueMake(p, "req", "rsp")
CreateRsp(p) == QueMake(p, "rsp", "sem")

\* Every undo value is cleared when the semaphore's value is set.
Cleared(pr) == [p \in Procs |-> [pr[p] EXCEPT !.undo = 0]]
Held == {p \in Procs : proc[p].lock # 0 /\ proc[p].lock = sem.id}

\* sem_create, and row 0 is filled.  When it fails the segment is detached and
\* deleted, and que_remove then reads the ids in it: the process dies.
SemMake(p) ==
    /\ proc[p].pc = "sem"
    /\ \/ /\ sem' = [id |-> GetOrMake(sem.id), val |-> 1] /\ ids' = IdsAfter(sem.id)
          /\ seg' = [seg EXCEPT ![Here(p)].sem = sem'.id]
          /\ proc' = Cleared([proc EXCEPT ![p].pc = "connect"])
          /\ Mark("setval", Held # {}) /\ UNCHANGED shm
       \/ /\ "sem" \in Faults
          /\ shm' = 0 /\ proc' = [proc EXCEPT ![p] = Off] /\ UNCHANGED <<seg, sem, ids, marred>>
    /\ UNCHANGED que

-----------------------------------------------------------------------------
(***************************************************************************)
(* ipc_connect, by the Governor after its start and by everyone else.      *)
(***************************************************************************)

\* shm_connect and the test that the queues have their keys; else it fails.
Attach(p) ==
    /\ proc[p].pc = IF p \in Govs THEN "connect" ELSE "off"
    /\ IF shm # 0 /\ seg[shm].keys
       THEN proc' = [proc EXCEPT ![p].pc = "joinsem", ![p].att = shm]
       ELSE p \in Govs /\ proc' = [proc EXCEPT ![p] = Off]
    /\ UNCHANGED <<shm, seg, que, sem, ids, marred>>

\* What a process has found, -1 when there is none, is stored later: others go on
\* in between, and all store in the segment that they share.
Found(id)     == IF id = 0 THEN -1 ELSE id
Stored(p, at) == seg' = [seg EXCEPT ![Here(p)][at] = proc[p].got]

\* sem_connect sets the value to 1, whoever holds the lock.
JoinSem(p) ==
    LET pr == [proc EXCEPT ![p].pc = "storesem", ![p].got = Found(sem.id)] IN
    /\ proc[p].pc = "joinsem"
    /\ IF sem.id = 0
       THEN proc' = pr /\ UNCHANGED <<sem, marred>>
       ELSE /\ sem' = [sem EXCEPT !.val = 1] /\ proc' = Cleared(pr)
            /\ Mark("setval", Held # {} \/ Here(p) # shm)
    /\ UNCHANGED <<shm, seg, que, ids>>

\* The store to semid.  What was found before sem_create may replace its id.
StoreSem(p) ==
    /\ proc[p].pc = "storesem" /\ Stored(p, "sem")
    /\ proc' = [proc EXCEPT ![p].pc = "getreq", ![p].got = 0]
    /\ Mark("late", Here(p) = shm /\ sem.id # 0 /\ proc[p].got # sem.id)
    /\ UNCHANGED <<shm, que, sem, ids>>

\* A call that looks for a queue, after the test of the id in the segment, which may
\* be what another process stored there since.
QueGet(p, pc, tested, q, next) ==
    /\ proc[p].pc = pc
    /\ proc' = IF seg[Here(p)][tested] < 0 THEN [proc EXCEPT ![p] = Off]
               ELSE [proc EXCEPT ![p].pc = next, ![p].got = Found(que[q])]
    /\ UNCHANGED <<shm, seg, que, sem, ids, marred>>

\* que_connect.
GetReq(p) == QueGet(p, "getreq", "sem", "req", "storereq")
StoreReq(p) ==
    /\ proc[p].pc = "storereq" /\ Stored(p, "req")
    /\ proc' = [proc EXCEPT ![p].pc = "getrsp", ![p].got = 0]
    /\ UNCHANGED <<shm, que, sem, ids, marred>>

\* Mutant: the request queue is looked for twice.
GetRsp_req(p) == QueGet(p, "getrsp", "req", "req", "storersp")

GetRsp(p) == QueGet(p, "getrsp", "req", "rsp", "storersp")

\* A missing reply queue goes unnoticed, for the key is tested and not the id, and
\* the function returns no value: it may seem to have failed.
StoreRsp(p) ==
    /\ proc[p].pc = "storersp" /\ Stored(p, "rsp")
    /\ \/ proc' = [proc EXCEPT ![p].pc = IF p \in Downs THEN "kill" ELSE "up", ![p].got = 0]
       \/ proc' = [proc EXCEPT ![p] = Off]
    /\ UNCHANGED <<shm, que, sem, ids, marred>>

-----------------------------------------------------------------------------
(***************************************************************************)
(* ipc_remove, by tmdown.                                                  *)
(***************************************************************************)

\* The end of a process: what it has not undone of the lock is undone.
Ended(pr, p) == [pr EXCEPT ![p] = Off]
SemAfterEnd(p) == IF proc[p].undo = 0 \/ sem.id = 0 THEN sem
                  ELSE [sem EXCEPT !.val = IF @ + proc[p].undo < 0 THEN 0 ELSE @ + proc[p].undo]

\* stop_system and five seconds of sleep, in which the Governor of the segment ends
\* (or not yet: it holds the signal while it loads the servers).  When the segment
\* has lost its name since this process connected, what follows removes by name
\* the objects of the system that was started after it.
StopSystem(p) ==
    LET g == seg[Here(p)].main
        runs == g \in Govs /\ proc[g].att = Here(p) IN
    /\ proc[p].pc = "kill"
    /\ \/ /\ runs /\ proc' = Ended([proc EXCEPT ![p].pc = "rmq"], g) /\ sem' = SemAfterEnd(g)
          /\ Mark("overlap", Busy(p) \/ Here(p) # shm)
       \/ /\ proc' = [proc EXCEPT ![p].pc = "rmq"] /\ UNCHANGED sem
          /\ Mark("overlap", Busy(p) \/ Here(p) # shm \/ runs)
    /\ UNCHANGED <<shm, seg, que, ids>>

\* que_remove: by the ids in the segment.
QueRemove(p) ==
    /\ proc[p].pc = "rmq"
    /\ que' = [q \in {"req", "rsp"} |-> IF que[q] = seg[Here(p)][q] THEN 0 ELSE que[q]]
    /\ proc' = [proc EXCEPT ![p].pc = "rms"]
    /\ UNCHANGED <<shm, seg, sem, ids, marred>>

\* sem_delete: by its name.
SemRemove(p) ==
    /\ proc[p].pc = "rms"
    /\ sem' = [id |-> 0, val |-> 0]
    /\ proc' = Cleared([proc EXCEPT ![p].pc = "rmm"])
    /\ UNCHANGED <<shm, seg, que, ids, marred>>

\* Mutant: the segment keeps its name.
ShmRemove_kept(p) ==
    /\ proc[p].pc = "rmm"
    /\ proc' = [proc EXCEPT ![p] = Off]
    /\ UNCHANGED <<shm, seg, que, sem, ids, marred>>

\* shm_delete: by its name; the processes that are attached keep the segment.
ShmRemove(p) ==
    /\ proc[p].pc = "rmm"
    /\ shm' = 0 /\ proc' = [proc EXCEPT ![p] = Off]
    /\ UNCHANGED <<seg, que, sem, ids, marred>>

-----------------------------------------------------------------------------
(***************************************************************************)
(* The lock, and the end of a process.                                     *)
(***************************************************************************)

\* Mutant: the lock does not wait.
Lock_free(p) ==
    /\ proc[p].pc = "up" /\ proc[p].lock = 0
    /\ sem.id # 0 /\ seg[Here(p)].sem = sem.id
    /\ sem' = [sem EXCEPT !.val = 0]
    /\ proc' = [proc EXCEPT ![p].lock = sem.id, ![p].undo = @ + 1]
    /\ UNCHANGED <<shm, seg, que, ids, marred>>

\* tux_lock, with the id in the segment.
tux_lock(p) ==
    /\ proc[p].pc = "up" /\ proc[p].lock = 0
    /\ sem.id # 0 /\ seg[Here(p)].sem = sem.id /\ sem.val > 0
    /\ sem' = [sem EXCEPT !.val = @ - 1]
    /\ proc' = [proc EXCEPT ![p].lock = sem.id, ![p].undo = @ + 1]
    /\ UNCHANGED <<shm, seg, que, ids, marred>>

\* tux_unlock; the call fails when the semaphore has gone.
tux_unlock(p) ==
    LET there == sem.id # 0 /\ seg[Here(p)].sem = sem.id IN
    /\ proc[p].lock # 0
    /\ sem' = IF there THEN [sem EXCEPT !.val = @ + 1] ELSE sem
    /\ proc' = [proc EXCEPT ![p].lock = 0, ![p].undo = IF there THEN @ - 1 ELSE @]
    /\ UNCHANGED <<shm, seg, que, ids, marred>>

\* A process ends or is killed, anywhere.
Die(p) ==
    /\ proc[p].pc # "off"
    /\ proc' = Ended(proc, p) /\ sem' = SemAfterEnd(p)
    /\ Mark("halfway", proc[p].pc \in Halfway)
    /\ UNCHANGED <<shm, seg, que, ids>>

LifeNext == \E p \in Procs :
    \/ p \in Govs /\ (ShmCheck(p) \/ ShmMake(p) \/ CreateReq(p) \/ CreateRsp(p) \/ SemMake(p))
    \/ Attach(p) \/ JoinSem(p) \/ StoreSem(p)
    \/ GetReq(p) \/ StoreReq(p) \/ GetRsp(p) \/ StoreRsp(p)
    \/ StopSystem(p) \/ QueRemove(p) \/ SemRemove(p) \/ ShmRemove(p)
    \/ tux_lock(p) \/ tux_unlock(p) \/ Die(p)

LifeSpec == LifeInit /\ [][LifeNext]_lifeVars

-----------------------------------------------------------------------------
Quiet == marred \cap {"overlap", "halfway"} = {} /\ \A p \in Procs : proc[p].pc \notin Starting \cup Removing

\* When starts and removals never overlapped nor ended halfway, no removal outlived
\* its segment, and none is under way: whoever is connected to the segment the name
\* stands for finds in it the ids of the queues that exist, whatever others connected
\* or failed to, in this system or the ones before; the semaphore exists and its id
\* is found too, unless a process that looked for it before the start made it stored
\* what it found after that; and one Governor runs the system.
ConnectedUsable == Quiet /\ shm # 0 =>
    LET up == {p \in Procs : proc[p].pc = "up" /\ proc[p].att = shm} IN
    /\ up # {} => /\ seg[shm].req = que.req /\ que.req # 0
                  /\ seg[shm].rsp = que.rsp /\ que.rsp # 0
                  /\ sem.id # 0 /\ ("late" \notin marred => seg[shm].sem = sem.id)
    /\ Cardinality(up \cap Govs) <= 1

\* Under the same conditions the operator can always go on, also after a start
\* that failed, a Governor that died and a late store: a start is accepted, or
\* everything is there that tmdown needs to connect and remove.
Recoverable == Quiet =>
    shm = 0 \/ (seg[shm].keys /\ sem.id # 0 /\ que.req # 0)

\* Unless someone connected while the lock was held, or while the system was
\* restarted, or stored late what he found before a start, or starts and removals
\* overlapped: at most one process holds the lock and it is free exactly when none
\* does, whoever died holding it.
LockExcludes == marred \cap {"setval", "late", "overlap"} = {} =>
    sem.id = 0 \/ (Cardinality(Held) <= 1 /\ sem.val = 1 - Cardinality(Held))
=============================================================================
