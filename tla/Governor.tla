------------------------------ MODULE Governor ------------------------------
(***************************************************************************)
(* The Governor (dev/src/Main/Governor.c): the process that reads the      *)
(* system configuration, forks the worker processes of every server,       *)
(* restarts the ones that die and obeys the operators' tmstart, tmexit,    *)
(* tmfresh and tmdown.                                                     *)
(*                                                                         *)
(* It keeps two tables in shared memory: the server table (one row per     *)
(* server) and the pid table (one row per worker process).  Row 0 of both  *)
(* is the Governor itself and never changes after sys_start, so the model  *)
(* has the rows from 1.  A command handler and the SIGCLD handler run with *)
(* SIGCLD and SIGTERM held, so they never interleave with each other; the  *)
(* workers crash, stop and exit at any moment.  The loops of the handlers  *)
(* are steps of their own (variable op), everything else of a handler is   *)
(* one action.                                                             *)
(*                                                                         *)
(* Both handlers index the server table with a row of the pid table.  The  *)
(* tables have sizes of their own, and the pid table lies behind the       *)
(* server table: such a write may fall into a pid row, behind both tables  *)
(* or behind the segment.                                                  *)
(***************************************************************************)
EXTENDS Integers, FiniteSets, Sequences

CONSTANTS
    NS,           \* rows 1..NS of the server table (sd.svrnum = NS + 1)
    NP,           \* rows 1..NP of the pid table (sd.pidnum = NP + 1)
    Pids,         \* the pids the operating system may give to a child
    NoPid,        \* the -1 of a free pid row
    Cfgs,         \* the versions of the configuration file operators install
    Names,        \* the executables of the servers
    NoName,       \* the empty name of a cleared row
    CmdIds,       \* the server ids operators name in their commands
    MaxRestart,   \* the 50 of server_deatch
    Faults,       \* the faults of the environment: subset of {"fork", "stop"}
    MaxCrash,     \* bound on the workers that crash or stop
    MaxCmds       \* bound on operator commands and configuration edits

SvrIx == 1..NS
PidIx == 1..NP

ASSUME SizeAssumption == NS \in Nat /\ NP \in Nat

ASSUME BoundAssumption ==
    MaxRestart \in Nat /\ MaxCrash \in Nat /\ MaxCmds \in Nat

ASSUME PidAssumption == NoPid \notin Pids

ASSUME FaultAssumption == Faults \subseteq {"fork", "stop"}

\* A "tsk.task" line: the executable, SRVID, SRVNUM, and what register_server
\* makes of it: "ok", "noexec" (no such file in bin/) or "badparm" (SRVPARM
\* without its quotes).
Lines  == [name : Names, id : Nat \ {0}, num : Nat,
           parse : {"ok", "noexec", "badparm"}]

ASSUME CfgAssumption ==
    /\ \A c \in Cfgs : c \in Seq(Lines)
    /\ CmdIds \subseteq Nat \ {0}

\* sunda.h: server states.  SVR_PERM and TUX_AVAIL are the same number, and
\* register_server stores the first where the second belongs.
SVR_PERM    == 1
SVR_TEMP    == 2
TUX_AVAIL   == 1
TUX_IDLE    == 2
TUX_UNAVAIL == 3
TUX_DEAD    == 4

VARIABLES
    cfg,       \* the configuration file as it is on disk now
    svr,       \* the server table
    tab,       \* the pid table
    proc,      \* the children of the Governor, by pid
    op,        \* what the Governor is doing
    crashes,   \* workers that crashed or were stopped so far
    cmds,      \* operator commands and edits so far
    exited,    \* history: ids with a tmexit and no later tmstart or tmfresh
    restarts,  \* history: restarts of a pid row since it was last cleared
    struck     \* history: the fields of pid rows that a state was written into

vars == <<cfg, svr, tab, proc, op, crashes, cmds, exited, restarts, struck>>

-----------------------------------------------------------------------------
(***************************************************************************)
(* The tables.                                                             *)
(***************************************************************************)

\* sbSvrTabClear: the row zeroed, svrid = -1.
ClearedSvr == [id |-> -1, name |-> NoName, num |-> 0, state |-> 0, type |-> 0]

\* sdSvrPidClear: the row zeroed, pid = -1 (its svrid and svrpos are 0).
ClearedTab == [pid |-> NoPid, svrid |-> 0, svrpos |-> 0, tot |-> 0]

NoProc == [st |-> "none", id |-> 0]

SmallestOf(S) == CHOOSE x \in S : \A y \in S : x <= y

FirstOrZero(S) == IF S = {} THEN 0 ELSE SmallestOf(S)

\* Mutants: a full pid table hands out its last row; the scan for an id starts
\* one row late.
PidEntry_last == IF \A r \in PidIx : tab[r].pid # NoPid THEN NP
                 ELSE SmallestOf({r \in PidIx : tab[r].pid = NoPid})
FindId_late(id) == FirstOrZero({r \in SvrIx \ {1} : svr[r].id = id})

\* The lookups scan their table upwards; 0 stands for "not found" (-1).
server_find_pid(p)     == FirstOrZero({r \in PidIx : tab[r].pid = p})
server_get_pidentry    == FirstOrZero({r \in PidIx : tab[r].pid = NoPid})
server_get_identry     == FirstOrZero({r \in SvrIx : svr[r].id = -1})
find_server_id(id)     == FirstOrZero({r \in SvrIx : svr[r].id = id})

\* sdGetSvrStat(i) with a row i of the pid table.  Beyond the server table the
\* state lies StateAt(i) bytes into the pid table: a server row has 232 bytes, its
\* state is at 204, and a pid row has 48, with pid, svrid, svrpos and
\* tot_restart_count at 0, 4, 8 and 20 (the layout of a 64-bit build).
StateAt(i)  == 232 * (i - (NS + 1)) + 204
HitRow(i)   == StateAt(i) \div 48
HitField(i) == StateAt(i) % 48

Overwritten(row, at, v) ==
    [pid    |-> IF at = 0  THEN v ELSE row.pid,
     svrid  |-> IF at = 4  THEN v ELSE row.svrid,
     svrpos |-> IF at = 8  THEN v ELSE row.svrpos,
     tot    |-> IF at = 20 THEN v ELSE row.tot]

Overruns(i)      == i > NS /\ HitRow(i) \in PidIx
SetStat(s, i, v) == IF i > NS THEN s ELSE [s EXCEPT ![i].state = v]
Overrun(b, i, v) == IF Overruns(i) THEN [b EXCEPT ![HitRow(i)] = Overwritten(@, HitField(i), v)] ELSE b

StrikesAt(at) == CASE at = 4 -> {"svrid"} [] at = 20 -> {"tot"} [] OTHER -> {}
Strikes(i) == struck' = struck \cup IF Overruns(i) THEN StrikesAt(HitField(i)) ELSE {}

\* Behind the service table, whose NS + 1 rows of 56 bytes are the last of the
\* segment, the write may be lost or end the Governor (SIGSEGV).
Beyond(i) == StateAt(i) >= 48 * (NP + 1) + 56 * (NS + 1)

\* register_server writes every field of the row but its type.
Registered(row, line) ==
    [id |-> line.id, name |-> line.name, num |-> line.num,
     state |-> SVR_PERM, type |-> row.type]

\* A missing executable leaves the row alone.
register_server(s, t, line) ==
    IF line.parse = "noexec" THEN s
    ELSE [s EXCEPT ![t] = Registered(@, line)]

\* Mutant: row i is paired with the line after the i-th.
Reload_next(s, t) ==
    LET i == FirstOrZero({k \in SvrIx : k < Len(cfg) /\ s[k].id = s[t].id})
    IN  IF i = 0 THEN s ELSE register_server(s, t, cfg[i + 1])

\* reload_server_param pairs row i with the i-th line of the file, and
\* registers in row t the line paired with the first row that has t's id.
reload_server_param(s, t) ==
    LET i == FirstOrZero({k \in SvrIx : k <= Len(cfg) /\ s[k].id = s[t].id})
    IN  IF i = 0 THEN s ELSE register_server(s, t, cfg[i])

\* tux_deletesvc compares server ids with the row index it is given.
tux_deletesvc(s, t) ==
    [r \in SvrIx |-> IF s[r].id = t THEN [s[r] EXCEPT !.state = TUX_UNAVAIL]
                                   ELSE s[r]]

\* Mutants: the loop ends at its first match; the guard spares another number;
\* the row index is compared instead of the id.
Matches_first(id) == {r \in PidIx : tab[r].svrid = id /\ id # -1 /\ id # TUX_DEAD
                                  /\ \A k \in PidIx : tab[k].svrid = id => r <= k}
Matches_avail(id) == {r \in PidIx : tab[r].svrid = id /\ id # -1 /\ id # TUX_AVAIL}
Matches_row(id)   == {r \in PidIx : tab[r].svrpos = id /\ id # -1 /\ id # TUX_DEAD}

\* server_kill: the pid rows it matches for a server id.
Matches(id) == {r \in PidIx : tab[r].svrid = id /\ id # -1 /\ id # TUX_DEAD}

\* A process that SIGTERM still has to end.
Alive == {"run", "stop", "held", "stray"}

\* SIGTERM to the pids of the rows R, and the rows cleared.  The -1 of a free row
\* is every process.
Terminated(R) ==
    [p \in Pids |-> IF /\ \E r \in R : tab[r].pid \in {p, NoPid}
                       /\ proc[p].st \in Alive
                    THEN [proc[p] EXCEPT !.st = "term"] ELSE proc[p]]
ClearedRows(R) == [r \in PidIx |-> IF r \in R THEN ClearedTab ELSE tab[r]]
ClearedHist(R) == [r \in PidIx |-> IF r \in R THEN 0 ELSE restarts[r]]

\* Mutant: the rows are cleared, the signal is not sent.
server_kill_silent(R) ==
    /\ proc' = proc
    /\ tab' = ClearedRows(R)
    /\ restarts' = ClearedHist(R)

server_kill(R) ==
    /\ proc' = Terminated(R)
    /\ tab' = ClearedRows(R)
    /\ restarts' = ClearedHist(R)

-----------------------------------------------------------------------------
(***************************************************************************)
(* Processes.  st is "run", "term" (SIGTERM sent, not yet gone), "stop"    *)
(* (stopped, not yet reported by waitpid), "held" (stopped and reported),  *)
(* "stray" (runs again after it was reported), "zombie", or "none".        *)
(***************************************************************************)

FreePids == {p \in Pids : proc[p].st = "none"}

ForkMayFail == "fork" \in Faults

Child(id) == [st |-> "run", id |-> id]

Idle == [at |-> "idle", row |-> 0, line |-> 0, id |-> 0, i |-> 0, for |-> "none"]

IsIdle == op.at = "idle"

\* A worker that ends is a zombie until waitpid; unload_server has SIGCLD
\* ignored, so that nothing is left to wait for, and a Governor that has ended
\* does not wait.
Gone(p) == [proc EXCEPT ![p] = IF op.at \in {"down", "failed"} THEN NoProc
                               ELSE [@ EXCEPT !.st = "zombie"]]

\* A worker dies by itself.
Crash(p) ==
    /\ crashes < MaxCrash
    /\ proc[p].st \in {"run", "stray"}
    /\ proc' = Gone(p)
    /\ crashes' = crashes + 1
    /\ UNCHANGED <<cfg, svr, tab, op, cmds, exited, restarts, struck>>

\* A worker is stopped (SIGSTOP, a debugger); waitpid reports it once because
\* of WUNTRACED.
Stop(p) ==
    /\ "stop" \in Faults
    /\ crashes < MaxCrash
    /\ proc[p].st = "run"
    /\ proc' = [proc EXCEPT ![p].st = "stop"]
    /\ crashes' = crashes + 1
    /\ UNCHANGED <<cfg, svr, tab, op, cmds, exited, restarts, struck>>

\* It goes on; the Governor has not asked for that report (WCONTINUED).
Continue(p) ==
    /\ proc[p].st \in {"stop", "held"}
    /\ proc' = [proc EXCEPT ![p].st = IF @ = "stop" THEN "run" ELSE "stray"]
    /\ UNCHANGED <<cfg, svr, tab, op, crashes, cmds, exited, restarts, struck>>

\* The worker's own exit_handler (tuxmain.c) ends a terminated worker.
TermExit(p) ==
    /\ proc[p].st = "term"
    /\ proc' = Gone(p)
    /\ UNCHANGED <<cfg, svr, tab, op, crashes, cmds, exited, restarts, struck>>

-----------------------------------------------------------------------------
(***************************************************************************)
(* Start-up: sys_start, then server_load_cfg and load_server.              *)
(***************************************************************************)

Init ==
    /\ cfg \in Cfgs
    /\ svr = [r \in SvrIx |-> ClearedSvr]
    /\ tab = [r \in PidIx |-> ClearedTab]
    /\ proc = [p \in Pids |-> NoProc]
    /\ op = [Idle EXCEPT !.at = "boot", !.row = 1, !.line = 1]
    /\ crashes = 0
    /\ cmds = 0
    /\ exited = {}
    /\ restarts = [r \in PidIx |-> 0]
    /\ struck = {}

\* server_load_cfg: one line of the file into the next row; a line without
\* executable takes no row, a malformed one ends the Governor.
LoadLine ==
    /\ op.at = "boot"
    /\ op.row <= NS /\ op.line <= Len(cfg)
    /\ LET line == cfg[op.line] IN
       /\ svr' = register_server(svr, op.row, line)
       /\ op' = CASE line.parse = "ok"     -> [op EXCEPT !.row = @ + 1, !.line = @ + 1]
                  [] line.parse = "noexec" -> [op EXCEPT !.line = @ + 1]
                  [] OTHER                 -> [op EXCEPT !.at = "failed"]
    /\ UNCHANGED <<cfg, tab, proc, crashes, cmds, exited, restarts, struck>>

\* Mutant: the loop starts with the Governor's own row.
LoadDone_zero ==
    /\ op.at = "boot"
    /\ op.row > NS \/ op.line > Len(cfg)
    /\ op' = [Idle EXCEPT !.at = "load", !.row = 0]
    /\ UNCHANGED <<cfg, svr, tab, proc, crashes, cmds, exited, restarts, struck>>

\* The file or the table is exhausted: load_server starts with row 1.
LoadDone ==
    /\ op.at = "boot"
    /\ op.row > NS \/ op.line > Len(cfg)
    /\ op' = [Idle EXCEPT !.at = "load", !.row = 1]
    /\ UNCHANGED <<cfg, svr, tab, proc, crashes, cmds, exited, restarts, struck>>

\* Enter server_run(t) for the caller c.
server_run(s, t, c) ==
    /\ svr' = [s EXCEPT ![t].type = SVR_PERM]
    /\ op' = [op EXCEPT !.at = "run", !.row = t, !.i = 0, !.for = c]

\* load_server: the next used row, or the end of the table.
LoadRow ==
    /\ op.at = "load"
    /\ IF op.row > NS THEN op' = Idle /\ UNCHANGED svr
       ELSE IF svr[op.row].id = -1
            THEN op' = [op EXCEPT !.row = @ + 1] /\ UNCHANGED svr
            ELSE server_run(svr, op.row, "load")
    /\ UNCHANGED <<cfg, tab, proc, crashes, cmds, exited, restarts, struck>>

\* What the caller of server_run does with its result: load_server ignores
\* it; run_task_id and run_one_task give the row up when it failed.
Returned(ok) ==
    \/ /\ op.for = "load"
       /\ op' = [op EXCEPT !.at = "load", !.row = @ + 1]
       /\ UNCHANGED svr
    \/ /\ op.for \in {"fresh", "one"} /\ ~ok
       /\ op' = Idle
       /\ svr' = [svr EXCEPT ![op.row] = ClearedSvr]
    \/ /\ op.for = "fresh" /\ ok
       /\ op' = [op EXCEPT !.at = "fresh", !.line = @ + 1]
       /\ UNCHANGED svr
    \/ /\ op.for = "one" /\ ok
       /\ op' = Idle
       /\ UNCHANGED svr

\* One turn of server_run's loop: a free pid row and a fork.
RunFork ==
    /\ op.at = "run" /\ op.i < svr[op.row].num
    /\ LET r == server_get_pidentry IN
       /\ r # 0
       /\ \E p \in FreePids :
            /\ tab' = [tab EXCEPT ![r] = [@ EXCEPT !.pid = p, !.svrid = svr[op.row].id,
                                                   !.svrpos = op.row]]
            /\ proc' = [proc EXCEPT ![p] = Child(svr[op.row].id)]
    /\ svr' = [svr EXCEPT ![op.row].state = TUX_IDLE]
    /\ op' = [op EXCEPT !.i = @ + 1]
    /\ UNCHANGED <<cfg, crashes, cmds, exited, restarts, struck>>

\* fork fails: the pid row is cleared, the workers already started stay.
RunForkFails ==
    /\ ForkMayFail
    /\ op.at = "run" /\ op.i < svr[op.row].num
    /\ server_get_pidentry # 0
    /\ tab' = [tab EXCEPT ![server_get_pidentry] = ClearedTab]
    /\ restarts' = [restarts EXCEPT ![server_get_pidentry] = 0]
    /\ Returned(FALSE)
    /\ UNCHANGED <<cfg, proc, crashes, cmds, exited, struck>>

\* No free pid row: SYS_LIMIT.
RunLimit ==
    /\ op.at = "run" /\ op.i < svr[op.row].num
    /\ server_get_pidentry = 0
    /\ Returned(FALSE)
    /\ UNCHANGED <<cfg, tab, proc, crashes, cmds, exited, restarts, struck>>

RunDone ==
    /\ op.at = "run" /\ op.i >= svr[op.row].num
    /\ Returned(TRUE)
    /\ UNCHANGED <<cfg, tab, proc, crashes, cmds, exited, restarts, struck>>

-----------------------------------------------------------------------------
(***************************************************************************)
(* The SIGCLD handler: one turn of server_deatch's waitpid loop.           *)
(***************************************************************************)

\* What waitpid leaves of a reported child.
Reported(p) == IF proc[p].st = "zombie" THEN [proc EXCEPT ![p] = NoProc]
                                        ELSE [proc EXCEPT ![p].st = "held"]

Reportable(p) == proc[p].st \in {"zombie", "stop"}

\* Mutant: a child that is not in the table is skipped, not waited for.
ReapUnknown_skip(p) ==
    /\ IsIdle
    /\ Reportable(p)
    /\ server_find_pid(p) = 0
    /\ UNCHANGED vars

\* A child without a pid row (its row was cleared by server_kill).
ReapUnknown(p) ==
    /\ IsIdle
    /\ Reportable(p)
    /\ server_find_pid(p) = 0
    /\ proc' = Reported(p)
    /\ UNCHANGED <<cfg, svr, tab, op, crashes, cmds, exited, restarts, struck>>

\* The bookkeeping of the loop before the restart decision, for the child in
\* pid row r of server row t: the server's count, and the restart counter of
\* the pid row whose index is t.
Counted(t) ==
    [s |-> [svr EXCEPT ![t].num = @ - 1],
     b |-> IF t \in PidIx THEN [tab EXCEPT ![t].tot = @ + 1] ELSE tab]

MarkIfEmpty(s, t) == IF s[t].num = 0 THEN tux_deletesvc(s, t) ELSE s

\* Mutant: the budget is compared one too late.
GiveUp_late(r, t) == Counted(t).b[r].tot > MaxRestart + 1 \/ svr[t].type = SVR_TEMP

\* The row is over its budget, or the server is not to be restarted.
GiveUp(r, t) == Counted(t).b[r].tot > MaxRestart \/ svr[t].type = SVR_TEMP

ReapGiveUp(p) ==
    LET r == server_find_pid(p)
        t == tab[r].svrpos
    IN  /\ IsIdle
        /\ Reportable(p)
        /\ r # 0
        /\ GiveUp(r, t)
        /\ proc' = Reported(p)
        /\ tab' = Counted(t).b
        /\ svr' = MarkIfEmpty([Counted(t).s EXCEPT ![t].type = SVR_TEMP], t)
        /\ UNCHANGED <<cfg, op, crashes, cmds, exited, restarts, struck>>

\* The restart: the server's row is re-read from the file, a new worker is
\* forked into the same pid row, and the state of the *server* row with the
\* pid row's index becomes TUX_AVAIL, if there is one.
ReapRestart(p) ==
    LET r == server_find_pid(p)
        t == tab[r].svrpos
        s == reload_server_param(Counted(t).s, t)
    IN  /\ IsIdle
        /\ Reportable(p)
        /\ r # 0
        /\ ~GiveUp(r, t)
        /\ \E q \in {x \in Pids : Reported(p)[x].st = "none"} :
             /\ proc' = [Reported(p) EXCEPT ![q] = Child(s[t].id)]
             /\ tab' = Overrun([Counted(t).b EXCEPT ![r].tot = @ + 1, ![r].pid = q], r, TUX_AVAIL)
        /\ svr' = MarkIfEmpty(SetStat(s, r, TUX_AVAIL), t)
        /\ restarts' = [restarts EXCEPT ![r] = @ + 1]
        /\ Strikes(r)
        /\ UNCHANGED <<cfg, op, crashes, cmds, exited>>

\* The Governor has ended: what zombies it had are no longer its own.
Orphaned(pr) == [p \in Pids |-> IF pr[p].st = "zombie" THEN NoProc ELSE pr[p]]
Ended == [Idle EXCEPT !.at = "failed"]

\* The same, and that write ends the Governor.
ReapFault(p) ==
    LET r == server_find_pid(p)
        t == tab[r].svrpos
        s == reload_server_param(Counted(t).s, t)
    IN  /\ IsIdle
        /\ Reportable(p)
        /\ r # 0
        /\ ~GiveUp(r, t) /\ Beyond(r)
        /\ \E q \in {x \in Pids : Reported(p)[x].st = "none"} :
             /\ proc' = Orphaned([Reported(p) EXCEPT ![q] = Child(s[t].id)])
             /\ tab' = [Counted(t).b EXCEPT ![r].tot = @ + 1, ![r].pid = q]
        /\ svr' = s /\ op' = Ended
        /\ restarts' = [restarts EXCEPT ![r] = @ + 1]
        /\ UNCHANGED <<cfg, crashes, cmds, exited, struck>>

\* The same with a failing fork: the pid row keeps the dead pid.
ReapForkFails(p) ==
    LET r == server_find_pid(p)
        t == tab[r].svrpos
        s == reload_server_param(Counted(t).s, t)
    IN  /\ ForkMayFail
        /\ IsIdle
        /\ Reportable(p)
        /\ r # 0
        /\ ~GiveUp(r, t)
        /\ proc' = Reported(p)
        /\ tab' = [Counted(t).b EXCEPT ![r].tot = @ + 1]
        /\ svr' = MarkIfEmpty(s, t)
        /\ UNCHANGED <<cfg, op, crashes, cmds, exited, restarts, struck>>

-----------------------------------------------------------------------------
(***************************************************************************)
(* Operator commands: the service routine Governor, and tmdown.            *)
(***************************************************************************)

Command == IsIdle /\ cmds < MaxCmds /\ cmds' = cmds + 1

\* TSK_CMD_START of a server in the table: one more worker, in pid row r; the state
\* of the *server* row r becomes TUX_IDLE, if there is one, before the fork.
Assigned(r, id, t) == [tab EXCEPT ![r] = [@ EXCEPT !.svrid = id, !.svrpos = t]]

StartMore(id) ==
    LET t == find_server_id(id)
        r == server_get_pidentry
        s == [svr EXCEPT ![t].type = SVR_PERM]
    IN  /\ Command
        /\ t # 0 /\ r # 0
        /\ \E p \in FreePids :
             /\ tab' = [Overrun(Assigned(r, id, t), r, TUX_IDLE) EXCEPT ![r].pid = p]
             /\ proc' = [proc EXCEPT ![p] = Child(id)]
        /\ svr' = [SetStat(s, r, TUX_IDLE) EXCEPT ![t].num = @ + 1]
        /\ exited' = exited \ {id}
        /\ Strikes(r)
        /\ UNCHANGED <<cfg, op, crashes, restarts>>

\* That write ends the Governor.
StartFault(id) ==
    LET t == find_server_id(id)
        r == server_get_pidentry
    IN  /\ Command
        /\ t # 0 /\ r # 0 /\ Beyond(r)
        /\ tab' = Assigned(r, id, t)
        /\ svr' = [svr EXCEPT ![t].type = SVR_PERM]
        /\ proc' = Orphaned(proc) /\ op' = Ended
        /\ exited' = exited \ {id}
        /\ UNCHANGED <<cfg, crashes, restarts, struck>>

StartMoreFails(id) ==
    LET t == find_server_id(id)
        r == server_get_pidentry
        s == [svr EXCEPT ![t].type = SVR_PERM]
    IN  /\ Command
        /\ t # 0
        /\ \/ /\ r = 0                                     \* SYS_LIMIT
              /\ svr' = s
              /\ UNCHANGED <<tab, restarts, struck>>
           \/ /\ r # 0 /\ ForkMayFail                      \* SYS_OS
              /\ svr' = SetStat(s, r, TUX_IDLE)
              /\ tab' = [Overrun(Assigned(r, id, t), r, TUX_IDLE) EXCEPT ![r] = ClearedTab]
              /\ restarts' = [restarts EXCEPT ![r] = 0]
              /\ Strikes(r)
        /\ exited' = exited \ {id}
        /\ UNCHANGED <<cfg, proc, op, crashes>>

\* START and FRESH of a server that is not in the table: a free row, then
\* run_one_task; SYS_LIMIT without one.
StartNew(id) ==
    /\ Command
    /\ find_server_id(id) = 0
    /\ op' = IF server_get_identry = 0 THEN op
             ELSE [Idle EXCEPT !.at = "one", !.row = server_get_identry,
                               !.line = 1, !.id = id]
    /\ exited' = exited \ {id}
    /\ UNCHANGED <<cfg, svr, tab, proc, crashes, restarts, struck>>

\* run_one_task: every line is registered in the row until the id is found.
OneLine ==
    /\ op.at = "one"
    /\ IF op.line > Len(cfg) \/ cfg[op.line].parse # "ok"
       THEN svr' = [svr EXCEPT ![op.row] = ClearedSvr] /\ op' = Idle
       ELSE LET s == register_server(svr, op.row, cfg[op.line]) IN
            IF s[op.row].id = op.id
            THEN server_run(s, op.row, "one")
            ELSE svr' = s /\ op' = [op EXCEPT !.line = @ + 1]
    /\ UNCHANGED <<cfg, tab, proc, crashes, cmds, exited, restarts, struck>>

\* TSK_CMD_EXIT (clean_task_msg empties the server's requests: module Bus).
CmdExit(id) ==
    LET t == find_server_id(id)
    IN  /\ Command
        /\ t # 0
        /\ svr' = [svr EXCEPT ![t].type = SVR_TEMP, ![t].state = TUX_DEAD]
        /\ server_kill(Matches(id))
        /\ exited' = exited \cup {id}
        /\ UNCHANGED <<cfg, op, crashes, struck>>

\* TSK_CMD_FRESH of a server in the table: kill, then run_task_id.
CmdFresh(id) ==
    LET t == find_server_id(id)
    IN  /\ Command
        /\ t # 0
        /\ svr' = [svr EXCEPT ![t].type = SVR_TEMP, ![t].state = TUX_DEAD]
        /\ server_kill(Matches(id))
        /\ op' = [Idle EXCEPT !.at = "fresh", !.row = t, !.line = 1]
        /\ exited' = exited \ {id}
        /\ UNCHANGED <<cfg, crashes, struck>>

\* run_task_id: every line with the row's executable is registered and run.
FreshLine ==
    /\ op.at = "fresh"
    /\ IF op.line > Len(cfg)
       THEN svr' = [svr EXCEPT ![op.row].state = TUX_IDLE] /\ op' = Idle
       ELSE IF cfg[op.line].name # svr[op.row].name
       THEN op' = [op EXCEPT !.line = @ + 1] /\ UNCHANGED svr
       ELSE IF cfg[op.line].parse # "ok"
       THEN svr' = [svr EXCEPT ![op.row] = ClearedSvr] /\ op' = Idle
       ELSE server_run(register_server(svr, op.row, cfg[op.line]), op.row, "fresh")
    /\ UNCHANGED <<cfg, tab, proc, crashes, cmds, exited, restarts, struck>>

\* tmdown: SIGTERM, exit_handler, unload_server.  The Governor exits, and
\* what zombies it had are no longer its own.
unload_server ==
    LET R == UNION {Matches(svr[t].id) : t \in SvrIx}
    IN  /\ IsIdle
        /\ proc' = [p \in Pids |-> IF proc[p].st = "zombie" THEN NoProc
                                   ELSE Terminated(R)[p]]
        /\ tab' = ClearedRows(R)
        /\ restarts' = ClearedHist(R)
        /\ svr' = [t \in SvrIx |-> IF svr[t].id # -1 THEN ClearedSvr ELSE svr[t]]
        /\ op' = [Idle EXCEPT !.at = "down"]
        /\ UNCHANGED <<cfg, crashes, cmds, exited, struck>>

\* An operator installs another version of the configuration file.
EditCfg ==
    /\ IsIdle
    /\ cmds < MaxCmds /\ cmds' = cmds + 1
    /\ \E c \in Cfgs : c # cfg /\ cfg' = c
    /\ UNCHANGED <<svr, tab, proc, op, crashes, exited, restarts, struck>>

-----------------------------------------------------------------------------

WorkerStep == \E p \in Pids : Crash(p) \/ Stop(p) \/ Continue(p) \/ TermExit(p)

Boot == LoadLine \/ LoadDone \/ LoadRow

RunStep == RunFork \/ RunForkFails \/ RunLimit \/ RunDone

Reap == \E p \in Pids : \/ ReapUnknown(p) \/ ReapGiveUp(p)
                        \/ ReapRestart(p) \/ ReapForkFails(p) \/ ReapFault(p)

Commands == \E id \in CmdIds : \/ StartMore(id) \/ StartMoreFails(id) \/ StartNew(id)
                               \/ StartFault(id) \/ CmdExit(id) \/ CmdFresh(id)

Next == WorkerStep \/ Boot \/ RunStep \/ Reap \/ Commands
        \/ OneLine \/ FreshLine \/ unload_server \/ EditCfg

Spec == Init /\ [][Next]_vars

\* Signals are delivered, forks return, and a worker obeys SIGTERM.
Fairness ==
    /\ WF_vars(Boot) /\ WF_vars(RunStep) /\ WF_vars(OneLine) /\ WF_vars(FreshLine)
    /\ WF_vars(Reap)
    /\ \A p \in Pids : WF_vars(TermExit(p))

FairSpec == Spec /\ Fairness
-----------------------------------------------------------------------------
(***************************************************************************)
(* Properties.                                                             *)
(***************************************************************************)

SvrRows == [id : Nat \cup {-1}, name : Names \cup {NoName}, num : Int, state : 0..4, type : 0..2]
TabRows == [pid : Pids \cup {NoPid}, svrid : Nat \cup {-1}, svrpos : 0..NS, tot : Nat]
Procs   == [st : {"none", "run", "term", "stop", "held", "stray", "zombie"},
            id : Nat \cup {-1}]
Ops     == [at : {"boot", "failed", "load", "run", "one", "fresh", "idle", "down"},
            row : Nat, line : Nat, id : Nat, i : Nat,
            for : {"none", "load", "one", "fresh"}]

\* The tables keep their types, whatever is written behind the server table, and a
\* pid row in use always names a server row: server_deatch indexes the server table
\* with it unchecked.
TypeOK ==
    /\ cfg \in Cfgs
    /\ svr \in [SvrIx -> SvrRows]
    /\ tab \in [PidIx -> TabRows]
    /\ proc \in [Pids -> Procs]
    /\ op \in Ops
    /\ crashes \in Nat /\ cmds \in Nat
    /\ exited \subseteq Nat
    /\ restarts \in [PidIx -> Nat]
    /\ struck \subseteq {"svrid", "tot"}
    /\ \A r \in PidIx : tab[r].pid # NoPid => tab[r].svrpos \in SvrIx
    /\ op.at \in {"run", "one", "fresh"} => op.row \in SvrIx
    /\ op.at \in {"boot", "load"} => op.row >= 1
    /\ op.at \in {"boot", "one", "fresh"} => op.line >= 1
    /\ op.at = "run" => op.for # "none"

\* The Governor never loses track of a worker: every worker that runs, was
\* not told to end and was never reported by waitpid is in a pid row, through
\* crashes, restarts, failing forks, full tables and configuration edits.
Tracked ==
    \A p \in Pids : proc[p].st = "run" => \E r \in PidIx : tab[r].pid = p

\* A worker that dies again and again is not restarted for ever: between two
\* clearings of its pid row at most MaxRestart + 1 times (server_deatch's
\* "> 50"), unless a state was written over a restart counter.
RestartBudget == "tot" \notin struck => \A r \in PidIx : restarts[r] <= MaxRestart + 1

\* tmexit stops the server it names: none of its workers runs on, and none is
\* restarted, until the next tmstart or tmfresh of that id; not even one
\* whose death is reported after the command; unless a state was written over the
\* svrid of a pid row.
ExitStops == "svrid" \notin struck =>
    \A id \in exited : \A p \in Pids : ~(proc[p].st \in Alive /\ proc[p].id = id)

\* tmdown stops the system: unload_server leaves no worker running, unless a state
\* was written over the svrid of a pid row.
DownStops == "svrid" \notin struck /\ op.at = "down" => \A p \in Pids : proc[p].st \notin Alive

\* Two rows of the server table never have one id; find_server_id finds only
\* the first.
IdsUnique ==
    IsIdle => \A r, t \in SvrIx : r # t /\ svr[r].id # -1 => svr[r].id # svr[t].id

\* A restart or a tmfresh never turns one server into another: a row in use
\* keeps its id, whatever reload_server_param and run_task_id register in it.
IdentityStable ==
    [][\A t \in SvrIx : op.at \in {"idle", "fresh"} /\ svr[t].id # -1 /\ svr'[t].id # -1
                         => svr'[t].id = svr[t].id]_vars

\* A command sends SIGTERM only to workers of the server it names, the one it
\* marks SVR_TEMP and TUX_DEAD, whatever pids the pid table holds, unless a state
\* was written over the svrid of a pid row.
KillsOwnWorkers ==
    [][op'.at # "down" /\ "svrid" \notin struck =>
         \A p \in Pids : proc[p].st \in Alive /\ proc'[p].st = "term" =>
            \E t \in SvrIx : /\ svr[t].id = proc[p].id
                             /\ svr'[t].type = SVR_TEMP /\ svr'[t].state = TUX_DEAD]_vars

\* Every worker of a server that was told to end is gone for good eventually,
\* and its zombie is waited for, unless the server is started again.
ExitCompletes ==
    \A id \in CmdIds :
        id \in exited ~> \/ id \notin exited
                         \/ \A p \in Pids : proc[p].id # id \/ proc[p].st = "none"

\* A worker that crashes is replaced or given up: no zombie stays.
ZombiesReaped ==
    \A p \in Pids : proc[p].st = "zombie" ~> proc[p].st # "zombie"

-----------------------------------------------------------------------------
(***************************************************************************)
(* What comments of the code and the documentation say.                    *)
(***************************************************************************)

Running(id) == {p \in Pids : proc[p].st \in Alive /\ proc[p].id = id}

\* tmstart.c:5: it starts a server.  A server with a running worker that was
\* not told to end accepts calls (tux_call refuses TUX_UNAVAIL and TUX_DEAD).
StartedAcceptsCalls ==
    IsIdle => \A t \in SvrIx :
        svr[t].id # -1 /\ svr[t].id \notin exited /\ Running(svr[t].id) # {}
        => svr[t].state \notin {TUX_UNAVAIL, TUX_DEAD}

=============================================================================
