--------------------------- MODULE GovernorProofs ---------------------------
(***************************************************************************)
(* Proofs about Governor: its type invariant, that it never loses track of *)
(* a running worker, and that restarts are bounded, for a server and a pid *)
(* table of any two sizes, any configuration and any number of crashes and *)
(* commands.  For orderly configuration files, as long as no server_run    *)
(* fails: that tmexit and tmdown stop the workers, that the ids of the     *)
(* server table are unique and stay with their rows, and, as long as no    *)
(* dead worker's pid stays in the pid table, that commands end only their  *)
(* own workers.  What a state written behind the server table can spoil is *)
(* in the properties: the restart counters, and the svrids of pid rows.    *)
(***************************************************************************)
EXTENDS Governor, WellFoundedInduction, TLAPS

-----------------------------------------------------------------------------
(***************************************************************************)
(* The lookups.                                                            *)
(***************************************************************************)

\* A set of rows has a first one.
LEMMA SmallestLeast ==
    ASSUME NEW S \in SUBSET (Nat \ {0}), S # {}
    PROVE  SmallestOf(S) \in S /\ \A y \in S : SmallestOf(S) <= y
<1>1. S \in SUBSET Nat
  OBVIOUS
<1> DEFINE Less == {ss \in Nat \X Nat : ss[1] < ss[2]}
<1>2. IsWellFoundedOn(Less, Nat)
  BY NatLessThanWellFounded, Zenon DEF OpToRel
<1>3. PICK n \in S : \A m \in S : ~ (<<m, n>> \in Less)
  <2> HIDE DEF Less
  <2> QED
    BY <1>1, <1>2, WFMin, Zenon
<1>4. ASSUME NEW m \in S PROVE n <= m
  <2>1. m \in Nat /\ n \in Nat
    BY <1>1
  <2>2. m < n => <<m, n>> \in Less
    BY <2>1
  <2> HIDE DEF Less
  <2>3. ~(m < n)
    BY <1>3, <2>2
  <2> QED
    BY <2>1, <2>3
<1> QED
  BY <1>4 DEF SmallestOf

\* The rows of both tables are numbered from 1.
LEMMA RowsNat ==
    /\ SvrIx \subseteq Nat \ {0} /\ SvrIx \subseteq 0..NS /\ 0 \in 0..NS
    /\ PidIx \subseteq Nat \ {0}
  BY SizeAssumption DEF SvrIx, PidIx

\* A table scan returns 0 or a member of the set of rows it looks for, and 0
\* only when there is none.
LEMMA FirstOrZeroIsRow ==
    ASSUME NEW S, S \subseteq SvrIx \/ S \subseteq PidIx
    PROVE  /\ FirstOrZero(S) # 0 => FirstOrZero(S) \in S
           /\ FirstOrZero(S) = 0 => S = {}
<1>1. CASE S = {}
  BY <1>1 DEF FirstOrZero
<1>2. CASE S # {}
  <2> DEFINE x == SmallestOf(S)
  <2>0. S \in SUBSET (Nat \ {0})
    BY RowsNat
  <2>1. x \in S
    BY <1>2, <2>0, SmallestLeast
  <2>2. FirstOrZero(S) = x
    BY <1>2 DEF FirstOrZero
  <2> HIDE DEF x
  <2>3. x # 0
    BY <2>0, <2>1
  <2> QED
    BY <2>1, <2>2, <2>3, Zenon
<1> QED
  BY <1>1, <1>2

\* A state written behind the server table never falls on the pid or the svrpos of
\* a pid row: both lie at multiples of 8, a state at 4 beyond one.
LEMMA HitFieldOdd ==
    ASSUME NEW i \in PidIx
    PROVE  HitField(i) # 0 /\ HitField(i) # 8
<1>1. i \in Int /\ NS \in Int
  BY SizeAssumption, RowsNat
<1>2. StateAt(i) \in Int /\ StateAt(i) = 232 * (i - (NS + 1)) + 204
  BY <1>1 DEF StateAt
<1>3. PICK a \in Int : StateAt(i) = 8 * a + 4
  <2>1. 29 * (i - (NS + 1)) + 25 \in Int
    BY <1>1
  <2>2. StateAt(i) = 8 * (29 * (i - (NS + 1)) + 25) + 4
    BY <1>1, <1>2
  <2> QED
    BY <2>1, <2>2
<1>4. ASSUME NEW f \in {0, 8}, StateAt(i) % 48 = f PROVE FALSE
  <2>1. PICK q \in Int : StateAt(i) = 48 * q + f
    BY <1>2, <1>4
  <2>2. 8 * (a - 6 * q) = f - 4
    BY <1>3, <2>1
  <2> QED
    BY <2>1, <2>2
<1> QED
  BY <1>4 DEF HitField

\* What such a write changes in the pid table: a svrid or a restart counter, and
\* that is noted.
Overwrites(b, c) ==
    /\ c \in [PidIx -> TabRows]
    /\ \A x \in PidIx : /\ c[x].pid = b[x].pid /\ c[x].svrpos = b[x].svrpos
                        /\ "svrid" \notin struck' => c[x].svrid = b[x].svrid
                        /\ "tot" \notin struck' => c[x].tot = b[x].tot

LEMMA OverrunKeeps ==
    ASSUME NEW b \in [PidIx -> TabRows], NEW i \in PidIx, NEW v \in Nat, Strikes(i)
    PROVE  Overwrites(b, Overrun(b, i, v))
<1>1. CASE ~Overruns(i)
  BY <1>1 DEF Overrun, Overwrites
<1>2. CASE Overruns(i)
  <2> DEFINE h == HitRow(i)
             f == HitField(i)
             w == Overwritten(b[h], f, v)
             c == Overrun(b, i, v)
  <2>1. h \in PidIx /\ f # 0 /\ f # 8
    BY <1>2, HitFieldOdd DEF Overruns
  <2>2. c = [b EXCEPT ![h] = w]
    BY <1>2 DEF Overrun
  <2>3. StrikesAt(f) \subseteq struck'
    BY <1>2 DEF Strikes
  <2>4. (f = 4 => "svrid" \in StrikesAt(f)) /\ (f = 20 => "tot" \in StrikesAt(f))
    BY DEF StrikesAt
  <2> HIDE DEF h, f
  <2>5. b[h] \in TabRows
    BY <2>1
  <2>6. /\ w \in TabRows /\ w.pid = b[h].pid /\ w.svrpos = b[h].svrpos
        /\ f # 4 => w.svrid = b[h].svrid
        /\ f # 20 => w.tot = b[h].tot
    BY <2>1, <2>5 DEF Overwritten, TabRows
  <2> HIDE DEF w
  <2> QED
    BY <2>1, <2>2, <2>3, <2>4, <2>6 DEF Overwrites
<1> QED
  BY <1>1, <1>2

\* The table of struck fields keeps its type.
LEMMA StrikesType ==
    ASSUME TypeOK, NEW i, Strikes(i)
    PROVE  struck' \subseteq {"svrid", "tot"} /\ struck \subseteq struck'
  BY DEF TypeOK, Strikes, StrikesAt

\* The state of a server row, if there is one.
LEMMA SetStatType ==
    ASSUME NEW s \in [SvrIx -> SvrRows], NEW i \in PidIx, NEW v \in 0..4
    PROVE  /\ SetStat(s, i, v) \in [SvrIx -> SvrRows]
           /\ \A k \in SvrIx : /\ SetStat(s, i, v)[k].id = s[k].id
                               /\ SetStat(s, i, v)[k].name = s[k].name
<1>1. CASE i > NS
  BY <1>1 DEF SetStat
<1>2. CASE ~(i > NS)
  <2>1. i \in SvrIx
    BY <1>2, RowsNat, SizeAssumption DEF SvrIx
  <2>2. SetStat(s, i, v) = [s EXCEPT ![i].state = v] /\ s[i] \in SvrRows
    BY <1>2, <2>1 DEF SetStat
  <2> QED
    BY <2>1, <2>2 DEF SvrRows
<1> QED
  BY <1>1, <1>2

\* A Governor that has ended leaves well-typed processes.
LEMMA OrphanedType ==
    ASSUME NEW pr \in [Pids -> Procs]
    PROVE  /\ Orphaned(pr) \in [Pids -> Procs]
           /\ Ended \in Ops /\ Ended.at = "failed"
  BY DEF Orphaned, Procs, NoProc, Ended, Idle, Ops

\* What a configuration line, and the rows made of it, may hold.
LEMMA LineType ==
    ASSUME cfg \in Cfgs, NEW i \in Nat, i >= 1, i <= Len(cfg)
    PROVE  cfg[i] \in Lines
  BY CfgAssumption

\* register_server keeps the server table well typed and touches no other row.
LEMMA RegisterType ==
    ASSUME NEW s \in [SvrIx -> SvrRows], NEW t \in SvrIx, NEW line \in Lines
    PROVE  register_server(s, t, line) \in [SvrIx -> SvrRows]
<1>1. s[t] \in SvrRows
  OBVIOUS
<1>2. Registered(s[t], line) \in SvrRows
  BY <1>1 DEF Registered, SvrRows, Lines, SVR_PERM
<1> QED
  BY <1>2 DEF register_server

\* reload_server_param keeps the server table well typed.
LEMMA ReloadType ==
    ASSUME cfg \in Cfgs, NEW s \in [SvrIx -> SvrRows], NEW t \in SvrIx
    PROVE  reload_server_param(s, t) \in [SvrIx -> SvrRows]
<1> DEFINE S == {k \in SvrIx : k <= Len(cfg) /\ s[k].id = s[t].id}
           i == FirstOrZero(S)
<1>1. i # 0 => i \in S
  <2>1. S \subseteq SvrIx
    OBVIOUS
  <2> HIDE DEF S
  <2> QED
    BY <2>1, FirstOrZeroIsRow
<1>2. CASE i = 0
  BY <1>2 DEF reload_server_param
<1>3. CASE i # 0
  <2>1. i \in Nat /\ i >= 1 /\ i <= Len(cfg)
    BY <1>1, <1>3, SizeAssumption DEF SvrIx, PidIx
  <2>2. cfg[i] \in Lines
    BY <2>1, LineType
  <2>3. register_server(s, t, cfg[i]) \in [SvrIx -> SvrRows]
    BY <2>2, RegisterType
  <2> QED
    BY <1>3, <2>3 DEF reload_server_param
<1> QED
  BY <1>2, <1>3

\* Marking the services of an empty server keeps the server table well typed.
LEMMA MarkType ==
    ASSUME NEW s \in [SvrIx -> SvrRows], NEW t \in SvrIx
    PROVE  MarkIfEmpty(s, t) \in [SvrIx -> SvrRows]
  BY DEF MarkIfEmpty, tux_deletesvc, SvrRows, TUX_UNAVAIL

\* What server_deatch's bookkeeping leaves in the tables.
LEMMA CountedType ==
    ASSUME TypeOK, NEW t \in SvrIx
    PROVE  /\ Counted(t).s \in [SvrIx -> SvrRows]
           /\ Counted(t).b \in [PidIx -> TabRows]
           /\ \A r \in PidIx : /\ Counted(t).b[r].pid = tab[r].pid
                               /\ Counted(t).b[r].svrid = tab[r].svrid
                               /\ Counted(t).b[r].svrpos = tab[r].svrpos
                               /\ Counted(t).b[r].tot >= tab[r].tot
<1>1. svr \in [SvrIx -> SvrRows] /\ tab \in [PidIx -> TabRows]
  BY DEF TypeOK
<1>2. svr[t].num - 1 \in Int
  BY <1>1 DEF SvrRows
<1>3. Counted(t).s \in [SvrIx -> SvrRows]
  BY <1>1, <1>2 DEF Counted, SvrRows
<1>4. CASE t \notin PidIx
  <2>1. Counted(t).b = tab
    BY <1>4 DEF Counted
  <2>2. \A r \in PidIx : tab[r].tot \in Nat
    BY <1>1 DEF TabRows
  <2> QED
    BY <1>1, <1>3, <2>1, <2>2
<1>5. CASE t \in PidIx
  <2>1. Counted(t).b = [tab EXCEPT ![t].tot = @ + 1]
    BY <1>5 DEF Counted
  <2>2. tab[t] \in TabRows /\ tab[t].tot + 1 \in Nat
    BY <1>1, <1>5 DEF TabRows
  <2>3. Counted(t).b \in [PidIx -> TabRows]
    BY <1>1, <1>5, <2>1, <2>2 DEF TabRows
  <2>4. ASSUME NEW r \in PidIx
        PROVE  /\ Counted(t).b[r].pid = tab[r].pid
               /\ Counted(t).b[r].svrid = tab[r].svrid
               /\ Counted(t).b[r].svrpos = tab[r].svrpos
               /\ Counted(t).b[r].tot >= tab[r].tot
    BY <1>1, <1>5, <2>1, <2>2 DEF TabRows
  <2> QED
    BY <1>3, <2>3, <2>4
<1> QED
  BY <1>4, <1>5

\* The row of a reported child, and its server row.
LEMMA FoundRow ==
    ASSUME TypeOK, NEW p \in Pids, server_find_pid(p) # 0
    PROVE  /\ server_find_pid(p) \in PidIx
           /\ tab[server_find_pid(p)].pid = p
           /\ tab[server_find_pid(p)].svrpos \in SvrIx
<1> DEFINE S == {r \in PidIx : tab[r].pid = p}
<1>1. server_find_pid(p) \in S
  BY FirstOrZeroIsRow DEF server_find_pid
<1> QED
  BY <1>1, PidAssumption DEF TypeOK

\* server_get_pidentry returns 0 or a free pid row.
LEMMA PidEntry ==
    ASSUME server_get_pidentry # 0
    PROVE  server_get_pidentry \in PidIx /\ tab[server_get_pidentry].pid = NoPid
<1> DEFINE S == {r \in PidIx : tab[r].pid = NoPid}
<1>1. server_get_pidentry \in S
  BY FirstOrZeroIsRow DEF server_get_pidentry
<1> QED
  BY <1>1

\* find_server_id returns 0 or a row of the server table.
LEMMA FindId ==
    ASSUME NEW id, find_server_id(id) # 0
    PROVE  find_server_id(id) \in SvrIx /\ svr[find_server_id(id)].id = id
<1> DEFINE S == {r \in SvrIx : svr[r].id = id}
<1>1. find_server_id(id) \in S
  BY FirstOrZeroIsRow DEF find_server_id
<1> QED
  BY <1>1

\* server_get_identry returns 0 or a free server row.
LEMMA IdEntry ==
    ASSUME server_get_identry # 0
    PROVE  server_get_identry \in SvrIx
<1> DEFINE S == {r \in SvrIx : svr[r].id = -1}
<1>1. server_get_identry \in S
  BY FirstOrZeroIsRow DEF server_get_identry
<1> QED
  BY <1>1

-----------------------------------------------------------------------------
(***************************************************************************)
(* Type correctness: one step per action.                                  *)
(***************************************************************************)

\* sbSvrTabClear leaves a well-typed row.
LEMMA ClearedSvrType == ClearedSvr \in SvrRows
  BY DEF ClearedSvr, SvrRows

\* sys_start leaves well-typed tables.
LEMMA InitType == Init => TypeOK
<1> SUFFICES ASSUME Init PROVE TypeOK
  OBVIOUS
<1>1. svr \in [SvrIx -> SvrRows]
  BY ClearedSvrType DEF Init
<1>2. tab \in [PidIx -> TabRows] /\ \A r \in PidIx : tab[r].pid = NoPid
  BY SizeAssumption DEF Init, ClearedTab, TabRows
<1>3. proc \in [Pids -> Procs]
  BY DEF Init, NoProc, Procs
<1>4. op \in Ops /\ op.at = "boot" /\ op.row = 1 /\ op.line = 1
  BY DEF Init, Idle, Ops
<1> QED
  BY <1>1, <1>2, <1>3, <1>4 DEF Init, TypeOK

\* server_kill and the clearing of rows.
LEMMA KillType ==
    ASSUME TypeOK, NEW R \in SUBSET PidIx
    PROVE  /\ Terminated(R) \in [Pids -> Procs]
           /\ ClearedRows(R) \in [PidIx -> TabRows]
           /\ ClearedHist(R) \in [PidIx -> Nat]
           /\ \A r \in PidIx : ClearedRows(R)[r].pid # NoPid => ClearedRows(R)[r].svrpos \in SvrIx
<1>1. Terminated(R) \in [Pids -> Procs]
  BY DEF TypeOK, Terminated, Procs
<1>2. ClearedTab \in TabRows /\ ClearedTab.pid = NoPid
  BY SizeAssumption DEF ClearedTab, TabRows
<1> QED
  BY <1>1, <1>2 DEF TypeOK, ClearedRows, ClearedHist

\* The steps of the workers.
LEMMA WorkerType == TypeOK /\ WorkerStep => TypeOK'
<1> SUFFICES ASSUME TypeOK, NEW p \in Pids,
                    Crash(p) \/ Stop(p) \/ Continue(p) \/ TermExit(p)
             PROVE  TypeOK'
  BY DEF WorkerStep
<1>1. proc' \in [Pids -> Procs]
  BY DEF TypeOK, Crash, Stop, Continue, TermExit, Gone, NoProc, Procs
<1>2. crashes' \in Nat
  BY DEF TypeOK, Crash, Stop, Continue, TermExit
<1> QED
  BY <1>1, <1>2 DEF TypeOK, Crash, Stop, Continue, TermExit

\* server_run's entry and return.
LEMMA EnterRunType ==
    ASSUME TypeOK, NEW s \in [SvrIx -> SvrRows], NEW t \in SvrIx,
           NEW c \in {"load", "one", "fresh"}, server_run(s, t, c)
    PROVE  /\ svr' \in [SvrIx -> SvrRows]
           /\ op' \in Ops /\ op'.at = "run" /\ op'.row \in SvrIx /\ op'.for # "none"
<1>1. svr' \in [SvrIx -> SvrRows]
  BY DEF server_run, SvrRows, SVR_PERM
<1>2. op \in Ops /\ t \in Nat
  BY SizeAssumption DEF TypeOK, SvrIx, PidIx
<1>3. op' \in Ops /\ op'.at = "run" /\ op'.row \in SvrIx /\ op'.for # "none"
  BY <1>2 DEF server_run, Ops
<1> QED
  BY <1>1, <1>3

\* The callers of server_run leave the server table and op well typed.
LEMMA ReturnType ==
    ASSUME TypeOK, op.at = "run", NEW ok \in BOOLEAN, Returned(ok)
    PROVE  /\ svr' \in [SvrIx -> SvrRows]
           /\ op' \in Ops
           /\ op'.at \in {"idle", "load", "fresh"}
           /\ op'.at = "load" => op'.row >= 1
           /\ op'.at = "fresh" => op'.row \in SvrIx /\ op'.line >= 1
<1> USE DEF Returned
<1>1. op \in Ops /\ op.for \in {"load", "one", "fresh"} /\ op.row \in SvrIx /\ svr \in [SvrIx -> SvrRows]
  BY DEF TypeOK, Ops
<1>2. CASE op.for = "load"
  <2>1. op' = [op EXCEPT !.at = "load", !.row = @ + 1] /\ svr' = svr
    BY <1>1, <1>2
  <2>2. op.row \in Nat /\ op.row >= 1 /\ op.row + 1 \in Nat
    BY <1>1, SizeAssumption DEF SvrIx, PidIx
  <2>3. op' \in Ops /\ op'.at = "load" /\ op'.row = op.row + 1
    BY <1>1, <2>1, <2>2 DEF Ops
  <2> QED
    BY <1>1, <2>1, <2>2, <2>3
<1>3. CASE op.for # "load" /\ ~ok
  <2>1. op' = Idle /\ svr' = [svr EXCEPT ![op.row] = ClearedSvr]
    BY <1>1, <1>3
  <2> QED
    BY <1>1, <2>1, ClearedSvrType DEF Ops, Idle
<1>4. CASE op.for = "fresh" /\ ok
  <2>1. op' = [op EXCEPT !.at = "fresh", !.line = @ + 1] /\ svr' = svr
    BY <1>1, <1>4
  <2>2. op.line \in Nat /\ op.line + 1 \in Nat /\ op.line + 1 >= 1
    BY <1>1 DEF Ops
  <2>3. /\ op' \in Ops /\ op'.at = "fresh"
        /\ op'.row = op.row /\ op'.line = op.line + 1
    BY <1>1, <2>1, <2>2 DEF Ops
  <2> QED
    BY <1>1, <2>1, <2>2, <2>3
<1>5. CASE op.for = "one" /\ ok
  <2>1. op' = Idle /\ svr' = svr
    BY <1>1, <1>5
  <2> QED
    BY <1>1, <2>1 DEF Ops, Idle
<1> QED
  BY <1>1, <1>2, <1>3, <1>4, <1>5

\* Start-up.
LEMMA BootType == TypeOK /\ Boot => TypeOK'
<1> SUFFICES ASSUME TypeOK, Boot PROVE TypeOK'
  OBVIOUS
<1>0. op \in Ops /\ svr \in [SvrIx -> SvrRows]
  BY DEF TypeOK
<1>1. CASE LoadLine
  <2>1. op.row \in SvrIx /\ op.line \in Nat /\ op.line >= 1 /\ op.line <= Len(cfg)
    BY <1>1, <1>0, SizeAssumption DEF LoadLine, TypeOK, Ops, SvrIx, PidIx
  <2>2. cfg[op.line] \in Lines
    BY <2>1, LineType DEF TypeOK
  <2>3. svr' \in [SvrIx -> SvrRows]
    BY <1>0, <1>1, <2>1, <2>2, RegisterType DEF LoadLine
  <2>4. /\ op.row + 1 \in Nat /\ op.line + 1 \in Nat /\ op.row >= 1
        /\ op.row + 1 >= 1 /\ op.line + 1 >= 1
    BY <2>1, SizeAssumption DEF SvrIx, PidIx
  <2>5. \/ op' = [op EXCEPT !.row = @ + 1, !.line = @ + 1]
        \/ op' = [op EXCEPT !.line = @ + 1]
        \/ op' = [op EXCEPT !.at = "failed"]
    BY <1>1, <2>2 DEF LoadLine, Lines
  <2>6. /\ op' \in Ops /\ op'.at \in {"boot", "failed"}
        /\ op'.row >= 1 /\ op'.line >= 1
    <3>1. op.at = "boot"
      BY <1>1 DEF LoadLine
    <3>2. CASE op' = [op EXCEPT !.row = @ + 1, !.line = @ + 1]
      <4>1. op'.at = op.at /\ op'.row = op.row + 1 /\ op'.line = op.line + 1
        BY <1>0, <3>2 DEF Ops
      <4>2. op' \in Ops
        BY <1>0, <2>4, <3>2 DEF Ops
      <4> QED
        BY <2>4, <3>1, <4>1, <4>2
    <3>3. CASE op' = [op EXCEPT !.line = @ + 1]
      BY <1>0, <2>1, <2>4, <3>1, <3>3 DEF Ops
    <3>4. CASE op' = [op EXCEPT !.at = "failed"]
      BY <1>0, <2>1, <2>4, <3>1, <3>4 DEF Ops
    <3> QED
      BY <2>5, <3>2, <3>3, <3>4
  <2> QED
    BY <1>1, <2>3, <2>6 DEF TypeOK, LoadLine
<1>2. CASE LoadDone
  <2>1. op' \in Ops /\ op'.at = "load" /\ op'.row = 1
    BY <1>2 DEF LoadDone, Idle, Ops
  <2> QED
    BY <1>2, <2>1 DEF TypeOK, LoadDone
<1>3. CASE LoadRow
  <2>1. CASE op.row > NS
    <3>1. op' = Idle /\ svr' = svr
      BY <1>3, <2>1 DEF LoadRow
    <3>2. op' \in Ops /\ op'.at = "idle"
      BY <3>1 DEF Idle, Ops
    <3> QED
      BY <1>3, <3>1, <3>2 DEF TypeOK, LoadRow
  <2>2. CASE ~(op.row > NS)
    <3>1. op.row \in SvrIx /\ op.row >= 1 /\ op.row + 1 \in Nat
      BY <1>0, <1>3, <2>2, SizeAssumption DEF LoadRow, TypeOK, Ops, SvrIx, PidIx
    <3>2. CASE svr[op.row].id = -1
      <4>1. op' = [op EXCEPT !.row = @ + 1] /\ svr' = svr
        BY <1>3, <2>2, <3>2 DEF LoadRow
      <4>2. op' \in Ops /\ op'.at = "load" /\ op'.row = op.row + 1
        BY <1>0, <1>3, <3>1, <4>1 DEF LoadRow, Ops
      <4> QED
        BY <1>3, <3>1, <4>1, <4>2 DEF TypeOK, LoadRow, SvrIx, PidIx
    <3>3. CASE svr[op.row].id # -1
      <4>1. server_run(svr, op.row, "load")
        BY <1>3, <2>2, <3>3 DEF LoadRow
      <4>2. /\ svr' \in [SvrIx -> SvrRows]
            /\ op' \in Ops /\ op'.at = "run" /\ op'.row \in SvrIx /\ op'.for # "none"
        BY <1>0, <3>1, <4>1, EnterRunType
      <4> QED
        BY <1>3, <4>2 DEF TypeOK, LoadRow
    <3> QED
      BY <3>2, <3>3
  <2> QED
    BY <2>1, <2>2
<1> QED
  BY <1>1, <1>2, <1>3 DEF Boot

\* server_run.
LEMMA RunType == TypeOK /\ RunStep => TypeOK'
<1> SUFFICES ASSUME TypeOK, RunStep PROVE TypeOK'
  OBVIOUS
<1>0. /\ op \in Ops /\ svr \in [SvrIx -> SvrRows] /\ tab \in [PidIx -> TabRows]
      /\ proc \in [Pids -> Procs] /\ restarts \in [PidIx -> Nat]
      /\ \A r \in PidIx : tab[r].pid # NoPid => tab[r].svrpos \in SvrIx
  BY DEF TypeOK
<1>1. CASE RunFork
  <2> DEFINE e == server_get_pidentry
  <2>1. e \in PidIx
    BY <1>1, PidEntry DEF RunFork
  <2>2. op.row \in SvrIx /\ op.row \in 0..NS /\ op.i + 1 \in Nat
    BY <1>0, <1>1, SizeAssumption DEF RunFork, TypeOK, Ops, SvrIx, PidIx
  <2>3. PICK p \in Pids :
          /\ tab' = [tab EXCEPT ![e] = [@ EXCEPT !.pid = p, !.svrid = svr[op.row].id,
                                                 !.svrpos = op.row]]
          /\ proc' = [proc EXCEPT ![p] = Child(svr[op.row].id)]
    BY <1>1, Zenon DEF RunFork, FreePids
  <2> HIDE DEF e
  <2>4. svr[op.row] \in SvrRows
    BY <1>0, <2>2
  <2>5. svr' \in [SvrIx -> SvrRows]
    BY <1>0, <1>1, <2>2, <2>4, SMTT(30) DEF RunFork, SvrRows, TUX_IDLE
  <2>6. op' \in Ops /\ op'.at = "run" /\ op'.row = op.row /\ op'.for = op.for
    BY <1>0, <1>1, <2>2 DEF RunFork, Ops
  <2>7. proc' \in [Pids -> Procs]
    BY <1>0, <2>3, <2>4 DEF Child, Procs, SvrRows
  <2>8. tab' \in [PidIx -> TabRows]
    BY <1>0, <2>1, <2>2, <2>3, <2>4, ZenonT(60) DEF TabRows, SvrRows
  <2> QED
    BY <1>0, <1>1, <2>1, <2>2, <2>3, <2>5, <2>6, <2>7, <2>8 DEF TypeOK, RunFork
<1>2. CASE RunForkFails
  <2> DEFINE e == server_get_pidentry
  <2>1. e \in PidIx
    BY <1>2, PidEntry DEF RunForkFails
  <2>2. /\ svr' \in [SvrIx -> SvrRows]
        /\ op' \in Ops
        /\ op'.at \in {"idle", "load", "fresh"}
        /\ op'.at = "load" => op'.row >= 1
        /\ op'.at = "fresh" => op'.row \in SvrIx /\ op'.line >= 1
    BY <1>2, ReturnType DEF RunForkFails
  <2>3. ClearedTab \in TabRows /\ ClearedTab.pid = NoPid
    BY SizeAssumption DEF ClearedTab, TabRows
  <2>4. /\ tab' \in [PidIx -> TabRows] /\ restarts' \in [PidIx -> Nat]
        /\ \A r \in PidIx : tab'[r].pid # NoPid => tab'[r].svrpos \in SvrIx
    BY <1>0, <1>2, <2>1, <2>3 DEF RunForkFails
  <2> QED
    BY <1>2, <2>2, <2>4 DEF TypeOK, RunForkFails
<1>3. ASSUME RunLimit \/ RunDone PROVE TypeOK'
  <2>1. /\ svr' \in [SvrIx -> SvrRows]
        /\ op' \in Ops
        /\ op'.at \in {"idle", "load", "fresh"}
        /\ op'.at = "load" => op'.row >= 1
        /\ op'.at = "fresh" => op'.row \in SvrIx /\ op'.line >= 1
    BY <1>3, ReturnType DEF RunLimit, RunDone
  <2> QED
    BY <1>3, <2>1 DEF TypeOK, RunLimit, RunDone
<1> QED
  BY <1>1, <1>2, <1>3 DEF RunStep

\* The pid rows other than r keep what they name, but for a state written over a
\* svrid or a restart counter.
OthersKept(r) ==
    \A x \in PidIx \ {r} : /\ tab'[x].pid = tab[x].pid /\ tab'[x].svrpos = tab[x].svrpos
                           /\ "svrid" \notin struck' => tab'[x].svrid = tab[x].svrid

\* A restart puts the new pid into the row of the old one.
Restarted(r, t, q) ==
    /\ tab' \in [PidIx -> TabRows]
    /\ OthersKept(r)
    /\ tab'[r].pid = q /\ tab'[r].svrpos = tab[r].svrpos
    /\ "svrid" \notin struck' => tab'[r].svrid = tab[r].svrid
    /\ "tot" \notin struck' =>
         \A x \in PidIx : tab'[x].tot = Counted(t).b[x].tot + (IF x = r THEN 1 ELSE 0)

LEMMA RestartRow ==
    ASSUME TypeOK, NEW r \in PidIx, NEW t \in SvrIx, NEW q \in Pids,
           LET b == [Counted(t).b EXCEPT ![r].tot = @ + 1, ![r].pid = q]
           IN  tab' = b \/ (Strikes(r) /\ tab' = Overrun(b, r, TUX_AVAIL))
    PROVE  Restarted(r, t, q)
<1> DEFINE c == Counted(t).b
           b == [c EXCEPT ![r].tot = @ + 1, ![r].pid = q]
<1>0. tab' = b \/ (Strikes(r) /\ tab' = Overrun(b, r, TUX_AVAIL))
  OBVIOUS
<1>1. /\ c \in [PidIx -> TabRows]
      /\ \A x \in PidIx : /\ c[x].pid = tab[x].pid /\ c[x].svrid = tab[x].svrid
                          /\ c[x].svrpos = tab[x].svrpos
  BY CountedType
<1> HIDE DEF c
<1>2. c[r] \in TabRows /\ c[r].tot + 1 \in Nat
  BY <1>1 DEF TabRows
<1>3. b \in [PidIx -> TabRows]
  BY <1>1, <1>2 DEF TabRows
<1>4. /\ \A x \in PidIx \ {r} : b[x] = c[x]
      /\ b[r].pid = q /\ b[r].svrid = c[r].svrid /\ b[r].svrpos = c[r].svrpos
      /\ b[r].tot = c[r].tot + 1
  BY <1>1, <1>2 DEF TabRows
<1>5. Overwrites(b, tab')
  <2> HIDE DEF b
  <2>1. CASE tab' = b
    BY <1>3, <2>1 DEF Overwrites
  <2>2. CASE Strikes(r) /\ tab' = Overrun(b, r, TUX_AVAIL)
    <3>1. TUX_AVAIL \in Nat
      BY DEF TUX_AVAIL
    <3> QED
      BY <1>3, <2>2, <3>1, OverrunKeeps
  <2> QED
    BY <1>0, <2>1, <2>2
<1> HIDE DEF b
<1>6. \A x \in PidIx : c[x].tot \in Nat
  BY <1>1 DEF TabRows
<1>7. "tot" \notin struck' =>
         \A x \in PidIx : tab'[x].tot = c[x].tot + (IF x = r THEN 1 ELSE 0)
  BY <1>4, <1>5, <1>6 DEF Overwrites
<1>8. /\ OthersKept(r) /\ tab'[r].pid = q /\ tab'[r].svrpos = tab[r].svrpos
      /\ "svrid" \notin struck' => tab'[r].svrid = tab[r].svrid
      /\ tab' \in [PidIx -> TabRows]
  BY <1>1, <1>4, <1>5 DEF Overwrites, OthersKept
<1> QED
  BY <1>7, <1>8 DEF Restarted, c

\* tmstart puts a new worker, or none, into a free row.
Started(r, id, t, q) ==
    /\ tab' \in [PidIx -> TabRows]
    /\ OthersKept(r)
    /\ tab'[r].pid = q /\ tab'[r].svrpos = t
    /\ "svrid" \notin struck' => tab'[r].svrid = id
    /\ "tot" \notin struck' => \A x \in PidIx : tab'[x].tot = tab[x].tot

LEMMA StartRow ==
    ASSUME TypeOK, NEW r \in PidIx, NEW t \in SvrIx, NEW id \in Nat, NEW q \in Pids \cup {NoPid},
           \/ tab' = Assigned(r, id, t) /\ tab[r].pid = q
           \/ Strikes(r) /\ tab' = [Overrun(Assigned(r, id, t), r, TUX_IDLE) EXCEPT ![r].pid = q]
    PROVE  Started(r, id, t, q)
<1> DEFINE b == Assigned(r, id, t)
           o == Overrun(b, r, TUX_IDLE)
<1>1. tab \in [PidIx -> TabRows] /\ tab[r] \in TabRows /\ t \in 0..NS
  BY RowsNat DEF TypeOK
<1>2. b \in [PidIx -> TabRows]
  BY <1>1 DEF Assigned, TabRows
<1>3. /\ \A x \in PidIx \ {r} : b[x] = tab[x]
      /\ b[r].pid = tab[r].pid /\ b[r].svrid = id /\ b[r].svrpos = t /\ b[r].tot = tab[r].tot
  BY <1>1 DEF Assigned, TabRows
<1>4. CASE tab' = b /\ tab[r].pid = q
  <2> HIDE DEF b
  <2> QED
    BY <1>2, <1>3, <1>4 DEF Started, OthersKept
<1>5. CASE Strikes(r) /\ tab' = [o EXCEPT ![r].pid = q]
  <2>1. TUX_IDLE \in Nat
    BY DEF TUX_IDLE
  <2> HIDE DEF b
  <2>2. Overwrites(b, o)
    BY <1>2, <1>5, <2>1, OverrunKeeps
  <2> HIDE DEF o
  <2>3. o \in [PidIx -> TabRows] /\ o[r] \in TabRows
    BY <2>2 DEF Overwrites
  <2>4. /\ tab' \in [PidIx -> TabRows]
        /\ \A x \in PidIx \ {r} : tab'[x] = o[x]
        /\ tab'[r].pid = q /\ tab'[r].svrid = o[r].svrid /\ tab'[r].svrpos = o[r].svrpos
        /\ tab'[r].tot = o[r].tot
    BY <1>5, <2>3 DEF TabRows
  <2>5. \A x \in PidIx : tab'[x].tot = o[x].tot
    BY <2>4
  <2> QED
    BY <1>3, <2>2, <2>4, <2>5 DEF Overwrites, Started, OthersKept
<1> QED
  BY <1>4, <1>5

\* A fork that fails clears the row again.
LEMMA StartCleared ==
    ASSUME TypeOK, NEW r \in PidIx, NEW t \in SvrIx, NEW id \in Nat, Strikes(r),
           tab' = [Overrun(Assigned(r, id, t), r, TUX_IDLE) EXCEPT ![r] = ClearedTab]
    PROVE  /\ tab' \in [PidIx -> TabRows]
           /\ OthersKept(r)
           /\ tab'[r] = ClearedTab
           /\ "tot" \notin struck' => \A x \in PidIx \ {r} : tab'[x].tot = tab[x].tot
<1> DEFINE b == Assigned(r, id, t)
           o == Overrun(b, r, TUX_IDLE)
<1>1. tab \in [PidIx -> TabRows] /\ tab[r] \in TabRows /\ t \in 0..NS
  BY RowsNat DEF TypeOK
<1>2. b \in [PidIx -> TabRows] /\ \A x \in PidIx \ {r} : b[x] = tab[x]
  BY <1>1 DEF Assigned, TabRows
<1>3. TUX_IDLE \in Nat
  BY DEF TUX_IDLE
<1> HIDE DEF b
<1>4. Overwrites(b, o)
  BY <1>2, <1>3, OverrunKeeps
<1>5. tab' = [o EXCEPT ![r] = ClearedTab]
  BY DEF b
<1> HIDE DEF o
<1>6. ClearedTab \in TabRows
  BY SizeAssumption DEF ClearedTab, TabRows
<1> QED
  BY <1>2, <1>4, <1>5, <1>6 DEF Overwrites, OthersKept

\* The SIGCLD handler.
LEMMA ReportedType ==
    ASSUME TypeOK, NEW p \in Pids
    PROVE  Reported(p) \in [Pids -> Procs]
  BY DEF TypeOK, Reported, NoProc, Procs

\* One turn of server_deatch keeps the types.
LEMMA ReapType == TypeOK /\ Reap => TypeOK'
<1> SUFFICES ASSUME TypeOK, NEW p \in Pids,
                    ReapUnknown(p) \/ ReapGiveUp(p) \/ ReapRestart(p) \/ ReapForkFails(p)
                      \/ ReapFault(p)
             PROVE  TypeOK'
  BY DEF Reap
<1>0. /\ svr \in [SvrIx -> SvrRows] /\ tab \in [PidIx -> TabRows]
      /\ \A r \in PidIx : tab[r].pid # NoPid => tab[r].svrpos \in SvrIx
      /\ cfg \in Cfgs /\ restarts \in [PidIx -> Nat]
  BY DEF TypeOK
<1>1. CASE ReapUnknown(p)
  BY <1>1, ReportedType DEF TypeOK, ReapUnknown
<1> DEFINE r == server_find_pid(p)
           t == tab[r].svrpos
           s == reload_server_param(Counted(t).s, t)
<1>2. CASE ReapGiveUp(p)
  <2>1. r \in PidIx /\ t \in SvrIx
    BY <1>2, FoundRow DEF ReapGiveUp
  <2> HIDE DEF r, t
  <2>2. /\ Counted(t).s \in [SvrIx -> SvrRows] /\ Counted(t).b \in [PidIx -> TabRows]
        /\ \A x \in PidIx : Counted(t).b[x].pid = tab[x].pid /\ Counted(t).b[x].svrpos = tab[x].svrpos
    BY <2>1, CountedType
  <2>3. [Counted(t).s EXCEPT ![t].type = SVR_TEMP] \in [SvrIx -> SvrRows]
    BY <2>1, <2>2 DEF SvrRows, SVR_TEMP
  <2>4. svr' \in [SvrIx -> SvrRows]
    BY <1>2, <2>1, <2>3, MarkType DEF ReapGiveUp, r, t
  <2>5. tab' = Counted(t).b
    BY <1>2 DEF ReapGiveUp, r, t
  <2>6. \A x \in PidIx : tab'[x].pid # NoPid => tab'[x].svrpos \in SvrIx
    BY <1>0, <2>2, <2>5
  <2> QED
    BY <1>2, <2>2, <2>4, <2>5, <2>6, ReportedType DEF TypeOK, ReapGiveUp
<1>3. CASE ReapRestart(p)
  <2>0. server_find_pid(p) # 0
    BY <1>3, Zenon DEF ReapRestart
  <2>1. r \in PidIx /\ t \in SvrIx
    BY <2>0, FoundRow
  <2>2. PICK q \in Pids :
             /\ proc' = [Reported(p) EXCEPT ![q] = Child(s[t].id)]
             /\ tab' = Overrun([Counted(t).b EXCEPT ![r].tot = @ + 1, ![r].pid = q], r, TUX_AVAIL)
    BY <1>3, Zenon DEF ReapRestart
  <2>a. /\ svr' = MarkIfEmpty(SetStat(s, r, TUX_AVAIL), t) /\ Strikes(r)
        /\ restarts' = [restarts EXCEPT ![r] = @ + 1]
    BY <1>3, Zenon DEF ReapRestart
  <2>x. tab[r].svrpos \in SvrIx
    BY <2>1
  <2> HIDE DEF r, t
  <2>3. Counted(t).s \in [SvrIx -> SvrRows]
    BY <2>1, CountedType
  <2>4. s \in [SvrIx -> SvrRows]
    BY <1>0, <2>1, <2>3, ReloadType
  <2> HIDE DEF s
  <2>b. TUX_AVAIL \in 0..4
    BY DEF TUX_AVAIL
  <2>5. s[t] \in SvrRows /\ SetStat(s, r, TUX_AVAIL) \in [SvrIx -> SvrRows]
    BY <2>1, <2>4, <2>b, SetStatType
  <2>6. svr' \in [SvrIx -> SvrRows]
    BY <2>1, <2>5, <2>a, MarkType
  <2>7. proc' \in [Pids -> Procs]
    BY <2>2, <2>5, ReportedType DEF Child, Procs, SvrRows
  <2>8. Restarted(r, t, q)
    BY <2>1, <2>2, <2>a, RestartRow
  <2>9. \A x \in PidIx : tab'[x].pid # NoPid => tab'[x].svrpos \in SvrIx
    BY <1>0, <2>8, <2>x DEF Restarted, OthersKept
  <2>10. restarts' \in [PidIx -> Nat]
    BY <1>0, <2>1, <2>a
  <2>11. tab' \in [PidIx -> TabRows] /\ struck' \subseteq {"svrid", "tot"}
    BY <2>8, <2>a, StrikesType DEF Restarted
  <2>12. cfg' = cfg /\ op' = op /\ crashes' = crashes /\ cmds' = cmds /\ exited' = exited
    BY <1>3, Zenon DEF ReapRestart
  <2> QED
    BY <2>6, <2>7, <2>9, <2>10, <2>11, <2>12 DEF TypeOK
<1>5. CASE ReapFault(p)
  <2>0. server_find_pid(p) # 0
    BY <1>5, Zenon DEF ReapFault
  <2>1. r \in PidIx /\ t \in SvrIx
    BY <2>0, FoundRow
  <2>2. PICK q \in Pids :
             /\ proc' = Orphaned([Reported(p) EXCEPT ![q] = Child(s[t].id)])
             /\ tab' = [Counted(t).b EXCEPT ![r].tot = @ + 1, ![r].pid = q]
    BY <1>5, Zenon DEF ReapFault
  <2>a. svr' = s /\ restarts' = [restarts EXCEPT ![r] = @ + 1]
    BY <1>5, Zenon DEF ReapFault
  <2>x. tab[r].svrpos \in SvrIx
    BY <2>1
  <2> HIDE DEF r, t
  <2>3. Counted(t).s \in [SvrIx -> SvrRows]
    BY <2>1, CountedType
  <2>4. s \in [SvrIx -> SvrRows]
    BY <1>0, <2>1, <2>3, ReloadType
  <2> HIDE DEF s
  <2>6. s[t] \in SvrRows
    BY <2>1, <2>4
  <2>7. [Reported(p) EXCEPT ![q] = Child(s[t].id)] \in [Pids -> Procs]
    BY <2>6, ReportedType DEF Child, Procs, SvrRows
  <2>8. Restarted(r, t, q)
    BY <2>1, <2>2, RestartRow
  <2>9. \A x \in PidIx : tab'[x].pid # NoPid => tab'[x].svrpos \in SvrIx
    BY <1>0, <2>8, <2>x DEF Restarted, OthersKept
  <2>10. restarts' \in [PidIx -> Nat]
    BY <1>0, <2>1, <2>a
  <2>11. tab' \in [PidIx -> TabRows]
    BY <2>8 DEF Restarted
  <2>12. /\ cfg' = cfg /\ op' = Ended /\ crashes' = crashes /\ cmds' = cmds
         /\ exited' = exited /\ struck' = struck
    BY <1>5, Zenon DEF ReapFault
  <2>13. proc' \in [Pids -> Procs] /\ op' \in Ops /\ op'.at = "failed"
    BY <2>2, <2>7, <2>12, OrphanedType
  <2> QED
    BY <2>4, <2>a, <2>9, <2>10, <2>11, <2>12, <2>13 DEF TypeOK
<1>4. CASE ReapForkFails(p)
  <2>1. r \in PidIx /\ t \in SvrIx
    BY <1>4, FoundRow DEF ReapForkFails
  <2>2. /\ tab' = [Counted(t).b EXCEPT ![r].tot = @ + 1]
        /\ svr' = MarkIfEmpty(s, t)
    BY <1>4 DEF ReapForkFails
  <2> HIDE DEF r, t
  <2>3. /\ Counted(t).s \in [SvrIx -> SvrRows] /\ Counted(t).b \in [PidIx -> TabRows]
        /\ \A x \in PidIx : Counted(t).b[x].pid = tab[x].pid /\ Counted(t).b[x].svrpos = tab[x].svrpos
    BY <2>1, CountedType
  <2>4. s \in [SvrIx -> SvrRows]
    BY <1>0, <2>1, <2>3, ReloadType
  <2> HIDE DEF s
  <2>5. svr' \in [SvrIx -> SvrRows]
    BY <2>1, <2>2, <2>4, MarkType
  <2>6. tab' \in [PidIx -> TabRows]
    BY <2>1, <2>2, <2>3 DEF TabRows
  <2>7. \A x \in PidIx : tab'[x].pid # NoPid => tab'[x].svrpos \in SvrIx
    BY <1>0, <2>1, <2>2, <2>3 DEF TabRows
  <2> QED
    BY <1>4, <2>5, <2>6, <2>7, ReportedType DEF TypeOK, ReapForkFails
<1> QED
  BY <1>1, <1>2, <1>3, <1>4, <1>5

\* What EXIT and FRESH do to the server's row.
LEMMA StoppedType ==
    ASSUME NEW s \in [SvrIx -> SvrRows], NEW t \in SvrIx
    PROVE  [s EXCEPT ![t].type = SVR_TEMP, ![t].state = TUX_DEAD] \in [SvrIx -> SvrRows]
<1> DEFINE a == [s EXCEPT ![t].type = SVR_TEMP]
<1>1. a \in [SvrIx -> SvrRows]
  BY DEF SvrRows, SVR_TEMP
<1> HIDE DEF a
<1>2. [a EXCEPT ![t].state = TUX_DEAD] \in [SvrIx -> SvrRows]
  BY <1>1 DEF SvrRows, TUX_DEAD
<1> QED
  BY <1>2 DEF a

\* Commands.
LEMMA CommandType == TypeOK /\ Commands => TypeOK'
<1> SUFFICES ASSUME TypeOK, NEW id \in CmdIds,
                    StartMore(id) \/ StartMoreFails(id) \/ StartNew(id)
                      \/ StartFault(id) \/ CmdExit(id) \/ CmdFresh(id)
             PROVE  TypeOK'
  BY DEF Commands
<1>0. /\ op \in Ops /\ svr \in [SvrIx -> SvrRows] /\ tab \in [PidIx -> TabRows]
      /\ proc \in [Pids -> Procs] /\ restarts \in [PidIx -> Nat]
      /\ \A r \in PidIx : tab[r].pid # NoPid => tab[r].svrpos \in SvrIx
      /\ exited \subseteq Nat /\ cmds \in Nat /\ id \in Nat
  BY CfgAssumption DEF TypeOK
<1> DEFINE t == find_server_id(id)
           r == server_get_pidentry
           s == [svr EXCEPT ![t].type = SVR_PERM]
           k == [svr EXCEPT ![t].type = SVR_TEMP, ![t].state = TUX_DEAD]
<1>1. CASE StartMore(id)
  <2>1. t \in SvrIx /\ r \in PidIx
    BY <1>1, FindId, PidEntry DEF StartMore
  <2>2. PICK p \in Pids :
          /\ tab' = [Overrun(Assigned(r, id, t), r, TUX_IDLE) EXCEPT ![r].pid = p]
          /\ proc' = [proc EXCEPT ![p] = Child(id)]
    BY <1>1, Zenon DEF StartMore, FreePids
  <2>3. svr' = [SetStat(s, r, TUX_IDLE) EXCEPT ![t].num = @ + 1] /\ Strikes(r)
    BY <1>1, Zenon DEF StartMore
  <2> HIDE DEF t, r
  <2>4. s \in [SvrIx -> SvrRows] /\ TUX_IDLE \in 0..4
    BY <1>0, <2>1 DEF SvrRows, SVR_PERM, TUX_IDLE
  <2> HIDE DEF s
  <2>5. SetStat(s, r, TUX_IDLE) \in [SvrIx -> SvrRows]
    BY <2>1, <2>4, SetStatType
  <2>6. svr' \in [SvrIx -> SvrRows]
    BY <2>1, <2>3, <2>5 DEF SvrRows
  <2>7. Started(r, id, t, p)
    BY <1>0, <2>1, <2>2, <2>3, StartRow
  <2>8. tab' \in [PidIx -> TabRows] /\ struck' \subseteq {"svrid", "tot"}
    BY <2>3, <2>7, StrikesType DEF Started
  <2>9. proc' \in [Pids -> Procs]
    BY <1>0, <2>2 DEF Child, Procs
  <2>10. \A x \in PidIx : tab'[x].pid # NoPid => tab'[x].svrpos \in SvrIx
    BY <1>0, <2>1, <2>7 DEF Started, OthersKept
  <2>11. /\ cmds' = cmds + 1 /\ exited' = exited \ {id}
         /\ cfg' = cfg /\ op' = op /\ crashes' = crashes /\ restarts' = restarts
    BY <1>1, Zenon DEF StartMore, Command
  <2>12. cmds' \in Nat /\ exited' \subseteq Nat
    BY <1>0, <2>11
  <2> QED
    BY <2>6, <2>8, <2>9, <2>10, <2>11, <2>12 DEF TypeOK
<1>6. CASE StartFault(id)
  <2>1. t \in SvrIx /\ r \in PidIx
    BY <1>6, FindId, PidEntry DEF StartFault
  <2>2. tab' = Assigned(r, id, t) /\ tab[r].pid = NoPid
    BY <1>6, PidEntry DEF StartFault
  <2>3. svr' = s /\ proc' = Orphaned(proc) /\ op' = Ended
    BY <1>6, Zenon DEF StartFault
  <2> HIDE DEF t, r
  <2>4. s \in [SvrIx -> SvrRows]
    BY <1>0, <2>1 DEF SvrRows, SVR_PERM
  <2> HIDE DEF s
  <2>5. Started(r, id, t, NoPid)
    BY <1>0, <2>1, <2>2, StartRow
  <2>6. tab' \in [PidIx -> TabRows]
    BY <2>5 DEF Started
  <2>7. \A x \in PidIx : tab'[x].pid # NoPid => tab'[x].svrpos \in SvrIx
    BY <1>0, <2>1, <2>5 DEF Started, OthersKept
  <2>8. proc' \in [Pids -> Procs] /\ op' \in Ops /\ op'.at = "failed"
    BY <1>0, <2>3, OrphanedType
  <2>9. /\ cmds' = cmds + 1 /\ exited' = exited \ {id} /\ struck' = struck
        /\ cfg' = cfg /\ crashes' = crashes /\ restarts' = restarts
    BY <1>6, Zenon DEF StartFault, Command
  <2>10. cmds' \in Nat /\ exited' \subseteq Nat
    BY <1>0, <2>9
  <2> QED
    BY <2>3, <2>4, <2>6, <2>7, <2>8, <2>9, <2>10 DEF TypeOK
<1>2. CASE StartMoreFails(id)
  <2>1. t \in SvrIx
    BY <1>2, FindId DEF StartMoreFails
  <2>2. \/ svr' = s /\ tab' = tab /\ restarts' = restarts /\ struck' = struck
        \/ /\ r # 0
           /\ svr' = SetStat(s, r, TUX_IDLE)
           /\ tab' = [Overrun(Assigned(r, id, t), r, TUX_IDLE) EXCEPT ![r] = ClearedTab]
           /\ restarts' = [restarts EXCEPT ![r] = 0]
           /\ Strikes(r)
    BY <1>2, Zenon DEF StartMoreFails
  <2>3. r # 0 => r \in PidIx
    BY PidEntry
  <2> HIDE DEF t, r
  <2>4. s \in [SvrIx -> SvrRows] /\ TUX_IDLE \in 0..4
    BY <1>0, <2>1 DEF SvrRows, SVR_PERM, TUX_IDLE
  <2> HIDE DEF s
  <2>5. ClearedTab.pid = NoPid
    BY DEF ClearedTab
  <2>6. svr' \in [SvrIx -> SvrRows]
    BY <2>2, <2>3, <2>4, SetStatType
  <2>7. /\ tab' \in [PidIx -> TabRows] /\ restarts' \in [PidIx -> Nat]
        /\ \A x \in PidIx : tab'[x].pid # NoPid => tab'[x].svrpos \in SvrIx
        /\ struck' \subseteq {"svrid", "tot"}
    <3>1. CASE svr' = s /\ tab' = tab /\ restarts' = restarts /\ struck' = struck
      BY <1>0, <3>1 DEF TypeOK
    <3>2. CASE /\ r # 0
               /\ tab' = [Overrun(Assigned(r, id, t), r, TUX_IDLE) EXCEPT ![r] = ClearedTab]
               /\ restarts' = [restarts EXCEPT ![r] = 0]
               /\ Strikes(r)
      <4>1. tab' \in [PidIx -> TabRows] /\ OthersKept(r) /\ tab'[r] = ClearedTab
        BY <1>0, <2>1, <2>3, <3>2, StartCleared
      <4> QED
        BY <1>0, <2>3, <2>5, <3>2, <4>1, StrikesType DEF OthersKept
    <3> QED
      BY <2>2, <3>1, <3>2
  <2>8. /\ cmds' = cmds + 1 /\ exited' = exited \ {id}
        /\ cfg' = cfg /\ proc' = proc /\ op' = op /\ crashes' = crashes
    BY <1>2, Zenon DEF StartMoreFails, Command
  <2>9. cmds' \in Nat /\ exited' \subseteq Nat
    BY <1>0, <2>8
  <2> QED
    BY <2>6, <2>7, <2>8, <2>9 DEF TypeOK
<1>3. CASE StartNew(id)
  <2>1. CASE server_get_identry = 0
    BY <1>0, <1>3, <2>1 DEF TypeOK, StartNew, Command
  <2>2. CASE server_get_identry # 0
    <3>1. server_get_identry \in SvrIx /\ server_get_identry \in Nat
      BY <2>2, IdEntry, SizeAssumption DEF SvrIx, PidIx
    <3>2. op' = [Idle EXCEPT !.at = "one", !.row = server_get_identry, !.line = 1, !.id = id]
      BY <1>3, <2>2 DEF StartNew
    <3>3. op' \in Ops /\ op'.at = "one" /\ op'.row \in SvrIx /\ op'.line = 1
      BY <1>0, <3>1, <3>2 DEF Idle, Ops
    <3> QED
      BY <1>0, <1>3, <3>3 DEF TypeOK, StartNew, Command
  <2> QED
    BY <2>1, <2>2
<1>m. Matches(id) \in SUBSET PidIx
  BY DEF Matches
<1>4. CASE CmdExit(id)
  <2>1. t \in SvrIx /\ svr' = k
    BY <1>4, FindId DEF CmdExit
  <2> HIDE DEF t
  <2>2. svr' \in [SvrIx -> SvrRows]
    BY <1>0, <2>1, StoppedType
  <2>3. /\ proc' \in [Pids -> Procs] /\ tab' \in [PidIx -> TabRows] /\ restarts' \in [PidIx -> Nat]
        /\ \A x \in PidIx : tab'[x].pid # NoPid => tab'[x].svrpos \in SvrIx
    BY <1>4, <1>m, KillType DEF CmdExit, server_kill
  <2> QED
    BY <1>0, <1>4, <2>2, <2>3 DEF TypeOK, CmdExit, Command
<1>5. CASE CmdFresh(id)
  <2>1. t \in SvrIx /\ svr' = k /\ op' = [Idle EXCEPT !.at = "fresh", !.row = t, !.line = 1]
    BY <1>5, FindId DEF CmdFresh
  <2> HIDE DEF t
  <2>2. svr' \in [SvrIx -> SvrRows]
    BY <1>0, <2>1, StoppedType
  <2>3. /\ proc' \in [Pids -> Procs] /\ tab' \in [PidIx -> TabRows] /\ restarts' \in [PidIx -> Nat]
        /\ \A x \in PidIx : tab'[x].pid # NoPid => tab'[x].svrpos \in SvrIx
    BY <1>5, <1>m, KillType DEF CmdFresh, server_kill
  <2>4. t \in Nat
    BY <2>1, SizeAssumption DEF SvrIx, PidIx
  <2>5. op' \in Ops /\ op'.at = "fresh" /\ op'.row \in SvrIx /\ op'.line = 1
    BY <2>1, <2>4 DEF Idle, Ops
  <2> QED
    BY <1>0, <1>5, <2>2, <2>3, <2>5 DEF TypeOK, CmdFresh, Command
<1> QED
  BY <1>1, <1>2, <1>3, <1>4, <1>5, <1>6

\* run_one_task and run_task_id.
LEMMA LineStepType == TypeOK /\ (OneLine \/ FreshLine) => TypeOK'
<1> SUFFICES ASSUME TypeOK, OneLine \/ FreshLine PROVE TypeOK'
  OBVIOUS
<1>0. /\ op \in Ops /\ svr \in [SvrIx -> SvrRows] /\ cfg \in Cfgs
      /\ op.row \in SvrIx /\ op.line \in Nat /\ op.line >= 1 /\ op.line + 1 \in Nat
      /\ op.line + 1 >= 1
  BY DEF TypeOK, OneLine, FreshLine, Ops
<1>1. op.line <= Len(cfg) =>
        register_server(svr, op.row, cfg[op.line]) \in [SvrIx -> SvrRows]
  BY <1>0, LineType, RegisterType
<1>2. \/ svr' = [svr EXCEPT ![op.row] = ClearedSvr] /\ op' = Idle
      \/ svr' = [svr EXCEPT ![op.row].state = TUX_IDLE] /\ op' = Idle
      \/ svr' \in [SvrIx -> SvrRows] /\ op' = [op EXCEPT !.line = @ + 1]
      \/ \E s \in [SvrIx -> SvrRows], c \in {"one", "fresh"} : server_run(s, op.row, c)
  <2>1. CASE OneLine
    <3>1. CASE op.line > Len(cfg) \/ cfg[op.line].parse # "ok"
      BY <2>1, <3>1 DEF OneLine
    <3>2. CASE ~(op.line > Len(cfg) \/ cfg[op.line].parse # "ok")
      <4> DEFINE s == register_server(svr, op.row, cfg[op.line])
      <4>0. op.line <= Len(cfg)
        BY <1>0, <3>2, CfgAssumption
      <4>1. s \in [SvrIx -> SvrRows]
        BY <1>1, <4>0
      <4>2. \/ server_run(s, op.row, "one")
            \/ svr' = s /\ op' = [op EXCEPT !.line = @ + 1]
        BY <2>1, <3>2 DEF OneLine
      <4> HIDE DEF s
      <4> QED
        BY <4>1, <4>2
    <3> QED
      BY <3>1, <3>2
  <2>2. CASE FreshLine
    <3>1. CASE op.line > Len(cfg)
      BY <2>2, <3>1 DEF FreshLine
    <3>2. CASE ~(op.line > Len(cfg))
      <4> DEFINE s == register_server(svr, op.row, cfg[op.line])
      <4>0. op.line <= Len(cfg)
        BY <1>0, <3>2, CfgAssumption
      <4>1. s \in [SvrIx -> SvrRows]
        BY <1>1, <4>0
      <4>2. \/ op' = [op EXCEPT !.line = @ + 1] /\ svr' = svr
            \/ svr' = [svr EXCEPT ![op.row] = ClearedSvr] /\ op' = Idle
            \/ server_run(s, op.row, "fresh")
        BY <2>2, <3>2 DEF FreshLine
      <4> HIDE DEF s
      <4> QED
        BY <1>0, <4>1, <4>2
    <3> QED
      BY <3>1, <3>2
  <2> QED
    BY <2>1, <2>2
<1>3. /\ svr' \in [SvrIx -> SvrRows] /\ op' \in Ops
      /\ \/ op'.at = "idle"
         \/ op'.at = op.at /\ op'.row = op.row /\ op'.line = op.line + 1
         \/ op'.at = "run" /\ op'.row \in SvrIx /\ op'.for # "none"
  <2>1. CASE svr' = [svr EXCEPT ![op.row] = ClearedSvr] /\ op' = Idle
    BY <1>0, <2>1, ClearedSvrType DEF Idle, Ops
  <2>2. CASE svr' = [svr EXCEPT ![op.row].state = TUX_IDLE] /\ op' = Idle
    BY <1>0, <2>2 DEF Idle, Ops, SvrRows, TUX_IDLE
  <2>3. CASE svr' \in [SvrIx -> SvrRows] /\ op' = [op EXCEPT !.line = @ + 1]
    BY <1>0, <2>3 DEF Ops
  <2>4. CASE \E s \in [SvrIx -> SvrRows], c \in {"one", "fresh"} : server_run(s, op.row, c)
    BY <1>0, <2>4, EnterRunType
  <2> QED
    BY <1>2, <2>1, <2>2, <2>3, <2>4
<1>4. op.at \in {"one", "fresh"}
  BY DEF OneLine, FreshLine
<1> QED
  BY <1>0, <1>3, <1>4 DEF TypeOK, OneLine, FreshLine

\* tmdown, and an edit of the configuration file.
LEMMA DownEditType == TypeOK /\ (unload_server \/ EditCfg) => TypeOK'
<1> SUFFICES ASSUME TypeOK, unload_server \/ EditCfg PROVE TypeOK'
  OBVIOUS
<1>1. CASE unload_server
  <2> DEFINE R == UNION {Matches(svr[t].id) : t \in SvrIx}
  <2>1. R \in SUBSET PidIx
    BY DEF Matches
  <2>2. /\ proc' = [p \in Pids |-> IF proc[p].st = "zombie" THEN NoProc ELSE Terminated(R)[p]]
        /\ tab' = ClearedRows(R) /\ restarts' = ClearedHist(R)
    BY <1>1 DEF unload_server
  <2> HIDE DEF R
  <2>3. /\ Terminated(R) \in [Pids -> Procs] /\ tab' \in [PidIx -> TabRows]
        /\ restarts' \in [PidIx -> Nat]
        /\ \A x \in PidIx : tab'[x].pid # NoPid => tab'[x].svrpos \in SvrIx
    BY <2>1, <2>2, KillType
  <2>4. NoProc \in Procs
    BY DEF NoProc, Procs
  <2>5. proc' \in [Pids -> Procs]
    BY <2>2, <2>3, <2>4
  <2>6. svr' \in [SvrIx -> SvrRows]
    BY <1>1, ClearedSvrType DEF TypeOK, unload_server
  <2>7. op' \in Ops /\ op'.at = "down"
    BY <1>1 DEF unload_server, Idle, Ops
  <2> QED
    BY <1>1, <2>3, <2>5, <2>6, <2>7 DEF TypeOK, unload_server
<1>2. CASE EditCfg
  BY <1>2 DEF TypeOK, EditCfg
<1> QED
  BY <1>1, <1>2

\* The tables keep their types, and every pid row in use names a server row,
\* in every run of the Governor.
THEOREM TypeCorrect == Spec => []TypeOK
<1>1. TypeOK /\ [Next]_vars => TypeOK'
  <2>1. CASE UNCHANGED vars
    BY <2>1 DEF vars, TypeOK
  <2>2. TypeOK /\ Next => TypeOK'
    BY WorkerType, BootType, RunType, ReapType, CommandType, LineStepType, DownEditType DEF Next
  <2> QED
    BY <2>1, <2>2
<1> QED
  BY <1>1, InitType, PTL DEF Spec

-----------------------------------------------------------------------------
(***************************************************************************)
(* No worker is lost.  Tracked is not inductive: a stopped worker that     *)
(* waitpid has not reported may go on, so it has to be tracked as well.    *)
(***************************************************************************)

Live(st) == st \in {"run", "stop"}

TrackInv ==
    \A p \in Pids : Live(proc[p].st) => \E r \in PidIx : tab[r].pid = p

\* Steps that leave the pid table alone and start nothing.
LEMMA TrackFrame ==
    ASSUME TypeOK, TrackInv, UNCHANGED tab,
           \A p \in Pids : Live(proc'[p].st) => Live(proc[p].st)
    PROVE  TrackInv'
  BY DEF TrackInv

\* A worker forked into a free pid row, or a row that is free cleared.
LEMMA TrackFork ==
    ASSUME TypeOK, TrackInv, NEW e \in PidIx, tab[e].pid = NoPid, NEW q \in Pids, NEW x,
           tab'[e].pid = q, \A r \in PidIx \ {e} : tab'[r].pid = tab[r].pid,
           proc' = [proc EXCEPT ![q] = x]
    PROVE  TrackInv'
<1> SUFFICES ASSUME NEW p \in Pids, Live(proc'[p].st)
             PROVE  \E r \in PidIx : tab'[r].pid = p
  BY DEF TrackInv
<1>1. CASE p = q
  BY <1>1
<1>2. CASE p # q
  <2>1. proc'[p] = proc[p]
    BY <1>2 DEF TypeOK
  <2>2. PICK r \in PidIx : tab[r].pid = p
    BY <2>1 DEF TrackInv
  <2>3. r # e
    BY <2>2, PidAssumption
  <2> QED
    BY <2>2, <2>3
<1> QED
  BY <1>1, <1>2

\* Clearing a free pid row loses no worker.
LEMMA TrackClear ==
    ASSUME TypeOK, TrackInv, NEW e \in PidIx, tab[e].pid = NoPid,
           \A r \in PidIx \ {e} : tab'[r].pid = tab[r].pid,
           \A p \in Pids : Live(proc'[p].st) => Live(proc[p].st)
    PROVE  TrackInv'
<1> SUFFICES ASSUME NEW p \in Pids, Live(proc'[p].st)
             PROVE  \E r \in PidIx : tab'[r].pid = p
  BY DEF TrackInv
<1>1. PICK r \in PidIx : tab[r].pid = p
  BY DEF TrackInv
<1>2. r # e
  BY <1>1, PidAssumption
<1> QED
  BY <1>1, <1>2

\* server_kill ends what it removes from the table.
LEMMA TrackKill ==
    ASSUME TypeOK, TrackInv, NEW R \in SUBSET PidIx, tab' = ClearedRows(R),
           \A p \in Pids : Live(proc'[p].st) => Live(Terminated(R)[p].st)
    PROVE  TrackInv'
<1> SUFFICES ASSUME NEW p \in Pids, Live(proc'[p].st)
             PROVE  \E r \in PidIx : tab'[r].pid = p
  BY DEF TrackInv
<1>1. Live(Terminated(R)[p].st)
  OBVIOUS
<1>2. ~((\E r \in R : tab[r].pid \in {p, NoPid}) /\ proc[p].st \in Alive)
  <2> SUFFICES ASSUME \E r \in R : tab[r].pid \in {p, NoPid}, proc[p].st \in Alive PROVE FALSE
    OBVIOUS
  <2>1. Terminated(R)[p].st = "term"
    BY DEF Terminated, TypeOK, Procs
  <2> QED
    BY <1>1, <2>1 DEF Live
<1>3. Terminated(R)[p] = proc[p]
  BY <1>2 DEF Terminated
<1>6. ~ \E r \in R : tab[r].pid = p
  BY <1>1, <1>2, <1>3 DEF Live, Alive
<1>4. PICK r \in PidIx : tab[r].pid = p
  BY <1>1, <1>3 DEF TrackInv
<1>5. tab'[r] = tab[r]
  BY <1>4, <1>6 DEF ClearedRows
<1> QED
  BY <1>4, <1>5

\* A reported child is not live any more, and nothing else changes.
LEMMA ReportedLive ==
    ASSUME TypeOK, NEW p \in Pids, Reportable(p)
    PROVE  /\ ~ Live(Reported(p)[p].st)
           /\ \A x \in Pids \ {p} : Reported(p)[x] = proc[x]
<1>1. CASE proc[p].st = "zombie"
  BY <1>1 DEF Reported, NoProc, Live, TypeOK
<1>2. CASE proc[p].st # "zombie"
  BY <1>2 DEF Reported, Live, TypeOK, Procs
<1> QED
  BY <1>1, <1>2

\* One turn of server_deatch loses no worker.
LEMMA TrackReap == TypeOK /\ TrackInv /\ Reap => TrackInv'
<1> SUFFICES ASSUME TypeOK, TrackInv, NEW p \in Pids,
                    ReapUnknown(p) \/ ReapGiveUp(p) \/ ReapRestart(p) \/ ReapForkFails(p)
                      \/ ReapFault(p)
             PROVE  TrackInv'
  BY DEF Reap
<1>0. /\ ~ Live(Reported(p)[p].st)
      /\ \A x \in Pids \ {p} : Reported(p)[x] = proc[x]
  <2>1. Reportable(p)
    BY Zenon DEF ReapUnknown, ReapGiveUp, ReapRestart, ReapForkFails, ReapFault
  <2> QED
    BY <2>1, ReportedLive
<1> DEFINE r == server_find_pid(p)
           t == tab[r].svrpos
           s == reload_server_param(Counted(t).s, t)
<1>1. CASE ReapUnknown(p)
  BY <1>0, <1>1, TrackFrame DEF ReapUnknown
<1>2. CASE ReapGiveUp(p) \/ ReapForkFails(p)
  <2>1. r \in PidIx /\ t \in SvrIx
    BY <1>2, FoundRow DEF ReapGiveUp, ReapForkFails
  <2>2. proc' = Reported(p)
    BY <1>2, Zenon DEF ReapGiveUp, ReapForkFails
  <2>3. tab' = Counted(t).b \/ tab' = [Counted(t).b EXCEPT ![r].tot = @ + 1]
    BY <1>2, Zenon DEF ReapGiveUp, ReapForkFails
  <2> HIDE DEF r, t
  <2>4. /\ Counted(t).b \in [PidIx -> TabRows]
        /\ \A x \in PidIx : Counted(t).b[x].pid = tab[x].pid
    BY <2>1, CountedType
  <2>5. \A x \in PidIx : tab'[x].pid = tab[x].pid
    BY <2>1, <2>3, <2>4 DEF TabRows
  <2> QED
    BY <1>0, <2>2, <2>5 DEF TrackInv
<1>3. CASE ReapRestart(p) \/ ReapFault(p)
  <2>0. server_find_pid(p) # 0
    BY <1>3, Zenon DEF ReapRestart, ReapFault
  <2>1. r \in PidIx /\ t \in SvrIx /\ tab[r].pid = p
    BY <2>0, FoundRow
  <2> DEFINE b(q) == [Counted(t).b EXCEPT ![r].tot = @ + 1, ![r].pid = q]
             pr(q) == [Reported(p) EXCEPT ![q] = Child(s[t].id)]
  <2>2. PICK q \in Pids : /\ proc' = pr(q) \/ proc' = Orphaned(pr(q))
                          /\ tab' = b(q) \/ (Strikes(r) /\ tab' = Overrun(b(q), r, TUX_AVAIL))
    BY <1>3, Zenon DEF ReapRestart, ReapFault
  <2>x. tab[r].pid = p
    BY <2>1
  <2> HIDE DEF r, t, s
  <2>3. Restarted(r, t, q)
    BY <2>1, <2>2, RestartRow
  <2>4. tab'[r].pid = q /\ \A x \in PidIx \ {r} : tab'[x].pid = tab[x].pid
    BY <2>3 DEF Restarted, OthersKept
  <2>5. Reported(p) \in [Pids -> Procs]
    BY ReportedType
  <2> SUFFICES ASSUME NEW y \in Pids, Live(proc'[y].st)
               PROVE  \E x \in PidIx : tab'[x].pid = y
    BY DEF TrackInv
  <2>6. CASE y = q
    BY <2>1, <2>4, <2>6
  <2>7. CASE y # q
    <3>1. pr(q)[y] = Reported(p)[y]
      BY <2>5, <2>7
    <3> HIDE DEF pr
    <3>5. Live(Reported(p)[y].st)
      BY <2>2, <3>1 DEF Orphaned, NoProc, Live
    <3>2. y # p /\ Live(proc[y].st)
      BY <1>0, <3>5
    <3>3. PICK x \in PidIx : tab[x].pid = y
      BY <3>2 DEF TrackInv
    <3>4. x # r
      BY <2>x, <3>2, <3>3
    <3> QED
      BY <2>4, <3>3, <3>4
  <2> QED
    BY <2>6, <2>7
<1> QED
  BY <1>1, <1>2, <1>3

\* One turn of server_run's loop loses no worker.
LEMMA TrackRun == TypeOK /\ TrackInv /\ RunStep => TrackInv'
<1> SUFFICES ASSUME TypeOK, TrackInv, RunStep PROVE TrackInv'
  OBVIOUS
<1> DEFINE e == server_get_pidentry
<1>1. CASE RunFork
  <2>1. e \in PidIx /\ tab[e].pid = NoPid
    BY <1>1, PidEntry DEF RunFork
  <2>2. PICK q \in Pids :
          /\ tab' = [tab EXCEPT ![e] = [@ EXCEPT !.pid = q, !.svrid = svr[op.row].id,
                                                 !.svrpos = op.row]]
          /\ proc' = [proc EXCEPT ![q] = Child(svr[op.row].id)]
    BY <1>1, Zenon DEF RunFork, FreePids
  <2>3. TypeOK'
    BY <1>1, RunType DEF RunStep
  <2> HIDE DEF e
  <2>4. tab' \in [PidIx -> TabRows] /\ tab \in [PidIx -> TabRows]
    BY <2>3 DEF TypeOK
  <2>5. tab'[e].pid = q /\ \A r \in PidIx \ {e} : tab'[r].pid = tab[r].pid
    BY <2>1, <2>2, <2>4 DEF TabRows
  <2> QED
    BY <2>1, <2>2, <2>5, TrackFork
<1>2. CASE RunForkFails
  <2>1. e \in PidIx /\ tab[e].pid = NoPid
    BY <1>2, PidEntry DEF RunForkFails
  <2>2. tab' = [tab EXCEPT ![e] = ClearedTab] /\ proc' = proc
    BY <1>2 DEF RunForkFails
  <2> HIDE DEF e
  <2>3. \A r \in PidIx \ {e} : tab'[r].pid = tab[r].pid
    BY <2>1, <2>2 DEF TypeOK
  <2> QED
    BY <2>1, <2>2, <2>3, TrackClear
<1>3. CASE RunLimit \/ RunDone
  BY <1>3, TrackFrame DEF RunLimit, RunDone
<1> QED
  BY <1>1, <1>2, <1>3 DEF RunStep

\* A command loses no worker.
LEMMA TrackCommand == TypeOK /\ TrackInv /\ Commands => TrackInv'
<1> SUFFICES ASSUME TypeOK, TrackInv, NEW id \in CmdIds,
                    StartMore(id) \/ StartMoreFails(id) \/ StartNew(id)
                      \/ StartFault(id) \/ CmdExit(id) \/ CmdFresh(id)
             PROVE  TrackInv'
  BY DEF Commands
<1> DEFINE e == server_get_pidentry
           t == find_server_id(id)
<1>0. id \in Nat
  BY CfgAssumption
<1>1. CASE StartMore(id)
  <2>1. e \in PidIx /\ tab[e].pid = NoPid /\ t \in SvrIx
    BY <1>1, PidEntry, FindId DEF StartMore
  <2>2. PICK q \in Pids :
          /\ tab' = [Overrun(Assigned(e, id, t), e, TUX_IDLE) EXCEPT ![e].pid = q]
          /\ proc' = [proc EXCEPT ![q] = Child(id)]
    BY <1>1, Zenon DEF StartMore, FreePids
  <2>3. Strikes(e)
    BY <1>1, Zenon DEF StartMore
  <2> HIDE DEF e, t
  <2>4. Started(e, id, t, q)
    BY <1>0, <2>1, <2>2, <2>3, StartRow
  <2>5. tab'[e].pid = q /\ \A r \in PidIx \ {e} : tab'[r].pid = tab[r].pid
    BY <2>4 DEF Started, OthersKept
  <2> QED
    BY <2>1, <2>2, <2>5, TrackFork
<1>5. CASE StartFault(id)
  <2>1. e \in PidIx /\ tab[e].pid = NoPid /\ t \in SvrIx
    BY <1>5, PidEntry, FindId DEF StartFault
  <2>2. tab' = Assigned(e, id, t) /\ proc' = Orphaned(proc)
    BY <1>5, Zenon DEF StartFault
  <2> HIDE DEF e, t
  <2>4. Started(e, id, t, NoPid)
    BY <1>0, <2>1, <2>2, StartRow
  <2>5. \A r \in PidIx \ {e} : tab'[r].pid = tab[r].pid
    BY <2>4 DEF Started, OthersKept
  <2>6. \A p \in Pids : Live(proc'[p].st) => Live(proc[p].st)
    BY <2>2 DEF Orphaned, Live, NoProc
  <2> QED
    BY <2>1, <2>5, <2>6, TrackClear
<1>2. CASE StartMoreFails(id)
  <2>1. proc' = proc /\ t \in SvrIx
    BY <1>2, FindId DEF StartMoreFails
  <2>2. \/ tab' = tab
        \/ /\ e # 0 /\ Strikes(e)
           /\ tab' = [Overrun(Assigned(e, id, t), e, TUX_IDLE) EXCEPT ![e] = ClearedTab]
    BY <1>2, Zenon DEF StartMoreFails
  <2>3. CASE tab' = tab
    BY <2>1, <2>3, TrackFrame
  <2>4. CASE /\ e # 0 /\ Strikes(e)
             /\ tab' = [Overrun(Assigned(e, id, t), e, TUX_IDLE) EXCEPT ![e] = ClearedTab]
    <3>1. e \in PidIx /\ tab[e].pid = NoPid
      BY <2>4, PidEntry
    <3> HIDE DEF e, t
    <3>2. OthersKept(e)
      BY <1>0, <2>1, <2>4, <3>1, StartCleared
    <3>3. \A r \in PidIx \ {e} : tab'[r].pid = tab[r].pid
      BY <3>2 DEF OthersKept
    <3> QED
      BY <2>1, <3>1, <3>3, TrackClear
  <2> QED
    BY <2>2, <2>3, <2>4
<1>3. CASE StartNew(id)
  BY <1>3, TrackFrame DEF StartNew
<1>4. CASE CmdExit(id) \/ CmdFresh(id)
  <2>1. proc' = Terminated(Matches(id)) /\ tab' = ClearedRows(Matches(id))
    BY <1>4 DEF CmdExit, CmdFresh, server_kill
  <2>2. Matches(id) \in SUBSET PidIx
    BY DEF Matches
  <2> QED
    BY <2>1, <2>2, TrackKill
<1> QED
  BY <1>1, <1>2, <1>3, <1>4, <1>5

\* No other step loses a worker.
LEMMA TrackRest ==
    TypeOK /\ TrackInv /\ (WorkerStep \/ Boot \/ OneLine \/ FreshLine \/ unload_server \/ EditCfg)
      => TrackInv'
<1> SUFFICES ASSUME TypeOK, TrackInv,
                    WorkerStep \/ Boot \/ OneLine \/ FreshLine \/ unload_server \/ EditCfg
             PROVE  TrackInv'
  OBVIOUS
<1>1. CASE WorkerStep
  <2>1. PICK p \in Pids : Crash(p) \/ Stop(p) \/ Continue(p) \/ TermExit(p)
    BY <1>1 DEF WorkerStep
  <2>2. \A x \in Pids : Live(proc'[x].st) => Live(proc[x].st)
    BY <2>1 DEF Crash, Stop, Continue, TermExit, Gone, NoProc, Live, TypeOK, Procs
  <2>3. tab' = tab
    BY <2>1 DEF Crash, Stop, Continue, TermExit
  <2> QED
    BY <2>2, <2>3, TrackFrame
<1>2. CASE Boot \/ OneLine \/ FreshLine \/ EditCfg
  <2>1. tab' = tab /\ proc' = proc
    BY <1>2 DEF Boot, LoadLine, LoadDone, LoadRow, OneLine, FreshLine, EditCfg
  <2> QED
    BY <2>1, TrackFrame
<1>3. CASE unload_server
  <2> DEFINE R == UNION {Matches(svr[t].id) : t \in SvrIx}
  <2>1. R \in SUBSET PidIx
    BY DEF Matches
  <2>2. /\ proc' = [p \in Pids |-> IF proc[p].st = "zombie" THEN NoProc ELSE Terminated(R)[p]]
        /\ tab' = ClearedRows(R)
    BY <1>3 DEF unload_server
  <2> HIDE DEF R
  <2>3. \A p \in Pids : Live(proc'[p].st) => Live(Terminated(R)[p].st)
    BY <2>2 DEF Live, NoProc
  <2> QED
    BY <2>1, <2>2, <2>3, TrackKill
<1> QED
  BY <1>1, <1>2, <1>3

\* The Governor never loses track of a worker: whatever crashes, failing
\* forks, full tables, stops, commands and configuration edits happen, every
\* worker that runs and was neither told to end nor reported by waitpid is in
\* a row of the pid table.
THEOREM NoWorkerLost == Spec => []Tracked
<1>1. Init => TrackInv
  BY DEF Init, TrackInv, NoProc, Live
<1>2. TypeOK /\ TrackInv /\ [Next]_vars => TrackInv'
  <2>1. CASE UNCHANGED vars
    BY <2>1 DEF vars, TrackInv
  <2>2. TypeOK /\ TrackInv /\ Next => TrackInv'
    BY TrackReap, TrackRun, TrackCommand, TrackRest DEF Next
  <2> QED
    BY <2>1, <2>2
<1>3. TrackInv => Tracked
  BY DEF TrackInv, Tracked, Live
<1> QED
  BY <1>1, <1>2, <1>3, TypeCorrect, PTL DEF Spec

-----------------------------------------------------------------------------
(***************************************************************************)
(* Restarts are bounded.  The counter of a pid row also counts the deaths  *)
(* of the server whose row has its index, so it is never below the number  *)
(* of restarts of the row, and server_deatch restarts only while the       *)
(* counter is at most MaxRestart.                                          *)
(***************************************************************************)

BudgetInv == "tot" \notin struck =>
    \A r \in PidIx : restarts[r] <= tab[r].tot /\ restarts[r] <= MaxRestart + 1

\* Steps that keep the history and lower no counter.
LEMMA BudgetFrame ==
    ASSUME TypeOK, BudgetInv, UNCHANGED restarts, struck \subseteq struck',
           "tot" \notin struck' =>
             \A r \in PidIx : tab'[r].tot \in Nat /\ tab'[r].tot >= tab[r].tot
    PROVE  BudgetInv'
<1> SUFFICES ASSUME "tot" \notin struck', "tot" \notin struck, NEW r \in PidIx
             PROVE  restarts[r] <= tab'[r].tot /\ restarts[r] <= MaxRestart + 1
  BY DEF BudgetInv
<1>1. restarts[r] \in Nat /\ tab[r].tot \in Nat
  BY DEF TypeOK, TabRows
<1> QED
  BY <1>1 DEF BudgetInv

\* A row cleared: both start again from 0.
LEMMA BudgetClear ==
    ASSUME TypeOK, BudgetInv, NEW R \in SUBSET PidIx,
           tab' = ClearedRows(R), restarts' = ClearedHist(R), struck' = struck
    PROVE  BudgetInv'
  BY BoundAssumption DEF BudgetInv, ClearedRows, ClearedHist, ClearedTab

\* Clearing one pid row with its history keeps the restart count below the counter.
LEMMA ClearOneRow ==
    ASSUME TypeOK, NEW e \in PidIx
    PROVE  /\ [tab EXCEPT ![e] = ClearedTab] = ClearedRows({e})
           /\ [restarts EXCEPT ![e] = 0] = ClearedHist({e})
  BY DEF TypeOK, ClearedRows, ClearedHist

\* One turn of server_deatch keeps the restart budget.
LEMMA BudgetReap == TypeOK /\ BudgetInv /\ Reap => BudgetInv'
<1> SUFFICES ASSUME TypeOK, BudgetInv, NEW p \in Pids,
                    ReapUnknown(p) \/ ReapGiveUp(p) \/ ReapRestart(p) \/ ReapForkFails(p)
                      \/ ReapFault(p)
             PROVE  BudgetInv'
  BY DEF Reap
<1>0. TypeOK' /\ tab \in [PidIx -> TabRows] /\ restarts \in [PidIx -> Nat]
  BY ReapType DEF Reap, TypeOK
<1> DEFINE r == server_find_pid(p)
           t == tab[r].svrpos
           b == Counted(t).b
<1>1. CASE ReapUnknown(p)
  BY <1>0, <1>1, BudgetFrame DEF ReapUnknown, TabRows
<1>2. ASSUME ~ ReapUnknown(p)
      PROVE  /\ r \in PidIx /\ t \in SvrIx
             /\ b \in [PidIx -> TabRows]
             /\ \A x \in PidIx : b[x].tot \in Nat /\ b[x].tot >= tab[x].tot
  <2>1. r \in PidIx /\ t \in SvrIx
    <3>1. server_find_pid(p) # 0
      BY <1>2, Zenon DEF ReapGiveUp, ReapRestart, ReapForkFails, ReapFault
    <3> QED
      BY <3>1, FoundRow
  <2> HIDE DEF t
  <2>2. b \in [PidIx -> TabRows] /\ \A x \in PidIx : b[x].tot >= tab[x].tot
    BY <2>1, CountedType
  <2> HIDE DEF b
  <2> QED
    BY <2>1, <2>2 DEF TabRows
<1>3. CASE (ReapGiveUp(p) \/ ReapForkFails(p)) /\ ~ ReapUnknown(p)
  <2>1. tab' = b \/ tab' = [b EXCEPT ![r].tot = @ + 1]
    BY <1>3, Zenon DEF ReapGiveUp, ReapForkFails
  <2>2. restarts' = restarts /\ struck' = struck
    BY <1>3, Zenon DEF ReapGiveUp, ReapForkFails
  <2>3. /\ r \in PidIx /\ b \in [PidIx -> TabRows]
        /\ \A x \in PidIx : b[x].tot \in Nat /\ b[x].tot >= tab[x].tot /\ tab[x].tot \in Nat
    BY <1>0, <1>2, <1>3 DEF TabRows
  <2> HIDE DEF r, b
  <2>4. \A x \in PidIx : tab'[x].tot \in Nat /\ tab'[x].tot >= tab[x].tot
    <3>1. CASE tab' = b
      BY <2>3, <3>1
    <3>2. CASE tab' = [b EXCEPT ![r].tot = @ + 1]
      <4>1. \A x \in PidIx : tab'[x].tot = IF x = r THEN b[x].tot + 1 ELSE b[x].tot
        BY <2>3, <3>2 DEF TabRows
      <4> QED
        BY <2>3, <4>1
    <3> QED
      BY <2>1, <3>1, <3>2
  <2> QED
    BY <2>2, <2>4, BudgetFrame
<1>4. CASE (ReapRestart(p) \/ ReapFault(p)) /\ ~ ReapUnknown(p)
  <2> DEFINE c(q) == [b EXCEPT ![r].tot = @ + 1, ![r].pid = q]
  <2>1. PICK q \in Pids : tab' = c(q) \/ (Strikes(r) /\ tab' = Overrun(c(q), r, TUX_AVAIL))
    BY <1>4, Zenon DEF ReapRestart, ReapFault
  <2>2. restarts' = [restarts EXCEPT ![r] = @ + 1] /\ (struck' = struck \/ Strikes(r))
    BY <1>4, Zenon DEF ReapRestart, ReapFault
  <2>3. ~(b[r].tot > MaxRestart)
    BY <1>4, Zenon DEF ReapRestart, ReapFault, GiveUp
  <2>4. /\ r \in PidIx /\ t \in SvrIx /\ b \in [PidIx -> TabRows]
        /\ \A x \in PidIx : b[x].tot \in Nat /\ b[x].tot >= tab[x].tot /\ tab[x].tot \in Nat
    BY <1>0, <1>2, <1>4 DEF TabRows
  <2> HIDE DEF r, t
  <2>a. Restarted(r, t, q)
    BY <2>1, <2>4, RestartRow
  <2>b. struck \subseteq struck'
    BY <2>2, StrikesType
  <2> SUFFICES ASSUME "tot" \notin struck', "tot" \notin struck, NEW x \in PidIx
               PROVE  restarts'[x] <= tab'[x].tot /\ restarts'[x] <= MaxRestart + 1
    BY <2>b DEF BudgetInv
  <2>5. tab'[x].tot = b[x].tot + (IF x = r THEN 1 ELSE 0)
    BY <2>a DEF Restarted
  <2> HIDE DEF b
  <2>6. restarts'[x] = IF x = r THEN restarts[x] + 1 ELSE restarts[x]
    BY <1>0, <2>2, <2>4
  <2>7. restarts[x] \in Nat /\ restarts[x] <= tab[x].tot /\ restarts[x] <= MaxRestart + 1
    BY <1>0 DEF BudgetInv
  <2>8. CASE x = r
    BY <2>3, <2>4, <2>5, <2>6, <2>7, <2>8, BoundAssumption
  <2>9. CASE x # r
    BY <2>4, <2>5, <2>6, <2>7, <2>9, BoundAssumption
  <2> QED
    BY <2>8, <2>9
<1> QED
  BY <1>1, <1>3, <1>4

\* No other step disturbs the restart budget.
LEMMA BudgetRest ==
    TypeOK /\ BudgetInv /\ (WorkerStep \/ Boot \/ RunStep \/ Commands \/ OneLine \/ FreshLine
                              \/ unload_server \/ EditCfg)
      => BudgetInv'
<1> SUFFICES ASSUME TypeOK, BudgetInv,
                    WorkerStep \/ Boot \/ RunStep \/ Commands \/ OneLine \/ FreshLine
                      \/ unload_server \/ EditCfg
             PROVE  BudgetInv'
  OBVIOUS
<1>0. tab \in [PidIx -> TabRows] /\ restarts \in [PidIx -> Nat]
  BY DEF TypeOK
<1> DEFINE e == server_get_pidentry
<1>s. ASSUME tab' = tab /\ restarts' = restarts /\ struck' = struck PROVE BudgetInv'
  BY <1>s DEF BudgetInv
<1>1. CASE WorkerStep \/ Boot \/ OneLine \/ FreshLine \/ EditCfg \/ RunLimit \/ RunDone
  <2>1. tab' = tab /\ restarts' = restarts /\ struck' = struck
    BY <1>1 DEF WorkerStep, Crash, Stop, Continue, TermExit, Boot, LoadLine, LoadDone, LoadRow,
                OneLine, FreshLine, EditCfg, RunLimit, RunDone
  <2> QED
    BY <2>1, <1>s
<1>2. CASE RunFork
  <2>1. e \in PidIx /\ restarts' = restarts /\ struck' = struck
    BY <1>2, PidEntry DEF RunFork
  <2>2. PICK q \in Pids :
          tab' = [tab EXCEPT ![e] = [@ EXCEPT !.pid = q, !.svrid = svr[op.row].id, !.svrpos = op.row]]
    BY <1>2, Zenon DEF RunFork, FreePids
  <2> HIDE DEF e
  <2>3. \A y \in PidIx : tab'[y].tot = tab[y].tot /\ tab[y].tot \in Nat
    BY <1>0, <2>1, <2>2 DEF TabRows
  <2> QED
    BY <2>1, <2>3, BudgetFrame
<1>c. ASSUME e # 0, struck' = struck, tab' = [tab EXCEPT ![e] = ClearedTab], restarts' = [restarts EXCEPT ![e] = 0]
      PROVE  BudgetInv'
  <2>1. e \in PidIx
    BY <1>c, PidEntry
  <2> QED
    BY <1>c, <2>1, ClearOneRow, BudgetClear
<1>3. CASE RunForkFails
  BY <1>3, <1>c DEF RunForkFails
<1>4. CASE Commands
  <2>1. PICK id \in CmdIds : \/ StartMore(id) \/ StartMoreFails(id) \/ StartNew(id)
                             \/ StartFault(id) \/ CmdExit(id) \/ CmdFresh(id)
    BY <1>4 DEF Commands
  <2>0. id \in Nat
    BY CfgAssumption
  <2> DEFINE t == find_server_id(id)
  <2>g. ASSUME NEW q, Started(e, id, t, q), restarts' = restarts, struck \subseteq struck'
        PROVE  BudgetInv'
    <3>1. \A y \in PidIx : tab[y].tot \in Nat
      BY <1>0 DEF TabRows
    <3>2. "tot" \notin struck' =>
             \A y \in PidIx : tab'[y].tot \in Nat /\ tab'[y].tot >= tab[y].tot
      BY <2>g, <3>1 DEF Started
    <3> QED
      BY <2>g, <3>2, BudgetFrame
  <2>2. CASE StartMore(id)
    <3>1. e \in PidIx /\ t \in SvrIx
      BY <2>2, PidEntry, FindId DEF StartMore
    <3>2. PICK q \in Pids :
            tab' = [Overrun(Assigned(e, id, t), e, TUX_IDLE) EXCEPT ![e].pid = q]
      BY <2>2, Zenon DEF StartMore, FreePids
    <3>3. Strikes(e) /\ restarts' = restarts
      BY <2>2, Zenon DEF StartMore
    <3> HIDE DEF e, t
    <3>4. Started(e, id, t, q)
      BY <2>0, <3>1, <3>2, <3>3, StartRow
    <3>5. struck \subseteq struck'
      BY <3>3, StrikesType
    <3> QED
      BY <2>g, <3>3, <3>4, <3>5
  <2>6. CASE StartFault(id)
    <3>1. e \in PidIx /\ t \in SvrIx /\ tab[e].pid = NoPid
      BY <2>6, PidEntry, FindId DEF StartFault
    <3>2. tab' = Assigned(e, id, t) /\ restarts' = restarts /\ struck' = struck
      BY <2>6, Zenon DEF StartFault
    <3> HIDE DEF e, t
    <3>3. Started(e, id, t, NoPid)
      BY <2>0, <3>1, <3>2, StartRow
    <3> QED
      BY <2>g, <3>2, <3>3
  <2>3. CASE StartMoreFails(id)
    <3>1. \/ tab' = tab /\ restarts' = restarts /\ struck' = struck
          \/ /\ e # 0 /\ restarts' = [restarts EXCEPT ![e] = 0] /\ Strikes(e)
             /\ tab' = [Overrun(Assigned(e, id, t), e, TUX_IDLE) EXCEPT ![e] = ClearedTab]
      BY <2>3, Zenon DEF StartMoreFails
    <3>2. CASE /\ e # 0 /\ restarts' = [restarts EXCEPT ![e] = 0] /\ Strikes(e)
               /\ tab' = [Overrun(Assigned(e, id, t), e, TUX_IDLE) EXCEPT ![e] = ClearedTab]
      <4>1. e \in PidIx /\ t \in SvrIx
        BY <2>3, <3>2, PidEntry, FindId DEF StartMoreFails
      <4> HIDE DEF e, t
      <4>2. /\ tab'[e] = ClearedTab
            /\ "tot" \notin struck' => \A x \in PidIx \ {e} : tab'[x].tot = tab[x].tot
        BY <2>0, <3>2, <4>1, StartCleared
      <4>3. struck \subseteq struck'
        BY <3>2, StrikesType
      <4> SUFFICES ASSUME "tot" \notin struck', "tot" \notin struck, NEW x \in PidIx
                   PROVE  restarts'[x] <= tab'[x].tot /\ restarts'[x] <= MaxRestart + 1
        BY <4>3 DEF BudgetInv
      <4>4. CASE x = e
        BY <1>0, <3>2, <4>1, <4>2, <4>4, BoundAssumption DEF ClearedTab
      <4>5. CASE x # e
        BY <1>0, <3>2, <4>1, <4>2, <4>5 DEF BudgetInv
      <4> QED
        BY <4>4, <4>5
    <3> QED
      BY <1>s, <3>1, <3>2
  <2>4. CASE StartNew(id)
    BY <2>4, <1>s DEF StartNew
  <2>5. CASE CmdExit(id) \/ CmdFresh(id)
    <3>1. /\ tab' = ClearedRows(Matches(id)) /\ restarts' = ClearedHist(Matches(id))
          /\ struck' = struck
      BY <2>5 DEF CmdExit, CmdFresh, server_kill
    <3>2. Matches(id) \in SUBSET PidIx
      BY DEF Matches
    <3> QED
      BY <3>1, <3>2, BudgetClear
  <2> QED
    BY <2>1, <2>2, <2>3, <2>4, <2>5, <2>6
<1>5. CASE unload_server
  <2> DEFINE R == UNION {Matches(svr[t].id) : t \in SvrIx}
  <2>1. R \in SUBSET PidIx
    BY DEF Matches
  <2>2. tab' = ClearedRows(R) /\ restarts' = ClearedHist(R) /\ struck' = struck
    BY <1>5 DEF unload_server
  <2> HIDE DEF R
  <2> QED
    BY <2>1, <2>2, BudgetClear
<1> QED
  BY <1>1, <1>2, <1>3, <1>4, <1>5 DEF RunStep

\* A worker that dies again and again is given up: between two clearings of
\* its pid row it is restarted at most MaxRestart + 1 times, unless a state was
\* written over a restart counter.
THEOREM RestartsBounded == Spec => []RestartBudget
<1>1. Init => BudgetInv
  BY BoundAssumption DEF Init, BudgetInv, ClearedTab
<1>2. TypeOK /\ BudgetInv /\ [Next]_vars => BudgetInv'
  <2>1. CASE UNCHANGED vars
    BY <2>1 DEF vars, BudgetInv
  <2>2. TypeOK /\ BudgetInv /\ Next => BudgetInv'
    BY BudgetReap, BudgetRest DEF Next
  <2> QED
    BY <2>1, <2>2
<1>3. BudgetInv => RestartBudget
  BY DEF BudgetInv, RestartBudget
<1> QED
  BY <1>1, <1>2, <1>3, TypeCorrect, PTL DEF Spec
-----------------------------------------------------------------------------
(***************************************************************************)
(* What tmexit, tmdown and the identity of the rows rest on.  The code     *)
(* pairs the rows of the server table with the lines of the file by their  *)
(* index, so the theorems are about configurations in which that is right: *)
(* every line registers, lines keep their index, id and executable from    *)
(* one version of the file to the next, ids and executables differ, no id  *)
(* is the number of TUX_DEAD, and a server that operators may name was in  *)
(* the file at start or is the one line appended to it.  (A worker that    *)
(* is stopped and goes on is lost: hazard at Governor.c:322.)              *)
(***************************************************************************)

Orderly ==
    /\ "stop" \notin Faults
    /\ \A c \in Cfgs : \A i \in DOMAIN c : c[i].parse = "ok" /\ c[i].id # TUX_DEAD
    /\ \A c, d \in Cfgs : \A i \in DOMAIN c, j \in DOMAIN d :
         i = j \/ c[i].id = d[j].id \/ c[i].name = d[j].name
         => i = j /\ c[i].id = d[j].id /\ c[i].name = d[j].name
    /\ \A c, d \in Cfgs : \A i \in DOMAIN c : c[i].id \in CmdIds => i <= Len(d) + 1

\* A server_run that fails for tmfresh or tmstart gives the row up, with its
\* workers still in the pid table; the theorems are about the behaviours
\* before that.
RunFails == op.for \in {"fresh", "one"} /\ (RunLimit \/ RunForkFails)
KeptUp   == [][~RunFails]_vars

\* Row t is being searched for by run_one_task, and is not in use yet.
Trial(t) == op.at = "one" /\ op.row = t

\* A row in use holds the line that has its index.
Paired == \A t \in SvrIx : svr[t].id # -1 /\ ~Trial(t) =>
            \E c \in Cfgs : t \in DOMAIN c /\ svr[t].id = c[t].id /\ svr[t].name = c[t].name

\* Start-up takes the lines in order; after it the rows of the file it read
\* stay in use.
Filled == /\ op.at = "boot" =>
               op.line = op.row /\ \A t \in SvrIx : t < op.row => svr[t].id # -1
          /\ op.at \notin {"boot", "down"} =>
               \E d \in Cfgs : /\ \A t \in SvrIx : t <= Len(d) => svr[t].id # -1
                               /\ op.at = "one" => Len(d) < op.row

\* A pid row in use names a server row in use; none is in use before start-up.
Served == \A r \in PidIx : tab[r].pid # NoPid =>
            /\ op.at # "boot"
            /\ op.at # "down" => ~Trial(tab[r].svrpos) /\ svr[tab[r].svrpos].id # -1

\* No state was written over the svrid of a pid row.
Clean == "svrid" \notin struck

\* Then the two agree in their id, and no pid row is in use after tmdown.
Owned == Clean => \A r \in PidIx : tab[r].pid # NoPid =>
            op.at # "down" /\ tab[r].svrid # -1 /\ svr[tab[r].svrpos].id = tab[r].svrid

\* A worker that runs is in a pid row of its server.
Manned == /\ \A p \in Pids : proc[p].st \in {"none", "run", "term", "zombie"}
          /\ Clean => \A p \in Pids : proc[p].st = "run" =>
               \E r \in PidIx : tab[r].pid = p /\ tab[r].svrid = proc[p].id

\* No pid row in use is of an exited server.
Barred == Clean => \A r \in PidIx : tab[r].pid # NoPid => tab[r].svrid \notin exited

\* The server the handler is about.
Subject ==
    /\ op.at \in {"boot", "load"} \/ (op.at = "run" /\ op.for = "load") => exited = {}
    /\ op.at \in {"run", "fresh"} => svr[op.row].id # -1 /\ svr[op.row].id \notin exited
    /\ op.at = "one" => /\ op.id \in CmdIds /\ op.id \notin exited
                        /\ \A k \in SvrIx : k # op.row => svr[k].id # op.id
                        /\ \A k \in SvrIx : k < op.row => svr[k].id # -1

OrderInv == Paired /\ Filled /\ Served /\ Owned /\ Manned /\ Barred /\ Subject

\* A line with the index, the id or the executable of a row is the row's.
LEMMA PairedLine ==
    ASSUME Orderly, Paired, NEW t \in SvrIx, svr[t].id # -1, ~Trial(t),
           NEW c \in Cfgs, NEW i \in DOMAIN c,
           i = t \/ c[i].id = svr[t].id \/ c[i].name = svr[t].name
    PROVE  i = t /\ c[i].id = svr[t].id /\ c[i].name = svr[t].name
<1>1. PICK d \in Cfgs : t \in DOMAIN d /\ svr[t].id = d[t].id /\ svr[t].name = d[t].name
  BY DEF Paired
<1> QED
  BY <1>1 DEF Orderly

\* Two rows in use do not have one id.
LEMMA PairedRows ==
    ASSUME Orderly, Paired, NEW r \in SvrIx, NEW t \in SvrIx, svr[r].id # -1,
           svr[r].id = svr[t].id, ~Trial(r), ~Trial(t)
    PROVE  r = t
<1>1. PICK d \in Cfgs : r \in DOMAIN d /\ svr[r].id = d[r].id
  BY DEF Paired
<1>2. PICK c \in Cfgs : t \in DOMAIN c /\ svr[t].id = c[t].id
  BY DEF Paired
<1>3. c[t].id = d[r].id
  BY <1>1, <1>2
<1>4. \A i \in DOMAIN c, j \in DOMAIN d : c[i].id = d[j].id => i = j
  BY DEF Orderly
<1> QED
  BY <1>1, <1>2, <1>3, <1>4

SvrKept == \A t \in SvrIx : svr'[t].id = svr[t].id /\ svr'[t].name = svr[t].name
TabKept == /\ struck \subseteq struck'
           /\ \A r \in PidIx : /\ tab'[r].pid = tab[r].pid /\ tab'[r].svrpos = tab[r].svrpos
                               /\ Clean' => tab'[r].svrid = tab[r].svrid

\* Steps that change no id and leave the handler alone, or end the Governor.
LEMMA SvrFrame ==
    ASSUME TypeOK, OrderInv, SvrKept, op' = op \/ (IsIdle /\ op' = Ended), exited' \subseteq exited
    PROVE  Paired' /\ Filled' /\ Subject'
<1>0. CASE IsIdle /\ op' = Ended
  <2>1. op.at = "idle" /\ op'.at = "failed"
    BY <1>0 DEF IsIdle, Ended, Idle
  <2>2. \A t \in SvrIx : ~Trial(t)' /\ ~Trial(t)
    BY <2>1 DEF Trial
  <2>3. Paired'
    BY <2>2 DEF OrderInv, Paired, SvrKept
  <2>4. Filled' /\ Subject'
    BY <2>1 DEF OrderInv, Filled, Subject, SvrKept
  <2> QED
    BY <2>3, <2>4
<1> SUFFICES ASSUME op' = op PROVE Paired' /\ Filled' /\ Subject'
  BY <1>0
<1>1. \A t \in SvrIx : Trial(t)' = Trial(t)
  BY DEF Trial
<1>2. Paired'
  BY <1>1 DEF OrderInv, Paired, SvrKept
<1>3. Filled'
  BY DEF OrderInv, Filled, SvrKept
<1>4. Subject'
  BY DEF OrderInv, Subject, SvrKept, TypeOK
<1> QED
  BY <1>2, <1>3, <1>4

\* Steps that leave the pid table and the ids alone and start nothing.
LEMMA TabFrame ==
    ASSUME TypeOK, OrderInv, SvrKept, TabKept, exited' \subseteq exited,
           \A t \in SvrIx : Trial(t)' => Trial(t) \/ svr[t].id = -1,
           op'.at = "boot" => op.at = "boot", op'.at = "down" <=> op.at = "down"
    PROVE  Served' /\ Owned' /\ Barred'
<1>0. Clean' => Clean
  BY DEF TabKept, Clean
<1>1. ASSUME NEW r \in PidIx, tab'[r].pid # NoPid
      PROVE  /\ op'.at # "boot"
             /\ op'.at # "down" => /\ ~(op'.at = "one" /\ op'.row = tab'[r].svrpos)
                                   /\ svr'[tab'[r].svrpos].id # -1
             /\ Clean' => /\ op'.at # "down" /\ tab'[r].svrid # -1
                          /\ svr'[tab'[r].svrpos].id = tab'[r].svrid
                          /\ tab'[r].svrid \notin exited'
  <2>1. tab[r].pid # NoPid /\ tab[r].svrpos \in SvrIx
    BY <1>1 DEF TabKept, TypeOK
  <2>2. /\ op.at # "boot"
        /\ op.at # "down" => ~Trial(tab[r].svrpos) /\ svr[tab[r].svrpos].id # -1
        /\ Clean => /\ op.at # "down" /\ tab[r].svrid # -1
                    /\ svr[tab[r].svrpos].id = tab[r].svrid /\ tab[r].svrid \notin exited
    BY <2>1 DEF OrderInv, Served, Owned, Barred
  <2>3. PICK x \in SvrIx : x = tab[r].svrpos
    BY <2>1
  <2>4. /\ tab'[r].svrpos = x /\ svr'[x].id = svr[x].id
        /\ Clean' => tab'[r].svrid = tab[r].svrid
    BY <2>3 DEF TabKept, SvrKept
  <2>5. op'.at # "down" => ~(op'.at = "one" /\ op'.row = x)
    BY <2>2, <2>3 DEF Trial
  <2> QED
    BY <1>0, <2>2, <2>3, <2>4, <2>5
<1>2. Served'
  BY <1>1 DEF Served, Trial
<1> QED
  BY <1>1, <1>2 DEF Owned, Barred

LEMMA ProcFrame ==
    ASSUME OrderInv, TabKept,
           \A p \in Pids : proc'[p].st \in {"none", "run", "term", "zombie"},
           \A p \in Pids : proc'[p].st = "run" => proc[p].st = "run" /\ proc'[p].id = proc[p].id
    PROVE  Manned'
<1>1. Clean' => Clean
  BY DEF TabKept, Clean
<1> QED
  BY <1>1 DEF OrderInv, Manned, TabKept

\* A worker of the server in row t is forked into pid row e, which no running
\* worker has.
LEMMA Forked ==
    ASSUME TypeOK, OrderInv, SvrKept, NEW e \in PidIx, NEW t \in SvrIx, NEW q \in Pids, NEW n,
           n = svr[t].id, n # -1, Clean' => n \notin exited', exited' \subseteq exited,
           struck \subseteq struck', OthersKept(e),
           tab'[e].pid = q, tab'[e].svrpos = t, Clean' => tab'[e].svrid = n,
           proc'[q].st = "run", proc'[q].id = n,
           \A p \in Pids \ {q} : /\ proc'[p].st \in {"none", "run", "term", "zombie"}
                                 /\ proc'[p].st = "run" => /\ proc[p].st = "run" /\ tab[e].pid # p
                                                           /\ proc'[p].id = proc[p].id,
           op'.at \notin {"boot", "down", "one"}, op.at \notin {"boot", "down"}
    PROVE  Served' /\ Owned' /\ Barred' /\ Manned'
<1>0. (Clean' => Clean) /\ \A r \in PidIx \ {e} : /\ tab'[r].pid = tab[r].pid
                                                  /\ tab'[r].svrpos = tab[r].svrpos
                                                  /\ Clean' => tab'[r].svrid = tab[r].svrid
  BY DEF Clean, OthersKept
<1>1. \A r \in PidIx : tab[r].pid # NoPid =>
        /\ tab[r].svrpos \in SvrIx /\ svr[tab[r].svrpos].id # -1
        /\ Clean => /\ tab[r].svrid # -1
                    /\ svr[tab[r].svrpos].id = tab[r].svrid /\ tab[r].svrid \notin exited
  BY DEF TypeOK, OrderInv, Served, Owned, Barred
<1>2. ASSUME NEW r \in PidIx, tab'[r].pid # NoPid
      PROVE  /\ svr'[tab'[r].svrpos].id # -1
             /\ Clean' => /\ tab'[r].svrid # -1 /\ svr'[tab'[r].svrpos].id = tab'[r].svrid
                          /\ tab'[r].svrid \notin exited'
  <2>1. CASE r = e
    BY <2>1 DEF SvrKept
  <2>2. CASE r # e
    BY <1>0, <1>1, <1>2, <2>2 DEF SvrKept
  <2> QED
    BY <2>1, <2>2
<1>3. Served' /\ Owned' /\ Barred'
  BY <1>2 DEF Served, Owned, Barred, Trial
<1>4. ASSUME NEW p \in Pids, proc'[p].st = "run", Clean'
      PROVE  \E r \in PidIx : tab'[r].pid = p /\ tab'[r].svrid = proc'[p].id
  <2>1. CASE p = q
    BY <1>4, <2>1
  <2>2. CASE p # q
    <3>1. proc[p].st = "run" /\ tab[e].pid # p /\ proc'[p].id = proc[p].id
      BY <1>4, <2>2
    <3>2. PICK r \in PidIx : tab[r].pid = p /\ tab[r].svrid = proc[p].id
      BY <1>0, <1>4, <3>1 DEF OrderInv, Manned
    <3> QED
      BY <1>0, <1>4, <3>1, <3>2
  <2> QED
    BY <2>1, <2>2
<1>5. Manned'
  BY <1>4 DEF Manned
<1> QED
  BY <1>3, <1>5

\* server_kill of the rows R.
LEMMA Killed ==
    ASSUME TypeOK, OrderInv, NEW R \in SUBSET PidIx, tab' = ClearedRows(R), struck' = struck,
           \A p \in Pids : proc'[p] = Terminated(R)[p]
    PROVE  /\ Manned'
           /\ \A r \in PidIx : tab'[r].pid # NoPid => r \notin R /\ tab'[r] = tab[r]
<1>1. \A r \in PidIx : tab'[r].pid # NoPid => r \notin R /\ tab'[r] = tab[r]
  BY DEF ClearedRows, ClearedTab
<1>0. Clean' = Clean
  BY DEF Clean
<1>2. ASSUME NEW p \in Pids
      PROVE  /\ proc'[p].st \in {"none", "run", "term", "zombie"}
             /\ proc'[p].st = "run" => proc'[p] = proc[p] /\ \A r \in R : tab[r].pid # p
  <2>1. proc[p].st \in {"none", "run", "term", "zombie"} /\ proc[p] \in Procs
    BY DEF OrderInv, Manned, TypeOK
  <2>2. CASE (\E r \in R : tab[r].pid \in {p, NoPid}) /\ proc[p].st \in Alive
    <3>1. proc'[p] = [proc[p] EXCEPT !.st = "term"]
      BY <2>2 DEF Terminated
    <3> QED
      BY <2>1, <3>1 DEF Procs
  <2>3. CASE ~((\E r \in R : tab[r].pid \in {p, NoPid}) /\ proc[p].st \in Alive)
    <3>1. proc'[p] = proc[p]
      BY <2>3 DEF Terminated
    <3> QED
      BY <2>1, <2>3, <3>1 DEF Alive
  <2> QED
    BY <2>2, <2>3
<1>3. ASSUME NEW p \in Pids, proc'[p].st = "run", Clean
      PROVE  \E r \in PidIx : tab'[r].pid = p /\ tab'[r].svrid = proc'[p].id
  <2>1. proc'[p] = proc[p] /\ \A r \in R : tab[r].pid # p
    BY <1>2, <1>3
  <2>2. PICK r \in PidIx : tab[r].pid = p /\ tab[r].svrid = proc[p].id
    BY <1>3, <2>1 DEF OrderInv, Manned
  <2>3. tab'[r] = tab[r]
    BY <2>1, <2>2 DEF ClearedRows
  <2> QED
    BY <2>1, <2>2, <2>3
<1> QED
  BY <1>0, <1>1, <1>2, <1>3 DEF Manned
-----------------------------------------------------------------------------

\* server_deatch re-reads a row from the line it was made of.
LEMMA ReloadSame ==
    ASSUME Orderly, TypeOK, OrderInv, IsIdle, NEW t \in SvrIx, svr[t].id # -1,
           NEW s \in [SvrIx -> SvrRows],
           \A k \in SvrIx : s[k].id = svr[k].id /\ s[k].name = svr[k].name
    PROVE  \A k \in SvrIx : /\ reload_server_param(s, t)[k].id = svr[k].id
                            /\ reload_server_param(s, t)[k].name = svr[k].name
<1> DEFINE S == {k \in SvrIx : k <= Len(cfg) /\ s[k].id = s[t].id}
           i == FirstOrZero(S)
<1>1. i # 0 => i \in S
  <2>1. S \subseteq SvrIx
    OBVIOUS
  <2> HIDE DEF S
  <2> QED
    BY <2>1, FirstOrZeroIsRow
<1>2. CASE i = 0
  BY <1>2 DEF reload_server_param
<1>3. CASE i # 0
  <2>1. i \in SvrIx /\ i <= Len(cfg) /\ svr[i].id = svr[t].id
    BY <1>1, <1>3
  <2> HIDE DEF i
  <2>2. ~Trial(i) /\ ~Trial(t) /\ Paired /\ cfg \in Cfgs
    BY DEF IsIdle, Trial, OrderInv, TypeOK
  <2>3. i = t
    BY <2>1, <2>2, PairedRows
  <2>4. t \in DOMAIN cfg
    BY <2>1, <2>2, <2>3, CfgAssumption, SizeAssumption DEF SvrIx, PidIx
  <2>5. cfg[t].id = svr[t].id /\ cfg[t].name = svr[t].name
    BY <2>2, <2>4, PairedLine
  <2>6. reload_server_param(s, t) = register_server(s, t, cfg[i])
    BY <1>3 DEF reload_server_param, i
  <2>7. reload_server_param(s, t) = s \/ reload_server_param(s, t) = [s EXCEPT ![t] = Registered(@, cfg[t])]
    BY <2>3, <2>6 DEF register_server
  <2>8. ASSUME NEW k \in SvrIx
        PROVE  /\ reload_server_param(s, t)[k].id = svr[k].id
               /\ reload_server_param(s, t)[k].name = svr[k].name
    BY <2>5, <2>7 DEF Registered
  <2> QED
    BY <2>8
<1> QED
  BY <1>2, <1>3

\* Marking, counting and typing a row leave its id and its name.
LEMMA MarkSame ==
    ASSUME NEW s \in [SvrIx -> SvrRows], NEW t \in SvrIx, NEW k \in SvrIx
    PROVE  MarkIfEmpty(s, t)[k].id = s[k].id /\ MarkIfEmpty(s, t)[k].name = s[k].name
BY DEF MarkIfEmpty, tux_deletesvc, SvrRows

LEMMA CountedSame ==
    ASSUME TypeOK, NEW t \in SvrIx
    PROVE  \A k \in SvrIx : Counted(t).s[k].id = svr[k].id /\ Counted(t).s[k].name = svr[k].name
  BY DEF Counted, SvrRows, TypeOK

\* waitpid forgets a dead child, and nothing else changes.
LEMMA ReportedDead ==
    ASSUME TypeOK, OrderInv, NEW p \in Pids, Reportable(p)
    PROVE  /\ proc[p].st = "zombie" /\ Reported(p)[p].st = "none"
           /\ \A x \in Pids \ {p} : Reported(p)[x] = proc[x]
<1>1. proc[p].st = "zombie"
  BY DEF Reportable, OrderInv, Manned
<1> QED
  BY <1>1 DEF Reported, NoProc, TypeOK

LEMMA ReapOrder ==
    ASSUME Orderly, TypeOK, TypeOK', OrderInv, Reap
    PROVE  OrderInv'
<1>1. PICK p \in Pids : \/ ReapUnknown(p) \/ ReapGiveUp(p) \/ ReapRestart(p) \/ ReapForkFails(p)
                        \/ ReapFault(p)
  BY DEF Reap
<1>2. /\ IsIdle /\ Reportable(p) /\ exited' = exited
      /\ op' = op \/ op' = Ended
      /\ struck \subseteq struck'
  <2>1. CASE ReapUnknown(p)
    BY <2>1, Zenon DEF ReapUnknown
  <2>2. CASE ReapGiveUp(p)
    BY <2>2, Zenon DEF ReapGiveUp
  <2>3. CASE ReapRestart(p)
    <3>1. IsIdle /\ Reportable(p) /\ exited' = exited /\ op' = op /\ Strikes(server_find_pid(p))
      BY <2>3, Zenon DEF ReapRestart
    <3> QED
      BY <3>1, StrikesType
  <2>4. CASE ReapForkFails(p)
    BY <2>4, Zenon DEF ReapForkFails
  <2>5. CASE ReapFault(p)
    BY <2>5, Zenon DEF ReapFault
  <2> QED
    BY <1>1, <2>1, <2>2, <2>3, <2>4, <2>5
<1>e. op.at = "idle" /\ op'.at \in {"idle", "failed"}
  BY <1>2 DEF IsIdle, Ended, Idle
<1>f. \A x \in SvrIx : ~Trial(x)' /\ ~Trial(x)
  BY <1>e DEF Trial
<1>3. /\ proc[p].st = "zombie" /\ Reported(p)[p].st = "none"
      /\ \A x \in Pids \ {p} : Reported(p)[x] = proc[x]
  BY <1>2, ReportedDead
<1>4. \A x \in Pids : proc[x].st \in {"none", "run", "term", "zombie"}
  BY DEF OrderInv, Manned
<1>5. CASE ReapUnknown(p)
  <2>1. svr' = svr /\ tab' = tab /\ proc' = Reported(p)
    BY <1>5 DEF ReapUnknown
  <2>2. SvrKept /\ TabKept
    BY <1>2, <2>1 DEF SvrKept, TabKept
  <2>3. Manned'
    BY <1>3, <1>4, <2>1, <2>2, ProcFrame
  <2>4. Paired' /\ Filled' /\ Subject' /\ Served' /\ Owned' /\ Barred'
    BY <1>2, <1>e, <1>f, <2>2, SvrFrame, TabFrame
  <2> QED
    BY <2>3, <2>4 DEF OrderInv
<1> SUFFICES ASSUME ReapGiveUp(p) \/ ReapRestart(p) \/ ReapForkFails(p) \/ ReapFault(p)
             PROVE  OrderInv'
  BY <1>1, <1>5
<1> DEFINE r == server_find_pid(p)
           t == tab[r].svrpos
           s == reload_server_param(Counted(t).s, t)
<1>a. r # 0
  BY Zenon DEF ReapGiveUp, ReapRestart, ReapForkFails, ReapFault
<1>b. ReapGiveUp(p) =>
        /\ proc' = Reported(p) /\ tab' = Counted(t).b
        /\ svr' = MarkIfEmpty([Counted(t).s EXCEPT ![t].type = SVR_TEMP], t)
  BY Zenon DEF ReapGiveUp
<1>c. ReapForkFails(p) =>
        /\ proc' = Reported(p) /\ tab' = [Counted(t).b EXCEPT ![r].tot = @ + 1]
        /\ svr' = MarkIfEmpty(s, t)
  BY Zenon DEF ReapForkFails
<1> DEFINE pr(q) == [Reported(p) EXCEPT ![q] = Child(s[t].id)]
           b(q) == [Counted(t).b EXCEPT ![r].tot = @ + 1, ![r].pid = q]
<1>d. ReapRestart(p) \/ ReapFault(p) =>
        /\ \E q \in Pids : /\ Reported(p)[q].st = "none"
                           /\ proc' = pr(q) \/ proc' = Orphaned(pr(q))
                           /\ tab' = b(q) \/ (Strikes(r) /\ tab' = Overrun(b(q), r, TUX_AVAIL))
        /\ svr' = s \/ svr' = MarkIfEmpty(SetStat(s, r, TUX_AVAIL), t)
  BY Zenon DEF ReapRestart, ReapFault
<1>6. r \in PidIx /\ t \in SvrIx /\ tab[r].pid = p
  BY <1>a, FoundRow
<1>7. tab[r].pid # NoPid
  BY <1>6, PidAssumption
<1> HIDE DEF r
<1>8. svr[t].id # -1 /\ (Clean => svr[t].id = tab[r].svrid /\ tab[r].svrid \notin exited)
  BY <1>6, <1>7, <1>e DEF OrderInv, Served, Owned, Barred
<1>9. tab[r].svrpos = t
  OBVIOUS
<1> HIDE DEF t
<1>10. /\ Counted(t).s \in [SvrIx -> SvrRows] /\ Counted(t).b \in [PidIx -> TabRows]
       /\ \A k \in SvrIx : Counted(t).s[k].id = svr[k].id /\ Counted(t).s[k].name = svr[k].name
       /\ \A k \in PidIx : /\ Counted(t).b[k].pid = tab[k].pid
                           /\ Counted(t).b[k].svrid = tab[k].svrid
                           /\ Counted(t).b[k].svrpos = tab[k].svrpos
  BY <1>6, CountedType, CountedSame
<1>11. /\ s \in [SvrIx -> SvrRows]
       /\ \A k \in SvrIx : s[k].id = svr[k].id /\ s[k].name = svr[k].name
  <2>1. cfg \in Cfgs
    BY DEF TypeOK
  <2> QED
    BY <1>2, <1>6, <1>8, <1>10, <2>1, ReloadSame, ReloadType
<1> HIDE DEF s
<1>12. CASE ReapGiveUp(p)
  <2>1. /\ proc' = Reported(p) /\ tab' = Counted(t).b
        /\ svr' = MarkIfEmpty([Counted(t).s EXCEPT ![t].type = SVR_TEMP], t)
    BY <1>b, <1>12
  <2>2. TabKept
    BY <1>2, <1>10, <2>1 DEF TabKept
  <2>3. SvrKept
    <3> DEFINE z == [Counted(t).s EXCEPT ![t].type = SVR_TEMP]
    <3>1. /\ z \in [SvrIx -> SvrRows]
          /\ \A k \in SvrIx : z[k].id = svr[k].id /\ z[k].name = svr[k].name
      BY <1>6, <1>10 DEF SvrRows, SVR_TEMP
    <3>2. svr' = MarkIfEmpty(z, t)
      BY <2>1
    <3> HIDE DEF z
    <3> QED
      BY <1>6, <3>1, <3>2, MarkSame DEF SvrKept
  <2>4. Manned'
    BY <1>3, <1>4, <2>1, <2>2, ProcFrame
  <2>5. Paired' /\ Filled' /\ Subject' /\ Served' /\ Owned' /\ Barred'
    BY <1>2, <1>e, <1>f, <2>2, <2>3, SvrFrame, TabFrame
  <2> QED
    BY <2>4, <2>5 DEF OrderInv
<1>13. CASE ReapForkFails(p)
  <2>1. /\ proc' = Reported(p) /\ tab' = [Counted(t).b EXCEPT ![r].tot = @ + 1]
        /\ svr' = MarkIfEmpty(s, t)
    BY <1>c, <1>13
  <2>2. TabKept
    BY <1>2, <1>6, <1>10, <2>1 DEF TabKept, TabRows
  <2>3. SvrKept
    BY <1>6, <1>11, <2>1, MarkSame DEF SvrKept
  <2>4. Manned'
    BY <1>3, <1>4, <2>1, <2>2, ProcFrame
  <2>5. Paired' /\ Filled' /\ Subject' /\ Served' /\ Owned' /\ Barred'
    BY <1>2, <1>e, <1>f, <2>2, <2>3, SvrFrame, TabFrame
  <2> QED
    BY <2>4, <2>5 DEF OrderInv
<1>14. CASE ReapRestart(p) \/ ReapFault(p)
  <2>1. PICK q \in Pids :
          /\ Reported(p)[q].st = "none"
          /\ proc' = pr(q) \/ proc' = Orphaned(pr(q))
          /\ tab' = b(q) \/ (Strikes(r) /\ tab' = Overrun(b(q), r, TUX_AVAIL))
    BY <1>d, <1>14, Zenon
  <2>2. svr' = s \/ svr' = MarkIfEmpty(SetStat(s, r, TUX_AVAIL), t)
    BY <1>d, <1>14, Zenon
  <2>3. SvrKept
    <3> DEFINE z == SetStat(s, r, TUX_AVAIL)
    <3>0. TUX_AVAIL \in 0..4
      BY DEF TUX_AVAIL
    <3>1. /\ z \in [SvrIx -> SvrRows]
          /\ \A k \in SvrIx : z[k].id = svr[k].id /\ z[k].name = svr[k].name
      BY <1>6, <1>11, <3>0, SetStatType
    <3>2. svr' = s \/ svr' = MarkIfEmpty(z, t)
      BY <2>2
    <3> HIDE DEF z
    <3> QED
      BY <1>6, <1>11, <3>1, <3>2, MarkSame DEF SvrKept
  <2>4. PICK n : n = svr[t].id
    OBVIOUS
  <2>5. Restarted(r, t, q)
    BY <1>6, <2>1, RestartRow
  <2>6. Reported(p) \in [Pids -> Procs]
    BY ReportedType
  <2>7. pr(q)[q].st = "run" /\ pr(q)[q].id = n
    BY <1>6, <1>11, <2>4, <2>6 DEF Child
  <2>a. \A x \in Pids \ {q} : pr(q)[x] = Reported(p)[x]
    BY <2>6
  <2> HIDE DEF pr
  <2>b. proc'[q].st = "run" /\ proc'[q].id = n
    BY <2>1, <2>7 DEF Orphaned
  <2>8. ASSUME NEW x \in Pids \ {q}
        PROVE  /\ proc'[x].st \in {"none", "run", "term", "zombie"}
               /\ proc'[x].st = "run" => /\ proc[x].st = "run" /\ tab[r].pid # x
                                         /\ proc'[x].id = proc[x].id
    <3>1. pr(q)[x] = Reported(p)[x]
      BY <2>a, <2>8
    <3>2. proc'[x] = Reported(p)[x] \/ proc'[x] = NoProc
      BY <2>1, <3>1 DEF Orphaned
    <3>3. NoProc.st = "none"
      BY DEF NoProc
    <3> QED
      BY <1>3, <1>4, <1>6, <3>2, <3>3
  <2>9. n # -1 /\ exited' \subseteq exited /\ struck \subseteq struck' /\ OthersKept(r)
        /\ tab'[r].pid = q /\ tab'[r].svrpos = t
    BY <1>2, <1>8, <1>9, <2>4, <2>5 DEF Restarted
  <2>c. Clean' => tab'[r].svrid = n
    BY <1>8, <2>4, <2>5, <2>9 DEF Restarted, Clean
  <2>10. Served' /\ Owned' /\ Barred' /\ Manned'
    <3>1. Clean' => n \notin exited'
      BY <1>2, <1>8, <2>4 DEF Clean
    <3> QED
      BY <1>2, <1>6, <1>e, <2>3, <2>4, <2>b, <2>8, <2>9, <2>c, <3>1, Forked
  <2>11. Paired' /\ Filled' /\ Subject'
    BY <1>2, <2>3, SvrFrame
  <2> QED
    BY <2>10, <2>11 DEF OrderInv
<1> QED
  BY <1>12, <1>13, <1>14

LEMMA WorkerOrder ==
    ASSUME Orderly, TypeOK, OrderInv, WorkerStep \/ EditCfg
    PROVE  OrderInv'
<1>1. svr' = svr /\ tab' = tab /\ op' = op /\ exited' = exited /\ struck' = struck
  BY DEF WorkerStep, Crash, Stop, Continue, TermExit, EditCfg
<1>2. SvrKept /\ TabKept
  BY <1>1 DEF SvrKept, TabKept
<1>3. \A p \in Pids : proc[p].st \in {"none", "run", "term", "zombie"}
  BY DEF OrderInv, Manned
<1>4. /\ \A p \in Pids : proc'[p].st \in {"none", "run", "term", "zombie"}
      /\ \A p \in Pids : proc'[p].st = "run" => proc[p].st = "run" /\ proc'[p].id = proc[p].id
  <2>1. CASE proc' = proc
    BY <1>3, <2>1
  <2>2. ASSUME NEW p \in Pids, proc' = Gone(p)
        PROVE  /\ \A x \in Pids : proc'[x].st \in {"none", "run", "term", "zombie"}
               /\ \A x \in Pids : proc'[x].st = "run" => proc[x].st = "run" /\ proc'[x].id = proc[x].id
    BY <1>3, <2>2 DEF Gone, NoProc, TypeOK, Procs
  <2>3. CASE \E p \in Pids : Stop(p) \/ Continue(p)
    BY <1>3, <2>3 DEF Stop, Continue, Orderly
  <2> QED
    BY <2>1, <2>2, <2>3 DEF WorkerStep, Crash, TermExit, EditCfg
<1>5. Manned'
  BY <1>2, <1>4, ProcFrame
<1>6. Paired' /\ Filled' /\ Subject' /\ Served' /\ Owned' /\ Barred'
  BY <1>1, <1>2, SvrFrame, TabFrame DEF Trial
<1> QED
  BY <1>5, <1>6 DEF OrderInv

\* Entering server_run for a row in use that is not barred.
LEMMA RunEntered ==
    ASSUME TypeOK, OrderInv, NEW t \in SvrIx, NEW c, SvrKept, svr[t].id # -1, svr[t].id \notin exited,
           UNCHANGED <<tab, proc, exited, struck>>, c = "load" => exited = {},
           op'.at = "run", op'.row = t, op'.for = c, op.at \in {"load", "fresh"}
    PROVE  OrderInv'
<1>1. TabKept /\ \A x \in SvrIx : ~Trial(x)' /\ ~Trial(x)
  BY DEF TabKept, Trial
<1>2. Served' /\ Owned' /\ Barred'
  BY <1>1, TabFrame
<1>3. Manned'
  BY DEF Manned, OrderInv, Clean
<1>4. Paired' /\ Filled' /\ Subject'
  BY <1>1 DEF OrderInv, Paired, Filled, Subject, SvrKept
<1> QED
  BY <1>2, <1>3, <1>4 DEF OrderInv

LEMMA BootOrder ==
    ASSUME Orderly, TypeOK, TypeOK', OrderInv, Boot
    PROVE  OrderInv'
<1>a. UNCHANGED <<tab, proc, exited, struck, cfg>> /\ cfg \in Cfgs /\ cfg \in Seq(Lines) /\ TabKept
  BY CfgAssumption DEF Boot, LoadLine, LoadDone, LoadRow, TypeOK, TabKept
<1>b. Paired /\ Filled /\ Served /\ Owned /\ Manned /\ Barred /\ Subject
  BY DEF OrderInv
<1>c. Manned'
  BY <1>a, <1>b DEF Manned, Clean
<1>d. op \in Ops /\ op.row \in Nat /\ op.line \in Nat /\ svr \in [SvrIx -> SvrRows]
  BY DEF TypeOK, Ops
<1>1. CASE LoadLine
  <2>1. op.at = "boot" /\ op.row <= NS /\ op.line <= Len(cfg)
    BY <1>1 DEF LoadLine
  <2>2. op.row >= 1 /\ op.line = op.row
    BY <1>b, <2>1 DEF TypeOK, Filled
  <2>3. op.row \in SvrIx /\ op.row \in DOMAIN cfg
    BY <1>a, <1>d, <2>1, <2>2, SizeAssumption DEF SvrIx, PidIx
  <2>4. PICK k \in SvrIx : k = op.row
    BY <2>3
  <2>5. cfg[k].parse = "ok" /\ cfg[k] \in Lines
    BY <1>a, <2>3, <2>4 DEF Orderly
  <2>6. svr' = [svr EXCEPT ![k] = Registered(@, cfg[k])]
    BY <1>1, <2>2, <2>4, <2>5 DEF LoadLine, register_server
  <2>7. op' = [op EXCEPT !.row = @ + 1, !.line = @ + 1]
    BY <1>1, <2>2, <2>4, <2>5 DEF LoadLine
  <2>8. op'.at = "boot" /\ op'.row = k + 1 /\ op'.line = k + 1
    BY <1>d, <2>1, <2>2, <2>4, <2>7 DEF Ops
  <2>9. /\ \A t \in SvrIx \ {k} : svr'[t] = svr[t]
        /\ svr'[k].id = cfg[k].id /\ svr'[k].name = cfg[k].name /\ svr'[k].id # -1
    BY <1>d, <2>5, <2>6 DEF Registered, Lines
  <2>10. Paired'
    <3> SUFFICES ASSUME NEW t \in SvrIx, svr'[t].id # -1
                 PROVE \E c \in Cfgs : t \in DOMAIN c /\ svr'[t].id = c[t].id /\ svr'[t].name = c[t].name
      BY DEF Paired
    <3>1. CASE t = k
      BY <1>a, <2>3, <2>4, <2>9, <3>1
    <3>2. CASE t # k
      BY <1>b, <2>1, <2>9, <3>2 DEF Paired, Trial
    <3> QED
      BY <3>1, <3>2
  <2>11. Filled'
    <3>1. ASSUME NEW t \in SvrIx, t < k + 1 PROVE svr'[t].id # -1
      <4>1. CASE t = k
        BY <2>9, <4>1
      <4>2. CASE t # k
        <5>1. t < k
          BY <3>1, <4>2, SizeAssumption DEF SvrIx, PidIx
        <5> QED
          BY <1>b, <2>1, <2>4, <2>9, <4>2, <5>1 DEF Filled
      <4> QED
        BY <4>1, <4>2
    <3> QED
      BY <2>8, <3>1 DEF Filled
  <2>12. Served' /\ Owned' /\ Barred' /\ Subject'
    BY <1>a, <1>b, <2>1, <2>8 DEF Served, Owned, Barred, Subject, Clean, Trial
  <2> QED
    BY <1>c, <2>10, <2>11, <2>12 DEF OrderInv
<1>2. CASE LoadDone
  <2>1. op.at = "boot" /\ op.line = op.row /\ svr' = svr /\ (op.row > NS \/ op.line > Len(cfg))
    BY <1>2, <1>b DEF LoadDone, Filled
  <2>2. op'.at = "load"
    BY <1>2 DEF LoadDone, Idle
  <2>3. \A t \in SvrIx : t <= Len(cfg) => svr[t].id # -1
    <3> SUFFICES ASSUME NEW t \in SvrIx, t <= Len(cfg) PROVE svr[t].id # -1
      OBVIOUS
    <3>1. t < op.row
      BY <1>a, <1>d, <2>1, SizeAssumption DEF SvrIx, PidIx
    <3> QED
      BY <1>b, <2>1, <3>1 DEF Filled
  <2>4. Filled'
    BY <1>a, <2>1, <2>2, <2>3 DEF Filled
  <2>5. Paired'
    BY <1>b, <2>1 DEF Paired, Trial
  <2>6. Served' /\ Owned' /\ Barred' /\ Subject'
    BY <1>a, <1>b, <2>1, <2>2 DEF Served, Owned, Barred, Subject, Clean, Trial
  <2> QED
    BY <1>c, <2>4, <2>5, <2>6 DEF OrderInv
<1>3. CASE LoadRow
  <2>1. op.at = "load" /\ exited = {}
    BY <1>3, <1>b DEF LoadRow, Subject
  <2>2. CASE svr' = svr /\ op'.at \in {"idle", "load"}
    <3>1. Paired' /\ Filled'
      BY <1>b, <2>1, <2>2 DEF Paired, Filled, Trial
    <3>2. Served' /\ Owned' /\ Barred' /\ Subject'
      BY <1>a, <1>b, <2>1, <2>2 DEF Served, Owned, Barred, Subject, Clean, Trial
    <3> QED
      BY <1>c, <3>1, <3>2 DEF OrderInv
  <2>3. CASE op.row <= NS /\ svr[op.row].id # -1 /\ server_run(svr, op.row, "load")
    <3>1. op.row \in SvrIx
      BY <1>d, <2>1, <2>3, SizeAssumption DEF TypeOK, SvrIx, PidIx
    <3>2. PICK k \in SvrIx : k = op.row
      BY <3>1
    <3>3. svr' = [svr EXCEPT ![k].type = SVR_PERM] /\ op'.at = "run" /\ op'.row = k /\ op'.for = "load"
      BY <1>d, <2>3, <3>2 DEF server_run, Ops
    <3>4. SvrKept
      BY <1>d, <3>3 DEF SvrKept, SvrRows
    <3> QED
      BY <1>a, <2>1, <2>3, <3>2, <3>3, <3>4, RunEntered
  <2> QED
    <3>1. \/ op.row > NS /\ op' = Idle /\ svr' = svr
          \/ op.row <= NS /\ svr[op.row].id = -1 /\ op' = [op EXCEPT !.row = @ + 1] /\ svr' = svr
          \/ op.row <= NS /\ svr[op.row].id # -1 /\ server_run(svr, op.row, "load")
      BY <1>3, <1>d, SizeAssumption DEF LoadRow
    <3> QED
      BY <1>d, <2>1, <2>2, <2>3, <3>1 DEF Idle, Ops
<1> QED
  BY <1>1, <1>2, <1>3 DEF Boot
\* server_run ends: its caller goes on.
LEMMA RunLeft ==
    ASSUME TypeOK, OrderInv, TabKept, UNCHANGED <<svr, exited>>, op.at = "run",
           \/ op'.at = "idle"
           \/ op'.at = "load" /\ op.for = "load"
           \/ op'.at = "fresh" /\ op'.row = op.row
    PROVE  Paired' /\ Filled' /\ Subject' /\ Served' /\ Owned' /\ Barred'
<1>1. SvrKept /\ \A x \in SvrIx : ~Trial(x)' /\ ~Trial(x)
  BY DEF SvrKept, Trial
<1>2. Served' /\ Owned' /\ Barred'
  BY <1>1, TabFrame
<1>3. Paired' /\ Filled' /\ Subject'
  BY <1>1 DEF OrderInv, Paired, Filled, Subject
<1> QED
  BY <1>2, <1>3

LEMMA RunOrder ==
    ASSUME TypeOK, TypeOK', OrderInv, RunStep, ~RunFails
    PROVE  OrderInv'
<1>a. op \in Ops /\ svr \in [SvrIx -> SvrRows] /\ op.at = "run" /\ exited' = exited
      /\ struck' = struck
  <2>1. op \in Ops /\ svr \in [SvrIx -> SvrRows]
    BY DEF TypeOK
  <2>2. op.at = "run" /\ exited' = exited /\ struck' = struck
    <3>1. CASE RunFork
      BY <3>1, Zenon DEF RunFork
    <3>2. CASE RunForkFails
      BY <3>2, Zenon DEF RunForkFails
    <3>3. CASE RunLimit \/ RunDone
      BY <3>3, Zenon DEF RunLimit, RunDone
    <3> QED
      BY <3>1, <3>2, <3>3 DEF RunStep
  <2> QED
    BY <2>1, <2>2
<1>b. op.row \in SvrIx /\ op.for \in {"load", "one", "fresh"}
  BY <1>a DEF TypeOK, Ops
<1>c. svr[op.row].id # -1 /\ svr[op.row].id \notin exited
  BY <1>a DEF OrderInv, Subject
<1>d. \A p \in Pids : proc[p].st \in {"none", "run", "term", "zombie"}
  BY DEF OrderInv, Manned
<1>1. CASE RunFork
  <2> DEFINE e == server_get_pidentry
  <2>1. e \in PidIx /\ tab[e].pid = NoPid
    BY <1>1, PidEntry DEF RunFork
  <2>2. PICK k, n : k \in SvrIx /\ k = op.row /\ n = svr[k].id
    BY <1>b
  <2>a. PICK q \in Pids :
          /\ tab' = [tab EXCEPT ![e] = [@ EXCEPT !.pid = q, !.svrid = svr[op.row].id,
                                                 !.svrpos = op.row]]
          /\ proc' = [proc EXCEPT ![q] = Child(svr[op.row].id)]
    BY <1>1, Zenon DEF RunFork, FreePids
  <2> HIDE DEF e
  <2>3. /\ tab' = [tab EXCEPT ![e] = [@ EXCEPT !.pid = q, !.svrid = n, !.svrpos = k]]
        /\ proc' = [proc EXCEPT ![q] = Child(n)]
    BY <2>2, <2>a
  <2>4. SvrKept
    BY <1>1, <1>a, <1>b DEF RunFork, SvrKept, SvrRows
  <2>5. /\ tab'[e].pid = q /\ tab'[e].svrid = n /\ tab'[e].svrpos = k
        /\ \A r \in PidIx \ {e} : tab'[r] = tab[r]
    BY <2>1, <2>3 DEF TypeOK, TabRows
  <2>6. /\ proc'[q].st = "run" /\ proc'[q].id = n
        /\ \A p \in Pids \ {q} : proc'[p] = proc[p]
    BY <2>3 DEF TypeOK, Child
  <2>7. op'.at = "run" /\ op'.row = op.row /\ op'.for = op.for
    BY <1>1, <1>a DEF RunFork, Ops
  <2>8. n # -1 /\ n \notin exited /\ n = svr[k].id
    BY <1>c, <2>2
  <2>9. \A p \in Pids : tab[e].pid # p
    BY <2>1, PidAssumption
  <2>10. Served' /\ Owned' /\ Barred' /\ Manned'
    <3>1. OthersKept(e) /\ struck \subseteq struck' /\ exited' \subseteq exited
      BY <1>a, <2>5 DEF OthersKept
    <3> QED
      BY <1>a, <1>d, <2>1, <2>2, <2>4, <2>5, <2>6, <2>7, <2>8, <2>9, <3>1, Forked
  <2>11. Paired' /\ Filled' /\ Subject'
    <3>1. \A x \in SvrIx : ~Trial(x)' /\ ~Trial(x)
      BY <1>a, <2>7 DEF Trial
    <3>2. Paired' /\ Filled'
      BY <1>a, <2>4, <2>7, <3>1 DEF OrderInv, Paired, Filled, SvrKept
    <3>3. Subject'
      BY <1>a, <1>b, <2>4, <2>7 DEF OrderInv, Subject, SvrKept
    <3> QED
      BY <3>2, <3>3
  <2> QED
    BY <2>10, <2>11 DEF OrderInv
<1>2. CASE RunForkFails \/ RunLimit \/ RunDone
  <2>1. TabKept \/ RunForkFails
    BY <1>2, <1>a DEF RunLimit, RunDone, TabKept
  <2>2. proc' = proc
    BY <1>2 DEF RunForkFails, RunLimit, RunDone
  <2>3. /\ svr' = svr
        /\ \/ op'.at = "idle"
           \/ op'.at = "load" /\ op.for = "load"
           \/ op'.at = "fresh" /\ op'.row = op.row
    <3>1. Returned(TRUE) \/ (Returned(FALSE) /\ op.for = "load")
      BY <1>2, <1>b DEF RunFails, RunForkFails, RunLimit, RunDone
    <3>2. \/ op.for = "load" /\ op' = [op EXCEPT !.at = "load", !.row = @ + 1] /\ svr' = svr
          \/ op' = [op EXCEPT !.at = "fresh", !.line = @ + 1] /\ svr' = svr
          \/ op' = Idle /\ svr' = svr
      BY <3>1, Zenon DEF Returned
    <3>3. CASE op.for = "load" /\ op' = [op EXCEPT !.at = "load", !.row = @ + 1] /\ svr' = svr
      BY <1>a, <3>3 DEF Ops
    <3>4. CASE op' = [op EXCEPT !.at = "fresh", !.line = @ + 1] /\ svr' = svr
      BY <1>a, <3>4 DEF Ops
    <3>5. CASE op' = Idle /\ svr' = svr
      BY <3>5 DEF Idle
    <3> QED
      BY <3>2, <3>3, <3>4, <3>5
  <2>4. CASE TabKept
    <3>1. Manned'
      BY <1>d, <2>2, <2>4, ProcFrame
    <3>2. Paired' /\ Filled' /\ Subject' /\ Served' /\ Owned' /\ Barred'
      BY <1>a, <2>3, <2>4, RunLeft
    <3> QED
      BY <3>1, <3>2 DEF OrderInv
  <2>5. CASE RunForkFails
    <3> DEFINE e == server_get_pidentry
    <3>1. e \in PidIx /\ tab[e].pid = NoPid /\ tab' = [tab EXCEPT ![e] = ClearedTab]
      BY <2>5, PidEntry DEF RunForkFails
    <3> HIDE DEF e
    <3>2. tab'[e].pid = NoPid /\ \A r \in PidIx \ {e} : tab'[r] = tab[r]
      BY <3>1 DEF TypeOK, ClearedTab
    <3>3. Manned'
      <4>1. \A p \in Pids : p # NoPid
        BY PidAssumption
      <4> QED
        BY <1>a, <2>2, <3>1, <3>2, <4>1 DEF OrderInv, Manned, Clean
    <3>4. Served' /\ Owned' /\ Barred'
      <4>1. \A r \in PidIx : tab'[r].pid # NoPid => tab[r].pid # NoPid /\ tab'[r] = tab[r]
        BY <3>1, <3>2
      <4>2. op'.at \notin {"boot", "down", "one"}
        BY <2>3
      <4> QED
        BY <1>a, <2>3, <4>1, <4>2 DEF OrderInv, Served, Owned, Barred, Trial, Clean
    <3>5. Paired' /\ Filled' /\ Subject'
      <4>1. \A x \in SvrIx : ~Trial(x)' /\ ~Trial(x)
        BY <1>a, <2>3 DEF Trial
      <4> QED
        BY <1>a, <2>3, <4>1 DEF OrderInv, Paired, Filled, Subject
    <3> QED
      BY <3>3, <3>4, <3>5 DEF OrderInv
  <2> QED
    BY <2>1, <2>4, <2>5
<1> QED
  BY <1>1, <1>2 DEF RunStep

\* tmexit and tmfresh mark a row and kill the workers of its id.
LEMMA KillOrder ==
    ASSUME TypeOK, OrderInv, IsIdle, NEW id \in CmdIds, Orderly, SvrKept,
           server_kill(Matches(id)), struck' = struck,
           NEW t \in SvrIx, svr[t].id = id,
           \/ op' = op /\ exited' = exited \cup {id}
           \/ op'.at = "fresh" /\ op'.row = t /\ exited' = exited \ {id}
    PROVE  OrderInv'
<1>1. id # -1 /\ id # TUX_DEAD
  <2>1. id # -1
    BY CfgAssumption
  <2>2. ~Trial(t) /\ Paired
    BY DEF IsIdle, Trial, OrderInv
  <2>3. PICK c \in Cfgs : t \in DOMAIN c /\ svr[t].id = c[t].id
    BY <2>1, <2>2 DEF Paired
  <2> QED
    BY <2>1, <2>3 DEF Orderly
<1>2. Matches(id) \in SUBSET PidIx /\ \A r \in PidIx : tab[r].svrid = id => r \in Matches(id)
  BY <1>1 DEF Matches
<1>3. tab' = ClearedRows(Matches(id)) /\ proc' = Terminated(Matches(id))
  BY DEF server_kill
<1>4. /\ Manned'
      /\ \A r \in PidIx : tab'[r].pid # NoPid => r \notin Matches(id) /\ tab'[r] = tab[r]
  BY <1>2, <1>3, Killed
<1>5. op.at = "idle" /\ op'.at \in {"idle", "fresh"}
  BY DEF IsIdle
<1>6. Served' /\ Owned' /\ Barred'
  <2>0. Clean' = Clean
    BY DEF Clean
  <2>1. ASSUME NEW r \in PidIx, tab'[r].pid # NoPid
        PROVE  /\ svr'[tab'[r].svrpos].id # -1
               /\ Clean => /\ tab'[r].svrid # -1 /\ svr'[tab'[r].svrpos].id = tab'[r].svrid
                           /\ tab'[r].svrid \notin exited'
    <3>1. tab'[r] = tab[r] /\ tab[r].pid # NoPid /\ tab[r].svrid # id
      BY <1>2, <1>4, <2>1
    <3>2. /\ tab[r].svrpos \in SvrIx /\ svr[tab[r].svrpos].id # -1
          /\ Clean => /\ tab[r].svrid # -1
                      /\ svr[tab[r].svrpos].id = tab[r].svrid /\ tab[r].svrid \notin exited
      BY <1>5, <3>1 DEF TypeOK, OrderInv, Served, Owned, Barred
    <3> QED
      BY <3>1, <3>2 DEF SvrKept
  <2> QED
    BY <1>5, <2>0, <2>1 DEF Served, Owned, Barred, Trial
<1>7. Paired' /\ Filled' /\ Subject'
  <2>1. \A x \in SvrIx : ~Trial(x)' /\ ~Trial(x)
    BY <1>5 DEF Trial
  <2>2. Paired' /\ Filled'
    BY <1>5, <2>1 DEF OrderInv, Paired, Filled, SvrKept
  <2>3. Subject'
    BY <1>1, <1>5 DEF Subject, SvrKept
  <2> QED
    BY <2>2, <2>3
<1> QED
  BY <1>4, <1>6, <1>7 DEF OrderInv
\* The first free server row comes after rows that are in use.
LEMMA FirstFree ==
    ASSUME server_get_identry # 0
    PROVE  /\ server_get_identry \in SvrIx /\ svr[server_get_identry].id = -1
           /\ \A k \in SvrIx : k < server_get_identry => svr[k].id # -1
<1> DEFINE S == {r \in SvrIx : svr[r].id = -1}
<1>1. server_get_identry \in S
  BY FirstOrZeroIsRow DEF server_get_identry
<1>2. server_get_identry = SmallestOf(S)
  BY DEF server_get_identry, FirstOrZero
<1>3. \A y \in S : SmallestOf(S) <= y
  <2>1. S \in SUBSET (Nat \ {0}) /\ S # {}
    BY <1>1, RowsNat
  <2> HIDE DEF S
  <2> QED
    BY <2>1, SmallestLeast
<1>4. ASSUME NEW k \in SvrIx, k < server_get_identry PROVE svr[k].id # -1
  <2>1. k \in Nat /\ server_get_identry \in Nat
    BY <1>1, SizeAssumption DEF SvrIx, PidIx
  <2>2. ~(server_get_identry <= k)
    BY <1>4, <2>1
  <2> QED
    BY <1>2, <1>3, <2>2
<1> QED
  BY <1>1, <1>4

LEMMA CommandOrder ==
    ASSUME Orderly, TypeOK, TypeOK', OrderInv, Commands
    PROVE  OrderInv'
<1>1. PICK id \in CmdIds : StartMore(id) \/ StartMoreFails(id) \/ StartNew(id)
                             \/ StartFault(id) \/ CmdExit(id) \/ CmdFresh(id)
  BY DEF Commands
<1>2. IsIdle /\ op.at = "idle"
  <2>1. Command
    BY <1>1, Zenon DEF StartMore, StartMoreFails, StartNew, StartFault, CmdExit, CmdFresh
  <2> QED
    BY <2>1 DEF Command, IsIdle
<1>3. id # -1 /\ id \in Nat
  BY CfgAssumption
<1>4. \A p \in Pids : proc[p].st \in {"none", "run", "term", "zombie"}
  BY DEF OrderInv, Manned
<1>5. svr \in [SvrIx -> SvrRows]
  BY DEF TypeOK
<1> DEFINE t == find_server_id(id)
           e == server_get_pidentry
<1>6. ASSUME NEW c \in SvrIx
      PROVE  LET x == [svr EXCEPT ![c].type = SVR_PERM]
             IN  x \in [SvrIx -> SvrRows] /\ \A k \in SvrIx : x[k].id = svr[k].id /\ x[k].name = svr[k].name
  BY <1>5 DEF SvrRows, SVR_PERM
<1>i. TUX_IDLE \in 0..4
  BY DEF TUX_IDLE
<1>7. CASE StartMore(id)
  <2>1. t # 0 /\ e # 0 /\ exited' = exited \ {id} /\ op' = op /\ Strikes(e)
    BY <1>7, Zenon DEF StartMore
  <2>2. PICK q \in Pids :
          /\ tab' = [Overrun(Assigned(e, id, t), e, TUX_IDLE) EXCEPT ![e].pid = q]
          /\ proc' = [proc EXCEPT ![q] = Child(id)]
    BY <1>7, Zenon DEF StartMore, FreePids
  <2>3. svr' = [SetStat([svr EXCEPT ![t].type = SVR_PERM], e, TUX_IDLE) EXCEPT ![t].num = @ + 1]
    BY <1>7, Zenon DEF StartMore
  <2>4. t \in SvrIx /\ svr[t].id = id
    BY <2>1, FindId
  <2>5. e \in PidIx /\ tab[e].pid = NoPid
    BY <2>1, PidEntry
  <2> HIDE DEF t, e
  <2>6. SvrKept
    <3> DEFINE a == [svr EXCEPT ![t].type = SVR_PERM]
               b == SetStat(a, e, TUX_IDLE)
    <3>1. a \in [SvrIx -> SvrRows] /\ \A k \in SvrIx : a[k].id = svr[k].id /\ a[k].name = svr[k].name
      BY <1>6, <2>4
    <3>2. svr' = [b EXCEPT ![t].num = @ + 1]
      BY <2>3
    <3> HIDE DEF a
    <3>3. b \in [SvrIx -> SvrRows] /\ \A k \in SvrIx : b[k].id = svr[k].id /\ b[k].name = svr[k].name
      BY <1>i, <2>5, <3>1, SetStatType
    <3> HIDE DEF b
    <3> QED
      BY <2>4, <3>2, <3>3 DEF SvrKept, SvrRows
  <2>7. Started(e, id, t, q)
    BY <1>3, <2>1, <2>2, <2>4, <2>5, StartRow
  <2>8. /\ proc'[q].st = "run" /\ proc'[q].id = id
        /\ \A p \in Pids \ {q} : proc'[p] = proc[p]
    BY <2>2 DEF TypeOK, Child
  <2>9. \A p \in Pids : tab[e].pid # p
    BY <2>5, PidAssumption
  <2>a. /\ OthersKept(e) /\ tab'[e].pid = q /\ tab'[e].svrpos = t
        /\ Clean' => tab'[e].svrid = id
    BY <2>7 DEF Started, Clean
  <2>b. struck \subseteq struck' /\ exited' \subseteq exited /\ id \notin exited'
    BY <2>1, StrikesType
  <2>10. Served' /\ Owned' /\ Barred' /\ Manned'
    BY <1>2, <1>3, <1>4, <2>1, <2>4, <2>5, <2>6, <2>8, <2>9, <2>a, <2>b, Forked
  <2>11. Paired' /\ Filled' /\ Subject'
    BY <2>1, <2>6, <2>b, SvrFrame
  <2> QED
    BY <2>10, <2>11 DEF OrderInv
<1>f. ASSUME /\ t # 0 /\ exited' = exited \ {id} /\ SvrKept /\ struck \subseteq struck'
             /\ op' = op \/ op' = Ended
             /\ proc' = proc \/ proc' = Orphaned(proc),
             /\ tab' = tab \/ (e # 0 /\ OthersKept(e) /\ tab'[e].pid = NoPid)
      PROVE  OrderInv'
  <2>4. e # 0 => e \in PidIx /\ tab[e].pid = NoPid
    BY PidEntry
  <2> HIDE DEF e
  <2>5. op'.at \in {"idle", "failed"}
    BY <1>2, <1>f DEF Ended, Idle
  <2>6. (Clean' => Clean) /\ \A r \in PidIx :
           \/ /\ tab'[r].pid = tab[r].pid /\ tab'[r].svrpos = tab[r].svrpos
              /\ Clean' => tab'[r].svrid = tab[r].svrid
           \/ tab'[r].pid = NoPid /\ tab[r].pid = NoPid
    BY <1>f, <2>4 DEF Clean, OthersKept
  <2>7. Manned'
    <3>1. NoProc.st = "none"
      BY DEF NoProc
    <3>2. \A p \in Pids : proc'[p] = proc[p] \/ proc'[p] = NoProc
      BY <1>f DEF Orphaned
    <3>3. ASSUME Clean', NEW p \in Pids, proc'[p].st = "run"
          PROVE  \E r \in PidIx : tab'[r].pid = p /\ tab'[r].svrid = proc'[p].id
      <4>1. proc'[p] = proc[p] /\ Clean /\ p # NoPid
        BY <2>6, <3>1, <3>2, <3>3, PidAssumption
      <4>2. PICK r \in PidIx : tab[r].pid = p /\ tab[r].svrid = proc[p].id
        BY <3>3, <4>1 DEF OrderInv, Manned
      <4> QED
        BY <2>6, <3>3, <4>1, <4>2
    <3> QED
      BY <1>4, <3>1, <3>2, <3>3 DEF Manned
  <2>8. Served' /\ Owned' /\ Barred'
    <3>1. ASSUME NEW r \in PidIx, tab'[r].pid # NoPid
          PROVE  /\ svr'[tab'[r].svrpos].id # -1
                 /\ Clean' => /\ tab'[r].svrid # -1 /\ svr'[tab'[r].svrpos].id = tab'[r].svrid
                              /\ tab'[r].svrid \notin exited'
      <4>1. /\ tab[r].pid # NoPid /\ tab'[r].svrpos = tab[r].svrpos
            /\ Clean' => Clean /\ tab'[r].svrid = tab[r].svrid
        BY <2>6, <3>1
      <4>2. /\ tab[r].svrpos \in SvrIx /\ svr[tab[r].svrpos].id # -1
            /\ Clean => /\ tab[r].svrid # -1
                        /\ svr[tab[r].svrpos].id = tab[r].svrid /\ tab[r].svrid \notin exited
        BY <1>2, <4>1 DEF TypeOK, OrderInv, Served, Owned, Barred
      <4> QED
        BY <1>f, <4>1, <4>2 DEF SvrKept
    <3> QED
      BY <2>5, <3>1 DEF Served, Owned, Barred, Trial
  <2>9. Paired' /\ Filled' /\ Subject'
    <3>1. exited' \subseteq exited /\ (op' = op \/ (IsIdle /\ op' = Ended))
      BY <1>2, <1>f
    <3> QED
      BY <1>f, <3>1, SvrFrame
  <2> QED
    BY <2>7, <2>8, <2>9 DEF OrderInv
<1>8. CASE StartMoreFails(id)
  <2>1. t # 0 /\ exited' = exited \ {id} /\ op' = op /\ proc' = proc
    BY <1>8, Zenon DEF StartMoreFails
  <2>2. \/ svr' = [svr EXCEPT ![t].type = SVR_PERM] /\ tab' = tab /\ struck' = struck
        \/ /\ e # 0 /\ tab' = [Overrun(Assigned(e, id, t), e, TUX_IDLE) EXCEPT ![e] = ClearedTab]
           /\ svr' = SetStat([svr EXCEPT ![t].type = SVR_PERM], e, TUX_IDLE)
           /\ Strikes(e)
    BY <1>8, Zenon DEF StartMoreFails
  <2>3. t \in SvrIx
    BY <2>1, FindId
  <2>4. e # 0 => e \in PidIx /\ tab[e].pid = NoPid
    BY PidEntry
  <2>5. SvrKept
    <3> HIDE DEF t, e
    <3> DEFINE a == [svr EXCEPT ![t].type = SVR_PERM]
    <3>1. a \in [SvrIx -> SvrRows] /\ \A k \in SvrIx : a[k].id = svr[k].id /\ a[k].name = svr[k].name
      BY <1>6, <2>3
    <3>2. svr' = a \/ (e \in PidIx /\ svr' = SetStat(a, e, TUX_IDLE))
      BY <2>2, <2>4
    <3> HIDE DEF a
    <3> QED
      BY <1>i, <3>1, <3>2, SetStatType DEF SvrKept
  <2>6. struck \subseteq struck'
    BY <2>2, StrikesType
  <2>7. tab' = tab \/ (e # 0 /\ OthersKept(e) /\ tab'[e].pid = NoPid)
    <3>1. CASE /\ e # 0 /\ Strikes(e)
               /\ tab' = [Overrun(Assigned(e, id, t), e, TUX_IDLE) EXCEPT ![e] = ClearedTab]
      <4> HIDE DEF t, e
      <4>1. OthersKept(e) /\ tab'[e] = ClearedTab
        BY <1>3, <2>3, <2>4, <3>1, StartCleared
      <4> QED
        BY <3>1, <4>1 DEF ClearedTab
    <3> QED
      BY <2>2, <3>1
  <2> HIDE DEF t, e
  <2> QED
    BY <1>f, <2>1, <2>5, <2>6, <2>7
<1>11. CASE StartFault(id)
  <2>1. /\ t # 0 /\ e # 0 /\ exited' = exited \ {id} /\ op' = Ended /\ proc' = Orphaned(proc)
        /\ svr' = [svr EXCEPT ![t].type = SVR_PERM] /\ tab' = Assigned(e, id, t) /\ struck' = struck
    BY <1>11, Zenon DEF StartFault
  <2>3. t \in SvrIx
    BY <2>1, FindId
  <2>4. e \in PidIx /\ tab[e].pid = NoPid
    BY <2>1, PidEntry
  <2> HIDE DEF t, e
  <2>5. SvrKept
    BY <1>6, <2>1, <2>3 DEF SvrKept
  <2>6. Started(e, id, t, NoPid)
    BY <1>3, <2>1, <2>3, <2>4, StartRow
  <2>7. OthersKept(e) /\ tab'[e].pid = NoPid
    BY <2>6 DEF Started
  <2> QED
    BY <1>f, <2>1, <2>5, <2>7
<1>9. CASE StartNew(id)
  <2> DEFINE f == server_get_identry
  <2>1. /\ t = 0 /\ exited' = exited \ {id} /\ svr' = svr /\ tab' = tab /\ proc' = proc /\ struck' = struck
        /\ op' = IF f = 0 THEN op ELSE [Idle EXCEPT !.at = "one", !.row = f, !.line = 1, !.id = id]
    BY <1>9, Zenon DEF StartNew
  <2>2. SvrKept /\ TabKept
    BY <2>1 DEF SvrKept, TabKept
  <2>3. Manned'
    BY <1>4, <2>1, <2>2, ProcFrame
  <2>4. \A k \in SvrIx : svr[k].id # id
    <3> DEFINE S == {k \in SvrIx : svr[k].id = id}
    <3>1. S \subseteq SvrIx /\ FirstOrZero(S) = 0
      BY <2>1 DEF find_server_id
    <3>2. S = {}
      BY <3>1, FirstOrZeroIsRow
    <3> QED
      BY <3>2
  <2>5. CASE f = 0
    <3>1. op' = op /\ exited' \subseteq exited
      BY <2>1, <2>5
    <3>2. \A x \in SvrIx : Trial(x)' => Trial(x)
      BY <3>1 DEF Trial
    <3>3. Paired' /\ Filled' /\ Subject' /\ Served' /\ Owned' /\ Barred'
      BY <2>2, <3>1, <3>2, SvrFrame, TabFrame
    <3> QED
      BY <2>3, <3>3 DEF OrderInv
  <2>6. CASE f # 0
    <3>1. f \in SvrIx /\ svr[f].id = -1 /\ \A k \in SvrIx : k < f => svr[k].id # -1
      BY <2>6, FirstFree
    <3> HIDE DEF f, t
    <3>2. op'.at = "one" /\ op'.row = f /\ op'.id = id
      BY <2>1, <2>6 DEF Idle
    <3>3. Served' /\ Owned' /\ Barred'
      <4>1. \A x \in SvrIx : Trial(x)' => Trial(x) \/ svr[x].id = -1
        BY <3>1, <3>2 DEF Trial
      <4>2. exited' \subseteq exited
        BY <2>1
      <4> QED
        BY <1>2, <2>2, <3>2, <4>1, <4>2, TabFrame
    <3>4. Paired'
      BY <1>2, <2>1 DEF OrderInv, Paired, Trial
    <3>5. Filled'
      <4>1. PICK d \in Cfgs : \A k \in SvrIx : k <= Len(d) => svr[k].id # -1
        BY <1>2 DEF OrderInv, Filled
      <4>2. Len(d) \in Nat /\ f \in Nat
        BY <3>1, CfgAssumption, SizeAssumption DEF SvrIx, PidIx
      <4>3. Len(d) < f
        BY <3>1, <4>1, <4>2
      <4> QED
        BY <2>1, <3>2, <4>1, <4>3 DEF Filled
    <3>6. Subject'
      BY <2>1, <2>4, <3>1, <3>2 DEF Subject
    <3> QED
      BY <2>3, <3>3, <3>4, <3>5, <3>6 DEF OrderInv
  <2> QED
    BY <2>5, <2>6
<1>10. CASE CmdExit(id) \/ CmdFresh(id)
  <2>1. /\ t # 0 /\ svr' = [svr EXCEPT ![t].type = SVR_TEMP, ![t].state = TUX_DEAD]
        /\ server_kill(Matches(id)) /\ struck' = struck
        /\ \/ op' = op /\ exited' = exited \cup {id}
           \/ op' = [Idle EXCEPT !.at = "fresh", !.row = t, !.line = 1] /\ exited' = exited \ {id}
    BY <1>10, Zenon DEF CmdExit, CmdFresh
  <2>2. t \in SvrIx /\ svr[t].id = id
    BY <2>1, FindId
  <2> HIDE DEF t
  <2>3. SvrKept
    BY <1>5, <2>1, <2>2 DEF SvrKept, SvrRows
  <2>4. \/ op' = op /\ exited' = exited \cup {id}
        \/ op'.at = "fresh" /\ op'.row = t /\ exited' = exited \ {id}
    BY <2>1 DEF Idle
  <2> QED
    BY <1>2, <2>1, <2>2, <2>3, <2>4, KillOrder
<1> QED
  BY <1>1, <1>7, <1>8, <1>9, <1>10, <1>11

\* run_one_task touches no row but its own, which no worker belongs to.
LEMMA TrialOwned ==
    ASSUME TypeOK, OrderInv, op.at = "one", UNCHANGED <<tab, proc, exited, struck>>,
           \A t \in SvrIx \ {op.row} : svr'[t] = svr[t],
           op'.at \notin {"boot", "down"}, op'.at = "one" => op'.row = op.row
    PROVE  Served' /\ Owned' /\ Barred' /\ Manned'
<1>0. Clean' = Clean
  BY DEF Clean
<1>1. Manned' /\ Barred'
  BY <1>0 DEF OrderInv, Manned, Barred
<1>2. ASSUME NEW r \in PidIx, tab[r].pid # NoPid
      PROVE  /\ tab[r].svrpos \in SvrIx /\ tab[r].svrpos # op.row /\ svr[tab[r].svrpos].id # -1
             /\ Clean => tab[r].svrid # -1 /\ svr[tab[r].svrpos].id = tab[r].svrid
  BY <1>2 DEF TypeOK, OrderInv, Served, Owned, Trial
<1>3. Served' /\ Owned'
  BY <1>0, <1>2 DEF Served, Owned, Trial
<1> QED
  BY <1>1, <1>3

LEMMA OneOrder ==
    ASSUME Orderly, TypeOK, TypeOK', OrderInv, OneLine
    PROVE  OrderInv'
<1>a. op \in Ops /\ svr \in [SvrIx -> SvrRows] /\ cfg \in Cfgs /\ cfg \in Seq(Lines)
  BY CfgAssumption DEF TypeOK
<1>b. op.at = "one" /\ UNCHANGED <<tab, proc, exited, struck>>
  BY Zenon DEF OneLine
<1>c. op.row \in SvrIx /\ op.line \in Nat /\ op.line >= 1
  BY <1>a, <1>b DEF TypeOK, Ops
<1>d. PICK k \in SvrIx, l \in Nat : k = op.row /\ l = op.line
  BY <1>c
<1>e. PICK d \in Cfgs : (\A t \in SvrIx : t <= Len(d) => svr[t].id # -1) /\ Len(d) < k
  BY <1>b, <1>d DEF OrderInv, Filled
<1>f. Len(d) \in Nat /\ k \in Nat
  BY CfgAssumption, SizeAssumption DEF SvrIx, PidIx
<1>g. \A t \in SvrIx : t <= Len(d) => t # k
  BY <1>e, <1>f
<1>h. \A t \in SvrIx \ {k} : ~Trial(t)
  BY <1>d DEF Trial
<1>i. Paired /\ Subject
  BY DEF OrderInv
<1>1. CASE svr' = [svr EXCEPT ![k] = ClearedSvr] /\ op' = Idle
  <2>1. op'.at = "idle" /\ svr'[k].id = -1 /\ \A t \in SvrIx \ {k} : svr'[t] = svr[t]
    BY <1>1, <1>a DEF Idle, ClearedSvr
  <2>2. Served' /\ Owned' /\ Barred' /\ Manned'
    BY <1>b, <1>d, <2>1, TrialOwned
  <2>3. Paired'
    <3> SUFFICES ASSUME NEW t \in SvrIx, svr'[t].id # -1
                 PROVE \E c \in Cfgs : t \in DOMAIN c /\ svr'[t].id = c[t].id /\ svr'[t].name = c[t].name
      BY DEF Paired
    <3>1. t # k
      BY <2>1
    <3> QED
      BY <1>h, <1>i, <2>1, <3>1 DEF Paired
  <2>4. Filled'
    BY <1>e, <1>g, <2>1 DEF Filled
  <2>5. Subject'
    BY <2>1 DEF Subject
  <2> QED
    BY <2>2, <2>3, <2>4, <2>5 DEF OrderInv
<1>2. CASE l <= Len(cfg)
  <2>1. l \in DOMAIN cfg /\ cfg[l] \in Lines
    BY <1>2, <1>a, <1>c, <1>d
  <2>2. cfg[l].parse = "ok"
    BY <1>a, <2>1 DEF Orderly
  <2> DEFINE s == [svr EXCEPT ![k] = Registered(@, cfg[l])]
  <2>3. /\ s \in [SvrIx -> SvrRows] /\ \A t \in SvrIx \ {k} : s[t] = svr[t]
        /\ s[k].id = cfg[l].id /\ s[k].name = cfg[l].name /\ s[k].id # -1
    <3>1. s = register_server(svr, k, cfg[l])
      BY <2>2 DEF register_server
    <3>2. s \in [SvrIx -> SvrRows]
      BY <1>a, <2>1, <3>1, RegisterType
    <3>3. cfg[l].id # -1
      BY <2>1 DEF Lines
    <3> QED
      BY <1>a, <3>2, <3>3 DEF Registered
  <2>4. \/ s[k].id = op.id /\ server_run(s, k, "one")
        \/ s[k].id # op.id /\ svr' = s /\ op' = [op EXCEPT !.line = @ + 1]
    <3>1. ~(op.line > Len(cfg)) /\ cfg[op.line].parse = "ok"
      BY <1>2, <1>a, <1>d, <2>2
    <3>2. s = register_server(svr, op.row, cfg[op.line])
      BY <1>d, <2>2 DEF register_server
    <3>3. IF register_server(svr, op.row, cfg[op.line])[op.row].id = op.id
          THEN server_run(register_server(svr, op.row, cfg[op.line]), op.row, "one")
          ELSE svr' = register_server(svr, op.row, cfg[op.line]) /\ op' = [op EXCEPT !.line = @ + 1]
      BY <3>1, Zenon DEF OneLine
    <3> HIDE DEF s
    <3> QED
      BY <1>d, <3>2, <3>3
  <2> HIDE DEF s
  <2>5. CASE s[k].id = op.id /\ server_run(s, k, "one")
    <3>1. svr' = [s EXCEPT ![k].type = SVR_PERM] /\ op'.at = "run" /\ op'.row = k /\ op'.for = "one"
      BY <1>a, <2>5 DEF server_run, Ops
    <3>2. /\ \A t \in SvrIx \ {k} : svr'[t] = svr[t]
          /\ svr'[k].id = cfg[l].id /\ svr'[k].name = cfg[l].name /\ svr'[k].id # -1
      BY <2>3, <3>1 DEF SvrRows
    <3>3. l = k
      <4>1. cfg[l].id = op.id /\ op.id \in CmdIds
        BY <1>b, <1>i, <2>3, <2>5 DEF Subject
      <4>2. l <= Len(d) + 1
        BY <1>a, <2>1, <4>1 DEF Orderly
      <4>3. l <= k
        BY <1>e, <1>f, <4>2
      <4>4. CASE l < k
        <5>1. l \in SvrIx
          BY <1>c, <1>d, <1>f, <4>4, SizeAssumption DEF SvrIx, PidIx
        <5>2. svr[l].id # -1 /\ svr[l].id # op.id /\ ~Trial(l)
          BY <1>b, <1>d, <1>f, <1>h, <1>i, <4>4, <5>1 DEF Subject
        <5>3. cfg[l].id = svr[l].id
          BY <1>a, <1>i, <2>1, <5>1, <5>2, PairedLine
        <5> QED
          BY <4>1, <5>2, <5>3
      <4> QED
        BY <1>f, <4>3, <4>4
    <3>4. Served' /\ Owned' /\ Barred' /\ Manned'
      BY <1>b, <1>d, <3>1, <3>2, TrialOwned
    <3>5. Paired'
      <4> SUFFICES ASSUME NEW t \in SvrIx, svr'[t].id # -1
                   PROVE \E c \in Cfgs : t \in DOMAIN c /\ svr'[t].id = c[t].id /\ svr'[t].name = c[t].name
        BY DEF Paired
      <4>1. CASE t = k
        BY <1>a, <2>1, <3>2, <3>3, <4>1
      <4>2. CASE t # k
        BY <1>h, <1>i, <3>2, <4>2 DEF Paired
      <4> QED
        BY <4>1, <4>2
    <3>6. Filled'
      BY <1>e, <3>1, <3>2 DEF Filled
    <3>7. Subject'
      BY <1>b, <1>i, <2>3, <2>5, <3>1, <3>2 DEF Subject
    <3> QED
      BY <3>4, <3>5, <3>6, <3>7 DEF OrderInv
  <2>6. CASE svr' = s /\ op' = [op EXCEPT !.line = @ + 1]
    <3>1. op'.at = "one" /\ op'.row = k /\ op'.id = op.id
      BY <1>a, <1>b, <1>d, <2>6 DEF Ops
    <3>2. Served' /\ Owned' /\ Barred' /\ Manned'
      BY <1>b, <1>d, <2>3, <2>6, <3>1, TrialOwned
    <3>3. Paired'
      BY <1>d, <1>h, <1>i, <2>3, <2>6, <3>1 DEF Paired, Trial
    <3>4. Filled'
      BY <1>e, <2>3, <2>6, <3>1 DEF Filled
    <3>5. Subject'
      BY <1>b, <1>d, <1>i, <2>3, <2>6, <3>1 DEF Subject
    <3> QED
      BY <3>2, <3>3, <3>4, <3>5 DEF OrderInv
  <2> QED
    BY <2>4, <2>5, <2>6
<1> QED
  <2>1. CASE op.line > Len(cfg)
    <3>1. svr' = [svr EXCEPT ![op.row] = ClearedSvr] /\ op' = Idle
      BY <2>1, Zenon DEF OneLine
    <3> QED
      BY <1>1, <1>d, <3>1
  <2>2. CASE ~(op.line > Len(cfg))
    BY <1>2, <1>a, <1>d, <2>2
  <2> QED
    BY <2>1, <2>2

LEMMA FreshOrder ==
    ASSUME Orderly, TypeOK, TypeOK', OrderInv, FreshLine
    PROVE  OrderInv'
<1>a. op \in Ops /\ svr \in [SvrIx -> SvrRows] /\ cfg \in Cfgs /\ cfg \in Seq(Lines)
  BY CfgAssumption DEF TypeOK
<1>b. op.at = "fresh" /\ UNCHANGED <<tab, proc, exited, struck>>
  BY Zenon DEF FreshLine
<1>c. op.row \in SvrIx /\ op.line \in Nat /\ op.line >= 1
  BY <1>a, <1>b DEF TypeOK, Ops
<1>d. PICK k \in SvrIx, l \in Nat : k = op.row /\ l = op.line
  BY <1>c
<1>e. svr[k].id # -1 /\ svr[k].id \notin exited /\ Paired /\ \A t \in SvrIx : ~Trial(t)
  BY <1>b, <1>d DEF OrderInv, Subject, Trial
<1>1. CASE SvrKept /\ op'.at \in {"idle", "fresh"} /\ (op'.at = "fresh" => op'.row = op.row)
  <2>1. TabKept /\ \A t \in SvrIx : ~Trial(t)'
    BY <1>1, <1>b DEF TabKept, Trial
  <2>2. Served' /\ Owned' /\ Barred'
    BY <1>1, <1>b, <2>1, TabFrame
  <2>3. Manned'
    BY <1>b DEF OrderInv, Manned, Clean
  <2>4. Paired' /\ Filled'
    BY <1>1, <1>b, <1>e, <2>1, SMTT(30) DEF OrderInv, Paired, Filled, SvrKept
  <2>5. Subject'
    BY <1>1, <1>b, <1>d, <1>e DEF Subject, SvrKept
  <2> QED
    BY <2>2, <2>3, <2>4, <2>5 DEF OrderInv
<1>2. CASE op.line > Len(cfg)
  <2>1. svr' = [svr EXCEPT ![op.row].state = TUX_IDLE] /\ op' = Idle
    BY <1>2, Zenon DEF FreshLine
  <2>2. SvrKept
    BY <1>a, <1>c, <2>1 DEF SvrKept, SvrRows
  <2> QED
    BY <1>1, <2>1, <2>2 DEF Idle
<1>3. CASE ~(op.line > Len(cfg))
  <2>1. l \in DOMAIN cfg /\ cfg[l] \in Lines
    BY <1>3, <1>a, <1>c, <1>d
  <2>2. cfg[l].parse = "ok"
    BY <1>a, <2>1 DEF Orderly
  <2>3. CASE cfg[l].name # svr[k].name
    <3>1. op' = [op EXCEPT !.line = @ + 1] /\ svr' = svr
      BY <1>3, <1>d, <2>3, Zenon DEF FreshLine
    <3> QED
      BY <1>1, <1>a, <1>b, <3>1 DEF SvrKept, Ops
  <2>4. CASE cfg[l].name = svr[k].name
    <3>1. cfg[l].id = svr[k].id
      BY <1>a, <1>e, <2>1, <2>4, PairedLine
    <3> DEFINE s == register_server(svr, k, cfg[l])
    <3>2. server_run(s, k, "fresh")
      <4>1. cfg[op.line].name = svr[op.row].name /\ cfg[op.line].parse = "ok"
        BY <1>d, <2>2, <2>4
      <4>2. server_run(register_server(svr, op.row, cfg[op.line]), op.row, "fresh")
        BY <1>3, <4>1, Zenon DEF FreshLine
      <4> QED
        BY <1>d, <4>2
    <3>3. s \in [SvrIx -> SvrRows] /\ \A t \in SvrIx : s[t].id = svr[t].id /\ s[t].name = svr[t].name
      <4>1. s \in [SvrIx -> SvrRows]
        BY <1>a, <2>1, RegisterType
      <4>2. s = [svr EXCEPT ![k] = Registered(@, cfg[l])]
        BY <2>2 DEF register_server
      <4> QED
        BY <1>a, <2>4, <3>1, <4>1, <4>2 DEF Registered
    <3> HIDE DEF s
    <3>4. svr' = [s EXCEPT ![k].type = SVR_PERM] /\ op'.at = "run" /\ op'.row = k /\ op'.for = "fresh"
      BY <1>a, <3>2 DEF server_run, Ops
    <3>5. SvrKept
      BY <3>3, <3>4 DEF SvrKept, SvrRows
    <3> QED
      BY <1>b, <1>e, <3>4, <3>5, RunEntered
  <2> QED
    BY <2>3, <2>4
<1> QED
  BY <1>2, <1>3
\* tmdown kills the workers of every row, and these are all.
LEMMA DownOrder ==
    ASSUME Orderly, TypeOK, OrderInv, unload_server
    PROVE  OrderInv'
<1> DEFINE R == UNION {Matches(svr[t].id) : t \in SvrIx}
<1>1. /\ IsIdle /\ tab' = ClearedRows(R) /\ op' = [Idle EXCEPT !.at = "down"] /\ exited' = exited
      /\ struck' = struck
      /\ proc' = [p \in Pids |-> IF proc[p].st = "zombie" THEN NoProc ELSE Terminated(R)[p]]
      /\ svr' = [t \in SvrIx |-> IF svr[t].id # -1 THEN ClearedSvr ELSE svr[t]]
  BY Zenon DEF unload_server
<1>2. op.at = "idle" /\ op'.at = "down" /\ \A t \in SvrIx : svr'[t].id = -1
  BY <1>1 DEF IsIdle, Idle, ClearedSvr
<1>3. ASSUME NEW r \in PidIx, tab[r].pid # NoPid, Clean PROVE r \in R
  <2>1. PICK t \in SvrIx : t = tab[r].svrpos
    BY <1>3 DEF TypeOK
  <2>2. svr[t].id = tab[r].svrid /\ svr[t].id # -1 /\ ~Trial(t)
    BY <1>2, <1>3, <2>1 DEF OrderInv, Owned, Trial
  <2>3. PICK c \in Cfgs : t \in DOMAIN c /\ svr[t].id = c[t].id
    BY <2>2 DEF OrderInv, Paired
  <2>4. svr[t].id # TUX_DEAD
    BY <2>3 DEF Orderly
  <2>5. r \in Matches(svr[t].id)
    BY <2>2, <2>4 DEF Matches
  <2> QED
    BY <2>5
<1>4. R \subseteq PidIx
  BY DEF Matches
<1> HIDE DEF R
<1>5. Clean' = Clean /\ (Clean => \A r \in PidIx : tab'[r].pid = NoPid)
  BY <1>1, <1>3 DEF ClearedRows, ClearedTab, Clean
<1>6. ASSUME NEW p \in Pids
      PROVE  proc'[p].st \in {"none", "run", "term", "zombie"} /\ (Clean => proc'[p].st # "run")
  <2>1. proc[p] \in Procs /\ proc[p].st \in {"none", "run", "term", "zombie"}
    BY DEF TypeOK, OrderInv, Manned
  <2>2. CASE proc[p].st = "run" /\ \E r \in R : tab[r].pid \in {p, NoPid}
    <3>1. proc'[p] = [proc[p] EXCEPT !.st = "term"]
      BY <1>1, <2>2 DEF Terminated, Alive
    <3> QED
      BY <2>1, <3>1 DEF Procs
  <2>3. CASE proc[p].st = "run" /\ ~\E r \in R : tab[r].pid \in {p, NoPid}
    <3>1. proc'[p] = proc[p]
      BY <1>1, <2>3 DEF Terminated
    <3>2. ASSUME Clean PROVE FALSE
      <4>1. PICK r \in PidIx : tab[r].pid = p
        BY <2>3, <3>2 DEF OrderInv, Manned
      <4>2. r \in R
        BY <1>3, <3>2, <4>1, PidAssumption
      <4> QED
        BY <2>3, <4>1, <4>2
    <3> QED
      BY <2>1, <3>1, <3>2
  <2>4. CASE proc[p].st = "zombie"
    BY <1>1, <2>4 DEF NoProc
  <2>5. CASE proc[p].st \in {"none", "term"}
    <3>1. proc'[p] = proc[p]
      BY <1>1, <2>5 DEF Terminated, Alive
    <3> QED
      BY <2>5, <3>1
  <2> QED
    BY <2>1, <2>2, <2>3, <2>4, <2>5
<1>7. Manned' /\ Owned' /\ Barred'
  BY <1>5, <1>6 DEF Manned, Owned, Barred
<1>8. Paired' /\ Filled' /\ Subject' /\ Served'
  BY <1>2 DEF Paired, Filled, Subject, Served
<1> QED
  BY <1>7, <1>8 DEF OrderInv

LEMMA InitOrder == Init => OrderInv
<1> SUFFICES ASSUME Init PROVE OrderInv
  OBVIOUS
<1>1. op.at = "boot" /\ op.row = 1 /\ op.line = 1 /\ exited = {}
  BY DEF Init, Idle
<1>2. (\A r \in PidIx : tab[r].pid = NoPid) /\ \A t \in SvrIx : svr[t].id = -1
  BY DEF Init, ClearedSvr, ClearedTab
<1>3. \A p \in Pids : proc[p].st = "none"
  BY DEF Init, NoProc
<1>4. Filled
  <2>1. \A t \in SvrIx : ~(t < 1)
    BY SizeAssumption DEF SvrIx, PidIx
  <2> QED
    BY <1>1, <2>1 DEF Filled
<1> QED
  BY <1>1, <1>2, <1>3, <1>4 DEF OrderInv, Paired, Served, Owned, Manned, Barred, Subject

LEMMA NextOrder ==
    ASSUME Orderly, TypeOK, TypeOK', OrderInv, [Next]_vars, [~RunFails]_vars
    PROVE  OrderInv'
<1>1. CASE UNCHANGED vars
  <2>1. svr' = svr /\ tab' = tab /\ op' = op /\ exited' = exited /\ proc' = proc /\ struck' = struck
    BY <1>1 DEF vars
  <2>2. SvrKept /\ TabKept
    BY <2>1 DEF SvrKept, TabKept, Clean
  <2>3. Manned'
    BY <2>1 DEF OrderInv, Manned, Clean
  <2>4. Paired' /\ Filled' /\ Subject' /\ Served' /\ Owned' /\ Barred'
    BY <2>1, <2>2, SvrFrame, TabFrame DEF Trial
  <2> QED
    BY <2>3, <2>4 DEF OrderInv
<1>2. CASE Next /\ vars' # vars
  <2>1. ~RunFails
    BY <1>2
  <2> QED
    BY <1>2, <2>1, WorkerOrder, BootOrder, RunOrder, ReapOrder, CommandOrder, OneOrder, FreshOrder,
       DownOrder DEF Next
<1> QED
  BY <1>1, <1>2

LEMMA OrderKept == Orderly => (Spec /\ KeptUp => []OrderInv)
<1> SUFFICES ASSUME Orderly PROVE Spec /\ KeptUp => []OrderInv
  OBVIOUS
<1>1. TypeOK /\ TypeOK' /\ OrderInv /\ [Next]_vars /\ [~RunFails]_vars => OrderInv'
  BY NextOrder
<1> QED
  BY <1>1, InitOrder, TypeCorrect, PTL DEF Spec, KeptUp

\* For every orderly configuration, as long as no server_run of tmfresh or
\* tmstart fails and no state was written over the svrid of a pid row: tmexit
\* stops the server it names, and none of its workers runs again before the next
\* tmstart or tmfresh of it.
THEOREM ExitedStayDown == Orderly => (Spec /\ KeptUp => []ExitStops)
<1> SUFFICES ASSUME Orderly PROVE Spec /\ KeptUp => []ExitStops
  OBVIOUS
<1>1. OrderInv => ExitStops
  <2> SUFFICES ASSUME OrderInv, Clean, NEW id \in exited, NEW p \in Pids, proc[p].st \in Alive,
                      proc[p].id = id
               PROVE FALSE
    BY DEF ExitStops, Clean
  <2>1. proc[p].st = "run"
    BY DEF OrderInv, Manned, Alive
  <2>2. PICK r \in PidIx : tab[r].pid = p /\ tab[r].svrid = id
    BY <2>1 DEF OrderInv, Manned
  <2> QED
    BY <2>2, PidAssumption DEF OrderInv, Barred
<1> QED
  BY <1>1, OrderKept, PTL

\* Under the same conditions tmdown stops every worker there is.
THEOREM DownIsDown == Orderly => (Spec /\ KeptUp => []DownStops)
<1> SUFFICES ASSUME Orderly PROVE Spec /\ KeptUp => []DownStops
  OBVIOUS
<1>1. OrderInv => DownStops
  <2> SUFFICES ASSUME OrderInv, Clean, op.at = "down", NEW p \in Pids, proc[p].st \in Alive
               PROVE FALSE
    BY DEF DownStops, Clean
  <2>1. proc[p].st = "run"
    BY DEF OrderInv, Manned, Alive
  <2>2. PICK r \in PidIx : tab[r].pid = p
    BY <2>1 DEF OrderInv, Manned
  <2> QED
    BY <2>2, PidAssumption DEF OrderInv, Owned
<1> QED
  BY <1>1, OrderKept, PTL

\* Under the same conditions no two rows of the server table have one id when
\* find_server_id looks for it.
THEOREM IdsStayUnique == Orderly => (Spec /\ KeptUp => []IdsUnique)
<1> SUFFICES ASSUME Orderly PROVE Spec /\ KeptUp => []IdsUnique
  OBVIOUS
<1>1. OrderInv => IdsUnique
  <2> SUFFICES ASSUME OrderInv, IsIdle, NEW r \in SvrIx, NEW t \in SvrIx, r # t, svr[r].id # -1,
                      svr[r].id = svr[t].id
               PROVE FALSE
    BY DEF IdsUnique
  <2>1. ~Trial(r) /\ ~Trial(t) /\ Paired
    BY DEF IsIdle, Trial, OrderInv
  <2> QED
    BY <2>1, PairedRows
<1> QED
  BY <1>1, OrderKept, PTL

\* Only tmstart begins run_one_task, and it changes no row.
LEMMA TrialBegins ==
    ASSUME TypeOK, Next, op.at \in {"idle", "fresh"}, op'.at = "one"
    PROVE  svr' = svr
<1>a. op \in Ops
  BY DEF TypeOK
<1>1. CASE WorkerStep \/ EditCfg
  BY <1>1 DEF WorkerStep, Crash, Stop, Continue, TermExit, EditCfg
<1>2. CASE Boot \/ OneLine \/ RunStep
  <2>1. op.at \in {"boot", "load", "one", "run"}
    BY <1>2, Zenon DEF Boot, LoadLine, LoadDone, LoadRow, OneLine, RunStep, RunFork, RunForkFails,
                       RunLimit, RunDone
  <2> QED
    BY <2>1
<1>3. CASE Reap
  <2>1. op' = op \/ op' = Ended
    BY <1>3, Zenon DEF Reap, ReapUnknown, ReapGiveUp, ReapRestart, ReapForkFails, ReapFault
  <2> QED
    BY <2>1 DEF Ended, Idle
<1>4. CASE FreshLine
  <2>1. \/ op' = Idle
        \/ op' = [op EXCEPT !.line = @ + 1] /\ svr' = svr
        \/ op' = [op EXCEPT !.at = "run", !.row = op.row, !.i = 0, !.for = "fresh"]
    BY <1>4, Zenon DEF FreshLine, server_run
  <2>2. op' # Idle
    BY DEF Idle
  <2>3. ASSUME op' = [op EXCEPT !.at = "run", !.row = op.row, !.i = 0, !.for = "fresh"] PROVE FALSE
    BY <1>a, <2>3 DEF Ops
  <2> QED
    BY <2>1, <2>2, <2>3
<1>5. CASE unload_server
  BY <1>5, Zenon DEF unload_server, Idle
<1>6. ASSUME NEW id \in CmdIds, StartMore(id) \/ StartMoreFails(id) \/ StartNew(id)
                                  \/ StartFault(id) \/ CmdExit(id) \/ CmdFresh(id)
      PROVE  svr' = svr
  <2>1. CASE StartNew(id)
    BY <2>1, Zenon DEF StartNew
  <2>2. CASE StartMore(id) \/ StartMoreFails(id) \/ CmdExit(id)
    <3>1. op' = op
      BY <2>2, Zenon DEF StartMore, StartMoreFails, CmdExit
    <3> QED
      BY <3>1
  <2>3. CASE CmdFresh(id)
    <3>1. op' = [Idle EXCEPT !.at = "fresh", !.row = find_server_id(id), !.line = 1]
      BY <2>3, Zenon DEF CmdFresh
    <3> QED
      BY <3>1 DEF Idle
  <2>4. CASE StartFault(id)
    <3>1. op' = Ended
      BY <2>4, Zenon DEF StartFault
    <3> QED
      BY <3>1 DEF Ended, Idle
  <2> QED
    BY <1>6, <2>1, <2>2, <2>3, <2>4
<1> QED
  BY <1>1, <1>2, <1>3, <1>4, <1>5, <1>6 DEF Next, Commands

\* Under the same conditions a row never changes from one server to another:
\* not by the restart of a worker, which re-reads the row from the file, nor by
\* tmfresh, whatever version of the file is installed.
THEOREM RowsKeepIds == Orderly => (Spec /\ KeptUp => IdentityStable)
<1> SUFFICES ASSUME Orderly PROVE Spec /\ KeptUp => IdentityStable
  OBVIOUS
<1> DEFINE Same == \A t \in SvrIx : op.at \in {"idle", "fresh"} /\ svr[t].id # -1 /\ svr'[t].id # -1
                                     => svr'[t].id = svr[t].id
<1>1. TypeOK /\ OrderInv /\ OrderInv' /\ [Next]_vars => [Same]_vars
  <2> SUFFICES ASSUME TypeOK, OrderInv, OrderInv', Next, NEW t \in SvrIx, op.at \in {"idle", "fresh"},
                      svr[t].id # -1, svr'[t].id # -1
               PROVE svr'[t].id = svr[t].id
    OBVIOUS
  <2>1. CASE op'.at = "one"
    BY <2>1, TrialBegins
  <2>2. CASE op'.at # "one"
    <3>1. PICK c \in Cfgs : t \in DOMAIN c /\ svr[t].id = c[t].id
      BY DEF OrderInv, Paired, Trial
    <3>2. PICK d \in Cfgs : t \in DOMAIN d /\ svr'[t].id = d[t].id
      BY <2>2 DEF OrderInv, Paired, Trial
    <3> QED
      BY <3>1, <3>2 DEF Orderly
  <2> QED
    BY <2>1, <2>2
<1>2. []TypeOK /\ []OrderInv /\ [][Next]_vars => [][Same]_vars
  BY <1>1, PTL
<1> QED
  BY <1>2, OrderKept, TypeCorrect, PTL DEF Spec, IdentityStable
-----------------------------------------------------------------------------
(***************************************************************************)
(* Whom the commands kill.  A worker that server_deatch gives up, or whose *)
(* restart fails, leaves its pid in the pid table; the kernel may give the *)
(* pid to a worker of another server, which server_kill then ends (hazard  *)
(* at Governor.c:351).  Before that happens the pids are the table's own.  *)
(***************************************************************************)

LeavesPid  == \E p \in Pids : ReapGiveUp(p) \/ ReapForkFails(p)
NoPidsLeft == [][~LeavesPid]_vars

\* A pid in the table is a child's that was neither told to end nor waited for.
Unwaited(p) == p = NoPid \/ proc[p].st \in {"run", "zombie"}

\* So is every pid in the table, and none is there twice; a free row is of no
\* server.
OwnRows == /\ \A r \in PidIx : Unwaited(tab[r].pid)
           /\ \A r, k \in PidIx : tab[r].pid = tab[k].pid /\ tab[r].pid # NoPid => r = k
           /\ \A r \in PidIx : tab[r].pid = NoPid => tab[r].svrid = 0

\* As long as the Governor runs and no state was written over a svrid.
OwnPids == Clean /\ op.at # "failed" => OwnRows

\* Pid rows are kept or cleared, and the children of those kept are too.
LEMMA OwnKept ==
    ASSUME OwnRows,
           \A k \in PidIx : \/ tab'[k] = ClearedTab
                            \/ /\ tab'[k].pid = tab[k].pid /\ tab'[k].svrid = tab[k].svrid
                               /\ Unwaited(tab[k].pid)'
    PROVE  OwnRows'
<1>0. ClearedTab.pid = NoPid /\ ClearedTab.svrid = 0
  BY DEF ClearedTab
<1>1. \A k \in PidIx : Unwaited(tab[k].pid)'
  BY <1>0 DEF Unwaited
<1>2. ASSUME NEW r \in PidIx, NEW k \in PidIx, tab'[r].pid = tab'[k].pid, tab'[r].pid # NoPid
      PROVE  r = k
  BY <1>0, <1>2, Zenon DEF OwnRows
<1>3. ASSUME NEW r \in PidIx, tab'[r].pid = NoPid PROVE tab'[r].svrid = 0
  BY <1>0, <1>3 DEF OwnRows
<1> QED
  BY <1>1, <1>2, <1>3 DEF OwnRows

\* Nothing changes in the table or in its children.
LEMMA OwnSame ==
    ASSUME OwnRows, UNCHANGED <<tab, proc>>
    PROVE  OwnRows'
  BY DEF OwnRows, Unwaited

\* A new child q in row r.
LEMMA OwnForked ==
    ASSUME OwnRows, NEW r \in PidIx, NEW q \in Pids, tab'[r].pid = q, proc'[q].st = "run",
           \A k \in PidIx \ {r} : /\ tab'[k].pid = tab[k].pid /\ tab[k].pid # q
                                  /\ tab'[k].svrid = tab[k].svrid,
           \A k \in PidIx \ {r} : tab[k].pid # NoPid => proc'[tab[k].pid].st \in {"run", "zombie"}
    PROVE  OwnRows'
<1>1. ASSUME NEW k \in PidIx PROVE Unwaited(tab[k].pid)'
  <2>1. CASE k = r
    BY <2>1 DEF Unwaited
  <2>2. CASE k # r
    BY <2>2 DEF Unwaited
  <2> QED
    BY <2>1, <2>2
<1>2. ASSUME NEW j \in PidIx, NEW k \in PidIx, tab'[j].pid = tab'[k].pid, tab'[j].pid # NoPid
      PROVE  j = k
  <2>1. CASE j = r \/ k = r
    BY <1>2, <2>1
  <2>2. CASE j # r /\ k # r
    BY <1>2, <2>2 DEF OwnRows
  <2> QED
    BY <2>1, <2>2
<1>3. ASSUME NEW k \in PidIx, tab'[k].pid = NoPid PROVE tab'[k].svrid = 0
  <2>1. k # r
    BY <1>3, PidAssumption
  <2> QED
    BY <1>3, <2>1 DEF OwnRows
<1> QED
  BY <1>1, <1>2, <1>3 DEF OwnRows

\* A fork of server_run or tmstart: a free pid row and a pid nobody has.
LEMMA OwnStarted ==
    ASSUME TypeOK, OwnRows, Clean', NEW r \in PidIx, NEW q \in FreePids, NEW id,
           OthersKept(r), tab'[r].pid = q, proc' = [proc EXCEPT ![q] = Child(id)]
    PROVE  OwnRows'
<1>2. q \in Pids /\ proc[q].st = "none" /\ q # NoPid
  BY PidAssumption DEF FreePids
<1>3. tab \in [PidIx -> TabRows] /\ proc \in [Pids -> Procs]
  BY DEF TypeOK
<1>4. \A k \in PidIx \ {r} : tab'[k].pid = tab[k].pid /\ tab'[k].svrid = tab[k].svrid
  BY DEF OthersKept, Clean
<1>5. proc'[q].st = "run" /\ \A x \in Pids \ {q} : proc'[x] = proc[x]
  BY <1>2, <1>3 DEF Child
<1>6. \A k \in PidIx : tab[k].pid # q /\ tab[k].pid \in Pids \cup {NoPid}
  BY <1>2, <1>3 DEF OwnRows, Unwaited, TabRows
<1>7. \A k \in PidIx : tab[k].pid # NoPid => proc'[tab[k].pid].st \in {"run", "zombie"}
  BY <1>5, <1>6 DEF OwnRows, Unwaited
<1> QED
  BY <1>2, <1>4, <1>5, <1>6, <1>7, OwnForked

\* One pid row is cleared after a fork that failed.
LEMMA OwnCleared ==
    ASSUME OwnRows, Clean', NEW r \in PidIx, OthersKept(r), tab'[r] = ClearedTab, proc' = proc
    PROVE  OwnRows'
<1>1. \A k \in PidIx : \/ tab'[k] = ClearedTab
                       \/ tab'[k].pid = tab[k].pid /\ tab'[k].svrid = tab[k].svrid
  BY DEF OthersKept, Clean
<1>2. \A k \in PidIx : tab'[k].pid = tab[k].pid => Unwaited(tab[k].pid)'
  BY DEF OwnRows, Unwaited
<1> QED
  BY <1>1, <1>2, OwnKept

\* server_kill of rows in use ends no worker whose row it does not clear.
LEMMA OwnKilled ==
    ASSUME TypeOK, OwnRows, NEW R \in SUBSET PidIx, server_kill(R), \A r \in R : tab[r].pid # NoPid
    PROVE  OwnRows'
<1>1. proc' = Terminated(R) /\ tab' = ClearedRows(R)
  BY DEF server_kill
<1>2. ASSUME NEW k \in PidIx
      PROVE  \/ tab'[k] = ClearedTab
             \/ tab'[k].pid = tab[k].pid /\ tab'[k].svrid = tab[k].svrid /\ Unwaited(tab[k].pid)'
  <2>1. CASE k \in R
    BY <1>1, <2>1 DEF ClearedRows
  <2>2. CASE k \notin R
    <3>1. tab'[k] = tab[k]
      BY <1>1, <2>2 DEF ClearedRows
    <3>2. CASE tab[k].pid = NoPid
      BY <3>1, <3>2 DEF Unwaited
    <3>3. CASE tab[k].pid # NoPid
      <4>1. tab[k].pid \in Pids
        BY <3>3 DEF TypeOK, TabRows
      <4>2. ~\E r \in R : tab[r].pid \in {tab[k].pid, NoPid}
        BY <2>2, <3>3 DEF OwnRows
      <4>3. proc'[tab[k].pid] = proc[tab[k].pid]
        BY <1>1, <4>1, <4>2 DEF Terminated
      <4> QED
        BY <3>1, <4>3 DEF OwnRows, Unwaited
    <3> QED
      BY <3>2, <3>3
  <2> QED
    BY <2>1, <2>2
<1> QED
  BY <1>2, OwnKept

LEMMA OwnReap ==
    ASSUME TypeOK, OrderInv, OwnRows, Clean', op'.at # "failed", Reap, ~LeavesPid
    PROVE  OwnRows'
<1>0. ASSUME NEW p \in Pids, ReapFault(p) PROVE FALSE
  <2>1. op' = Ended
    BY <1>0, Zenon DEF ReapFault
  <2> QED
    BY <2>1 DEF Ended, Idle
<1>1. PICK p \in Pids : ReapUnknown(p) \/ ReapRestart(p)
  BY <1>0 DEF Reap, LeavesPid
<1>2. Reportable(p)
  BY <1>1, Zenon DEF ReapUnknown, ReapRestart
<1>3. /\ proc[p].st = "zombie" /\ Reported(p)[p].st = "none"
      /\ \A x \in Pids \ {p} : Reported(p)[x] = proc[x]
  BY <1>2, ReportedDead
<1>4. tab \in [PidIx -> TabRows] /\ \A k \in PidIx : tab[k].pid \in Pids \cup {NoPid}
  BY DEF TypeOK, TabRows
<1>5. CASE ReapUnknown(p)
  <2>1. tab' = tab /\ proc' = Reported(p) /\ server_find_pid(p) = 0
    BY <1>5 DEF ReapUnknown
  <2>2. {r \in PidIx : tab[r].pid = p} = {}
    BY <2>1, FirstOrZeroIsRow DEF server_find_pid
  <2>3. \A k \in PidIx : tab[k].pid = NoPid \/ proc'[tab[k].pid] = proc[tab[k].pid]
    BY <1>3, <1>4, <2>1, <2>2
  <2>4. \A k \in PidIx : Unwaited(tab[k].pid)'
    BY <2>1, <2>3 DEF OwnRows, Unwaited
  <2> QED
    BY <2>1, <2>4, OwnKept
<1>6. CASE ReapRestart(p)
  <2> DEFINE r == server_find_pid(p)
             t == tab[r].svrpos
             s == reload_server_param(Counted(t).s, t)
             b(q) == [Counted(t).b EXCEPT ![r].tot = @ + 1, ![r].pid = q]
  <2>1. /\ r # 0
        /\ \E q \in Pids :
             /\ Reported(p)[q].st = "none"
             /\ proc' = [Reported(p) EXCEPT ![q] = Child(s[t].id)]
             /\ Strikes(r) /\ tab' = Overrun(b(q), r, TUX_AVAIL)
    BY <1>6, Zenon DEF ReapRestart
  <2>2. r \in PidIx /\ t \in SvrIx /\ tab[r].pid = p
    BY <2>1, FoundRow
  <2> HIDE DEF r, s
  <2>3. PICK q \in Pids :
          /\ Reported(p)[q].st = "none"
          /\ proc' = [Reported(p) EXCEPT ![q] = Child(s[t].id)]
          /\ Strikes(r) /\ tab' = Overrun(b(q), r, TUX_AVAIL)
    BY <2>1, Zenon
  <2> HIDE DEF t
  <2>4. Restarted(r, t, q)
    BY <2>2, <2>3, RestartRow
  <2>5. /\ tab'[r].pid = q
        /\ \A k \in PidIx \ {r} : tab'[k].pid = tab[k].pid /\ tab'[k].svrid = tab[k].svrid
    BY <2>4 DEF Restarted, OthersKept, Clean
  <2>6. Reported(p) \in [Pids -> Procs]
    BY <1>2, ReportedType
  <2>7. proc'[q].st = "run" /\ \A x \in Pids \ {q} : proc'[x] = Reported(p)[x]
    BY <2>3, <2>6 DEF Child
  <2>8. q = p \/ proc[q].st = "none"
    BY <1>3, <2>3
  <2>9. ASSUME NEW k \in PidIx \ {r}
        PROVE  /\ tab[k].pid # p /\ tab[k].pid # q
               /\ tab[k].pid # NoPid => proc'[tab[k].pid].st \in {"run", "zombie"}
    <3>1. tab[k].pid # p
      BY <2>2, PidAssumption DEF OwnRows
    <3>2. tab[k].pid # q
      BY <2>8, <3>1, PidAssumption DEF OwnRows, Unwaited
    <3>3. ASSUME tab[k].pid # NoPid PROVE proc'[tab[k].pid].st \in {"run", "zombie"}
      <4>1. tab[k].pid \in Pids
        BY <1>4, <3>3
      <4>2. proc'[tab[k].pid] = proc[tab[k].pid]
        BY <1>3, <2>7, <3>1, <3>2, <4>1
      <4> QED
        BY <3>3, <4>2 DEF OwnRows, Unwaited
    <3> QED
      BY <3>1, <3>2, <3>3
  <2> QED
    BY <2>2, <2>5, <2>7, <2>9, OwnForked
<1> QED
  BY <1>1, <1>5, <1>6

LEMMA OwnRun ==
    ASSUME TypeOK, OwnRows, Clean', RunStep
    PROVE  OwnRows'
<1>1. CASE RunFork
  <2>1. /\ server_get_pidentry # 0
        /\ \E p \in FreePids :
             /\ tab' = [tab EXCEPT ![server_get_pidentry] =
                          [@ EXCEPT !.pid = p, !.svrid = svr[op.row].id, !.svrpos = op.row]]
             /\ proc' = [proc EXCEPT ![p] = Child(svr[op.row].id)]
    BY <1>1, Zenon DEF RunFork
  <2>2. PICK p \in FreePids :
             /\ tab' = [tab EXCEPT ![server_get_pidentry] =
                          [@ EXCEPT !.pid = p, !.svrid = svr[op.row].id, !.svrpos = op.row]]
             /\ proc' = [proc EXCEPT ![p] = Child(svr[op.row].id)]
    BY <2>1, Zenon
  <2>3. PICK e \in PidIx : e = server_get_pidentry
    BY <2>1, PidEntry
  <2>4. tab \in [PidIx -> TabRows]
    BY DEF TypeOK
  <2>5. tab'[e].pid = p /\ \A k \in PidIx \ {e} : tab'[k] = tab[k]
    BY <2>2, <2>3, <2>4 DEF TabRows
  <2>6. OthersKept(e)
    BY <2>5 DEF OthersKept
  <2> QED
    BY <2>2, <2>5, <2>6, OwnStarted
<1>2. CASE RunForkFails
  <2>1. server_get_pidentry # 0 /\ tab' = [tab EXCEPT ![server_get_pidentry] = ClearedTab] /\ proc' = proc
    BY <1>2, Zenon DEF RunForkFails
  <2>2. PICK e \in PidIx : e = server_get_pidentry
    BY <2>1, PidEntry
  <2>3. tab'[e] = ClearedTab /\ OthersKept(e)
    BY <2>1, <2>2 DEF OthersKept, TypeOK
  <2> QED
    BY <2>1, <2>3, OwnCleared
<1>3. CASE RunLimit \/ RunDone
  <2>1. UNCHANGED <<tab, proc>>
    BY <1>3, Zenon DEF RunLimit, RunDone
  <2> QED
    BY <2>1, OwnSame
<1> QED
  BY <1>1, <1>2, <1>3 DEF RunStep

LEMMA OwnCommand ==
    ASSUME TypeOK, OwnRows, Clean', op'.at # "failed", Commands
    PROVE  OwnRows'
<1>0. ASSUME NEW id \in CmdIds, StartFault(id) PROVE FALSE
  <2>1. op' = Ended
    BY <1>0, Zenon DEF StartFault
  <2> QED
    BY <2>1 DEF Ended, Idle
<1>1. PICK id \in CmdIds : StartMore(id) \/ StartMoreFails(id) \/ StartNew(id) \/ CmdExit(id) \/ CmdFresh(id)
  BY <1>0 DEF Commands
<1>a. id \in Nat /\ id # 0
  BY CfgAssumption
<1> DEFINE t == find_server_id(id)
           e == server_get_pidentry
<1>2. CASE StartMore(id)
  <2>1. /\ t # 0 /\ e # 0 /\ Strikes(e)
        /\ \E p \in FreePids :
             /\ tab' = [Overrun(Assigned(e, id, t), e, TUX_IDLE) EXCEPT ![e].pid = p]
             /\ proc' = [proc EXCEPT ![p] = Child(id)]
    BY <1>2, Zenon DEF StartMore
  <2>2. t \in SvrIx /\ e \in PidIx
    BY <2>1, PidEntry, FindId
  <2> HIDE DEF t, e
  <2>3. PICK p \in FreePids :
             /\ tab' = [Overrun(Assigned(e, id, t), e, TUX_IDLE) EXCEPT ![e].pid = p]
             /\ proc' = [proc EXCEPT ![p] = Child(id)]
    BY <2>1, Zenon
  <2>4. p \in Pids \cup {NoPid}
    BY DEF FreePids
  <2>5. Started(e, id, t, p)
    BY <1>a, <2>1, <2>2, <2>3, <2>4, StartRow
  <2>6. tab'[e].pid = p /\ OthersKept(e)
    BY <2>5 DEF Started
  <2> QED
    BY <2>2, <2>3, <2>6, OwnStarted
<1>3. CASE StartMoreFails(id)
  <2>1. /\ t # 0 /\ proc' = proc
        /\ \/ tab' = tab
           \/ /\ e # 0 /\ Strikes(e)
              /\ tab' = [Overrun(Assigned(e, id, t), e, TUX_IDLE) EXCEPT ![e] = ClearedTab]
    BY <1>3, Zenon DEF StartMoreFails
  <2>2. t \in SvrIx /\ (e # 0 => e \in PidIx)
    BY <2>1, PidEntry, FindId
  <2> HIDE DEF t, e
  <2>3. CASE tab' = tab
    BY <2>1, <2>3, OwnSame
  <2>4. CASE /\ e # 0 /\ Strikes(e)
             /\ tab' = [Overrun(Assigned(e, id, t), e, TUX_IDLE) EXCEPT ![e] = ClearedTab]
    <3>1. OthersKept(e) /\ tab'[e] = ClearedTab
      BY <1>a, <2>2, <2>4, StartCleared
    <3> QED
      BY <2>1, <2>2, <2>4, <3>1, OwnCleared
  <2> QED
    BY <2>1, <2>3, <2>4
<1>4. CASE StartNew(id)
  <2>1. UNCHANGED <<tab, proc>>
    BY <1>4, Zenon DEF StartNew
  <2> QED
    BY <2>1, OwnSame
<1>5. CASE CmdExit(id) \/ CmdFresh(id)
  <2>1. server_kill(Matches(id))
    BY <1>5, Zenon DEF CmdExit, CmdFresh
  <2>2. Matches(id) \in SUBSET PidIx /\ \A r \in Matches(id) : tab[r].pid # NoPid
    BY <1>a DEF Matches, OwnRows
  <2> QED
    BY <2>1, <2>2, OwnKilled
<1> QED
  BY <1>1, <1>2, <1>3, <1>4, <1>5

LEMMA OwnRest ==
    ASSUME Orderly, TypeOK, OrderInv, OrderInv', OwnRows, Clean, Clean', op.at # "failed",
           WorkerStep \/ Boot \/ OneLine \/ FreshLine \/ unload_server \/ EditCfg
    PROVE  OwnRows'
<1>1. CASE Boot \/ OneLine \/ FreshLine \/ EditCfg
  <2>1. UNCHANGED <<tab, proc>>
    BY <1>1, Zenon DEF Boot, LoadLine, LoadDone, LoadRow, OneLine, FreshLine, EditCfg
  <2> QED
    BY <2>1, OwnSame
<1>2. CASE unload_server
  <2> DEFINE R == UNION {Matches(svr[t].id) : t \in SvrIx}
  <2>1. op'.at = "down" /\ tab' = ClearedRows(R)
    BY <1>2 DEF unload_server, Idle
  <2> HIDE DEF R
  <2>2. \A r \in PidIx : tab'[r].pid = NoPid
    BY <2>1 DEF OrderInv, Owned
  <2>3. \A r \in PidIx : tab'[r] = ClearedTab \/ tab'[r] = tab[r]
    BY <2>1 DEF ClearedRows
  <2> QED
    BY <2>2, <2>3, OwnKept DEF Unwaited
<1>3. ASSUME NEW p \in Pids, Crash(p) \/ TermExit(p)
      PROVE  OwnRows'
  <2>1. tab' = tab /\ proc' = Gone(p)
    BY <1>3 DEF Crash, TermExit
  <2>2. tab \in [PidIx -> TabRows] /\ proc \in [Pids -> Procs]
    BY DEF TypeOK
  <2>3. ASSUME NEW k \in PidIx, tab[k].pid # NoPid
        PROVE  proc'[tab[k].pid].st \in {"run", "zombie"}
    <3>1. op.at # "down"
      BY <2>3 DEF OrderInv, Owned
    <3>2. proc' = [proc EXCEPT ![p] = [@ EXCEPT !.st = "zombie"]]
      BY <2>1, <3>1 DEF Gone
    <3>3. proc'[p].st = "zombie" /\ \A x \in Pids \ {p} : proc'[x] = proc[x]
      BY <2>2, <3>2 DEF Procs
    <3>4. tab[k].pid \in Pids
      BY <2>2, <2>3 DEF TabRows
    <3> QED
      BY <2>3, <3>3, <3>4 DEF OwnRows, Unwaited
  <2>4. \A k \in PidIx : Unwaited(tab[k].pid)'
    BY <2>1, <2>3 DEF Unwaited
  <2> QED
    BY <2>1, <2>4, OwnKept
<1>4. ASSUME NEW p \in Pids, Stop(p) \/ Continue(p)
      PROVE  OwnRows'
  BY <1>4 DEF Stop, Continue, Orderly, OrderInv, Manned
<1> QED
  BY <1>1, <1>2, <1>3, <1>4 DEF WorkerStep

\* A Governor that ended does nothing more, and a write is not undone.
LEMMA EndedStays ==
    ASSUME Next, Clean', op'.at # "failed"
    PROVE  Clean /\ op.at # "failed"
<1>1. CASE WorkerStep \/ EditCfg
  <2>1. op' = op /\ struck' = struck
    BY <1>1, Zenon DEF WorkerStep, Crash, Stop, Continue, TermExit, EditCfg
  <2> QED
    BY <2>1 DEF Clean
<1>2. CASE Boot \/ RunStep \/ OneLine \/ FreshLine
  <2>1. op.at \in {"boot", "load", "run", "one", "fresh"} /\ struck' = struck
    BY <1>2, Zenon DEF Boot, LoadLine, LoadDone, LoadRow, OneLine, FreshLine, RunStep, RunFork,
                       RunForkFails, RunLimit, RunDone
  <2> QED
    BY <2>1 DEF Clean
<1>3. CASE Reap \/ Commands \/ unload_server
  <2>1. IsIdle /\ (struck' = struck \/ \E r \in {server_get_pidentry} \cup
                                              {server_find_pid(p) : p \in Pids} : Strikes(r))
    BY <1>3, Zenon DEF Reap, ReapUnknown, ReapGiveUp, ReapRestart, ReapForkFails, ReapFault, Commands,
                       Command, StartMore, StartMoreFails, StartNew, StartFault, CmdExit, CmdFresh,
                       unload_server
  <2>2. struck \subseteq struck'
    BY <2>1, Zenon DEF Strikes
  <2> QED
    BY <2>1, <2>2 DEF IsIdle, Clean
<1> QED
  BY <1>1, <1>2, <1>3 DEF Next

LEMMA OwnKeptUp == Orderly => (Spec /\ KeptUp /\ NoPidsLeft => []OwnPids)
<1> SUFFICES ASSUME Orderly PROVE Spec /\ KeptUp /\ NoPidsLeft => []OwnPids
  OBVIOUS
<1>1. Init => OwnPids
  BY DEF Init, ClearedTab, OwnPids, OwnRows, Unwaited
<1>2. TypeOK /\ OrderInv /\ OrderInv' /\ OwnPids /\ [Next]_vars /\ [~LeavesPid]_vars => OwnPids'
  <2> SUFFICES ASSUME TypeOK, OrderInv, OrderInv', OwnPids, [Next]_vars, [~LeavesPid]_vars
               PROVE  OwnPids'
    OBVIOUS
  <2>1. CASE UNCHANGED vars
    BY <2>1 DEF vars, OwnPids, OwnRows, Unwaited, Clean
  <2>2. CASE Next /\ vars' # vars
    <3> SUFFICES ASSUME Clean', op'.at # "failed" PROVE OwnRows'
      BY DEF OwnPids
    <3>1. ~LeavesPid
      BY <2>2
    <3>2. Clean /\ op.at # "failed" /\ OwnRows
      BY <2>2, EndedStays DEF OwnPids
    <3> QED
      BY <2>2, <3>1, <3>2, OwnReap, OwnRun, OwnCommand, OwnRest DEF Next
  <2> QED
    BY <2>1, <2>2
<1> QED
  BY <1>1, <1>2, OrderKept, TypeCorrect, PTL DEF Spec, NoPidsLeft

\* SIGTERM goes to the workers in the rows that server_kill clears, and to every
\* worker if one of them is free.
LEMMA TermBy ==
    ASSUME TypeOK, Next, op'.at # "down", NEW p \in Pids, proc[p].st \in Alive, proc'[p].st = "term"
    PROVE  /\ IsIdle
           /\ \E id \in CmdIds :
                 /\ find_server_id(id) # 0
                 /\ svr' = [svr EXCEPT ![find_server_id(id)].type = SVR_TEMP,
                                       ![find_server_id(id)].state = TUX_DEAD]
                 /\ \E r \in Matches(id) : tab[r].pid \in {p, NoPid}
<1>a. proc \in [Pids -> Procs] /\ proc[p].st # "term"
  BY DEF TypeOK, Alive
<1>1. CASE Boot \/ OneLine \/ FreshLine \/ EditCfg
  <2>1. proc' = proc
    BY <1>1, Zenon DEF Boot, LoadLine, LoadDone, LoadRow, OneLine, FreshLine, EditCfg
  <2> QED
    BY <1>a, <2>1
<1>2. CASE unload_server
  BY <1>2 DEF unload_server, Idle
<1>3. ASSUME NEW x \in Pids, Crash(x) \/ TermExit(x) \/ Stop(x) \/ Continue(x)
      PROVE  FALSE
  BY <1>a, <1>3 DEF Crash, TermExit, Stop, Continue, Gone, NoProc, Procs
<1>4. CASE RunStep
  <2>1. proc' = proc \/ \E x \in FreePids, n \in {svr[op.row].id} : proc' = [proc EXCEPT ![x] = Child(n)]
    BY <1>4, Zenon DEF RunStep, RunFork, RunForkFails, RunLimit, RunDone
  <2> QED
    BY <1>a, <2>1 DEF Child
<1>5. ASSUME NEW x \in Pids, ReapUnknown(x) \/ ReapGiveUp(x) \/ ReapRestart(x) \/ ReapForkFails(x)
                               \/ ReapFault(x)
      PROVE  FALSE
  <2>1. \/ proc' = Reported(x)
        \/ \E q \in Pids : \E n : \/ proc' = [Reported(x) EXCEPT ![q] = Child(n)]
                                  \/ proc' = Orphaned([Reported(x) EXCEPT ![q] = Child(n)])
    BY <1>5, Zenon DEF ReapUnknown, ReapGiveUp, ReapRestart, ReapForkFails, ReapFault
  <2>2. Reported(x)[p].st # "term" /\ Reported(x) \in [Pids -> Procs]
    BY <1>a, ReportedType DEF Reported, NoProc, Procs
  <2>3. ASSUME NEW q \in Pids, NEW n PROVE [Reported(x) EXCEPT ![q] = Child(n)][p].st # "term"
    BY <2>2 DEF Child
  <2> QED
    BY <2>1, <2>2, <2>3 DEF Orphaned, NoProc
<1>6. ASSUME NEW id \in CmdIds, StartMore(id) \/ StartMoreFails(id) \/ StartNew(id) \/ StartFault(id)
      PROVE  FALSE
  <2>1. \/ proc' = proc \/ proc' = Orphaned(proc)
        \/ \E x \in FreePids : proc' = [proc EXCEPT ![x] = Child(id)]
    BY <1>6, Zenon DEF StartMore, StartMoreFails, StartNew, StartFault
  <2> QED
    BY <1>a, <2>1 DEF Child, Orphaned, NoProc
<1>7. ASSUME NEW id \in CmdIds, CmdExit(id) \/ CmdFresh(id)
      PROVE  /\ IsIdle /\ find_server_id(id) # 0
             /\ svr' = [svr EXCEPT ![find_server_id(id)].type = SVR_TEMP,
                                   ![find_server_id(id)].state = TUX_DEAD]
             /\ \E r \in Matches(id) : tab[r].pid \in {p, NoPid}
  <2>1. /\ IsIdle /\ find_server_id(id) # 0
        /\ svr' = [svr EXCEPT ![find_server_id(id)].type = SVR_TEMP,
                              ![find_server_id(id)].state = TUX_DEAD]
        /\ proc' = Terminated(Matches(id))
    BY <1>7, Zenon DEF CmdExit, CmdFresh, server_kill, Command
  <2>2. \E r \in Matches(id) : tab[r].pid \in {p, NoPid}
    BY <1>a, <2>1 DEF Terminated
  <2> QED
    BY <2>1, <2>2
<1> QED
  BY <1>1, <1>2, <1>3, <1>4, <1>5, <1>6, <1>7 DEF Next, WorkerStep, Reap, Commands

\* Under the same conditions, and as long as no worker is given up with its
\* pid left in the table: tmexit and tmfresh end workers of the server they
\* name and mark as dead, and of no other, however pids are used again.
THEOREM CommandsKillOwn == Orderly => (Spec /\ KeptUp /\ NoPidsLeft => KillsOwnWorkers)
<1> SUFFICES ASSUME Orderly PROVE Spec /\ KeptUp /\ NoPidsLeft => KillsOwnWorkers
  OBVIOUS
<1> DEFINE Own == op'.at # "down" /\ "svrid" \notin struck =>
         \A p \in Pids : proc[p].st \in Alive /\ proc'[p].st = "term" =>
            \E t \in SvrIx : /\ svr[t].id = proc[p].id
                             /\ svr'[t].type = SVR_TEMP /\ svr'[t].state = TUX_DEAD
<1>1. TypeOK /\ OrderInv /\ OwnPids /\ [Next]_vars => [Own]_vars
  <2> SUFFICES ASSUME TypeOK, OrderInv, OwnPids, Next, op'.at # "down", Clean, NEW p \in Pids,
                      proc[p].st \in Alive, proc'[p].st = "term"
               PROVE  \E t \in SvrIx : /\ svr[t].id = proc[p].id
                                       /\ svr'[t].type = SVR_TEMP /\ svr'[t].state = TUX_DEAD
    BY DEF Clean
  <2>0. IsIdle
    BY TermBy
  <2>1. PICK id \in CmdIds :
              /\ find_server_id(id) # 0
              /\ svr' = [svr EXCEPT ![find_server_id(id)].type = SVR_TEMP,
                                    ![find_server_id(id)].state = TUX_DEAD]
              /\ \E r \in Matches(id) : tab[r].pid \in {p, NoPid}
    BY TermBy
  <2>a. OwnRows /\ id # 0
    BY <2>0, CfgAssumption DEF OwnPids, IsIdle
  <2>2. PICK t \in SvrIx : t = find_server_id(id) /\ svr[t].id = id
    BY <2>1, FindId
  <2>3. svr'[t].type = SVR_TEMP /\ svr'[t].state = TUX_DEAD
    BY <2>1, <2>2 DEF TypeOK, SvrRows
  <2>4. PICK r \in PidIx : tab[r].pid = p /\ tab[r].svrid = id
    BY <2>1, <2>a DEF Matches, OwnRows
  <2>5. proc[p].st = "run"
    BY DEF OrderInv, Manned, Alive
  <2>6. PICK k \in PidIx : tab[k].pid = p /\ tab[k].svrid = proc[p].id
    BY <2>5 DEF OrderInv, Manned
  <2>7. k = r
    BY <2>4, <2>6, <2>a, PidAssumption DEF OwnRows
  <2> QED
    BY <2>2, <2>3, <2>4, <2>6, <2>7
<1>2. []TypeOK /\ []OrderInv /\ []OwnPids /\ [][Next]_vars => [][Own]_vars
  BY <1>1, PTL
<1> QED
  BY <1>2, OwnKeptUp, OrderKept, TypeCorrect, PTL DEF Spec, KillsOwnWorkers
=============================================================================
