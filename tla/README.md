# sunda in TLA+

sunda is a small transaction monitor in C. A *Governor* process starts the worker
processes of the configured servers and restarts the ones that die; requests and
replies travel through two System V message queues (the *bus*); communication
servers connect TCP clients with the bus; messages may be XML documents, for which
the repository has its own copy of Mini-XML and an interface on top of it. This directory models its parts in TLA+,
checks the models with TLC on small instances, and proves some of their properties
with TLAPS for every instance. Paths below are relative to `src/dev/`.

## Inventory

| Component | State | Operations | What is hard | What makes it correct |
|---|---|---|---|---|
| Governor (`src/Main/Governor.c`) | server table and pid table in shared memory, the configuration file, its child processes | load the configuration, start workers, `server_deatch` (SIGCLD), tmstart, tmexit, tmfresh, tmdown | workers die, stop and exit at any moment; forks fail; tables fill; the file changes between commands; server rows, pid rows and server ids are mixed up | no worker is lost, stopped servers stay stopped, restarts are bounded, rows keep their server |
| Message bus (`src/pubfun/tux/tuxmgr.c`, `src/pubfun/common/funmsq.c`, `src/pubfun/tux/tuxmain.c`) | request queue, reply queue, callers, workers | `tux_call`, `tux_acall`, `tux_getreply`, `tux_service`, `tux_return`, `tux_forward`, `clean_task_msg` | alarms race replies; workers crash with a request; check-then-send; queues at their limits; a queue is emptied while it is used | a call is executed and answered once, replies reach their caller, calls return, queues are bounded |
| Communication server (`src/comm/commserver/commserver.c`, `src/pubfun/common/funsock.c`) | connection tables, counters, sockets, epoll events | accept, event handling, idle clean-up, reader and writer threads | threads share the tables partly without lock; descriptors are reused; edge-triggered events; memory moved by a wrong count | tables and sockets agree, no event is lost, replies reach the client that asked |
| C001 (`src/comm/C001/C001.c`) | table of children, connections | one child per connection, one `tux_call` per child, SIGCLD, SIGTERM | signals merge; pids, which are reply types, are reused; the parent ends first | every client gets its own reply, no connection and no child is left behind |
| C002 (`src/comm/C002/C002.c`) | two children, two sockets | one child puts the peer's requests on the bus, one writes replies; the parent replaces a child that ends | a new child reads on in the stream of the old one; SIGTERM is held in the children | requests keep their order, children end with the parent |
| Service table (`tuxmgr.c` 611-810) | slots of services in shared memory | `tux_advertise`, `tux_unadvertise`, look-ups | several processes write the table without a lock; slots are never given back; the table fills | a service is found as long as it is advertised, a request never runs another service's function |
| Start and removal (`tuxmgr.c` 162-430, `funsem.c`, `funmem.c`) | shared memory segment, two queues, semaphore | `sys_start`, `ipc_connect`, `ipc_remove`, `tux_lock`, `tux_unlock` | start twice, a start that fails or dies halfway, a semaphore set again while it is held, names and ids that outlive each other | whoever is connected can use what it found, the operator can always start or remove, the lock excludes |
| Operator tools (`src/Main/tm*.c`, `tuxcmd.c`) | none of their own | send a command over the bus | several operators at once | the command reaches the Governor |
| Helpers (`src/pubfun/common/`) | none | files, strings, dates, sockets, trace | dates at month, year and century ends | the date functions agree with the calendar and each other |
| XML nodes (`mxml-node.c`, `mxml-attr.c`, `mxml-set.c`, `mxml-search.c`, `mxml-index.c`) | a heap of linked nodes, indexes | create, add, remove, delete, retain, release, set, walk, find, index | five pointers per node; long sequences of moves; deletion of shared nodes; a hand-written quicksort and binary search | links agree, walks and searches are complete |
| XML files (`mxml-file.c`, `mxml-entity.c`) | the loader's variables | load (DOM or SAX), save, characters and entities | errors anywhere in the input, cut input, bytes from 0x80 on | nothing is leaked or used after it is freed, cut input is refused, text survives |
| XML messages (`xml.c`) | one document per process | XmlInit, XmlSet, XmlAddList, XmlGet, XmlFetchList, save, load | failing allocations, buffers that are too small | a message of independent fields that survives a round trip whole or not at all |
| Samples (`src/client`, `src/onlsvr`) | - | - | - | - |

The components meet in these places. A communication server or tool calls the bus;
the bus reads a server's state in the Governor's table before it sends; the
Governor's command handler is itself a service of the bus; tmexit kills workers
(Governor) and empties their requests (Bus); a worker that ends is restarted by the
Governor. `Bus` contains what the Governor does to the queues and the workers,
`CommServer` and `ShortConn` abstract the bus to the requests that may still be
answered and the replies; `LongConn` sees its two ends. `Lifecycle` provides the
segment in which the tables of `Governor` and `Services` live; those two start from
the state `sys_start` leaves. `XmlDoc` uses the reader and writer of `XmlFile`, whose
documents are the trees of `XmlTree` built in one direction only.

`PROJECT.json` lists every component with its status, and under "hazards" what is
hard to test in this code, with its line and the properties about it.

## Modules

### Governor

`svr` and `tab` are the two shared tables (rows 1..NS and 1..NP, two sizes that the code
reads separately, tuxmgr.c:290-294; row 0 is the Governor's and is constant), `proc` the children by pid, `cfg` the file on disk, `op` the position of
the handler that runs. A command handler and the SIGCLD handler run with the other's
signal held, so they do not interleave; the loops in them are steps of their own
because workers die, and forks fail, between two turns. `server_deatch`'s loop is
`ReapUnknown`, `ReapGiveUp`, `ReapRestart`, `ReapForkFails` and `ReapFault`, one child per step;
tmstart, tmexit and tmfresh are `StartMore`, `StartMoreFails`, `StartFault`, `StartNew`,
`CmdExit`, `CmdFresh`, with `OneLine` and `FreshLine` for the loops over the file; tmdown is
`unload_server`. The mixed-up indices of the code are kept: the restart counter of
the pid row with the *server's* index, the state of the server row with the *pid
row's* index, ids compared with states and row numbers.

The pid table lies directly behind the server table, and by default has ten times its
rows, so that the state of "the server row with the pid row's index" is often not in the
server table at all. `SetStat` and `Overrun` follow that write. The layout is that of a
64-bit build: a server row has 232 bytes with the state at 204, a pid row 48 with pid,
svrid, svrpos and tot_restart_count at 0, 4, 8 and 20, a service row 56. By that layout
the write can hit the svrid or the restart counter of a pid row, or fields that the model
leaves out, but never a pid or a svrpos. Behind the pid table it falls into the service
table, which is not followed into `Services`; behind the segment (`Beyond`) it is lost or
ends the Governor (`ReapFault`, `StartFault`).

`exited`, `restarts` and `struck`, the kinds of fields that a state was written into, are
history variables.

### Bus

`req` and `rsp` are the queues. A caller goes through `Locate` (the state of the
server is read once), `Stat` and `Send` (the two system calls of `MsqSnd`), `Listen`,
and then `Receive`, `Interrupt` (the alarm) and `Return`; `AlarmEarly` and `AlarmLate`
are alarms outside `msgrcv`. A worker goes through `Take` and one of `NoReply`,
`ReplyStat`/`ReplySend` and `FwdStat`/`FwdSend`; it may crash with its request, be
ended by SIGTERM anywhere, or leave its loop when `msgrcv` fails (`ServiceFails`). Two limits are kept apart: `MsqMax` is MSQ_MAX_NUM, which
`MsqSnd` checks, `KCap` the kernel's limit, at which `msgsnd` blocks. A call's number
is its identity; it is not in the code's messages and only the properties read it,
apart from `orphaned`, a history variable.

### CommServer

`tab` holds the connection tables, `sock` the process's descriptors with the events
epoll has for them, `main`, `rd` and `wr` the positions of the threads. What happens
under a table's lock is one step, except `del_connect_fd`, which makes the descriptor
free for `accept` before it clears the slot. `new_accept` and
`clean_time_out_connect` take no lock and are split at the accesses others may
separate. `CommClearFd` is modelled with the byte count the code computes, the
overrun into the next table included (`Overwritten` follows the layout of the
structures; the last slot of a full table gets its number from the word behind the
table, `FdBehind`); its overlapping `memcpy` is taken to move as `memmove` does.

`broken` records which of the code's hazards have struck: "overlap" (a slot is
cleared while the main thread is between two unlocked accesses to the table),
"overrun" (`CommClearFd` moved the wrong records), "reuse" (a thread uses a
descriptor that is another connection's by now), "count" (the counter of another
table was lowered). `Registered`, `RequestsRead` and `HangUpsClosed` say what holds
until then. comm_tables reaches all four kinds, comm_live "overlap" and "reuse".

Clients wait for the reply before they send again or hang up. A request may have
arrived only in part when it is read ("partial").

### Lifecycle

`shm`, `que` and `sem` say which segment, queues and semaphore the *names* stand for;
`seg` holds what is written in each segment ever made, since a segment outlives its
name while a process is attached. `sys_start` is `ShmCheck`, `ShmMake`, `CreateReq`,
`CreateRsp`, `SemMake`, each with its error path (a call listed in `Faults` may fail);
`ipc_connect` is `Attach`, `JoinSem`, `StoreSem`, `GetReq`, `StoreReq`, `GetRsp` and
`StoreRsp`, with the code's oddities: the semaphore's value is set to 1 by everyone who
connects; what is found, an id or -1, is stored, some time later, in the segment all
share, and it is what is then in the segment that is tested; and `que_connect` returns no
value. `ipc_remove` is
`StopSystem`, `QueRemove`, `SemRemove`, `ShmRemove`. `Die` ends a process anywhere and
lets the kernel undo its semaphore operations. `marred` records what the code cannot
exclude: "overlap" (two starts, or a start and a removal, at once, or a
removal by a tmdown whose segment has lost its name since), "halfway" (a death
within one), "setval" (the semaphore set while it was held, or through an old
segment), "late" (a process that looked for the semaphore before `sem_create` stored its
-1 after it). `ConnectedUsable`, `Recoverable` and `LockExcludes` say what holds until
then.

### Services

`svc` is the table, `work` the position of each worker. The search (`Advertise`), the
zeroing of the slot (`ZeroSlot`), the stores of the name and the function (`StoreName`,
`StoreFun`) and that of the server's number (`Number`) are separate steps, as no lock is
taken, and a worker may end at any of them. A slot's flag is never set (`flags == SVC_INUSE` is a comparison), so that a
slot once used is never free again; without a free slot the code writes to slot -1
(`spilt`). `rushed` records that a worker searched while another, also of the same
service, was between its search and the store of its function: the two may then take
two slots, or the second is refused because it finds the name without the function. A
worker that dies between these two stores leaves such a name for good, and every later
advertisement of the service fails (SYS_EMATCH): no worker is "in" then, which
`ServicesKept` allows.

### ShortConn and LongConn

`ShortConn` is C001: `Fork` per accepted connection, and in the child `RcvRequest`,
`GetReply`, `CallTimesOut`, `WriteReply`, each ending in `Exit`. `child_exit` waits
for one child per signal, as the code returns after the first one it cannot find in
a table into which `reg_child` never writes. `merged` counts SIGCLDs that were
pending already, `stale` the pids whose child left a reply behind.

`LongConn` is C002 after the link is up. `link` is the stream from the peer, cut into
lengths and bodies; `Check` is the test for the parent at the top of both loops;
`Refork` is the SIGCLD handler; `Terminate` shows that SIGTERM, held when the
children are forked, reaches none of them. `son` holds all children ever forked and `cur`
the two that the parent knows: as waitpid asks for WUNTRACED, a child that was only
stopped (`Stop`) is replaced too, and may go on (`Continue`) beside the new one on the
same socket. `skewed` records a child lost or replaced between a length and its body, or
a replaced reader that went on. In C001 (C001.c:68) a stop only uses up one run of the
handler, as a merged SIGCLD does, and is not modelled.

### XmlTree, XmlSearch and XmlForest

`XmlTree` is the node heap: `h` the five links of every node, `kind`, `value`,
`attrs`, `ref` the other fields, `datum` which custom data are held. One action per
library call; `AddTo` keeps the eight ways `mxmlAdd` links a node, `Unlink` is
`mxmlRemove`, `DeleteTree` is `mxmlDelete` with its loop over the children. The one
precondition is the caller's: a node is not added below itself, which the code does
not check. `XmlSearch` adds `mxmlWalkNext`, `mxmlWalkPrev` and `mxmlFindElement`.

`XmlForest` is the abstract specification: nodes with *lists* of children, and the
operations new, add, detach, delete. `XmlSearch!ForestSpec` instantiates it with the
list one gets by following `child` and `next`: every call of the library is an
operation of the forest or leaves it alone. TLC checks it on four nodes,
`ForestRefined` proves it for any number. `TreesOK` says that the links are those of a
forest: they agree (`LinksOK`), the lists hold exactly the children (`ChildrenListed`),
and climbing by `parent` ends (`NoCycle`).

### XmlFile, XmlLoad, XmlText, XmlDoc and XmlRecords

`XmlFile` holds operators: `mxml_load_data` as a step per token (a tag with all it
contains, a space, another character), its error returns, its end, and
`mxml_write_node`. `XmlLoad` runs the loader on every token sequence, into no tree,
a root or an inner node, with every value type and with SAX callbacks that keep or
drop the nodes. `XmlText` writes and reads strings byte by byte: `ReadString` as element
text, where a control character, which reads as the end of the input, loses the buffer
without making a node; `ReadAttr` as an attribute, where the characters before it are
set, but what follows is parsed as another attribute, so that without a further `=` the
whole load fails.

`XmlDoc` is `xml.c`: the document, the handle `l_pIntXml` (-1 when a failed `XmlInit`
left it dangling; `UseFreed` is any call that then goes through it and makes `heap`
"corrupt", `torn` records such a failure until the next load), the string saved last, cut at any place when the buffer is too
small. `XmlRecords` is what it promises: a message, that is a value per field, which
is set, cleared, saved and loaded; `RecordsSpec` is the refinement, with the reads
`XmlGet` and `XmlFetchList` as the mapping.

### XmlIndex and Dates

`XmlIndex` translates the quicksort and the binary search of `mxml-index.c` and
checks complete sequences of `mxmlIndexFind` calls against the set of matching nodes.
`Dates` steps through the loop of `CountDate` and compares with `DiffDate`, whose loops
are `YearsSum` and `MonthsSum`, `CheckStrDate` and a day number computed by the rule of
the calendar.

### Proof and MC modules

`GovernorProofs`, `BusProofs`, `CommServerProofs`, `LifecycleProofs`,
`ServicesProofs` and `XmlTreeProofs` extend their component's module (and TLAPS),
`ConnProofs` extends `ShortConn` and `LongConn`, `LibraryProofs` extends `XmlLoad`,
`XmlText` and `Dates`. `MCGovernor`, `MCBus` and `MCXmlTree` hold the constants and symmetries of the
instances. `MCLibrary` and `MCSystem` put machines that share no state beside each
other: a behaviour is one of them at work, so that a run costs the sum of their
states, not the product.

## Runs

| Run | Question | Instance |
|---|---|---|
| gov_clean | Do tmexit and tmdown stop what they name, do rows keep their server and commands their victims? | 3 server rows, 9 pid rows, 5 pids (symmetric), 2 configurations, 2 crashes, 3 commands or edits, no faults |
| gov_faults | Do the tracking of workers and the restart budget survive failing forks, stopped workers, full tables and bad configuration lines? | 2 server rows, 4 pid rows, 5 pids, 3 configurations, 2 crashes or stops, 2 commands, MaxRestart 0 |
| gov_live | Does every tmexit complete and is every dead worker waited for? | 3 rows each, 3 pids, 1 crash, 2 commands, failing forks |
| bus_calls | Is a call ever in two places, can replies be mixed up, and how far are the queues above MSQ_MAX_NUM? | a synchronous and an asynchronous caller, a worker, two servers, 4 calls, 1 command, 1 crash, MsqMax 0, KCap 6 |
| bus_live | Does every call return, and is every request for a running server taken? | 2 callers, 2 servers with a worker each, one of them without the called service, 2 calls, 2 commands, 1 crash |
| comm_tables | Do the tables and the sockets agree? | 2 tables of 3 slots, 4 descriptors, 3 connections, 1 request |
| comm_live | Is every request read and every hung-up connection closed? | 2 tables, 3 descriptors, 2 connections, 2 requests |
| xml_tree | Do the links stay consistent, list every child, form no cycle and stand for the forest the calls promise; are walks and searches complete? | 4 nodes, 2 attribute names, 2 custom data (all symmetric), 2 extras |
| xml_doc | Does the message interface implement a message of independent fields, through failing allocations and cut strings? | 1 public field, 1 record set, 2 records, a string and an integer value |
| library | Does the loader lose or reuse nodes, is cut input refused; are index searches complete, does text survive, do dates agree? | 3 new nodes per load, every token kind; indexes of 5 nodes over 2 names and 2 values; 4 bytes out of 10; 500 days each way from 6 dates |
| system | What do start and removal, the lock, the service table, C001 and C002 guarantee? | 2 Governors (symmetric), 1 other client of the segment, 1 tmdown, 2 segments, every failing call; 4 workers, 3 slots; 3 clients, 2 pids; 2 messages, 2 new children, stops and deaths anywhere |
| gov_v_start | A started server accepts calls | violated: tmstart writes the state of the wrong row |

The last is a disagreement between a comment and the code; "findings" in
`PROJECT.json` quotes the lines.

**Bounds.** In gov_clean ids differ from row numbers and from each other, a server
has up to two workers and a third server can appear, so that a pid row, a server row
and an id with the same number belong to different servers; three commands suffice
for exit-start-exit and edit-fresh-exit sequences with a crash anywhere. The pid rows 4
and 5 are behind the server table; the state of "server row 5" is the svrid of pid row 9,
a free one, and once it has the id of a server the SIGTERM to its pid, -1, goes to every
process: without its exemption `KillsOwnWorkers` is violated in this run. `ExitStops` and
`DownStops` would need nine workers to be violated so. In gov_faults the tables have
fewer rows than the configurations ask for, two pid rows are behind the server table, and MaxRestart
is 0 so that the budget is used up by two crashes. In bus_calls MsqMax 0 makes every queued message a full queue for
the check; KCap 6 is more than four calls can fill, so that what bounds the request
queue is the check alone: two callers and the forwarding worker can have passed it at
once, and the queue reaches the three messages that `QueuesBounded` allows. (Replies have
one sender in this instance; `QueuesStayBounded` is about any number of both.) A smaller
KCap, at which `msgsnd` blocks, only takes behaviours away. Four calls allow a reply of
an earlier call to meet a later one. In comm_tables three
connections in one table fill it, reach the overrun into the other table, and
descriptors are reused. In xml_tree four nodes give every case of `mxmlAdd` (only,
first, inner and last child, a neighbour of another parent) and trees with two levels
below a top that is not a root; `MaxExtras` bounds together what multiplies states
without changing the shape: value nodes, attributes, retained references. In xml_doc
two records make the searches choose, and a save may be cut after any token and
within any tag; an allocation within a list fails for the first list only. In library
three nodes are enough for a node, its child and its sibling at each error; five
index nodes over two keys have runs of equal keys on both sides of the middle; the
ten bytes are the first and last of each class the code tells apart; the dates reach
the ends of leap and other centuries and both ends of the range of years. In system
two segments allow a complete restart while processes are still attached to the
first; three clients on two pids reuse one, and two new children leave an old one and
two successors on a stream.

Of C002, one reply is queued and one child stopped at a time (`OneReply`, `OneStopped`).
The run system stops (CONSTRAINT `Apart`) at states in which starts and
removals, or updates of the service table, have overlapped or a stream has had two
readers: beyond them the properties claim nothing, as their antecedents are false, but
for the end of C002's children, which `LinkKept` proves without condition. Operators, clients and crashes are bounded by the named
constants only; the program's own counters have no bound in the models.

**Restrictions of the environment.** gov_clean uses configurations whose lines are
only changed or appended and whose executables differ, and fault-free forks:
`IdentityStable`, `IdsUnique` and `KillsOwnWorkers` do not hold without that (see the
hazards at Governor.c:373, 478 and 351). No server has id 0 (hazard at 256). bus_live
has no forwards and no early alarms: with the first a deadlock of full queues is
real, the second is one of the deviations below.

CHECK_DEADLOCK is off: the system may be idle for ever, and the environment's bounds
run out.

**Known deviations.** Where the code does not do what its comments promise and no
property of a passing run says so; the first four are reproduced by the change named.
- SRVID 4 survives tmexit, since `server_kill` compares the id with TUX_DEAD
  (Governor.c:256): `ExitStops` in gov_clean with `Cfgs <- FourCfgs`, `CmdIds = {4, 7}`.
- An alarm between `tux_settimer` and `msgrcv` (tuxmgr.c:1055) leaves a call waiting for
  ever: `CallReturns` in bus_live with "early" in `Outcomes`.
- The reply of a timed-out call is handed to the next call with its type
  (tuxmgr.c:1056): `ReplyMatches` in bus_calls.
- The writer of the communication server writes to a descriptor that another client
  has by now (commserver.c:369): `OwnConnection` in comm_tables.
- A start or tmdown that dies halfway may leave a segment without queues or semaphore
  that can neither be started over nor removed with the tools; two Governors started
  at once share a segment (`marred`).
- A tmdown that is connected when another one removes the system goes on to remove the
  semaphore and the segment *by name*: those of a system started in between
  (`StopSystem`, `SemRemove`, `ShmRemove`; `ConnectedUsable` and `Recoverable` count it
  as "overlap").
- With more pid rows than server rows, as by default, restarts and tmstart write states
  behind the server table (Governor.c:357, 625): over the svrid of a pid row, which then
  belongs to another server, over a restart counter, into the service table or behind
  the segment (`Overrun`, `struck`).
- A process that looks for the semaphore while the system starts may store its -1 after
  the start (tuxmgr.c:413), and everyone then locks with it until the next process
  connects ("late").
- Two workers of one service that start together may take two slots, or one is refused;
  one that dies between the stores of name and function makes the service impossible to
  advertise (tuxmgr.c:653-655).
- A full service table is written at slot -1, the last pid row (`spilt`), and after
  `tux_unadvertise` a slot is lost for good.
- C001 leaves zombies when SIGCLDs merge, ends none of its children on SIGTERM and
  writes no error response (C001.c:81, 283, 259).
- C002 gives its requests the reply type COMM_L_MSG_TYPE_ROOT but waits for
  COMM_L_MSG_TYPE_ROOT + gSvrId (C002.c:270, 332), and subtracts that constant from the
  length (275): `ReplySent` in `LongConn` therefore stands for any sender to that type.
- C002 replaces a child that was only stopped, and when it goes on two children read one
  stream (C002.c:76; `skewed`).
- XmlInit keeps the pointer to the tree it deleted when an allocation fails, and the next
  call but XmlLoadString uses it (xml.c:83-113; `UseFreed`).
- The XML loader leaks what precedes a second outermost node when it fails, accepts an
  input whose outermost element is not closed unless it begins with `<?xml`, and loses
  element text with a control character, for which it also refuses, or cuts, an
  attribute; an index over several names misses matches when
  only a value is looked for.

**Fairness.** Governor: its own steps, delivery of SIGCLD, and workers that obey
SIGTERM (`exit_handler` ends the process). Commands, crashes, edits and continuing a
stopped worker are not fair. Bus: system calls return when they can, an alarm that
was set goes off, a handler ends, the Governor finishes a command and restarts
workers; making calls, crashes and commands are not fair. CommServer: each thread
runs; clients and the clock need not. All of it is weak fairness, what a preemptive
scheduler gives.

Every property of a passing run has a mutant of the code it must fail on
(`PROJECT.json`, "mutants"; the mutated forms stand before the definitions they
replace).

## Proofs

All theorems are for every value of the constants that satisfies the modules'
ASSUMEs: any two table sizes, configuration, set of pids, callers, workers and limits. The
ASSUMEs are about sizes (`SizeAssumption`, `ForksAssumption` and the like: natural
numbers, tables not empty), a finite set of pids (`PidsAssumption`), service names
that are not empty (`NameAssumption`), Governors that are not tmdowns
(`ProgramsAssumption`), tokens of the kinds the loader tells apart
(`TokensAssumption`), bytes other than NUL (`BytesAssumption`) and dates that are
natural numbers (`StartsAssumption`). Theorems with further conditions name them. In every proof the
invariant stands at the head of its part of the module, one named conjunct per idea,
followed by one lemma per action or group of actions.

**Governor**
- `TypeCorrect`: `TypeOK` is inductive as it stands. The part that matters is that a
  pid row in use names a server row, since `server_deatch` indexes the server table
  with it unchecked. It needs that no state written behind the server table hits a pid
  or a svrpos, which is arithmetic on the layout (`HitFieldOdd`).
- `NoWorkerLost`: `Tracked` by `TrackInv`, which also tracks stopped workers that
  waitpid has not reported: they may go on and run again, so that `Tracked` alone is
  not inductive. A live worker's row is not free, so it is not handed out again, and
  it is cleared only together with the SIGTERM; again no state is written over a pid.
- `RestartsBounded`: `RestartBudget` by `BudgetInv`: the number of restarts never
  exceeds the row's counter `tot`. The counter also grows by the deaths of other
  workers (the wrong index), so equality does not hold, but only that direction is
  needed. The condition, that no state was written over a counter, is part of
  `RestartBudget`.
- `ExitedStayDown`, `DownIsDown`, `IdsStayUnique`, `RowsKeepIds`: `ExitStops`,
  `DownStops`, `IdsUnique` and `IdentityStable`, each as
  `Orderly => (Spec /\ KeptUp => ...)`. `Orderly` is what the code needs of its
  environment because it mixes up indices, ids and states: workers are not stopped;
  every version of the file parses and a line keeps its index, id and executable from
  version to version, two lines differing in all three; no id is TUX_DEAD; and a server
  named in a command is at most one line behind the end of every version, as a new line
  is appended one at a time. gov_clean's configurations are orderly. `KeptUp` says that no
  `server_run` of tmfresh or tmstart fails: one that does gives the row up while its
  workers stay in the pid table. Forks may fail at start-up and in `server_deatch`. The
  invariant `OrderInv` ties each server row to the line of its index (`Paired`), pid
  rows to a server row by index (`Served`), whatever is written behind the server table,
  and, as long as no svrid was hit (`Clean`), also by id (`Owned`), running workers to a pid row
  with their id (`Manned`), and keeps pid rows of exited servers empty (`Barred`);
  `Filled` and `Subject` say where the handlers are. `IdsStayUnique` and `RowsKeepIds` need
  `Served` only and hold also after a svrid was hit; `ExitStops` and `DownStops` have that
  condition in their statement. `ExitStops` alone is not inductive: whether a late SIGCLD restarts a worker
  depends on the pid row, not on the process.
- `CommandsKillOwn`: `KillsOwnWorkers`, as
  `Orderly => (Spec /\ KeptUp /\ NoPidsLeft => ...)`. `NoPidsLeft` says that
  `server_deatch` gives no worker up and that its forks succeed: otherwise the row keeps
  a dead worker's pid, which the kernel may give to another server's worker. `OwnPids`:
  a pid in the table is a child's that was neither told to end nor waited for, and is
  there once, so that a pid used again is new to the table. `OwnRows`: a free row has the
  svrid 0, which no server has, so that no signal goes to its pid, -1.

**Bus**
- `BusTypeCorrect`: `TypeOK`, with the facts that a handler knows its request's reply
  type and a forwarding worker its destination.
- `QueuesStayBounded`: `QueuesBounded` by `BoundInv`: the length of a queue *plus the
  number of senders that passed the check and have not sent yet* stays within the
  bound. The length alone is not inductive.
- `NoCallTwice`: `OneCopy` by `CopyInv`: no place holds a call twice (`OnceEach`), no
  two kinds of place share one (`Apart`), and calls about to be sent have numbers that
  are nowhere on the bus yet (`Numbered`).
- `RepliesOwn`: `PrivateReplies => (Spec => []OwnReply)`. `PrivateReplies` says that
  the reply type of a caller of `tux_call` is its own, as the pid of a C001 child is;
  two operators sending the same command share one and are excluded. By `OwnInv`,
  whatever is on the bus with such a type belongs to the call its caller waits for,
  unless the type is orphaned.

**CommServer**
- `CommTypeCorrect`: `TypeOK` by `TypeInv`; `Pending`, that an edge of the listening
  socket, seen by the main thread or not, is a connection in the backlog, is needed
  for the backlog to stay a natural number.
- `TablesAgree`: `Registered` by `TableInv`. While no hazard has struck, tables have no
  gaps (`Packed`), records are in the table of their descriptor (`Homed`), connection
  numbers are given once (`Numbered`), the slot `new_accept` chose is still the first
  free one (`Accepting`), every open connection has its record (`Recorded`) and every
  record its connection (`Current`), apart from the descriptors that are being closed.
  For those `Cleaned` and `Deleting` say what is left: a reader's closed connection has
  its record before that of the connection that got the descriptor meanwhile, which is
  why the scan of `del_connect_fd`, the first with that descriptor, clears the right
  one; or it is gone already. `Registered` leaves out the descriptors in transit,
  which is where the induction has to look.

**Lifecycle**
- `Usable`, `Recovers`, `Excludes`: `ConnectedUsable`, `Recoverable` and `LockExcludes`
  from one invariant in layers. `Always` holds in every state; unless starts and
  removals overlapped, one of them at most is at work, on the segment of the name, the
  semaphore comes last and goes before the segment, and whoever joins meanwhile has
  not got past the semaphore (`OneWorks`, `Bare`, `Alone`, `Owned`); if none ended
  halfway either, the segment holds the ids there are (`Ready`), that of the semaphore
  unless one was stored late (`Named`). What a process has found and not stored yet is in
  the invariant: of the queues it is what there is, or there is none (`Fetched`). `Locked` has the undo
  values: without them the value after the death of a holder is not determined.

**Services, ShortConn, LongConn**
- `ServicesStay`: `ServicesKept` by `SvcInv`. What is about to be written or cleared
  (`Aimed`) and called (`Called`) is in the invariant; the important part is that a
  slot once used is never free again, so that a found slot gets no other service, and
  that, unless `rushed`, one worker at a time is between its search and its last store.
- `ShortKept`: `ShortSound` by `ShortInv`: a child at work has an open connection of its
  own (`Served`), and what is on the bus under its pid is its own request or reply
  (`Replied`) unless an earlier child left something behind.
- `LinkKept`: `LinkSound` by `LongInv`: unless `skewed`, only the child that the parent knows
  as the reader is not stopped; the requests on the bus, in the reading child and
  in the stream are one increasing sequence (`Before`), the stream is made of whole
  messages (`Whole`), and a child that read a length has the body before it (`AtBody`).

**XmlTree**
- `HeapTyped`, `LinksAgree`: `TypeOK` and `LinksOK` for heaps of any size. `LinksOK` is
  inductive together with `TypeOK`. The argument is per way of linking: `Unlink` and
  each of `LinkFirst`, `LinkBefore`, `LinkLast`, `LinkAfter` preserves `Neighbours`,
  `Ends`, `Roots` and `Inside` (lemmas about the five functions, without the state
  machine); `mxmlDelete` needs that the set of nodes below a node is closed under the
  links, so that clearing it leaves no link into it.
- `AttributesUnique`, `CustomDataOwned`: `AttrsUnique` and `DataOwned`; the second is
  proved with the fact that two nodes never hold the same data, since otherwise the
  destruction of one would take the other's.

- `ChildrenAllListed`: `ChildrenListed` from the existence of lists. `Listed` says that a
  list of children is given for every node that begins with `child`, goes on by `next`
  and has the nodes with that parent as members, each once. Each way of linking a node is shown to be an insertion into such
  lists and `Unlink` a removal. The recursive function by which `Chain` reads the links
  then has a value, namely these lists: it is shown to satisfy the equation, and to be
  the only one by a least position at which two would differ.
- `ForestRefined`: `Spec => ForestSpec`, one lemma per action: with `Chain` equal to the
  lists, the step lemmas above say which forest operation each call is.
- `ParentsAcyclic`: `NoCycle` is stated with sets: no non-empty set of nodes has all its
  parents in itself. When a tree is moved, a set closed under the new parents would
  contain the nodes above the new place; without the moved tree it is closed under the
  old ones. `TreesKept` puts the three parts of `TreesOK` together.

**XmlLoad**
- `ParentsLive`, `NodesKept`, `CutsRefused`: `ParentLive`, `NothingLost` and `CutRefused`
  from one invariant `LoadInv`. `Shaped` says that a node comes after its parent;
  `Growing` that while reading all that is below a freed node is freed, and the parent
  is not; `Counted` what `first` and `freed` are without SAX; `Ended` what the check at
  the end of the input leaves; `Traced` that the tags open at the moment are a path of
  nodes from an outermost node to `parent` (`Path`). None of the three properties is
  inductive alone: which tags are open is not in the loader's variables at all, only
  the chain of parents is. The parts of a step (a value, lone whitespace, then the tag)
  are shown one by one to add children to the parent, to make a new node the parent, to
  close the parent or to fail (`Adds`, `Opens`, `Closes`, `FailSound`). `UnderFact` shows
  that the recursive function in `Under` has a value, the least closed set.

**XmlText and Dates**
- `StringsSurvive`: `TextSurvives`, for text and attributes. Every byte is written as one character or entity and
  read as one byte (`ByteFacts`); `FlattenOnes` shows what joining lists of one element
  gives, by the least position at which it would be something else.
- `DatesCount`: `DatesAgree` by `DateInv`: the date reached is a day of the calendar in
  any year from 0 on, so many days from the start. The bound on the year that
  `DatesAgree` has would not be inductive. `DayStepCounts` goes through the five ways
  the loop can turn (within a month, over the end of a month or of a year, either
  way); `YearsSummed` and `MonthsSummed` give the sums of the loops of `DiffDate` as
  differences of day numbers.

Only model-checked: the liveness properties of `Governor`, `Bus` and `CommServer`, since
liveness under fairness is outside the prover's reach; the refinement `RecordsSpec` and
`DocSound`, which need what the recursive writer gives for every tree and the reader,
folded over it, makes of it, an induction over trees and tokens; `WalksInOrder` and
`FindsAll`, which compare walks with a recursive document order; and `FindComplete`,
whose quicksort and search are RECURSIVE operators.

## Not modelled

- `main_exit` of the communication server, and the exit of its writer when the bus is
  removed.
- `XmlIntGet`, `XmlStringCmp` and `XmlElementCmp`: they change nothing and are functions of
  what `XmlGet` reads.
- Message contents, lengths, packing; logging; option parsing.
- Partial execution of a record copy in the connection tables.
- The set-up of C002's link (accept, check of the address, connect with retries), a
  sequence without concurrency before the first child.
- `tux_alloc`, `tux_realloc`, `tux_free`: a heap block with its length in front.
- tmlook, which prints the tables; tmclear, which empties both queues.
- Helpers for files, strings and trace, which keep no state; sample programs.
- `mxml-file-utf8.c`, which the makefile does not build. In the library: custom load
  and save handlers, entity and error callbacks, the wrap margin, the branches for
  UTF-16 that the readers cannot reach because their first test takes every byte, and
  the formatting of numbers.

## Plan

What would come next: a proof of `WalksInOrder` from the lists of `Listed`, with the
document order given by positions instead of a recursive function; the round trip of
`XmlDoc` as an invariant that relates the tokens written so far to the nodes read.
