# BOL kernel in TLA+

This directory is a verification project for the BOL kernel (`BKernel`) of
this repository: a server process that keeps an in-memory SQLite database,
serves it to clients over TCP with protobuf messages, supervises child
processes whose tasks are rows of that database, runs cron tasks, and manages
chunks of shared memory. `asioperthread/` is a second, independent HTTP server.

Paths below are relative to the repository; line numbers are those of the files
in `src/` and `asioperthread/` (the comments in the sources are GBK).

## The system

| component | state | operations | talks to |
|---|---|---|---|
| request server: `BolServiceServer`, `BolServiceRequestHandler`, `ResponseSend`, `ResponseNotify`, `WorkTask` | connections and their handlers, receive buffers, request queue, response queue, the notify socket | accept, read and frame, enqueue, execute, enqueue the response, notify, write, shut down, stop | clients by socket; io thread and work threads by two `NotificationQueue`s and one byte on a loop-back socket |
| process supervisor: `RegularProcessTaskLoop` | `mapProcessHandle`, `m_vecRegularTaskLast`, rows of `MetaBpcbInfo` | wait for the first tasks, compare the task table, register, launch, terminate, remove, check heartbeats | task table edited by clients, heartbeats written by work threads, children by signals |
| cron tasks: `processTimeTask`, in every unit of the supervisor | `m_CronmapProcessHandle` with an "executed in this minute" flag, `NextExecuteTime` and the rows of `MetaBpcbInfo` | parse the fields, compute the next run, launch | cron table edited by clients |
| database layer: `DataAPI`, `DB` | one shared SQLite connection, a recursive mutex, the open transaction | query, add, erase, update, replace, create; begin, commit, rollback | called by every work thread and loop |
| system tables: `MemTableOp` | rows of the system tables, sequences | typed queries and updates | `DataAPI` |
| request execution: `ResponseOp` | none | translates one request to `DataAPI` calls | work threads |
| chunk manager: `MemTaskLoop`, `ShmSegment`, `ShmMappedFile` | chunk table read last, segments, bytes used per region | create, grow, shrink, delete a chunk | chunk table edited by clients, shared memory, which outlives the kernel |
| kernel: `KernelGuard`, `KernelTaskLoop`, `terminateAllChild` | the named mutex, the port, kernel status, the task manager | check the mutex, start all, wait for termination, stop server and loops, stop the children, remove the mutex | everything |
| HTTP server: `asioperthread` | connections, a pool of io services | accept, read, reply, stop | its own clients |
| redo log and backup, `TimeTaskLoop`, `OSInfoInterface`, `BolService.proto`, SQLite | | not started, not built, pure I/O, generated or vendored | |

### What makes it hard, and what correctness means

* **Request server.** One io thread, several work threads and a stopping main
  thread share two queues. A response is queued and announced in two steps; the
  io thread tests a queue and then calls a dequeue that blocks; a connection may
  go between a request and its answer; `cancelAll` and `wakeUpAll` race with a
  thread on its way to sleep. Correct means: every accepted request is executed
  once, in the order of its connection, is answered at most once, on its own
  connection and while that is open; an answer is not stranded; the io thread
  never waits on a queue; `stop()` ends.
* **Process supervisor.** The supervisor's three records of a task (list read
  last, handle, row) are written in four places, while clients edit the table,
  children report, hang and die, and the supervisor sleeps in the middle of its
  loops. Correct means: the records agree, the map follows the table, nothing
  stopped is launched, a task has one process, a dead child is launched again,
  a live one is left alone.
* **Database layer.** All threads share a connection and a transaction; a
  failure in the middle must undo everything and free the mutex.
* **Cron tasks.** Rows are read once per pass and edited meanwhile; whether a
  task already ran in this minute is one flag. Correct means: a schedule runs
  once in every minute it names and in no other, an interval once for every due
  time, also across the end of hours, days and months.
* **Chunk manager.** Segments are changed first and accounted for afterwards,
  the list worked off is older than the table, and segments outlive a kernel
  that is killed. Correct means: segments follow the table, the bytes accounted
  to a region are those of its chunks, a chunk is as large as its row says, and
  the memory of a chunk that is listed is not destroyed.
* **Kernel.** The mutex outlives a crash and an operator may remove it; children
  outlive their kernel; they are stopped in three groups, each by what their
  rows say. Correct means: one kernel at work, type A processes are waited for,
  a shutdown ends.

`PROJECT.json` lists the hazards one by one with the lines at which they bite and
the properties that watch them.

### How the modules fit together

There is no module that composes everything: the parts share rows of tables, and
each module has in its environment what the others do to the rows it reads. The
heartbeat that `ResponseOp` writes is an action of `ProcessSupervisor` and of
`KernelLifecycle`; the clients that edit a table through work threads are an
action of the module of the loop that reads the table. `DBTransaction` is what
entitles the other modules to take one `DataAPI` call as one step
(`CallsAreAtomic`); where a component makes two calls in succession, and where it
uses rows it has read before, the steps are separate. `KernelLifecycle` composes
the start and the end of the server and of the loops and takes what they do in
between from the other modules' interfaces.

## The modules

| module | models |
|---|---|
| `RequestPipeline` | the request server, one action per handler step |
| `RequestService` | what the server promises its clients, without threads and queues |
| `ProcessSupervisor` | the supervisor thread with clients, children and time around it |
| `DBTransaction` | the database calls of several threads over their one connection |
| `DataService` | what a database call promises its caller |
| `ChunkManager` | the chunk manager with clients, failures and a kernel that is killed |
| `CronCalendar` | pure: fields (`ParseField`) and dates, beside what they are meant to name |
| `CronSchedule` | the pass over the cron table, with clients and the clock |
| `KernelLifecycle` | several runs of the kernel, their lock, port, loops and children |
| `RequestPipelineProofs`, `RequestOwnershipProofs`, `ProcessSupervisorProofs`, `DBTransactionProofs`, `ChunkManagerProofs`, `CronScheduleProofs`, `KernelLifecycleProofs` | the theorems |
| `Induction` | lemmas the proofs share: the least number of a set, sums without recursion, iteration |
| `MCRequestPipeline`, `MCProcessSupervisor`, `MCDBTransaction`, `MCChunkManager`, `MCCronSchedule`, `MCKernelLifecycle` | instances for TLC; the values are in the `.cfg` files |

### RequestPipeline

| state | code |
|---|---|
| `conn`, `handlerMap` | the socket's life; `HandlerManager::_handlerMap` |
| `wire`, `inBuffer` | bytes sent and not received; `_inBuffer` of the handler |
| `requestQueue`, `waitQueue` | `_requestQueue` and the threads blocked in it |
| `responseQueue`, `notifyBytes`, `notifyOpen` | `_responseQueue`; the bytes in the notify socket and whether `ResponseNotify::close` was called |
| `io`, `ioConn`, `ioNf` | where the io thread is in `onRead` or `sendResponse` |
| `wpc`, `nf` | where each `WorkTask::runTask` is, and its `pTaskNf` |
| `cancelled`, `main` | `TaskManager::cancelAll`; the steps of `BolServiceServer::stop` |
| `got`, `unread`, `asked`, `peer` | the client's side of the connection |

A packet is one element of a sequence; its data is one of four kinds that the
server tells apart (known program, unknown program, unparsable, length zero). The
steps of a handler are separate actions wherever another thread can see the
difference: framing one packet, testing the response queue, dequeueing, sending.
`Bmco::NotificationQueue` is external: it hands a notification directly to the
longest waiting thread, and `wakeUpAll` makes the waiting ones return NULL. A
behaviour starts when `start()` has returned with the notify socket it meant to
get. `RequestService` is the abstract specification; `ImplementsService` maps a
request to pending while a notification of it is in a queue or in a thread's hands.

### ProcessSupervisor

| state | code |
|---|---|
| `table` | rows of `MetaRegularProcessTask` (IsValid, IsNoMonitor) |
| `bpcb` | rows of `MetaBpcbInfo`: SysPID, and whether the heartbeat is older than `kernel.expiresec` |
| `proc` | the processes of a task: none, up, signalled |
| `last`, `handle` | `m_vecRegularTaskLast`, `mapProcessHandle` |
| `todo` | what is left of each loop of the unit |
| `pc`, `loop`, `cur`, `target` | where the thread is; inside `terminateOneChild` the loop it returns to and the pid it signalled |
| `unasked` | history: the processes that were launched without an answer of `ps` |

Before a launch, `launchOneChild` asks `ps` with `kernel.isJudgeSingle` whether the
task runs already. The pattern it greps for has no end, so `Matching` says for
each task whose processes it finds: its own, and those of tasks whose ID begins
with its ID. With `JudgeMayFail` the search may fail (`popen`, or an output that
ends early), and the child is launched all the same.

`terminateOneChild` is two actions with its sleep of 2 s between them, and
`launchOneChild`, which reads the row again, is an action of its own. The
heartbeat check reads all rows in one action (`ReadAllBpcb`) and decides from
that reading later, as the code does. An exception that leaves `handleOneUnit`
drops the rest of the unit (`ChangesDone`). A read past the end of the map
(`DeleteBpcbInfoBybpcbd(mapProcessHandle.find(...)->second.bpcbId)` for a task
without a handle) deletes an arbitrary row or none. The loops take tasks in any
order, which covers the order by priority and by key.

### DBTransaction

| state | code |
|---|---|
| `rows` | the rows of one table: `None` or a value for each primary key |
| `open`, `saved` | SQLite's transaction and the table when it began |
| `affected` | `SQLiteDB::_affectRow`, shared by all callers |
| `owner`, `depth` | the recursive mutex `_mtx` |
| `pc`, `call` | where each thread is in its `DataAPI` call, and the call |
| `left`, `status`, `read` | records still to be inserted or read; the return value; the rows selected |

The five operations of `DataAPI` go through `beginTransaction` (lock, then
"begin"), their statements, `commitTransaction` or `rollbackTransaction`, and the
unlock; each is an action, an insert or a row read is one too, and every statement
may fail. `next()` is taken to succeed. With `MayThrow` an exception may come
between begin and commit: the `catch` at the end of each operation neither rolls
back nor unlocks. With `CommitMayFail` SQLite may refuse a commit, which the code
does not look at. A behaviour starts when the first call has opened the connection.

`DataService` is the abstract specification: a call happens as a whole at one
instant, or not at all. The refinement mapping takes as the table the one of the
last commit (`Committed`), and a call's outcome to be settled once it has
committed or rolled back.

### ChunkManager

| state | code |
|---|---|
| `chunks` | rows of `MetaChunkInfo`: region, bytes, whether they may grow or shrink, kind of memory |
| `segs` | the size of each `managed_shared_memory` and `managed_mapped_file`; they stay when the kernel goes |
| `used` | `MetaRegionInfo`: the bytes accounted to each region |
| `base` | history: what the accounts were when the loop began, or the kernel was started |
| `list` | `m_chunkmtx`, the rows of the last refresh |
| `pc`, `matrix` | `m_isNeedWaiting`, and what the wait reads |
| `todo` | what is left of the refresh |

A refresh computes its four vectors in one action, from the rows of that moment
and `list`, and replaces `list` at once; every operation on a segment, together
with the account that follows it, is an action, in the order of the code (grow and
shrink, then create, then delete). The kernel may be killed between any two of
these; killed between a segment and its account it leaves the same state, because
the next one sets the accounts to 0 before it begins. When setting one fails
(`ResetMayFail`), the code logs that and begins on top of what an earlier kernel
left. Chunks of the three regions, resizing up and down, `shrink_to_fit` taking any
amount, and failing operations (a shrink also half-way, which leaves a smaller
segment) are modelled; what a chunk holds is not, except that a segment that is
removed loses it.

### CronCalendar and CronSchedule

`CronCalendar` has `ParseField` as the code computes it (counting up modulo the
range, giving up after 1024 turns) next to `Named`, what a field is meant to name,
on a calendar whose units are constants. It uses a recursive function and no
`RECURSIVE` operator.

| state of `CronSchedule` | code |
|---|---|
| `table`, `next` | rows of `MetaBolCrontab` and their `NextExecuteTime` |
| `handle` | `_isExecuted` of each task in `m_CronmapProcessHandle` |
| `bpcb` | `ThisTimeStartTime` in `MetaBpcbInfo` |
| `now`, `compare` | the clock and `comparenow` |
| `todo` | the rows of this pass still to be handled, as they were read |
| `layout` | the byte behind `cl_Mons[12]`, which the code marks and reads for December |
| `calm` | history: `"soon"` when a row is written with nothing left of an earlier one, `"yes"` from the next minute on, `"failed"` once a launch, an update or a pass failed, `"no"` when the row is edited |

A pass reads clock and rows once (`BeginPass`) and then handles row after row:
`Skip`, `Postpone` (a first or missed due time), `Launch`, or `GiveUp` (an
exception, which drops the rest of the pass). The update of `NextExecuteTime` in
`Postpone` and `Launch` may fail, which the code logs before it goes on. The byte behind `cl_Mons` is
undefined behaviour: it is clear, set, or the first element of one of the other
fields.

### KernelLifecycle

| state | code |
|---|---|
| `lock`, `first`, `unlocks` | the named mutex; `fistRunner`; removals by `BOLKernel -u` |
| `port`, `main`, `asked` | the server's socket; where `main` of each run is; `terminate` |
| `sup`, `handles`, `left` | the thread of `RegularProcessTaskLoop`, its map, what is left of a pass of `terminateAllChild` |
| `ktask`, `row`, `status` | the thread of `KernelTaskLoop`; the kernel's row in `MetaBpcbInfo`; `MetaBolInfo` |
| `pid`, `child`, `told` | what a task's row says of its process; whether there is one; history: which kernel told it to end |

`terminateAllChild` is six passes (tell and await the processes that are not of
type A, those of type A, cloudagent), one action per task and one between passes.
A kernel may crash anywhere and the next be started, beside it or after it.
`server.stop()` is two actions: it begins (`Stop`), and it returns or never does
(`ServerStopped`, state `stuck`), because the threads it joins may sleep for ever
(`RequestPipeline` says when). Main cancels and joins the loops only after it.

## What is checked

| run | instance | shows |
|---|---|---|
| `pipeline_safety` | 1 client, 2 work threads, 3 packets of any kind, buffers of 1 | `TypeOK`, `NoLostNotification`, `IoNeverWaits`, `NoSleepWhileQueued`, `OneOwner`, `NoLostRequest`, `TakenInOrder`, `ImplementsService` |
| `pipeline_live` | 2 clients, 2 work threads, 1 request each | `RequestAnswered`, `StopCompletes`, `ImplementsService` |
| `supervisor_safety` | 2 tasks, started, stopped, added and removed | `TypeOK`, `MapAgrees`, `NeverLaunchStopped` |
| `supervisor_faults` | 2 tasks, every IsValid, one with an unknown program, failing inserts, failing searches of `ps`, update file | `AtMostOneInstance`, `UnknownNeverRegistered` |
| `supervisor_live` | 2 tasks, added and removed, the ID of one the beginning of the other's | `DeadChildRelaunched`, `MapFollowsTable` |
| `db_calls` | 2 threads, 2 rows, one call of each kind, every statement may fail | `TypeOK`, `FreeWhenOutside`, `CallsAreAtomic` |
| `db_faults` | 2 threads, 1 row, every call, exceptions, refused commits | `Exclusive`, `CallReturns` |
| `chunks_table` | 2 chunks, edits at any time, creations, shrinks, accounts and a reset that may fail, one restart | `TypeOK`, `AccountsAgree`, `LargeEnough`, `DataKept`, `SegmentsFollow` |
| `cron_tasks` | 2 tasks, 4 rows each, 3 edits, 6 ticks around the end of a month | `TypeOK`, `NamedMinutesRun`, `RunsAsNamed`, `NextAhead`, `DueRunsOnce` |
| `kernel_run` | 2 runs of the kernel, 3 tasks, crashes, one fault | `TypeOK`, `LockKept`, `OneAtWork`, `BolWaitedFor`, `ShutdownEnds` |
| `supervisor_alive`, `cron_every` | 1 task each | two disagreements of the code with its comments, below |

### Bounds

* **Pipeline.** Two work threads are the fewest that can overtake each other and
  fight for one queue; three packets of one connection can be in three places at
  once, or the middle one closes the connection under the others; two clients
  (the second run) the fewest between which an answer could be mixed up. Buffers
  of one element make every blocking send happen. `CHECK_DEADLOCK FALSE` is set
  because the server stops (and because a thread that went to sleep after the
  wake-up keeps it from stopping).
* **Supervisor.** Two tasks are enough for the check of one to be delayed by the
  termination of the other, or for its processes to be taken for those of the
  other. `MaxPid = 2` is a live process and the pid in the row, or two processes
  one of which was launched without an answer of `ps`; where that cannot fail a
  launch is never blocked by it. `supervisor_live` has one IsValid, which starts: its
  clients add and remove tasks; stopping and starting them is in the runs for
  safety, and does not touch the map. No run has a task without monitoring, whose
  rows the heartbeat check passes over; the theorems have.
* **Database.** Two rows are the fewest between which a call can fail half-way,
  two threads the fewest that can get into each other's transaction. `MaxDepth`
  bounds how often exceptions leave the mutex locked: after the first, only its
  owner gets in, and a second one changes nothing but the count.
* **Chunks.** `d1`, a shared memory, is resized between 2 and 3, removed and listed
  again, and its creation may fail; `m1`, a mapped file of another region, is resized
  between 1 and 2, and shrinking it and writing its account may fail; the reset of
  `d1`'s region may fail. `MaxSize` and `MaxUsed` stop edits of a
  chunk that has drifted (its segment doubled, its account wrong) so far that more
  edits only repeat it; one restart leaves every intermediate state behind.
  `MaxCron = 2` covers the three things the wait does. Chunks of the control region,
  chunks that may not be resized or that move between regions, several chunks in one
  region and failing growths and deletions are left to the theorems, which have none
  of these limits. Deadlock is not checked because a loop that waits for ever stands
  still, and so do the clients at their bounds.
* **Cron.** A minute of 2 ticks, an hour of 4 minutes, a day of 2 hours, a week
  of 2 days, a year of two months of 2 days and 1 day. The run goes from tick 28
  to 34: at tick 32 it crosses the end of an hour, of a day and of the first
  month, and it has two named minutes of a spaced schedule with one between them,
  and two due times of an interval. Passes come at most 2 ticks apart, so every
  minute has one. Three edits
  are the fewest that matter: they write a row, remove it and write another while
  a pass still has a copy of the first (with two, `calm` could forget that copy
  and no run would show it). The end of the year is left out of the run,
  `ZoneShift` is 0, and the byte behind `cl_Mons` is clear; the theorems have none of
  these limits. Deadlock is not checked
  because time ends.
* **Kernel.** Two runs are the fewest that can be beside each other; the three
  tasks are one of each group; `MaxUnits` allows two changes of the children and
  `MaxFaults` one failed statement or one removed lock. Crashes have no bound of
  their own. Deadlock is not checked because kernels end.

### Fairness

* **Pipeline.** Threads run (weak fairness of each worker, of the io handlers and
  of the main thread once it stops); the reactor serves every ready socket before
  it selects again (strong fairness of each kind of event); clients read what they
  are sent. Nothing makes a client connect, send or leave.
* **Supervisor.** The thread never waits for anybody (weak fairness), and the
  heartbeat of a task without a process becomes too old. No child is assumed to
  report, to die or to obey a signal.
* **Database.** Threads run; nobody needs to get the mutex, because
  `tryLock(5000)` gives up.
* **Chunks.** The thread runs, in every kernel that is started (`WF(Loop)`).
* **Kernel.** Once asked to stop, the main thread goes on, and `server.stop()`
  returns or is known to hang; the loops run; a
  process of type A that was told to end ends. Processes that are not of type A
  may ignore the signal: they are awaited 60 times only.

`StopCompletes` has an exception, `OnItsWayToSleep`: a work thread that is between
`isCancelled()` and the queue when `wakeUpAll` is about to be called. Without it the
property fails: such a thread may sleep after the only wake-up, and `joinAll` waits
for ever (`BolServiceServer.cpp:251-253`, `WorkTask.cpp:995-997`). No property
forbids that, since the code lets it happen; the property says that nothing else
keeps `stop()` from returning. `ShutdownEnds` allows two: `server.stop()`
hangs for that reason (the loop is through with the children all the same), and
`WaitsInVain`: a process of type A that reported after it was
passed by, or whose row could not be read, is not told and is waited for without
a bound (`RegularProcessTaskLoop.cpp:2782`).

### Where code and comments disagree

* `RegularProcessTaskLoop.cpp:1211` says a child that is alive is left alone; the
  decision is taken on rows read before sleeps of 2 s, so a child that reported
  since is terminated (`supervisor_alive`).
* `RegularProcessTaskLoop.cpp:408` says the flag that a cron task ran is reset in
  the next minute; it is reset only in a pass whose minute is not named while
  month, week, day and hour are, so a task of every minute is launched once and
  never again (`cron_every`). `NamedMinutesRun` holds for schedules that name no
  two minutes in succession.

### Consequences of the code

These are seen in the models and contradicted by no run, because the properties
claim nothing there.

* **Supervisor.** A task whose registration failed once is launched and dropped at
  every later unit, although `RegularProcessTaskLoop.h:336` says only deleted tasks
  are taken out. A child that dies before its first heartbeat is not launched
  again, although `RegularProcessTaskLoop.cpp:1393` and
  `MetaRegularProcessTask.h:29` speak of every monitored child. A task stopped
  before its child reported is never signalled again. Without
  `kernel.isJudgeSingle` (the default) a child slower to report than
  `kernel.expiresec` after a restart gets a second instance beside it; with it, the
  same happens when the search of `ps` fails, which skips the check. The pattern of that search has no `-w` and nothing behind
  the number (2292): a process of task 10 keeps task 1 of its program from being
  launched, which is logged as "already exist" (2303); `DeadChildRelaunched` has it as
  its alternative. A row with
  an unknown program ends every unit early: its removals are lost, and no
  heartbeat is checked.
* **Database.** An exception inside a call leaves the mutex locked by its thread:
  every other thread's calls fail after 5 s from then on, and the thread's own
  next call commits what the failed one had done. After a refused commit a call
  reports success, and the next caller's rollback may take its changes back.
* **Chunks.** A row that moves to another region is created there and deleted
  here under one name, which destroys the segment the new region accounts for. A
  size that changes without permission to grow or shrink, a failed growth and a
  failed deletion leave an account wrong for good, and the account of the control
  region is never reduced. So does a reset of an account that fails at the start:
  what an earlier kernel left stays on top (`AccountsAgree` says by how much). What failed is not tried again. A kernel killed during
  a refresh leaves segments nobody deletes and sizes nobody applies. The wait for
  the first rows asks `MetaBolCrontab` instead of `MetaChunkInfo`
  (`MemTaskLoop.cpp:74`): with one row there the loop waits for ever, with more it
  throws at every turn.
* **Cron.** A range whose end is not below the modulus names everything. A due
  task of an unknown program ends the pass for all later tasks. Periods with
  months run into month 0 or the 31st of a short month; the exception leaves the
  old time, and the task runs in every unit of that minute and never after. An
  update of `NextExecuteTime` that fails has the task launched in every unit until a
  minute has passed. In December the byte behind `cl_Mons` decides.
* **Kernel.** When `server.stop()` hangs, the lock and the port stay taken and the
  loops are never told to end; children are stopped only by a loop that has already
  begun to. `IsProcessHasStoped` ends without a return in one branch
  (`RegularProcessTaskLoop.cpp:2442`): in a build where that is true no process of
  type A is waited for, contrary to the comment at 2766; TLC runs with false, the
  theorems allow any. `-u` under a running kernel leaves only the port between two
  kernels, and the first one's end then removes the second one's mutex. Children
  of a crashed kernel are told by the next one only if they report for a task it
  has registered. The processes of cron tasks are never told.

## What is proved

All theorems hold for every value of the constants, under the assumption named in
each module (`PipelineAssumption`, `SupervisorAssumption`, `DBAssumption`,
`ChunkAssumption`, `CalendarAssumption`, `FieldAssumption`, `CronAssumption`,
`KernelAssumption`), which says what sets the constants come from. Four parts of
these say more. A chunk table is finite (`ChunkAssumption`). No unit of the
calendar has more numbers than the 1024 turns `ParseField` takes before it gives
an item up (`FieldAssumption`; the largest unit of the code has 60). The clock
starts later than one minute after its year 0 and not before the time zone's shift,
and `None` is no time, flag or row (`CronAssumption`).

No operator is recursive, so sums and recursive functions can be reasoned about.
`Induction` has what that takes. The provers cannot use the library's induction
theorems, whose parameter is an operator; `LeastNumber` takes their place: a set
of counterexamples that is not empty has a least one, and its predecessor would be
another. A sum (`Total`) is the cardinality of the set of its units, which needs
no recursion and is related to the folds of the models where they are used. A
recursive function exists because a function that satisfies its equation is given:
`Total` itself, or what `Iteration` says one gets by applying a function over and
over.

**`RequestPipelineProofs`**, for any clients and threads, any number of
requests and any buffer sizes:

| theorem | says |
|---|---|
| `Invariance` | `Spec => []IInv`, the inductive invariant |
| `TypeCorrect` | `Spec => []TypeOK` |
| `ResponsesNotStranded` | `Spec => []NoLostNotification` |
| `IoThreadNeverWaits` | `Spec => []IoNeverWaits` |
| `WorkersAwakeWhileQueued` | `Spec => []NoSleepWhileQueued` |

`IInv` is `TypeOK`, `QueueInv` and `NotifyInv`. `NoSleepWhileQueued` is not
inductive alone: that a thread woken by a hand-over or by `wakeUpAll` is not in
the wait list twice has to be known (`QueueInv`). `NoLostNotification` needs that
a byte is only taken by the io thread on its way to the queue (`NotifyInv`). The
proof goes action by action; lemmas state once what `Shutdown` and
`EnqueueRequest` do.

**`RequestOwnershipProofs`**, about who holds a request, for the same constants:

| theorem | says |
|---|---|
| `Ownership` | `Spec => []OwnInv`, the inductive invariant |
| `RequestsHaveOneOwner` | `Spec => []OneOwner` |
| `RequestsNotLost` | `Spec => []NoLostRequest` |
| `RequestsTakenInOrder` | `Spec => []TakenInOrder` |
| `PipelineImplementsService` | `Spec => ImplementsService`, the refinement of `RequestService` |

`OwnInv` adds four parts to `IInv`. `PacketInv`: what is on the wire and in a
handler's buffer are the last packets sent, in order, so how many were framed
(`Framed`) is what the client sent less what is left of these. `PlaceInv`: only a
framed request is anywhere, in one of the five places (queue, thread, response
queue, io thread, answered) and there once, and one that waits has no later one
of its connection before it or taken. `KeptInv`: a framed request for a known
program is in one of the places. `DataInv`: a notification holds the data that was
sent until it is executed, which is why a known program never yields the empty
response that would close its connection. The proof first shows what a step may do
to the packets of a connection (`Grows`); that a packet gets the next number makes
the request that is framed new to all five places. Then each action moves at most
one request from one place to the next: lemmas about sets (`LoneTaken`,
`LoneAnswered`, `LoneDequeued`, `LoneSent`) say that this keeps it in one place,
and one lemma (`NothingMoves`) covers all other actions. `NoSleepWhileQueued`,
proved before, is needed for the order: a request is handed to a sleeping thread
past the queue only while the queue is empty.

The refinement uses the same lemmas: each also says what its action does to the
requests in flight (none, one comes, one is dropped, one is answered). The abstract
state is read off connection by connection (`MappedAlways`), and each action maps
to one abstract step or to none (`StepMaps`). That an answer is only given on an
open connection needs one more fact, `SendingOpen`: the io thread closes no
connection between taking a response and writing it. Initial states map to initial
states (`InitMaps`).

**`ProcessSupervisorProofs`**, for any tasks, programs, IsValid and IsNoMonitor
values, any relation of tasks the search confuses, with and without failing inserts,
failing searches, `kernel.isJudgeSingle` and the update file:

| theorem | says |
|---|---|
| `SupervisorTypes` | `Spec => []TypeOK` |
| `SingleProcess` | `Spec => []AtMostOneInstance` |
| `UnknownNotRegistered` | `Spec => []UnknownNeverRegistered` |

`TypeOK` is inductive. `AtMostOneInstance` counts the processes that were launched
on an answer of `ps`; one that was launched because the search failed, or because
there was none, is in `unasked`, and a task may have several of these. `SingleProcess`
rests on two lemmas: no step but a launch starts a process, and a launch
on an answer starts one of a task that had none, so that the next one that asks is
refused; cardinality only comes in at the end (`SingleInstance`). `UnknownNeverRegistered` needs to
know what the thread has in hand: `LookedUp` adds that every task in a loop of
the unit has a known program, except the new ones before the changed ones are
done and the removed ones, and that the task of a launch or a sleep has one.

The same module, when every program is known and no registration fails
(`Defined = Tasks`, `~RegisterMayFail`; without these the records drift):

| theorem | says |
|---|---|
| `RecordsAgree` | `Spec => []MapAgrees` |
| `StoppedNotLaunched` | `Spec => NeverLaunchStopped` |

`MapAgrees` speaks of the heartbeat check only. `AgreeInv` says how the three
records of a task may lie apart in each part of the unit (`TaskAgrees`): while
tasks are added and removed, the loops still hold exactly the tasks for which list
and map differ. A sleep or a launch belongs to the part it returns to (`Phase`),
and the task in hand is one of its loop (`HandInv`).

**`DBTransactionProofs`**, for any threads, rows and calls:

| theorem | says |
|---|---|
| `CallTypes` | `Spec => []TypeOK`, with exceptions and refused commits |
| `TransactionsExclusive` | `Spec => []Exclusive`, with exceptions and refused commits |
| `CallsLeaveNothingBehind` | without them, `Spec => []FreeWhenOutside` |
| `CallsImplementService` | without them, `Spec => CallsAreAtomic`, the refinement of `DataService` |

`LockInv` adds to `Exclusive` only the types of the mutex and of `pc`; one lemma
says that a thread inside a transaction stays inside and leaves the mutex alone
until it unlocks. `FreeInv` speaks of the owner in place of "some thread", so that
each step is about one thread. The refinement needs to know at every place of a
call what the table is by then, in terms of the table the transaction began with
and of the records already inserted (`Progress`); `WorkInv` joins that to the
types and `FreeInv`. A commit is the service's `Execute` (`CommitIsOneStep`), a
rollback or an early return its failure, and every other step a stutter.
`SameCardinality` is needed because `DataService`, taken with `INSTANCE`, has its
own copy of `Cardinality`.

**`ChunkManagerProofs`**, for any names, rows, failures and restarts:

| theorem | says |
|---|---|
| `ChunkTypes` | `Spec => []TypeOK` |
| `ListedDataKept` | `Spec => DataKept` |
| `SegmentsLargeEnough` | `Spec => []LargeEnough` |
| `AccountsKept` | `Spec => []AccountsAgree` |

`DataKept` needs that a deletion still to be done is of a chunk that is not in
the list, or has moved, and never of the control region.

`LargeEnough` and `AccountsAgree` speak of the time between refreshes. Within one,
the work that is left must be known: `WorkInv` says that it holds at most one
operation for a chunk that stays where it is, that the operation leads to the row
the list has for that chunk, and how much it adds or takes. Then
`SizeInv` says of each chunk that its segment is as large as its row asks for,
or was as large as the row before and the operation that closes the gap is still
to be done; a shrink that took too much is followed by the growth that makes up
for it within the same operation. `AccountInv` says of a region that its account
is a sum over its chunks: the bytes of the row where nothing is left to do, the bytes
before the operation where one is, and 0 where there is no segment (`BookRight`
says it of one chunk, `Books` of all). An operation changes one summand and the
account by the same amount (`TotalChange`). A restart makes every chunk new and begins with the accounts as the resets
leave them (`base`): what is summed is the difference, which is the same statement with
all work still to be done. A shrink that fails half-way changes a segment and no
account, and does not occur on the chunks `LargeEnough` and `AccountsAgree` speak of.

**`CronScheduleProofs`**, for any calendar without leap days, tasks, rows, gaps
between passes and time zones:

| theorem | says |
|---|---|
| `AdvanceFinds` | the search for the next run ends, and what it finds |
| `FieldNames` | `ParseField` marks what a well-formed field names |
| `TypeCorrect` | `Spec => []TypeOK` |
| `NextRunsAhead` | `Spec => NextAhead` |
| `DueTimesRunOnce` | `Spec => DueRunsOnce` |
| `RunsOnlyAsNamed` | `Spec => RunsAsNamed` |
| `EveryNamedMinute` | `Spec => NamedMinutesRun` |

The first two are about the pure operators. `DaysBefore` is the function its
recursion means (`DaysBeforeDefined`), so every moment has a date that tells it
(`DateTicks`) and adding months leads to a later date or to none
(`AddMonthsLater`); then no turn of the search goes back, and it is past now after
as many turns as there are ticks. An item of a field is given up only if it does
not end in the field (`WalkEnds`).

`CronInv` is the invariant all of them use: types and, what they need, that a next
run that is set is later than the start (`NextsRight`); one copy of a task in a pass,
which is its row and its next run unless something disturbed the task
(`CopiesRight`); that a pass is over within its tick (`TimesRight`) and that flag
and row of `MetaBpcbInfo` come and go together (`RunsRight`). `DueRunsOnce` needs
that a next run that is neither unset nor ahead is due for less than a gap and in
the pass (`DueInv`); `RunsAsNamed`, that the last run was in a named minute and
the flag is set until that minute is over (`NamedInv`), which failed launches and
passes that were given up do not change: it is claimed of `calm = "failed"` too, and
only editing the row ends it. `NamedMinutesRun` needs
both of the following. `FlagInv`: while the flag is set, no minute since the last
run was one that resets it. `MinuteInv`: after a task's turn in a named minute it
has run in it. They meet in `ResetBetween`: between two named minutes of a
schedule that names no two in succession there is a minute that resets the flag,
the one before the later or the one after the earlier, whichever hour it is in.

Attempts at these proofs corrected the model in four places. A task was taken for
calm when its row was written again while the pass still had a copy of the row
before; `RunsAsNamed` and `DueRunsOnce` fail in that state (TLC finds it with a
third edit), and rightly: the pass launches from the old copy, so `Write` now asks
for no copy. `Advance` chose from no number of turns when the last run lay ahead
of the clock, which a time zone west of Greenwich makes happen; and the bounds on
`ZoneShift` and on the size of a field were missing.

**`KernelLifecycleProofs`**, for any tasks, numbers of runs and faults, and any
value of the missing return:

| theorem | says |
|---|---|
| `KernelTypes` | `Spec => []TypeOK` |
| `LockIsKept` | `Spec => []LockKept` |
| `OneKernelAtWork` | `Spec => []OneAtWork` |
| `BolIsWaitedFor` | `Spec => []BolWaitedFor` |

`OneKernelAtWork` does not use the lock: a kernel has the port from `bind` until
`main` returns (`PortInv`), and its loops run only within that time (`LoopInv`), also
while `server.stop()` runs or hangs.
`BolIsWaitedFor` uses, besides, that what is left of a pass is of its kind and in
the map (`PassInv`), that a row which names a process has one (`ChildInv`), and
that a process that was told is still to be awaited in this pass or the next
(`ToldInv`).

**Only model-checked.** Liveness under fairness is out of the prover's reach:
`RequestAnswered`, `StopCompletes`, `DeadChildRelaunched`, `MapFollowsTable`,
`CallReturns`, `SegmentsFollow` and `ShutdownEnds`. Every invariant and action
property and both refinements that a passing run checks are proved.

## Plan

1. `RequestPipeline`, `RequestService`: done; safety and the refinement proved.
2. `ProcessSupervisor`: done but for pausing and limits; safety proved.
3. `DBTransaction`, `DataService`: done; safety and the refinement proved.
4. `CronCalendar`, `CronSchedule`: done; safety proved.
5. `ChunkManager`: done but for `statMemUsage`; safety proved.
6. `KernelLifecycle`: done; safety proved.
7. Left: byte streams cut into packets (`PacketFraming`, the signed overflow of the
   length among them), and the start of the server with a stranger on the notify
   socket, for which a property has yet to be found that the code could keep.

## Not modelled

* SQLite, protobuf and the Bmco library appear only as the code uses them.
  `sqlite3.c` and `sqlite3.h` are vendored and make up 144 000 of the
  implementation's 160 000 lines.
* The HTTP server (`asioperthread/`): a program of its own whose connections share
  nothing but a round-robin counter that one thread uses. What is left of it is
  parsing HTTP text and reading files.
* `ResponseOp` translates the fields of a request, and `MemTableOp` wraps one query
  or update per function: data conversion without control of its own. Getting a
  sequence number reads and writes in two transactions, but one thread calls it.
* Redo log and backup are compiled and never started; `TimeTaskLoop` is not part
  of the build; `DataAPI::create` is never called; `OSInfoInterface` reads figures;
  the code generated from `BolService.proto` is not in the repository.
* Of modelled components: wording of logs, reported status codes and figures, cpu
  and memory limits, pausing of children, statistics and `statMemUsage`, the
  channel file, the text of SQL statements (rows are told apart by their keys), the
  arguments of cron tasks, malformed fields, leap days, queries
  that fail other than those named above.
* The first opening of the connection (`DB.cpp:38`): two threads that do it at
  once race on unsynchronized fields, for which the code defines no behaviour.
* A stranger that gets the notify socket (`BolServiceServer.cpp:159`), and the loss
  of the io thread when `SetBolStatus` fails during the start.
* The operating system is assumed not to reuse a pid that a row still holds.
