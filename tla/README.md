# Specifications of the native parts of AndroidShare

The repository is a developer's collection: notes and articles, small Java and C
demonstrations, and two native systems with a life of their own:

- **Tencent Mars** under `src/Android_Java/log/src/mars-master/mars/` (below: `mars/`):
  the xlog logger (`log/`), the signalling network stn (`stn/`), the diagnosis sdt
  (`sdt/`) and the library they stand on (`comm/`);
- an **RTMP pusher** under `src/Android_Java/rtmp/rtmp/librtmp/` (below: `rtmp/`):
  packet queues, a sending thread and a session around a changed librtmp.

This directory holds TLA+ models of their concurrent cores, TLC runs and proofs.
`PROJECT.json` lists components, runs, hazards and the lines each definition models.

## 1. Inventory

| Component | State | Operations | What is hard |
|---|---|---|---|
| xlog appender `mars/log/src/appender.cc` | mode, close flag, one shared `LogBuffer`, log file, flush thread | log a line (async or sync), flush, flush_sync, open, close, setmode | two flushers, lost notifications, process death between clearing the block and writing the copy, open/close/setmode sequences |
| xlog block `mars/log/src/log_buffer.cc`, `mars/log/crypt/log_crypt.cc` | header, length field, body in an mmap'ed file; deflate stream; crypt buffer | Write, Flush, adoption of the file (`__Fix`) | death between any two memory writes, a full block, a long line |
| xlog file handling, in `appender.cc` | log and cache directory, one file a day in each, the open one, its stdio buffer | write a record, append the cache file to the log file, remove it, move old files | crash between append and remove, a directory that is lost or full, the next day |
| level filter and formatting `comm/xlogger` | none | format | pure functions |
| RTMP push buffer `rtmp/rtmp_thread.c`, `rtmp_buffer.c` | two queues, a look-ahead per queue, the packet in hand | put, get, skip to a key frame, send, reconnect, stop | encoders against sender, stale times, retries, silence |
| RTMP push session `rtmp/rtmp_ios.c`, JNI and `MediaRecorderUtils.java` | global configuration, state word | start, connect, stop, callbacks, teardown | use after free, lost stop, callbacks during teardown |
| librtmp protocol `rtmp/rtmp.c`, `amf.c` ... | connection | connect, handshake, packets | mostly vendored code |
| long link `mars/stn/src/longlink.cc`, `longlink_connect_monitor.cc` | connection status, list of requests, disconnect code, thread | Send, Stop, MakeSureConnected, Disconnect; the thread's connect, read/write loop, heartbeats | status and list under a lock, thread joined without it, callbacks posted to a queue |
| long link task manager `mars/stn/src/longlink_task_manager.cc` | sorted list of tasks and their profiles, retry interval | start, stop, redo, clear tasks, timeouts, answers, batch errors | stale callbacks, cancelled callbacks, retries, waiting inside a handler |
| short link and its manager | one worker thread per task | the same for HTTP | worker answers against timeouts |
| net core, zombie tasks `net_core.cc`, `zombie_task_manager.cc` | which manager owns a task | all application calls | a task must end once on its way through three managers |
| timing of stn (smart heartbeat, dynamic timeout, avalanche, frequency and flow limits, signalling keeper, timing sync) | histories and counters | record, adjust | boundaries, oscillation |
| address sources (`net_source.cc`, `simple_ipport_sort.cc`, `netsource_timercheck.cc`) | scores and bans | report, sort, check | ban times, stop of the periodic check |
| threads `comm/unix/thread/thread.h`, `condition.h` | a handle, its current thread, a sticky notification | start (at once, delayed, periodic), cancel, join | joins against restarts, notifications lost or left over |
| message queue `comm/messagequeue/message_queue.cc` | list of messages, handlers, nested run loops | post, broadcast, singleton, faster, periodic, cancel, uninstall, wait, break | a message replaced while somebody waits for it, nested loops |
| alarm and active logic `comm/alarm.cc`, `baseevent/src/active_logic.cc` | a sequence number per start, foreground and activity | start, cancel, the platform's alarm, foreground changes | messages of an earlier start |
| connect monitor and timing sync `longlink_connect_monitor.cc`, `timing_sync.cc` | an alarm each, the last status | signals of two queues | one queue cancels what the other started |
| sdt `mars/sdt/src/sdt_core.cc` | list of checkers, one thread | start, cancel, report | a request while the thread is on its way out |
| complex connect, decoder scripts | small | | |
| vendored libraries, demonstrations, notes | | | not part of the program |

Interaction. Any thread logs through the appender; the appender owns one block, the
block owns the mmap file, the flush thread moves blocks to the log file. Encoder threads
fill the RTMP queues; `Buffer_Control` empties them on the session's thread; JNI calls start
and stop the session. The application calls NetCore, which posts to one message queue; the
long link task manager runs in that queue and owns the connection, whose thread answers
only by posting to the queue. Other queues and threads (activity changes,
`MakesureLonglinkConnected`) reach the connection directly.

What makes each part correct: a line is written once or counted as lost (appender); a
restart finds whole lines (block); each stream is in order and decodable, and the loop ends
(push buffer); a task ends once, is not sent too often, and never waits for an answer that
cannot come (long link and tasks); one owner per task (net core); a stop is not lost
(push session); a thread is given back once and a join means its end (threads); a message is
in one place and whoever waits for it is told (message queue); an alarm that waits has a
message that will end it, and an earlier start never does (alarms); a check reports once and
ends (sdt, addresses); no ban or heartbeat outlives its reason (timing).

## 2. Modules

| Module | Models | Abstract specification |
|---|---|---|
| `XlogAppender` (+ `MCXlogAppender`, `XlogAppender_proofs`) | the appender's threads | `ReliableLog` |
| `XlogBlock` (+ `MCXlogBlock`) | `LogBuffer` byte write by byte write | `AtomicBlock` |
| `PushBuffer` (+ `PushBuffer_proofs`) | `Buffer_Control`, queues, encoders, reconnect | `LossyStream`, once per kind |
| `LongLink` | connection, its thread, the calls on it | part of `LongLinkTasks` |
| `LongLinkTasks` (+ `MCLongLinkTasks`, `LongLinkTasks_proofs`) | the task manager and NetCore's calls, over `LongLink` | `TaskLedger` |
| `ShortLinkTasks` | the short link manager and its worker threads | part of `NetCoreTasks` |
| `NetCoreTasks` (+ `MCNetCoreTasks`, `NetCoreTasks_proofs`) | NetCore's routing of tasks and the zombie list, over `ShortLinkTasks` | `TaskLedger` |
| `Selection` (+ `SelectionTheorems`) | loops that walk a list and erase what they find | |
| `MessageQueue` (+ `Queues_proofs`) | one message queue, its run loops and the threads that wait for it | |
| `Alarm` | alarms over a default queue and the queue they run in | |
| `ActiveSync` (+ `ActiveSync_proofs`; `MCQueues`, with `MessageQueue`) | ActiveLogic, TimingSync and the connect monitor, over `Alarm` | |
| `Thread` | a thread handle and its condition | |
| `XlogFile` | the log files of each day in the log and the cache directory | |
| `PushSession` | the life of a push session | `SessionLife` |
| `SdtCheck` | the core of the network diagnosis | |
| `NetSourceTimerCheck` | the periodic check for a better address | |
| `MCMachines` (+ `Machines_proofs`) | `Thread`, `XlogBlock`, `XlogFile`, `PushSession`, `SdtCheck`, `NetSourceTimerCheck` side by side | |

### XlogAppender
A line is an id; `held[p]` are the lines in place p: the shared block, the mmap file of a
dead process, the local copy of whoever flushes, the log file. Each writer goes through the
unlocked tests of `xlogger_appender` as separate steps (`Call`, `Route`), because the
appender may be closed or switched in between. The flush thread's loop is split at every
place where a notification can be missed: taking the block, writing it, testing the close
flag, being about to wait ("parking"), waiting. `appender_open` and `appender_close` are
sequences of steps of the main thread. `Crash` is the death of the process; what was mapped
is in the mmap file afterwards. Lengths are counted in lines; bytes are XlogBlock's.
Left out: console, dumps, recursion guard; file names and the cache directory are XlogFile's. Flush inside
`appender_open` runs without the buffer lock in the code; it is one atomic step here.

### XlogBlock
The mmap file is a start byte, a length field and cells. Write compresses a line to some
cells, then puts a prefix over them and the data behind it, then raises the length; Flush
puts the tail, copies, clears. `Crash` may come between any two writes, `Restart` is
`__Fix`. `Decode` is the reading rule of `decode_mars_log_file.py`: prefixed pieces put
together and inflated, and nothing at all when the deflate stream is broken. That clearing
and initialising a header is one step is an abstraction.

### PushBuffer
A packet is kind, timestamp, key flag and the frame it refers to. The loop's places are
its wait, choice of the older packet, measuring of the delay, skipping to the newest key
frame, sending and reconnecting. A clock of ticks runs while the sender sends or waits; it
stands still between taking a packet and judging it ("measure", "late"). That is an
assumption about the scheduler: if a sender may stall for a tick just there, TLC finds that
`GOPIntact` fails, because the key frame it skips to is then newer than the one it compared
with. `min_bitrate_status` is 0 since nothing in the build sets it.

### LongLink and LongLinkTasks
`LongLink` has the connection thread (`Begin`, connect, `rw`, closing, `failed`, ending) and
the four calls, each under `mutex_`. Status, disconnect code and list are shared; `messages`
is the queue the thread posts to. `LongLinkTasks` adds the task list and the handlers. A
handler of the queue runs alone but not at once: `mq` is what is left of it, so that the
connection thread and other threads move between the release of the lock in `Disconnect`
and its join, and between the requests `__RunOnStartTask` hands over. `__RunLoop` posted
with a delay is the flag `timer`, since `FasterMessage` keeps one. Time is not a clock:
`__RunOnTimeout` may find any listed task out of time and any sent one late, and the retry
interval may have passed or not at each look. The interval of the connection monitor is a
choice (`BreakOff` starts a connection or not), its alarm is `AutoConnect`. Locals of the
thread's functions are reset when they go out of scope. Left out: pushes, statistics,
profiles, the identity check, `OnRecv`, the iOS-only reset.

### ShortLinkTasks and NetCoreTasks
`ShortLinkTasks` holds the short link manager's list and profiles and one worker thread per
running task. A worker is named after its task, since a new one may get the address of the
one before it and with it what is left of its messages. A handler changes the list at once
and then destroys workers one by one: `doom` is the workers still to destroy, each broken,
joined and its messages cancelled (`Break`, `Destroy`), and `after` is what the handler goes
on with (`__RunLoop`, then `__RunOnStartTask`), so that every worker moves in between.
`NetCoreTasks` adds NetCore's choice of a channel, its calls, `__CallBack`, and
`ZombieTaskManager`. What leaves the zombie list is posted to the queue like a task of the
application, with the time it has left. Ticks stand for the clock: `age` of a task since it was
started or saved, `idleTime` since NetCore last started one; a slow package is a choice. Of the
long link only what `LongLinkTasks` shows is left: a task it took ends once (`LongEnd`), or
is stopped or cleared. Left out: hooks (nothing in the build sets them), statistics, proxies,
priorities, `OnRecv`, connection reports, address scores.

### MessageQueue, Alarm, ActiveSync
`MessageQueue` keeps the list, the installed handlers and a stack of run loops (`levels`). A
handler that waits (CancelAndWait, WaitMessage) opens a nested loop, another thread sleeps on
the condition of the message, so a wait is a step of its own and the message may be replaced,
cancelled, run or lost with the queue in between. Time is a few ticks; a loop takes the first
message that is due, as the code does. `Alarm` reduces a message to the start it belongs to,
since `OnAlarm` ignores every other. In `ActiveSync` two queues handle
messages at the same time and `todo[q]` is what is left of a handler of q: what TimingSync
and the monitor do to their alarms may be interrupted by the other queue between the Cancel
and the Start.

### Thread
The handle's fields and, for each thread it started, its place: created, delay (look, park,
asleep, woken), running, end. `join` gives up the lock before it reads `tid` (`JoinReads`), and
`Condition::wait` looks at `anyway_notify_` before it parks (`Look`, `Park`), so a start or a
notification may come in between.

### XlogFile
All of `__log2file` runs under one mutex, hence the interleavings are with the outside: a
death, a lost or full directory, the next day. `disk[f]` is what a file holds, `buffered` what stdio
has taken and not written. Appending the cache file to the log file, removing it and moving
old files are separate steps.

### PushSession, SdtCheck, NetSourceTimerCheck
`PushSession` follows the work thread from `start` through the attempts of the connect, the
states it reports, the sending loop (one place; `PushBuffer` is its inside) and the teardown,
against a listener and an application that stops at any time. `SdtCheck` and
`NetSourceTimerCheck` each have one thread, callers that start and cancel it, and a join.

### MCMachines and MCQueues
They check machines that share no state: `focus` names the one a behaviour is about, and
the others rest in their initial states. No machine calls another, so nothing is lost, and the states
add instead of multiply. The fairness of each is stated of its actions together with its
focus; properties about one machine hold trivially while another is in focus.

## 3. Runs

| Run | Shows | Bounds |
|---|---|---|
| `xlog_safety` | no line twice, none vanishes unaccounted, refinement of ReliableLog, in both modes, with flush_sync, setmode on a closed appender, crash and failed write | 2 threads, 2 lines, block of 2, marks 1, 1 crash, 1 failed write; threads symmetric |
| `xlog_async` | session order, wake-up at the mark, an open async appender has a flusher, blocks settle, close returns | 2 threads, 3 lines, full mark 2, 1 crash, 1 failed write |
| `block_full` (violation) | the length assertion fails when deflate fills the block | 6 cells |
| `block_longline` (violation) | a line longer than the crypt buffer makes the whole block unreadable | crypt buffer of 2, lines of 3 |
| `push_buffer` | each stream in order and without repeats; only decodable frames are sent; stop and silence end the loop | clock to 4, delay 2, wait 2, one tick to try again |
| `longlink_two` | no orphan, no stale request, bounded sends, ledger, two priorities, send-only, login, redo, network change, connects by other threads | 2 tasks, 2 connections, 1 retry, 1 call |
| `longlink_one` | with heartbeats, StopTask, ClearTasks and a better address: fresh requests, ledger, tasks end, handlers end | 1 task, 2 connections, no retry, 1 call; only the queue connects |
| `longlink_redo` (violation) | RedoTasks hangs in the join | 1 task |
| `netcore_two` | one owner per task, no leaked worker, no answer of a destroyed one, timers, ledger | 2 tasks (either link with 2 ticks in all; short links without a limit, after a login), no retry, 1 stop, 1 connect |
| `netcore_ends` | tasks end, handlers end, ledger, under RedoTasks, network change and ClearTasks | 1 task with 3 ticks in all, 1 retry, 1 call, 1 connect |
| `queues` | a message is in one place; no call after an uninstall that was waited for; waits outlast the run and end; breaks end all loops; alarms that wait end, two queues do not disarm one another, inactivity is reached and honest | queue: 2 handlers, 1 other thread, 2 messages, 2 nested loops, 1 tick; alarms: 3, 2 ticks, 2 moves of the environment |
| `machines` | a handle gives each thread back once and runs none early, joins and cancels end; a death at any memory write leaves whole lines; records kept once and in order; a session is used only while it lives, its listener hears it in order, stops stick; checks report once and end | 2 callers, 2 starts; block of 13 cells, 3 lines, 2 deaths; 2 days, 3 records, 3 faults; 2 sessions, 2 attempts; 3 sdt checks of up to 2 checkers; 4 changes of activity, 3 address checks |

Why the bounds suffice. A line that is lost or doubled needs two flushers and one crash; a
wake-up is lost with one writer between test and wait; three lines give an order to break and
a line on each side of the mark. A torn record needs one record before it and one after.
A stale frame needs a key frame, a frame that refers to it and a newer key frame: four ticks.
A stale request or callback needs the connection it came from and the next one: two. A
retry charged too often needs one retry and one call that redoes. A task with two owners, or
none, needs one passage through the zombie list and back; an answer of a destroyed worker
needs a second worker of the same task. A handle needs
two starts for a join to be overtaken and a notification to be left over; a nested loop needs
two levels; a replaced message needs two. A record is doubled by one death between append and
removal, and out of order with a directory lost on one day and back on the next. Every bound is a guard on
an environment action, never on the program's own.

`xlog_async` leaves setmode on a closed appender out (`SetModeClosed`): with it an appender
can be opened without its flush thread, because setmode and open both decide whether to start it. `longlink_two`
leaves the better-address disconnect (`TimerCheckSuc`) out: `NetCore::__OnTimerCheckSuc`
gives the connection up without telling the task manager, so `NoOrphan` does not hold after
it; `longlink_one` has it and shows that the orphaned tasks still end, by their timeout.
`longlink_one` lets only the message queue start connections, because `HandlersEnd` fails
otherwise, which is what `longlink_redo` shows.
`queues` and `machines` take one or two minutes, most of it liveness.
`CHECK_DEADLOCK FALSE` stands where a program that may stop is modelled: the appender's runs
do not need it, the others end when the clock, the connections or the calls of the bound are used up.

Each property of a passing run has a mutant in `PROJECT.json`: a plausible mistake in one
definition, written next to it and marked "Wrong", for which TLC finds the property violated.

## 4. Fairness

- Appender: weak fairness of the flush thread, of the main thread inside open and inside
  close. The timed wait ends by itself (15 minutes in the code), hence the flush thread is
  never stuck; nobody has to log or close.
- Push buffer: the sender's steps and the clock are weakly fair; a send or a connect attempt ends
  because sockets have timeouts.
- Tasks: handlers, messages and the delayed loop of the message queue are weakly fair; the
  connection thread is fair only in what needs no peer (a connect attempt ends, a broken
  select returns). Strong fairness says that a task which the timeout check looks at again and
  again is out of time once. Nothing is assumed of the server.
- NetCore: handlers, messages and the clock are weakly fair, the two delayed messages strongly,
  since other handlers may run before them. A worker is fair only once its breaker is broken
  (it sees that) or its answer is in hand (it posts it). Strong fairness of
  `LongEnd(t, "fail")` is `EveryTaskEnds` of `longlink_one`. Neither network nor server is assumed to answer.
- Message queue: the loop, the clock and the waiting threads go on; nobody has to post, and a
  handler has to return (it runs code of mars only).
- Alarms: both queues handle their messages and finish handlers, the clock ticks. Strong fairness of
  `TimerTurn` says that the message of an alarm gets its turn among the others of the queue.
- Thread: what runs ends, delays pass, a join goes on once its thread has ended. Nobody has to call, and a
  periodic run need not be cancelled, so `JoinEnds` excepts it.
- Push session: attempts, sends and the teardown end because sockets have timeouts; a loop that
  looks at the state again and again sees the stop although reconnects come between (strong).
- Checks: a probe ends, a join goes on. A select of the address check lasts ten seconds at most.

## 5. What is proved

`XlogAppender_proofs`, for any threads, marks, modes and bounds, from the named assumptions
of `XlogAppender`:

- `TypeCorrect`: `Spec => []TypeOK`. `TypeOK` bounds the block and the mmap file; it is not
  inductive alone, so `TypeInv` adds `BlockInv`: where the block and the mmap file may hold lines at all (a
  block that is not allocated is empty, the mmap file is empty while mapped).
- `NeverDuplicated` and `NothingVanishes`: `AtMostOnce` and `Conservation`, jointly
  inductive with `TypeInv` as `LineInv`.
- `AppenderImplementsLog`: `Spec => ImplementsLog`.

The argument goes by *effect*: `StepEffect` shows that every step of every thread does one
of six things to the lines (nothing, moves a place to the end of another, drops a place,
stores a new line, refuses a new line, crashes), and each invariant is then proved once per effect instead of
once per action. Scalars are treated per action in `ScalarStep`.

Its second part is about the asynchronous mode, from the same assumptions and the ones stated in each theorem:

- `FlusherStaysReady` (setmode only on an open appender): `FlusherReady`. `FlusherInv` ties the
  flush thread to the main thread's place: it is gone while the appender is closed, until open
  has chosen the mode, and only a closed appender makes it end. `WakeupAtMark` is inductive by
  itself: every write that leaves the block at the mark notifies.
- `SessionsInOrder` (also: only the asynchronous mode, nobody calls `appender_flush_sync`):
  `SessionOrder`. What is in the file says nothing about the lines still to come, so the
  invariant orders all places of lines: `Ordered` says which place may be put behind which
  without breaking the order (the file before all, what the flush thread took before the
  block, both before the mmap file and what open recovered), `HandsInv` when the flush thread
  and open hold nothing, `PastInv` that what a dead process left is of an earlier session as
  soon as this one accepts lines. Each step that moves lines has one lemma.

`Machines_proofs` is about the six machines of `MCMachines`. `MachinesAreTheirModules` shows that a
behaviour of `MachinesSpec` is one of each module's specification, so a theorem about one
module holds of what the run checks. It is part by part:

- Thread, for any number of starts and any callers, from `ThreadAssumption`:
  `ThreadTypes`, `ThreadHandleSafe` (`ThreadSafe`: a thread is given back once, and none runs
  before its delay unless it was cancelled) and `JoinWaitsForItsThread` (`JoinMeansEnd`).
  The inductive invariant says that only the last thread started can be alive (`OneAlive`), that
  a join waits for the thread it was called for or a later one (`JoinsKnown`), that no two joins
  were called for the same thread (`JoinsApart`), what is still to be given back (`Owed`), and
  that whoever is woken early was cancelled (`Notified`). One lemma per action.
- Push session, for any number of sessions, attempts and states:
  `SessionTypes`, `SessionSafe` (`PushSafe`: the work thread owns its session up to its last
  callback, the encoders are let through exactly while the listener was told that it sends),
  `SessionImplementsLife` (refinement of `SessionLife`) and `SessionStopSticks` (a stop of a sending
  session is never undone). The invariant ties the one global pointer and the state word to the
  place of the one work thread that can be alive.
- The two checks, for any number of checks, checkers and changes of network, from
  `MachinesAssumption`: `MachinesChecksSafe` (`ChecksSafe`). `SdtInv` says what the thread of the core
  has left while it goes through the list (`SdtTypes`), when a busy core has no thread (`Busy`), and which
  checks have reported or were lost at each place of that thread (`ReportsSoFar`); `SourcesInv` follows
  the queue of signals that are still to be handled (`Follows`).
- The files of the appender, for any number of days, records and faults:
  `MachinesFilesKeep` (`FilesKeep`). Neither order nor uniqueness is inductive as the files lie there:
  in synchronous mode the buffer of an open file goes behind what another step appends meanwhile, and
  between append and removal every record of a cache file is there twice. The invariant therefore
  speaks of `Virtual`, the files once the open one is closed, and of `Rest`, `Virtual` without
  the cache file that is about to go: `Tidy` says that in `Rest` no record is twice and the days are
  in order. `LogFirst` (while the log file of a day is open its cache file is empty) is what keeps a
  late buffer in order; `Kept` says that what is about to be removed is in the log file already. The
  lemmas before it are about sequences of records: joining two keeps them apart and in order.
- The log block, for any number of lines and deaths and any sizes:
  `MachinesBlockWhole`: `MachinesSpec /\ LinesFit /\ []RoomLeft => ImplementsBlock`, the refinement of
  `AtomicBlock`. `LinesFit`: a line fits into `crypt_buffer`; `RoomLeft`: whoever writes leaves room for one
  more, which is what the tests of the appender at a third and at four fifths of the block are for.
  Neither can be left out: `block_longline` shows the first, and in the small block of `block_full` TLC
  finds the refinement broken as well as the assertion. `MachinesBlockFits` draws both from the
  constants: if the lines of a run all fit (`EveryLineFits`, as they do in `machines`), `LengthAssert`, the
  types and the refinement hold.
  The decoder is a recursive function over the cells. What it reads is known without induction over them:
  `Read(s, len, B, g)` gives the places `B` where pieces begin and what is read from each, `ReadIs` shows that
  such a `g` is what the decoder finds (at the last place where they differed they would agree), and
  `ReadNext` adds one piece at the end. `Readable` is then inductive, and `DecodeNext` says that one more piece
  is one more line. `LengthInv` ties the length to the mmap file, `WholeBlock` says what is in the
  cells behind the length field after each memory write, and each action is one of four steps
  of `AtomicBlock` (`Effect`).
- `MachinesTypes`: `MachinesSpec /\ []Block!LengthAssert => []TypesOK`. As long as no line overruns the
  block, that is: `block_full` is a run that does.

`PushBuffer_proofs`, for any clock, delays, lengths and numbers of attempts, from the
assumptions of `PushBuffer`:

- `PushTypes` (`TypeOK`), `PushStreams` (`Streams`: the refinement of `LossyStream`, once for
  each kind of packet) and `PushDecodable` (`GOPIntact`).
- A stream is in order because what was put is, place after place: delivered, in hand, in the
  look-ahead, in the queue. `PlaceInv` says what the sender holds at each place of its loop.
  `GOPIntact` needs `LinkInv` too: the frames that wait form a chain, each referring to the one
  before it (`Chain`); the next is a key frame or refers to the last one sent (`Joined`), unless the
  sender is about to skip it, and the key frame it skips to is still among them (`Reached`). It is
  carried through look-ahead, skipping, a failed send and a reconnect.

`SelectionTheorems`: what is left when the members of a set are selected from a list keeps its
order, its places map back one to one, and its members are the ones meant; the same for
appending and taking the head. The proofs of both task managers, of the alarms and of the message
queue rest on it.

`NetCoreTasks_proofs`, for any tasks, channels, times, retries and calls:

- `NetTypes`, `TaskOneOwner` (`OneOwner`), `NetWorkersSound` (`WorkersSound`), `NetTimersArmed`
  (`TimersArmed`) and `NetImplementsLedger` (refinement of `TaskLedger`).
- `NetInv` puts each task in one of five places (`PlaceInv`: nowhere, in the queue, in the
  long or the short link manager, in the zombie list), where "in the queue" means one message and no more; it ties worker
  threads to running tasks and to those a handler still has to destroy, and messages of workers to
  workers that are alive (`WorkerInv`); the zombie timer is set while its list is not empty, that of the short
  link manager unless the handler at work has still to come to its loop (`TimerInv`); a task that has a
  worker was tried (`TriesInv`). Without the steps a handler has still
  to do (`doom`, `after`) none of them is inductive: they do not hold while it is at work.

`LongLinkTasks_proofs`, for any tasks, priorities, retries, calls and numbers of connections:

- `LongTypes` (`TypeOK`, which has the sorted list), `LongFreshRequests` (`FreshRequests`),
  `LongRetryBound` (`RetryBound`) and `LongImplementsLedger` (refinement of `TaskLedger`).
- `LongTasksDriven` (`TasksDriven`) is proved from `"TimerCheckSuc" \notin Calls`, the restriction
  `longlink_two` has too. It is needed: that call disconnects without an error (section 3).
- `LongInv` says what holds in the middle of a handler, while the connection thread and other
  threads go on. `Chain`: which steps may follow one another in `mq`; so its last step, the goal, tells
  how the handler will end. `ThreadInv`: the status, the disconnect code and what is on the
  connection at each place of its thread, and that a thread asked to end is the one the handler waits for.
  `GivenUp`: once the join is past, nothing is on the connection, even if another thread has started the
  next one before the join. `TimerInv` and `OrphanInv`: the timer is set, or a running task served,
  unless the handler's goal is the step that will see to it. `TodoInv`: what `__RunOnStartTask` has
  still to look at is in the list and does not run. `MessageInv`, `SentInv`, `NewInv`: a task is in the
  queue until it is taken, was not sent before that, and was if it is answered. `RetryInv` is `RetryBound`
  with the credit of the task that runs.
- The actions fall into effects on tasks (`TaskEffect`, each proved once to keep the list, the
  retries and the ledger), on the handler (`HandlerControl`, `LoopControl`, `MessageControl`) and on
  the connection (`LinkStep`); each part of the invariant is proved once per effect, not per action.

`ActiveSync_proofs`, for any times and numbers of changes, from `AlarmAssumption` and
`UsersAssumption` (the three alarms, and the queue each runs in):

- `AlarmTypes` (`TypeOK`) and `AlarmsKept` (`AlarmsHold`).
- A step does one of eight things to the alarms (`Effect`: nothing, time, a start, a cancel, `__Run`
  posted or taken, a message passed on or come early), and `TimerInv` is proved once per thing.
  That somebody will start an alarm again is not inductive by itself, because a handler of the other
  queue may cancel in between; `Covered` is: whoever is to cancel the alarm of TimingSync or of the monitor
  starts it later in the same handler. Two handlers do not, the ones for the beginning of a connection.
  For TimingSync that is what `heardUp` excepts; for the monitor `Told` says that good news which are no
  longer true have bad news behind them in the queue. `ActiveInv`: unless the handler at work is about to
  cancel it, the alarm of ActiveLogic was started in this stay in the background, at its begin or later.

`Queues_proofs`, for any handlers, waiting threads and clock, any number of posts and any depth of
nested run loops, from `QueuesAssumption` (for the alarms also the two assumptions above):

- `QueuesAreTheirModules`: a behaviour of `QueuesSpec` is one of `MessageQueue` and one of `ActiveSync`,
  so `AlarmTypes` and `AlarmsKept` hold of what the run checks (`QueuesTypes`, `QueuesAlarmsKept`).
- `QueuesSafe` (`QueueSafe`: a message is in one place, a handler that was cancelled and waited for is
  called no more, who waits is known to what is waited for), `WaitsOutlastRuns` (`WaitOutlastsRun`) and
  `MessagesNotPutOff` (`NeverPutOff`), the two step properties in the run's `QueueServes`.
- `QueueInv`: no two listed messages have one id and all have one that was given out (`Unique`,
  `Numbered`); what a run loop holds at its two places (`LoopInv`); a message that runs is listed no more
  and runs in one loop only (`InHand`); who is noted with a message waits for it, and who waits for a
  message is noted with it, in the list or in the loop that runs it (`Waiters`, `Noted`).
  That a handler which is gone is called no more is not inductive by itself: an outer loop may still have
  it among the handlers left to call. Then the user who cancelled it has not returned: `Cancelled` says
  that somebody waits for the outermost loop that runs it, or one around it (`Outlives`), and the steps
  in which a loop forgets the handlers it ran are those that end the wait for it.
- An action is first reduced to its effect: messages come and go (`ListStep`), one user changes
  (`UserStep`), the innermost loop changes (`TopStep`), a loop begins inside another or ends. Each part of
  the invariant is proved once per effect.

Only model-checked: liveness everywhere (of the message queue `WaitsEnd` and `BreakEnds`), because
liveness under fairness is beyond the prover. Every invariant, every refinement and every other step
property that a passing run checks is a theorem above; those with hypotheses beyond the assumptions
on the constants say so (`FlusherStaysReady`, `SessionsInOrder`, `LongTasksDriven`, `MachinesTypes`,
`MachinesBlockWhole`).

## 6. Disagreements between code and its words

1. `block_full`: `LogBuffer::Write` sets a length above the maximum that
   `PtrBuffer::Length` asserts against; the tail of the last line is cut and the tail byte goes missing.
2. `block_longline`: a record above 4096 bytes is cut by the crypt buffer and the block that
   holds it cannot be decompressed.
3. `longlink_redo`: `Disconnect` releases its lock before it joins; a connection another
   thread starts in between is joined too, and nobody ends it. All calls of NetCore wait behind it.

Met while modelling, and no run's question (the models do what the code does, and their
properties leave room for it; paths below `mars/` or `rtmp/`):

- `stn/src/net_core.cc:375`: a task between the zombie list and its start is in no list, only in
  the queue; `ClearTasks` or `StopTask` handled before it miss it.
- `rtmp/rtmp_ios.c:152,177`: a second stop overwrites the first, and the end is then reported as abnormal;
  `rtmp/rtmp.c:1281`: `RTMP_Init` clears the session on each retry, the interrupt callback with it,
  so a stop is not seen by the second attempt.
- `rtmp/rtmp_thread.c:81,134`: the wait loop counts its last round as empty even when it found a
  packet; only the queue a packet came from is read ahead again.
- `log/src/appender.cc:452`: in synchronous mode the record just written is still in the stdio
  buffer when the cache file is appended behind the file's back, and is removed or reordered if
  the process dies; `appender.cc:266`: the name prefix is compared with a whole path, so old
  files of the cache directory stay there.
- `stn/src/netsource_timercheck.cc:143`: the periodic check is cancelled only if a check runs at that moment;
  `sdt/src/sdt_core.cc:69,161`: a check accepted while the thread ends is never run, and
  `cancel_` is not reset by a start; `sdt/src/activecheck/dnschecker.cc:87`: an unsigned
  time-out is tested for being negative.
- `stn/src/shortlink_task_manager.cc:354,541`: whether a request had been sent whole is looked at
  only when there was no error, and the session time-out, a way of handling, is compared with
  the error code.
- `comm/messagequeue/message_queue.cc:227`: two queues whose handlers cancel and wait for each
  other wait for ever; nothing in `mars/` does that.

## 7. Not modelled, and the plan

Not modelled: the adaptive timing of stn (smart heartbeat, dynamic timeout, avalanche, frequency
and flow limits, signalling keeper), the scores and bans of addresses, complex connect,
`GetPeriodLogs`, the salvage mode of the decoder scripts. They are small sequential machines
over counters and clocks; modules for them come next, in this order.

Composition wanted: XlogAppender over XlogBlock and XlogFile, a run of NetCoreTasks whose long
link is LongLinkTasks instead of its ledger, and MessageQueue as the queue of both
(their `mq`, `messages` and `timer` abstract it by hand).

Never: protocol encoding, AMF, handshakes, cryptography, formatting (pure data); the probes of
sdt (I/O without shared state); vendored boost, openssl, zlib, tinyxml2, cJSON; demonstrations.
They are most of the repository's lines, hence the small share of it that `PROJECT.json` maps.
