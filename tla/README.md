# Repo-Init: a verification project

Repo-Init is a C++20 service template: a process that starts a few services (a
telnet server, a ZeroMQ server, self monitoring, crash and log reporting,
Prometheus metrics), watches their health and runs until it is interrupted.
This directory holds TLA+ models of its components, the TLC configurations that
check them on small instances, and the theorems proved about them with TLAPS.
Paths below are relative to the repository's root (`src/` in `PROJECT.json`'s
source names).

## 1. The system

| component | state | operations | shared with |
|---|---|---|---|
| start-up and health flags (`src/main.cpp`, `src/utils/ErrorHelpers.cpp`) | `vCheckFlag`, `interruptFlag`, the alarm | `main`, `alarmFunc`, `interruptFunc` | every service thread sets its flag; the status queries iterate over the vector |
| telnet server (`src/telnet/TelnetServer.cpp`) | `m_sessions`, `m_listenSocket`, `m_initialised`, the server thread | `initialise`, `shutdown`, `update`, `acceptConnection`, the session calls | the kernel's descriptor table, the callbacks, Prometheus |
| telnet line discipline (same file) | `m_buffer`, `m_history`, `m_historyCursor` | `stripNVT`, `stripEscapeCharacters`, `processBackspace`, `processTab`, `processCommandHistory`, `getCompleteLines`, `addToHistory` | one session |
| telnet statistics (`src/telnet/TelnetStats.cpp`) | counters, gauges | `consumeStats` | the server thread |
| ZeroMQ server (`src/zeromq/`) | the REP socket, its statistics, the monitor's peer count | `initialise`, `update`, `threadFunc`, `shutdown`, the message callback | the clients, the monitor thread |
| crash tracer (`src/utils/Tracer.cpp`) | the handler process and its socket, `checkFlag` | `startHandler`, `threadFunc`, `isRunning` | the health flags |
| Prometheus registries (`src/metrics/PrometheusServer.cpp`) | the list of registries and ids | `createNewRegistry`, `getRegistry`, `deleteRegistry` | every service |
| status and performance trackers (`src/metrics/Status.cpp`, `Performance.cpp`) | gauges | `incrementActive`, `incrementSuccess`, `incrementFail`, `startTimer`, `endTimer` | any thread |
| process metrics (`src/metrics/ProcessMetrics.cpp`) | gauges read from `/proc`, the byte counts of the last round | `threadRunner`, `getDiskIO` | the health flags |
| configuration (`src/utils/ConfigParser.cpp`) | the map and the file | `load`, `save`, `get`, `set`, `remove` | the file system |
| file monitor (`src/utils/FileHelpers.cpp`) | inotify descriptor, callback | constructor, `threadFunc`, destructor | the file system |
| Loki and Sentry sinks, main logger (`src/logging/`) | the batch of log lines, the global Sentry client | `sink_it_`, `flush_` | every thread that logs |
| HTTP and raw sockets (`src/connection/`) | the curl handle, the packet socket | `performRequest`, `readData`, `writeData` | the network |
| helpers (`InputParser`, `Hasher`, `BaseServerStats`) | none | pure functions | |

How they interact: `main` constructs each service and hands it one atomic flag
of `vCheckFlag`; the service's thread sets the flag after every round of its
loop, and `SIGALRM` clears all flags every 30 s, so that a flag that stays
cleared marks a service that stopped.  The telnet and ZeroMQ servers answer
clients through callbacks (`TelnetMessageCallback`,
`ZeroMQServerMessageCallback`) that also report those flags.  `shutdown` and the
destructors run on the main thread while the service threads still run.

What is hard in it:

* the telnet server's members are shared, without a lock, between its thread
  and the caller of `shutdown`;
* descriptor numbers are kept after they were closed, and the kernel reuses them;
* the session list is modified while it is walked by index;
* a REP socket that received and did not answer accepts nothing any more;
* a health flag is set by one thread, cleared by a signal handler and read by a
  third, while the vector that holds it may still grow;
* counters are consumed in a different step from the one that counts;
* a file is truncated in one step and written in another, while others load it;
* batches and events are handed over to a library or the kernel, and forgotten;
* trackers shared by threads compare in one step and write in another;
* a logger is dropped, and replaced in a second step, while other threads still log.

What makes each component correct:

* **telnet server**: the session limit is kept; each round updates every session
  once; a connection accepted is closed by its owner, and by nobody else;
  statistics agree with what became of the connections; a pending client is
  taken, a client that has gone or quit loses its session; `shutdown` returns
  and leaves no thread.
* **line discipline**: what is executed is what was typed, however TCP cuts the
  stream; the history is the recent lines and the cursor stays inside it;
  statistics add up over rounds.
* **ZeroMQ server**: every request is answered and counted once; the socket is
  used by one thread at a time and is left in a state in which it can be started
  again; one that is stuck stops reporting itself alive.
* **health flags**: a service that works is reported, one that does not is in the
  end reported too; no status query walks the vector while it moves; nothing
  outlives `main`.
* **Prometheus registries, status tracker**: an id finds its registry until it is
  deleted; the gauge is the number of events in progress.
* **configuration, file monitor**: a configuration loaded is one somebody wrote;
  a change is notified.
* **performance tracker**: what it measures is nobody's more than their own time,
  and its extremes are those of what was measured.
* **process metrics**: every byte is shown in one round, also when a search fails.
* **Loki and Sentry sinks, main logger**: no message is sent twice, out of order, or
  dropped without its request having failed; what is logged before the last
  flush is sent.
* **raw sockets**: an object's descriptor is closed once, its counters lose nothing.

## 2. The modules and the code

| module | models | composed with |
|---|---|---|
| `SessionService` | what the telnet server promises, abstractly | implemented by `TelnetServer` |
| `TelnetServer` | `TelnetServer.cpp` from `initialise` to `shutdown`, the session's part in a round, the descriptor table | clients, the clock, another component that opens descriptors |
| `TelnetLine` | `TelnetSession::update` from `recv` to the command callback, `initialise`'s banner, `TelnetStats` | one client |
| `RequestReply` | what the ZeroMQ server promises, abstractly | implemented by `ZeroMQServer` |
| `ZeroMQServer` | `ZeroMQServer.cpp`, `ZeroMQ.cpp`, monitor and statistics | clients, the alarm, the caller of `shutdown` |
| `HealthFlags` | `main.cpp`, `Tracer.cpp`, the loop of each service seen from its flag, the status query | signals, the crash handler process |
| `ConfigFile` | `ConfigParser.cpp`, `FileMonitor` | the file system, other processes |
| `Metrics` | `PrometheusServer.cpp`, `Status.cpp` | threads that share them |
| `Performance` | `Performance.cpp` | threads that share a tracker |
| `ProcessMetrics` | `ProcessMetrics.cpp`, the search of `FileHelpers.hpp` as it uses it | the kernel's counts, the alarm |
| `RawSocket` | `RawSocket.cpp` | the descriptor table |
| `Logging` | `Logger.cpp`, `Loki.cpp`, `Sentry.cpp` as it takes messages, `Http.cpp` as they use it | threads that log, Loki |
| `SmallParts` | nothing of its own: puts `Metrics`, `Performance`, `ProcessMetrics` and `RawSocket` side by side | |
| `MC...` | instances for TLC | |
| `DataLemmas` | lemmas on sequences, recursive functions, folds, loops and selections that the proofs cite | |
| `TelnetServer_proofs`, `TelnetLine_proofs`, `ZeroMQServer_proofs`, `HealthFlags_proofs`, `ConfigFile_proofs`, `Logging_proofs`, `SmallParts_proofs` | theorems | |

`PROJECT.json` ("map") gives the lines of every definition.  In each module an
operator whose comment begins with "A bug" or "Mutant" is not part of the
model: it is the form a plausible mistake would give the definition after it, kept to show that
a property notices it ("mutants" in `PROJECT.json`).

### TelnetServer

Two threads of the program: the one that calls `initialise` and `shutdown`
(`mpc`), and the server thread (`pc`).  The server thread's steps are those
between which the other may interfere: the test of the stop token (`CheckStop`),
`select` (`Poll...`), `accept` (`Accept...`), the decision on the connection
(`Admit`, `AdmitThrows`, `Refuse`, `RefuseThrows`), one session's `update`
(`Serve...`), the test of its timeout (`KeepSession`, `CloseSession`), the erase
(`EraseSession`), the statistics (`Report`).  `shutdown` takes one step for each
session it closes.  `fdTab` is the kernel's table: `accept` and `socket` take the
lowest free number, as POSIX requires, and `close` acts on whatever has the
number.  That is how a number kept too long reaches another connection.

An iterator that `push_back` or `erase` invalidated (`mpc = "stale"`) and an index past
the end (`ServeCleared`) are undefined behaviour: `ShutdownStaleElement` chooses
among the outcomes a build with the project's hardening flags
(`_GLIBCXX_ASSERTIONS`, `_FORTIFY_SOURCE`) gives, the process's abort among them.

Lines are "cmd", "quit" and "bad" (a callback that throws); time is a number of
ticks since the session was last seen, and stops mattering past the timeout.

`SessionService` is its abstract specification: clients arrive, the first of
those who wait is served if there is room and turned away if there is none, a
session ends, all of them end, the service opens and closes.  It has no threads,
descriptors, ages or statistics.  `Service` in `TelnetServer` is the refinement
mapping: the service is open while a descriptor listens; who waits is the
connection `acceptConnection` has in hand, followed by the backlog of the
listening socket; who is served is the owner of each entry of `m_sessions`.

### TelnetLine

One session; a key is a letter, a control character or one arrow.  `Update`
composes the stages of `TelnetSession::update` in its order: NULs become LFs, negotiations
are stripped, the history is consulted, escapes stripped, backspaces and tabs
processed, complete lines extracted and executed, the history extended, the line
echoed.  Each stage is an operator over the buffer.  Those that search, change what they
found and search again are `Repeated`: their loop's body, as often as there may be
something to find (the body leaves a buffer without anything to find as it
is).  `TypeKey` is the reference definition: what typing one key means to the user, key
by key.  Statistics count calls of `send`, not bytes.

### ZeroMQServer

`fsm` is the state of the REP socket; `pc` the place in `threadFunc` and
`update`; `work` and `reply` the messages between them.  A client is one
connection with at most one request in flight.  `shutdown` unbinds the socket,
which ends the connections that were accepted there (`Unbind`): the requests in
the socket's queue may be kept or lost, and the monitor, which stops right
after, may hear of any number of the disconnections.  A request is "good", "bad",
"odd" (its first part has not the size of an id) or "throw".  `Moved` is what
`send_multipart` leaves of the reply.  A receive times out; after a throwing
callback it throws, since the reply is owed.

`RequestReply` is its abstract specification: a service that is up answers the
oldest request not answered yet; it may fail to answer one, and that is the
last it takes; when it goes down its clients' connections end, and their requests
are kept or lost together.  The mapping: the queue is the
request at work (between the receive and the send) followed by the socket's own,
and the service is broken when the socket owes a reply nobody works on.

### HealthFlags

`main` appends the flag of each service and then starts it, in one fixed order
(`Order`), destroys the services in reverse, or leaves early when one fails to
start (`AfterFailed`), the Prometheus server before the self monitor included
(`PrometheusFails`).  A destructor waits for a round that answers a status query
(`Joined`).  A service is its flag and whether its rounds work.  The
tracer's round (`TracerRound`) is modelled with its retry counter and with what
`isRunning` sees of the handler process: it is up, has closed its end of the
socket, or has exited (`IsRunning`); it is started once, by the constructor,
whose exception nothing catches.  A status query walks the vector one flag at a
time, the handler clears them one at a time.  `capacity` follows the doubling of
`std::vector`.

### ConfigFile

A text is the map it begins with, its length, and whether it is
whole; `save` truncates at the opening and writes at the closing of the stream,
over what is there by then; a full disk leaves a part of it.  It assumes that the
text fits in one stream buffer.  The monitor asks for the number of bytes, reads
that many, and calls back once.

### Metrics, Performance, ProcessMetrics, RawSocket

`Metrics`: a call of the Prometheus server holds its lock and is one step; a
method of the status tracker is one step for each counter.

`Performance`: one start time and two gauges, shared without a lock; each read
and each write is a step of its thread (`AskTime`, `Observe`, `CheckMin`,
`SetMin`, ...).  `began` and `observed` remember what the code forgets, to
state what it measures.

`ProcessMetrics`: one round searches a file twice (`FindReadBytes`,
`FindWriteBytes`), either of which may find nothing or throw, while the kernel
goes on counting; `old` is what a round remembers for the next one's difference.

`RawSocket`: a constructor that succeeds or throws after `socket()`, transfers of some
bytes, none or a failure, `getStats(true)` and the destructor.

### Logging

The life of the `MainLogger` object (`phase`), its level, and its two network
sinks.  A message enters the buffer of its level if the logger's threshold lets
it through and Loki takes its level, and is handed to Sentry from "warn" on; a
flush, of the periodic thread or of the destructor, empties the buffers
and posts them while the sink's lock is held; Loki takes all of a batch or
nothing, and its answer may be lost.  Other threads log until the logger is
dropped.  The command line sets the level at start-up (`AdjustLevel`), and the log
level command sets or resets it at any time while the ZeroMQ server runs
(`ChangeLevel`).  Dropping the logger and setting the next default one are two
steps (`Drop`, `SetDefault`): a thread that logs in between finds none and ends
the process (`LogWithoutDefault`).

## 3. The runs

| run | question | bounds |
|---|---|---|
| `telnet_sessions` | clients that come, send, quit and leave, one more than fits; callbacks that throw, binds that fail; the refinement of `SessionService` | 3 connections, 2 sessions, 4 descriptors, 2 calls of `initialise` |
| `telnet_liveness` | what must eventually happen, and the statistics | 2 connections, 1 session, 2 lines waiting each |
| `telnet_faults` | `shutdown` against every step of a round, and a restart; resets, callbacks that throw, a foreign descriptor | 2 connections, 2 sessions, 3 descriptors, 2 calls of `initialise` |
| `telnet_clobber` | violated: a descriptor closed by another session | 2 connections that may reset |
| `telnet_line` | five kinds of sessions: every cut of the stream, editing keys, arrows, several lines at once with failing sends, no callbacks | 5 to 9 keys, history of 2 |
| `zmq_requests` | requests across `shutdown` and `initialise`, leaving clients, a throwing callback; the refinement of `RequestReply` | 2 clients, 5 connections and requests in all |
| `zmq_peers` | violated: the peer count is not the number of peers connected | 2 clients |
| `health_services` | all services, failing starts, one that breaks and recovers, status queries at any time | 4 services, 1 reader, 1 retry |
| `health_handler` | violated: a dead crash handler is reported alive | 2 retries |
| `config_file` | savers, a rewrite or a replacement by others, crashes, a full disk, the monitor | 2 parsers, 1 key, 1 value, 4 changes |
| `small_parts` | registries created and deleted, events tracked; two threads timed by one tracker; rounds of the self monitor that fail; raw sockets | 3 threads, 4 registries, 5 events, ids 0 .. 7; 3 ticks, 3 calls; 4 rounds, 3 bytes of each kind; 2 objects, 3 descriptors |
| `logging` | messages, flushes, failed requests, every `-v` option of a release build and every level command, the end of the logger | 4 messages and the last one, 3 levels |

The four parts of `small_parts` share no state.  The run picks one of them at
the start and leaves the others standing, so each is explored completely and
their product is not.

What the properties say and why they are not obvious:

* `RoundServesEach`, `NoDescriptorLeak`, `StatisticsExact`: see the
  comments in `TelnetServer`.  Two sessions and three connections give a full
  list, a refusal, and an erase before, at and after the position of the loop.
  `StatisticsExact` is checked by `telnet_liveness`, where clients leave in order: a
  reset (the session is counted as active until it times out), a throwing callback
  and a lack of descriptors break it (section 6).  One session and two connections
  give each of the three numbers a change.  `NoDescriptorLeak` holds with all of
  them, and leaves out the one connection whose refusal threw.
* `ImplementsService` (telnet): nobody is overtaken, nobody is refused while there is
  room, nobody is served twice, and never more than `MaxSession` are.  The
  theorem extends it to resets, exceptions, failed starts and a
  `shutdown` at any step.
* `Inductive` (one in each of four modules) is the conjunction the proofs rest on.
  TLC checks the telnet server's twice, with three connections, exceptions and
  failed starts, and with resets and `shutdown`.  In the
  telnet server it says where every connection and descriptor is (`DescriptorInv`), in
  the ZeroMQ server also how many requests are counted (`CountInv`), in `HealthFlags`
  what runs, and how large the vector is, at each point of `main`, in `SmallParts`
  what the four parts' proofs need.
* `OnlyResetsClobber` bounds the damage `telnet_clobber` shows: without a reset
  no descriptor is closed by anybody but its owner.
* `QuietShutdownClosesAll`: if the server thread did not change the list while
  `shutdown` walked it, no session in it is dropped with its connection open.
* `TypedText`, `HistoryIsRecent`, `UpsWalkBack`, `TotalsAddUp`: the line
  discipline against its reference.  Their preconditions name what the code does
  differently from a terminal (section 6): without the command callback nothing is
  executed; a text with editing keys is as typed when each key comes in a segment of its own,
  Enter in one or two, and no negotiation is under way.  A stream to a
  session without a prompt may be cut anywhere, also inside a negotiation or between CR and LF.
  Nine keys suffice for three lines, one more than the history holds, and
  arrows after them.
* `StopsBetweenRequests`, `Inductive` (its `SocketHasOneUser`): the socket outlives
  the thread.
* `ImplementsService` (ZeroMQ): answers come in the order of the requests, at most
  one for each, and only from a server that is up; a reply that is never given is the
  end of all replies.
* `EachCountedOnce`: requests received, succeeded and failed, between two rounds.
  It says nothing of the bytes uploaded, whose total the code never raises
  (section 6).
* `RequestAnswered`: a client waits for ever only if a callback threw.  A `shutdown`
  ends its connection, and it has to ask again on another.
* `ShutdownReturns` (ZeroMQ): the receive has a timeout (`ZeroMQ.cpp:26`), so that the
  join ends also when no client ever sends anything, and after a callback threw.
* `StuckIsReported`: the health flag of a server that can answer nothing is
  eventually cleared for good.
* `NoReallocationUnderReader`: the fourth append happens beside readers, and only
  fits because the third one made the capacity four.  The alarm handler walks the
  vector too, and nothing keeps the appends of `main` away from it (section 5).
* `BrokenIsReported`, `LiveIsReported`: what a status reply means.
* `OnlySessionsOutlive`: when `main` returns, the only thread left is that of a
  telnet server its sessions keep alive.
* `LoadedIsWhole`: a torn file never parses as a configuration; with two savers
  and a crash the file may well be torn.
* `ChangeNotified`: no event is lost between `ioctl` and `read`, nor by
  breaking out of the loop at the first event of a batch.
* `IdFindsRegistry`: ids come from the last entry, so that those of deleted
  registries come again; no living one is shadowed.  `MaxId` = 7 stands for
  2^64 - 1; the assumption `MaxRegistries < MaxId` says that it is never reached.
* `EventsBalance`: the check and the decrement are separate, yet nothing is lost,
  since every thread's own event keeps the gauge positive.
* `TimingSound`: with one start time for all threads a measure may be too short,
  even negative, but never too long; minimum and maximum are exact as long as no two
  calls of `endTimer` overlap, and may be lost when they do.
* `DiskBytesAddUp`: the sums of what the gauges were set to is what the last complete
  search saw; a difference never wraps below zero.
* `SocketsAccounted`: descriptors in use are those of living objects and those of
  constructors that threw (section 6); bytes moved are in the counters or were taken.
* `OnceAndInOrder`: the buffers are emptied before the request.  `OnlyLateOnesStay`:
  a message that stays in them for good was logged after the last flush began.

`CHECK_DEADLOCK FALSE` stands where the system may stop: a process that ended,
clients that are all done.  Symmetry is used in the runs without liveness
properties only.

### Fairness

`TelnetServer!FairSpec`: weak fairness of the server thread (its `select` and its
`recv` do not block for longer than their timeouts), of a `shutdown` that has
begun, and of the clock.  Clients and callers owe nothing.
`ZeroMQServer!FairSpec`: the same for its thread (the receive times out), for the
end of `shutdown`, and for the alarm, which its handler re-arms.  Nobody owes a call
of `initialise`: `main` makes one, and a restart may happen or not.
`HealthFlags!FairSpec`: each service's thread, each reader, `main`, the alarm
while armed and its handler.  `ConfigFile!Spec`: the monitor's thread, a loop
without a blocking call.

## 4. What is proved

Every safety property the runs check is a
theorem for every value of the constants.  The only assumptions are those the
modules name (`BoundsAssumption`, `NamesAssumption`, `WidthAssumption`, ...:
bounds are naturals; the markers of the tables are distinct from what they hold;
keys and descriptors are finite sets; no program creates 2^64 registries; `main`
enables the crash tracer; `recv` returns at least one byte, and the commands contain
no control characters), and `NoFaults` of `StatisticsExactHolds`.

Each theorem follows from an inductive invariant, which TLC checked first: with
the runs where `Inductive` is listed, and otherwise on the instance of the run
named after the module (`LineInv`, `StreamInv` and `EditInv` of `TelnetLine_proofs`,
`WholeIsWritten` of `ConfigFile`, the invariant of `Logging_proofs`, and
`Tally`, with `NoFaults`, on `telnet_liveness`).

### The telnet server

`TelnetServer_proofs`, with every fault of the model:

* `TypeCorrect`, `CapacityHolds`, `NoThreadAfterShutdown`: from the inductive
  invariant `IInv`.  `Capacity` alone is not inductive: `Admit` appends after
  the test, so that one must know the test is in the same step of the same
  thread; and `StoppedMeansStopped` needs to know that a thread exists only
  between `initialise` and the join (`ThreadOwned`).  `ListenOwned` says that the
  only listening socket is the one `m_listenSocket` names, `InHand` that what a
  step left for the next is there (a connection in `ClientSocket`, a non-empty backlog
  after `select`).
* `RoundServesEachHolds`: from `RoundInv` in addition.  It says that
  at each position of the loop the sessions from there on are exactly the part
  of the round's roster not served yet, in order (`Remaining`), whatever was
  erased before; and only while no `shutdown` is under way, which clears the
  list.
* `ServiceImplemented`: the server implements `SessionService`.  The initial states
  correspond; a step under `IInv` is a step of the service or changes nothing it
  knows of.  Most actions touch none of the mapped variables (`SameState`).  The others
  each have a lemma or a step: `accept` moves a connection from the backlog into the hand,
  which leaves `Waiting` as it is; `Admit` and `Refuse` are `Serve` and `TurnAway` (by
  `InHand`, the hand is the head of `Waiting`; by `Capacity`, a list that is full
  has exactly `MaxSession` entries); a `close` is the service's `Close` if
  the descriptor listened (by `ListenOwned`, the only one that does), and invisible
  otherwise; an erase is `End`.

The second half of the module follows every connection and its descriptor:

* `InductiveHolds`.  `DescriptorInv` has four parts.  `Places`: a connection is in
  exactly one of the backlog, the hand, a session, or done with, it holds at most one
  descriptor, and that one is the number its owner remembers.  `ClosedInTime`: a session about to be
  erased, or that `shutdown` is done with, holds no descriptor.  `OpenInTime`: until `shutdown`, the
  connection in hand is open, an admitted one that is open has its session, and,
  if no admitted client has reset its connection, each session's number is its own.
  `TakenInHand`: only a callback that throws drops a connection from the hand.
  `Places` is what makes a number that was kept too long harmless or harmful: it says who
  has the number by now.
* `NoDescriptorLeakHolds`, `OnlyResetsClobberHolds`, `QuietShutdownClosesAllHolds`
  follow from it: the first two until `shutdown` is called, the third about `shutdown`
  itself.
* `StatisticsExactHolds` assumes `NoFaults`: no callback throws, no client resets
  its connection, nobody else uses descriptors, and there are more than sessions.  These are the
  circumstances of `telnet_liveness`, for any numbers; section 6
  says what happens in others.  `Tally` says what is counted, and what is decided and not
  counted yet (`Due`).  The step that needs an argument is `accept` finding no
  descriptor, which would count a refusal every round: the descriptors in use are the listening
  socket's and at most one for each session (`Places`), and all of them in use
  would be `MaxFd + 1` (`EnoughDescriptors`, with cardinalities).

### The line discipline

`TelnetLine_proofs`, for any segments, any commands and any limit of the history.  The
stages of `update` are loops and folds over texts of any length; what they return is
proved from the recursive functions behind them (see the lemmas on data below), stage by
stage.

* `HistoryStaysRecent` and `TotalsAlwaysAddUp` follow from `LineInvariant`.  `LineInv`
  adds to the two that the history is behind the lines executed: `addToHistory`
  leaves the list or appends and drops the oldest, just when the list of distinct
  lines stays or grows (`HistoryInv`, with `Behind`);
  and that nothing was sent before `initialise`, and only the banner until
  the first `update` (`Accounts`).  The lines that fail in `executed` are those that failed
  before and those of the round (`OccurrencesConcat`).
* `TextIsAsTyped` has two cases, each with its invariant.
  - `StreamIsTyped`: a session without a prompt, where no key edits.  `StreamInv` says that
    typing what was received means the same as having executed the lines and then typing
    `m_buffer`.  Each stage keeps that meaning: a swapped NUL means its LF (a
    key's effect is the same), a complete negotiation means nothing wherever it
    stands before anything else that could begin one, a line cut out means one
    executed line.  What stays in `m_buffer` has no complete negotiation and no
    line in it (`Stripped`), so it is the unfinished line, unless a
    negotiation is still open.
  - `CharacterModeIsTyped`: a client that edits, one key at a time.  `EditInv` says that
    `m_buffer` and the history hold only keys that stand for themselves (`Clean`), so that each
    stage finds at most the one new key, at the end: an update is `Entered` or
    `Pressed`, and both do what `TypeKey` does.  It needs to know that a CR received last is
    in `m_buffer`, for the LF that follows it in a segment of its own.
* `UpsAlwaysWalkBack` is from `EditInv` as well: it counts the arrows since the last
  Enter (`UpsSince`) and says where `m_historyCursor` is after them (`Walked`).

### The ZeroMQ server

`ZeroMQServer_proofs`, for any clients and any number of requests and restarts:

* `StopsBetweenRequestsHolds` and `InductiveHolds`.  The invariant relates `pc` to the
  state of the socket at every place of the loop, for as long as every callback
  has returned (`Owing`), and the socket's queue to its clients
  (`QueueInv`: one request each, of one that waits or has left).
* `EachCountedOnceHolds`: `CountInv` adds the request in progress to the
  counters, with the outcome its callback reported; and says that nothing is left of the
  reply when it is counted, whatever its parts.
* `ServiceImplemented`: it implements `RequestReply`.  `Recv` moves a request from the
  socket to the thread and leaves the mapped queue as it is (`PutInFront`); `Send`
  answers, or fails with an empty reply; `WorkThrows` fails.  `QueueInv`
  is needed to know that the client of the oldest request waits or is gone.  Unbinding
  is the service's `Stop`, whatever the socket keeps of its queue.

### The health flags

`HealthFlags_proofs`: `InductiveHolds`, `TypeCorrect`, `NoReallocationUnderReaderHolds`,
`OnlySessionsOutliveHolds`, for any enabled services and reporters, and any of them that break
or fail to start.  `VectorInv` ties the capacity to the number of appends and both to
the progress of `main`; `StartedInv` says what runs at each point of it; `ReaderInv`
that a reader runs only in a started service, with a client if it is the telnet
server.  Together they leave one append beside readers, and that one has room.  The order of
the four services (`Order`) is part of the model, not a parameter.

### The smaller parts

`SmallParts_proofs` proves each part's invariant from its own steps and joins them in
`PartsProved`: a step of one leaves the variables of the others alone.

* `IdFindsRegistryHolds`: ids grow along the list and stay below the number of
  creations (`RegistryInv`), so that the search finds the right entry.  The erasure is a
  fold, `Left`; its result is described by the places it keeps (`Selects` in
  `DataLemmas`).
* `EventsBalanceHolds`: the gauge is the number of threads between the increment and the
  decrement, and so positive when any of them tests it.
* `TimingSoundHolds`: `NeverOverstates` bounds each thread's measure by its own time,
  whoever moved the start; the extremes are those of what was observed and not being
  compared any more, until two calls overlapped.
* `DiskBytesAddUpHolds` is inductive with its types; `SocketsAccountedHolds` needs
  `HoldersDiffer`, since `socket()` gives the lowest number free, to count
  descriptors by counting objects.

### Configuration and logging

* `ConfigFile_proofs`: `TypeCorrect`, `LoadedIsWholeHolds`, for any parsers, any finite set of
  keys and any values.  `WholeIsWritten`: a file that parses, and a map on its way to
  it, was written by somebody in full.  A text written over a longer one, or cut, is not
  whole, whatever the maps; one written over another of the same length or
  shorter is the new one.  `SizeFits`: the monitor reads no more than is queued.
* `Logging_proofs`: `OnceAndInOrderHolds`, `OnlyLateOnesStayHolds`.  Numbers grow (`Counts`); each
  message is in the store, the post or the buffer of its level, or was lost
  (`Placed`); the three are sorted and follow each other (`Sorted`); what is in a
  buffer after the last flush came after it (`Late`); what Sentry has is what it
  takes, in order (`Handed`).

### Lemmas on data

`DataLemmas` has what several of these need: `RemoveAt`, a queue with an element put
in front, the places at which something occurs in a sequence and their number,
the entries a selection keeps.  The library's induction theorems take
an operator and cannot be used; `AllNaturals` is induction for a set of naturals,
by its smallest missing number (`SmallestNumber`), and `Recursion` gives from it the function a
recursive definition names.  Loops and folds are described in the same way, with a
function where the model has an operator: `LoopsTo` by the values after each
pass, with what every pass keeps (`LoopKeeps`) and that nothing is left to find
(`LoopFinishes`); `FoldsTo` by the values after each element, with the fold of a
concatenation (`FoldsConcat`), of up to three elements (`FoldsOne`, ...), and of two
sequences whose elements have the same effects (`FoldsSame`).

### Only model-checked

* Every liveness property (`PendingTaken`, `QuitEndsSession`, `GoneClientReaped`,
  `ShutdownReturns`, `RequestAnswered`, `StuckIsReported`, `BrokenIsReported`,
  `LiveIsReported`, `ChangeNotified`), since the prover has no rules for fairness.  The abstract services promise nothing of
  the kind, so that their refinements are proved in full.

## 5. What is not modelled

* The wording of messages, ANSI codes, processing times and session durations
  (`BaseServerStats`).
* The gauges of `ProcessMetrics` that show one number of the kernel, and the CPU
  usage, a quotient of two clocks.
* The contexts Sentry is given at its start, and its queue; the options of the
  HTTP client; the database and annotations `Tracer` prepares for Crashpad.
* A file monitor whose callback is replaced while it runs, or throws.
* The Sentry library, curl, Crashpad, libzmq, prometheus-cpp, spdlog: external; the
  models contain what the code relies on.
* A `SIGALRM` inside the reallocation of `vCheckFlag`, and `SIGPIPE`.
* A bind or unbind of the ZeroMQ socket that fails.  That libzmq ends accepted
  connections with their listener is taken from the library, which is not in the
  repository.
* The input parser, the compile-time hash, the build, tests and vendored code.

## 6. Where the code and its descriptions part

Three disagreements are checked by a run that must find the violation:

* `telnet_clobber`: `TelnetSession::update` closes the descriptor after a failed
  `recv` (`src/telnet/TelnetServer.cpp:466`) and keeps number and session; the
  next connection gets the number, and `closeClient` ("Finish the session") of
  the old session closes it.
* `health_handler`: `Tracer::threadFunc` resets the retry counter in each round
  (`src/utils/Tracer.cpp:78`), so that a dead handler is never given up, and its
  flag ("Flag to check if the process is running") keeps being set.
* `zmq_peers`: `ZeroMQMonitor` counts peers down when they disconnect and up never
  (`src/zeromq/ZeroMQMonitor.cpp:61`), where `getPeerCount` is to "Get the number of peers
  connected" (`ZeroMQMonitor.hpp`).

Others were met while modelling.  The models contain those marked with a module;
none has a run of its own:

* (`TelnetServer`) a reset connection stays in the active gauge until its timeout;
  an accepted connection whose connected callback throws is counted nowhere, and
  one refused with such a callback is never closed; a connection that stays
  pending for want of a descriptor is counted as refused in every round.
* (`TelnetServer`) `shutdown` during a round may abort the process (`FD_SET` of
  -1, an erase from a cleared list) or leave a connection open;
  `Telnet_UnitTests.cpp:66` expects it not to throw.  After a failed `initialise` it closes
  whatever has the old number by then.
* (`TelnetLine`) a backspace that opens a segment wipes all of it, and one in an
  unfinished negotiation takes that back; a line
  that ends in a lone CR or LF is never handed over; the banner's bytes are never
  counted.
* (`ZeroMQServer`) uploaded bytes are always zero: they are summed over messages that
  sending has emptied (`ZeroMQ_UnitTests.cpp:52` asserts that it does), where
  `ZeroMQStats.hpp:28` calls the counter, and `ZeroMQStats.cpp:49` the metric,
  "Total uploaded bytes".  The model has the defect; no property takes it for right.
* (`HealthFlags`) a telnet server its sessions outlive destroys itself on its own
  thread, which ends in `std::terminate`; a status query just after the alarm
  reports services that work as not active.
* (`Metrics`) `deleteRegistry` answers true also for an id it does not find; an id
  comes again after its registry was deleted, so that deleting twice may delete another's.
* (`Performance`) a measure may be negative, and a new minimum or maximum lost, when
  threads share a tracker.
* (`RawSocket`) a constructor that throws after `socket()` never closes the descriptor.
* (`Logging`) a batch whose request fails is lost; a quote in a message spoils
  the whole batch; a message of another thread after the last flush is never sent;
  a request that fails sets the status code to a marker of its own, where
  `Http.hpp:136` says "otherwise unchanged"; `curl_global_cleanup` runs before the
  logger's last flush; a thread that logs between `Logger.cpp:52` and `:55` finds no
  default logger, as spdlog drops it, and ends the process.
* (`ConfigFile`) a crash during `save` leaves a file that cannot be loaded;
  saving after a failed `load` overwrites it; a file that is replaced is no
  longer watched.

## 7. Plan

Done: the telnet server, its line discipline, the ZeroMQ server, the health flags
and the tracer, configuration and monitor, registries and trackers, the self monitor, raw
sockets, logging; the two abstract services, their refinement checked and
proved; a theorem for every safety property.

What could follow:

1. Session durations; misuse of the status tracker (more outcomes than events).
2. Text that is edited several keys to a segment, against a reference that wipes as
   the code does.
