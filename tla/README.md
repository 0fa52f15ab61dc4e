# A TLA+ verification of katla

katla is a C++ utility library for programs built around threads and event
loops: worker and dispatcher threads, an observer list, a libuv application with
timers, signals and child processes, sockets, an HTTP and WebSocket server on
libwebsockets, and smaller wrappers (MQTT, SQLite, images, files, pipes). What is
hard in it is the same everywhere: who may touch what at which moment, which
wakeup reaches whom, and who closes what. Those questions are modelled here in
TLA+ and model-checked with TLC on small instances. All the safety properties of the passing
runs, and the refinements of the two task queues, are also proved with TLAPS for every number
of callers, tasks, objects, descriptors and restarts.

Contents: [inventory](#inventory), [modules](#modules-and-how-they-follow-the-code),
[runs](#runs), [bounds](#bounds), [fairness](#fairness), [proofs](#proofs),
[findings](#disagreements-between-code-and-comments),
[limits](#what-is-not-modelled), [plan](#plan).

`PROJECT.json` holds the details: `map` gives for every definition the source
lines it stands for, `hazards` the places the properties are aimed at, `mutants`
for each property one plausible bug that breaks it.

## Inventory

| Component | State | Operations | Hard because | Correct when |
|---|---|---|---|---|
| `WorkerThread` (`core/worker-thread.*`) | `m_thread`, `m_stop`, `m_wakeUp`, `m_interval`, mutex and condition | `init`, `wakeup`, `stop`, `join`, destructor; `exec` in the thread | flags set while the thread is anywhere between check and wait; thread created under the mutex it needs; `join` and `m_interval` outside the mutex; restart | one thread at a time, no wakeup and no stop lost, `join` returns |
| `DispatcherThread` (`core/dispatcher-thread.*`) | queue of functions, a `WorkerThread` | `dispatch`, `init`, `wakeup`, `stop`, `join`, `repeatableWork` | push and wakeup are two steps; wakeups merge; functions dispatch and stop | each function taken once, in order, one at a time, eventually, none after `join` |
| `Subject`, `Observer`, `Subscription` (`core/subject.h` ...) | list of observer pointers | `subscribe`, `unsubscribe`, `clear`, `next` | observers change the list while `next` walks it | nobody who stays subscribed is skipped, nobody else's registration is removed |
| `UvCoreApplication::invokeAsync` (`core-uv/uv-core-application.cpp`) | queue of functions, async handle | `invokeAsync`, `uvAsyncCallback` | `uv_async_send` merges | as for the dispatcher |
| `UvCoreApplication`, `UvEventLoop`, `UvSignalHandler`, `UvTimer` | loop, four signal handles, async handle, timers | `init`, `run`, `stop`, `close`; timers created, started, stopped, closed | handles close in two steps, by wrapper or by walk | `stop` ends `run`, `close` returns, no handle closed twice, no wrapper keeps a freed handle |
| `UvPosixProcess` | `m_pid`, `m_status`, subscription to SIGCHLD | `spawn`, `kill`, `stop`, `status`, `handleChildSignal`, destructor | children end at any moment, also before `init` and after `stop` of the application; SIGCHLDs merge; pids are reused | status truthful and final, `onClose` once for every end |
| `PosixSocket` | `_fd`, `_wakeupFd` | constructors, pair, `bind`, `connect`, `listen`, `accept`, `poll`, `wakeup`, `close`, destructor | error paths after one of several descriptors is open; numbers reused; `wakeup` from other threads | no descriptor leaked, shared or closed for another; each wakeup ends a poll once |
| WebSocket connection (`websockets/websocket-server-client-lws-*`, callbacks in `websocket-server-lws*.cpp`) | send list, receive buffer | `send`, `work`, callbacks for established, writeable, receive, closed | senders in many threads, one writer; wakeup after the last push only | packets written once, in order, without waiting for a timeout; whole messages to handlers |
| HTTP connection (`websockets/websocket-server-lws*.cpp`) | registered handlers, request, send list | `handle`, matching, body, answers, writing, close | several handlers match, each may answer repeatedly | request handed over once and whole, also a `POST` without a body; one whole answer, then closed |
| `WebSocketServerLws` start and stop | lws context, handlers, `WorkerThread` | `init`, `stop`, `join`, `handle`, `handleWebSocket`, destructor | context destroyed next to the thread that serves it, nothing protects the pointer | only `stop` takes a context from the thread that serves it; none is left behind but those an `init` overwrote |
| `Mqtt`, `MqttClient` (`mqtt/*`) | topic maps, `m_mosquittoLoopStarted`, mosquitto handle | `init`, `createClient`, `connect`, `disconnect`, `publish`, `subscribe`, callbacks, destructor | library thread against user thread, no lock | one loop; a subscribed callback gets each message once; a confirmed subscription is named; every `connect` is answered, also one after a `disconnect` |
| `SqliteDatabase` (`sqlite/*`) | handle, statements, table of the last query | `create`, `open`, `close`, `exec`, `insert`, destructor | a statement left open refuses `close`; the table grows by callbacks; a NULL is a null pointer | the handle is open and its own; a table reads back row by row |
| `Image`, `Lut` (`image/*`, C and Dart interfaces) | shared, counted buffers | constructors, rectangles, copy, assignment, `cv::Mat` and back, read, write, split, destructor | two threads count on one buffer; rectangles of rectangles | a buffer is deleted once, by its last owner; no pixel outside it is touched |
| `PosixPipe` (`core/posix-pipe.*`) | two descriptors | `open`, `read`, `closeRead`, `closeWrite`, `redirectToWrite`, destructor | every fork hands out all open ends | a reader reaches the end of the output when the child has ended, not before |
| `PosixFile` (`core/posix-file.*`) | one descriptor | `create`, `open`, `close`, `read`, `write`, `size`, destructor | numbers reused; a failing `::close` | an object reaches its own file only; what it opened is closed |
| socket transfer (`core/posix-socket.cpp`) | bytes in flight | `write`, `sendTo`, `read`, `receiveFrom`, `error` | a result means different things for streams, datagrams and nonblocking sockets | results tell what was transferred |
| `Thread` (`core/*-thread.cpp`) | priority of each thread | `setPriority` | may be refused; two builds | no error means the thread is scheduled so |
| errors (`*-errors.*`) | none | codes, messages, conditions | codes with value 0 | a code tests as an error and says which |
| `Stopwatch` | two times, a sum | `start`, `stop`, `reset`, `elapsed...` | any order of calls | the last run and the sum of the stopped ones |
| string utilities | none | trim, split, prefix, suffix, case, url match, size suffix | boundaries | as their reference definitions |

How they interact. `DispatcherThread` and the WebSocket server each own a
`WorkerThread` and give it their work. `UvCoreApplication` owns the event loop and
the signal handlers, and publishes SIGCHLD through a `Subject` to which each
`UvPosixProcess` subscribes. `UvTimer`s hold handles of the application's loop.
`invokeAsync` is how every other thread reaches the loop's thread. Handlers of
HTTP and WebSocket connections run on the server's service thread and call back
into the connection.

## Modules and how they follow the code

| Module | Models | Built on |
|---|---|---|
| `TaskQueue` | abstract: tasks are taken in order, once, one at a time; an empty function is taken without being run | |
| `WorkerThread` | `core/worker-thread.*` | |
| `DispatcherThread` | `core/dispatcher-thread.*` | EXTENDS `WorkerThread`; implements `TaskQueue` |
| `UvInvokeAsync` | `invokeAsync`, `uvAsyncCallback` | implements `TaskQueue` |
| `Subject` | `core/subject.h`, `subscription`, `observer` | |
| `UvPosixProcess` | `core-uv/uv-posix-process.*`, and of the application what decides whether a SIGCHLD reaches it | |
| `UvCoreApplication` | loop, signal handlers, timers, application | |
| `PosixSocket` | `core/posix-socket.*` | |
| `WebSocketClient` | one WebSocket connection | |
| `HttpConnection` | one HTTP connection | |
| `WebSocketServer` | `WebSocketServerLws` start, stop, registration | EXTENDS `WorkerThread` |
| `MqttClient` | `mqtt/mqtt.*`, `mqtt/mqtt-client.*` | |
| `SqliteDatabase` | `sqlite/sqlite-database.*` | |
| `Image`, `Lut` | `image/image.*`, `image/lut.*`, `dart/c-api/*`, image readers and writers | |
| `PosixPipe`, `PosixFile`, `SocketTransfer` | pipes as `spawn()` uses them, files, bytes through sockets | |
| `Errors`, `Thread` | the error codes of `setPriority()`; `setPriority()` | `Thread` EXTENDS `Errors` |
| `Stopwatch`, `StringUtils` | the classes of these names | |
| `WorkerThreadProofs`, `DispatcherThreadProofs`, `PosixSocketProofs`, `WebSocketClientProofs`, `MqttClientProofs` | theorems | extend the module of their name |
| `UvApplicationProofs` | theorems about handles, functions and processes | extends `UvCoreApplication`, `UvInvokeAsync`, `UvPosixProcess` |
| `CallbackProofs` | theorems about observers and about the handlers of requests | extends `Subject` and `HttpConnection` |
| `ResourcesProofs` | theorems about the server and the wrappers | extends `MC_Resources` and `WorkerThreadProofs` |
| `MC_UvApplication` | instance of `UvCoreApplication`, `UvInvokeAsync` and `UvPosixProcess` | extends the three |
| `MC_Wakeups` | instance of `WorkerThread` and `WebSocketClient` | extends both |
| `MC_Protocols` | instance of `HttpConnection` and `MqttClient` | extends both |
| `MC_Resources` | instance of `WebSocketServer` and of the wrappers that follow it above, except `MqttClient` | extends them |
| other `MC_*` | values of constants, symmetry | extend the module of their name |

`MC_UvApplication`, `MC_Wakeups`, `MC_Protocols` and `MC_Resources` put modules side by side
that share no state. A variable `uses` is chosen in the initial state and says which one a
behaviour uses; the others stay in theirs. One run then asks one question (what happens on the
loop's thread; whether a wakeup from another thread is served; whether what a peer sends
reaches whom it should; who owns which resource) of several small modules.

Granularity. A critical section that neither blocks nor creates a thread is one
action. Everything the code does outside a mutex is split wherever another actor
can come between: `init()` is interval, lock, create, assign; a `wakeup()` is
the flag and then the notification; `exec()` is the read of the interval, the
check of the predicate, the wait, the timeout, the run of the work. Member names
(`m_stop`, `m_thread`, `m_tasks`, `m_sendList`, ...) are kept. Variables without
such a name are program counters, kernel or library state (external), or
history variables that properties refer to and no guard of the code reads.

**WorkerThread.** `pc[c]` is where a caller is, `exec[g]` where the g-th created
thread is. Callers do anything in any order, except that `join()` (and the
destructor, which is `join()`) belongs to one owner, which the unlocked reset of
`m_thread` requires. Condition variables wake spuriously. `m_interval` is
written by `init()` and read by `exec()` without synchronisation; both are
actions of their own.

**DispatcherThread.** The worker's actions with `repeatableWork()` as the work. A
dispatched function may dispatch, wake and stop its own dispatcher. The
refinement mapping to `TaskQueue` takes the queue as it is and maps `busy` to a
function being run.

**UvInvokeAsync.** `sent` is libuv's pending flag: sends made before the callback
begins are one. `stop()` closes the handle; the loop then makes no further
callback, and what is posted afterwards is not promised anything.

**Subject.** Each thread has a stack of `next()` calls in progress, since an
observer may call `next()`. A frame keeps the copy of the list, how far it is, and
as history who is still owed a call.

**UvPosixProcess.** One thread, children as independent actors. `waitpid`, the
pending SIGCHLD and pids are the kernel's. The callback walks over the copy of
observers that `Subject::next` makes (see `Subject`), and user code runs inside
`onClose` too. `app` is how far the application is: `spawn()` subscribes from `instance()` on, a
SIGCHLD is caught while `m_childSignalHandler` is started (from `init()` to `stop()` or
`close()`) and delivered while `run()` runs. `missed` records the children that ended while it
was not started, or whose signal was dropped by `stop()`. Contract assumed: an object is destroyed outside the callback.

**UvCoreApplication.** Handle states are libuv's: none, inactive, active, closing,
closed. `close()` is the repeated walk and iteration of
`UvEventLoop::closeOpenHandles`. Calls on which libuv itself aborts (a call
without a loop, `run()` inside a callback) are left out.

**PosixSocket.** The kernel hands out the lowest-level facts: what each number
refers to and the counter of each eventfd. `ForeignOpen` and `ForeignClose` are the
rest of the program, which reuses numbers at once. The creation, accept and pair
paths open their descriptors one at a time, and each step may fail.

**WebSocketClient.** A message is a number of packets; `send()` pushes each one
under `m_mutex` and calls `lws_cancel_service` after the last. libwebsockets is
external: it polls, returns for a cancel, for a connection that asked for a
writable callback, for input, or at its timeout.

**HttpConnection.** Urls are sequences of parts; `MatchInclusiveUrl` and the search
for handlers (exact, inclusive, wildcard) follow `handleHttpRequest`. Answers are
chopped as messages are. A handler answers before it returns. A request with a method
that `getMethod()` does not look for has an unknown method and an empty url. The `Content-Length`
header is there or not, with any length. libwebsockets, which is external, calls back for the
body of a `POST` whose header is there although its length is 0; `BodyCompletion` has no guard of
its own, and a request that was moved out is found as what it is, a null pointer (`crashed`).

**WebSocketServer.** The `WorkerThread` of that module with `work()` as its work, and one
owner that calls the methods of the server. `d`, `d->context` and the vectors have no lock,
so every change is an action; the service thread reads the pointer, enters
`lws_service` with it and returns, three actions. What libwebsockets does with a destroyed
context is undefined and not followed any further.

**MqttClient.** The user's calls against the library's thread. `subscribe()` is three
actions (the call of mosquitto, the map of message ids, the map of callbacks), because the
library may deliver the SUBACK and messages in between. A handler that reads a map while
`subscribe()` is about to change it is a data race: `raced` records that one was possible, and
`DeliveredExact` promises nothing afterwards. The broker keeps the session over a lost
connection, as the code asks it to. The library's thread ends once a `disconnect()` of the user is
done (`LoopEnds`), of which the class is not told; an attempt to connect that fails is repeated
without a callback.

**SqliteDatabase.** Connections and the statements open on each are SQLite's.
`sqlite3_close` is refused while a statement is open, which is how `insert()` shows. Rows come
one callback at a time and may differ in width between the statements of one `exec()`. A value
that is NULL comes as a null pointer, of which `callbackFunc` makes a `std::string`: the program
ends, or an exception leaves `exec()` through SQLite, with its statement open (`ExecNull`).

**Image, Lut.** What counts is the reference count. `Image` has two threads: the user's, and
the dispatcher that `dart_write_image()` gives a copy to. The count is atomic, and the deletion
after the count reached 0 is a step of its own. Two ways to miscount are in the code and kept
apart in `selfCopied` and `miscounted`: an assignment to itself, and for `Lut` the assignment
of a null one over a shared one. Pixels are positions in a buffer.

**PosixPipe.** `holds` is the kernel's table of who has which end of which pipe. `fork` copies
what the parent has, of every pipe; `exec` keeps it.

**PosixFile.** As for sockets, with other code opening and closing numbers. A failed
`::close` releases the number, as it does on Linux, while `m_fd` keeps it. `left` records what an
`open()` over an open file leaves open, `stale` the objects whose number was released without
them: by their own failed `::close`, or by one of such an object.

**SocketTransfer.** Bytes are numbered. The type of the sockets and whether they block is
chosen at the beginning, and decides what a read of 0 and a short result mean. Buffers and
datagrams may be empty. What `sendTo()` returns is left out, since the code returns the -1 of a
failed `::sendto` as a number of bytes.

**Errors, Thread.** The codes that `setPriority()` returns, with values from 0, and the condition
of each. `setPriority()` of both builds: the Windows one sets the calling thread, whichever it
was given, and no promise is stated for it.

**Stopwatch, StringUtils.** A clock that ticks; functions on sequences of characters, each
against a definition that does not search (for `split`: the parts joined give the text and
hold no delimiter).

## Runs

The type invariants are proved, as theorems of their own (`TypeCorrect`, `SocketTypeCorrect`,
`WebSocketTypeCorrect`, `SubjectTypeCorrect`, `HttpTypeCorrect`) or as parts of the inductive
invariants. TLC's runs are kept for what relates several variables or several steps.

All passing runs check deadlock. Where a behaviour of a shared run has come to its end
(`Finished`, `Ended`), it stutters explicitly. Only the violation run
`http_connection_empty_post` does not check it, since a closed connection is an end there.

| Run | What it asks | States |
|---|---|---|
| `wakeups` | worker: `ThreadExact` (`ThreadAssigned`, `SingleWorker`, `JoinTarget`); `FlagsKept` (`StopKept`, `WakeupUsed`) as an action property; `WakeupServed`, `StopTerminates` as liveness; WebSocket connection: `PacketsExact`, `ReceivedWhole`, `SentIsWritten` | 92,763 |
| `dispatcher_thread` | `JoinedQuiet`, refinement `KeepsTaskQueue`, liveness `DispatchedRuns` | 103,785 |
| `uv_application` | handles: `CloseComplete`, `StopEndsRun`, `CloseReturns`; functions: `NoStranded`, `KeepsTaskQueue`, `PostedRuns`; processes: `OnCloseOnce`, `StatusTruthful`, `CloseReported` | 106,294 |
| `subject` | `NotSkipped`, `SubscriptionsExact` | 1,921,138 |
| `posix_socket` | `DescriptorsOwned`, `WakeupsExact`, `WakeupEndsPoll` | 960,864 |
| `protocols` | HTTP connection: `RequestHandled` (`RequestOnce`, `RunsRegistered`), `AnswerWhole`, `AnswerCompletes`; MQTT: `LoopOnce`, `DeliveredExact`, `ConfirmedExact`, `ConnectAnswered` | 1,268,819 |
| `resources` | `ServesLive`, `ResourcesOwned`, `ResultsTruthful`, `OutputEnds`, `TableRowMajor`, `OwnersCounted`, `PixelsExact`, `ElapsedExact`, `StringsExact` | 829,867 |

Five further runs expect a violation; see [findings](#disagreements-between-code-and-comments).

What they show:

- *Threads.* `init`, `wakeup`, `stop` and `join` of two callers never produce a
  second thread; a wakeup is consumed only by a run of the work that starts
  after it; a stop reaches the thread from wherever it is, and is not undone by
  an `init()` that loses the race; `join()` never uses a null or running thread's
  pointer.
- *Queues.* Nothing dispatched or posted is lost, doubled or overtaken. For the
  dispatcher this holds across stop, join and restart: what was left in the
  queue is taken first by the next thread. A dispatcher takes one function per
  run, so a burst whose wakeups merged is emptied at the rate of the interval.
  The loop's callback, in contrast, empties the queue and needs no timer.
- *Observers.* The copy made by `next()` is what keeps a subscribed observer from
  being skipped. Ending one subscription twice may cost the *same* observer
  another of its subscriptions, and never another observer.
- *Processes.* With merged signals every ended child is found, since each object
  polls for its own. `onClose` is raised at most once, and while the loop runs for every child
  that ended after `spawn()` returned, was not reaped by an explicit `status()`, and ended
  while the application watched SIGCHLD: not before `init()`, nor with a signal that `stop()`
  or `close()` dropped. Those are found only if a SIGCHLD of another child comes later.
- *Application.* `close()` ends with every handle closed, also when timers are
  stopped or closed by the user in between or an `init()` was abandoned half-way.
- *Sockets.* No error path of create, accept and pair leaks a descriptor, and a
  number that was closed is never used again through an old member.
- *Connections.* The single `lws_cancel_service` after the last push is enough,
  also when the service thread polls between two pushes. An HTTP peer reads
  exactly the first answer, whole, before the connection is closed, whatever the
  other matching handlers answered. The request is asked for once, except that of a `POST` with
  `Content-Length: 0`, whose completion ends the program.
- *Server.* `stop()` destroys the context although the service thread may be inside
  `lws_service` with it, or may be about to enter it with the null pointer. `ServesLive`
  says that this is the only way: no sequence of `init`, `join` and restart takes a context
  from the thread otherwise.
- *MQTT.* The loop is started once whichever `connect()` failed before or after it, and a
  `connect()` is answered as long as the user has never called `disconnect()`. Every
  message handled after `subscribe()` returned reaches each matching callback once, over
  reconnects and shared patterns. A SUBACK that overtakes its `subscribe()` is reported with
  an empty pattern, and that is the only way to get one.
- *SQLite.* The handle is the object's own and open. What is left behind is what `open()`
  over an open handle, a failed `create()` or the destructor leaves, and a `close()` after an
  `insert()` is refused. What is left open is exactly that. A table reads back in steps of `nrOfColumns` when all rows have the
  same columns, and only then. A query that gives a NULL gives no table.
- *Images.* Under every interleaving of copies with the dispatcher a buffer is deleted
  once; one whose image was assigned to itself may never be. Rectangles of rectangles stay inside.
- *Pipes and files.* The parent closes its write end in every path of `spawn()` in which a
  child exists, so that the reader gets to the end. The descriptors that are open are those
  the objects refer to and those over which an object was opened again, which nobody closes.
  Only a failed `::close` lets a file object reach a descriptor that is somebody else's, and it
  may close that: then its owner is concerned too.
- *Results.* The receiving calls store the bytes in order and once. Where a blocking call
  returns 0 with room in its buffer, the stream is at its end; of datagrams it may have been
  an empty one. An error of the socket is told once. The posix `setPriority()` says whether the
  thread is scheduled as asked. Nothing holds, and nothing is stated, of what `sendTo()` returns
  and of the Windows build.

## Bounds

Every bound is a constant named `Max...` or a finite set of a `.cfg` file.

| Run | Instance | Why it is enough |
|---|---|---|
| `wakeups`, worker | 2 callers (owner, other), intervals {1,2}, elapsed {0,2}, `MaxInits` 2 | every pair of calls overlaps; one restart; work that takes longer and shorter than the interval |
| `dispatcher_thread` | interval {1}, elapsed {0,1}, tasks {job, empty}, `MaxDispatches` 3, `MaxInits` 2 | a queue of more functions than wakeups, an empty function between others, a restart with a filled queue |
| `uv_application`, handles | 2 timers, 4 signal handlers, 1 async handle | one timer closed by its owner and one by the walk; repeated init |
| `uv_application`, functions | 2 posters, 2 tasks, `MaxPosts` 4 | two posts merged, two more during the callback |
| `uv_application`, processes | 2 processes, 2 pids, `MaxSpawns` 1, `PidReuse` FALSE | two ends in one signal, either order; a child that ends in each state of the application |
| `subject` | 2 users, 2 observers and an empty function, `MaxSubscriptions` 3, `MaxDepth` 2; symmetric in users and observers, no liveness checked | one observer subscribed twice beside another one, `next()` inside `next()` in two threads |
| `posix_socket` | 2 sockets, 4 descriptors, `MaxWakeups` 2 | 4 descriptors are two whole sockets: numbers are reused and run out |
| `wakeups`, connection | 1 sender and the service thread, `MaxPackets` 2, `MaxSends` 1, `MaxReceived` 2 | chopped messages in both directions, a handler sending while a thread sends |
| `protocols`, HTTP | urls `a`, `a/:`, `a/c`, `*`; requests `a`, `a/b`, `d`; handlers for Get and Post, requests also with Connect; answers with the default status or Created; `MaxHandlers` 3, `MaxBody` 2, `MaxPackets` 2, `MaxAnswers` 2; with a `Content-Length` header or none | a request with no, one or several handlers, a `POST` with and without a body, inclusive and wildcard matches, two chopped answers |
| `protocols`, MQTT | 2 patterns (one matches both topics), 2 topics, `MaxMids` 3, `MaxLoops` 2, `MaxMessages` 1 | overlapping patterns, one pattern twice, a second loop if the code started one, a message to each subscription before or after a reconnect |
| `resources`, server | the owner, `MaxInits` 2, `MaxContexts` 3, `MaxHandlers` 2 | an `init()` over a context that is served, then a restart |
| `resources`, transfer | all types of sockets, blocking and not, `MaxBytes` 4, `MaxBuffer` 2, `MaxEmpty` 1, `MaxErrors` 1 | messages shorter than, equal to and longer than a buffer; an empty datagram, an empty buffer |
| `resources`, files | 2 files, 3 numbers | a number closed here and opened by the other object or by other code |
| `resources`, pipes | 2 objects, `MaxPipes` 2, `MaxChildren` 3 | a child forked before and after another one's pipe is open, and a failed fork |
| `resources`, SQLite | 2 paths, `MaxConnections` 3, `MaxStatements` 1, rows of width 0, 1 and 2, one with a NULL, `MaxRows` 3 | a refused `close()` followed by an `open()`; three rows of any widths |
| `resources`, images | 3 images of 2 by 2 pixels, 2 formats, 2 rectangles, `MaxBuffers` 2 | original, copy and the dispatcher's copy; rectangle of a rectangle; both bytes per pixel and channels differ |
| `resources`, look-up tables | 3 objects, `MaxTables` 3 | two share a table while the third has its own or none |
| `resources`, stopwatch | `Tick` 400, `MaxTime` 4800 | runs of less and more than a microsecond, repeated |
| `resources`, strings | alphabet `a`, `A`, space, `:`, `/`; `MaxText` 4, `MaxPattern` 2, `Unit` 2 | every overlap and every adjacency of a delimiter of length 2; `Unit` stands for 1024 so that all suffixes are reached, with sizes at each power of it and one below and above |
| `resources`, priorities | 2 threads, both builds | a thread that sets another one's |

## Fairness

Weak fairness is given to what runs once it was begun; callers' decisions, peers,
children and spurious wakeups have none.

- `WorkerThread`: a begun call continues and the thread runs. The interval is not
  relied on: wakeups and stops work without it. Work returns.
- `DispatcherThread`: in addition *strong* fairness of the timeout, since one run
  takes one function and merged wakeups leave the rest to the interval. Strong,
  because `wait_for` computes its deadline once, so that spurious wakeups, which
  disable the timeout for a moment, do not put it off.
- `UvInvokeAsync`: a thread inside `invokeAsync` reaches its send; the loop runs.
- `UvPosixProcess`: a pending signal is delivered, callbacks and `spawn()` return.
- `UvCoreApplication`: callbacks return and `close()` goes on; *strong* fairness of
  the end of an iteration, because an iteration of libuv makes only the
  callbacks due when it begins.
- `PosixSocket`: a `::poll` whose eventfd is readable returns; nothing relies on
  the timeout or on the socket.
- `WebSocketClient`: each sender goes on, and the service thread does, where it has
  something to do; not the timeout of `lws_service` and not the peer.
- `HttpConnection`: handlers return, and a requested writable callback is made.
- `MqttClient`: an assumption about the network, not about the code: a broker that is asked for
  long enough is reached by a thread of the library that asks, and then accepts, refuses, or the
  connection fails, at the latest by the time-out of `keepalive`. Where no broker can be reached the library tries for ever without a
  callback, and `ConnectAnswered` promises nothing. That the library connects again after a
  failure is not asked.

In `uv_application`, `wakeups` and `protocols` the fairness is that of the module in use. `resources` states none and
checks safety only.

## Proofs

All obligations are checked by TLAPS with its SMT, Zenon and LS4 backends. The assumptions
are the named `ASSUME`s of the modules: bounds are natural numbers, a value that stands for
"none" is no object or descriptor, the kinds of handles do not overlap, sets of objects that
are counted are finite. TLC evaluates each of them in the runs too. The bounds `Max...` are
arbitrary in the theorems, so that these speak of any number of steps, objects and
restarts. Each inductive invariant is the type invariant and the parts named below.

**WorkerThreadProofs.** `TypeCorrect`, `ThreadAssignedHolds`, `SingleWorkerHolds`,
`JoinTargetHolds`, `StopKeptHolds`, `WakeupUsedHolds`, and their combinations
`ThreadExactHolds` and `FlagsKeptHolds`, which the run checks. None of the invariants is
inductive alone: that nothing runs when `init()` finds `m_thread` null depends on who
holds the mutex, how far the holder is, and what `join()` resets. The inductive
invariant `IInv` is the type invariant and six parts: `MutexHeld` (a caller holds the
mutex across actions exactly between the creation and the assignment in `init()`),
`Creating` (before the thread is created, `m_thread` is null and nothing runs),
`Assigning` (before it is assigned, `m_thread` is null and nothing runs but the thread
just created), `Living` (with the mutex free, a thread that runs is the one `m_thread`
points to), `Launching` (a thread that was not created has done nothing) and `Joining`
(only the owner joins, a thread that exists, and it resets the pointer of an ended
one). `SingleWorker` follows from `Living`, with `Assigning` while the mutex is held;
`JoinTarget` from `Joining`; the two action properties from the invariant and one case
per action.

**DispatcherThreadProofs.** `QueueExactHolds`, `JoinedQuietHolds`,
`KeepsTaskQueueHolds`. Every dispatcher step is a worker step or leaves the worker
alone (`WorkerRefined`), so `IInv` carries over without being proved again;
`DispatcherInv` adds the types, `InsideWork` (a thread that is inside `repeatableWork()`
is where `exec()` runs its work, so that `SingleWorker` applies to the functions too)
and `QueueExact`. The refinement shows that the initial state maps to one of
`TaskQueue` and each action to `Submit`, `Take`, `Finish` or a stutter; "one at a
time" in the abstract specification is where the single worker is needed.

**UvApplicationProofs.** *Functions:* `NoStrandedHolds` and `AsyncKeepsTaskQueue`. The
inductive invariant is the types, `NoStranded` (a function in the queue has a send to come, a
pending send, or a callback that has not ended) and `PostedExact` (what was posted and
not taken is in the queue, in order), which the refinement needs.
*Handles:* `CloseCompleteHolds`. `close()` looks at the handles in stages, and user code runs
between them; `CloseStages` says what each stage has established and keeps (no signal handle
is left to close, then no handle at all, then the loop can be closed). It holds because
`AskedWait` (a wrapper that was closed waits for its own close callback) and `SignalsOwned` (the
walk closes no signal handle) say who closes what; `LoopGone` carries it over to the next
`init()`.
*Processes:* `OnCloseOnceHolds` and `StatusTruthfulHolds`, for any number of spawns of an
object, but only as long as the kernel gives out no process id twice (`PidReuse` FALSE, an
assumption of these theorems): without it both are false, for the reason the run
`uv_posix_process_pid_reuse` shows. `OneOwner` (no two objects watch one child), `ChildFate` (how
a child ended is known exactly when it has), `SpawningForked` and `StatusExact` (what each
status says of the child and of the reports made) are the parts.

**CallbackProofs.** *Observers:* `SubjectTypeCorrect`, `NotSkippedHolds`, `SubscriptionsExactHolds`. For each
frame of the stacks, what it still owes is ahead in its copy (`OwedAhead`): every change of the
list by anybody only takes from what is owed. `SubscriptionsExact` is inductive with its
types; the work is in the lemmas about how often an observer occurs in a sequence
(`CountConcat`, `CountErased`), on which the `std::find` and `erase` of `unsubscribe()` rest.
*Requests:* `HttpTypeCorrect`, `RequestHandledHolds`, `AnswerWholeHolds`, each from an invariant
of its own. `AnswerInv`: as long as the connection is open, what is written next is the rest of
the first answer (`FirstAhead`), and `AnswerStages` says when there are answers at all.
`HeldInv`: the request is there until the body is complete, and once it was moved out the
completion of a body is due for an empty `POST` only; it is what `RequestHandled` says of
`crashed`. `RequestInv`: the fragments that came and those to come are the body (`BodyExact`).
`RunsInv`: a url and a method have one entry, whose callbacks were registered for them
(`EntriesExact`), and those that were run and are to be run are those registered (`Runs`).
That the search finds exactly these (`FoundExact`) rests on `FlattenExact`, what the
concatenation of a list of sequences holds. `FlattenSeq` is defined by recursion; instead of an
induction theorem its proof takes a first index at which the claim would fail (`MinFirst`).

**PosixSocketProofs.** `SocketTypeCorrect`, `DescriptorsOwnedHolds`, `WakeupsExactHolds`, from one
invariant `SocketInv`. During the steps of construct, accept and pair a descriptor is held by a
local variable: `PairOpen` and `LostOpen` say that such a number is open, `MembersOpen` that
what a member names is, `Apart` that no number has two holders, and `AllHeld` that every number
the class opened has one. `CallsExact` ties the step of a call to the members, and
`CountersExact` the counter of an eventfd to the wakeups not reported.

**WebSocketClientProofs.** `WebSocketTypeCorrect`, `PacketsExactHolds`, `ReceivedWholeHolds`.
`PacketsExact` is inductive with the types: what was pushed is what was written and what is in
the list. `ReceivedWhole` needs `ReceiveInv`: the buffer is the part read of the message being
read (`BufferExact`), the fragments in the network follow on from it (`FragmentsFollow`), and what
was delivered is the messages before it (`DeliveredWhole`).

**MqttClientProofs.** `LoopOnceHolds`, `ConfirmedExactHolds`, `DeliveredExactHolds`, for any
matching relation. `LoopFollowed` ties `m_mosquittoLoopStarted` to the threads of the library: it
is true while a thread runs, and it outlives the thread, so that no second one is ever started;
`IdsFresh` says that an id is not in the map before `subscribe()` has put it there, `CallExact` how
far a `subscribe()` is, `RecordedExact` and `ToldExact` what the maps hold and what `onSubscribe` was told,
`ObserversExact` which callbacks a pattern has. A message handled while `subscribe()` is changing
the maps is excluded by `raced`, as in the property.

**ResourcesProofs.** The theorems are about `MCSpec`, the specification the run checks.
`StepOfEach` shows that a step of it is a step of each part or leaves that part alone, so that
each part has an invariant of its own:
`ServerInv` is the `IInv` of the worker with who destroyed which context (`ServesLiveHolds`);
`FileInv`, `SqliteInv`, the ownership in `PipeInv` and `ContextsCounted` of the server give
`ResourcesOwnedHolds`. For files `FilesExact` is inductive with its types: `left` and `stale` are
what an `open()` over an open file and a failed `::close` change (`AssignsLeaves`,
`ReleasesAll`). For pipes `ReplacedHeld` says that an end that was replaced is still the parent's
and no object's, for databases that `exec()` runs on a connection, for servers that the
contexts that live are those overwritten and the one of `d->context`;
`PipeInv` also says which ends each child has got from its fork (`EndsDistinct`, `EndsHeld`,
`SpawnExact`, `ChildrenExact`, `WritersExact`), from which `OutputEndsHolds` follows;
`TableInv` relates the rows collected so far to the flat table (`TableRowMajorHolds`);
`LutInv` and `ImageInv` relate the count of each buffer to the objects that own it
(`OwnersCountedHolds`) and a rectangle to its buffer (`PixelsExactHolds`, whose arithmetic is for
every size, stride and format). `TransferInv` needs the order of what the kernel holds
(`PiecesOrdered`), that a stream has no gaps (`StreamWhole`), and that a piece is empty only when an
empty datagram was written; with `PriorityInv`, which is about the posix build, it gives
`ResultsTruthfulHolds`. `StopwatchInv` gives `ElapsedExactHolds`.

`StringsExactHolds` is about recursive functions. `StringInv` only says that `text` and `pattern`
are sequences of characters; the claim itself is proved for any two such sequences
(`SplitHolds`, `TrimsHold`, `UrlsHold`, `SuffixHolds`). The library's induction theorems cannot be
used here, so each induction takes a first or a last place where the claim fails (`FirstOf`,
`LastOf`) and contradicts it at the place next to it. For `split()` this is done three times. That
the lists `SplitString()` chooses exist at all (`ListsExist`, `SplitBy`) is where the search has to
go on behind the delimiter it found, which needs a delimiter that is not empty: with an empty
one the loop of the code does not end. `JoinExists` and `JoinedMore` say what joining does to a
part put in front of a list. `SplitParts` then shows, from the last position back, that the list
from a position splits the rest that begins there: it joins to that rest, no part contains the
delimiter (`PartWithout`, from what `find()` returns, `FindExact`), and every character of a part
is one of the text. The last fact is what URL matching needs: a pattern without a colon
has no segment that is a variable (`NoVariable`).

Only model-checked: all liveness (fairness and ENABLED are out of the prover's reach).
TLC's instances also remain the only check that the guards let the interesting
steps happen.

## Disagreements between code and comments

Five runs state what a comment or assertion of the repository says and show a
behaviour of the code that does otherwise.

- `worker_thread_interval` (`RequestedInterval`): `init()` assigns `m_interval` before
  it checks for a thread, so that an `init()` refused with `AlreadyInitialized`
  changes the interval of the running thread (`worker-thread.cpp:41`, comment at
  117).
- `uv_posix_process_pid_reuse` (`EchildStatusSet`): `status()` waits for `m_pid` also
  after the child was reaped; when the kernel reuses the id, the child of
  another object is reaped by the wrong one (`uv-posix-process.cpp:155`, comment
  at 158). Needs `PidReuse` TRUE.
- `uv_core_application_timers` (`TimersReleased`): `close()` closes open timers without
  telling them, and their destructor asserts that they were told
  (`uv-event-loop.cpp:161`, assertion at `uv-timer.cpp:31`).
- `http_connection_empty_post` (`CompletionHasRequest`): a `POST` with `Content-Length: 0` is
  handled at once, and its connection stays open for the answer. libwebsockets then calls
  back for its body and for the completion of it, where the request was moved out already
  (`websocket-server-lws.cpp:118`, comment at 198).
- `mqtt_client_reconnect` (`ReconnectAnswered`): the library's thread ends after a
  `disconnect()`, and `m_mosquittoLoopStarted` stays true; a `connect()` that follows succeeds and
  is never answered (`mqtt-client.cpp:95`, comment at 96).

More behaviours are worth knowing and contradict no promise of the code:

- `spawn()` ends with `status()`, so a child that ends before is reaped there and never raises
  `onClose` (`uv-posix-process.cpp:114`). A child that ends before `init()` has started the
  handler of SIGCHLD, or whose signal `stop()` or `close()` drops, is not reported either, unless a
  later SIGCHLD of another child makes the handler look (`uv-core-application.cpp:120`, 150).
  `CloseReported` is stated for the others.
- `send()` locks for each packet, so that chopped messages of two threads interleave on the
  connection (`websocket-server-client-lws-impl.cpp:90`); `PacketsExact` is about packets.
- `sendTo()` returns the -1 of a failed `::sendto` as a number of bytes, before its error check
  (`posix-socket.cpp:501`); no property is stated of it.
- `exec()` does not survive a value that is NULL (`sqlite-database.cpp:117`).
- What stays open although nobody refers to it: a file, a pipe or a connection that was opened
  over, a connection whose `create()` failed or whose object was destroyed, a context that an
  `init()` wrote over. `ResourcesOwned` lists these, and excludes others.

## What is not modelled

- Contracts taken as given: the owner alone joins; a process object is not
  destroyed inside a SIGCHLD callback; a socket has one thread apart from
  `wakeup()`; no thread is inside `send()` when its connection is closed; HTTP
  handlers are registered before the server serves and answer before they return.
  Where breaking a contract would do harm, `hazards` names the line.
- Failing library calls that the code does not handle (`uv_*_init`, `::close` of sockets
  and pipes), and calls on which libuv aborts.
- The destruction of a `Subject` that has subscriptions: these keep a pointer to it.
- The interleaving of a handler of the library with `subscribe()` in the same map of `MqttClient`:
  a data race, after which nothing is promised (`raced`); and message ids that wrap around.
- The use of a context by `lws_service` after `stop()` has destroyed it: `ServesLive` says that this
  can happen after a `stop()` only.
- Children forked by other threads while a pipe is open: one thread spawns. Reference counts after
  an assignment to itself: `OwnersCounted` excludes them, since they are miscounted. Tables whose
  rows have different columns, for which `TableRowMajor` says nothing.
- The other error categories (core, SQLite, MQTT), which translate codes to texts, and messages.
- A second `spawn()` on one process object in the runs: the model has it (`MaxSpawns`), and
  with 2 `CloseReported` fails, because a failing second `spawn()` sets the status of a child
  that runs to `Starting`. Nothing in the repository says what a second `spawn()` should do.
- Several WebSocket or HTTP connections at once: connections share only the registered
  handlers and the service thread.
- `PosixPipe::write` and `redirectToRead`, which nothing calls, and
  `DispatcherThread::getDefault()`, whose static members no source file defines.
- Data: payloads, header formatting, addresses, wording of logs, local time, pixel values.
- Formatting, printing and logging, which keep no state; the image code under
  `image/archived`, which is commented out as a whole; build files and examples.
- Vendored code: the headers of the Dart API are the largest files of the repository and
  hold declarations only.

## Plan

Order: threads first, because everything else runs on them; then the loop and its
handles; then descriptors and connections; then the wrappers. All modules of the
table above are done, and what is left to model is listed above with the reason.
Every safety property of the passing runs is a theorem; the liveness properties stay with TLC.
