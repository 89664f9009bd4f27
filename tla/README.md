# TLA+ models of codex-sdk-rs

Specifications of the Rust SDK for the codex app server (`crates/sdk`) and of `luna`, the program built on it
(`crates/luna`): TLA+ modules, TLC configurations and TLAPS proofs. Every definition is translated from the source; the
file `PROJECT.json` maps each one to the lines it stands for.

Contents: [the system](#the-system) · [modules](#modules) · [how the modules correspond to the code](#how-the-modules-correspond-to-the-code) ·
[runs](#runs) · [proofs](#proofs) · [disagreements](#where-code-and-documentation-disagree) ·
[behaviour worth knowing](#behaviour-worth-knowing) · [not modelled](#what-is-not-modelled) · [running the checks](#running-the-checks)

## The system

An application talks to the codex app server with JSON-RPC messages, over the pipes of a child process or over a
websocket. One `CodexClient` is shared by any number of tasks.

```
 luna (chat, exec, sessions, doctor, start)          ws_daemon: finds, starts and stops the app server
        │                                                   │
 Thread::run_streamed ── turn/start ──┐                     │  ┌─ outbound (256) ─ writer task ──> app server
 Codex / application ──── requests ──> CodexClient (Inner) ─┴──┤                                        │
        │                     handshake_state, pending map     └─ inbound loop <─ inbound (1024) ─ reader task
        │                                                            │
        └─ StreamedTurn <─ stream (256) ─ pump task <─ broadcast channel (1024), server-request handlers
```

| Component | Source | State | Operations | Hard behaviour | What makes it correct |
|---|---|---|---|---|---|
| Connection handshake | `sdk/src/client/mod.rs` | `handshake_state` (atomic), `handshake_lock` (async mutex) | `initialize`, `initialized`, `ensure_ready`, gated requests, raw requests | interleaved loads and stores, some without the mutex; failure and dropped futures inside the critical section | no second initialize while one is awaited or after one succeeded, no request before the handshake, a ready connection stays ready, the mutex is always released |
| Request path, inbound loop | `client/mod.rs`, `client/server_requests.rs`, `error.rs` | `next_id`, `pending`, a oneshot channel per call, the loop | requests with a timeout, responses, handlers, failing everything pending | a late, repeated or missing answer; a timeout racing it; handlers run on the loop itself | an answer reaches the call it is for, once; a call that was queued ends; nothing stays in the map |
| Transport loops | `transport/mod.rs`, `stdio.rs`, `ws.rs` | two bounded channels, a writer and a reader task | write, forward, report an error, end of file | full channels, one task ending before the other | a lost transport reaches the inbound loop |
| Turn streams | `api.rs` (`run_streamed`, `pump_turn_events`, `StreamedTurn`, `run`) | broadcast channel with a cursor per subscription, `latest_usage`, bounded streams | subscribe, start a turn, filter, forward, consume, drop | events ahead of the response, slow consumers, a receiver that lags, several turns | nothing missing, one end, nothing after it, the stream ends |
| Thread lifecycle, options | `api.rs` (`Thread`, `ResolvedOptions`) | `id`, `pending_resume`, `last_turn_id`, the options of thread and turn | start, resume by id or latest, run, steer, interrupt, rename, ... | sequences of calls of which some fail half-way or are given up | a failed call leaves the thread usable; steer names the current turn; a turn's options are its own |
| Daemon management | `transport/ws_daemon.rs`, `ws.rs` | startup locks, child process, process group, log | probe, start (daemon, blocking), reuse, wait, shutdown, drop | two starts racing, readiness racing a deadline, escalation, a shutdown that fails or is dropped and is called again | one server per target, only what was spawned is stopped, nothing left running after a shutdown that was not interrupted |
| Items and their rendering | `api.rs` (parsing), `events/render.rs` | `streamed_items` | parse an item, render one event | deltas, updates and snapshots interleaved | each item's text is shown once |
| luna chat | `luna/src/commands/chat.rs` | input buffer, history, suggestions, transcript, running turn | keys, paste, turn events, commands | input and turn events interleave | the cursor stays in the text; one interrupt per turn; an ended turn returns to idle |
| luna commands | `luna/src/cli.rs`, `config.rs`, `websocket.rs`, `connection.rs`, `commands/`, `session.rs`, `output/`, `error.rs` | one run of the program | parse, read the prompt, configure, connect, log in, run a turn, list, print | the connection is made beside the configuration; any step fails; events interleave on one terminal | the documented precedence, no turn without an account, output whole, exit code true |
| luna doctor | `luna/src/doctor.rs` | a report | bounded commands, checks | checks that depend on each other and on options | offline it connects to nothing; 0 means it found what it looked for |
| agx | `agx/src/main.rs` | none across calls | parse, run one turn, print | as luna exec | as luna exec |
| Protocol, events, macros, schema | `sdk/src/protocol/`, `events/mod.rs`, `schema.rs`, `codex-app-server-sdk-macros` | none | serde conversions, tables | none | round trips, tested in the repository |

How they interact: a command of luna resolves its configuration, connects (over daemon management) and uses a thread
object; the turn stream and every other request of the API first run `ensure_ready_with` (handshake), then a request
(request path); the request path reads and writes the channels of the transport; the inbound loop publishes what is not a
response on the broadcast channel, from which each turn stream, and `next_event`, read; what a stream yields is parsed
items, which the renderer turns into what chat and exec show. The handlers an application registers run inside the inbound loop.

## Modules

| Module | What it is |
|---|---|
| `Handshake` | the handshake of one client shared by `Callers`; every load and store of `handshake_state` is its own step |
| `Transport` | the channel pair and its two tasks, as operators other modules use on their own variables |
| `RpcCalls` | abstract specification: what a request promises |
| `RpcClient` | the request path, the inbound loop, handlers and the peer, over an instance of `Transport` |
| `TurnStream` | broadcast channel, `run_streamed`, the pump, the stream and its consumer |
| `ThreadOptions` | option merging, request parameters, input normalisation, the choice of the latest thread, as operators |
| `ThreadOps` | several `Thread` objects over one server, their calls refused, lost or given up |
| `WsTargets` | which URLs are managed, their listen target and lock key; where a token may go |
| `WsDaemon` | starts, shutdowns and drops of app servers in several processes, over `WsTargets` |
| `ThreadItems` | items as parsed, and the renderer with its `streamed_items` |
| `Composer` | the input line of luna chat: buffer, history, suggestions |
| `Chat` | the loop of luna chat, over `Composer` and `ThreadItems` |
| `LunaConfig` | command lines, environment, URL, thread configuration, exit codes, as operators over `WsTargets` |
| `Luna` | one run of luna, over `LunaConfig` and `ThreadItems` |
| `MCHandshake`, `MCRpcClient`, `MCTurnStream`, `MCThreadOps`, `MCWsDaemon`, `MCChat`, `MCLuna` | instances for TLC |
| `Handshake_proofs`, `RpcClient_proofs`, `TurnStream_proofs`, `ThreadOps_proofs`, `WsDaemon_proofs`, `Chat_proofs`, `Luna_proofs` | theorems |
| `NumberFacts` | what their proofs need about numbers: the least and the greatest of a set, induction over the naturals, recursive functions |

A definition whose comment starts with "Variant:" is a plausible mistake in a definition of the same module; no
specification uses it. Substituting one breaks the property it is listed with in `PROJECT.json`.

## How the modules correspond to the code

**Handshake.** `at[c]` is the statement at which task `c` is, `op[c]` the operation. `FastPath`, `Acquire`,
`CheckInitialized`, `MarkInitializing`, `InitializeOk`/`InitializeErr`, `Notify`, `MarkReady` are the steps of
`ensure_ready_with` (lines 396-437); `Gate`, `Send`, `Answer`, `Fail` those of the request underneath, which
`ensure_ready`, `initialize` and the raw request share; `CheckNotification` the test of `initialized()`. `Cancel` drops
a future at one of its await points, which releases the mutex and changes nothing else. `InitializeOk` distinguishes
the plain `store` of `ensure_ready`, the `fetch_max` of `initialize()` and the raw request, which leaves the state alone.
Each initialize that was queued has a record in `inits`: whether the server accepted or refused it, and which task still waits
for it. `ServerAccepts` is the server's step, `Answer` the client's receipt, so that an initialize whose task timed out
(`Fail`) or was dropped (`Cancel`) stays on the wire and may be accepted all the same (`Leave`).
A notification other than `initialized` passes the same gate as a request and stands for one. A step under the mutex that
only computes is not a step of its own.

**Transport.** `QueueOutbound`, `PushInbound` are `send(..).await` on the two bounded channels, enabled when there is
room. A writer that fails is `reporting` until it has pushed its error and only then drops its receiver; the reader
ends by a close (reported), by end of file (silent: the websocket stream yields `None`) or because nobody listens. The
message a task holds between two channels would be one more slot of the channel, so taking and passing it is one step.

**RpcClient.** A call goes `insert` (id taken), `send` (entry registered), `wait` (queued, timeout started), `cleanup`
(failed, entry not removed yet), `done`. `Deliver`, `ReceiveServerRequest` and `TakePending`/`FailTaken` are the arms of
`run_inbound_loop`; the lock of the map is held by single steps, but taking the map and failing what was taken are two.
`HandlerCall`, `HandlerReturns`, `HandlerReplies` are a handler that may make one request on its own client and await it (`nested`); any call may be such a request. Frames that
fail to classify and `Err` frames take the same path and are one `ErrFrame`. Responses carry the call the server
answered, a history value the client never reads. Notifications do not touch this state: they are `TurnStream`'s.
Dropping the clients ends nothing, because the inbound loop itself holds the outbound sender; so there is no such action.

**RpcCalls.** A call is made once, reaches the server at most once, and ends at most once, by an answer the server gave to
that very call or without one. `RpcClient!KeepsPromise` maps `status` to where the call is and how it ended, and `served`
to the requests the peer received; an answer of another call maps to a status `RpcCalls` does not have.

**TurnStream.** `events` is all that was broadcast; a subscription is a cursor into it; the `EventCap` last events can
still be read, and a cursor that fell behind is moved up (`PumpLags`). `Published` gives the events of an instance, with
thread and turn ids that may be absent as in `matches_target_from_extra`. A forwarded event is held in `hand` while the
pump waits for room in the stream. `run()` is a consumer that stops at the first item `RunResult` gives a result for and
drops the stream; `DropStream` is the abort in `StreamedTurn::drop`. `lagged`, `received` and `since` are history.

**ThreadOptions, ThreadOps.** A set of options is a function on the fields that are set, under their names on the wire, so
that typed parameters, extras and the flattened `extra` of a turn overlay one another as serde writes them. An object's
call moves from `initializing` (`ensure_initialized`) through `listing`, `resuming`/`resumed` or `starting`/`started`
(`ensure_thread_started_or_resumed`) to `calling` and `accepted`. The server's acceptance and the client's handling of it
are two steps, so that a call can time out or be dropped between them (`GiveUp`), which is where a thread is lost.
`set_name`, `read`, `archive`, `unarchive`, `rollback` and `compact_start` differ in the method only and are one kind of
call, `simple`. The server is external: it numbers threads and turns and keeps, for each thread, the settings it was last given.

**WsTargets, WsDaemon.** A URL is a record of what its parser finds. A call of `start_ws_server` or
`ensure_local_ws_app_server` goes `probing`, `locking`, `reprobing`, `spawning`, (`spawned`,) `waiting`/`readying`, and
ends with a handle that is `held`, then `stopping`, `closing`, `closed`, `unreleased`, `interrupted` or `dropped`. `shutdown()` takes the
child out of the handle before anything else (`emptied`); one that is dropped at an await or cannot wait for the child is `interrupted`,
and `shutdown()` called again on any handle without a child returns Ok (`ShutdownShared`; after an interrupted one, `presumed`).
The two URLs of `start_ws_server` are two fields of a call; a call that names another `connect_url` than it listens on starts a server of
the `listen_url` and is taken to reach it there: one target has one port. The startup lock is one per process
and key, and the guard goes with the call. A daemon is spawned by a blocking task (`job`) that survives the dropped call;
an owned server is a child that leads a group, `serving` the process of the group that listens. Servers boot, find the port
taken, end and are signalled; SDK processes are killed (`ProcessDies`). A probe may be too slow, which reads as nothing there.

**ThreadItems, Composer, Chat.** A text is a sequence of pieces (items) or characters (the input line); byte offsets of the
code move by whole characters. Each idle key is an operator of `Composer` with all it calls (`after_input_edit`, the clamp of
the selection). `Chat` composes it with commands and with `run_prompt`: `Deliver` and `Skip` are an event that reaches the
loop or is lost to a lagging pump, `TurnEnds` its three terminal events, `StreamCloses` a stream that ends without one, `Interrupt` the Ctrl-C that awaits `turn/interrupt`.

**LunaConfig, Luna.** A command line is its words and the options given with raw values that say what they are (text, blank,
malformed, an object, a URL, ...); a line with `--help` runs no command. `Luna` runs one command: `Parse`, `ReadPrompt`, `ResolveTransport`, then for exec and chat
`Prepare` beside the steps of the connect task (`Connect`), `Join`, the account, the turn with its three output forms; or the
pages of sessions; or the checks of the doctor. `Pending` says what the command asks next; each request is answered, refused or lost.

## Runs

| Run | Checks | Shows |
|---|---|---|
| `handshake_managed` | `OkMeansReady`, `SingleInitialize`, `MonotoneState` | three tasks that use `ensure_ready`, requests and `initialized`, two operations each: another initialize is sent only when every earlier one was given up, though the server may accept that one late (1,365,485 states) |
| `handshake_mixed` | `RequestsFollowHandshake`, `EnsureReadyReturns` | two tasks and all operations, raw ones included: no request precedes the handshake, every `ensure_ready` returns, so the mutex is released on every path (384,585 states) |
| `rpc_client` | `WaitingIsReachable`, `NoStaleEntry`, `NoSilentEnd`, `HandlerCallsUnanswered`, `KeepsPromise`, `QueuedRequestsEnd`, `FailureIsAnnounced` | two requests, of the application or of a handler, over channels of one slot: late, repeated and missing answers, timeouts, dropped futures and lost transports; the refinement of `RpcCalls`; a request that was queued ends though the peer may stop reading; one that a handler awaits is never answered; the end of the transport is never missed (210,129 states) |
| `rpc_stalled_peer` | `EveryRequestEnds` | *violated* when the peer stops reading and a request waits for room in the full outbound channel |
| `rpc_full_channels` | `WriterStops` | *violated* when a handler replies while both channels are full and the writer fails |
| `turn_stream` | `NoSilentStream`, `NothingMissing`, `WellFormedStream`, `RunOkIsComplete`, `UsageIsLatest`, `PromptTerminalArrives`, `LossEndsStreams` | a turn of `run()` or `run_streamed()` and one of another client; events with and without ids, a slow consumer, a pump that may lag: streams are ordered, whole while the pump keeps up, and never end in silence (193,923 states) |
| `turn_lag` | `TerminalArrives` | *violated* when the pump falls behind |
| `thread_ops` | `LoadedFirst`, `OneThreadEach`, `SteersOwnTurn`, `AnnouncedOnce`, `LatestIsLatest`, `OverridesLastOneTurn` | two objects, new, by id or latest, over two recorded threads; any request refused, lost or given up |
| `ws_daemon` | `NoDuplicate`, `OnlyOwnedStopped`, `OrphansHaveACause`, `ShutdownStops`, `EveryCallReturns` | two calls, in one process or in two, with spawns that fail, servers that die, callers that give up, shutdowns that escalate, fail, are dropped and are called again (577,844 states) |
| `chat` | `CursorsFit`, `TextShownOnce`, `OneInterrupt`, `DraftSurvives`, `AnswersShown`, `TurnReturns` | sessions in each output form: keys, commands, and turns whose deltas and snapshots interleave, are skipped, interrupted or refused; streams that close (315,605 states) |
| `luna` | `ActsAsTold`, `AuthenticatedFirst`, `OutputIsWhole`, `ZeroMeansDone` | 48 command lines, right and wrong, on ten machines: exit code, output, what is started, sent and authenticated |
| `luna_transport_exit` | `LostStreamIsTransport` | *violated* by `exec --final-response` |

**Bounds.** `MaxCalls`, `MaxId`, `MaxEvents`, `MaxTurns`, `MaxKeys`, `MaxHistory` and `MaxRefusals` bound counters that grow
without limit in the code. They are large enough for an operation to follow a failed, a dropped and a successful one of
another task (three tasks with two operations, two with two; four calls of two thread objects), for an id to be answered
after another was taken, and for a channel to be full, then overrun. Channels have one or two slots instead of 256 and 1024:
with a single slot each wait for room happens after one message. `MaxPages` is 2 for thread objects and 3 for luna (100 in
the code): the list may end before, on and after the last page allowed. `Polls = 1` and `Attempts = 2` with `ResendAt = 1`
stand for the time and the attempts in `ws_daemon.rs`: a readiness probe before and at the deadline, an attempt before and
one after the second SIGTERM. A chat session presses at most five keys, enough to open, walk and leave a completion, and to
submit, browse back, edit and return to a draft; its items have at most two pieces, so that two of them can interleave.
`TaskSymmetry` is used for safety and action properties only. The runs turn deadlock checking off: with its bounded
operations done, its transport lost or its program ended, the system rightly stops.

**Fairness.** Weak fairness of the steps of a task: the tokio runtime polls every woken task, and a timer fires.
Strong fairness of `Acquire`, `Send`, `HandlerReplies` and the reports: tokio's `Mutex` and bounded `mpsc` queue their
waiters in order of arrival, so whoever waits is served when the resource becomes free again and again. `Answer`
(the client's receipt) and the server's steps are never fair; `Fail` is, because a queued request has its own timeout. Nothing is
assumed of the peer in `RpcClient`: it may stop reading, which is why `EveryRequestEnds` fails and `QueuedRequestsEnd` excepts a call that waits
for room for ever. `HandlerReturns` is fair as part of `LoopStep`, that is, handlers are assumed to return; `FailureIsAnnounced`
excepts a loop that waits for ever to queue a handler's request or reply. In `TurnStream` the consumer drains its stream (`Consume`), which the
code does not promise for an application that stops without dropping the stream; such a consumer waits for nothing.
`Publish`, `CloseTransport` and the response to `turn/start` are never fair. In `WsDaemon` only the steps of calls are fair,
never those of servers. In `Chat`, `TurnReturns` is about luna's loop and assumes that the server ends every turn and that
requests return (their timeout); without it the loop rightly waits. `ThreadOps` states safety only.

## Proofs

For any number of tasks, calls, objects, processes, ids and any capacities and bounds, from the `ASSUME`s of the modules only:

`Handshake_proofs`

- `TypeCorrect`, `LockInvariant` (`LockHeldInSection`): the mutex invariant is inductive with the types alone. Each action
  either leaves the section, releasing, or stays in it.
- `HandshakeFirst` (`RequestsFollowHandshake`): the state alone does not tell what is in `wire`. The invariant adds
  that a state of `INITIALIZED` or more, and every task past an accepted request, has an `initialize` in `wire`, and
  that `READY`, and a task about to store it, has a complete handshake.
- `ManagedMonotone`, `ManagedReadyStays`, `ManagedOkMeansReady`, `ManagedSingleInitialize`: under the assumption `ManagedOnly`
  that no task calls `initialize()` or sends a raw initialize, which is how `api.rs` uses the client. The invariant `ManagedInv` relates
  the state to the point of the one task in the critical section; without the assumption the properties are false. For
  `SingleInitialize`, `InitsInv` relates `inits` to that task too: only the initialize queued last is waited for, by a task that
  awaits it, or was received, and then the state is `INITIALIZED` or more, or is about to be.

`RpcClient_proofs`

- `TypeCorrect`.
- `WaitingReachable`, `ReturnedCallsLeaveNothing`: from `MapInvariant`: ids are below `next_id` and distinct (`Numbered`),
  an entry belongs to the call that took its id (`Registered`), what was taken is not registered any more (`TakenOnce`), and a call that waits is in one of
  the two or has its value (`Reachable`).
- `Refinement` (`KeepsPromise`): from `AnswerInvariant`: every response in flight and every request the peer served has
  the id its call took (`Correlated`), so what is in a oneshot is the answer to its own call (`OwnAnswers`); then each
  step of `RpcClient` is a step of `RpcCalls` or a stutter.
- `HandlerCallsTimeOut` (`HandlerCallsUnanswered`): while a call of a handler is open the loop is in the handler, hence not in `Deliver` or `FailTaken`.
- `NeverSilent` (`NoSilentEnd`): a loop that receives has a task that still runs, or an error frame ahead of it
  (`ErrorAhead`): the writer never stops without one.

`TurnStream_proofs`

- `TypeCorrect`, with what the channels hold at each point of pump and consumer (`Typed`).
- `LossIsHeard` (`NoSilentStream`): a stream that ended has yielded last the end of its turn or the announced loss of the
  transport. The invariant `Heard` says that a pump that still receives has the loss ahead of its cursor, or has it in hand;
  `Closed`, that once a pump ended on its own what was queued for the consumer ends with an item of a kind that ends a stream, and
  that draining it leaves that item the last received; `Traced` (below), that the item is one of the events broadcast.
- `StreamsAreWellFormed` (`WellFormedStream`): what was sent is in the order of its events, all below the pump's cursor,
  and while the pump runs nothing queued ends the turn (`Ordered`); lemmas on how each step changes what was sent carry it.
- `NothingIsMissing` (`NothingMissing`): a live pump that never lagged has sent each event about its turn that it passed,
  and no event about a turn comes before its subscription (`Complete`).
- `UsageIsTheLatest` (`UsageIsLatest`): from `Traced`: each item sent is one of the events passed, and while the pump has not
  lagged `latest` is the last token update of its turn below the cursor, so the end it sends carries that one.
- `RunIsComplete` (`RunOkIsComplete`): once `run()` returned `Ok` its stream is dropped, and what it took ends with the completion of
  the turn and holds all the events about the turn up to that (`Oks`), from the order and the completeness of what was sent.

`ThreadOps_proofs`: one invariant, `Inv`, of a part about the server (`Globals`), one about who started what (`Origins`) and one
per object (`Fits`). An object without anything left to resume has a thread loaded for it or is a new one without a thread
(`Attached`); only one without a thread starts one, and then has it or gave up on it (`StartsOnce`); it announces what it
started and then has an id (`Proclaims`); the turn it remembers is the last answered, and one of its thread (`Steers`).
`OthersKeep` shows once that what one object does leaves the parts of the others, so each action is about one object.

- `TypeCorrect`, `RequestsNameLoadedThreads` (`LoadedFirst`), `ObjectsStartOneThread` (`OneThreadEach`),
  `SteersFindTheirTurn` (`SteersOwnTurn`), `ThreadsAnnouncedOnce` (`AnnouncedOnce`).
- `TheLatestIsResumed` (`LatestIsLatest`): by induction over the listed threads, `SelectLatest` gives one of the working directory
  with no newer one, or nothing if there is none (`SelectLatestIs`); a page more adds its summaries to what was compared
  (`Lists`). `PagesAssumption` only says that a page is a sequence of summaries with two times.
- `TurnsRunWithTheirOptions` (`OverridesLastOneTurn`): what merge and overlay make of each field (`MergeIs`, `TurnParamsAre`); an
  accepted turn then runs with its extra parameters, its own options or its object's, whatever other objects or earlier
  turns left in the settings the server keeps.

`WsDaemon_proofs`

- `TypeCorrect`, with what has been spawned at each point (`Typed`).
- `StartsAreSerialized` (`OneStarter`): a start in the startup section holds its lock (`LocksHeld`), in one process, whatever
  spelling of the host its URL has.
- `ReadyIsAnswered` (`ReadyMeansAnswered`): an action property of each step alone.
- `OthersSurvive` (`OnlyOwnedStopped`), `ShutdownIsDone` (`ShutdownStops`): from `Handles` and `Stopped`: an owned handle is of a
  Blocking call whose server was spawned, a leader that ended has no server still booting, and the shutdown that took the child is over
  only when the child was reaped. `ShutdownStops` excepts a probe that was too slow (the port then only seems released) and a shutdown that was
  interrupted: of that it says that the group was signalled, and of a later call, which returns Ok at once, no more.
- `OrphansAreNoted` (`OrphansHaveACause`): every server that a Blocking start spawned is one its start still waits for, its
  handle's, told to stop, or given up together with its start (`Accounted`).
- `OneServerEach` (`NoDuplicate`), under `OneTarget` (the calls name one listen target: starts for different ports never meet):
  `Single` says that without a fault a server that still boots has its start in the startup section, and that from the second
  probe to the spawn the process of that start runs none. The faults it excepts are a probe that was too slow,
  an abandoned start, another process's server taken for one's own.

`Chat_proofs`

- `BusyWhileTurn` (`BusyIsTurn`), `InterruptedOnce` (`OneInterrupt`): the flags follow the point of the loop; an interrupt is
  awaited only while none was accepted (`Loop`). `DraftIsKept` (`DraftSurvives`): from `Drafted`: while an entry of
  the history is shown, the saved draft is what was composed last, and while none is, the line is (`composed` is a history variable).
- `CursorsAlwaysFit` (`CursorsFit`): for any alphabet, commands and skills. `Line` adds that an entry of the history is
  shown only while suggestions are dismissed, which is why accepting one cannot leave the line in a browsed entry; the
  lemmas below it say what trimming, cutting, the completions and the argument of a command leave of a text.
- `AnswersAreShown` (`AnswersShown`), under `DistinctMessages` (no two messages of a session have the same text, which the
  property tells them apart by; `MCChat` assumes it of its sample): `Answers` keeps account of each message of the turn:
  a final answer that was received is shown at once, the last other one is kept, and whatever is shown was one of them.
- `TextIsShownOnce` (`TextShownOnce`), under `DistinctItems` (the items of a session have ids of their own and no two of
  their pieces are the same, which the property tells them apart by; `MCChat` assumes it of its sample), for any items and
  any interleaving of their pieces. In human output (`Human`) each block is one item's and holds pieces that were received
  of it, no item has two blocks, and while the turn runs a block whose snapshot is to come is remembered by the renderer:
  this is why the snapshot adds nothing (`HumanSnapshot`) and the next delta finds its block (`HumanDelta`). That nothing
  is remembered before it was sent (`Remembered`) is why a first snapshot is shown. In the other outputs (`Plain`) each
  text is a message's, in the running turn a final answer that was received, so a message that comes, or is kept for
  the turn's end, is a new one.

`Luna_proofs`: for any command lines, environments and streams that fit `LinesAssumption` (an option given has a value, and
the object of `--config-json` has one value for a key), `EnvironmentsAssumption` (finite lists of pages of threads, whose
ids and recencies are numbers) and `StreamsAssumption` (finite lists of events, whose items have a rendered type and a text). The invariant `IInv` has one part per thing a run accumulates: the place of the command (`Course`), what is
known of the input there (`Judged`), the requests (`Requests`), the server (`Servers`), the events received (`Received`), the
pages read (`Pages`) and the report (`Found`); each part has a lemma for all steps.

- `TypeCorrect` (`TypeOK`), `TurnsHaveAnAccount` (`AuthenticatedFirst`), `ActsAsItIsTold` (`ActsAsTold`),
  `ZeroIsDone` (`ZeroMeansDone`). That a configuration, once built, has every entry of every source and no
  other with its key (`ConfigIsWhole`) is an induction over the entries.
- `BlocksStayApart` (`BlocksSeparated`), for every stream. `Blocks` says that the output is in the item its last piece is of
  (`InItem`) and that neighbouring texts of two items are set apart (`Spaced`), so that a fragment finds the right number of line ends
  before it.
- `SessionsAreAllOrNone` (`SessionsAllOrNothing`), under `DistinctThreads` (a thread is the same wherever it is listed, since the
  property finds a printed thread by its id): `Listing` says that the entries and what is still to be previewed are the threads that match
  on the pages read so far, and that nothing is printed before the list is whole. That the order of the sort exists, for any list, is
  `OrderExists`, an insertion by induction; `SortedIs` says what follows for the printed list.
- `OutputStaysWhole` (`OutputIsWhole`, these two and `PrintedWhole`), under `WholeItems` too (an item's deltas are the text of its snapshot,
  which comes once and last; `MCLuna` assumes both hypotheses of its sample). `Whole` keeps account of each item of the turn: until
  its snapshot came, the text printed of it is what its deltas told, and the renderer remembers it exactly when they told
  something (`AsTold`); afterwards it is the snapshot's (`WholeAt`). A stream whose deltas are not its snapshot's text
  (a pump that lagged) is outside this theorem: there the snapshot is suppressed and part of the text is missing.

The operators that walk over a list (`SelectLatest`, `Completions`, `BuildThreadConfig`, `Kept`) are recursive functions
on numbers; `NumberFacts` gives the two facts such proofs need, that a set with 0 and every successor has every number
(`EveryNumber`) and that a recursion on numbers has the function it describes (`Repeated`), from the library's
well-founded order of finite sets. What `FlattenSeq` does with one more sequence at the end (`FlattenAppend`) is shown the same way.

Only model-checked: the liveness properties (`EnsureReadyReturns`, `QueuedRequestsEnd`, `FailureIsAnnounced`, `PromptTerminalArrives`,
`LossEndsStreams`, `EveryCallReturns`, `TurnReturns`), because fairness and `ENABLED` are out of the prover's reach. Every invariant
and every other action property of a passing run is stated by a theorem.

## Where code and documentation disagree

1. `rpc_full_channels`: a failed writer reports over a full inbound channel to a loop that waits for room in the
   outbound channel the writer still owns (`transport/mod.rs:33`, :50). The pending requests then end by their timers only,
   and no `TransportClosed` is broadcast.
2. `turn_lag`: a pump that lags may skip the end of its turn; the stream then never ends while the connection lives
   (`api.rs:509`), and `run()` with it.
3. `luna_transport_exit`: with `--final-response` a connection lost during the turn exits with 8 (turn) instead of the documented
   6 (`luna/README.md:146`), because `thread.ask` wraps the client's error.
4. `rpc_stalled_peer`: "Every request has a timeout" (`README.md:223` of the repository), but the timer starts once the request is queued
   (`client/mod.rs:567`, :573): with a server that stopped reading, a request that waits for room in the full outbound channel never ends.

## Behaviour worth knowing

Read off the models; none of it is a claim of the documentation that the runs refute, or it needs a use the high-level API never makes.

- `ensure_ready_with` stores `INITIALIZING`, `INITIALIZED` or `NEW` without another look at the state. Mixed with explicit
  `initialize()`/`initialized()` calls it takes the state back (`client/mod.rs:39` calls it monotone), and `initialized()` can be
  refused with `NotInitialized` after `initialize()` returned `Ok` (`client/mod.rs:369`). `MonotoneState` is therefore checked, and proved, for
  the operations `api.rs` uses.
- "exactly one caller performs each handshake step" (`client/mod.rs:386`) is as far as the client can know: an initialize that timed out or whose
  future was dropped stays on the wire and may have been accepted; the state goes back to `NEW`, or stays `INITIALIZING`, and the next
  `ensure_ready` sends another. `SingleInitialize` therefore says that nobody waits for the earlier one and nobody was told of its acceptance.
- `shutdown()` of a server handle takes the child first (`ws_daemon.rs:192-195`). If it is then dropped, or fails in `try_wait` or `wait`,
  a second `shutdown()` finds no child and returns Ok, with the server possibly still running and its child not reaped, although
  it is documented to wait "until the server no longer answers" (`ws_daemon.rs:185-186`).
- A call that times out or is dropped after the server accepted its `thread/start` forgets the thread, and the next call starts
  another (`OneThreadEach` excepts exactly that).
- Starts in two processes may both spawn; the later server finds the port taken and exits. A start that finds another process's
  server ready takes it for its own while the one it spawned still boots, which is how its process may come to have two. Without
  that, a slow probe or an abandoned start, the lock keeps a process to one server (`NoDuplicate`).
- A pump that lags loses deltas, but the completed snapshot of an item of which any delta arrived is still suppressed, so part of its text is not shown.
- A paste into a browsed history entry does not leave the history: moving on loses it.
- The timeout of the doctor's bounded command covers the wait for the command only. When the command ends in time, its output is read
  without one (`doctor.rs:563-568`), until every process that inherited its pipes has closed them.
- `luna doctor --live` reads the account and never logs in; `exec` does.
- A turn's options override the thread's for that turn (the repository's `README.md:86-88`); since the server keeps what it was last given,
  the SDK sends a thread's own value again only if the thread has one. `OverridesLastOneTurn` is about fields the object sets; the
  `extra` parameters of a turn win over both.
- With `--json`, `exec` would exit with 0 if a stream ended with neither a terminal event nor an error (`json.rs:31`; the human output
  exits with 8 then, `output/mod.rs:52-56`). `Luna` has no such step, because `NoSilentStream` shows that no stream ends so.
- Two values of one configuration key are a conflict only under the same spelling: a nested object of `--config-json` and a dotted key
  of `--config` for a place inside it are two keys for `luna`, and for `LunaConfig`.
- A standard output that cannot be written ends `exec` with 1, also after its turn completed or failed.

## What is not modelled

- Bytes, JSON and serde: a message is a record with what the client looks at. Protocol tables, macros, builders and schema
  derivation have no behaviour beyond conversion.
- `next_event`, `subscribe` of the application, `respond_*`: one queued message or a cursor that nothing else depends on.
- The lifetime of clients: dropping them changes nothing (above). A broadcast channel whose senders are all gone (`RecvError::Closed`) comes
  after the loop ended, which was already announced, and is left out.
- The app server and codex itself are external: numbering, settings kept, answers.
- The daemon's log rotation beyond its one truncation, the environment of the spawned process.
- Drawing, scrolling, colours and wording of luna chat and of human output; letter case and white space other than a blank in the
  input line; completions, the preview text of a session, redaction and version parsing in the doctor.
- A standard output that fails is modelled for `exec` only; of the other commands nearly all print with `println!`, which panics (`doctor --json` does not, doctor.rs:112-115).
- `agx`: its argument table and printing would repeat `LunaConfig` and `Luna` with other option names and fewer commands; it adds no
  state and no concurrency of its own.

## Running the checks

`tlc -config <run>.cfg <MC module>.tla` for each run of `PROJECT.json`; `tlapm <module>_proofs.tla` for the proofs.
The longest runs, `rpc_client` and `ws_daemon`, take under three minutes with two workers.
