# Verification of endpoint-libs

TLA+ modules for the WebSocket/RPC server, its client and the services around
them, checked with TLC on small instances, with proofs checked by TLAPS. Source
paths are relative to the repository; `ws/` stands for `src/libs/ws/`.

## The system and its parts

A `WebsocketServer` runs one thread ("shard") per core. Each shard accepts
connections on its own socket and polls the futures of all its connections in
one loop. A connection's future does handshake and upgrade, the `OnConnect`
hooks, registers the connection in a table shared by all shards, authenticates
it and then runs a `WsClientSession`: a loop over finished request tasks,
outbound frames, inbound frames and a policy-close flag. Request tasks
(before hooks, handler, after hooks, one timeout) are polled in place by that
loop; they speak the legacy protocol or MCP. Responses and pushes from any
thread reach a connection through `Toolbox::send`, which looks the connection
up in the table and puts a frame into its bounded outbound queue. Two managers,
`SubscriptionManager` and `SubscribeManager`, publish through it. The client is
the other end of such a connection; logging, scheduler and API model stand by
themselves.

| Part | State | Operations | What is hard | Modelled in |
|---|---|---|---|---|
| Outbound queue, `ws/outbound.rs` | queue, sender count, receiver alive, stored waker | `try_send`, `clone`, `drop`, `try_recv`, `recv` | wakeup after the unlock, changing wakers, end of stream | `Channel`, `Outbound` |
| `Shutdown`, `src/libs/signal.rs` | sticky flag, broadcast | `cancel`, `cancelled` | two objects, no permit, waits rebuilt by selects | `Shutdown` |
| Limits, `ws/server.rs` | shared atomic counters, warning latches | `acquire`, `LimitSlot::drop`, `observe_*` | check after increment, races of refused callers | `Limits` |
| Session, `ws/session.rs`, `ws/handler.rs` | loop position, request tasks, idle deadline | `run`, `run_loop`, `handle_message` | timeouts against answers, blocked sends, priority of the arms, dropped futures | `Session` |
| Request protocols, `ws/session.rs`, `ws/mcp.rs`, `ws/handler.rs` | handlers, tool table, roles | `handle_message`, `handle_mcp_frame`, `route`, replies | two protocols over one table, roles that change, ids and envelopes, timeouts | `Requests` |
| Toolbox, `ws/toolbox.rs` | task-local slot | `send`, `enqueue`, `close_for_policy`, `scope` | callers on other threads, full queue, nested scopes | `Session`, `Scope` |
| Accept loops and cleanup, `ws/server.rs`, `ws/conn.rs`, `src/libs/utils.rs` | shards, connection table, ids, connection slots | `listen_on`, `serve_shard`, `serve_connection`, `ConnectionCleanup` | concurrent insert and remove, futures dropped at any await, join, failing accept, ids that wrap | `Server` |
| Hooks, `ws/hooks.rs` | lists of hooks | `run_*` | where they run, that they run once | `Session`, `Server`, `Requests` (one step per run) |
| Client, `ws/client.rs` | sequence number, stream, TLS options | connect, `request`, `send_req`, `recv_resp`, raw forms | answers of dropped calls, certificate policy, frames that pass by | `Client` |
| Subscriptions, `ws/subs.rs` | subscriptions, key sets | subscribe, unsubscribe, publish | subscribers that disconnect, full queues | `Subs` |
| Push, `ws/push.rs` | topics in a concurrent map | subscribe, `*_multi`, publish | one lock per topic, disconnects during a publish | `Push` |
| Framed transport, `ws/transport/` | read and write buffers | `send`, `recv`, encode, decode | partial reads and writes, cuts inside a frame, limits | `Pipe`, `Framed` |
| Upgrade, `ws/tungstenite/` | bytes read, response | read the head, answer, hand over | segments, frames behind the head, CORS, deadline | `Upgrade` |
| Auth header, `ws/headers.rs`, `src/model/endpoint.rs` | - | `encode_header`, `auth` | keys of one digit, JSON and URL escaping | `AuthHeader` |
| Log filter, `src/libs/log.rs`, `src/libs/log/level_filter.rs` | filter in force | build, reload | which of several directives decides | `Logging` |
| Error aggregation, `src/libs/log/error_aggregation.rs` | channel, bounded map | record, fold, evict, clear | entries out of order, eviction | `ErrorAggregation` |
| Scheduler, `src/libs/scheduler.rs` | jobs, periods | spawn, fire, `set_duration` | periods that change during a sleep, overlapping bodies | `Scheduler` |
| Schemas, `src/model/json_schema.rs`, `src/model/api_document.rs` | definitions | conversion, relocation | recursive types, clashing names, failure half way | `Schema` |
| Services, SQL functions, scalar types, peers, configuration, log reader | - | - | data and I/O | no |

## Modules

The server:

* **Channel** is what the queue promises: a bounded FIFO that delivers every
  accepted message once and in order while its receiver exists, and reports the
  end after the last one.
* **Outbound** is the queue as written: `Inner` is the first group of
  variables, each locked section one action, `waker.wake()` after the unlock an
  action of its own (`call` is what a thread still has to do). `parked` is the
  receiving task. `accepted`, `delivered` and `eof` are history. It implements
  `Channel` with `open <- senders # 0`.
* **Shutdown** separates the store from the broadcast in `cancel`, and
  registration, read of the flag and sleep in `cancelled`. `notify` belongs to
  nagoya: it wakes the registered waits and keeps no permit; that `enable` may
  report a wait complete at once is allowed, because the code allows for it.
  `Recreate` is a select that drops the wait and builds a new one.
* **Limits** is one counter with its cap and threshold; the atomic operations
  of `acquire` are the actions, `current` is the local variable.
* **Session** is one connection from auth to its end. `pc` is the position of
  the connection's task. Between two awaits the task does not give way to tasks
  of its own thread, but other threads run between any two of its steps, so
  each look at the queue or the flag is an action. `enq` holds what is left of
  each caller's `enqueue`; with `SameThread` pushers run only while the session
  awaits. The queue is used as `Channel` promises it, the flag as `Shutdown`
  does. `overdue` and `expired` are deadlines that have passed, `phase` the
  request tasks. `sent` counts up to 2: no property tells more apart. Legacy and
  MCP requests take the same steps (admission, before hooks, handler, after
  hooks, timeout) and share the actions; an `Inbound*` action stands for all
  frames that take that branch.
* **Requests** is what `Session` leaves out: what a frame says. A message is
  what its parser makes of it; the branches of `handle_message`,
  `handle_mcp_frame` and `McpState::route` decide about its reply, by the
  handlers registered, the tools (the snapshot `enable_mcp` took) and the
  connection's roles, which may change between messages.
* **Server** is `listen_on` (`main`), the shard loops (`spc`: the arms of the
  select in their order), the connections' futures (`phase`) and the table.
  `due` are connections whose future has something to finish. `Ids` wraps like
  the `u32` of `get_conn_id`. `serve_with` is the case of one shard, the drop of
  its future being the stop.
* **Upgrade** is the HTTP part of one connection: the stream is a sequence of
  byte positions, read in any segments; one response; then the bytes behind the
  head go to the WebSocket connection.
* **Scope** is the thread-local slot that `TOOLBOX.scope` fills for the time of
  one poll and restores afterwards.
* **AuthHeader** has the encoding of credentials on the client's side, the
  split of the header and its decoding, as functions on tokens. A value is known
  by its parameter and its class: which of the two encodings, JSON text and URL,
  change it.

Client, publishers and transport:

* **Client** has the way to a connection (`phase`, `opts`, `verifier`: plain,
  TLS, a ready stream, with every combination of options and build feature) and
  the calls on it (`pc`, `seq`). A call is dropped at any await by its caller.
  The peer answers each request once, in any order, and sends other frames as it
  likes. `send_raw` takes its number from the caller, so it may repeat the number
  of a call; `raws` remembers the numbers used so. `server`, `reply` and
  `outcome` are history.
* **Subs** and **Push** have each manager with the table of connections and
  their queues. A publish sends to one connection per step, while connections
  come and go. What the closure of `unsubscribe_with` returns is not checked: a
  removal that names too few keys leaves keys behind, and `strays` remembers the
  connections to which that happened. In `Push` a publish holds the lock of its
  topic (`held`), and the `*_multi` calls take one topic after another.
* **Pipe** says without bytes what one direction of the transport promises.
  **Framed** is that direction as written, down to bytes: base and width of the
  length prefix are constants. It implements `Pipe`.

Services:

* **ErrorAggregation** separates the time stamp of an event from its queueing,
  so entries arrive out of the order of their stamps.
* **Scheduler** has one step each for reading the period, the end of a sleep and
  the end of a body; `Tick` is time.
* **Logging** has the filter as a map from what a directive names to its bound,
  built from `RUST_LOG`, the level and the caps, and its replacement. A directive
  is for every target that begins with what it names; the one that names most
  decides, and a later one replaces an earlier one that names the same. What
  passes reaches stdout and the error aggregation; the file may have a rate limit
  of its own (`src/libs/log.rs:230-231`), which is not modelled.
* **Schema** has the conversion of types as functions that thread the map of
  definitions through the recursion (the only RECURSIVE operators here). An enum
  has a second definition name where it is referred to with its prefix; structs
  and enums may stand in place as well as in the registry, under names that clash.
  Left out: a struct whose own name begins like a prefixed enum's.

**MCOutbound**, **MCSession**, **MCServer**, **MCFramed** give constants values;
`Client` is checked directly. **MCAtomics** holds `Limits` and `Shutdown` side by
side. **MCServices** and **MCRequests** hold several machines that share nothing:
`service` or `part`, chosen in the initial state, says which of them moves in a
behaviour, and the others stand still. **RequestParts** is `MCRequests` without
`Schema`, whose recursive operators a proof may not reach: it holds the composition of the other
parts and their properties, and `MCRequests` adds the schemas. The proofs are in
**OutboundProofs**, **AtomicsProofs** (`Limits` and `Shutdown`),
**SessionProofs**, **ServerProofs**, **ClientProofs**, **FramedProofs**,
**ServicesProofs** (on `MCServices`) and **RequestsProofs** (on `RequestParts`).

Definitions called "Mutant of X" are changed versions of X used to see that a
property can fail; no specification uses them.

## Runs

| Run | Checks | Instance |
|---|---|---|
| `outbound` | `NoLostWakeup`, `ImplementsChannel` with liveness | 2 threads, 2 senders, 2 wakers, capacity 2, 3 messages |
| `atomics` | `NoMissedCancel`, `AllResolve` (shutdown); `HoldersWithinCap`, `CounterExact`, `WarnedExactlyOnce` (limits) | 3 waiters, 2 cancellers; 4 threads, cap 2, threshold 2 |
| `session` | `AnsweredOnce`, `SlotsExact`, `OneLateFrame`, `TypedAndFlushed`, `IdleEnds`, `EndIsObserved`, `TasksEnd` | 2 requests, 1 pusher on another thread, queue of 2, all timeouts set |
| `session_header_only` | `FlagWinsWhenDrained`, `OneShot` | header_only, 1 request, 2 pushers on the session's thread |
| `server` | `CleanupExact`, `SlotsExact`, `NothingOutlivesListen`, `ServerStops`, `DueIsPolled` | 2 shards, 2 connections, 2 ids, the counter wraps |
| `client` | `CallsExact`, `NoDowngrade`, `AnsweredCallEnds` | 2 requests of 2 response types, 1 raw request of any number, 2 frames in transit, 1 unasked frame |
| `framed` | `BuffersBounded`, `ImplementsPipe` with liveness | 3 items, bytes below 8, prefix of 2, wire of 4 |
| `services` | `SubscriptionsExact`, `DeadArePurged` (publishers); `StoreExact`, `NewestIsKept` (errors); `ChangeTakesEffect`, `JobsGoOn` (scheduler) | 2 connections, queues of 1, 2 keys, 2 topics, 2 subscriptions, 2 publishes; 2 threads, 3 events, map of 2; 2 jobs, 2 periods |
| `requests` | `AnswersExact`, `ProtocolsAgree`; `UpgradeExact`; `OwnToolbox`; `FilterExact`; `HeaderRoundTrip`; `SchemasClosed` | 2 messages, 3 endpoints of which 2 share a name; heads below, at and above the limit; 3 nested polls; a `RUST_LOG` of up to 2 directives, 5 caps, 2 reloads; up to 11 parameters; 2 structs of up to two fields, enums and structs in place that share their names |

What the less obvious ones say:

* `CallsExact`: a call never succeeds with another's answer, whatever calls were
  dropped before it, and callers who await every call and leave `send_raw` alone
  get exactly their own outcome, although `recv_resp` does not compare the number
  of an error. A caller of `send_raw` who repeats a number gives up both for it.
* `SubscriptionsExact`: keys lead to subscriptions, except keys that a closure of
  `unsubscribe_with` left behind by answering `(true, vec![])` or the like.
* `HeaderRoundTrip` holds for at most nine parameters: the key of a parameter is
  the first byte of its position, so a tenth would collide with the first. Each
  parameter then arrives under its own position, and it arrives unchanged exactly
  when its JSON text is the text itself: `encode_header` URL-encodes
  `value.to_string()` and strips the quotes, and `parse_ty` undoes only the URL
  encoding. A text with a double quote, a backslash or a control character stays
  escaped. The run includes longer headers, which the premise excludes.
* `FilterExact`: at every level but `Off` ERROR events pass, unless a directive of
  `RUST_LOG` that names their target says otherwise. At `Debug` and `Trace` the
  caps hold for all targets under theirs, also against a `RUST_LOG` that names as
  much or less, but not against one that names more (`h2::codec=trace`). At the
  levels below, nothing more verbose passes from a target `RUST_LOG` does not name.
* `SchemasClosed` says that a conversion fails exactly on unresolved names, and
  compares definitions exactly, only where no two types reached share a
  definition name. Where they do, the first one converted takes the slot and the
  fields of the other are not visited; the references still lead somewhere.
* `ProtocolsAgree` is about endpoints both protocols know. Handlers added after
  `enable_mcp` are not in its snapshot and are served by the legacy protocol only.
* `AnswersExact`: `AfterRequest` hooks receive `PublicErr` after a rejected
  before hook and `Ok` after any handler, whatever it answered; the comment at
  `ws/session.rs:306` says so, and `InternalErr` (`ws/hooks.rs:42`) is never
  passed. The model does not tell the outcomes apart.

Three more runs show where the code differs from what is written about it:

* `session_flag_race`: "the flag only wins once there is nothing left to send"
  (`ws/session.rs:508`). The look at the queue and the look at the flag are two
  steps; a sender on another thread that queues its payload and sets the flag
  in between loses the payload. With all senders on the session's thread
  (`session_header_only`) the sentence is true.
* `session_blocked_end`: "the session still observes it after the fact"
  (`ws/conn.rs:53`). A session blocked in `send` does not look at the flag; only
  `idle_timeout` ends it, and that can be `None`. With it set, `session` shows
  that a policy close is always observed.
* `log_off`: at `Off`, as at the other levels without caps, "the global level
  already prevents excessive verbosity" (`src/libs/log/level_filter.rs:45`).
  `Off` is turned into a `Level`, which has no such value, and becomes TRACE
  (`level_filter.rs:118`), so everything passes; `From<LogLevel> for LevelFilter`
  (`level_filter.rs:105`) has `OFF`, but the filter is not built from it.

Sentences found to be out of date that have no run: `OnConnect` "runs once per
connection, after auth" (`ws/hooks.rs:71`; it runs before registration and
auth, as `Server` has it); "Returning `Err` stops `serve_with`"
(`ws/listener.rs:199`; the loops back off, as `docs/server-limits.md` says);
"send a Close frame and drop the connection when the send buffer is full"
(`ws/server.rs:1172`; the full queue has no room for the frame, as
`ws/conn.rs:54` says); an `h2` INFO event "should appear" at `Debug`
(`src/libs/log/level_filter.rs:253-256`, a test that emits it and asserts
nothing of it; the list's second entry for `h2` caps it at WARN, which
`test_filter_string_format` in the same file asks for).

Bounds. Two threads, wakers or senders are enough for every race on the queue,
which is between one sender and the receiver or between two senders; the
capacity of 2 is reached and drained. Three waiters and two cancellers give
each pair of overlapping waits and broadcasts. Four threads overshoot a cap of
2 by two. Two requests share the loop and the slots; a queue of 2 is filled by
one payload and one Close frame. Two shards and two connections give every
overlap of registrations and removals in the table; the id counter starts one
short of its end. A dropped call and the one after it are the two requests that
get out of step. A wire of 4 bytes and reads of up to 4 split a prefix of 2 and
every frame at each place, and the frame limits of the two ends differ, so that
the reader refuses what the writer sends. A queue of 1 loses frames on the
second publish; a map of 2 evicts on the third event. Head lengths lie below, at
and above the limit, and above it by more than one read. `MaxSends`, `MaxReqs`, `MaxRaws`,
`MaxInbox`, `MaxNoise`, `MaxItems`, `WireCap`, `MaxSubs`, `MaxCalls`,
`MaxPublish`, `MaxTime`, `MaxEvents`, `MaxBodies`, `MaxMessages`, `MaxReloads`,
`MaxDirectives` and `MaxDepth` bound what the code does not; each request of
`Session` and each connection of `Server` happens once. `ServerAssumption` asks for at least as
many ids as connections: the code's counter wraps after 2^32.

Fairness. Threads are scheduled: a thread inside `enqueue`, `cancel` or `wake`
goes on, a task that is not waiting is polled. Timers fire and a deadline that
has passed is polled: `nagoya::timeout` and the idle future are polled before
what they bound. Auth is bounded by `handshake_timeout`. Peers, handlers, hooks,
signals and listeners owe nothing: `conn.send` may never return, nothing need
arrive, accept may fail for ever. `Server!RetryElapses` happens while the shard
is parked, because one round of its loop is shorter than the shortest back-off
(10 ms). In `Client` a polled call reads what has arrived, and the peer is assumed to
answer each request it took or to end the connection. A server whose handler
gives no response, or whose full queue drops the answer, does not, and then a
call waits until its caller drops it. In `Framed` flushes and
reads are awaited until done. In `Scheduler` time passes and the runtime polls
its tasks; bodies owe nothing.

`CHECK_DEADLOCK FALSE` stands where the modelled thing ends: a session that is
over, a server that has returned, a queue without users, a bound that is used
up, waiters that have all resolved.

## Proofs

For all values of the constants that satisfy the named assumptions:

* **Outbound** (`OutboundAssumption`). `Inductive`: `IInv` is the type
  invariant with five facts that depend on each other: the sender count is the
  number of senders, a waker is stored only while there is nothing to receive,
  a sleeping task's waker is stored or in the hands of a thread about to call
  it, accepted = delivered followed by the queue, and the end means drained.
  `DepthIsBounded`, `WakeupIsNotLost` and `EndIsFinal` follow from it, and with
  it every step is a step of `Channel` or a stutter: `Refinement`.
* **Shutdown**. `CancelIsNotMissed` rests on `WaitInv`: once the flag is about
  to be read the wait is registered or already woken, so a later broadcast finds
  it. `ResolveMeansCancelled` is inductive with the types (`FlagTypes`).
* **Limits** (`LimitsAssumption`). The cap is not inductive by itself, as the
  counter overshoots. The invariant is about the counts handed out: at most k
  active threads were told k or less, for every k (`TicketsInvariant`). It is
  kept by `fetch_add` because the counter is the number of active threads
  (`CounterIsExact`). `Admission` and `Warning` follow with what each thread
  remembers of its own tests.
* **Session** (`SessionAssumption`). Every step leaves the request tasks alone,
  drops them all, advances one or adds one (`StepKinds`). `TasksInv` ties the
  answers given to the phase and the `responded` cell, and the slots to the
  live tasks: `OneAnswer`, `SlotsComeBack`. `WireInv` says where the loop can be
  after a late frame or the only frame: `LateFrameIsTheLast`, `OneFrameOnly`.
  `AuthErrorIsFlushed` rests on `FlushInv`: until the first frame is given to the
  transport, the error or what was queued ahead of it is in the queue or on its
  way into it, or the connection's entry is gone and nobody can set the flag any
  more. `FlagWinsOnOneThread` assumes `SameThread`, the condition without which
  `session_flag_race` refutes it; its `DrainedInv` says that nothing is queued
  between the look at the queue and the look at the flag.
* **Server** (`ServerAssumption`). `GuardInv`: the guard holds its job in
  exactly the phases from registration to cleanup, and hooks have run exactly
  where it gave the job up. That no two entries of the table share an id needs
  `IdInv`: an id was taken at most as many steps of the counter ago as there are
  registered connections, so a counter that wraps has not come round to it.
  With them `EntriesExact` is inductive: `CleanupIsExact`. `SlotsComeBack` is
  inductive with the types. `NothingIsLeft` rests on `ShardInv`: futures live on
  shards whose loop runs, and `listen_on` returns after all have stopped.
* **Client** (`ClientAssumption`). `NeverDowngraded` from `LinkInv`: the
  verifier of a secure target is the one its options call for before the upgrade
  begins. `SuccessIsOwnAnswer` from `AnswerInv`: a number is asked with once and
  answered once, whatever calls were dropped. `CallsAreExact` needs two facts
  more: each answer under way is the only one to its request (`FrameInv`), and
  while the caller is in step nothing is under way but the question of the
  latest call and its answer (`StepInv`); without the second, an error, whose
  number `recv_resp` does not compare, could be another call's. Numbers given to
  `send_raw` are excepted from the first, and the other two hold while it is not
  used.
* **Framed** (`FramedAssumption`). `BuffersAreBounded` from `BoundInv`, for any
  base, prefix width, limits and chunk. `MessagesRoundTrip`: `Decode` undoes
  `Encode` for every message, which rests on `NumbersRoundTrip` (big-endian
  digits and back, for any width). `DirectionIsPipe`: every step is a step of
  `Pipe` or a stutter. The invariant `PipeInv` says that there is one stream `h`
  of bytes, cut into frames at positions `pos`, one frame per item sent
  (`Framing`), of which read buffer, wire and write buffer hold three adjacent
  pieces from the end of the last frame delivered on (`Unread`); only a cut has
  lost a suffix. So the next whole frame in the read buffer is the next item, a
  length can only be read too large where the writer's limit exceeds the
  reader's, and what is left at an end of file tells a close from a cut.
* **Services** (`ServicesAssumption`). `NewPeriodIsUsed` from `PeriodInv`: once
  a body was timed by an old period, the sleep under way was begun with the new
  one. `EveryErrorIsCounted` from `StoreInv`; the sum over the map is the
  cardinality of a set of occurrences, so that an eviction takes away exactly
  what it gives up. `NewestStays` is an action property from the same invariant.
  `GapsTellOfLosses` from `SubsInv` and `PushInv`: for every subscription of a
  live connection, frames in its queue and received plus losses are the numbers
  used so far, and a key leads to a connection without a subscription only where
  a closure of `unsubscribe_with` left it. In `SubscriptionManager` it needs
  that no frame carries the number of a later request or publish (`LinesInv`);
  in `SubscribeManager`, where a `subscribe_multi` takes its topics one after
  another, that its number is not used yet on the topics it still has to come to
  (`Unused`), and that a publish keeps its topic locked (`HeldInv`).
  `PublishesPurge` rests on `JobInv` and `HeldInv`: a connection that was gone
  and was sent to is in the list of the dead.
* **Requests** (`PartsAssumption`, `CapsAssumption`, `HeadersAssumption`).
  `ToolboxIsOwn` from `ChainInv`: the polls under way form a chain in which each
  restores the toolbox of the one around it. `FilterHolds`: the filter in force
  is built from its level and `RUST_LOG` (`FilterInv`), and the directive that
  decides about a target is the one that names most of it. The caps may be any
  list in which, of two for one target, the one that names more, or the later of
  the same name, is not the weaker (`CapsAssumption`), as `h2` occurs twice in
  the code's. `UpgradeIsExact` from `UpgradeInv`: the bytes read, on the wire
  and still to come are the client's in order, less the head once handed over.
  `ProtocolsDoAgree` from `ToolsInv`: tools are registered endpoints, no two of
  one name. `AnswersAreExact` from `AnswersInv`: what each message has been told
  follows from the state of its task. `HeadersRoundTrip`: of up to nine
  parameters each arrives under its own position, and unchanged exactly when its
  JSON text is the text itself; positions below ten have keys of one digit, so
  the split of the header finds each parameter under its own.

`FramedAssumption` asks for a base that has a byte for each kind and one that is
no UTF-8, for a frame limit that fits the prefix, for messages whose text is
UTF-8 and whose close has a reason only with a code, as the Rust types enforce,
and for foreign payloads that do not decode. `ServicesAssumption` and
`ClientAssumption` otherwise say that bounds are numbers and that `None` is no
value.

Facts about every sequence or number are proved without the library's induction
theorems, whose operator parameter the provers do not instantiate: a property
that fails somewhere is false at a least number (`LeastNumber`, from the
library's theorem on minimal elements of well-founded relations), so what holds
of 0 and carries over holds up to any bound (`UpTo`), and a recursive function
equals the value its steps build (`Built`, `Iterated`).

Only model-checked: the liveness properties (`AllResolve`, `IdleEnds`,
`EndIsObserved`, `TasksEnd`, `ServerStops`, `DueIsPolled`, `AnsweredCallEnds`,
`JobsGoOn`) and the fairness part of the two refinements, as the prover has no
rule for fairness and `ENABLED`; and `SchemasClosed`, because `Schema` uses
recursive operators. Every other property of the passing runs is stated by a
theorem.

## Not modelled

Texts: JSON, HTTP and URL syntax, wording and log lines, and the regular
expressions that normalise error messages. TLS and the WebSocket frame codec,
which are libraries. A response that cannot be serialised (it is dropped), and
panics of handlers. The order of the hooks within one list. Set-up of the
logging libraries (rate limits, file rotation), the log reader, configuration,
service and SQL descriptions, scalar types and tables: data and I/O without
behaviour over time. Memory orderings weaker than sequential consistency (the
flags use acquire and release, the counters acquire-release
read-modify-writes, and each is used alone). Starvation of live connections by
an unending supply of new ones, which a model with finitely many connections
does not show; `OnConnect` hooks that never return, for which the code states no
bound; and the id counter meeting a session that has lived through 2^32
connections.

## What could follow

1. `Client` composed with `Session`, as one specification of at-most-once
   request and response, and `Subs` over `Session`'s queue instead of its own.
2. `Schema` written with recursive functions over a depth, so that
   `SchemasClosed` can be proved for any types.
3. The lists of hooks, one step per hook.
