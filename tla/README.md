# A verification of the OmniPaxos key-value store and its Jepsen test

This directory models the replicated key-value store of `Omnipax/`, the HTTP
shim in front of it and the Jepsen client that tests it, in TLA+. TLC checks
the models on small instances, TLAPS proves the most important invariants for
every value of the constants. Paths below are relative to `src/`.

## 1. The system

Every node runs one **server** (`Omnipax/src/server`) and one **api-shim**
(`Omnipax/src/client/api_shim.rs`). The servers replicate a log of commands with
the OmniPaxos library (external) and apply it to a `HashMap`. The shim takes
HTTP requests and passes them to the server of its node over one TCP
connection. The Jepsen control node deploys both (`db.clj`), sends reads and
writes to the shims (`client.clj`) and asks a checker whether the history is
linearizable (`core.clj`).

    caller --HTTP--> handler --cmd_rx--> shim task --to_server--> server
                                                                    | append
    caller <--HTTP-- handler <--oneshot- shim task <--to_client-- server
                                                    apply, answer   ^ decided
                                                       OmniPaxos: log of commands

### Inventory

| component | state | operations | what is hard | what makes it correct |
|---|---|---|---|---|
| server event loop, `server/server.rs` | `current_decided_idx`, `database`, the library | `handle_client_messages`, `handle_cluster_messages`, `handle_decided_entries`, `update_database_and_respond`, election tick, `establish_initial_leader` | decisions arrive in batches, at different times on each server; the process may die between any two steps | the database is the replay of a prefix of the log; only the coordinator answers; answers are what the log says |
| database, `server/database.rs` | `db` | `handle_command` | | a deterministic state machine |
| server network, `server/network.rs` | `peer_connections`, `client_connections`, `max_client_id`, tasks per connection | `new`, the listener, the peer connectors, `send_to_cluster`, `send_to_client` | processes that die and start again while the cluster connects; a listener that closes under a dialer; first messages discarded with a handshake; ids that are handed out again | who resolves is connected; a server without memory never joins servers with one; the start completes |
| api-shim, `client/api_shim.rs` | `next_request_id`, `pending_put`, `pending_get`, `cmd_rx` | HTTP handlers, the wait for `StartSignal`, the select loop, `/health` | handlers, the channel and the responses interleave; handlers are dropped by time-outs | every response reaches the handler that waits for it, every request that was passed on is answered |
| shim network, `client/network.rs` | one connection, its two tasks and bounded channels | `new`, `send`, reader and writer task | every queue at its limit at once, a connection that breaks with a batch half written | order, no loss and no duplication while it holds; nobody waits for itself |
| messages and commands, `common.rs` | none | types, framing | | a command says which request it is |
| snapshots, `common.rs:70-115` | `snapshotted`, `deleted_keys` | `create`, `merge` | sequences of puts and deletes split anywhere between two snapshots | a snapshot equals the replay of what it replaces |
| Jepsen client, `client.clj` | outcome of each operation | `invoke!` | a time-out races a late answer; effects after `:info` | `:ok` is true, `:fail` never happened, `:info` may happen at any later time |
| Jepsen test and db, `core.clj`, `db.clj` | | generator, checker; `setup!`, `teardown!` | `setup!` of all nodes runs in parallel | requests meet a system that has started |
| bench client, `client/client.rs`, `data_collection.rs` | request and response counts, two interval timers, a row per request | request loop, intervals, end of the run | answers race the await of their own request; timers catch up after a wait; the run ends while answers are under way | rows say what happened to their own command; intervals keep their length and rate; the run ends |
| configuration, `server/configs.rs`, `client/configs.rs` | | `get_peers`, `get_request_delay`, `get_interval_duration` | rates and durations for which the timers cannot be made | a bad interval is the only way the bench client can panic before it saves |
| framing, benchmarks, build scripts, `jepsen-main`, `jepsen-results` | | serialisation, orchestration, vendored code, recorded output | | not modelled |

`PROJECT.json` lists the same components with their status, and the hazards of
the code at the lines where they bite.

## 2. Modules

| module | models | composed by |
|---|---|---|
| `KVStore` | commands, database, `handle_command` | everything |
| `Links` | the connection of a shim and its server: messages, sending, resets | `ApiShim`, `OmniPaxosServer` |
| `JepsenClient` | callers: invocation and the outcomes `:ok`, `:fail`, `:info` | `ApiShim` |
| `ApiShim` | handlers, `cmd_rx`, the select loop, the pending maps, death of the shim | `KVSystem` |
| `OmniPaxosServer` | the event loop, the library as a log, death of the server | `KVSystem` |
| `LinearizableKV` | the abstract specification: an atomic store that applies each request once between invocation and answer, and whose failed requests never happen | refined by `KVSystem` |
| `KVSystem` | the system in operation, its invariants, fairness and refinement | `MCKVFaults`, `MCKVSystem`, `KVSystemProofs`, `KVSystemLinProofs`, `KVSystemAnswerProofs` |
| `Startup` | `Network::new`, `establish_initial_leader`, the shims' connection, `setup!`, deaths and restarts | `MCStartup`, `StartupProofs` |
| `FifoLink` | the abstract specification of a connection: one FIFO stream per direction, of which a break loses the end | refined by `Backpressure` |
| `Backpressure` | one shim, one server and every queue and task between them | `BackpressureProofs` |
| `BenchClient` | the bench client's loop, timers, rows, and the servers' answers | `BenchClientProofs` |
| `KVSnapshot` | `create` and `merge` | `MCKVSnapshot`, `KVSnapshotProofs` |
| `QueueLemmas` | nothing of the code: laws of messages that move along a row of queues | `BackpressureProofs`, `KVSystemLinProofs` |

The map in `PROJECT.json` gives the lines each definition stands for. Some
choices a reader should know:

* **The map of strings** is a total function with `NoValue` for "no entry". Keys
  and values are opaque; JSON and length-delimited framing lose nothing and are
  left out.
* **Steps.** A tokio task runs from one `await` to the next. `HandleClientMessage`
  is one iteration of the loop of `handle_client_messages`,
  `UpdateDatabaseAndRespond` one iteration of that of
  `update_database_and_respond`; a server in the middle of the second loop
  (`commands[n]` not empty) does nothing else but may die. TCP streams and the
  channels behind them are one FIFO per direction.
* **The library.** `Propose` is `append`. A proposal is appended to the log once
  (`Decide`) or lost when it is forwarded (`LoseProposal`). Each server sees any
  prefix of the log, when it likes and in batches of any size. This is the
  promise of OmniPaxos (sequence consensus); the project does not prove it.
* **Death.** A server loses everything, as `MemoryStorage` does, and in `KVSystem`
  never comes back: `Startup` shows that a restarted one cannot take part while
  a server that ran before it does. A shim loses its maps and handlers.
* **Queues.** `Links` has one stream per direction where the code has six queues
  (channel, batch, socket, channel, each with its own task and capacity).
  `Backpressure` has them all, and `ConnectionIsFifo` shows that together they are
  the stream of `FifoLink`, which is what `Links` takes for granted. The socket of
  `Backpressure` holds a number of messages; the event loop of the server, one
  task, is either at its select or in the loop of `update_database_and_respond`
  (`commands` not empty), and no handler of it waits. The other servers and the
  library are one step there.
* **Late effects.** A caller that has timed out leaves its command where it is; the
  command can still be decided after everything else. If its handler still waits for
  room in `cmd_rx`, though, the closed connection takes the handler with it, and the
  command is never passed on (`DropHandler`; nothing makes it happen).
* **Startup.** A start of a process is an incarnation, connections remember the
  incarnation at the other end. Connecting, sending the handshake or failing to
  (`FailToRegister`, after which that peer is not dialled again), accepting, missing a
  closing listener and losing a handshake of a dead dialer are separate steps, and
  so are giving a client its id and inserting its connection, which may happen in
  another order. A shim is started after the server of its node, as `setup!` does. An aborted listener
  closes at once: the interval between `abort()` and the end of that task is far
  shorter than the start of a process, and only for a process started within it
  would it matter. Only deaths break connections; the failure of a network
  between live processes is not part of `Startup`.
* **Read-ahead.** The handshake of a connection is read through a framed reader
  that is then thrown away (`into_inner`, `server/network.rs:165`) with whatever it
  had read beyond the registration. `unheard[n]` holds the dialers whose first
  messages `n` has discarded in this way: what they had sent by then is lost, and
  a frame that was cut makes the rest unreadable.
* **Time.** `BenchClient` is the only module with a clock. Milliseconds pass one by
  one, a timer is a countdown to its next tick, and missed ticks are made up for
  one after the other, as tokio's default does. The select is `biased`, so its
  branches have priorities, which the guards state. Nothing bounds how late the
  client is: while each send takes longer than the delay between requests, the
  interval goes on after its end. The model follows it for `MaxOverdue` milliseconds,
  and counts a run that gets there as one that need not end (`Overdue`).
* **Snapshots.** Instead of a log of bounded length the state holds what the loop
  of `create` has made of the entries since the last snapshot, so that the
  finite state space stands for logs of every length.

## 3. Runs

| run | question | instance | result |
|---|---|---|---|
| `kv_faults` | is the system linearizable, and is what callers are told true, through every fault? is every request that was passed on answered, also after the death of a server, has each one a task that can move it on until then, and does each step of a task do so? | 3 servers, a shim each, write quorum 2, 2 requests, 1 key, 1 value, one server and one shim may die, fairness | holds |
| `kv_steady` | three concurrent operations without faults, with every id in use four times: do names collide, does a read return the last write before it, and does every operation complete (deadlock checked)? | 2 servers, 2 shims each, 3 requests, 1 key, 2 values | holds |
| `kv_dead_server` | does a request to the shim of a dead server get a response, as `client.clj:5-6` says? | 1 request, fairness | violated |
| `startup_once` | is the leader promoted before anything serves, and is every connected client started? does the start complete, and never come to rest half done? | 3 nodes, initial leader 2, one start each, deaths anywhere, fairness | holds |
| `startup_restarts` | does a server without memory never join servers with one? is the end that dials connected to a living process? does each step bring the start on? | 3 servers, 2 starts each, deaths anywhere | holds |
| `startup_half_connected` | "Waits until connections to all servers ... are established" (`server/network.rs:55`) | 2 servers, 2 starts | violated |
| `startup_late_shim` | "followers relay to their clients" (`server.rs:77-78`) | 2 nodes, 2 starts of a shim | violated |
| `startup_early_setup` | "Wait until the shim is fully initialised (StartSignal received)" (`db.clj:144`) | 2 nodes | violated |
| `backpressure` | is a message ever dropped, repeated or overtaken when every queue is full? does everybody wait for everybody? | 10 commands, channels and socket of 1, batches of 2, a connection that may break, fairness | holds |
| `bench_client` | are the rows true, the rate and the length of the intervals right? does the run end unless the client never catches up? | up to 2 intervals of 0 or 1 s at a rate of 0, 1, 2 or 5, 3 ms in a second, fairness | holds |
| `snapshot_deletes` | what can go wrong with Deletes? | 2 keys, 2 values | only the keys that `create` forgets |
| `snapshot_resurrected` | do deleted keys stay deleted (`common.rs:87, 94`)? | 2 keys, 2 values | violated |

**What the properties say.**

* `Linearizable` is the refinement `KVSystem => LinearizableKV`. A request is
  applied where its command enters the log. Requests that ended as `:info` stay
  open and may be applied later; `:fail` ends them.
* `DatabaseFollowsLog` is state machine safety: what is applied is an exact prefix
  and what is in the hands of the loop is exactly the stretch after it.
* `AtMostOneEffect` and `ResponsesMatchPending` are about names: ids restart from 0
  or 1 everywhere, and only their combination is unique.
* `AnswersComeFromLog` and `FailedNeverTakesEffect` are what the checker's verdict
  rests on: that outcomes mean what Jepsen takes them to mean.
* `EveryRequestAnswered` names every excuse for silence: the death of the shim or
  the server of the request, the loss of the quorum, the loss of the proposal, and
  a caller that gave up while its handler was still waiting for room in `cmd_rx`
  (`Dropped`). Once the command was passed on the answer comes whether or not the
  caller still waits. In `kv_faults` a write quorum outlives the death of a server, so
  that requests to the others are still owed their answers.
* **Readiness and measure.** A liveness property of this code has three parts: until
  the goal is reached some task has something to do; no task does something for
  ever without getting nearer; a task that has something to do is polled. The
  first two are safety properties, and they are where the code can be wrong; the
  third is tokio's. Each component states them by themselves:
  - `KVSystem`: `OwedMeansWork` (a request without its answer that no excuse of
    `EveryRequestAnswered` covers has a task ready on its own path) and
    `TasksMakeProgress` (a step of a task takes one off the `StepsAhead` of a request
    and, for no request, puts one back; or it touches no request and shortens the
    `Backlog` of a server);
  - `Backpressure`: `NoWaitingCycle` (some task is ready while a send waits or a
    command is unanswered) and `EveryStepIsProgress` (every step, handlers' and
    breaks included, lowers the natural number `MovesLeft`);
  - `Startup`: `RestMeansStarted` (when no process can be started and none has
    anything to do, each node is started or held up by what `HeldUp` names) and
    `StartAdvances` (a step that is no death shrinks what is `Ahead` of a node and
    enlarges it for none; or it shrinks what is `UnderWayTo` the nodes: nobody
    dials, registers or is signalled again for what was done). The measure is a
    record of sets per node, compared by inclusion; that they are finite, which is
    why such steps end, is the theorem `StartIsFinite`;
  - `BenchClient`: `RunAdvances` (every step ends an interval or lowers `StepsLeft`, to
    which a millisecond adds four at most). Between two milliseconds nothing goes on
    for ever, however long the burst of missed ticks; a delay of 0, which
    `get_request_delay` asserts away, would break it. A run that does not end is
    therefore one whose interval stays overdue while time goes on, which the code
    allows (`client.rs:69`) and `RunEnds` names.
* `ReadsSeeLastWrite` is what a user of the store expects of a read, and follows from
  neither `Linearizable` alone nor `AnswersComeFromLog`: those compare with `replay`,
  which is made with `handle_command` itself, and would hold with a
  `handle_command` that, say, ignored a second write of a key (its mutant).
* `NoLateJoiner` is why the in-memory storage is safe. `DialersAreConnected` is what
  remains of `server/network.rs:55` with restarts: the end of a connection that
  dialled never has a dead process in its slot while both servers take part. The
  end that listened may (`startup_half_connected`).
* `StartCompletes` says that in the end every node is in service for good, or held
  up, and names all that can keep a node from it: a
  death of its own processes or of the initial leader's (nothing replaces it:
  `establish_initial_leader` never ticks the election), a server that died before
  another had connected to it, too few nodes for the leader's quorum, and first
  messages of the leader that were discarded with its registration.
* `PendingIsUnderWay` compares the pending maps with the whole round of a command
  through fourteen queues; `ConnectionIsFifo` is the refinement
  `Backpressure => FifoLink`.
* `ConnectedClientsAreStarted` says that a shim which is connected when its server
  begins to serve has been sent its `StartSignal`. It holds while a shim is
  started no more than `num_clients` times, and not beyond
  (`startup_late_shim`).
* `SendsComplete` and `EveryCommandAnswered` say that the shim's task, which takes no
  answer while it waits to send, is never part of a cycle of waiting tasks. They
  hold because the server's queue to a client is unbounded; with a bounded one,
  which is the mutant, all tasks wait for each other.
* `RowsAreTrue` and `OnlyBadIntervalsPanic` are about the row that is made only after
  the `await` of its send: no answer is taken in between. `NotFasterThanDelay` is
  about ticks that were missed, `IntervalsRunTheirTime` about the first tick of an
  interval, which is due at once. `RunEnds` holds whatever becomes of the answers,
  because `run_finished` counts requests: the run ends with its last interval, and
  the only thing that puts the end of an interval off is a client that never
  catches up with its ticks. The files may still fail to be written (`unsaved`);
  `OnlyBadIntervalsPanic` is about panics before that.

**Bounds.** Two requests on one key are the least that a linearizability violation
needs (a write and a read, two writes). One value is enough for two requests: a
read that should see the write differs from one that should not, and of two
writes nothing is read. Three requests and two values appear in `kv_steady`,
where the absence of faults leaves room for them. Two servers suffice for the
distinction of coordinator and replica, since the library is atomic; the startup
runs use three because connecting is pairwise and a third server can resolve on
a dead one, and `kv_faults` three with a write quorum of two, so that the death of
one leaves a quorum. `MCKVFaults` bounds the deaths (one server and one shim) and
chooses the servers of the two requests up to renaming: both at one server or at
two. The third server only votes: it applies nothing, and no fairness is assumed of
it, since the two others already are coordinator and replica. `InitialLeader` is 2 of 1..3 in `startup_once`, since the leader then
dials one peer and is dialled by the other (`benchmarks.py:30` configures node 5),
and only a leader that dials can have its first messages discarded.
`CmdCapacity = 1` makes handlers wait for `cmd_rx` (128 in the code). In the runs of
`Startup` every process may die, once per start (in `startup_once`, where nothing looks at
`setup_done`, each `setup!` returns as soon as it can); two starts suffice for a stale slot. In
`backpressure` ten commands are the least that fill every queue of the round at
once, so that a bounded queue to the client would stop everything; batches of 2
differ from channels of 1 so that a batch can hold more than the channel behind
it. In `bench_client` a second of 3 ms makes every case of the integer division: 5
requests a second leave no delay, 2 are rounded, 1 is exact, 0 is the constant of
the code. `MaxOverdue = 1` follows an interval one millisecond beyond its end; the ticks
of requests may be late by the whole age of the interval, so that bursts of up to
five requests are made up for.
Requests, values, servers and client ids are symmetric in `kv_steady`, where the
client ids are model values: nothing in `KVSystem` counts them (`Startup` does, where
servers hand them out). The runs with liveness properties use no symmetry.

**Deadlock.** The runs of `KVSystem` check it, with `TestOver` as the step of a test
in which every operation has its outcome, and so do those of `KVSnapshot`. Those of
`Startup` do not: there all processes may be dead, or at rest. Nor do
`backpressure`, where `MaxCommands` commands may have been answered, and
`bench_client`, whose run ends; there the liveness properties say what must happen
before.

**Fairness.** `FairSpec` of `KVSystem` is weak fairness of each handler, of the two
branches of the shim's select loop separately (tokio's `select!` starts at a
random branch, so neither starves), of each connection's messages, of each
server's decided entries, and of the library while a write quorum runs. Nothing
is assumed of callers, deaths and resets. `FairSpec` of `Startup` is one weak
fairness condition for all processes together: as long as some process can be
started or has something to do, something is started or done (the connectors
retry every second, `setup!` starts everything, tasks that can run are polled), and
nothing has to die. No more is needed because of `StartAdvances`: whoever goes
first, the start comes nearer to its end. `FairSpec` of
`Backpressure` is weak fairness of each task that can go on, again with the
branches of a select apart, and of the other servers' decisions; nothing makes
handlers pass commands on. `FairSpec` of `BenchClient` is weak fairness of its task
and of time; the servers need not answer.

**Findings.** Four places where the code does not do what a comment or docstring
says, and one bug in `KVSnapshot` that no client can reach today because nobody
sends `Delete`. They are described, with the lines quoted, in `PROJECT.json`.

## 4. Proofs

All proofs hold for arbitrary sets and numbers: the assumptions are the named
`ASSUME`s of the modules (for instance that `NoValue` is not a value and that node
ids are numbers), which TLC evaluates in every run.

* **`KVSystemProofs`**: `TypeCorrectness`, `StateMachineSafety`
  (`DatabaseFollowsLog`) and `FailSafety` (`FailedNeverTakesEffect`). The inductive
  invariant `ReplicationInv` adds to the type invariant that only invoked requests
  are on their way (`OnlyInvokedAreSent`, without which a message could carry no
  command) and that `replay` is the replay of the log (`ReplayFollowsLog`, which
  says what applying one more entry gives).
* **`KVSystemLinProofs`**: `Linearizability` (`Linearizable`), `EffectSafety`
  (`AtMostOneEffect`), `AnswerSafety` (`AnswersComeFromLog`) and `ResponseSafety`
  (`ResponsesMatchPending`). None of them is inductive; `IndInv`, which TLC checks in
  `kv_faults` and `FullInvariance` proves, extends `ReplicationInv` along the way of a
  command and back:
  - a request passes through its shim once (`RequestsAreIssuedOnce`), so that a
    CommandId, a client id and a server name one request;
  - wherever it is, a command carries the name of its request
    (`CommandsAreNamed`) and is at one place only (`CommandsAreOnce`). The step to
    look at is `IssueCommand`: the new message had no name before, so it cannot be
    anywhere else. Two commands of one request would be equal, hence
    `AtMostOneEffect`;
  - a response is what a place of the log gives, and the pending maps file it
    under the request of that place (`RepliesComeFromLog`, `PendingAreIssued`), so
    what a handler is told, and its caller after it, is the result of its own
    command;
  - a CommandId stays pending until its server has applied the command and the
    response has arrived (`PendingUntilAnswered`): the next command a server
    applies was not applied before, because the log repeats nothing.

  The refinement then goes step by step: `Invoke` is `Call`, `Decide` is `TakeEffect`
  of the request its command names (which has no effect yet, and was therefore
  not answered), `Completed` is `Return`, and every other step, `Refused`
  and `Indeterminate` included, leaves the abstract variables alone.
* **`KVSystemAnswerProofs`**: `NoRequestIsStuck` (`OwedMeansWork`) and `Progress`
  (`TasksMakeProgress`), the safety part of `EveryRequestAnswered`. `IndInv` says that
  what is on its way is right; the inductive invariant `AnswerInv` adds that
  nothing on its way is dropped: while its shim lives a request whose caller has
  not given up is with its handler, in the channel or issued (`AcceptedAreSent`), the response to what
  the server has applied is on the connection or was passed on
  (`AppliedAreAnswered`), and whoever is in a pending map has had no reply
  (`PendingAreUnanswered`). A request that is owed its answer is then found at one
  place of its way after the other. If it is in the log and the server has
  applied it, its response is in `to_client`, which is work; if not, the server
  is behind the log, which is work. If it is neither in the log nor on its way
  to it, it is `Lost`. A full channel is work of the shim's task behind it.
  `Progress` needs the names again: the step that takes a command from one place
  takes it from one request only, and puts it at the next place of that request
  (`ProposedIsPast`, `NamesDiffer`).
  `ReadSafety` (`ReadsSeeLastWrite`) and `DatabaseSafety` speak of the log alone, without
  the history variable `replay`: a read was told what the last `Put` or `Delete` of
  its key before it in the log wrote, and each server's database holds, key by key,
  the last write among the entries it has applied. That a fold over the log gives
  the last write is an induction over data, which is out of the prover's reach;
  but `Decide` extends the log by one entry and `replay` with it, so that the fact
  is an invariant of the system (`ReplayHoldsLastWrites`) and one step of that
  induction is the lemma for `Decide` (`LastWrittenStays`, `HandledKey`,
  `OneMoreCommand`).
* **`StartupProofs`**: `AmnesiaSafety` (`NoLateJoiner`), `PromotionFirst`
  (`StartFollowsPromotion`), `TypeCorrectness`. `NoLateJoiner` is not inductive. The
  argument: a server in operation has filled all its slots; a slot is filled
  either by dialling a peer that listens, so that was not in operation, or by a
  dialer that started after it (`DialersAreYounger`, since the handshakes a dead
  process holds are lost); a later incarnation of a peer cannot be in
  `ran_before` at all (`RanBeforeHasConnected`). Hence no filled slot is that of a
  process that ran before (`ConnectedDidNotRun`). `DialerConnectionSafety`
  proves `DialersAreConnected` for any number of starts. Its invariant `DialInv` follows
  the connector of a server to one peer: it dials, has connected, or has handed
  the connection over, one at a time (`OneConnector`), so that it never fills the
  slot twice; and once a listener has a registration of the dialer's node, the
  dialer has reached no process of the listener's node but the present one
  (`RegisteredDialIsCurrent`), since a listener that was started again would wait for
  a connector that does not come. Neither holds the other way round (run
  `startup_half_connected`).
  `StartSignalSafety` proves `ConnectedClientsAreStarted` while a node's shim is
  started no more than `num_clients` times (`MaxShimStarts <= NumClients`), however
  often servers die and start: registrations, handshakes under way and the shim
  that has yet to dial are together no more than its starts
  (`ClientsAreCounted`), so no registration gets an id that `StartedClientIds` leaves
  out.
  `StartComesToRestComplete` proves `RestMeansStarted`, the safety part of
  `StartCompletes`, for one start of every process and one client a node, which is
  what `setup!` does. Its invariants (`RestInv`) say that nothing is lost without a trace: a
  dial is connected at both ends, or under way to the peer, or the peer has died
  (`DialedIsConnected`, `DialIsNotLost`), a shim is connected to, or registering with,
  its server (`ClientIsNotLost`), the leader's signals are under way, read, or were
  discarded with a registration (`SignalIsNotLost`, `AcceptedIsRead`), and a connector that gave up had
  found its peer dead (`ConnectorIsNotLost`). Of two servers
  that wait for each other one could dial or take a registration, so at rest all
  have resolved; then the leader has its quorum, leads, and has sent its signals,
  which the others have read.
  `StartProgress` proves `StartAdvances` for any number of nodes, clients and starts.
  Each action of `Work` and each start moves one part of `Ahead` forward
  (`MovingAdvances`; `LaterIsLess` and `NoneFallsBack` are the laws of the measure), but
  for taking a registration or a start signal and giving up on one, which is what
  `TakingAdvances` is about. The invariant needed beside `IndInv` is that a process that
  runs was started (`RunningHasStarted`). `StartIsFinite` proves the measure finite:
  registrations are added one at a time to sets
  that are empty at first (`NextUnderWayIsFinite`), start signals once for the finite
  sets of nodes and clients (`SignalsAreFinite`).
* **`KVSnapshotProofs`**: `SnapshotSafety` (`SnapshotIsDatabase` when `Entries` holds
  Puts and Gets only) and `SnapshotErrors` (`OnlyForgottenKeysDiffer`) for logs of
  any length. The first is about the commands that are in use and is proved only;
  the second is also the run `snapshot_deletes`. Both follow from the invariant
  `DeltaKnows`: key by key, what the delta says of the database.
* **`BackpressureProofs`** with **`QueueLemmas`**: `FifoRefinement`
  (`ConnectionIsFifo`), `PendingSafety` (`PendingIsUnderWay`) and type correctness, for
  any capacities and any number of commands. `IndInv` says that, while the
  connection holds, the queues of both directions, the library and the decided
  commands form one sequence without repetitions whose members are the ids in
  the pending maps (`RoundIsPending`), and that the tasks at its ends are alive,
  while a broken connection has nothing left to read (`EndsAreAlive`).
  `QueueLemmas` has the laws this needs: what moving the head, a batch or the whole
  of one queue to the next does to the row of queues.
  `DeadlockFreedom` (`NoWaitingCycle`) follows from `IndInv` alone: a pending entry has
  its command or answer in one of the queues, and from there one looks along the
  round for the first task that has room before it; the last queue, to the
  client, is unbounded, so there is one. `Progress` (`EveryStepIsProgress`) computes
  what each step does to `MovesLeft`.
* **`BenchClientProofs`**: type correctness, `OnlyBadIntervalsPanic`, `RowsAreTrue`,
  `NotFasterThanDelay` and `IntervalsRunTheirTime` for any intervals, rates and length
  of a second. `IndInv` adds `ClocksAgree` (the two timers, the counter of requests
  and the age of the interval tell the same time) and `AnswersAreOfRequests` (each
  request is under way, answered or lost, and no answer comes twice). `Progress`
  (`RunAdvances`) follows from the same invariant: a send pushes the next tick out by
  a delay that is not 0, so that a burst is never longer than the time it makes up
  for. It holds however late the client is.

Only model-checked: the liveness properties `EveryRequestAnswered`,
`StartCompletes`, `SendsComplete`, `EveryCommandAnswered` and `RunEnds`, since
liveness under fairness is out of the prover's reach. Between the proved readiness
and measure of a component and its liveness property lies the fairness that
section 3 justifies, and that a task whose work the readiness predicates name can
take the step (`ENABLED` is out of the prover's reach too).

## 5. Not modelled

* OmniPaxos itself (ballots, prepare and accept phases, leader election) is
  external and taken as a log; so are its messages, the snapshots it keeps in
  place of entries (any `LogEntry` but `Decided` runs into the `unreachable!` of
  `server.rs:130`), and the connections between servers once the cluster runs.
* Serialisation, the 8 MB limit of a frame, configuration files, logging,
  timestamps of the start signal, the wait until the synchronisation point,
  output files and plots.
* `Network::shutdown` of the server, which is dead code.
* Partitions: the repository's test has no nemesis; the library's steps may be
  delayed arbitrarily, which covers a partition's effect on safety.
* In `BenchClient`, what becomes of an interval that is overdue by more than
  `MaxOverdue` milliseconds.

## 6. Plan

In this order:

1. `Replication`: the server's handlers with the library's messages in and out,
   `send_outgoing_msgs` at the end of each handler, the election tick; that no
   decided entry waits for ever although it is handled only when a message
   arrives (`server.rs:170-191`), and what becomes of a cluster of one.
2. `Startup` with connections that break between live processes, and slots that
   empty when a send fails.
