# WorldDat in TLA+

WorldDat is a sketch of a peer-to-peer content-addressed network: peers have
ids that are Blake2 hashes, each keeps a routing table of the peers it knows,
and they exchange Ping, Pong and FindPeer messages. This directory models the
part of the program that decides something: ids and their distance, the two
routing tables, the worker thread with its handle, the simulator that runs
several workers together, the tasks of the QUIC peer, and those of its two
predecessors. TLC checks the models on small instances; TLAPS proves every safety
property for all sizes.

Paths below are relative to the repository root, e.g. `src/worker.rs`.

## 1. Inventory

| Component | Source | State | Operations |
|---|---|---|---|
| Hash and distance | `src/hash.rs`, `PeerId` in `src/types.rs` | none | `bitxor`, `leading_zeros`, `max_power`, `distance_rank` |
| PeerMap | `src/types.rs` | one HashMap id -> address per distance rank | `default`, `insert`, `contains`, `find_closest_peers`, `lookup`, `count` |
| FlatPeerMap | `src/types.rs` | one vector of `max_power * bucket_size` optional contacts, `count`, `next_eviction` | `new`, `insert` (update / fill / evict), `contains`, `find_closest_peers`, `lookup`, `count` |
| Worker | `src/worker.rs` | a thread with a PeerMap; a control channel in, a message channel out | `start`, `run` (Quit, Ping, Pong, FindPeer, responses, disconnect), `send` |
| WorkerHandle | `src/worker.rs` | the other ends of the channels, the JoinHandle, clones of the control sender | `quit`, `recv_message`, `controller`, `message`, drop |
| WorkerSim | `src/bin/sim.rs` | address -> handle, the queue of workers to add, the messages of a round | `add_new_worker`, `add_worker`, `run`, `quit` |
| Wire types | `src/proto.rs` | none | type declarations nobody uses |
| QUIC peer | `src/bin/peer.rs` | per client an endpoint driver, a task and a connection; per connection a handler, a driver and a request task of the server; the handles `main` waits for | `run_client`, `run_server`, `handle_connection`, `handle_request`, `main` |
| Old peer | `src/peer.rs` (commented out in `src/lib.rs`) | a bootstrap task and a listening task on one thread, the connections waiting for the listener, per connection an outgoing and an incoming half | `run`, `start`, `talk_to_peer`, `send_message`, `receive_message` |
| Second peer | `src/peer2.rs` (commented out in `src/lib.rs`) | a map address -> connection, per connection three tasks, the handle of a worker thread | `new`, `run`, `handle_connection`, `read_message` |
| Old tests | `src/connection_tests.rs`, `src/tests.rs` | - | not compiled (commented out in `src/lib.rs`) |

How they interact. A worker thread owns a PeerMap and touches nothing else; it
is driven by the messages on its control channel and speaks only through its
message channel. Whoever holds the handle moves messages: the simulator drains
the message channel of every worker it has added, and puts each message on the
control channel of the worker at the destination address, with the address of
the sender. Messages to unknown addresses are dropped.

The QUIC peer shares no code with the workers yet. Its `main` starts ten clients
and a server on one single-threaded tokio runtime, each with an endpoint driver
task; clients and server talk over quinn connections, and `main` then waits for
the endpoint drivers in the order in which it started them.

The two older peers show how connections and workers were to meet. `src/peer.rs`
holds one conversation at a time per task and keeps everything on one thread.
`src/peer2.rs` gives every connection and every stream a task of its own, and each
forwards what it reads to a worker thread through a clone of its control sender;
when the endpoint closes, `run` quits the worker.

What is hard here:

* *Arithmetic on ranks.* The loop of `leading_zeros` does not stop at the first
  non-zero byte; the searches walk outwards from a rank with saturating or
  wrapping subtraction.
* *Tables over a long life.* `FlatPeerMap::insert` relies on its buckets having
  no holes, counts by hand, and evicts.
* *Threads and handles.* The owner may clone, drop or quit at any moment; the
  thread may be between the receipt of a message and its replies, and its
  `send` panics when nobody can receive.
* *Crossing messages.* A Ping provokes a Pong and perhaps a Ping; the decision
  is made on a table that a Pong on its way is about to change.
* *The router.* Workers run before they are added; messages to them are lost;
  two workers may claim the same address.
* *Tasks and connections.* A client of the QUIC peer panics wherever its
  connection fails it, and hangs up while the server may still be finishing;
  `main` sees neither, only the end of endpoint drivers.
* *One thread for everything.* In the older peers a panic of any task unwinds the
  thread that runs all of them; a conversation of `src/peer.rs` ends when either of
  its halves fails and keeps later connections waiting until then.
* *Tasks and a worker.* The tasks of `src/peer2.rs` rely on a worker whose end they
  cannot see, and `run` leaves it behind on every path but one.

`PROJECT.json` lists these line by line under `hazards`.

## 2. Modules

```
Hash ─┬─ LeadingZeros
      ├─ FlatPeerMap ──────────── (implements ContactBook)
      └─ PeerMap ─┬─ RoutingTable (implements ContactBook)
                  └─ Worker ─┬─ WorkerHandle
                             └─ WorkerSim ── PeerExchange
Iterators ── used by PeerMap and FlatPeerMap
QuicPeer, OldPeer, Peer2
```

The proofs are in modules of their own:

```
HashProofs (Hash, Iterators) ─┬─ FlatPeerMapProofs (FlatPeerMap)
                              └─ PeerMapProofs (PeerMap) ─┬─ RoutingTableProofs (RoutingTable, LeadingZeros)
                                                          └─ WorkerProofs (WorkerHandle, PeerExchange)
QuicPeerProofs (QuicPeer), OldPeerProofs (OldPeer), Peer2Proofs (Peer2)
```

Each `MC...` module extends the module of that name and holds the constants of its
instance; modules without one take theirs from the cfg alone.

**Hash.** A hash is a function from byte positions to bytes, a byte a function
from bit positions to bits, most significant first; both sizes are constants
(32 and 8 in the code). `leading_zeros` is given in closed form: the position
of the first bit of the *last* non-zero byte, less one, saturating.

**LeadingZeros.** The loop of `Blake2Hash::leading_zeros` as a state machine,
one step per byte. It justifies the closed form of Hash.

**PeerMap.** `Bucket` and `PeerMap` as operators on table values, because every
worker has one. A bucket is a function from ids to an address or `None`. The
iteration order of a HashMap is unspecified: a search yields one answer for
each order of the known ids. `find_closest_peers` is the code's loop as a
recursive function of the search width, with its guards as operators of their
own (`visits_behind` is the guard `search_width > search_bucket`, as written).

**Iterators.** `filter` of the standard library as a loop over a sequence, because
both searches are built on it and a proof has to look inside it.

**RoutingTable.** One PeerMap and every sequence of inserts on it.

**FlatPeerMap.** The flat table; `InsertUpdate`, `InsertFill` and `InsertEvict`
are the three ways an insert ends. `wrapping_sub` followed by `%` is subtraction
modulo the number of buckets because that number (256) divides 2^64; the
instances use four buckets.

**ContactBook.** What both tables promise, whatever their layout: at most one
address per peer, an insert sets one, and where the table evicts it forgets at
most one other peer. RoutingTable implements it without evictions, FlatPeerMap
with evictions among peers of the same rank.

**Worker.** Threads, handles and channels of any number of workers. Taking a
message off the control channel, with the change of the table and the choice of
replies, is one step (`RecvPing`, `RecvPong`, ...): nothing another thread can
see happens in between. Each reply is a step of its own (`Send`), because the
handle may be dropped between two of them (`SendPanics`). Between the replies of
a Ping the table does not change, so choosing both when the message is taken is
what the code does. `quit` is two steps, the send and the join.

**WorkerHandle.** Workers under every use the public interface allows.

**WorkerSim.** Workers under the simulator's loop. All threads run from the
start with the two messages that `add_new_worker` puts on their control
channel; the router adds a due worker, drains the added ones, delivers what it
drained, and starts over. Draining one channel is one step, taken at the
`try_recv` that finds it empty: channels are unbounded, so a worker cannot tell
when its messages were taken. The sleep at the end of a round and the logging
change nothing. `WorkerSim::quit` is never reached because `run` does not
return.

**PeerExchange.** WorkerSim with workers that also ping each other. In the
simulator as it is, nobody starts a Ping; this module asks what the protocol of
the workers does when somebody does. `InjectPing` is the environment: an owner of
handles that calls `controller().message()`.

**QuicPeer.** The tasks of `src/bin/peer.rs`. The state of a task is the await it
is at; quinn appears as what the tasks see of it, one connection per client that
is in its handshake, open, closed by the client or lost. An `expect` or `unwrap`
that fails ends its task (`ClientPanics`, `StdoutFails`, `ServerFails`) or `main`
(`BindFails`, `JoinServer`); tokio keeps the panic of a task in its join handle,
so only handles that somebody awaits pass it on. Tasks run only while `main` is in
`block_on`. The `main` of the code spawns each driver's handle once more; waiting
for that task is waiting for the driver. Which errors reach which task follows the
code: `handle_connection` leaves at once on any error except `ApplicationClosed`,
after which it joins the connection driver.

**OldPeer.** `src/peer.rs`: any number of peers, each a process with at most one
connection of its own, to its bootstrap peer. `process` follows `start` and `run`,
`boot` and `listener` are the two tasks, `sent` and `heard` the two halves that
`talk_to_peer` joins at either end of a connection. `for_each` takes the next
connection when the future of the last one has resolved, so `Accept` waits for
`listener` to come back to "waiting"; an error ends `for_each`. `send_message` lets
go of the stream as soon as its shutdown is done, which is why a Pong may find
nobody left (`PongFails`). Peers outside `Pinging` send something other than the
Ping, for the other arms of `receive_message`.

**Peer2.** `src/peer2.rs`, one peer with its connections: `streams`, `request` and
`greeting` are the tasks of a connection, `control` the channel to the worker.
`handle_connection` enters the connection into the map, spawns, and does not wait.
A request is read to the end of its stream, and that end need not come: the program
writes its greeting and drops the stream without a shutdown (the line is commented
out), so of two peers that run it neither finishes its stream. `NewStream` therefore
takes a stream that will be finished ("reading") or one that will not ("waiting"); the
request on the second never gets past `read_to_end`, and either may fail at any time
(`RequestFails`), with its connection or alone. When the map replaces a connection, the
older handle is dropped; whatever quinn makes of that is a `Lose`. The worker this file
was written for had a `start` without arguments and a message `Raw` that are no longer
there; the model has the loop of `src/worker.rs` in its place, without the table: it
takes its messages in order, ends on Quit or disconnection, and may panic when it
answers and nobody holds the receiver.

## 3. Runs

| Run | Question | Instance |
|---|---|---|
| `leading_zeros` | Does the loop compute the closed form, and is the result always a bucket index? | all 64 hashes of three 2-bit bytes |
| `routing_table` | Do storage, count and search of a PeerMap agree in every table that inserts can build? Does it implement the book? | 4 buckets, 5 ids (ranks 0, 1, 1, 2, 3), 2 addresses, answers of 2; a bucket larger than an answer is left to the theorems |
| `flat_peer_map` | The same for the flat table, with an overflowing bucket | 4 buckets of 2 slots, 6 ids (three of rank 0), 2 addresses |
| `worker_handle` | Can a handle, its clones and its thread get into each other's way? | 1 worker, 1 other peer, 2 addresses, 2 pending messages, 1 clone |
| `worker_sim` | What does the simulation do under every schedule if two workers have one address and the bootstrap node comes late? | 3 workers, 2 addresses, the bootstrap node added second |
| `quic_peer` | Does `main` outlive its clients and get past them, and what do failures leave behind on either side? | 2 clients |
| `peer_exchange` | Does the bootstrap node learn everyone, do two workers that ping each other, possibly both at once, end up knowing each other, and does the pinging end? | 2 workers, delays 0 and 1, 2 pings |
| `old_peer` | What does a failure at one end, or in one task, do to the others? | a peer that is its own bootstrap peer, and a second one that connects to it |
| `peer2` | Does the worker outlive the tasks that need it, and not outlive `run`? Are the finished streams of both of two connections with one address handled? | 2 connections, 1 address, one of them opened by `run` |

Three more runs state what the documentation says and are violated by what the
code does:

| Run | The documentation | What TLC shows |
|---|---|---|
| `leading_zeros_doc` | "Returns the number of leading zeros in the 512-bit number, minus one" | two non-zero bytes: the last one decides |
| `routing_table_search` | "Returns a Vec of the `bucket_size` closest peers we can find" | the guard of the bucket behind the target is inverted: ranks are skipped, bucket 0 is repeated |
| `worker_sim_newcomer` | "the worker will send a message to it trying to look up its own address to get some nearby peers" | the message is given *to* the new worker, which answers it; it may never learn of anybody |

Other sentences in the sources do not describe the code either, and no run is
spent on them because the lines speak for themselves: buckets of PeerMap have no
maximum size (the TODO at `Bucket::insert`). Eviction is neither "round-robin" (comment
of `item_to_evict`) nor does it "cycle through indices" (comment of `next_eviction`):
the statement that would advance `next_eviction` is commented out, slot 0 is the victim
every time, and theorem `FlatOldContactsStay` says what that comes to, that newcomers
displace each other while older contacts stay for good. The wrap-around search of FlatPeerMap
goes on in both directions until it has met every bucket twice and may name a peer more
than once. A Pong may arrive without a Ping (the bootstrap node receives such Pongs
in every simulation). A worker whose handle is dropped while it has
something to answer does not end with "we're done!" but panics at the
`expect("FIXME")` of `send`; the last part of `QuitNeverFails` says that nothing else
makes it panic. In `src/peer.rs`, inserting a known peer into the PeerMap does not
"replace the old one", since only the id is assigned and the address stays; and the
ids of all peers are equal, being the hash of 64 zeros.

### What the properties say

The type invariants of LeadingZeros, Worker, WorkerSim and QuicPeer are theorems and
are not repeated by the runs. All the invariants, action properties and refinements
named here are theorems as well (section 4); the liveness properties are not.

*Search.* `AnswersAreKnownContacts`: every entry of an answer is what `contains`
would return, and answers respect their bound. `TargetBucketComesFirst`: peers of
the wanted bucket are left out only for peers of that bucket, whatever the
HashMap order. `ShortAnswerCoversAhead` pins down what PeerMap's search does
reach. FlatPeerMap's search is complete: `FindsAsManyPeersAsItCan`, and
`LookupLeadsOn` follows a failed lookup.

*Flat table.* `TableInv` (placement, no holes, no duplicates) is what insert's
early return at the first empty slot needs. `CountIsOccupied` ties the hand-kept
count to the slots.

*Handles.* `QuitNeverFails`: while the handle is held the thread lives, so neither
error path of `quit` is ever taken, and only a thread whose handle was dropped
panics. `ReplyMatchesTable`: a lookup's answer is still true when it is sent.
`QuitReturns`, `OrphanStops`, `PingAnswered` are the liveness side.

*Network.* `TruthInv`: no table holds a wrong address although the injected Ping
claims that the new worker's id comes from the bootstrap address. `SimInv`: the
router never meets a dead worker. `TrafficEnds`, `BootstrapLearnsEveryone`,
`ReplacedWorkerStops` and `HandshakeCompletes` say what must happen in the end.

*QUIC peer.* `MainExitsLast` is the comment above the list of handles in `main`:
nothing that happens to a client takes the process down, and the panic of the
server's driver does so only after the last client. `ClientsEnd`: no failure makes
`main` wait for a client for ever. `ServerTasksEnd`: the handler, its driver and
its request all end, also on the path that does not join the driver.
`AnsweredUnlessCutOff`: a client whose own connection holds gets its answer
whatever happens to the others.

*Older peers.* `FailuresStayApart`: the listener fails only over a connection it has
taken up, the bootstrap task only over its own, and the thread panics only over a
connection that was lost before its first stream. `HeardInTurn`: a connection that
stays open is taken up, unless the listener has failed or stays with an earlier one
for ever; both exceptions are real, and a peer that never hangs up shows the second.
`MessagesGetThrough`: once both ends talk, the message of each is read and its stream
closed, or the conversation ends. `WorkerOutlivesTasks`: the `expect` of
`read_message` and `quit` cannot fail. `NothingReadIsLost`: although nobody waits for a
request, a `run` that returns Ok has had all of them handled, because the Quit is
behind them. `FinishedRequestsAreHandled`: the stream of every connection is taken and,
if it is finished and does not fail, its message handled, whichever connection the map
keeps for the address and even if the request of another waits for ever. It promises
nothing for a stream that is not finished, such as the program's own greeting.
`WorkerEndsWithRun`: also on the early returns and the panic,
which skip `quit`.

### Bounds

* Hash sizes: two bytes of two bits are enough for the first and the last
  non-zero byte to differ and for targets with ranks on both sides; three bytes
  in `leading_zeros`. The theorems hold for all sizes.
* `MaxQueue` bounds the messages the environment of `WorkerHandle` puts before a
  worker; a worker that has one message in its replies and another queued meets
  every interleaving with drop, quit and clone. `MaxControllers` bounds the
  clones; one is enough because only "none or some" matters to the thread.
* `MaxElapsed` stops the clock after every delay has passed. `MaxPings` bounds
  the injected pings; two allow both directions at once, the case in which each
  side decides before the other's Pong has arrived.
* `NClients` is 2 (10 in the code): one client that `main` waits for first and one
  that it waits for later, each with failures of its own and those of the server.
  The safety theorems hold for any number.
* `old_peer` has two connections to one listener, so that one waits while the other
  is talked to, and its host has both tasks busy. A third connection only lengthens the
  queue. Each connection carries one stream in either direction, as the program opens
  no other.
* `peer2` has two connections because the map holds one per address; with a single
  address every insertion after the first replaces one. Either stream may be finished,
  unfinished or fail, so one request may hang while the other is served.
* The searches of FlatPeerMap are checked for every count that the assertion at the head
  of `find_closest_peers` lets through.
* No symmetry reduction is used: workers differ by id, and the liveness runs
  would not be sound under it.

### Fairness

Weak fairness of every worker thread, of the router loop and of the clock: the
operating system runs every runnable thread, and the loop never blocks (its
sleep is finite). `QuitJoin` is weakly fair because `join` returns once the
thread has ended. The owner is never obliged to clone, send, drop or quit, and
nobody is obliged to ping.

In QuicPeer one weak fairness condition covers all tasks: the single thread of the
runtime goes on while some task is woken. More is not needed, since no task takes
a step twice. A handshake nobody answers times out, as quinn's default idle
timeout sees to; no other failure is obliged to happen.

OldPeer likewise has one condition, over the threads of all peers and the handshakes;
in a finite instance every task takes finitely many steps, so it starves nobody. In
Peer2 the thread in `block_on` and the worker thread each go on, and so does a stream
that the other side has to open: that side runs the same program and greets every
connection. Nobody is obliged to finish a stream, nor a stream to fail unless its
connection is lost: a request on an unfinished one may wait for ever. Losing a
connection and the end of an endpoint are never obliged.

Deadlock is checked except where the system may stop: the `leading_zeros` loop
ends, a worker whose handle and clones are gone ends, and the QUIC peer ends when
`main` panics or comes to rest with an idle server. The older peers end with their
endpoint.

## 4. Theorems

All proofs are for every value of the constants that the named assumptions allow:
`HashAssumption`, `PeerMapAssumption`, `SelfAssumption`, `FlatAssumption`,
`NoneAssumption`, `WorkerAssumption`, `SimAssumption`, `ExchangeAssumption`,
`ClientsAssumption`, `OldPeerAssumption`, `Peer2Assumption`. They say that ids are hashes,
sizes are numbers, functions from workers or connections have their types, and `None` and
`"Quit"` are none of the things they stand beside. Every safety property of the passing
runs is a theorem.

**Loops.** The searches, `count` and `filter` are recursive functions, and the induction
theorems of the library take an operator that the provers cannot instantiate. `HashProofs`
therefore goes a way of its own, with sets for properties and functions for loop bodies:
`CountingUp` is induction up to a bound, by the least counterexample; `LoopStates` shows
that a loop of N iterations has a sequence of states, hence that the recursive function
exists and satisfies its equation. Each loop then has a loop invariant like any loop.

* **Distance rank** (`HashProofs!DistanceRank`): a rank is an index of the bucket
  vector, and the last bucket belongs to the own id alone. It rests on lemmas
  about Min and Max of bounded sets of naturals.
* **leading_zeros** (`RoutingTableProofs`, second part): type correctness, and the loop
  returns the closed form. The inductive invariant is `LoopInv`: the result so far is the
  first bit of the last non-zero byte already visited. `RankIndexesABucket` follows.
* **PeerMap** (`PeerMapProofs`, `RoutingTableProofs`): type correctness; `Placement`,
  which is inductive with the type invariant; and the refinement `KeepsEveryContact`: the
  initial table maps to the empty book and every insert to a `Put`. It needs `Placement`:
  the book of a table is what `contains` reads. `CountsWhatContainsFinds` follows the sum
  over the buckets: after k of them it is the number of peers below rank k (`PeersBelow`),
  and by `Placement` the next bucket shares nobody with these. The three properties of the
  search follow from the loop invariant `Searched` of `find_closest_peers`: the results
  start with the target's bucket, are entries of the table, and, while they are fewer than
  `bucket_size`, are complete for the buckets the guards have let in (`Reached`). It is
  shown for every iteration order. That an order goes through all known peers, and that
  there is one, so that a search has an answer at all, needs the set of ids to be finite
  (`FinitelyManyPeers`, `OrdersCover`, `OrdersExist`).
* **FlatPeerMap** (`FlatPeerMapProofs`): every insert writes one slot (`InsertWrites`):
  the one of the peer, the first empty one, or the evicted one. From this and `Shape`
  (the vector keeps its slots; `next_eviction` stays 0) follow `CountIsOccupied` with the
  bound of the type invariant, `TableInv`, `OldContactsStay` (the consequence of the
  commented-out round-robin) and the refinement
  `ForgetsAtMostOneOfTheSameRank`; the last needs `TableInv`, since a peer in a second slot
  would survive its eviction. `TableInv` is inductive as it stands: without "no holes" an
  insert behind a hole would break "no duplicates". The search has a loop invariant of its
  own, `Searched`: the first `count` results hold the whole table, or are different peers,
  or the results are too few, complete for the buckets seen and no bucket has been seen
  twice. The third case ends when the two directions meet, at half the number of buckets,
  and it is there that the whole table has been seen. `Wrapped` is the arithmetic of
  `wrapping_sub` and `%`.
* **Handles** (`WorkerProofs`, first part): type correctness for any number of workers,
  with what each handler leaves on the channels; `HandleInvariant`; and `QuitNeverFails`
  from it. `QuitNeverFails` is not inductive by itself: a held handle could have a Quit
  queued, or its thread could already have ended. `HandleInv` adds that only `quit` queues
  a Quit, after it has consumed the handle, and that a dead thread has an empty queue.
  It serves the proof only and is stated there.
  `ReplyMatchesTable` is inductive together with the placement of every worker's table
  (`ReplyInvOf`): the neighbors of an answer come out of all buckets while `contains` looks
  into one, and a table changes only when no reply is left to send.
* **Simulator** (`WorkerProofs`, second part): type correctness; `SimInv`, so that the
  router never meets a dead worker, however many workers claim one address; and
  `TruthInv`, so that no table holds a wrong address, both for any set of workers,
  ids, addresses and delays. `SimInv` is what makes "nobody panics" inductive: no
  Quit is ever queued, and the handle of a worker that is added or still queued is
  held, which needs the queue to have no worker twice. `TruthInv` makes the truth
  of the tables inductive by following every Pong through replies, message channel,
  router and control channel; the drain step takes the sender's address from the
  router's map and so needs `SimInv`'s part that a worker is at its own address.
* **Exchange of pings** (`WorkerProofs!ExchangeTellsTheTruth`): the steps of the simulator
  preserve both invariants wherever they start, so only the injected Ping is left to show.
  The theorem holds for any number of pings, where the run has two, and covers the pings
  that the workers send back.
* **QUIC peer** (`QuicPeerProofs`): `MainInv` with the type invariant is inductive
  for any number of clients, and `MainExitsLast` follows. By itself the latter is
  not inductive: `main` could be about to join a driver that panicked, or could
  have counted a client whose driver still runs. `MainInv` excludes both: no step
  makes a client's driver panic, because the driver's error is turned into a log
  line, and the counted clients have ended.
* **Old peer** (`OldPeerProofs`): `FailuresStayApart` for any number of peers, whoever
  bootstraps from whom, also from itself. It is inductive with `TasksInv`: a listener is
  given only connections to itself, a peer that has not started has no connection (so none
  that was lost is begun again), and only peers with a bootstrap peer have a bootstrap
  task.
* **Second peer** (`Peer2Proofs`): `PeerInv` for any number of connections. Both
  properties rest on the order of the channel: only `quit` sends a Quit, no task runs
  after that, so a Quit is the last item and everything forwarded is before it. A
  request that fails at its shutdown has been forwarded and is counted with the others.

Only model-checked, because fairness is out of the prover's reach: the liveness
properties (`QuitReturns`, `OrphanStops`, `PingAnswered`, `ReplacedWorkerStops`,
`BootstrapLearnsEveryone`, `HandshakeCompletes`, `TrafficEnds`, `ClientsEnd`,
`ServerTasksEnd`, `AnsweredUnlessCutOff`, `HeardInTurn`, `MessagesGetThrough`,
`FinishedRequestsAreHandled`, `WorkerEndsWithRun`).

## 5. Not modelled

* Hashing, base64, serde, Display and logging: they change no state, and no
  property depends on the text.
* `src/proto.rs`: declarations without behaviour.
* `src/connection_tests.rs`, `src/tests.rs`: tests that are not part of any build
  target.
* Of `src/peer.rs`: `handle_message_from`, `send_to_peer` (empty) and the PeerMap they
  would use, which nothing calls. Of both older peers: loading of keys and logging,
  whose errors are `StartFails` and `RunFails`.
* Of `src/bin/peer.rs`: command line options, TLS configuration and the certificate
  verifier, which are fixed before the tasks start, and a bootstrap peer in another
  process.

## 6. Plan

1. Hash and distance, the two tables, the abstract book. *Done.*
2. Worker, handle, simulator, the ping exchange. *Done.*
3. First theorems: ranks, PeerMap, handles, simulator. *Done.*
4. The QUIC peer and what its `main` waits for. *Done.*
5. The two older peers: their tasks, connections and, in `src/peer2.rs`, the worker.
   *Done.*
6. Theorems about the rest: the searches and counts of both tables, the flat table and
   its refinement of the book, the replies of a worker, the two older peers. *Done.*
7. Theorems about the exchange of pings (`SimInv` and `TruthInv` with injected pings).
   *Done.*
