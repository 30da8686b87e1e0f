------------------------------ MODULE WorkerSim ------------------------------
(***************************************************************************)
(* src/bin/sim.rs: several workers and the loop that carries their         *)
(* messages.  The workers are threads of their own from the moment they    *)
(* are created; the loop reaches only those it has added.                  *)
(*                                                                         *)
(* The router drains one worker after the other, then delivers what it has *)
(* drained message by message, and only then adds the next worker.         *)
(***************************************************************************)
EXTENDS Worker

CONSTANTS
  bootstrap,    \* the address new workers are told about
  AddOrder,     \* the workers in the order of the add_new_worker calls
  Delay,        \* worker -> delay before it is added
  MaxElapsed    \* bound: the clock stops here, past every delay

ASSUME SimAssumption ==
  /\ bootstrap \in SocketAddr
  /\ None \notin Worker
  /\ AddOrder \in Seq(Worker) /\ IsInjective(AddOrder)
  /\ Delay \in [Worker -> Nat]
  /\ MaxElapsed \in Nat
  /\ \A w \in Worker : Delay[w] < MaxElapsed

VARIABLES
  workers,            \* address -> the worker added there, or None
  worker_add_queue,   \* workers still to be added; the last one is next
  elapsed,            \* start.elapsed()
  messages,           \* sequence of <<source, destination, message>>
  to_drain,           \* the addresses `for (src, worker) in &self.workers` has left
  router              \* "add" | "collect" | "deliver" | "panicked"

routerVars == <<workers, worker_add_queue, elapsed, messages, to_drain, router>>
vars       == <<workerVars, routerVars>>

\* The two messages that add_new_worker puts on the control channel of the new
\* worker itself, as if the bootstrap node had sent them.
FirstMessages(w) ==
  <<Incoming(bootstrap, Ping(IdOf[w])), Incoming(bootstrap, FindPeer(IdOf[w]))>>

\* The workers of s in another order.
Orders(s) ==
  {q \in [DOMAIN s -> ToSet(s)] : IsInjective(q) /\ ToSet(q) = ToSet(s)}

sorted_Ascending(s) ==
  {q \in Orders(s) : \A i, j \in DOMAIN q : i < j => Delay[q[i]] <= Delay[q[j]]}

\* The stable sort at the head of run, longest delay first (one sequence).
sorted(s) ==
  {q \in Orders(s) : \A i, j \in DOMAIN q : i < j =>
     \/ Delay[q[i]] > Delay[q[j]]
     \/ Delay[q[i]] = Delay[q[j]]
        /\ \E k, l \in DOMAIN s : k < l /\ s[k] = q[i] /\ s[l] = q[j]}

Init ==
  /\ WorkerInit([w \in Worker |-> FirstMessages(w)])
  /\ workers = [a \in SocketAddr |-> None]
  /\ worker_add_queue \in sorted(AddOrder)
  /\ elapsed = 0
  /\ messages = <<>>
  /\ to_drain = {}
  /\ router = "add"
-----------------------------------------------------------------------------
Added(a) == workers[a] # None

Tick ==
  /\ elapsed < MaxElapsed
  /\ elapsed' = elapsed + 1
  /\ UNCHANGED <<workerVars, workers, worker_add_queue, messages, to_drain, router>>

\* dur < start.elapsed() for the worker on top of the queue.
Due == worker_add_queue # <<>> /\ Delay[Last(worker_add_queue)] < elapsed

AddWorker_Peeks ==
  /\ router = "add"
  /\ Due
  /\ LET w == Last(worker_add_queue)
     IN  /\ workers' = [workers EXCEPT ![AddrOf[w]] = w]
         /\ to_drain' = {b \in SocketAddr : Added(b)} \cup {AddrOf[w]}
  /\ router' = "collect"
  /\ UNCHANGED <<workerVars, worker_add_queue, elapsed, messages>>

\* The worker on top of the queue is due: add_worker.  A worker that was at the
\* same address goes, and its handle is dropped with it.
AddWorker ==
  /\ router = "add"
  /\ Due
  /\ LET w   == Last(worker_add_queue)
         a   == AddrOf[w]
         old == {v \in Worker : v = workers[a]}
     IN  /\ workers' = [workers EXCEPT ![a] = w]
         /\ to_drain' = {b \in SocketAddr : Added(b)} \cup {a}
         /\ handle' = [v \in Worker |-> IF v \in old THEN "dropped" ELSE handle[v]]
         /\ outbox' = [v \in Worker |-> IF v \in old THEN <<>> ELSE outbox[v]]
  /\ worker_add_queue' = Front(worker_add_queue)
  /\ router' = "collect"
  /\ UNCHANGED <<control, to_send, peer_map, thread, controllers, elapsed, messages>>

\* Nobody is due.
AddNobody ==
  /\ router = "add"
  /\ ~Due
  /\ to_drain' = {a \in SocketAddr : Added(a)}
  /\ router' = "collect"
  /\ UNCHANGED <<workerVars, workers, worker_add_queue, elapsed, messages>>

\* `while let Ok((dst, msg)) = worker.recv_message()`, up to the try_recv that
\* finds the channel empty.  A message taken earlier in this loop might as well
\* be taken at that moment: the channel has no bound, so the worker cannot tell.
Collect(a) ==
  /\ router = "collect"
  /\ a \in to_drain
  /\ messages' = messages \o [n \in 1 .. Len(outbox[workers[a]]) |->
                    <<a, outbox[workers[a]][n][1], outbox[workers[a]][n][2]>>]
  /\ outbox' = [outbox EXCEPT ![workers[a]] = <<>>]
  /\ to_drain' = to_drain \ {a}
  /\ UNCHANGED <<control, to_send, peer_map, thread, handle, controllers>>
  /\ UNCHANGED <<workers, worker_add_queue, elapsed, router>>

EndCollect ==
  /\ router = "collect"
  /\ to_drain = {}
  /\ router' = "deliver"
  /\ UNCHANGED <<workerVars, workers, worker_add_queue, elapsed, messages, to_drain>>

\* The worker at the destination gets the message; the loop panics if its thread
\* has ended ("Sent message to nonexistent worker?").
Deliver ==
  /\ router = "deliver"
  /\ messages # <<>>
  /\ Added(Head(messages)[2])
  /\ LET w == workers[Head(messages)[2]]
     IN  /\ control' = [control EXCEPT ![w] =
                          Enqueue(w, Incoming(Head(messages)[1], Head(messages)[3]))]
         /\ router' = IF thread[w] = "running" THEN router ELSE "panicked"
  /\ messages' = Tail(messages)
  /\ UNCHANGED <<outbox, to_send, peer_map, thread, handle, controllers>>
  /\ UNCHANGED <<workers, worker_add_queue, elapsed, to_drain>>

\* "Messages to unknown addresses get ignored."
DeliverUnknown ==
  /\ router = "deliver"
  /\ messages # <<>>
  /\ ~Added(Head(messages)[2])
  /\ messages' = Tail(messages)
  /\ UNCHANGED <<workerVars, workers, worker_add_queue, elapsed, to_drain, router>>

EndDeliver ==
  /\ router = "deliver"
  /\ messages = <<>>
  /\ router' = "add"
  /\ UNCHANGED <<workerVars, workers, worker_add_queue, elapsed, messages, to_drain>>

route ==
  \/ AddWorker \/ AddNobody
  \/ (\E a \in SocketAddr : Collect(a)) \/ EndCollect
  \/ Deliver \/ DeliverUnknown \/ EndDeliver

thread_step == \E w \in Worker : run(w) /\ UNCHANGED routerVars

Next == route \/ thread_step \/ Tick

Spec == Init /\ [][Next]_vars

\* The loop runs, the clock moves and every thread is scheduled.
Fairness ==
  /\ WF_vars(route)
  /\ WF_vars(Tick)
  /\ \A w \in Worker : WF_vars(run(w) /\ UNCHANGED routerVars)

FairSpec == Spec /\ Fairness
-----------------------------------------------------------------------------
IsEnvelope(e) == e[1] \in SocketAddr /\ e[2] \in SocketAddr /\ IsMessage(e[3])

TypeOK ==
  /\ WorkerTypeOK
  /\ workers \in [SocketAddr -> Worker \cup {None}]
  /\ worker_add_queue \in Seq(Worker)
  /\ elapsed \in 0 .. MaxElapsed
  /\ IsSeq(messages) /\ \A e \in ToSet(messages) : IsEnvelope(e)
  /\ to_drain \subseteq {a \in SocketAddr : Added(a)}
  /\ router \in {"add", "collect", "deliver", "panicked"}

\* A worker with this id has this address.
LivesAt(id, addr) == \E v \in Worker : IdOf[v] = id /\ AddrOf[v] = addr

(***************************************************************************)
(* No table ever holds a wrong address, although add_new_worker injects a  *)
(* Ping that shows the new worker's id coming from the bootstrap address:  *)
(* only a Pong enters a peer, and every Pong arrives with the address of   *)
(* the worker that made it.                                                *)
(***************************************************************************)
AddressTruth ==
  \A w \in Worker, p \in PeerId, k \in Rank :
    peer_map[w][k][p] # None => LivesAt(p, peer_map[w][k][p])

(***************************************************************************)
(* The inductive form: every Pong on its way tells the truth too.          *)
(***************************************************************************)
TruthInv ==
  /\ AddressTruth
  /\ \A w \in Worker :
       /\ \A c \in ToSet(control[w]) :
            c.type = "Incoming" /\ c.msg.type = "Pong" => LivesAt(c.msg.id, c.source)
       /\ \A o \in ToSet(outbox[w]) : o[2].type = "Pong" => o[2].id = IdOf[w]
       /\ \A o \in ToSet(to_send[w]) : o[2].type = "Pong" => o[2].id = IdOf[w]
  /\ \A e \in ToSet(messages) : e[3].type = "Pong" => LivesAt(e[3].id, e[1])

(***************************************************************************)
(* The expect() calls of the loop and of the workers it carries messages   *)
(* for hold: the router never meets a dead worker, and a worker dies only  *)
(* if another one took its address.                                        *)
(***************************************************************************)
NobodyPanics ==
  /\ router # "panicked"
  /\ \A w \in Worker : thread[w] # "running" => handle[w] = "dropped"

(***************************************************************************)
(* Why: nobody queues a Quit, and the handle of a worker that is added or  *)
(* waiting to be added is held; it is dropped only when the worker loses   *)
(* its address.                                                            *)
(***************************************************************************)
SimInv ==
  /\ NobodyPanics
  /\ \A w \in Worker :
       /\ handle[w] \in {"held", "dropped"}
       /\ \A c \in ToSet(control[w]) : c.type # "Quit"
  /\ \A a \in SocketAddr : Added(a) =>
       /\ handle[workers[a]] = "held"
       /\ AddrOf[workers[a]] = a
       /\ workers[a] \notin ToSet(worker_add_queue)
  /\ \A w \in ToSet(worker_add_queue) : handle[w] = "held"
  /\ IsInjective(worker_add_queue)

Knows(w, p) == contains(peer_map[w], IdOf[w], p) # None

Quiet ==
  /\ messages = <<>>
  /\ \A w \in Worker : control[w] = <<>> /\ to_send[w] = <<>> /\ outbox[w] = <<>>

(***************************************************************************)
(* The traffic dies down: pings and the pings they provoke do not go on    *)
(* for ever.                                                               *)
(***************************************************************************)
TrafficEnds == <>[]Quiet

(***************************************************************************)
(* Every worker of the simulation ends up in the table of the bootstrap    *)
(* node.                                                                   *)
(***************************************************************************)
BootstrapLearnsEveryone ==
  <>[](\A b, w \in Worker : AddrOf[b] = bootstrap => Knows(b, IdOf[w]))

(***************************************************************************)
(* A worker whose address was given to another one is not told to quit,    *)
(* but the end of its handle ends its thread.                              *)
(***************************************************************************)
ReplacedWorkerStops ==
  \A w \in Worker : handle[w] = "dropped" ~> thread[w] # "running"
-----------------------------------------------------------------------------
(***************************************************************************)
(* sim.rs: "the worker will send a message to it trying to look up its own *)
(* address to get some nearby peers": a worker comes to know another peer. *)
(***************************************************************************)
NewcomersLearnSomePeer ==
  \A w \in {v \in Worker : AddrOf[v] # bootstrap} : <>(\E p \in PeerId \ {IdOf[w]} : Knows(w, p))
=============================================================================
