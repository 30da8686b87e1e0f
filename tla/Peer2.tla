------------------------------- MODULE Peer2 -------------------------------
(***************************************************************************)
(* src/peer2.rs: a peer that forwards what it reads from its connections   *)
(* to a worker thread.  Every connection and every stream has tasks of its *)
(* own, all of them on the one thread that is in block_on; the worker is a *)
(* thread apart, reached through a channel.                                *)
(*                                                                         *)
(* Each connection carries one stream in either direction.  The program    *)
(* does not finish its own: the shutdown of the greeting is commented out. *)
(* A stream from a peer that runs it is dropped unfinished, and a          *)
(* read_to_end of it fails or waits; a peer like that of src/peer.rs does  *)
(* finish its stream.  The worker is the loop of src/worker.rs without its *)
(* table: it takes one message after the other.                            *)
(***************************************************************************)
EXTENDS Sequences, SequencesExt

CONSTANTS
  Conn,        \* the connections
  SocketAddr,
  None,
  RemoteAddr,  \* connection -> its remote address
  Bootstrap    \* the connections that run() opens itself: at most one

ASSUME Peer2Assumption ==
  /\ None \notin Conn
  /\ RemoteAddr \in [Conn -> SocketAddr]
  /\ Bootstrap \subseteq Conn
  /\ \A c, d \in Bootstrap : c = d
  /\ "Quit" \notin Conn

VARIABLES
  run,          \* "starting" | "driving" | "quitting" | "ok" | "failed" | "panicked"
  conn,         \* connection -> "none" | "handshake" | "open" | "lost"
  connections,  \* address -> the connection that is entered there, or None
  streams,      \* the task that waits for streams: "none" | "waiting" | "over"
  request,      \* the task that reads one: "none" | "reading" | "closing" | "done";
                \* "waiting" if the other side does not finish the stream;
                \* "failed" at the read, "unclosed" at the shutdown
  greeting,     \* the task that sends ours: "none" | "opening" | "writing" | "done" | "failed"
  control,      \* the channel to the worker: connections, then perhaps "Quit"
  handled,      \* the connections whose message the worker has taken
  worker        \* its thread: "running" | "ended" | "panicked"

taskVars == <<conn, connections, streams, request, greeting>>
vars     == <<run, taskVars, control, handled, worker>>

\* new(): the worker runs before anything else does.
Init ==
  /\ run = "starting"
  /\ conn        = [c \in Conn |-> "none"]
  /\ connections = [a \in SocketAddr |-> None]
  /\ streams     = [c \in Conn |-> "none"]
  /\ request     = [c \in Conn |-> "none"]
  /\ greeting    = [c \in Conn |-> "none"]
  /\ control = <<>>
  /\ handled = {}
  /\ worker = "running"
-----------------------------------------------------------------------------
(***************************************************************************)
(* run()                                                                   *)
(***************************************************************************)

\* The endpoint is bound, the listener spawned and the bootstrap connection begun.
Start ==
  /\ run = "starting"
  /\ run' = "driving"
  /\ conn' = [c \in Conn |-> IF c \in Bootstrap THEN "handshake" ELSE conn[c]]
  /\ UNCHANGED <<connections, streams, request, greeting, control, handled, worker>>

\* Whatever `?` meets before block_on returns, and the error of the driver: self is
\* dropped, and with it the handle of the worker and every task.
RunFails ==
  /\ run \in {"starting", "driving"}
  /\ run' = "failed"
  /\ UNCHANGED <<taskVars, control, handled, worker>>

DriverEnds_QuitOvertakes ==
  /\ run = "driving"
  /\ worker = "running"
  /\ run' = "quitting"
  /\ control' = <<"Quit">> \o control
  /\ UNCHANGED <<taskVars, handled, worker>>

\* The driver ends well; quit() puts the Quit behind all messages.  It fails if the
\* worker is gone.
DriverEnds ==
  /\ run = "driving"
  /\ IF worker = "running"
     THEN run' = "quitting" /\ control' = Append(control, "Quit")
     ELSE run' = "failed" /\ UNCHANGED control
  /\ UNCHANGED <<taskVars, handled, worker>>

\* ... and waits for its thread.
QuitJoin ==
  /\ run = "quitting"
  /\ worker # "running"
  /\ run' = IF worker = "ended" THEN "ok" ELSE "failed"
  /\ UNCHANGED <<taskVars, control, handled, worker>>
-----------------------------------------------------------------------------
(***************************************************************************)
(* The tasks                                                               *)
(***************************************************************************)

HandleConnection_NewAddressOnly(c) ==
  /\ run = "driving"
  /\ streams[c] = "none"
  /\ conn[c] = "open" \/ (conn[c] = "lost" /\ c \notin Bootstrap)
  /\ connections' = [connections EXCEPT ![RemoteAddr[c]] = IF @ = None THEN c ELSE @]
  /\ streams' = [streams EXCEPT ![c] = IF connections[RemoteAddr[c]] = None
                                       THEN "waiting" ELSE "over"]
  /\ greeting' = [greeting EXCEPT ![c] = "opening"]
  /\ UNCHANGED <<run, conn, request, control, handled, worker>>

\* The listener, or the bootstrap task once it is connected, enters the connection
\* into the map, in place of an older one with the same address, and spawns its
\* tasks.  An incoming connection may be lost before the listener gets to it.  The
\* handle that goes out of the map is dropped: if quinn closes the older connection
\* over that, it is a Lose.
HandleConnection(c) ==
  /\ run = "driving"
  /\ streams[c] = "none"
  /\ conn[c] = "open" \/ (conn[c] = "lost" /\ c \notin Bootstrap)
  /\ connections' = [connections EXCEPT ![RemoteAddr[c]] = c]
  /\ streams' = [streams EXCEPT ![c] = "waiting"]
  /\ greeting' = [greeting EXCEPT ![c] = "opening"]
  /\ UNCHANGED <<run, conn, request, control, handled, worker>>

\* The stream of the other side, which it will finish or not: read_message spawns a
\* task for it.
NewStream(c) ==
  /\ run = "driving"
  /\ streams[c] = "waiting"
  /\ conn[c] = "open"
  /\ request[c] = "none"
  /\ \E r \in {"reading", "waiting"} : request' = [request EXCEPT ![c] = r]
  /\ UNCHANGED <<run, conn, connections, streams, greeting, control, handled, worker>>

StreamsEnd_TellsTheWorker(c) ==
  /\ run = "driving"
  /\ streams[c] = "waiting"
  /\ conn[c] = "lost"
  /\ streams' = [streams EXCEPT ![c] = "over"]
  /\ control' = Append(control, "Quit")
  /\ UNCHANGED <<run, conn, connections, request, greeting, handled, worker>>

\* "connection terminated": the entry in the map stays.
StreamsEnd(c) ==
  /\ run = "driving"
  /\ streams[c] = "waiting"
  /\ conn[c] = "lost"
  /\ streams' = [streams EXCEPT ![c] = "over"]
  /\ UNCHANGED <<run, conn, connections, request, greeting, control, handled, worker>>

\* The finished stream is read to its end and forwarded; expect("TODO FDSAFDSAFA") if
\* the worker is gone.
ReadMessage(c) ==
  /\ run = "driving"
  /\ request[c] = "reading"
  /\ conn[c] = "open"
  /\ IF worker = "running"
     THEN /\ control' = Append(control, c)
          /\ request' = [request EXCEPT ![c] = "closing"]
          /\ UNCHANGED run
     ELSE run' = "panicked" /\ UNCHANGED <<control, request>>
  /\ UNCHANGED <<conn, connections, streams, greeting, handled, worker>>

\* The stream is shut down.
CloseRequest(c) ==
  /\ run = "driving"
  /\ request[c] = "closing"
  /\ conn[c] = "open"
  /\ request' = [request EXCEPT ![c] = "done"]
  /\ UNCHANGED <<run, conn, connections, streams, greeting, control, handled, worker>>

\* "request failed", at either await: with the connection, or with the stream alone,
\* which the other side may drop at any time or fill with more than 64 KiB.
RequestFails(c) ==
  /\ run = "driving"
  /\ request[c] \in {"reading", "waiting", "closing"}
  /\ request' = [request EXCEPT ![c] = IF @ = "closing" THEN "unclosed" ELSE "failed"]
  /\ UNCHANGED <<run, conn, connections, streams, greeting, control, handled, worker>>

\* open_bi and write_all of the outgoing stream, which is then dropped unfinished.
Greet(c) ==
  /\ run = "driving"
  /\ greeting[c] \in {"opening", "writing"}
  /\ conn[c] = "open"
  /\ greeting' = [greeting EXCEPT ![c] = IF @ = "opening" THEN "writing" ELSE "done"]
  /\ UNCHANGED <<run, conn, connections, streams, request, control, handled, worker>>

\* expect("Could not unwrap stream?"): the panic unwinds the thread in block_on, and
\* self is dropped.
OpenStreamPanics(c) ==
  /\ run = "driving"
  /\ greeting[c] = "opening"
  /\ conn[c] = "lost"
  /\ run' = "panicked"
  /\ UNCHANGED <<taskVars, control, handled, worker>>

\* "Failed to send request"
GreetingFails(c) ==
  /\ run = "driving"
  /\ greeting[c] = "writing"
  /\ conn[c] = "lost"
  /\ greeting' = [greeting EXCEPT ![c] = "failed"]
  /\ UNCHANGED <<run, conn, connections, streams, request, control, handled, worker>>
-----------------------------------------------------------------------------
(***************************************************************************)
(* The worker thread                                                       *)
(***************************************************************************)

HandleDropped_CloneSurvives == run = "ok"

\* With self go the handle and, as the tasks go too, all clones of its sender.
HandleDropped == run \in {"ok", "failed", "panicked"}

WorkerTakes ==
  /\ worker = "running"
  /\ control # <<>>
  /\ Head(control) # "Quit"
  /\ handled' = handled \cup {Head(control)}
  /\ control' = Tail(control)
  /\ UNCHANGED <<run, taskVars, worker>>

\* A Quit, or the last sender gone with nothing left to take.
WorkerEnds ==
  /\ worker = "running"
  /\ \/ control # <<>> /\ Head(control) = "Quit"
     \/ control = <<>> /\ HandleDropped
  /\ worker' = "ended"
  /\ control' = <<>>
  /\ UNCHANGED <<run, taskVars, handled>>

\* A message to answer, and nobody left who could receive the answer.
WorkerPanics ==
  /\ worker = "running"
  /\ control # <<>>
  /\ HandleDropped
  /\ worker' = "panicked"
  /\ control' = <<>>
  /\ UNCHANGED <<run, taskVars, handled>>
-----------------------------------------------------------------------------
(***************************************************************************)
(* The network                                                             *)
(***************************************************************************)

\* A handshake succeeds; that of an incoming connection is begun by the other side.
Handshake(c) ==
  /\ run = "driving"
  /\ conn[c] = IF c \in Bootstrap THEN "handshake" ELSE "none"
  /\ conn' = [conn EXCEPT ![c] = "open"]
  /\ UNCHANGED <<run, connections, streams, request, greeting, control, handled, worker>>

Lose(c) ==
  /\ run = "driving"
  /\ conn[c] \in {"handshake", "open"}
  /\ conn' = [conn EXCEPT ![c] = "lost"]
  /\ UNCHANGED <<run, connections, streams, request, greeting, control, handled, worker>>
-----------------------------------------------------------------------------
handle_connection(c) ==
  \/ HandleConnection(c) \/ NewStream(c) \/ StreamsEnd(c)
  \/ Greet(c) \/ OpenStreamPanics(c) \/ GreetingFails(c)

read_message(c) ==
  ReadMessage(c) \/ CloseRequest(c) \/ RequestFails(c)

worker_step == WorkerTakes \/ WorkerEnds \/ WorkerPanics

Next ==
  \/ Start \/ RunFails \/ DriverEnds \/ QuitJoin
  \/ worker_step
  \/ \E c \in Conn :
       handle_connection(c) \/ read_message(c) \/ Handshake(c) \/ Lose(c)

Spec == Init /\ [][Next]_vars

\* Both threads go on; within block_on no task takes a step twice, so none is
\* starved by the others.  The other side of a connection opens its stream; nothing
\* obliges it to finish it, or the stream to fail unless its connection is lost.
Fairness ==
  /\ WF_vars(Start \/ QuitJoin)
  /\ WF_vars(\E c \in Conn :
               \/ handle_connection(c) \/ ReadMessage(c) \/ CloseRequest(c)
               \/ conn[c] = "lost" /\ RequestFails(c))
  /\ WF_vars(worker_step)

FairSpec == Spec /\ Fairness
-----------------------------------------------------------------------------
(***************************************************************************)
(* The worker is there for as long as a task may forward to it, and for    *)
(* quit(): the expect() in read_message never fails, and run() fails only  *)
(* by what `?` meets or the panic of a lost connection.                    *)
(***************************************************************************)
WorkerOutlivesTasks ==
  /\ run \in {"starting", "driving"} => worker = "running"
  /\ run = "quitting" => worker # "panicked"
  /\ run = "panicked" =>
       \E c \in Conn : greeting[c] = "opening" /\ conn[c] = "lost"

(***************************************************************************)
(* A run() that returns Ok has had every request it read handled by the    *)
(* worker, although it never waits for a request: quit() waits behind all  *)
(* of them.  Until then none is lost on the way, also if the request fails *)
(* at the shutdown of its stream.                                          *)
(***************************************************************************)
NothingReadIsLost ==
  run \in {"driving", "quitting", "ok"} =>
    \A c \in Conn : request[c] \in {"closing", "done", "unclosed"} =>
      c \in handled \/ (run # "ok" /\ c \in ToSet(control))

(***************************************************************************)
(* Every connection has its stream taken, and the message of a stream that *)
(* is finished is handled, unless the stream or the connection fails:      *)
(* whichever of the connections with its address the map keeps, and even   *)
(* if the stream of another is never finished and its request waits for    *)
(* ever.                                                                   *)
(***************************************************************************)
FinishedRequestsAreHandled ==
  \A c \in Conn :
    conn[c] = "open" ~>
      \/ c \in handled \/ request[c] \in {"waiting", "failed"}
      \/ conn[c] = "lost" \/ run # "driving"

(***************************************************************************)
(* However run() ends, so does the worker: by the Quit, or because its     *)
(* handle and all clones of its sender went with self.                     *)
(***************************************************************************)
WorkerEndsWithRun ==
  run \in {"quitting", "failed", "panicked"} ~> run # "quitting" /\ worker # "running"
=============================================================================
