------------------------------ MODULE QuicPeer ------------------------------
(***************************************************************************)
(* src/bin/peer.rs: a server and some clients that talk to it over QUIC,   *)
(* all of them tasks of one single-threaded tokio runtime, and main, which *)
(* starts them and waits for their endpoint drivers.                       *)
(*                                                                         *)
(* The bootstrap peer is the server of this process (the default options). *)
(* A task is polled only while main is in block_on.  What quinn does is    *)
(* modelled by what the tasks see of it: per client one connection, which  *)
(* is open, closed by the client or lost.                                  *)
(***************************************************************************)
EXTENDS Integers

CONSTANT NClients   \* 10 in the code
ASSUME ClientsAssumption == NClients \in Nat \ {0}

VARIABLES
  main,       \* "client" | "server" | "wait" | "panicked"
  handles,    \* how many clients main has started; then how many it has waited for
  client,     \* the task of run_client that connects and asks
  endpoint,   \* the client's endpoint driver, the handle that main waits for
  conn,       \* its connection: "none" | "handshake" | "open" | "closed" | "lost"
  server,     \* the server's endpoint driver
  handler,    \* the server's task for the connection (handle_connection)
  driver,     \* the connection driver that this task spawns
  request     \* the server's task for the request (handle_request)

vars == <<main, handles, client, endpoint, conn, server, handler, driver, request>>

Client == 1 .. NClients

ClientEnded(c)  == client[c] \in {"done", "panicked"}
HandlerEnded(c) == handler[c] \in {"ok", "failed"}

Init ==
  /\ main = "client"
  /\ handles = 0
  /\ client   = [c \in Client |-> "none"]
  /\ endpoint = [c \in Client |-> "none"]
  /\ conn     = [c \in Client |-> "none"]
  /\ server = "none"
  /\ handler  = [c \in Client |-> "none"]
  /\ driver   = [c \in Client |-> "none"]
  /\ request  = [c \in Client |-> "none"]
-----------------------------------------------------------------------------
(***************************************************************************)
(* main                                                                    *)
(***************************************************************************)

\* client::run_client up to its return: bind, and spawn the two tasks.
RunClient ==
  /\ main = "client"
  /\ handles' = handles + 1
  /\ client'   = [client EXCEPT ![handles + 1] = "start"]
  /\ endpoint' = [endpoint EXCEPT ![handles + 1] = "running"]
  /\ main' = IF handles + 1 = NClients THEN "server" ELSE "client"
  /\ UNCHANGED <<conn, server, handler, driver, request>>

\* server::run_server up to its return; then main waits for the first handle.
RunServer ==
  /\ main = "server"
  /\ server' = "running"
  /\ main' = "wait"
  /\ handles' = 0
  /\ UNCHANGED <<client, endpoint, conn, handler, driver, request>>

\* The expect() at either bind: main panics before any task has run.
BindFails ==
  /\ main \in {"client", "server"}
  /\ main' = "panicked"
  /\ UNCHANGED <<handles, client, endpoint, conn, server, handler, driver, request>>

\* block_on returns for the next client: its driver has ended.  The driver turns
\* an error into a log line, so both expect() calls find an Ok.
JoinClient ==
  /\ main = "wait"
  /\ handles < NClients
  /\ endpoint[handles + 1] \in {"ended", "panicked"}
  /\ IF endpoint[handles + 1] = "ended"
     THEN handles' = handles + 1 /\ UNCHANGED main
     ELSE main' = "panicked" /\ UNCHANGED handles
  /\ UNCHANGED <<client, endpoint, conn, server, handler, driver, request>>

\* block_on returns for the server, whose driver ends only by a panic: the accept
\* loop holds on to its endpoint.  The second expect() passes the panic on.
JoinServer ==
  /\ main = "wait"
  /\ handles = NClients
  /\ server = "panicked"
  /\ main' = "panicked"
  /\ UNCHANGED <<handles, client, endpoint, conn, server, handler, driver, request>>
-----------------------------------------------------------------------------
(***************************************************************************)
(* The tasks of a client                                                   *)
(***************************************************************************)

\* endpoint.connect(&server_addr, "localhost")
Connect(c) ==
  /\ main = "wait"
  /\ client[c] = "start"
  /\ client' = [client EXCEPT ![c] = "connecting"]
  /\ conn' = [conn EXCEPT ![c] = IF endpoint[c] = "running" THEN "handshake" ELSE "lost"]
  /\ UNCHANGED <<main, handles, endpoint, server, handler, driver, request>>

\* The handshake is over once the server has taken the connection up.
Connected(c) ==
  /\ main = "wait"
  /\ client[c] = "connecting"
  /\ conn[c] = "handshake"
  /\ handler[c] # "none"
  /\ conn' = [conn EXCEPT ![c] = "open"]
  /\ client' = [client EXCEPT ![c] = "opening"]
  /\ UNCHANGED <<main, handles, endpoint, server, handler, driver, request>>

\* open_bi, write_all and finish, one await after the other.
After == [opening |-> "writing", writing |-> "finishing", finishing |-> "reading"]

Ask(c) ==
  /\ main = "wait"
  /\ client[c] \in DOMAIN After
  /\ conn[c] = "open"
  /\ client' = [client EXCEPT ![c] = After[client[c]]]
  /\ UNCHANGED <<main, handles, endpoint, conn, server, handler, driver, request>>

\* recv.read_to_end: the server has written all and called finish().
ReadResponse(c) ==
  /\ main = "wait"
  /\ client[c] = "reading"
  /\ conn[c] = "open"
  /\ request[c] \in {"finishing", "done"}
  /\ client' = [client EXCEPT ![c] = "printing"]
  /\ UNCHANGED <<main, handles, endpoint, conn, server, handler, driver, request>>

\* The task ends, by return or by panic, and drops its connection with it.
ClientEnds(c, how) ==
  /\ client' = [client EXCEPT ![c] = how]
  /\ conn' = [conn EXCEPT ![c] = IF @ = "open" THEN "closed" ELSE @]
  /\ UNCHANGED <<main, handles, endpoint, server, handler, driver, request>>

Printed(c) ==
  /\ main = "wait"
  /\ client[c] = "printing"
  /\ ClientEnds(c, "done")

\* The unwrap() of a write to stdout.
StdoutFails(c) ==
  /\ main = "wait"
  /\ client[c] = "printing"
  /\ ClientEnds(c, "panicked")

ClientPanics_ReadsForEver(c) ==
  /\ main = "wait"
  /\ client[c] \in {"connecting"} \cup DOMAIN After
  /\ conn[c] = "lost"
  /\ ClientEnds(c, "panicked")

\* The unwrap() and the expect("TODO") calls on the way: the connection is gone.
ClientPanics(c) ==
  /\ main = "wait"
  /\ client[c] \in {"connecting", "reading"} \cup DOMAIN After
  /\ conn[c] = "lost"
  /\ ClientEnds(c, "panicked")

\* The endpoint driver returns when endpoint and connections are gone.
EndpointEnds(c) ==
  /\ main = "wait"
  /\ endpoint[c] = "running"
  /\ ClientEnded(c)
  /\ endpoint' = [endpoint EXCEPT ![c] = "ended"]
  /\ UNCHANGED <<main, handles, client, conn, server, handler, driver, request>>

\* The connection goes with the endpoint driver of either side.
Lost(c) == IF conn[c] \in {"handshake", "open"} THEN "lost" ELSE conn[c]

EndpointFails_Panics(c) ==
  /\ main = "wait"
  /\ endpoint[c] = "running"
  /\ endpoint' = [endpoint EXCEPT ![c] = "panicked"]
  /\ conn' = [conn EXCEPT ![c] = Lost(c)]
  /\ UNCHANGED <<main, handles, client, server, handler, driver, request>>

\* "Probably fatal IO error in client": logged, and the driver is over.
EndpointFails(c) ==
  /\ main = "wait"
  /\ endpoint[c] = "running"
  /\ endpoint' = [endpoint EXCEPT ![c] = "ended"]
  /\ conn' = [conn EXCEPT ![c] = Lost(c)]
  /\ UNCHANGED <<main, handles, client, server, handler, driver, request>>
-----------------------------------------------------------------------------
(***************************************************************************)
(* The tasks of the server                                                 *)
(***************************************************************************)

\* The accept loop of run_server spawns handle_connection.  The loop ends when
\* the driver is gone.
Accept(c) ==
  /\ main = "wait"
  /\ server = "running"
  /\ conn[c] = "handshake"
  /\ handler[c] = "none"
  /\ handler' = [handler EXCEPT ![c] = "accepting"]
  /\ UNCHANGED <<main, handles, client, endpoint, conn, server, driver, request>>

\* conn.await succeeds; the connection driver becomes a task of its own.
Established(c) ==
  /\ main = "wait"
  /\ handler[c] = "accepting"
  /\ conn[c] \in {"open", "closed"}
  /\ handler' = [handler EXCEPT ![c] = "streams"]
  /\ driver' = [driver EXCEPT ![c] = "running"]
  /\ UNCHANGED <<main, handles, client, endpoint, conn, server, request>>

\* "Error in new connection"
NotEstablished(c) ==
  /\ main = "wait"
  /\ handler[c] = "accepting"
  /\ conn[c] = "lost"
  /\ handler' = [handler EXCEPT ![c] = "failed"]
  /\ UNCHANGED <<main, handles, client, endpoint, conn, server, driver, request>>

\* bi_streams.next() yields the stream of the client, which the first data opens.
HandleStream(c) ==
  /\ main = "wait"
  /\ handler[c] = "streams"
  /\ conn[c] = "open"
  /\ client[c] \in {"finishing", "reading"}
  /\ request[c] = "none"
  /\ request' = [request EXCEPT ![c] = "reading"]
  /\ UNCHANGED <<main, handles, client, endpoint, conn, server, handler, driver>>

\* ApplicationClosed: on to driver_handle.await.
StreamsClosed(c) ==
  /\ main = "wait"
  /\ handler[c] = "streams"
  /\ conn[c] = "closed"
  /\ handler' = [handler EXCEPT ![c] = "joining"]
  /\ UNCHANGED <<main, handles, client, endpoint, conn, server, driver, request>>

\* Any other error leaves handle_connection at once.
StreamsFail(c) ==
  /\ main = "wait"
  /\ handler[c] = "streams"
  /\ conn[c] = "lost"
  /\ handler' = [handler EXCEPT ![c] = "failed"]
  /\ UNCHANGED <<main, handles, client, endpoint, conn, server, driver, request>>

DriverEnds_OnlyIfLost(c) ==
  /\ main = "wait"
  /\ driver[c] = "running"
  /\ conn[c] = "lost"
  /\ driver' = [driver EXCEPT ![c] = "ended"]
  /\ UNCHANGED <<main, handles, client, endpoint, conn, server, handler, request>>

\* The connection driver returns, whatever ended the connection.
DriverEnds(c) ==
  /\ main = "wait"
  /\ driver[c] = "running"
  /\ conn[c] \in {"closed", "lost"}
  /\ driver' = [driver EXCEPT ![c] = "ended"]
  /\ UNCHANGED <<main, handles, client, endpoint, conn, server, handler, request>>

\* driver_handle.await.expect("TODO")
JoinDriver(c) ==
  /\ main = "wait"
  /\ handler[c] = "joining"
  /\ driver[c] = "ended"
  /\ handler' = [handler EXCEPT ![c] = "ok"]
  /\ UNCHANGED <<main, handles, client, endpoint, conn, server, driver, request>>

\* The three awaits of handle_request.  The request is read to its end, which may
\* arrive while the client still waits in finish(); the last await ends when the
\* client has acknowledged all.
Progress == [reading |-> "writing", writing |-> "finishing", finishing |-> "done"]

HandleRequest_NeverFinishes(c) ==
  /\ main = "wait"
  /\ request[c] = "reading"
  /\ conn[c] = "open"
  /\ client[c] \in {"finishing", "reading"}
  /\ request' = [request EXCEPT ![c] = "writing"]
  /\ UNCHANGED <<main, handles, client, endpoint, conn, server, handler, driver>>

HandleRequest(c) ==
  /\ main = "wait"
  /\ request[c] \in DOMAIN Progress
  /\ conn[c] = "open"
  /\ request[c] = "reading" => client[c] \in {"finishing", "reading"}
  /\ request' = [request EXCEPT ![c] = Progress[request[c]]]
  /\ UNCHANGED <<main, handles, client, endpoint, conn, server, handler, driver>>

\* Any of them fails with the connection.
RequestFails(c) ==
  /\ main = "wait"
  /\ request[c] \in DOMAIN Progress
  /\ conn[c] \in {"closed", "lost"}
  /\ request' = [request EXCEPT ![c] = "failed"]
  /\ UNCHANGED <<main, handles, client, endpoint, conn, server, handler, driver>>

\* driver.unwrap_or_else(|e| panic!("IO error: {}", e))
ServerFails ==
  /\ main = "wait"
  /\ server = "running"
  /\ server' = "panicked"
  /\ conn' = [c \in Client |-> Lost(c)]
  /\ UNCHANGED <<main, handles, client, endpoint, handler, driver, request>>
-----------------------------------------------------------------------------
(***************************************************************************)
(* The network                                                             *)
(***************************************************************************)

\* A connection may be lost at any time.
Lose(c) ==
  /\ main = "wait"
  /\ conn[c] \in {"handshake", "open"}
  /\ conn' = [conn EXCEPT ![c] = "lost"]
  /\ UNCHANGED <<main, handles, client, endpoint, server, handler, driver, request>>

\* A handshake that nobody answers times out.
HandshakeTimeout(c) ==
  /\ server # "running"
  /\ conn[c] = "handshake"
  /\ Lose(c)
-----------------------------------------------------------------------------
main_step == RunClient \/ RunServer \/ BindFails \/ JoinClient \/ JoinServer

client_step(c) ==
  Connect(c) \/ Connected(c) \/ Ask(c) \/ ReadResponse(c) \/ Printed(c) \/ ClientPanics(c)

handler_step(c) ==
  \/ Accept(c) \/ Established(c) \/ NotEstablished(c) \/ HandleStream(c)
  \/ StreamsClosed(c) \/ StreamsFail(c) \/ JoinDriver(c)

request_step(c) == HandleRequest(c) \/ RequestFails(c)

\* The tasks that concern client c, on both sides.
task_step(c) ==
  client_step(c) \/ EndpointEnds(c) \/ handler_step(c) \/ DriverEnds(c) \/ request_step(c)

\* What nobody has to do.
Failure(c) == StdoutFails(c) \/ EndpointFails(c) \/ Lose(c)

Next ==
  \/ main_step \/ ServerFails
  \/ \E c \in Client : task_step(c) \/ Failure(c)

Spec == Init /\ [][Next]_vars

\* The one thread goes on while some task is woken, and handshakes time out.  No
\* task takes a step twice, so none is starved by the others.
Fairness ==
  WF_vars(main_step \/ \E c \in Client : task_step(c) \/ HandshakeTimeout(c))

FairSpec == Spec /\ Fairness
-----------------------------------------------------------------------------
TypeOK ==
  /\ main \in {"client", "server", "wait", "panicked"}
  /\ handles \in 0 .. NClients
  /\ client \in [Client -> {"none", "start", "connecting", "opening", "writing",
                            "finishing", "reading", "printing", "done", "panicked"}]
  /\ endpoint \in [Client -> {"none", "running", "ended", "panicked"}]
  /\ conn \in [Client -> {"none", "handshake", "open", "closed", "lost"}]
  /\ server \in {"none", "running", "panicked"}
  /\ handler \in [Client -> {"none", "accepting", "streams", "joining", "ok", "failed"}]
  /\ driver \in [Client -> {"none", "running", "ended"}]
  /\ request \in [Client -> {"none", "reading", "writing", "finishing", "done", "failed"}]

(***************************************************************************)
(* "We keep a list of all the things we have to wait to finish, and don't  *)
(* exit until they are all complete": once everything is started, main     *)
(* goes down only with the server, and after the endpoints of all clients; *)
(* no panic of a client, of a handler or of a request reaches it.          *)
(***************************************************************************)
MainExitsLast ==
  main = "panicked" /\ server # "none" =>
    server = "panicked" /\ \A c \in Client : endpoint[c] = "ended"

(***************************************************************************)
(* Why: no client driver ever hands a panic on, and main has seen the end  *)
(* of every client it has counted.                                         *)
(***************************************************************************)
MainInv ==
  /\ MainExitsLast
  /\ main \in {"client", "server"} => server = "none"
  /\ main = "client" => handles < NClients
  /\ \A c \in Client : endpoint[c] # "panicked"
  /\ main = "wait" => \A c \in 1 .. handles : endpoint[c] = "ended"

(***************************************************************************)
(* Whatever fails, main gets past the clients: each of their tasks ends    *)
(* and lets go of its endpoint.                                            *)
(***************************************************************************)
ClientsEnd ==
  main = "wait" ~> main = "panicked" \/ handles = NClients

(***************************************************************************)
(* The server is left with nothing of a connection it has taken up: the    *)
(* handler ends, and so do its connection driver and its request, which it *)
(* does not wait for when the connection fails.                            *)
(***************************************************************************)
ServerTasksEnd ==
  \A c \in Client :
    handler[c] # "none" ~>
      \/ main = "panicked"
      \/ HandlerEnded(c) /\ driver[c] # "running" /\ request[c] \notin DOMAIN Progress

(***************************************************************************)
(* A client is answered unless its own connection or the server is lost,   *)
(* whatever happens to the other clients.                                  *)
(***************************************************************************)
AnsweredUnlessCutOff ==
  \A c \in Client :
    /\ <>(main = "wait")
    /\ [](conn[c] # "lost" /\ server # "panicked" /\ client[c] # "panicked")
    => <>(client[c] = "done")
=============================================================================
