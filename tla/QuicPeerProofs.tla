--------------------------- MODULE QuicPeerProofs ---------------------------
(***************************************************************************)
(* For any number of clients, main of src/bin/peer.rs outlives them all.   *)
(***************************************************************************)
EXTENDS QuicPeer, TLAPS

\* Every step of main keeps the types; the bound on the counter needs MainInv.
LEMMA MainTypeOK ==
  ASSUME TypeOK, MainInv, main_step
  PROVE  TypeOK'
<1> USE ClientsAssumption DEF TypeOK
<1>1. CASE RunClient
  <2>1. handles < NClients
    BY <1>1 DEF RunClient, MainInv
  <2>2. handles + 1 \in 0 .. NClients
    BY <2>1
  <2> QED  BY <1>1, <2>2 DEF RunClient
<1>2. CASE RunServer  BY <1>2 DEF RunServer
<1>3. CASE BindFails  BY <1>3 DEF BindFails
<1>4. CASE JoinClient
  <2>1. handles + 1 \in 0 .. NClients
    BY <1>4 DEF JoinClient
  <2> QED  BY <1>4, <2>1 DEF JoinClient
<1>5. CASE JoinServer BY <1>5 DEF JoinServer
<1> QED  BY <1>1, <1>2, <1>3, <1>4, <1>5 DEF main_step

\* Every step of a client, of its endpoint or of the network keeps the types.
LEMMA ClientTypeOK ==
  ASSUME TypeOK, NEW c \in Client, client_step(c) \/ EndpointEnds(c) \/ Failure(c)
  PROVE  TypeOK'
<1> USE DEF TypeOK
<1>1. CASE Connect(c)      BY <1>1 DEF Connect
<1>2. CASE Connected(c)    BY <1>2 DEF Connected
<1>3. CASE Ask(c)          BY <1>3 DEF Ask, After
<1>4. CASE ReadResponse(c) BY <1>4 DEF ReadResponse
<1>5. CASE Printed(c)      BY <1>5 DEF Printed, ClientEnds
<1>6. CASE StdoutFails(c)  BY <1>6 DEF StdoutFails, ClientEnds
<1>7. CASE ClientPanics(c) BY <1>7 DEF ClientPanics, ClientEnds
<1>8. CASE EndpointEnds(c) BY <1>8 DEF EndpointEnds
<1>9. CASE EndpointFails(c)
  <2>1. Lost(c) \in {"none", "handshake", "open", "closed", "lost"}
    BY DEF Lost
  <2> QED  BY <1>9, <2>1 DEF EndpointFails
<1>10. CASE Lose(c)        BY <1>10 DEF Lose
<1> QED  BY <1>1, <1>2, <1>3, <1>4, <1>5, <1>6, <1>7, <1>8, <1>9, <1>10 DEF client_step, Failure

\* Every step of the server's tasks keeps the types.
LEMMA ServerTypeOK ==
  ASSUME TypeOK, NEW c \in Client, handler_step(c) \/ DriverEnds(c) \/ request_step(c)
  PROVE  TypeOK'
<1> USE DEF TypeOK
<1>1. CASE Accept(c)         BY <1>1 DEF Accept
<1>2. CASE Established(c)    BY <1>2 DEF Established
<1>3. CASE NotEstablished(c) BY <1>3 DEF NotEstablished
<1>4. CASE HandleStream(c)   BY <1>4 DEF HandleStream
<1>5. CASE StreamsClosed(c)  BY <1>5 DEF StreamsClosed
<1>6. CASE StreamsFail(c)    BY <1>6 DEF StreamsFail
<1>7. CASE JoinDriver(c)     BY <1>7 DEF JoinDriver
<1>8. CASE DriverEnds(c)     BY <1>8 DEF DriverEnds
<1>9. CASE HandleRequest(c)  BY <1>9 DEF HandleRequest, Progress
<1>10. CASE RequestFails(c)  BY <1>10 DEF RequestFails
<1> QED  BY <1>1, <1>2, <1>3, <1>4, <1>5, <1>6, <1>7, <1>8, <1>9, <1>10
         DEF handler_step, request_step

\* MainInv looks at main, the counter, the server and the endpoints only, and
\* what leaves main alone can only end a client's endpoint or fail the server.
LEMMA TasksKeepMainInv ==
  ASSUME TypeOK, MainInv, main = "wait", UNCHANGED <<main, handles>>,
         server' \in {server, "panicked"},
         \A c \in Client : endpoint'[c] = endpoint[c] \/ endpoint'[c] = "ended"
  PROVE  MainInv'
<1>1. \A c \in 1 .. handles : c \in Client
  BY ClientsAssumption DEF TypeOK, Client
<1> QED  BY <1>1 DEF MainInv, MainExitsLast, TypeOK

(***************************************************************************)
(* The inductive invariant: types, and why main exits last, in every       *)
(* behaviour with any number of clients.                                   *)
(***************************************************************************)
THEOREM QuicInvariant == Spec => [](TypeOK /\ MainInv)
<1>1. Init => TypeOK /\ MainInv
  BY ClientsAssumption DEF Init, TypeOK, MainInv, MainExitsLast, Client
<1>2. ASSUME TypeOK, MainInv, [Next]_vars
      PROVE  TypeOK' /\ MainInv'
  <2> USE <1>2
  <2>1. CASE main_step
    <3>1. TypeOK'
      BY <2>1, MainTypeOK
    <3>2. MainInv'
      <4> USE ClientsAssumption DEF MainInv, MainExitsLast, TypeOK, Client
      <4>1. CASE RunClient  BY <4>1 DEF RunClient
      <4>2. CASE RunServer  BY <4>2 DEF RunServer
      <4>3. CASE BindFails  BY <4>3 DEF BindFails
      <4>4. CASE JoinClient
        <5>1. /\ main = "wait" /\ handles < NClients
              /\ endpoint[handles + 1] = "ended"
              /\ handles' = handles + 1
              /\ UNCHANGED <<main, endpoint, server>>
          BY <4>4 DEF JoinClient
        <5>2. \A c \in 1 .. handles + 1 : endpoint[c] = "ended"
          BY <5>1
        <5> QED  BY <5>1, <5>2
      <4>5. CASE JoinServer BY <4>5 DEF JoinServer
      <4> QED  BY <2>1, <4>1, <4>2, <4>3, <4>4, <4>5 DEF main_step
    <3> QED  BY <3>1, <3>2
  <2>2. CASE ServerFails
    <3>1. \A c \in Client : Lost(c) \in {"none", "handshake", "open", "closed", "lost"}
      BY DEF Lost, TypeOK
    <3>2. TypeOK'
      BY <2>2, <3>1 DEF ServerFails, TypeOK
    <3> QED  BY <2>2, <3>2, TasksKeepMainInv DEF ServerFails
  <2>3. ASSUME NEW c \in Client, client_step(c) \/ EndpointEnds(c) \/ Failure(c)
        PROVE  TypeOK' /\ MainInv'
    <3>1. /\ main = "wait" /\ UNCHANGED <<main, handles, server>>
          /\ endpoint' = endpoint \/ endpoint' = [endpoint EXCEPT ![c] = "ended"]
      BY <2>3 DEF client_step, Failure, Connect, Connected, Ask, ReadResponse, Printed,
                  StdoutFails, ClientPanics, ClientEnds, EndpointEnds, EndpointFails, Lose
    <3>2. \A d \in Client : endpoint'[d] = endpoint[d] \/ endpoint'[d] = "ended"
      BY <3>1 DEF TypeOK
    <3> QED  BY <2>3, <3>1, <3>2, ClientTypeOK, TasksKeepMainInv
  <2>4. ASSUME NEW c \in Client, handler_step(c) \/ DriverEnds(c) \/ request_step(c)
        PROVE  TypeOK' /\ MainInv'
    <3>1. main = "wait" /\ UNCHANGED <<main, handles, server, endpoint>>
      BY <2>4 DEF handler_step, request_step, Accept, Established, NotEstablished,
                  HandleStream, StreamsClosed, StreamsFail, JoinDriver, DriverEnds,
                  HandleRequest, RequestFails
    <3> QED  BY <2>4, <3>1, ServerTypeOK, TasksKeepMainInv
  <2>5. CASE UNCHANGED vars
    BY <2>5 DEF vars, TypeOK, MainInv, MainExitsLast
  <2> QED  BY <2>1, <2>2, <2>3, <2>4, <2>5 DEF Next, task_step
<1> QED  BY <1>1, <1>2, PTL DEF Spec

(***************************************************************************)
(* main of src/bin/peer.rs, once everything is started, goes down only     *)
(* with the server and after the endpoints of all clients.                 *)
(***************************************************************************)
THEOREM MainOutlivesClients == Spec => []MainExitsLast
<1>1. MainInv => MainExitsLast
  BY DEF MainInv
<1> QED  BY <1>1, QuicInvariant, PTL
=============================================================================
