---------------------------- MODULE WorkerProofs ----------------------------
(***************************************************************************)
(* Worker threads, for any set of workers, ids, addresses and delays.      *)
(* First what the channel operations and a step of a thread do, whoever    *)
(* owns the handles; then WorkerHandle: quit() never fails and replies say *)
(* what the table says; then WorkerSim: the router never meets a dead      *)
(* worker, and no table holds a wrong address; last PeerExchange: nor does *)
(* one when the workers ping each other.                                   *)
(***************************************************************************)
EXTENDS WorkerHandle, PeerExchange, PeerMapProofs

\* A sequence over any set is a sequence over its own items.
LEMMA SeqOfItems ==
  ASSUME NEW T, NEW s \in Seq(T)
  PROVE  IsSeq(s)
BY DEF IsSeq, ToSet

\* An empty channel holds nothing.
LEMMA NoItems ==
  ASSUME NEW s, s = <<>>
  PROVE  IsSeq(s) /\ ToSet(s) = {}
<1>1. s \in Seq({})
  OBVIOUS
<1>2. DOMAIN s = {}
  OBVIOUS
<1>3. ToSet(s) = {}
  BY <1>2, Zenon DEF ToSet
<1>4. IsSeq(s)
  BY <1>1, SeqOfItems
<1>5. QED  BY <1>3, <1>4

\* A send adds its item to the channel.
LEMMA AppendSeq ==
  ASSUME NEW s, IsSeq(s), NEW x
  PROVE  IsSeq(Append(s, x)) /\ ToSet(Append(s, x)) = ToSet(s) \cup {x}
<1> DEFINE T == ToSet(s) \cup {x}
           t == Append(s, x)
<1>1. s \in Seq(ToSet(s))
  BY DEF IsSeq
<1>2. s \in Seq(T) /\ \A n \in 1 .. Len(s) : s[n] \in ToSet(s)
  BY <1>1
<1>3. t \in Seq(T) /\ Len(t) = Len(s) + 1 /\ t[Len(s) + 1] = x
      /\ \A n \in 1 .. Len(s) : t[n] = s[n]
  BY <1>2
<1>4. IsSeq(t)
  BY <1>3, SeqOfItems
<1>5. DOMAIN t = 1 .. Len(s) + 1 /\ DOMAIN s = 1 .. Len(s) /\ Len(s) \in Nat
  BY <1>2, <1>3
<1>6. ToSet(t) = {t[n] : n \in 1 .. Len(s) + 1} /\ ToSet(s) = {s[n] : n \in 1 .. Len(s)}
  BY <1>5 DEF ToSet
<1> HIDE DEF t, T
<1>7. ToSet(t) = ToSet(s) \cup {x}
  BY <1>3, <1>5, <1>6
<1> QED  BY <1>4, <1>7 DEF t

\* A receive takes an item of the channel and leaves the others.
LEMMA HeadTailSeq ==
  ASSUME NEW s, IsSeq(s), s # <<>>
  PROVE  IsSeq(Tail(s)) /\ ToSet(Tail(s)) \subseteq ToSet(s) /\ Head(s) \in ToSet(s)
<1>1. s \in Seq(ToSet(s))
  BY DEF IsSeq
<1>2. Tail(s) \in Seq(ToSet(s)) /\ Head(s) \in ToSet(s)
  BY <1>1
<1>3. ToSet(Tail(s)) \subseteq ToSet(s)
  BY <1>2 DEF ToSet
<1> QED  BY <1>2, <1>3, SeqOfItems

\* Replies are sequences of one item or two.
LEMMA OneTwoSeq ==
  ASSUME NEW x, NEW y
  PROVE  /\ IsSeq(<<x>>) /\ ToSet(<<x>>) = {x}
         /\ IsSeq(<<x, y>>) /\ ToSet(<<x, y>>) = {x, y}
<1>1. <<x>> \in Seq({x}) /\ <<x, y>> \in Seq({x, y})
  OBVIOUS
<1>2. ToSet(<<x>>) = {x} /\ ToSet(<<x, y>>) = {x, y}
  BY DEF ToSet
<1> QED  BY <1>1, <1>2, SeqOfItems

\* Two sequences put together hold the items of both.
LEMMA ConcatSeq ==
  ASSUME NEW s, IsSeq(s), NEW t, IsSeq(t)
  PROVE  IsSeq(s \o t) /\ ToSet(s \o t) = ToSet(s) \cup ToSet(t)
<1> DEFINE T == ToSet(s) \cup ToSet(t)
<1>1. s \in Seq(T) /\ t \in Seq(T)
  BY DEF IsSeq
<1>2. s \o t \in Seq(T) /\ Len(s \o t) = Len(s) + Len(t)
      /\ (\A n \in 1 .. Len(s) : (s \o t)[n] = s[n])
      /\ (\A n \in 1 .. Len(t) : (s \o t)[Len(s) + n] = t[n])
  BY <1>1
<1>3. ToSet(s \o t) \subseteq T
  BY <1>2 DEF ToSet
<1>4. ToSet(s) \subseteq ToSet(s \o t)
  BY <1>1, <1>2 DEF ToSet
<1>5. ToSet(t) \subseteq ToSet(s \o t)
  <2> SUFFICES ASSUME NEW n \in DOMAIN t PROVE t[n] \in ToSet(s \o t)
    BY DEF ToSet
  <2>1. n \in 1 .. Len(t) /\ Len(s) \in Nat /\ Len(t) \in Nat
    BY <1>1
  <2>2. Len(s) + n \in DOMAIN (s \o t)
    BY <1>2, <2>1
  <2> QED  BY <1>2, <2>1, <2>2 DEF ToSet
<1> QED  BY <1>2, <1>3, <1>4, <1>5, SeqOfItems
-----------------------------------------------------------------------------
\* The table that WorkerState::start makes is one, with the worker in its place.
LEMMA StartTypeOK ==
  ASSUME NEW w \in Worker
  PROVE  start(w) \in PeerMaps /\ Placed(start(w), IdOf[w])
BY WorkerAssumption, EmptyTable, InsertFacts DEF start

\* Workers start well formed if the messages queued for them are.
LEMMA InitTypeOK ==
  ASSUME NEW queued, WorkerInit(queued), DOMAIN queued = Worker,
         \A w \in Worker : IsSeq(queued[w]) /\ \A c \in ToSet(queued[w]) : IsWorkerMessage(c)
  PROVE  WorkerTypeOK
<1>1. \A w \in Worker : control[w] = queued[w] /\ outbox[w] = <<>> /\ to_send[w] = <<>>
  BY DEF WorkerInit
<1>2. \A w \in Worker : /\ IsSeq(outbox[w]) /\ ToSet(outbox[w]) = {}
                        /\ IsSeq(to_send[w]) /\ ToSet(to_send[w]) = {}
  BY <1>1, NoItems
<1>3. peer_map \in [Worker -> PeerMaps]
  BY StartTypeOK DEF WorkerInit
<1>4. controllers \in [Worker -> 0 .. MaxControllers]
  BY WorkerAssumption DEF WorkerInit
<1>5. /\ DOMAIN control = Worker /\ DOMAIN outbox = Worker /\ DOMAIN to_send = Worker
      /\ thread \in [Worker -> {"running", "exited", "panicked"}]
      /\ handle \in [Worker -> {"held", "quitting", "joined", "failed", "dropped"}]
  BY DEF WorkerInit
<1> QED  BY <1>1, <1>2, <1>3, <1>4, <1>5 DEF WorkerTypeOK

\* The message a thread is about to handle, and what is left behind it.
LEMMA IncomingFacts ==
  ASSUME WorkerTypeOK, NEW w \in Worker, control[w] # <<>>
  PROVE  /\ Head(control[w]) \in ToSet(control[w])
         /\ IsWorkerMessage(Head(control[w]))
         /\ IsSeq(Tail(control[w]))
         /\ ToSet(Tail(control[w])) \subseteq ToSet(control[w])
         /\ \A c \in ToSet(Tail(control[w])) : IsWorkerMessage(c)
BY HeadTailSeq DEF WorkerTypeOK

\* A send on the control channel adds at most its item.
LEMMA EnqueueFacts ==
  ASSUME WorkerTypeOK, NEW w \in Worker, NEW item
  PROVE  /\ IsSeq(Enqueue(w, item))
         /\ ToSet(Enqueue(w, item)) \subseteq ToSet(control[w]) \cup {item}
BY AppendSeq DEF WorkerTypeOK, Enqueue

\* The replies to one message.
LEMMA RepliesFacts ==
  ASSUME NEW a \in SocketAddr, NEW m, IsMessage(m), NEW n, IsMessage(n), NEW s,
         s = << <<a, m>> >> \/ s = << <<a, m>>, <<a, n>> >>
  PROVE  IsSeq(s) /\ \A o \in ToSet(s) : IsOutgoing(o)
<1> DEFINE x == <<a, m>>
           y == <<a, n>>
<1>1. IsOutgoing(x) /\ IsOutgoing(y)
  BY DEF IsOutgoing
<1>2. s = <<x>> \/ s = <<x, y>>
  OBVIOUS
<1> HIDE DEF x, y
<1>3. CASE s = <<x>>
  <2>1. IsSeq(s) /\ ToSet(s) = {x}
    BY <1>3, OneTwoSeq, Zenon
  <2> QED  BY <1>1, <2>1
<1>4. CASE s = <<x, y>>
  <2>1. IsSeq(s) /\ ToSet(s) = {x, y}
    BY <1>4, OneTwoSeq, Zenon
  <2> QED  BY <1>1, <2>1
<1> QED  BY <1>2, <1>3, <1>4

(***************************************************************************)
(* Handling a message: the head of the control channel goes, replies and a *)
(* new routing table may come.                                             *)
(***************************************************************************)
LEMMA HandledTypeOK ==
  ASSUME WorkerTypeOK, NEW w \in Worker, control[w] # <<>>,
         control' = [control EXCEPT ![w] = Tail(@)],
         DOMAIN to_send' = Worker,
         \A v \in Worker \ {w} : to_send'[v] = to_send[v],
         IsSeq(to_send'[w]), \A o \in ToSet(to_send'[w]) : IsOutgoing(o),
         peer_map' \in [Worker -> PeerMaps],
         UNCHANGED <<outbox, thread, handle, controllers>>
  PROVE  WorkerTypeOK'
<1>1. control'[w] = Tail(control[w]) /\ DOMAIN control' = Worker
      /\ \A v \in Worker \ {w} : control'[v] = control[v]
  BY DEF WorkerTypeOK
<1>2. IsSeq(control'[w]) /\ \A c \in ToSet(control'[w]) : IsWorkerMessage(c)
  BY <1>1, IncomingFacts
<1> QED  BY <1>1, <1>2 DEF WorkerTypeOK

(***************************************************************************)
(* A thread that ends leaves empty queues.                                 *)
(***************************************************************************)
LEMMA StopTypeOK ==
  ASSUME WorkerTypeOK, NEW w \in Worker, NEW how \in {"exited", "panicked"}, Stop(w, how)
  PROVE  WorkerTypeOK'
<1>1. control'[w] = <<>> /\ to_send'[w] = <<>>
  BY DEF Stop, WorkerTypeOK
<1>2. /\ IsSeq(control'[w]) /\ ToSet(control'[w]) = {}
      /\ IsSeq(to_send'[w]) /\ ToSet(to_send'[w]) = {}
  BY <1>1, NoItems
<1>3. /\ DOMAIN control' = Worker /\ DOMAIN to_send' = Worker
      /\ \A v \in Worker \ {w} : control'[v] = control[v] /\ to_send'[v] = to_send[v]
      /\ thread' \in [Worker -> {"running", "exited", "panicked"}]
      /\ UNCHANGED <<outbox, peer_map, handle, controllers>>
  BY DEF Stop, WorkerTypeOK
<1> QED  BY <1>2, <1>3 DEF WorkerTypeOK

(***************************************************************************)
(* A step of a thread keeps the state of all workers well formed.          *)
(***************************************************************************)
LEMMA RunTypeOK ==
  ASSUME WorkerTypeOK, NEW w \in Worker, run(w)
  PROVE  WorkerTypeOK'
<1> DEFINE in == Head(control[w])
<1>0. ASSUME NEW types, HasIncoming(w, types)
      PROVE  /\ control[w] # <<>>
             /\ in.source \in SocketAddr
             /\ in.msg.type \in types
             /\ in.msg.id \in PeerId
             /\ to_send[w] = <<>>
  <2>1. control[w] # <<>> /\ in.type = "Incoming" /\ in.msg.type \in types
        /\ to_send[w] = <<>>
    BY <1>0 DEF HasIncoming, AtRecv
  <2> QED  BY <2>1, IncomingFacts DEF IsWorkerMessage, IsMessage
<1>id. IdOf[w] \in PeerId
  BY WorkerAssumption
<1>1. CASE RecvPing(w)
  <2>1. control[w] # <<>> /\ in.source \in SocketAddr
    BY <1>0, <1>1 DEF RecvPing
  <2>2. IsMessage(Pong(IdOf[w])) /\ IsMessage(Ping(IdOf[w]))
    BY <1>id DEF IsMessage, Pong, Ping
  <2>3. \/ to_send'[w] = << <<in.source, Pong(IdOf[w])>> >>
        \/ to_send'[w] = << <<in.source, Pong(IdOf[w])>>, <<in.source, Ping(IdOf[w])>> >>
    BY <1>1 DEF RecvPing, WorkerTypeOK
  <2>4. IsSeq(to_send'[w]) /\ \A o \in ToSet(to_send'[w]) : IsOutgoing(o)
    <3> HIDE DEF in
    <3> QED  BY <2>1, <2>2, <2>3, RepliesFacts
  <2>5. /\ control' = [control EXCEPT ![w] = Tail(@)]
        /\ DOMAIN to_send' = Worker
        /\ \A v \in Worker \ {w} : to_send'[v] = to_send[v]
        /\ peer_map' \in [Worker -> PeerMaps]
        /\ UNCHANGED <<outbox, thread, handle, controllers>>
    BY <1>1 DEF RecvPing, WorkerTypeOK
  <2> QED  BY <2>1, <2>4, <2>5, HandledTypeOK
<1>2. CASE RecvPong(w)
  <2>1. control[w] # <<>> /\ in.source \in SocketAddr /\ in.msg.id \in PeerId
    BY <1>0, <1>2 DEF RecvPong
  <2>2. insert(peer_map[w], IdOf[w], in.source, in.msg.id) \in PeerMaps
    BY <1>id, <2>1, InsertFacts DEF WorkerTypeOK
  <2>3. peer_map' \in [Worker -> PeerMaps]
    BY <1>2, <2>2 DEF RecvPong, WorkerTypeOK
  <2>4. /\ control' = [control EXCEPT ![w] = Tail(@)]
        /\ UNCHANGED <<to_send, outbox, thread, handle, controllers>>
    BY <1>2 DEF RecvPong
  <2>5. /\ DOMAIN to_send' = Worker /\ \A v \in Worker \ {w} : to_send'[v] = to_send[v]
        /\ IsSeq(to_send'[w]) /\ \A o \in ToSet(to_send'[w]) : IsOutgoing(o)
    BY <2>4 DEF WorkerTypeOK
  <2> QED  BY <2>1, <2>3, <2>4, <2>5, HandledTypeOK
<1>3. CASE RecvFindPeer(w)
  <2>1. control[w] # <<>> /\ in.source \in SocketAddr /\ in.msg.id \in PeerId
    BY <1>0, <1>3 DEF RecvFindPeer
  <2>2. PICK found \in lookup(peer_map[w], IdOf[w], in.msg.id) :
          to_send' = [to_send EXCEPT ![w] =
             << <<in.source, IF found.addr # None
                             THEN PeerFound(in.msg.id, found.addr)
                             ELSE PeerNotFound(in.msg.id, found.neighbors)>> >>]
    BY <1>3 DEF RecvFindPeer
  <2> DEFINE reply == IF found.addr # None
                      THEN PeerFound(in.msg.id, found.addr)
                      ELSE PeerNotFound(in.msg.id, found.neighbors)
  <2>3. IsMessage(reply)
    BY <2>1 DEF IsMessage, PeerFound, PeerNotFound, Responses
  <2>4. to_send'[w] = << <<in.source, reply>> >>
    BY <2>2 DEF WorkerTypeOK
  <2>5. IsSeq(to_send'[w]) /\ \A o \in ToSet(to_send'[w]) : IsOutgoing(o)
    <3> HIDE DEF reply, in
    <3> QED  BY <2>1, <2>3, <2>4, RepliesFacts
  <2>6. /\ control' = [control EXCEPT ![w] = Tail(@)]
        /\ UNCHANGED <<peer_map, outbox, thread, handle, controllers>>
    BY <1>3 DEF RecvFindPeer
  <2>7. /\ DOMAIN to_send' = Worker
        /\ \A v \in Worker \ {w} : to_send'[v] = to_send[v]
        /\ peer_map' \in [Worker -> PeerMaps]
    BY <2>2, <2>6 DEF WorkerTypeOK
  <2> QED  BY <2>1, <2>5, <2>6, <2>7, HandledTypeOK
<1>4. CASE RecvOther(w)
  <2>1. /\ control[w] # <<>>
        /\ control' = [control EXCEPT ![w] = Tail(@)]
        /\ UNCHANGED <<to_send, peer_map, outbox, thread, handle, controllers>>
    BY <1>4 DEF RecvOther, HasIncoming
  <2>2. /\ DOMAIN to_send' = Worker /\ \A v \in Worker \ {w} : to_send'[v] = to_send[v]
        /\ IsSeq(to_send'[w]) /\ \A o \in ToSet(to_send'[w]) : IsOutgoing(o)
        /\ peer_map' \in [Worker -> PeerMaps]
    BY <2>1 DEF WorkerTypeOK
  <2> QED  BY <2>1, <2>2, HandledTypeOK
<1>5. CASE RecvQuit(w) \/ RecvDisconnected(w) \/ SendPanics(w)
  <2>1. Stop(w, "exited") \/ Stop(w, "panicked")
    BY <1>5 DEF RecvQuit, RecvDisconnected, SendPanics
  <2> QED  BY <2>1, StopTypeOK
<1>6. CASE Send(w)
  <2> DEFINE o == Head(to_send[w])
  <2>1. /\ IsSeq(Tail(to_send[w])) /\ ToSet(Tail(to_send[w])) \subseteq ToSet(to_send[w])
        /\ o \in ToSet(to_send[w])
    BY <1>6, HeadTailSeq DEF Send, WorkerTypeOK
  <2>2. IsOutgoing(o)
    BY <2>1 DEF WorkerTypeOK
  <2>3. IsSeq(Append(outbox[w], o)) /\ ToSet(Append(outbox[w], o)) = ToSet(outbox[w]) \cup {o}
    BY AppendSeq DEF WorkerTypeOK
  <2>4. /\ outbox'[w] = Append(outbox[w], o) /\ to_send'[w] = Tail(to_send[w])
        /\ DOMAIN outbox' = Worker /\ DOMAIN to_send' = Worker
        /\ \A v \in Worker \ {w} : outbox'[v] = outbox[v] /\ to_send'[v] = to_send[v]
        /\ UNCHANGED <<control, peer_map, thread, handle, controllers>>
    BY <1>6 DEF Send, WorkerTypeOK
  <2>5. /\ IsSeq(outbox'[w]) /\ \A x \in ToSet(outbox'[w]) : IsOutgoing(x)
        /\ IsSeq(to_send'[w]) /\ \A x \in ToSet(to_send'[w]) : IsOutgoing(x)
    <3> HIDE DEF o
    <3> QED  BY <2>1, <2>2, <2>3, <2>4 DEF WorkerTypeOK
  <2> QED  BY <2>4, <2>5 DEF WorkerTypeOK
<1> QED  BY <1>1, <1>2, <1>3, <1>4, <1>5, <1>6 DEF run
-----------------------------------------------------------------------------
\* What the owner may put on a control channel is well formed.
LEMMA IncomingMessagesTyped ==
  ASSUME NEW a \in SocketAddr, NEW msg \in IncomingMessages
  PROVE  IsWorkerMessage(Incoming(a, msg)) /\ Incoming(a, msg).type = "Incoming"
<1>1. IsMessage(msg)
  BY DEF IncomingMessages, IsMessage, Ping, Pong, FindPeer, PeerNotFound, Responses
<1> QED  BY <1>1 DEF IsWorkerMessage, Incoming

\* The operations of WorkerHandle and of its clones keep the types.
LEMMA OwnerTypeOK ==
  ASSUME WorkerTypeOK, NEW w \in Worker, owner(w)
  PROVE  WorkerTypeOK'
<1>1. CASE Controller(w) \/ DropController(w)
  <2>1. UNCHANGED <<threadVars, handle>>
    BY <1>1 DEF Controller, DropController
  <2>2. controllers' \in [Worker -> 0 .. MaxControllers]
    BY <1>1, WorkerAssumption DEF Controller, DropController, WorkerTypeOK
  <2> QED  BY <2>1, <2>2 DEF WorkerTypeOK, threadVars
<1>2. ASSUME NEW item, IsWorkerMessage(item),
             control' = [control EXCEPT ![w] = Enqueue(w, item)]
      PROVE  /\ DOMAIN control' = Worker
             /\ \A v \in Worker : /\ IsSeq(control'[v])
                                  /\ \A c \in ToSet(control'[v]) : IsWorkerMessage(c)
  <2>1. /\ IsSeq(Enqueue(w, item))
        /\ ToSet(Enqueue(w, item)) \subseteq ToSet(control[w]) \cup {item}
    BY EnqueueFacts
  <2>2. \A c \in ToSet(Enqueue(w, item)) : IsWorkerMessage(c)
    BY <1>2, <2>1 DEF WorkerTypeOK
  <2>3. DOMAIN control' = Worker /\ control'[w] = Enqueue(w, item)
        /\ \A v \in Worker \ {w} : control'[v] = control[v]
    BY <1>2 DEF WorkerTypeOK
  <2> QED  BY <2>1, <2>2, <2>3 DEF WorkerTypeOK
<1>3. CASE \E source \in SocketAddr, msg \in IncomingMessages : Message(w, source, msg)
  <2>1. PICK source \in SocketAddr, msg \in IncomingMessages : Message(w, source, msg)
    BY <1>3
  <2>2. IsWorkerMessage(Incoming(source, msg))
    BY IncomingMessagesTyped
  <2>3. /\ control' = [control EXCEPT ![w] = Enqueue(w, Incoming(source, msg))]
        /\ UNCHANGED <<outbox, to_send, peer_map, thread, handle, controllers>>
    BY <2>1 DEF Message
  <2>4. /\ DOMAIN control' = Worker
        /\ \A v \in Worker : /\ IsSeq(control'[v])
                             /\ \A c \in ToSet(control'[v]) : IsWorkerMessage(c)
    BY <1>2, <2>2, <2>3
  <2> QED  BY <2>3, <2>4 DEF WorkerTypeOK
<1>4. ASSUME NEW s, IsSeq(s), ToSet(s) \subseteq ToSet(outbox[w]),
             DOMAIN outbox' = Worker, outbox'[w] = s,
             \A v \in Worker \ {w} : outbox'[v] = outbox[v]
      PROVE  \A v \in Worker : IsSeq(outbox'[v]) /\ \A o \in ToSet(outbox'[v]) : IsOutgoing(o)
  BY <1>4 DEF WorkerTypeOK
<1>5. CASE RecvMessage(w)
  <2>1. IsSeq(Tail(outbox[w])) /\ ToSet(Tail(outbox[w])) \subseteq ToSet(outbox[w])
    BY <1>5, HeadTailSeq DEF RecvMessage, WorkerTypeOK
  <2>2. /\ DOMAIN outbox' = Worker /\ outbox'[w] = Tail(outbox[w])
        /\ \A v \in Worker \ {w} : outbox'[v] = outbox[v]
        /\ UNCHANGED <<control, to_send, peer_map, thread, handle, controllers>>
    BY <1>5 DEF RecvMessage, WorkerTypeOK
  <2>3. \A v \in Worker : IsSeq(outbox'[v]) /\ \A o \in ToSet(outbox'[v]) : IsOutgoing(o)
    BY <1>4, <2>1, <2>2
  <2> QED  BY <2>2, <2>3 DEF WorkerTypeOK
<1>6. CASE QuitSend(w)
  <2>1. IsWorkerMessage(Quit)
    BY DEF IsWorkerMessage, Quit
  <2>2. /\ DOMAIN control' = Worker
        /\ \A v \in Worker : /\ IsSeq(control'[v])
                             /\ \A c \in ToSet(control'[v]) : IsWorkerMessage(c)
    BY <1>2, <1>6, <2>1 DEF QuitSend
  <2>3. IsSeq(<<>>) /\ ToSet(<<>>) = {}
    BY NoItems
  <2>4. /\ DOMAIN outbox' = Worker /\ outbox'[w] \in {outbox[w], <<>>}
        /\ \A v \in Worker \ {w} : outbox'[v] = outbox[v]
    BY <1>6 DEF QuitSend, WorkerTypeOK
  <2>5. \A v \in Worker : IsSeq(outbox'[v]) /\ \A o \in ToSet(outbox'[v]) : IsOutgoing(o)
    BY <1>4, <2>3, <2>4 DEF WorkerTypeOK
  <2>6. /\ handle' \in [Worker -> {"held", "quitting", "joined", "failed", "dropped"}]
        /\ UNCHANGED <<to_send, peer_map, thread, controllers>>
    BY <1>6 DEF QuitSend, WorkerTypeOK
  <2> QED  BY <2>2, <2>4, <2>5, <2>6 DEF WorkerTypeOK
<1>7. CASE QuitJoin(w) \/ DropHandle(w)
  <2>1. IsSeq(<<>>) /\ ToSet(<<>>) = {}
    BY NoItems
  <2>2. /\ DOMAIN outbox' = Worker /\ outbox'[w] = <<>>
        /\ \A v \in Worker \ {w} : outbox'[v] = outbox[v]
        /\ handle' \in [Worker -> {"held", "quitting", "joined", "failed", "dropped"}]
        /\ UNCHANGED <<control, to_send, peer_map, thread, controllers>>
    BY <1>7 DEF QuitJoin, DropHandle, WorkerTypeOK
  <2>3. \A v \in Worker : IsSeq(outbox'[v]) /\ \A o \in ToSet(outbox'[v]) : IsOutgoing(o)
    BY <1>4, <2>1, <2>2
  <2> QED  BY <2>2, <2>3 DEF WorkerTypeOK
<1> QED  BY <1>1, <1>3, <1>5, <1>6, <1>7 DEF owner

(***************************************************************************)
(* Threads, handles, channels and tables keep their types.                 *)
(***************************************************************************)
THEOREM HandleTypeOK == HandleSpec => []WorkerTypeOK
<1>1. HandleInit => WorkerTypeOK
  <2> SUFFICES ASSUME HandleInit PROVE WorkerTypeOK
    OBVIOUS
  <2> DEFINE queued == [w \in Worker |-> <<>>]
  <2>1. \A w \in Worker : IsSeq(queued[w]) /\ ToSet(queued[w]) = {}
    BY NoItems
  <2>2. WorkerInit(queued) /\ DOMAIN queued = Worker
    BY DEF HandleInit
  <2> HIDE DEF queued
  <2> QED  BY <2>1, <2>2, InitTypeOK
<1>2. WorkerTypeOK /\ [HandleNext]_workerVars => WorkerTypeOK'
  <2> SUFFICES ASSUME WorkerTypeOK, [HandleNext]_workerVars PROVE WorkerTypeOK'
    OBVIOUS
  <2>1. CASE HandleNext
    BY <2>1, RunTypeOK, OwnerTypeOK DEF HandleNext
  <2>2. CASE UNCHANGED workerVars
    BY <2>2 DEF workerVars, threadVars, WorkerTypeOK
  <2> QED  BY <2>1, <2>2
<1> QED  BY <1>1, <1>2, PTL DEF HandleSpec

-----------------------------------------------------------------------------
QuitQueued(w) == \E c \in ToSet(control[w]) : c.type = "Quit"

\* What makes QuitNeverFails inductive, for one worker: only quit() queues a Quit,
\* after it has consumed the handle, and a dead thread has an empty queue.
HandleInvOf(w) ==
  /\ handle[w] # "failed"
  /\ handle[w] = "held" => thread[w] = "running"
  /\ thread[w] = "panicked" => handle[w] = "dropped"
  /\ QuitQueued(w) => handle[w] = "quitting"
  /\ handle[w] = "joined" => thread[w] = "exited"
  /\ thread[w] # "running" => control[w] = <<>>

HandleInv == \A w \in Worker : HandleInvOf(w)

\* A step of the thread keeps the invariant of its worker.
LEMMA RunHandleInv ==
  ASSUME WorkerTypeOK, NEW w \in Worker, HandleInvOf(w), run(w)
  PROVE  HandleInvOf(w)'
<1>0. handle' = handle
  BY DEF run, RecvQuit, RecvDisconnected, RecvPing, RecvPong, RecvFindPeer, RecvOther,
         Send, SendPanics, Stop
<1>1. CASE RecvPing(w) \/ RecvPong(w) \/ RecvFindPeer(w) \/ RecvOther(w)
  <2>1. control[w] # <<>> /\ control'[w] = Tail(control[w]) /\ thread' = thread
        /\ thread[w] = "running"
    BY <1>1 DEF RecvPing, RecvPong, RecvFindPeer, RecvOther, HasIncoming, AtRecv, WorkerTypeOK
  <2>2. ToSet(control'[w]) \subseteq ToSet(control[w])
    BY <2>1, IncomingFacts
  <2> QED  BY <1>0, <2>1, <2>2 DEF HandleInvOf, QuitQueued
<1>2. CASE RecvQuit(w)
  <2>1. control[w] # <<>> /\ Head(control[w]).type = "Quit"
    BY <1>2 DEF RecvQuit
  <2>2. handle[w] = "quitting"
    BY <2>1, IncomingFacts DEF HandleInvOf, QuitQueued
  <2>3. thread'[w] = "exited" /\ control'[w] = <<>>
    BY <1>2 DEF RecvQuit, Stop, WorkerTypeOK
  <2> QED  BY <1>0, <2>2, <2>3 DEF HandleInvOf
<1>3. CASE RecvDisconnected(w) \/ SendPanics(w)
  <2>1. handle[w] \notin {"held", "quitting"} /\ thread[w] = "running"
    BY <1>3 DEF RecvDisconnected, SendPanics, SenderAlive, ReceiverAlive, AtRecv
  <2>2. handle[w] = "dropped"
    BY <2>1 DEF HandleInvOf, WorkerTypeOK
  <2>3. control'[w] = <<>>
    BY <1>3 DEF RecvDisconnected, SendPanics, Stop, WorkerTypeOK
  <2>4. ToSet(control'[w]) = {}
    BY <2>3, NoItems
  <2> QED  BY <1>0, <2>2, <2>3, <2>4 DEF HandleInvOf, QuitQueued
<1>4. CASE Send(w)
  BY <1>0, <1>4 DEF Send, HandleInvOf, QuitQueued
<1> QED  BY <1>1, <1>2, <1>3, <1>4 DEF run

\* A step of the owner keeps the invariant of the worker.
LEMMA OwnerHandleInv ==
  ASSUME WorkerTypeOK, NEW w \in Worker, HandleInvOf(w), owner(w)
  PROVE  HandleInvOf(w)'
<1>1. CASE Controller(w) \/ DropController(w) \/ RecvMessage(w)
  <2>1. UNCHANGED <<control, thread, handle>>
    BY <1>1 DEF Controller, DropController, RecvMessage, threadVars
  <2> QED  BY <2>1 DEF HandleInvOf, QuitQueued
<1>2. CASE \E source \in SocketAddr, msg \in IncomingMessages : Message(w, source, msg)
  <2>1. PICK source \in SocketAddr, msg \in IncomingMessages : Message(w, source, msg)
    BY <1>2
  <2> DEFINE item == Incoming(source, msg)
  <2>2. item.type = "Incoming"
    BY DEF Incoming
  <2>3. control'[w] = Enqueue(w, item) /\ UNCHANGED <<thread, handle>>
    BY <2>1 DEF Message, WorkerTypeOK
  <2> HIDE DEF item
  <2>4. ToSet(control'[w]) \subseteq ToSet(control[w]) \cup {item}
    BY <2>3, EnqueueFacts
  <2>5. thread[w] # "running" => control'[w] = control[w]
    BY <2>3 DEF Enqueue
  <2> QED  BY <2>2, <2>3, <2>4, <2>5 DEF HandleInvOf, QuitQueued
<1>3. CASE QuitSend(w)
  <2>1. thread[w] = "running"
    BY <1>3 DEF QuitSend, HandleInvOf
  <2>2. handle'[w] = "quitting" /\ thread' = thread
    BY <1>3, <2>1 DEF QuitSend, WorkerTypeOK
  <2> QED  BY <2>1, <2>2 DEF HandleInvOf
<1>4. CASE QuitJoin(w)
  <2>1. handle[w] = "quitting" /\ thread[w] = "exited"
    BY <1>4 DEF QuitJoin, HandleInvOf, WorkerTypeOK
  <2>2. handle'[w] = "joined" /\ thread' = thread /\ control' = control
    BY <1>4, <2>1 DEF QuitJoin, WorkerTypeOK
  <2>3. ~QuitQueued(w)
    BY <2>1, NoItems DEF HandleInvOf, QuitQueued
  <2> QED  BY <2>1, <2>2, <2>3 DEF HandleInvOf, QuitQueued
<1>5. CASE DropHandle(w)
  <2>1. handle[w] = "held" /\ handle'[w] = "dropped" /\ thread' = thread /\ control' = control
    BY <1>5 DEF DropHandle, WorkerTypeOK
  <2> QED  BY <2>1 DEF HandleInvOf, QuitQueued
<1> QED  BY <1>1, <1>2, <1>3, <1>4, <1>5 DEF owner

(***************************************************************************)
(* A step of one worker leaves the others alone.                           *)
(***************************************************************************)
LEMMA OthersUnchanged ==
  ASSUME WorkerTypeOK, NEW w \in Worker, run(w) \/ owner(w), NEW v \in Worker, v # w
  PROVE  /\ control'[v] = control[v] /\ thread'[v] = thread[v] /\ handle'[v] = handle[v]
         /\ to_send'[v] = to_send[v] /\ peer_map'[v] = peer_map[v]
<1> USE DEF WorkerTypeOK
<1>1. CASE run(w)
  BY <1>1 DEF run, RecvQuit, RecvDisconnected, RecvPing, RecvPong, RecvFindPeer, RecvOther,
              Send, SendPanics, Stop
<1>2. CASE owner(w)
  BY <1>2 DEF owner, Controller, DropController, Message, RecvMessage, QuitSend, QuitJoin,
              DropHandle, threadVars
<1> QED  BY <1>1, <1>2

(***************************************************************************)
(* The inductive invariant of handle and thread, for all workers at once.  *)
(***************************************************************************)
THEOREM HandleInvariant == HandleSpec => []HandleInv
<1>1. HandleInit => HandleInv
  <2> SUFFICES ASSUME HandleInit, NEW w \in Worker PROVE HandleInvOf(w)
    BY DEF HandleInv
  <2>1. control[w] = <<>> /\ thread[w] = "running" /\ handle[w] = "held"
    BY DEF HandleInit, WorkerInit
  <2>2. ToSet(control[w]) = {}
    BY <2>1, NoItems
  <2> QED  BY <2>1, <2>2 DEF HandleInvOf, QuitQueued
<1>2. WorkerTypeOK /\ HandleInv /\ [HandleNext]_workerVars => HandleInv'
  <2> SUFFICES ASSUME WorkerTypeOK, HandleInv, [HandleNext]_workerVars, NEW v \in Worker
               PROVE  HandleInvOf(v)'
    BY DEF HandleInv
  <2>0. HandleInvOf(v)
    BY DEF HandleInv
  <2>1. CASE HandleNext
    <3>1. PICK w \in Worker : run(w) \/ owner(w)
      BY <2>1 DEF HandleNext
    <3>2. CASE w = v
      BY <2>0, <3>1, <3>2, RunHandleInv, OwnerHandleInv
    <3>3. CASE w # v
      <4>1. control'[v] = control[v] /\ thread'[v] = thread[v] /\ handle'[v] = handle[v]
        BY <3>1, <3>3, OthersUnchanged
      <4> QED  BY <2>0, <4>1 DEF HandleInvOf, QuitQueued
    <3> QED  BY <3>2, <3>3
  <2>2. CASE UNCHANGED workerVars
    BY <2>0, <2>2 DEF workerVars, threadVars, HandleInvOf, QuitQueued
  <2> QED  BY <2>1, <2>2
<1> QED  BY <1>1, <1>2, HandleTypeOK, PTL DEF HandleSpec

(***************************************************************************)
(* quit() cannot fail: whatever messages are queued and whatever clones of *)
(* the sender are around, the thread is alive as long as the handle is     *)
(* held, and it can panic only after the handle was dropped.               *)
(***************************************************************************)
THEOREM QuitIsSafe == HandleSpec => []QuitNeverFails
<1>1. HandleInv => QuitNeverFails
  BY DEF HandleInv, HandleInvOf, QuitNeverFails
<1> QED  BY <1>1, HandleInvariant, PTL

-----------------------------------------------------------------------------
(***************************************************************************)
(* ReplyMatchesTable for one reply, and its inductive form for one worker: *)
(* the table has every peer in its place, so that a search and contains()  *)
(* cannot disagree.                                                        *)
(***************************************************************************)
MatchesTable(w, o) ==
  LET msg   == o[2]
      known == contains(peer_map[w], IdOf[w], msg.id)
  IN  /\ msg.type = "FindPeerResponsePeerFound" => msg.addr = known
      /\ msg.type = "FindPeerResponsePeerNotFound" =>
           /\ known = None
           /\ \A c \in ToSet(msg.neighbors) :
                c[2] = contains(peer_map[w], IdOf[w], c[1])

ReplyInvOf(w) ==
  /\ Placed(peer_map[w], IdOf[w])
  /\ \A o \in ToSet(to_send[w]) : MatchesTable(w, o)

\* What lookup returns agrees with contains().
LEMMA LookupFacts ==
  ASSUME NEW b \in PeerMaps, NEW self \in PeerId, Placed(b, self), NEW id \in PeerId,
         NEW found \in lookup(b, self, id)
  PROVE  /\ found.addr = contains(b, self, id)
         /\ found.addr = None =>
              \A c \in ToSet(found.neighbors) : c[2] = contains(b, self, c[1])
<1>1. CASE contains(b, self, id) # None
  BY <1>1 DEF lookup
<1>2. CASE contains(b, self, id) = None
  <2>1. PICK answer \in find_closest_peers(b, self, id) :
          found = [addr |-> None, neighbors |-> answer]
    BY <1>2 DEF lookup
  <2>2. found.addr = None /\ found.neighbors = answer
    BY <2>1
  <2>3. /\ answer \in Seq(Entry)
        /\ \A e \in Items(answer) : \E k \in Rank : e \in EntriesOf(b, k)
    BY AnswerFacts
  <2>4. ToSet(answer) = Items(answer)
    BY <2>3 DEF ToSet, Items
  <2>5. \A e \in Items(answer) : e[2] = contains(b, self, e[1])
    BY <2>3, EntryIsContains
  <2> QED  BY <1>2, <2>2, <2>4, <2>5
<1> QED  BY <1>1, <1>2

\* A thread replies with what its table says, and changes its table only when no
\* reply is left to send.
LEMMA RunReplyInv ==
  ASSUME WorkerTypeOK, NEW w \in Worker, ReplyInvOf(w), run(w)
  PROVE  ReplyInvOf(w)'
<1> DEFINE in == Head(control[w])
<1>id. IdOf[w] \in PeerId /\ peer_map[w] \in PeerMaps /\ Placed(peer_map[w], IdOf[w])
  BY WorkerAssumption DEF WorkerTypeOK, ReplyInvOf
<1>0. ASSUME NEW types, HasIncoming(w, types)
      PROVE  in.source \in SocketAddr /\ in.msg.id \in PeerId /\ to_send[w] = <<>>
  <2>1. control[w] # <<>> /\ in.type = "Incoming" /\ to_send[w] = <<>>
    BY <1>0 DEF HasIncoming, AtRecv
  <2> QED  BY <2>1, IncomingFacts DEF IsWorkerMessage, IsMessage
<1>1. CASE RecvPing(w)
  <2> DEFINE x == <<in.source, Pong(IdOf[w])>>
             y == <<in.source, Ping(IdOf[w])>>
  <2>1. peer_map' = peer_map /\ (to_send'[w] = <<x, y>> \/ to_send'[w] = <<x>>)
    BY <1>1 DEF RecvPing, WorkerTypeOK
  <2>2. x[2].type = "Pong" /\ y[2].type = "Ping"
    BY DEF Ping, Pong
  <2> HIDE DEF x, y
  <2>3. ToSet(<<x>>) = {x} /\ ToSet(<<x, y>>) = {x, y}
    BY OneTwoSeq
  <2>4. \A o \in ToSet(to_send'[w]) : o[2].type \in {"Ping", "Pong"}
    <3>1. ToSet(to_send'[w]) = {x} \/ ToSet(to_send'[w]) = {x, y}
      BY <2>1, <2>3
    <3> QED  BY <2>2, <3>1
  <2>5. \A o \in ToSet(to_send'[w]) : MatchesTable(w, o)'
    BY <2>4 DEF MatchesTable
  <2> QED  BY <2>1, <2>5 DEF ReplyInvOf
<1>2. CASE RecvPong(w)
  <2>1. in.source \in SocketAddr /\ in.msg.id \in PeerId /\ to_send[w] = <<>>
    BY <1>0, <1>2 DEF RecvPong
  <2>2. /\ peer_map'[w] = insert(peer_map[w], IdOf[w], in.source, in.msg.id)
        /\ to_send' = to_send
    BY <1>2 DEF RecvPong, WorkerTypeOK
  <2>3. Placed(peer_map'[w], IdOf[w])
    BY <1>id, <2>1, <2>2, InsertFacts
  <2>4. ToSet(to_send'[w]) = {}
    BY <2>1, <2>2, NoItems
  <2> QED  BY <2>3, <2>4 DEF ReplyInvOf
<1>3. CASE RecvFindPeer(w)
  <2>1. in.msg.id \in PeerId
    BY <1>0, <1>3 DEF RecvFindPeer
  <2>2. PICK found \in lookup(peer_map[w], IdOf[w], in.msg.id) :
          to_send' = [to_send EXCEPT ![w] =
             << <<in.source, IF found.addr # None
                             THEN PeerFound(in.msg.id, found.addr)
                             ELSE PeerNotFound(in.msg.id, found.neighbors)>> >>]
    BY <1>3 DEF RecvFindPeer
  <2> DEFINE reply == <<in.source, IF found.addr # None
                                   THEN PeerFound(in.msg.id, found.addr)
                                   ELSE PeerNotFound(in.msg.id, found.neighbors)>>
  <2>3. to_send'[w] = <<reply>> /\ peer_map' = peer_map
    BY <1>3, <2>2 DEF RecvFindPeer, WorkerTypeOK
  <2>4. /\ found.addr = contains(peer_map[w], IdOf[w], in.msg.id)
        /\ found.addr = None =>
             \A c \in ToSet(found.neighbors) : c[2] = contains(peer_map[w], IdOf[w], c[1])
    BY <1>id, <2>1, LookupFacts
  <2>5. MatchesTable(w, reply)
    <3> HIDE DEF in
    <3>1. CASE found.addr # None
      <4>1. reply[2] = PeerFound(in.msg.id, found.addr)
        BY <3>1
      <4> HIDE DEF reply
      <4> QED  BY <2>4, <4>1 DEF MatchesTable, PeerFound
    <3>2. CASE found.addr = None
      <4>1. reply[2] = PeerNotFound(in.msg.id, found.neighbors)
        BY <3>2
      <4> HIDE DEF reply
      <4>2. /\ reply[2].type = "FindPeerResponsePeerNotFound"
            /\ reply[2].id = in.msg.id /\ reply[2].neighbors = found.neighbors
        BY <4>1 DEF PeerNotFound
      <4> QED  BY <2>4, <3>2, <4>2 DEF MatchesTable
    <3> QED  BY <3>1, <3>2
  <2> HIDE DEF reply
  <2>6. ToSet(to_send'[w]) = {reply}
    BY <2>3, OneTwoSeq
  <2> QED  BY <1>id, <2>3, <2>5, <2>6 DEF ReplyInvOf, MatchesTable
<1>4. CASE RecvOther(w)
  BY <1>4 DEF RecvOther, ReplyInvOf, MatchesTable
<1>5. CASE RecvQuit(w) \/ RecvDisconnected(w) \/ SendPanics(w)
  <2>1. to_send'[w] = <<>> /\ peer_map' = peer_map
    BY <1>5 DEF RecvQuit, RecvDisconnected, SendPanics, Stop, WorkerTypeOK
  <2>2. ToSet(to_send'[w]) = {}
    BY <2>1, NoItems
  <2> QED  BY <1>id, <2>1, <2>2 DEF ReplyInvOf
<1>6. CASE Send(w)
  <2>1. to_send[w] # <<>> /\ to_send'[w] = Tail(to_send[w]) /\ peer_map' = peer_map
    BY <1>6 DEF Send, WorkerTypeOK
  <2>2. ToSet(to_send'[w]) \subseteq ToSet(to_send[w])
    BY <2>1, HeadTailSeq DEF WorkerTypeOK
  <2> QED  BY <2>1, <2>2 DEF ReplyInvOf, MatchesTable
<1> QED  BY <1>1, <1>2, <1>3, <1>4, <1>5, <1>6 DEF run

(***************************************************************************)
(* Whatever the owner does meanwhile, a reply that waits to be sent says   *)
(* what the worker's table says.                                           *)
(***************************************************************************)
THEOREM RepliesMatchTable == HandleSpec => []ReplyMatchesTable
<1> DEFINE ReplyInv == \A w \in Worker : ReplyInvOf(w)
<1>1. HandleInit => ReplyInv
  <2> SUFFICES ASSUME HandleInit, NEW w \in Worker PROVE ReplyInvOf(w)
    OBVIOUS
  <2>1. to_send[w] = <<>> /\ peer_map[w] = start(w)
    BY DEF HandleInit, WorkerInit
  <2>2. ToSet(to_send[w]) = {}
    BY <2>1, NoItems
  <2> QED  BY <2>1, <2>2, StartTypeOK DEF ReplyInvOf
<1>2. WorkerTypeOK /\ ReplyInv /\ [HandleNext]_workerVars => ReplyInv'
  <2> SUFFICES ASSUME WorkerTypeOK, ReplyInv, [HandleNext]_workerVars, NEW v \in Worker
               PROVE  ReplyInvOf(v)'
    OBVIOUS
  <2>0. ReplyInvOf(v)
    OBVIOUS
  <2>1. ASSUME to_send'[v] = to_send[v], peer_map'[v] = peer_map[v] PROVE ReplyInvOf(v)'
    BY <2>0, <2>1 DEF ReplyInvOf, MatchesTable
  <2>2. CASE HandleNext
    <3>1. PICK w \in Worker : run(w) \/ owner(w)
      BY <2>2 DEF HandleNext
    <3>2. CASE w = v /\ run(w)
      BY <2>0, <3>2, RunReplyInv
    <3>3. CASE owner(w)
      <4>1. to_send' = to_send /\ peer_map' = peer_map
        BY <3>3 DEF owner, Controller, DropController, Message, RecvMessage, QuitSend,
                    QuitJoin, DropHandle, threadVars
      <4> QED  BY <2>1, <4>1
    <3>4. CASE w # v
      BY <2>1, <3>1, <3>4, OthersUnchanged
    <3> QED  BY <3>1, <3>2, <3>3, <3>4
  <2>3. CASE UNCHANGED workerVars
    BY <2>1, <2>3 DEF workerVars, threadVars
  <2> QED  BY <2>2, <2>3
<1>3. ReplyInv => ReplyMatchesTable
  BY DEF ReplyInvOf, MatchesTable, ReplyMatchesTable
<1> QED  BY <1>1, <1>2, <1>3, HandleTypeOK, PTL DEF HandleSpec

-----------------------------------------------------------------------------
(***************************************************************************)
(* The simulator.                                                          *)
(***************************************************************************)

\* Popping the queue of workers to add.
LEMMA PopFacts ==
  ASSUME NEW q \in Seq(Worker), q # <<>>
  PROVE  /\ Last(q) \in Worker /\ Last(q) \in ToSet(q)
         /\ Front(q) \in Seq(Worker) /\ ToSet(Front(q)) \subseteq ToSet(q)
         /\ IsInjective(q) => IsInjective(Front(q)) /\ Last(q) \notin ToSet(Front(q))
<1>1. Len(q) \in Nat \ {0} /\ DOMAIN q = 1 .. Len(q)
  OBVIOUS
<1>2. Last(q) \in Worker /\ Last(q) \in ToSet(q)
  BY <1>1 DEF Last, ToSet
<1>3. /\ Front(q) \in Seq(Worker)
      /\ DOMAIN Front(q) = 1 .. Len(q) - 1
      /\ \A i \in 1 .. Len(q) - 1 : Front(q)[i] = q[i]
  BY <1>1 DEF Front
<1>4. ToSet(Front(q)) \subseteq ToSet(q)
  BY <1>1, <1>3 DEF ToSet
<1>5. ASSUME IsInjective(q)
      PROVE  IsInjective(Front(q)) /\ Last(q) \notin ToSet(Front(q))
  BY <1>1, <1>3, <1>5 DEF IsInjective, ToSet, Last
<1> QED  BY <1>2, <1>3, <1>4, <1>5

\* The sorted queue of workers to add has no worker twice.
LEMMA SortedFacts ==
  ASSUME NEW q \in sorted(AddOrder)
  PROVE  q \in Seq(Worker) /\ IsInjective(q)
<1>1. q \in [DOMAIN AddOrder -> ToSet(AddOrder)] /\ IsInjective(q)
  BY DEF sorted, Orders
<1>2. DOMAIN AddOrder = 1 .. Len(AddOrder) /\ Len(AddOrder) \in Nat
      /\ ToSet(AddOrder) \subseteq Worker
  BY SimAssumption DEF ToSet
<1>3. q \in [1 .. Len(AddOrder) -> Worker]
  BY <1>1, <1>2
<1> QED  BY <1>1, <1>2, <1>3

\* A function on 1 .. n is a sequence.
LEMMA FunctionsAreSequences ==
  ASSUME NEW T, NEW n \in Nat, NEW f \in [1 .. n -> T]
  PROVE  f \in Seq(T)
OBVIOUS

\* The messages that one drain adds.
Envelopes(a, s) == [n \in 1 .. Len(s) |-> <<a, s[n][1], s[n][2]>>]

\* Every drained message is one of the channel with the address put before it.
LEMMA DrainFacts ==
  ASSUME NEW s, IsSeq(s), NEW a
  PROVE  /\ IsSeq(Envelopes(a, s))
         /\ \A e \in ToSet(Envelopes(a, s)) : \E o \in ToSet(s) :
              e[1] = a /\ e[2] = o[1] /\ e[3] = o[2]
<1>1. s \in Seq(ToSet(s)) /\ Len(s) \in Nat /\ DOMAIN s = 1 .. Len(s)
  BY DEF IsSeq
<1> DEFINE env(n) == <<a, s[n][1], s[n][2]>>
           T == {env(n) : n \in 1 .. Len(s)}
           batch == Envelopes(a, s)
<1>2. batch = [n \in 1 .. Len(s) |-> env(n)]
  BY DEF Envelopes
<1>3. \A n \in 1 .. Len(s) : env(n)[1] = a /\ env(n)[2] = s[n][1] /\ env(n)[3] = s[n][2]
  OBVIOUS
<1> HIDE DEF env, batch
<1>4. batch \in [1 .. Len(s) -> T]
  BY <1>2
<1> HIDE DEF T
<1>5. batch \in Seq(T)
  BY <1>1, <1>4, FunctionsAreSequences
<1>6. ASSUME NEW e \in ToSet(batch)
      PROVE  \E o \in ToSet(s) : e[1] = a /\ e[2] = o[1] /\ e[3] = o[2]
  <2>1. PICK n \in 1 .. Len(s) : e = env(n)
    BY <1>2 DEF ToSet
  <2>2. s[n] \in ToSet(s)
    BY <1>1 DEF ToSet
  <2> QED  BY <1>3, <2>1, <2>2
<1> QED  BY <1>5, <1>6, SeqOfItems DEF batch

\* The two messages a worker starts with.
LEMMA FirstFacts ==
  ASSUME NEW w \in Worker
  PROVE  /\ IsSeq(FirstMessages(w))
         /\ \A c \in ToSet(FirstMessages(w)) :
              IsWorkerMessage(c) /\ c.type = "Incoming" /\ c.msg.type # "Pong"
<1> DEFINE x == Incoming(bootstrap, Ping(IdOf[w]))
           y == Incoming(bootstrap, FindPeer(IdOf[w]))
<1>1. IdOf[w] \in PeerId /\ bootstrap \in SocketAddr
  BY WorkerAssumption, SimAssumption
<1>2. IsWorkerMessage(x) /\ x.type = "Incoming" /\ x.msg.type # "Pong"
  BY <1>1 DEF Incoming, Ping, IsWorkerMessage, IsMessage
<1>3. IsWorkerMessage(y) /\ y.type = "Incoming" /\ y.msg.type # "Pong"
  BY <1>1 DEF Incoming, FindPeer, IsWorkerMessage, IsMessage
<1>4. FirstMessages(w) = <<x, y>>
  BY DEF FirstMessages
<1> HIDE DEF x, y
<1>5. IsSeq(<<x, y>>) /\ ToSet(<<x, y>>) = {x, y}
  BY OneTwoSeq
<1>6. \A c \in {x, y} : IsWorkerMessage(c) /\ c.type = "Incoming" /\ c.msg.type # "Pong"
  BY <1>2, <1>3
<1> QED  BY <1>4, <1>5, <1>6
-----------------------------------------------------------------------------
\* A thread leaves the other threads and all handles alone.
LEMMA RunFacts ==
  ASSUME WorkerTypeOK, NEW w \in Worker, run(w)
  PROVE  /\ handle' = handle
         /\ \A v \in Worker \ {w} :
              /\ control'[v] = control[v] /\ outbox'[v] = outbox[v]
              /\ to_send'[v] = to_send[v] /\ peer_map'[v] = peer_map[v]
              /\ thread'[v] = thread[v]
BY DEF run, RecvQuit, RecvDisconnected, RecvPing, RecvPong, RecvFindPeer, RecvOther,
       Send, SendPanics, Stop, WorkerTypeOK

\* The worker at an added address, which TypeOK says is one.
LEMMA AddedIsWorker ==
  ASSUME TypeOK, NEW a \in SocketAddr, Added(a)
  PROVE  workers[a] \in Worker
BY DEF TypeOK, Added

\* What the delivery of a message does to the channels.
LEMMA DeliverFacts ==
  ASSUME TypeOK, Deliver
  PROVE  \E w \in Worker, e \in ToSet(messages) :
           /\ Added(e[2]) /\ w = workers[e[2]] /\ IsEnvelope(e)
           /\ control' = [control EXCEPT ![w] = Enqueue(w, Incoming(e[1], e[3]))]
           /\ router' = IF thread[w] = "running" THEN router ELSE "panicked"
           /\ IsSeq(messages') /\ ToSet(messages') \subseteq ToSet(messages)
<1> DEFINE e == Head(messages)
           w == workers[e[2]]
<1>1. /\ IsSeq(Tail(messages)) /\ ToSet(Tail(messages)) \subseteq ToSet(messages)
      /\ e \in ToSet(messages)
  BY HeadTailSeq DEF Deliver, TypeOK
<1>2. IsEnvelope(e)
  BY <1>1 DEF TypeOK
<1>3. /\ Added(e[2]) /\ messages' = Tail(messages)
      /\ control' = [control EXCEPT ![w] = Enqueue(w, Incoming(e[1], e[3]))]
      /\ router' = IF thread[w] = "running" THEN router ELSE "panicked"
  BY DEF Deliver
<1>4. w \in Worker
  BY <1>2, <1>3, AddedIsWorker DEF IsEnvelope
<1> HIDE DEF w, e
<1>5. w = workers[e[2]]
  BY DEF w
<1> QED  BY <1>1, <1>2, <1>3, <1>4, <1>5

\* What a drain does to the channels.
LEMMA CollectFacts ==
  ASSUME TypeOK, NEW a \in SocketAddr, Collect(a)
  PROVE  \E w \in Worker :
           /\ Added(a) /\ w = workers[a]
           /\ IsSeq(messages')
           /\ \A e \in ToSet(messages') :
                \/ e \in ToSet(messages)
                \/ \E o \in ToSet(outbox[w]) : e[1] = a /\ e[2] = o[1] /\ e[3] = o[2]
           /\ DOMAIN outbox' = Worker /\ outbox'[w] = <<>>
           /\ \A v \in Worker \ {w} : outbox'[v] = outbox[v]
<1> DEFINE w == workers[a]
           batch == Envelopes(a, outbox[w])
<1>1. Added(a)
  BY DEF Collect, TypeOK
<1>2. w \in Worker
  BY <1>1, AddedIsWorker
<1>3. messages' = messages \o batch /\ outbox' = [outbox EXCEPT ![w] = <<>>]
  BY DEF Collect, Envelopes
<1>4. IsSeq(outbox[w])
  BY <1>2 DEF TypeOK, WorkerTypeOK
<1>5. /\ IsSeq(batch)
      /\ \A e \in ToSet(batch) : \E o \in ToSet(outbox[w]) :
           e[1] = a /\ e[2] = o[1] /\ e[3] = o[2]
  BY <1>4, DrainFacts
<1> HIDE DEF batch
<1>6. IsSeq(messages') /\ ToSet(messages') = ToSet(messages) \cup ToSet(batch)
  BY <1>3, <1>5, ConcatSeq DEF TypeOK
<1>7. /\ DOMAIN outbox' = Worker /\ outbox'[w] = <<>>
      /\ \A v \in Worker \ {w} : outbox'[v] = outbox[v]
  BY <1>2, <1>3 DEF TypeOK, WorkerTypeOK
<1>8. w = workers[a]
  OBVIOUS
<1> HIDE DEF w
<1> QED  BY <1>1, <1>2, <1>5, <1>6, <1>7, <1>8
-----------------------------------------------------------------------------
\* AddWorker by its effect: it empties the message channel of the worker it
\* replaces, if there is one, and touches no other worker.
LEMMA AddWorkerFacts ==
  ASSUME TypeOK, AddWorker
  PROVE  LET w == Last(worker_add_queue)
         IN  /\ w \in Worker /\ w \in ToSet(worker_add_queue)
             /\ AddrOf[w] \in SocketAddr
             /\ workers' = [workers EXCEPT ![AddrOf[w]] = w]
             /\ worker_add_queue' \in Seq(Worker)
             /\ ToSet(worker_add_queue') \subseteq ToSet(worker_add_queue)
             /\ IsInjective(worker_add_queue) =>
                  IsInjective(worker_add_queue') /\ w \notin ToSet(worker_add_queue')
             /\ to_drain' \subseteq {b \in SocketAddr : workers'[b] # None}
             /\ DOMAIN outbox' = Worker /\ DOMAIN handle' = Worker
             /\ \A v \in Worker :
                  \/ outbox'[v] = outbox[v] /\ handle'[v] = handle[v] /\ v # workers[AddrOf[w]]
                  \/ outbox'[v] = <<>> /\ handle'[v] = "dropped" /\ v = workers[AddrOf[w]]
<1> DEFINE w == Last(worker_add_queue)
           a == AddrOf[w]
<1>1. worker_add_queue \in Seq(Worker) /\ worker_add_queue # <<>>
      /\ worker_add_queue' = Front(worker_add_queue)
  BY DEF AddWorker, Due, TypeOK
<1>2. /\ w \in Worker /\ w \in ToSet(worker_add_queue)
      /\ worker_add_queue' \in Seq(Worker)
      /\ ToSet(worker_add_queue') \subseteq ToSet(worker_add_queue)
      /\ IsInjective(worker_add_queue) =>
           IsInjective(worker_add_queue') /\ w \notin ToSet(worker_add_queue')
  BY <1>1, PopFacts
<1>3. a \in SocketAddr /\ w # None
  BY <1>2, WorkerAssumption, SimAssumption
<1>4. /\ workers' = [workers EXCEPT ![a] = w]
      /\ to_drain' = {b \in SocketAddr : Added(b)} \cup {a}
      /\ handle' = [v \in Worker |-> IF v \in {u \in Worker : u = workers[a]}
                                     THEN "dropped" ELSE handle[v]]
      /\ outbox' = [v \in Worker |-> IF v \in {u \in Worker : u = workers[a]}
                                     THEN <<>> ELSE outbox[v]]
  BY DEF AddWorker
<1> HIDE DEF w
<1>5. to_drain' \subseteq {b \in SocketAddr : workers'[b] # None}
  BY <1>3, <1>4 DEF Added, TypeOK
<1>6. /\ DOMAIN outbox' = Worker /\ DOMAIN handle' = Worker
      /\ \A v \in Worker :
           \/ outbox'[v] = outbox[v] /\ handle'[v] = handle[v] /\ v # workers[a]
           \/ outbox'[v] = <<>> /\ handle'[v] = "dropped" /\ v = workers[a]
  BY <1>4
<1> QED  BY <1>2, <1>3, <1>4, <1>5, <1>6 DEF w

\* A step of the router keeps the types.
LEMMA RouteTypeOK ==
  ASSUME TypeOK, route
  PROVE  TypeOK'
<1>1. CASE AddWorker
  <2> DEFINE w == Last(worker_add_queue)
  <2>1. /\ workers' \in [SocketAddr -> Worker \cup {None}]
        /\ worker_add_queue' \in Seq(Worker)
        /\ to_drain' \subseteq {b \in SocketAddr : workers'[b] # None}
    BY <1>1, AddWorkerFacts DEF TypeOK
  <2>2. /\ DOMAIN outbox' = Worker /\ DOMAIN handle' = Worker
        /\ \A v \in Worker : /\ outbox'[v] = outbox[v] \/ outbox'[v] = <<>>
                             /\ handle'[v] = handle[v] \/ handle'[v] = "dropped"
    BY <1>1, AddWorkerFacts
  <2>3. /\ handle' = [v \in Worker |-> handle'[v]]
        /\ router' = "collect"
        /\ UNCHANGED <<control, to_send, peer_map, thread, controllers, elapsed, messages>>
    BY <1>1 DEF AddWorker
  <2>4. handle' \in [Worker -> {"held", "quitting", "joined", "failed", "dropped"}]
    BY <2>2, <2>3 DEF TypeOK, WorkerTypeOK
  <2>5. \A v \in Worker : IsSeq(outbox'[v]) /\ \A o \in ToSet(outbox'[v]) : IsOutgoing(o)
    <3> SUFFICES ASSUME NEW v \in Worker
                 PROVE  IsSeq(outbox'[v]) /\ \A o \in ToSet(outbox'[v]) : IsOutgoing(o)
      OBVIOUS
    <3>1. CASE outbox'[v] = outbox[v]
      BY <3>1 DEF TypeOK, WorkerTypeOK
    <3>2. CASE outbox'[v] = <<>>
      <4>1. IsSeq(outbox'[v]) /\ ToSet(outbox'[v]) = {}
        BY <3>2, NoItems
      <4> QED  BY <4>1
    <3>3. outbox'[v] = outbox[v] \/ outbox'[v] = <<>>
      BY <2>2
    <3> QED  BY <3>1, <3>2, <3>3
  <2>6. WorkerTypeOK'
    BY <2>2, <2>3, <2>4, <2>5 DEF TypeOK, WorkerTypeOK
  <2> QED  BY <2>1, <2>3, <2>6 DEF TypeOK, Added
<1>2. CASE AddNobody \/ EndCollect \/ EndDeliver
  BY <1>2 DEF AddNobody, EndCollect, EndDeliver, TypeOK, Added, WorkerTypeOK, workerVars, threadVars
<1>3. ASSUME NEW a \in SocketAddr, Collect(a) PROVE TypeOK'
  <2>1. PICK w \in Worker :
          /\ IsSeq(messages')
          /\ \A e \in ToSet(messages') :
               \/ e \in ToSet(messages)
               \/ \E o \in ToSet(outbox[w]) : e[1] = a /\ e[2] = o[1] /\ e[3] = o[2]
          /\ DOMAIN outbox' = Worker /\ outbox'[w] = <<>>
          /\ \A v \in Worker \ {w} : outbox'[v] = outbox[v]
    BY <1>3, CollectFacts
  <2>2. /\ to_drain' = to_drain \ {a}
        /\ UNCHANGED <<control, to_send, peer_map, thread, handle, controllers>>
        /\ UNCHANGED <<workers, worker_add_queue, elapsed, router>>
    BY <1>3 DEF Collect
  <2>3. \A e \in ToSet(messages') : IsEnvelope(e)
    BY <2>1 DEF TypeOK, WorkerTypeOK, IsOutgoing, IsEnvelope
  <2>4. IsSeq(outbox'[w]) /\ ToSet(outbox'[w]) = {}
    BY <2>1, NoItems
  <2>5. WorkerTypeOK'
    BY <2>1, <2>2, <2>4 DEF TypeOK, WorkerTypeOK
  <2> QED  BY <2>1, <2>2, <2>3, <2>5 DEF TypeOK, Added
<1>4. CASE Deliver
  <2>1. PICK w \in Worker, e \in ToSet(messages) :
          /\ IsEnvelope(e)
          /\ control' = [control EXCEPT ![w] = Enqueue(w, Incoming(e[1], e[3]))]
          /\ router' \in {router, "panicked"}
          /\ IsSeq(messages') /\ ToSet(messages') \subseteq ToSet(messages)
    BY <1>4, DeliverFacts
  <2> DEFINE item == Incoming(e[1], e[3])
  <2>2. IsWorkerMessage(item)
    BY <2>1 DEF IsEnvelope, IsWorkerMessage, Incoming
  <2> HIDE DEF item
  <2>3. IsSeq(Enqueue(w, item)) /\ ToSet(Enqueue(w, item)) \subseteq ToSet(control[w]) \cup {item}
    BY EnqueueFacts DEF TypeOK
  <2>4. \A c \in ToSet(Enqueue(w, item)) : IsWorkerMessage(c)
    BY <2>2, <2>3 DEF TypeOK, WorkerTypeOK
  <2>5. /\ DOMAIN control' = Worker /\ control'[w] = Enqueue(w, item)
        /\ \A v \in Worker \ {w} : control'[v] = control[v]
    BY <2>1 DEF item, TypeOK, WorkerTypeOK
  <2>6. /\ UNCHANGED <<outbox, to_send, peer_map, thread, handle, controllers>>
        /\ UNCHANGED <<workers, worker_add_queue, elapsed, to_drain>>
    BY <1>4 DEF Deliver
  <2>7. WorkerTypeOK'
    BY <2>3, <2>4, <2>5, <2>6 DEF TypeOK, WorkerTypeOK
  <2> QED  BY <2>1, <2>6, <2>7 DEF TypeOK, Added
<1>5. CASE DeliverUnknown
  <2>1. /\ messages # <<>> /\ messages' = Tail(messages)
        /\ UNCHANGED <<workerVars, workers, worker_add_queue, elapsed, to_drain, router>>
    BY <1>5 DEF DeliverUnknown
  <2>2. IsSeq(messages') /\ ToSet(messages') \subseteq ToSet(messages)
    BY <2>1, HeadTailSeq DEF TypeOK
  <2> QED  BY <2>1, <2>2 DEF TypeOK, Added, WorkerTypeOK, workerVars, threadVars
<1> QED  BY <1>1, <1>2, <1>3, <1>4, <1>5 DEF route

\* The state in which run starts has its type.
LEMMA SimStartsTyped == Init => TypeOK
<1> SUFFICES ASSUME Init PROVE TypeOK
  OBVIOUS
<1> DEFINE queued == [w \in Worker |-> FirstMessages(w)]
<1>1. \A w \in Worker : IsSeq(queued[w]) /\ \A c \in ToSet(queued[w]) : IsWorkerMessage(c)
  BY FirstFacts
<1>2. WorkerInit(queued) /\ DOMAIN queued = Worker
  BY DEF Init
<1> HIDE DEF queued
<1>3. WorkerTypeOK
  BY <1>1, <1>2, InitTypeOK
<1>4. worker_add_queue \in Seq(Worker)
  BY SortedFacts DEF Init
<1>5. IsSeq(messages) /\ ToSet(messages) = {}
  BY NoItems DEF Init
<1> QED  BY <1>3, <1>4, <1>5, SimAssumption DEF Init, TypeOK

\* Every step of the simulation keeps the types.
LEMMA SimKeepsTypes == TypeOK /\ [Next]_vars => TypeOK'
<1> SUFFICES ASSUME TypeOK, [Next]_vars PROVE TypeOK'
  OBVIOUS
<1>1. CASE route
  BY <1>1, RouteTypeOK
<1>2. CASE thread_step
  <2>1. WorkerTypeOK' /\ UNCHANGED routerVars
    BY <1>2, RunTypeOK DEF thread_step, TypeOK
  <2> QED  BY <2>1 DEF TypeOK, Added, routerVars
<1>3. CASE Tick
  BY <1>3, SimAssumption DEF Tick, TypeOK, Added, WorkerTypeOK, workerVars, threadVars
<1>4. CASE UNCHANGED vars
  BY <1>4 DEF vars, workerVars, threadVars, routerVars, TypeOK, Added, WorkerTypeOK
<1> QED  BY <1>1, <1>2, <1>3, <1>4 DEF Next

(***************************************************************************)
(* Workers, channels and the state of the router keep their types.         *)
(***************************************************************************)
THEOREM SimTypeOK == Spec => []TypeOK
BY SimStartsTyped, SimKeepsTypes, PTL DEF Spec
-----------------------------------------------------------------------------
\* A thread of the simulation ends only after its handle was dropped: nobody
\* sends it a Quit.
LEMMA RunSimInv ==
  ASSUME TypeOK, SimInv, NEW w \in Worker, run(w)
  PROVE  /\ thread'[w] # "running" => handle[w] = "dropped"
         /\ \A c \in ToSet(control'[w]) : c.type # "Quit"
<1> USE DEF TypeOK
<1>1. CASE RecvPing(w) \/ RecvPong(w) \/ RecvFindPeer(w) \/ RecvOther(w)
  <2>1. control[w] # <<>> /\ control'[w] = Tail(control[w]) /\ thread' = thread
    BY <1>1 DEF RecvPing, RecvPong, RecvFindPeer, RecvOther, HasIncoming, WorkerTypeOK
  <2>2. ToSet(control'[w]) \subseteq ToSet(control[w])
    BY <2>1, IncomingFacts
  <2> QED  BY <2>1, <2>2 DEF SimInv, NobodyPanics
<1>2. CASE RecvQuit(w)
  <2>1. control[w] # <<>> /\ Head(control[w]).type = "Quit"
    BY <1>2 DEF RecvQuit
  <2> QED  BY <2>1, IncomingFacts DEF SimInv
<1>3. CASE RecvDisconnected(w) \/ SendPanics(w)
  <2>1. handle[w] \notin {"held", "quitting"}
    BY <1>3 DEF RecvDisconnected, SendPanics, SenderAlive, ReceiverAlive
  <2>2. handle[w] = "dropped"
    BY <2>1 DEF SimInv
  <2>3. control'[w] = <<>>
    BY <1>3 DEF RecvDisconnected, SendPanics, Stop, WorkerTypeOK
  <2>4. ToSet(control'[w]) = {}
    BY <2>3, NoItems
  <2> QED  BY <2>2, <2>4
<1>4. CASE Send(w)
  BY <1>4 DEF Send, SimInv, NobodyPanics
<1> QED  BY <1>1, <1>2, <1>3, <1>4 DEF run

\* add_worker drops the handle of the replaced worker only.
LEMMA AddWorkerSimInv ==
  ASSUME TypeOK, SimInv, AddWorker
  PROVE  SimInv'
<1> DEFINE w == Last(worker_add_queue)
           a == AddrOf[w]
           q == worker_add_queue
<1>1. /\ w \in Worker /\ w \in ToSet(q) /\ a \in SocketAddr
      /\ workers' = [workers EXCEPT ![a] = w]
      /\ ToSet(q') \subseteq ToSet(q)
      /\ IsInjective(q) => IsInjective(q') /\ w \notin ToSet(q')
      /\ \A v \in Worker :
           \/ handle'[v] = handle[v] /\ v # workers[a]
           \/ handle'[v] = "dropped" /\ v = workers[a]
  BY AddWorkerFacts
<1>2. router' = "collect" /\ UNCHANGED <<control, thread>>
  BY DEF AddWorker
<1>3. IsInjective(q') /\ w \notin ToSet(q')
  BY <1>1 DEF SimInv
<1>4. q \in Seq(Worker) /\ ToSet(q) \subseteq Worker
  BY DEF TypeOK, ToSet
<1> HIDE DEF w, q
<1>5. \A v \in ToSet(q) : handle[v] = "held" /\ \A b \in SocketAddr : v # workers[b] \/ v = None
  BY DEF SimInv, q, Added
<1>6. \A v \in ToSet(q) : v \in Worker /\ v # workers[a] /\ handle'[v] = "held"
  BY <1>1, <1>4, <1>5, SimAssumption
<1>7. \A v \in ToSet(q') : handle'[v] = "held"
  BY <1>1, <1>6
<1>8. ASSUME NEW b \in SocketAddr, workers'[b] # None
      PROVE  /\ handle'[workers'[b]] = "held" /\ AddrOf[workers'[b]] = b
             /\ workers'[b] \notin ToSet(q')
  <2>1. CASE b = a
    <3>1. workers'[b] = w
      BY <1>1, <2>1 DEF TypeOK
    <3> QED  BY <1>1, <1>3, <1>6, <2>1, <3>1
  <2>2. CASE b # a
    <3>1. workers'[b] = workers[b] /\ Added(b)
      BY <1>1, <1>8, <2>2 DEF TypeOK, Added
    <3>2. workers[b] \in Worker /\ AddrOf[workers[b]] = b /\ handle[workers[b]] = "held"
          /\ workers[b] \notin ToSet(q)
      BY <3>1, AddedIsWorker DEF SimInv, q
    <3>3. workers[b] # workers[a]
      <4>1. workers[a] # None => AddrOf[workers[a]] = a
        BY <1>1 DEF SimInv, Added
      <4> QED  BY <2>2, <3>2, <4>1, SimAssumption
    <3> QED  BY <1>1, <3>1, <3>2, <3>3
  <2> QED  BY <2>1, <2>2
<1>9. \A v \in Worker : /\ handle'[v] \in {"held", "dropped"}
                        /\ thread'[v] # "running" => handle'[v] = "dropped"
                        /\ \A c \in ToSet(control'[v]) : c.type # "Quit"
  BY <1>1, <1>2 DEF SimInv, NobodyPanics
<1> QED  BY <1>2, <1>3, <1>7, <1>8, <1>9 DEF SimInv, NobodyPanics, Added, q

\* When run starts, every handle is held and every thread runs.
LEMMA SimStartsHealthy == Init => SimInv
<1> SUFFICES ASSUME Init PROVE SimInv
  OBVIOUS
<1>1. \A w \in Worker : \A c \in ToSet(control[w]) : c.type # "Quit"
  BY FirstFacts DEF Init, WorkerInit
<1>2. worker_add_queue \in Seq(Worker) /\ IsInjective(worker_add_queue)
  BY SortedFacts DEF Init
<1>3. \A w \in ToSet(worker_add_queue) : handle[w] = "held"
  BY <1>2 DEF Init, WorkerInit, ToSet
<1> QED  BY <1>1, <1>2, <1>3 DEF Init, WorkerInit, SimInv, NobodyPanics, Added

\* Every step of the simulation preserves SimInv.
LEMMA SimKeepsHealthy == TypeOK /\ SimInv /\ [Next]_vars => SimInv'
<1> SUFFICES ASSUME TypeOK, SimInv, [Next]_vars PROVE SimInv'
  OBVIOUS
<1>1. CASE AddWorker
  BY <1>1, AddWorkerSimInv
<1>2. CASE \E a \in SocketAddr : Collect(a)
  BY <1>2 DEF Collect, SimInv, NobodyPanics, Added
<1>3. CASE Deliver
  <2>1. PICK w \in Worker, e \in ToSet(messages) :
          /\ Added(e[2]) /\ w = workers[e[2]] /\ IsEnvelope(e)
          /\ control' = [control EXCEPT ![w] = Enqueue(w, Incoming(e[1], e[3]))]
          /\ router' = IF thread[w] = "running" THEN router ELSE "panicked"
    BY <1>3, DeliverFacts
  <2> DEFINE item == Incoming(e[1], e[3])
  <2>2. item.type = "Incoming"
    BY DEF Incoming
  <2>3. router' # "panicked"
    BY <2>1 DEF SimInv, NobodyPanics, IsEnvelope
  <2>4. control'[w] = Enqueue(w, item) /\ \A v \in Worker \ {w} : control'[v] = control[v]
    BY <2>1 DEF TypeOK, WorkerTypeOK
  <2> HIDE DEF item
  <2>5. ToSet(control'[w]) \subseteq ToSet(control[w]) \cup {item}
    BY <2>4, EnqueueFacts DEF TypeOK
  <2>6. \A v \in Worker : \A c \in ToSet(control'[v]) : c.type # "Quit"
    BY <2>2, <2>4, <2>5 DEF SimInv
  <2>7. UNCHANGED <<thread, handle, workers, worker_add_queue>>
    BY <1>3 DEF Deliver
  <2> QED  BY <2>3, <2>6, <2>7 DEF SimInv, NobodyPanics, Added
<1>4. CASE AddNobody \/ EndCollect \/ DeliverUnknown \/ EndDeliver \/ Tick
  BY <1>4 DEF AddNobody, EndCollect, DeliverUnknown, EndDeliver, Tick, workerVars, threadVars,
              SimInv, NobodyPanics, Added
<1>5. CASE thread_step
  <2>1. PICK w \in Worker : run(w) /\ UNCHANGED routerVars
    BY <1>5 DEF thread_step
  <2>2. /\ thread'[w] # "running" => handle[w] = "dropped"
        /\ \A c \in ToSet(control'[w]) : c.type # "Quit"
    BY <2>1, RunSimInv
  <2>3. /\ handle' = handle
        /\ \A v \in Worker \ {w} : control'[v] = control[v] /\ thread'[v] = thread[v]
    BY <2>1, RunFacts DEF TypeOK
  <2> QED  BY <2>1, <2>2, <2>3 DEF SimInv, NobodyPanics, Added, routerVars
<1>6. CASE UNCHANGED vars
  BY <1>6 DEF vars, workerVars, threadVars, routerVars, SimInv, NobodyPanics, Added
<1> QED  BY <1>1, <1>2, <1>3, <1>4, <1>5, <1>6 DEF Next, route

(***************************************************************************)
(* The router never meets a dead worker, whatever the delays and however   *)
(* many workers claim one address.                                         *)
(***************************************************************************)
THEOREM SimInvariant == Spec => []SimInv
BY SimStartsHealthy, SimKeepsHealthy, SimTypeOK, PTL DEF Spec
-----------------------------------------------------------------------------
\* TruthInv for what belongs to one worker.
TruthOf(w) ==
  /\ \A p \in PeerId, k \in Rank :
       peer_map[w][k][p] # None => LivesAt(p, peer_map[w][k][p])
  /\ \A c \in ToSet(control[w]) :
       c.type = "Incoming" /\ c.msg.type = "Pong" => LivesAt(c.msg.id, c.source)
  /\ \A o \in ToSet(outbox[w]) : o[2].type = "Pong" => o[2].id = IdOf[w]
  /\ \A o \in ToSet(to_send[w]) : o[2].type = "Pong" => o[2].id = IdOf[w]

\* TruthInv is a statement about each worker and one about the router.
LEMMA TruthIsPerWorker ==
  TruthInv <=> /\ \A w \in Worker : TruthOf(w)
               /\ \A e \in ToSet(messages) : e[3].type = "Pong" => LivesAt(e[3].id, e[1])
BY DEF TruthInv, AddressTruth, TruthOf

\* A worker's first table holds the worker itself, at its own address.
LEMMA StartTruth ==
  ASSUME NEW w \in Worker, NEW p \in PeerId, NEW k \in Rank, start(w)[k][p] # None
  PROVE  LivesAt(p, start(w)[k][p])
<1>1. EmptyPeerMap \in PeerMaps /\ EmptyPeerMap[k][p] = None
  BY DEF EmptyPeerMap, PeerMaps, Bucket
<1>2. IdOf[w] \in PeerId /\ AddrOf[w] \in SocketAddr
  BY WorkerAssumption
<1>3. start(w)[k][p] = IF k = distance_rank(IdOf[w], IdOf[w]) /\ p = IdOf[w]
                       THEN AddrOf[w] ELSE EmptyPeerMap[k][p]
  BY <1>1, <1>2, InsertFacts DEF start
<1>4. p = IdOf[w] /\ start(w)[k][p] = AddrOf[w]
  BY <1>1, <1>3
<1> QED  BY <1>4 DEF LivesAt

\* A thread enters what a true Pong says and makes only true Pongs.
LEMMA RunTruth ==
  ASSUME TypeOK, NEW w \in Worker, TruthOf(w), run(w)
  PROVE  TruthOf(w)'
<1> USE DEF TypeOK
<1> DEFINE in == Head(control[w])
<1>0. ASSUME control[w] # <<>>, control'[w] = Tail(control[w])
      PROVE  \A c \in ToSet(control'[w]) :
               c.type = "Incoming" /\ c.msg.type = "Pong" => LivesAt(c.msg.id, c.source)
  <2>1. ToSet(control'[w]) \subseteq ToSet(control[w])
    BY <1>0, IncomingFacts
  <2> QED  BY <2>1 DEF TruthOf
<1>1. CASE RecvPing(w)
  <2> DEFINE x == <<in.source, Pong(IdOf[w])>>
             y == <<in.source, Ping(IdOf[w])>>
  <2>1. /\ control[w] # <<>> /\ control'[w] = Tail(control[w])
        /\ UNCHANGED <<outbox, peer_map>>
        /\ to_send'[w] = <<x, y>> \/ to_send'[w] = <<x>>
    BY <1>1 DEF RecvPing, HasIncoming, WorkerTypeOK
  <2>2. x[2].type = "Pong" /\ x[2].id = IdOf[w] /\ y[2].type = "Ping"
    BY DEF Ping, Pong
  <2> HIDE DEF x, y
  <2>3. ToSet(to_send'[w]) \subseteq {x, y}
    <3>1. ToSet(<<x>>) = {x} /\ ToSet(<<x, y>>) = {x, y}
      BY OneTwoSeq
    <3>2. {x} \subseteq {x, y}
      OBVIOUS
    <3> QED  BY <2>1, <3>1, <3>2
  <2>4. \A o \in ToSet(to_send'[w]) : o[2].type = "Pong" => o[2].id = IdOf[w]
    BY <2>2, <2>3
  <2> QED  BY <1>0, <2>1, <2>4 DEF TruthOf
<1>2. CASE RecvPong(w)
  <2>1. /\ control[w] # <<>> /\ control'[w] = Tail(control[w])
        /\ UNCHANGED <<outbox, to_send>>
        /\ peer_map'[w] = insert(peer_map[w], IdOf[w], in.source, in.msg.id)
        /\ in.type = "Incoming" /\ in.msg.type = "Pong"
    BY <1>2 DEF RecvPong, HasIncoming, WorkerTypeOK
  <2>2. in \in ToSet(control[w]) /\ IsWorkerMessage(in)
    BY <2>1, IncomingFacts
  <2>3. in.source \in SocketAddr /\ in.msg.id \in PeerId /\ LivesAt(in.msg.id, in.source)
    BY <2>1, <2>2 DEF TruthOf, IsWorkerMessage, IsMessage
  <2>4. peer_map[w] \in PeerMaps /\ IdOf[w] \in PeerId
    BY WorkerAssumption DEF WorkerTypeOK
  <2> HIDE DEF in
  <2>5. \A k \in Rank, p \in PeerId :
          peer_map'[w][k][p] = IF k = distance_rank(IdOf[w], in.msg.id) /\ p = in.msg.id
                               THEN in.source ELSE peer_map[w][k][p]
    BY <2>1, <2>3, <2>4, InsertFacts
  <2>6. \A p \in PeerId, k \in Rank :
          peer_map'[w][k][p] # None => LivesAt(p, peer_map'[w][k][p])
    BY <2>3, <2>5 DEF TruthOf
  <2> QED  BY <1>0, <2>1, <2>6 DEF TruthOf
<1>3. CASE RecvFindPeer(w)
  <2>1. /\ control[w] # <<>> /\ control'[w] = Tail(control[w])
        /\ UNCHANGED <<outbox, peer_map>>
    BY <1>3 DEF RecvFindPeer, HasIncoming, WorkerTypeOK
  <2>2. PICK found \in lookup(peer_map[w], IdOf[w], in.msg.id) :
          to_send' = [to_send EXCEPT ![w] =
            << <<in.source, IF found.addr # None
                            THEN PeerFound(in.msg.id, found.addr)
                            ELSE PeerNotFound(in.msg.id, found.neighbors)>> >>]
    BY <1>3 DEF RecvFindPeer
  <2> DEFINE reply == <<in.source, IF found.addr # None
                                   THEN PeerFound(in.msg.id, found.addr)
                                   ELSE PeerNotFound(in.msg.id, found.neighbors)>>
  <2>3. to_send'[w] = <<reply>>
    BY <2>2 DEF WorkerTypeOK
  <2>4. reply[2].type # "Pong"
    BY DEF PeerFound, PeerNotFound
  <2> HIDE DEF reply
  <2>5. ToSet(to_send'[w]) = {reply}
    BY <2>3, OneTwoSeq
  <2> QED  BY <1>0, <2>1, <2>4, <2>5 DEF TruthOf
<1>4. CASE RecvOther(w)
  <2>1. /\ control[w] # <<>> /\ control'[w] = Tail(control[w])
        /\ UNCHANGED <<outbox, to_send, peer_map>>
    BY <1>4 DEF RecvOther, HasIncoming, WorkerTypeOK
  <2> QED  BY <1>0, <2>1 DEF TruthOf
<1>5. CASE RecvQuit(w) \/ RecvDisconnected(w) \/ SendPanics(w)
  <2>1. control'[w] = <<>> /\ to_send'[w] = <<>> /\ UNCHANGED <<outbox, peer_map>>
    BY <1>5 DEF RecvQuit, RecvDisconnected, SendPanics, Stop, WorkerTypeOK
  <2>2. ToSet(control'[w]) = {} /\ ToSet(to_send'[w]) = {}
    BY <2>1, NoItems
  <2> QED  BY <2>1, <2>2 DEF TruthOf
<1>6. CASE Send(w)
  <2> DEFINE o == Head(to_send[w])
  <2>1. /\ to_send[w] # <<>> /\ to_send'[w] = Tail(to_send[w])
        /\ outbox'[w] = Append(outbox[w], o) /\ UNCHANGED <<control, peer_map>>
    BY <1>6 DEF Send, WorkerTypeOK
  <2>2. o \in ToSet(to_send[w]) /\ ToSet(to_send'[w]) \subseteq ToSet(to_send[w])
    BY <2>1, HeadTailSeq DEF WorkerTypeOK
  <2>3. ToSet(outbox'[w]) = ToSet(outbox[w]) \cup {o}
    BY <2>1, AppendSeq DEF WorkerTypeOK
  <2> HIDE DEF o
  <2> QED  BY <2>1, <2>2, <2>3 DEF TruthOf
<1> QED  BY <1>1, <1>2, <1>3, <1>4, <1>5, <1>6 DEF run

\* The router leaves the tables and the replies alone; a drain stamps every
\* message with the address of the worker it came from, and a delivery hands the
\* stamp on.
LEMMA RouteTruth ==
  ASSUME TypeOK, SimInv, TruthInv, route
  PROVE  TruthInv'
<1> DEFINE Carried(e) == e[3].type = "Pong" => LivesAt(e[3].id, e[1])
<1>0. (\A v \in Worker : TruthOf(v)) /\ \A e \in ToSet(messages) : Carried(e)
  BY TruthIsPerWorker
<1>1. CASE AddWorker
  <2>1. \A v \in Worker : outbox'[v] = outbox[v] \/ outbox'[v] = <<>>
    BY <1>1, AddWorkerFacts
  <2>2. UNCHANGED <<control, to_send, peer_map, messages>>
    BY <1>1 DEF AddWorker
  <2>3. ASSUME NEW v \in Worker PROVE TruthOf(v)'
    <3>1. outbox'[v] = <<>> => ToSet(outbox'[v]) = {}
      BY NoItems
    <3> QED  BY <1>0, <2>1, <2>2, <3>1 DEF TruthOf
  <2> QED  BY <1>0, <2>2, <2>3 DEF TruthInv, AddressTruth, TruthOf
<1>2. CASE AddNobody \/ EndCollect \/ EndDeliver
  BY <1>2 DEF AddNobody, EndCollect, EndDeliver, workerVars, threadVars, TruthInv, AddressTruth
<1>3. ASSUME NEW a \in SocketAddr, Collect(a) PROVE TruthInv'
  <2>1. PICK w \in Worker :
          /\ Added(a) /\ w = workers[a]
          /\ \A e \in ToSet(messages') :
               \/ e \in ToSet(messages)
               \/ \E o \in ToSet(outbox[w]) : e[1] = a /\ e[2] = o[1] /\ e[3] = o[2]
          /\ outbox'[w] = <<>>
          /\ \A v \in Worker \ {w} : outbox'[v] = outbox[v]
    BY <1>3, CollectFacts
  <2>2. AddrOf[w] = a
    BY <2>1 DEF SimInv
  <2>3. UNCHANGED <<control, to_send, peer_map>>
    BY <1>3 DEF Collect
  <2>4. ASSUME NEW e \in ToSet(messages') PROVE Carried(e)
    <3>1. CASE e \in ToSet(messages)
      BY <1>0, <3>1
    <3>2. ASSUME NEW o \in ToSet(outbox[w]), e[1] = a, e[3] = o[2] PROVE Carried(e)
      BY <1>0, <2>2, <3>2 DEF TruthOf, LivesAt
    <3> QED  BY <2>1, <3>1, <3>2
  <2>5. ToSet(outbox'[w]) = {}
    BY <2>1, NoItems
  <2>6. ASSUME NEW v \in Worker PROVE TruthOf(v)'
    BY <1>0, <2>1, <2>3, <2>5 DEF TruthOf
  <2> QED  BY <2>4, <2>6 DEF TruthInv, AddressTruth, TruthOf
<1>4. CASE Deliver
  <2>1. PICK w \in Worker, e \in ToSet(messages) :
          /\ control' = [control EXCEPT ![w] = Enqueue(w, Incoming(e[1], e[3]))]
          /\ ToSet(messages') \subseteq ToSet(messages)
    BY <1>4, DeliverFacts
  <2> DEFINE item == Incoming(e[1], e[3])
  <2>2. item.source = e[1] /\ item.msg = e[3]
    BY DEF Incoming
  <2>3. item.msg.type = "Pong" => LivesAt(item.msg.id, item.source)
    BY <1>0, <2>2
  <2>4. control'[w] = Enqueue(w, item) /\ \A v \in Worker \ {w} : control'[v] = control[v]
    BY <2>1 DEF TypeOK, WorkerTypeOK
  <2> HIDE DEF item
  <2>5. ToSet(control'[w]) \subseteq ToSet(control[w]) \cup {item}
    BY <2>4, EnqueueFacts DEF TypeOK
  <2>6. UNCHANGED <<outbox, to_send, peer_map>>
    BY <1>4 DEF Deliver
  <2>7. ASSUME NEW v \in Worker PROVE TruthOf(v)'
    BY <1>0, <2>3, <2>4, <2>5, <2>6 DEF TruthOf
  <2> QED  BY <1>0, <2>1, <2>7 DEF TruthInv, AddressTruth, TruthOf
<1>5. CASE DeliverUnknown
  <2>1. /\ messages # <<>> /\ messages' = Tail(messages) /\ UNCHANGED workerVars
    BY <1>5 DEF DeliverUnknown
  <2>2. ToSet(messages') \subseteq ToSet(messages)
    BY <2>1, HeadTailSeq DEF TypeOK
  <2> QED  BY <2>1, <2>2 DEF TruthInv, AddressTruth, workerVars, threadVars
<1> QED  BY <1>1, <1>2, <1>3, <1>4, <1>5 DEF route

\* When run starts, every table holds its own worker only, and no Pong is about.
LEMMA SimStartsTrue == Init => TruthInv
<1> SUFFICES ASSUME Init PROVE TruthInv
  OBVIOUS
<1>1. ASSUME NEW w \in Worker PROVE TruthOf(w)
  <2>1. control[w] = FirstMessages(w) /\ outbox[w] = <<>> /\ to_send[w] = <<>>
        /\ peer_map[w] = start(w)
    BY DEF Init, WorkerInit
  <2>2. ToSet(outbox[w]) = {} /\ ToSet(to_send[w]) = {}
    BY <2>1, NoItems
  <2>3. \A c \in ToSet(control[w]) : c.msg.type # "Pong"
    BY <2>1, FirstFacts
  <2>4. \A p \in PeerId, k \in Rank :
          peer_map[w][k][p] # None => LivesAt(p, peer_map[w][k][p])
    BY <2>1, StartTruth
  <2> QED  BY <2>2, <2>3, <2>4 DEF TruthOf
<1>2. ToSet(messages) = {}
  BY NoItems DEF Init
<1> QED  BY <1>1, <1>2, TruthIsPerWorker

\* Every step of the simulation preserves TruthInv.
LEMMA SimKeepsTrue == TypeOK /\ SimInv /\ TruthInv /\ [Next]_vars => TruthInv'
<1> SUFFICES ASSUME TypeOK, SimInv, TruthInv, [Next]_vars PROVE TruthInv'
  OBVIOUS
<1>1. CASE route
  BY <1>1, RouteTruth
<1>2. CASE thread_step
  <2>1. PICK w \in Worker : run(w) /\ UNCHANGED routerVars
    BY <1>2 DEF thread_step
  <2>2. TruthOf(w)'
    BY <2>1, RunTruth, TruthIsPerWorker
  <2>3. ASSUME NEW v \in Worker, v # w PROVE TruthOf(v)'
    <3>1. /\ control'[v] = control[v] /\ outbox'[v] = outbox[v]
          /\ to_send'[v] = to_send[v] /\ peer_map'[v] = peer_map[v]
      BY <2>1, <2>3, RunFacts DEF TypeOK
    <3>2. TruthOf(v)
      BY TruthIsPerWorker
    <3> QED  BY <3>1, <3>2 DEF TruthOf
  <2>4. messages' = messages
    BY <2>1 DEF routerVars
  <2>5. \A v \in Worker : TruthOf(v)'
    BY <2>2, <2>3
  <2> QED  BY <2>4, <2>5 DEF TruthInv, AddressTruth, TruthOf
<1>3. CASE Tick \/ UNCHANGED vars
  <2>1. UNCHANGED <<control, outbox, to_send, peer_map, messages>>
    BY <1>3 DEF Tick, vars, workerVars, threadVars, routerVars
  <2> QED  BY <2>1 DEF TruthInv, AddressTruth
<1> QED  BY <1>1, <1>2, <1>3 DEF Next

(***************************************************************************)
(* No table of the simulation ever holds a wrong address, for any set of   *)
(* workers, ids, addresses and delays, and although every worker starts    *)
(* with a Ping that shows its own id at the bootstrap address.             *)
(***************************************************************************)
THEOREM SimTellsTheTruth == Spec => []TruthInv
BY SimStartsTrue, SimKeepsTrue, SimTypeOK, SimInvariant, PTL DEF Spec
-----------------------------------------------------------------------------
\* An injected Ping adds one message to one control channel, and that message is
\* neither a Quit nor a Pong.
LEMMA InjectFacts ==
  ASSUME TypeOK, NEW v \in Worker, NEW w \in Worker, InjectPing(v, w)
  PROVE  \E item :
           /\ IsWorkerMessage(item) /\ item.type = "Incoming" /\ item.msg.type = "Ping"
           /\ DOMAIN control' = Worker /\ IsSeq(control'[w])
           /\ ToSet(control'[w]) \subseteq ToSet(control[w]) \cup {item}
           /\ \A u \in Worker \ {w} : control'[u] = control[u]
           /\ UNCHANGED <<outbox, to_send, peer_map, thread, handle, controllers>>
           /\ UNCHANGED <<workers, worker_add_queue, elapsed, messages, to_drain, router>>
<1> DEFINE item == Incoming(AddrOf[v], Ping(IdOf[v]))
<1>1. IsWorkerMessage(item) /\ item.type = "Incoming" /\ item.msg.type = "Ping"
  BY WorkerAssumption DEF IsWorkerMessage, IsMessage, Incoming, Ping
<1>2. control' = [control EXCEPT ![w] = Enqueue(w, item)]
  BY DEF InjectPing
<1> HIDE DEF item
<1>3. /\ DOMAIN control' = Worker /\ control'[w] = Enqueue(w, item)
      /\ \A u \in Worker \ {w} : control'[u] = control[u]
  BY <1>2 DEF TypeOK, WorkerTypeOK
<1>4. IsSeq(control'[w]) /\ ToSet(control'[w]) \subseteq ToSet(control[w]) \cup {item}
  BY <1>3, EnqueueFacts DEF TypeOK
<1>5. /\ UNCHANGED <<outbox, to_send, peer_map, thread, handle, controllers>>
      /\ UNCHANGED <<workers, worker_add_queue, elapsed, messages, to_drain, router>>
  BY DEF InjectPing, routerVars
<1> QED  BY <1>1, <1>3, <1>4, <1>5

(***************************************************************************)
(* Pings between the workers, as many as they like and crossing each other *)
(* and the pings that the workers answer with, endanger nothing: the       *)
(* router still never meets a dead worker, and whoever enters a peer       *)
(* after a Ping back enters it where it is.                                *)
(***************************************************************************)
THEOREM ExchangeTellsTheTruth == ExchangeSpec => [](SimInv /\ TruthInv)
<1> DEFINE Inv == TypeOK /\ SimInv /\ TruthInv
<1>1. ExchangeInit => Inv
  BY SimStartsTyped, SimStartsHealthy, SimStartsTrue DEF ExchangeInit
<1>2. Inv /\ [ExchangeNext]_exchangeVars => Inv'
  <2> SUFFICES ASSUME TypeOK, SimInv, TruthInv, [ExchangeNext]_exchangeVars PROVE Inv'
    OBVIOUS
  <2>1. CASE [Next]_vars
    BY <2>1, SimKeepsTypes, SimKeepsHealthy, SimKeepsTrue
  <2>2. ASSUME NEW v \in Worker, NEW w \in Worker, InjectPing(v, w) PROVE Inv'
    <3>1. PICK item :
            /\ IsWorkerMessage(item) /\ item.type = "Incoming" /\ item.msg.type = "Ping"
            /\ DOMAIN control' = Worker /\ IsSeq(control'[w])
            /\ ToSet(control'[w]) \subseteq ToSet(control[w]) \cup {item}
            /\ \A u \in Worker \ {w} : control'[u] = control[u]
            /\ UNCHANGED <<outbox, to_send, peer_map, thread, handle, controllers>>
            /\ UNCHANGED <<workers, worker_add_queue, elapsed, messages, to_drain, router>>
      BY <2>2, InjectFacts
    <3>2. TypeOK'
      <4>1. ASSUME NEW u \in Worker
            PROVE  IsSeq(control'[u]) /\ \A c \in ToSet(control'[u]) : IsWorkerMessage(c)
        <5>1. IsSeq(control[u]) /\ \A c \in ToSet(control[u]) : IsWorkerMessage(c)
          BY DEF TypeOK, WorkerTypeOK
        <5>2. CASE u = w
          BY <3>1, <5>1, <5>2
        <5>3. CASE u # w
          <6>1. control'[u] = control[u]
            BY <3>1, <5>3
          <6> QED  BY <5>1, <6>1
        <5> QED  BY <5>2, <5>3
      <4>2. WorkerTypeOK'
        BY <3>1, <4>1 DEF TypeOK, WorkerTypeOK
      <4> QED  BY <3>1, <4>2 DEF TypeOK, Added
    <3>3. SimInv'
      BY <3>1 DEF SimInv, NobodyPanics, Added
    <3>4. ASSUME NEW u \in Worker PROVE TruthOf(u)'
      <4>1. TruthOf(u)
        BY TruthIsPerWorker
      <4> QED  BY <3>1, <4>1 DEF TruthOf
    <3>5. TruthInv'
      BY <3>1, <3>4 DEF TruthInv, AddressTruth, TruthOf
    <3> QED  BY <3>2, <3>3, <3>5
  <2> QED  BY <2>1, <2>2 DEF ExchangeNext, exchangeVars
<1> QED  BY <1>1, <1>2, PTL DEF ExchangeSpec
=============================================================================
