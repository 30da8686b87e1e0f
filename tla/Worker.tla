------------------------------- MODULE Worker -------------------------------
(***************************************************************************)
(* src/worker.rs: worker threads, the handles that control them and the    *)
(* two channels between each thread and its handle.                        *)
(*                                                                         *)
(* A thread takes one message off its control channel, changes its routing *)
(* table, and then puts its replies on the message channel one by one; the *)
(* owner of the handle may act between any two of these steps.             *)
(***************************************************************************)
EXTENDS PeerMap

CONSTANTS
  Worker,     \* the workers that are started
  IdOf,       \* worker -> its PeerId
  AddrOf,     \* worker -> its SocketAddr
  MaxQueue,   \* bound: messages a worker has pending before the environment waits
  MaxControllers \* bound: clones of the control sender alive at once

ASSUME WorkerAssumption ==
  /\ IdOf \in [Worker -> PeerId]
  /\ AddrOf \in [Worker -> SocketAddr]
  /\ MaxQueue \in Nat
  /\ MaxControllers \in Nat

VARIABLES
  control,      \* control channel: sequence of WorkerMessages
  outbox,       \* message channel: sequence of <<dest, message>>
  to_send,      \* replies of the message being handled, not yet sent
  peer_map,     \* the thread's routing table
  thread,       \* "running" | "exited" | "panicked"
  handle,       \* "held" | "quitting" | "joined" | "failed" | "dropped"
  controllers   \* number of WorkerMessageHandles alive

threadVars == <<control, outbox, to_send, peer_map, thread>>
workerVars == <<threadVars, handle, controllers>>

Ping(id)     == [type |-> "Ping", id |-> id]
Pong(id)     == [type |-> "Pong", id |-> id]
FindPeer(id) == [type |-> "FindPeer", id |-> id]
PeerFound(id, addr) ==
  [type |-> "FindPeerResponsePeerFound", id |-> id, addr |-> addr]
PeerNotFound(id, neighbors) ==
  [type |-> "FindPeerResponsePeerNotFound", id |-> id, neighbors |-> neighbors]

Responses == {"FindPeerResponsePeerFound", "FindPeerResponsePeerNotFound"}

Quit                  == [type |-> "Quit"]
Incoming(source, msg) == [type |-> "Incoming", source |-> source, msg |-> msg]

\* The handle owns the message receiver and a control sender until quit() has
\* returned or the handle is dropped.
ReceiverAlive(w) == handle[w] \in {"held", "quitting"}

SenderAlive_ClonesOnly(w) == controllers[w] > 0

SenderAlive(w) == ReceiverAlive(w) \/ controllers[w] > 0

\* The table that WorkerState::start gives the thread: the worker itself is in.
start(w) == insert(EmptyPeerMap, IdOf[w], AddrOf[w], IdOf[w])

WorkerInit(queued) ==
  /\ control     = queued
  /\ outbox      = [w \in Worker |-> <<>>]
  /\ to_send     = [w \in Worker |-> <<>>]
  /\ peer_map    = [w \in Worker |-> start(w)]
  /\ thread      = [w \in Worker |-> "running"]
  /\ handle      = [w \in Worker |-> "held"]
  /\ controllers = [w \in Worker |-> 0]
-----------------------------------------------------------------------------
(***************************************************************************)
(* The owner of the handle.                                                *)
(***************************************************************************)

\* WorkerHandle::controller and the end of a WorkerMessageHandle
Controller(w) ==
  /\ handle[w] = "held"
  /\ controllers[w] < MaxControllers
  /\ controllers' = [controllers EXCEPT ![w] = @ + 1]
  /\ UNCHANGED <<threadVars, handle>>

DropController(w) ==
  /\ controllers[w] > 0
  /\ controllers' = [controllers EXCEPT ![w] = @ - 1]
  /\ UNCHANGED <<threadVars, handle>>

\* What a send on the control channel leaves there: the receiver is gone with
\* the thread, and then send returns an error.
Enqueue(w, item) ==
  IF thread[w] = "running" THEN Append(control[w], item) ELSE control[w]

Pending(w) == Len(control[w]) + Len(to_send[w]) + Len(outbox[w])

\* WorkerMessageHandle::message
Message(w, source, msg) ==
  /\ controllers[w] > 0
  /\ Pending(w) < MaxQueue
  /\ control' = [control EXCEPT ![w] = Enqueue(w, Incoming(source, msg))]
  /\ UNCHANGED <<outbox, to_send, peer_map, thread, handle, controllers>>

\* WorkerHandle::recv_message that finds a message
RecvMessage(w) ==
  /\ handle[w] = "held"
  /\ outbox[w] # <<>>
  /\ outbox' = [outbox EXCEPT ![w] = Tail(@)]
  /\ UNCHANGED <<control, to_send, peer_map, thread, handle, controllers>>

QuitSend_NoQuit(w) ==
  /\ handle[w] = "held"
  /\ handle' = [handle EXCEPT ![w] = "quitting"]
  /\ UNCHANGED <<threadVars, controllers>>

\* WorkerHandle::quit, the send; its error return drops the handle.
QuitSend(w) ==
  /\ handle[w] = "held"
  /\ control' = [control EXCEPT ![w] = Enqueue(w, Quit)]
  /\ handle' = [handle EXCEPT ![w] = IF thread[w] = "running" THEN "quitting" ELSE "failed"]
  /\ outbox' = [outbox EXCEPT ![w] = IF thread[w] = "running" THEN @ ELSE <<>>]
  /\ UNCHANGED <<to_send, peer_map, thread, controllers>>

\* WorkerHandle::quit, the join: blocks until the thread has ended; it panics
\* when the thread has panicked.  Then the handle is gone.
QuitJoin(w) ==
  /\ handle[w] = "quitting"
  /\ thread[w] # "running"
  /\ handle' = [handle EXCEPT ![w] = IF thread[w] = "exited" THEN "joined" ELSE "failed"]
  /\ outbox' = [outbox EXCEPT ![w] = <<>>]
  /\ UNCHANGED <<control, to_send, peer_map, thread, controllers>>

\* The handle goes out of scope without quit(): the thread is detached.
DropHandle(w) ==
  /\ handle[w] = "held"
  /\ handle' = [handle EXCEPT ![w] = "dropped"]
  /\ outbox' = [outbox EXCEPT ![w] = <<>>]
  /\ UNCHANGED <<control, to_send, peer_map, thread, controllers>>
-----------------------------------------------------------------------------
(***************************************************************************)
(* The thread: WorkerState::run.                                           *)
(***************************************************************************)

\* The thread is at recv() and the next item on the channel is of this type.
AtRecv(w) == thread[w] = "running" /\ to_send[w] = <<>>

HasIncoming(w, types) ==
  /\ AtRecv(w)
  /\ control[w] # <<>>
  /\ Head(control[w]).type = "Incoming"
  /\ Head(control[w]).msg.type \in types

\* The thread ends: its receiver goes, with what was queued there.
Stop(w, how) ==
  /\ thread' = [thread EXCEPT ![w] = how]
  /\ control' = [control EXCEPT ![w] = <<>>]
  /\ to_send' = [to_send EXCEPT ![w] = <<>>]
  /\ UNCHANGED <<outbox, peer_map, handle, controllers>>

RecvQuit(w) ==
  /\ AtRecv(w)
  /\ control[w] # <<>>
  /\ Head(control[w]).type = "Quit"
  /\ Stop(w, "exited")

RecvDisconnected_Ignored(w) ==
  /\ AtRecv(w)
  /\ control[w] = <<>>
  /\ ~SenderAlive(w)
  /\ UNCHANGED workerVars

\* recv() fails once the channel is empty and every sender is gone.
RecvDisconnected(w) ==
  /\ AtRecv(w)
  /\ control[w] = <<>>
  /\ ~SenderAlive(w)
  /\ Stop(w, "exited")

RecvPing_Insert(w) ==
  /\ HasIncoming(w, {"Ping"})
  /\ LET in == Head(control[w])
     IN  /\ to_send' = [to_send EXCEPT ![w] = << <<in.source, Pong(IdOf[w])>> >>]
         /\ peer_map' = [peer_map EXCEPT ![w] = insert(@, IdOf[w], in.source, in.msg.id)]
  /\ control' = [control EXCEPT ![w] = Tail(@)]
  /\ UNCHANGED <<outbox, thread, handle, controllers>>

RecvPing_NeverPingsBack(w) ==
  /\ HasIncoming(w, {"Ping"})
  /\ to_send' = [to_send EXCEPT ![w] = << <<Head(control[w]).source, Pong(IdOf[w])>> >>]
  /\ control' = [control EXCEPT ![w] = Tail(@)]
  /\ UNCHANGED <<outbox, peer_map, thread, handle, controllers>>

RecvPing_PingForPing(w) ==
  /\ HasIncoming(w, {"Ping"})
  /\ to_send' = [to_send EXCEPT ![w] = << <<Head(control[w]).source, Ping(IdOf[w])>> >>]
  /\ control' = [control EXCEPT ![w] = Tail(@)]
  /\ UNCHANGED <<outbox, peer_map, thread, handle, controllers>>

\* Answer, and ping back a peer that is not in the table.  A Ping never changes
\* the table.
RecvPing(w) ==
  /\ HasIncoming(w, {"Ping"})
  /\ LET in == Head(control[w])
     IN  to_send' = [to_send EXCEPT ![w] =
                       IF contains(peer_map[w], IdOf[w], in.msg.id) = None
                       THEN << <<in.source, Pong(IdOf[w])>>, <<in.source, Ping(IdOf[w])>> >>
                       ELSE << <<in.source, Pong(IdOf[w])>> >>]
  /\ control' = [control EXCEPT ![w] = Tail(@)]
  /\ UNCHANGED <<outbox, peer_map, thread, handle, controllers>>

\* The sender of a Pong is entered at the address the Pong came from.
RecvPong(w) ==
  /\ HasIncoming(w, {"Pong"})
  /\ LET in == Head(control[w])
     IN  peer_map' = [peer_map EXCEPT ![w] = insert(@, IdOf[w], in.source, in.msg.id)]
  /\ control' = [control EXCEPT ![w] = Tail(@)]
  /\ UNCHANGED <<outbox, to_send, thread, handle, controllers>>

RecvFindPeer_AnswersSource(w) ==
  /\ HasIncoming(w, {"FindPeer"})
  /\ LET in == Head(control[w])
     IN  to_send' = [to_send EXCEPT ![w] =
           << <<in.source, PeerFound(in.msg.id, in.source)>> >>]
  /\ control' = [control EXCEPT ![w] = Tail(@)]
  /\ UNCHANGED <<outbox, peer_map, thread, handle, controllers>>

RecvFindPeer(w) ==
  /\ HasIncoming(w, {"FindPeer"})
  /\ LET in == Head(control[w])
     IN  \E found \in lookup(peer_map[w], IdOf[w], in.msg.id) :
           to_send' = [to_send EXCEPT ![w] =
             << <<in.source, IF found.addr # None
                             THEN PeerFound(in.msg.id, found.addr)
                             ELSE PeerNotFound(in.msg.id, found.neighbors)>> >>]
  /\ control' = [control EXCEPT ![w] = Tail(@)]
  /\ UNCHANGED <<outbox, peer_map, thread, handle, controllers>>

\* Responses are received and ignored.
RecvOther(w) ==
  /\ HasIncoming(w, Responses)
  /\ control' = [control EXCEPT ![w] = Tail(@)]
  /\ UNCHANGED <<outbox, to_send, peer_map, thread, handle, controllers>>

\* WorkerState::send with the receiver alive, and its expect() otherwise.
Send(w) ==
  /\ thread[w] = "running"
  /\ to_send[w] # <<>>
  /\ ReceiverAlive(w)
  /\ outbox' = [outbox EXCEPT ![w] = Append(@, Head(to_send[w]))]
  /\ to_send' = [to_send EXCEPT ![w] = Tail(@)]
  /\ UNCHANGED <<control, peer_map, thread, handle, controllers>>

SendPanics(w) ==
  /\ thread[w] = "running"
  /\ to_send[w] # <<>>
  /\ ~ReceiverAlive(w)
  /\ Stop(w, "panicked")

run(w) ==
  \/ RecvQuit(w) \/ RecvDisconnected(w)
  \/ RecvPing(w) \/ RecvPong(w) \/ RecvFindPeer(w) \/ RecvOther(w)
  \/ Send(w) \/ SendPanics(w)
-----------------------------------------------------------------------------
IsMessage(m) ==
  /\ m.type \in {"Ping", "Pong", "FindPeer"} \cup Responses
  /\ m.id \in PeerId

IsOutgoing(o) == o[1] \in SocketAddr /\ IsMessage(o[2])

IsWorkerMessage(c) ==
  \/ c.type = "Quit"
  \/ c.type = "Incoming" /\ c.source \in SocketAddr /\ IsMessage(c.msg)

IsSeq(s) == s \in Seq(ToSet(s))

\* The shape of the neighbors list of a response is not part of the type.
WorkerTypeOK ==
  /\ DOMAIN control = Worker /\ DOMAIN outbox = Worker /\ DOMAIN to_send = Worker
  /\ \A w \in Worker :
       /\ IsSeq(control[w]) /\ \A c \in ToSet(control[w]) : IsWorkerMessage(c)
       /\ IsSeq(outbox[w])  /\ \A o \in ToSet(outbox[w])  : IsOutgoing(o)
       /\ IsSeq(to_send[w]) /\ \A o \in ToSet(to_send[w]) : IsOutgoing(o)
  /\ peer_map \in [Worker -> PeerMaps]
  /\ thread \in [Worker -> {"running", "exited", "panicked"}]
  /\ handle \in [Worker -> {"held", "quitting", "joined", "failed", "dropped"}]
  /\ controllers \in [Worker -> 0 .. MaxControllers]
=============================================================================
