---------------------------- MODULE WorkerHandle ----------------------------
(***************************************************************************)
(* Workers and the code that owns their handles, used in every way the     *)
(* public interface of src/worker.rs allows: any message from any address  *)
(* through any clone of the control sender, quit, or the handle dropped.   *)
(***************************************************************************)
EXTENDS Worker

\* Every kind of message, about every id.  The content of a response is not
\* looked at by the worker, so one response stands for all.
IncomingMessages ==
  {Ping(id) : id \in PeerId} \cup {Pong(id) : id \in PeerId}
    \cup {FindPeer(id) : id \in PeerId}
    \cup {PeerNotFound(id, <<>>) : id \in PeerId}

HandleInit == WorkerInit([w \in Worker |-> <<>>])

owner(w) ==
  \/ Controller(w) \/ DropController(w)
  \/ \E source \in SocketAddr, msg \in IncomingMessages : Message(w, source, msg)
  \/ RecvMessage(w)
  \/ QuitSend(w) \/ QuitJoin(w) \/ DropHandle(w)

HandleNext == \E w \in Worker : run(w) \/ owner(w)

HandleSpec == HandleInit /\ [][HandleNext]_workerVars

\* Threads are scheduled, and join() returns once the thread has ended.
HandleFairness ==
  \A w \in Worker : WF_workerVars(run(w)) /\ WF_workerVars(QuitJoin(w))

HandleFairSpec == HandleSpec /\ HandleFairness
-----------------------------------------------------------------------------
(***************************************************************************)
(* While somebody holds the handle the thread cannot die under it: quit()  *)
(* neither finds the thread gone nor panics at join(), and only a thread   *)
(* whose handle was dropped can panic.                                     *)
(***************************************************************************)
QuitNeverFails ==
  \A w \in Worker :
    /\ handle[w] # "failed"
    /\ handle[w] = "held" => thread[w] = "running"
    /\ thread[w] = "panicked" => handle[w] = "dropped"

(***************************************************************************)
(* A lookup is answered from the table as it still is when the answer      *)
(* leaves: no change of the table slips in between the lookup and the send.*)
(***************************************************************************)
ReplyMatchesTable ==
  \A w \in Worker : \A o \in ToSet(to_send[w]) :
    LET msg   == o[2]
        known == contains(peer_map[w], IdOf[w], msg.id)
    IN  /\ msg.type = "FindPeerResponsePeerFound" => msg.addr = known
        /\ msg.type = "FindPeerResponsePeerNotFound" =>
             /\ known = None
             /\ \A c \in ToSet(msg.neighbors) :
                  c[2] = contains(peer_map[w], IdOf[w], c[1])

(***************************************************************************)
(* quit() returns, whatever is queued before the Quit message.             *)
(***************************************************************************)
QuitReturns == \A w \in Worker : handle[w] = "quitting" ~> handle[w] = "joined"

(***************************************************************************)
(* A thread that nobody can talk to any more does not live on.             *)
(***************************************************************************)
OrphanStops ==
  \A w \in Worker :
    (~ReceiverAlive(w) /\ controllers[w] = 0) ~> thread[w] # "running"

(***************************************************************************)
(* A Ping that reaches the control channel is answered with a Pong to      *)
(* where it came from, unless the handle is given up first.                *)
(***************************************************************************)
PingAnswered ==
  \A w \in Worker, source \in SocketAddr :
    (\E id \in PeerId : Incoming(source, Ping(id)) \in ToSet(control[w]))
    ~> \/ handle[w] # "held"
       \/ <<source, Pong(IdOf[w])>> \in ToSet(outbox[w])
=============================================================================
