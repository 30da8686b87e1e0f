------------------------------ MODULE OldPeer ------------------------------
(***************************************************************************)
(* src/peer.rs: peers that listen for connections and connect to their     *)
(* bootstrap peer.  The two tasks of a peer run on its one thread, inside  *)
(* block_on, and each talks over one connection at a time (talk_to_peer).  *)
(*                                                                         *)
(* quinn and the runtime appear as what the tasks see of them: connections *)
(* that are in their handshake, open or lost, and a thread that a panic of *)
(* any task unwinds.                                                       *)
(***************************************************************************)
EXTENDS Sequences

CONSTANTS
  Peer,        \* the peers, each a process of its own
  None,
  Bootstrap,   \* peer -> options.bootstrap_peer or None
  Pinging      \* the peers whose message is the Ping of this program; the others
               \* stand for programs that send another message, or none that
               \* receive_message can decode

ASSUME OldPeerAssumption ==
  /\ None \notin Peer
  /\ Bootstrap \in [Peer -> Peer \cup {None}]
  /\ Pinging \subseteq Peer

\* A connection has the name of the peer that opens it, and two ends.
Conn       == {p \in Peer : Bootstrap[p] # None}
End        == Conn \X {"client", "server"}
Owner(e)   == IF e[2] = "client" THEN e[1] ELSE Bootstrap[e[1]]
Other(e)   == <<e[1], IF e[2] = "client" THEN "server" ELSE "client">>

VARIABLES
  process,     \* peer -> "starting" | "driving" | "draining" | "ok" | "failed" | "panicked"
  boot,        \* its bootstrap task: "none" | "connecting" | "talking" | "ok" | "failed"
  listener,    \* its listening task: "waiting" | "talking" | "ok" | "failed"
  incoming,    \* the connections it has not yet taken up
  conn,        \* connection -> "none" | "handshake" | "open" | "lost"
  sent,        \* outgoing_stream of an end: "none" | "opening" | "sending" | "done" | "over"
  heard        \* its incoming_streams: "none" | "idle" | "answering" | "ignoring" |
               \* "answered" | "ignored" | "over"

vars == <<process, boot, listener, incoming, conn, sent, heard>>

Talking(e) == sent[e] \notin {"none", "over"}

\* Tasks are polled in start(), by block_on, and after it in run().
Polled(p) == process[p] \in {"driving", "draining"}

Init ==
  /\ process  = [p \in Peer |-> "starting"]
  /\ boot     = [p \in Peer |-> "none"]
  /\ listener = [p \in Peer |-> "waiting"]
  /\ incoming = [p \in Peer |-> <<>>]
  /\ conn     = [c \in Conn |-> "none"]
  /\ sent     = [e \in End |-> "none"]
  /\ heard    = [e \in End |-> "none"]

\* The connections of peer p when its endpoint goes.
Cut(p) ==
  [c \in Conn |-> IF p \in {c, Bootstrap[c]} /\ conn[c] \in {"handshake", "open"}
                  THEN "lost" ELSE conn[c]]
-----------------------------------------------------------------------------
(***************************************************************************)
(* start() and run()                                                       *)
(***************************************************************************)

\* The endpoint is bound, the connection to the bootstrap peer begun and the tasks
\* are spawned.
Start(p) ==
  /\ process[p] = "starting"
  /\ process' = [process EXCEPT ![p] = "driving"]
  /\ boot' = [boot EXCEPT ![p] = IF p \in Conn THEN "connecting" ELSE "none"]
  /\ conn' = [c \in Conn |-> IF c = p THEN "handshake" ELSE conn[c]]
  /\ UNCHANGED <<listener, incoming, sent, heard>>

\* Any of the errors that `?` returns before block_on.
StartFails(p) ==
  /\ process[p] = "starting"
  /\ process' = [process EXCEPT ![p] = "failed"]
  /\ UNCHANGED <<boot, listener, incoming, conn, sent, heard>>

\* block_on(driver) returns.  On an error so do start() and run(); otherwise run()
\* goes on with the tasks that are left.
DriverEnds(p, how) ==
  /\ process[p] = "driving"
  /\ process' = [process EXCEPT ![p] = how]
  /\ conn' = Cut(p)
  /\ UNCHANGED <<boot, listener, incoming, sent, heard>>

\* self.runtime.run() returns when no task is left.
RunReturns(p) ==
  /\ process[p] = "draining"
  /\ boot[p] \in {"none", "ok", "failed"}
  /\ listener[p] \in {"ok", "failed"}
  /\ process' = [process EXCEPT ![p] = "ok"]
  /\ UNCHANGED <<boot, listener, incoming, conn, sent, heard>>
-----------------------------------------------------------------------------
(***************************************************************************)
(* The two tasks                                                           *)
(***************************************************************************)

\* talk_to_peer begins: open_bi is called and incoming streams are awaited.
Talk(e) ==
  /\ sent'  = [sent EXCEPT ![e] = "opening"]
  /\ heard' = [heard EXCEPT ![e] = "idle"]

\* connect_with succeeds.
Connected(p) ==
  /\ Polled(p)
  /\ boot[p] = "connecting"
  /\ conn[p] = "open"
  /\ boot' = [boot EXCEPT ![p] = "talking"]
  /\ Talk(<<p, "client">>)
  /\ UNCHANGED <<process, listener, incoming, conn>>

\* "failed to connect"
ConnectFails(p) ==
  /\ Polled(p)
  /\ boot[p] = "connecting"
  /\ conn[p] = "lost"
  /\ boot' = [boot EXCEPT ![p] = "failed"]
  /\ UNCHANGED <<process, listener, incoming, conn, sent, heard>>

\* for_each takes the next connection, in whatever state it is by now, when the
\* conversation over the last one has ended well.
Accept(p) ==
  /\ Polled(p)
  /\ listener[p] = "waiting"
  /\ incoming[p] # <<>>
  /\ listener' = [listener EXCEPT ![p] = "talking"]
  /\ incoming' = [incoming EXCEPT ![p] = Tail(@)]
  /\ Talk(<<Head(incoming[p]), "server">>)
  /\ UNCHANGED <<process, boot, conn>>

\* No connection can come any more.
IncomingEnds(p) ==
  /\ process[p] = "draining"
  /\ listener[p] = "waiting"
  /\ incoming[p] = <<>>
  /\ listener' = [listener EXCEPT ![p] = "ok"]
  /\ UNCHANGED <<process, boot, incoming, conn, sent, heard>>
-----------------------------------------------------------------------------
(***************************************************************************)
(* talk_to_peer: a message out, and whatever streams come in               *)
(***************************************************************************)

\* open_bi resolves.
OpenStream(e) ==
  /\ Polled(Owner(e))
  /\ sent[e] = "opening"
  /\ conn[e[1]] = "open"
  /\ sent' = [sent EXCEPT ![e] = "sending"]
  /\ UNCHANGED <<process, boot, listener, incoming, conn, heard>>

\* expect("Could not unwrap stream?"): the panic unwinds the thread of the peer.
OpenStreamPanics(e) ==
  /\ Polled(Owner(e))
  /\ sent[e] = "opening"
  /\ conn[e[1]] = "lost"
  /\ process' = [process EXCEPT ![Owner(e)] = "panicked"]
  /\ conn' = Cut(Owner(e))
  /\ UNCHANGED <<boot, listener, incoming, sent, heard>>

\* send_message: the message is written, the stream shut down and let go of.
SendMessage(e) ==
  /\ Polled(Owner(e))
  /\ sent[e] = "sending"
  /\ conn[e[1]] = "open"
  /\ sent' = [sent EXCEPT ![e] = "done"]
  /\ UNCHANGED <<process, boot, listener, incoming, conn, heard>>

\* The stream of the other end shows up and receive_message reads it to its end: a
\* Ping calls for a Pong, everything else for nothing.
ReadMessage(e) ==
  /\ Polled(Owner(e))
  /\ heard[e] = "idle"
  /\ conn[e[1]] = "open"
  /\ sent[Other(e)] \in {"sending", "done"}
  /\ heard' = [heard EXCEPT ![e] =
                 IF Owner(Other(e)) \in Pinging THEN "answering" ELSE "ignoring"]
  /\ UNCHANGED <<process, boot, listener, incoming, conn, sent>>

Closed == [answering |-> "answered", ignoring |-> "ignored"]

CloseStream_NoPong(e) ==
  /\ Polled(Owner(e))
  /\ heard[e] = "ignoring"
  /\ conn[e[1]] = "open"
  /\ heard' = [heard EXCEPT ![e] = Closed[heard[e]]]
  /\ UNCHANGED <<process, boot, listener, incoming, conn, sent>>

\* The Pong, if any, is written and the stream shut down.
CloseStream(e) ==
  /\ Polled(Owner(e))
  /\ heard[e] \in DOMAIN Closed
  /\ conn[e[1]] = "open"
  /\ heard' = [heard EXCEPT ![e] = Closed[heard[e]]]
  /\ UNCHANGED <<process, boot, listener, incoming, conn, sent>>

\* The conversation at e is over, and the task that held it goes on or ends.  Its
\* hold on the connection goes with it.
Hangup(e) ==
  /\ sent'  = [sent EXCEPT ![e] = "over"]
  /\ heard' = [heard EXCEPT ![e] = "over"]
  /\ conn'  = [conn EXCEPT ![e[1]] = "lost"]
  /\ UNCHANGED <<process, incoming>>

TaskEnds_TogetherOnError(e, ok) ==
  /\ boot' = IF e[2] = "client"
             THEN [boot EXCEPT ![Owner(e)] = IF ok THEN "ok" ELSE "failed"] ELSE boot
  /\ listener' = IF e[2] = "server" \/ (~ok /\ listener[Owner(e)] = "waiting")
                 THEN [listener EXCEPT ![Owner(e)] = IF ok THEN "waiting" ELSE "failed"]
                 ELSE listener

TaskEnds_FirstConnectionOnly(e, ok) ==
  IF e[2] = "client"
  THEN /\ boot' = [boot EXCEPT ![Owner(e)] = IF ok THEN "ok" ELSE "failed"]
       /\ UNCHANGED listener
  ELSE /\ listener' = [listener EXCEPT ![Owner(e)] = IF ok THEN "ok" ELSE "failed"]
       /\ UNCHANGED boot

\* The bootstrap task has nothing left to do; for_each goes on after an Ok only.
TaskEnds(e, ok) ==
  IF e[2] = "client"
  THEN /\ boot' = [boot EXCEPT ![Owner(e)] = IF ok THEN "ok" ELSE "failed"]
       /\ UNCHANGED listener
  ELSE /\ listener' = [listener EXCEPT ![Owner(e)] = IF ok THEN "waiting" ELSE "failed"]
       /\ UNCHANGED boot

\* The connection is gone.  Either half of the join that is not through by then
\* fails, and the other with it; incoming streams end with or without an error.
TalkEnds(e, ok) ==
  /\ Polled(Owner(e))
  /\ sent[e] \in {"sending", "done"}
  /\ conn[e[1]] = "lost"
  /\ ok => sent[e] = "done" /\ heard[e] \in {"idle", "answered", "ignored"}
  /\ Hangup(e)
  /\ TaskEnds(e, ok)

\* The other end does not wait for the Pong: once it has let go of its stream the
\* writing of the Pong may fail, which ends the conversation.
PongFails(e) ==
  /\ Polled(Owner(e))
  /\ heard[e] = "answering"
  /\ conn[e[1]] = "open"
  /\ sent[Other(e)] = "done"
  /\ Hangup(e)
  /\ TaskEnds(e, FALSE)
-----------------------------------------------------------------------------
(***************************************************************************)
(* The network                                                             *)
(***************************************************************************)

\* The two endpoints agree, without the tasks.
Handshake(c) ==
  /\ conn[c] = "handshake"
  /\ process[Bootstrap[c]] = "driving"
  /\ conn' = [conn EXCEPT ![c] = "open"]
  /\ incoming' = [incoming EXCEPT ![Bootstrap[c]] = Append(@, c)]
  /\ UNCHANGED <<process, boot, listener, sent, heard>>

Lose(c) ==
  /\ conn[c] \in {"handshake", "open"}
  /\ conn' = [conn EXCEPT ![c] = "lost"]
  /\ UNCHANGED <<process, boot, listener, incoming, sent, heard>>

\* A handshake that nobody answers times out.
HandshakeTimeout(c) == conn[c] = "handshake" /\ Lose(c)
-----------------------------------------------------------------------------
talk_to_peer(e) ==
  \/ OpenStream(e) \/ OpenStreamPanics(e) \/ SendMessage(e)
  \/ ReadMessage(e) \/ CloseStream(e)
  \/ \E ok \in BOOLEAN : TalkEnds(e, ok)

peer_step(p) ==
  \/ Start(p) \/ RunReturns(p)
  \/ Connected(p) \/ ConnectFails(p) \/ Accept(p) \/ IncomingEnds(p)
  \/ \E e \in End : Owner(e) = p /\ talk_to_peer(e)

Next ==
  \/ \E p \in Peer :
       peer_step(p) \/ StartFails(p) \/ DriverEnds(p, "draining") \/ DriverEnds(p, "failed")
  \/ \E e \in End : PongFails(e)
  \/ \E c \in Conn : Handshake(c) \/ Lose(c)

Spec == Init /\ [][Next]_vars

\* Every thread goes on while some task of its peer is woken, and a handshake comes
\* to an end.  No task takes a step twice, so one condition for all is enough: none
\* is starved by the others.
Fairness ==
  WF_vars(\/ \E p \in Peer : peer_step(p)
          \/ \E c \in Conn : Handshake(c) \/ HandshakeTimeout(c))

FairSpec == Spec /\ Fairness
-----------------------------------------------------------------------------
(***************************************************************************)
(* The tasks of a peer fail apart: the listener ends with an error only    *)
(* over a connection it has taken up itself, the bootstrap task only over  *)
(* its own, and only a connection that was lost before its first stream    *)
(* takes the whole peer down.                                              *)
(***************************************************************************)
FailuresStayApart ==
  \A p \in Peer :
    /\ listener[p] = "failed" =>
         \E c \in Conn : Bootstrap[c] = p /\ sent[<<c, "server">>] = "over"
    /\ boot[p] = "failed" => conn[p] = "lost"
    /\ process[p] = "panicked" =>
         \E e \in End : Owner(e) = p /\ sent[e] = "opening" /\ conn[e[1]] = "lost"

(***************************************************************************)
(* for_each takes the connections one by one: a peer that stays connected  *)
(* is talked to unless the listener stays with an earlier one for ever or  *)
(* has failed over it.                                                     *)
(***************************************************************************)
HeardInTurn ==
  \A c \in Conn :
    <>[](conn[c] = "open") =>
      \/ <>(sent[<<c, "server">>] # "none")
      \/ <>(listener[Bootstrap[c]] = "failed")
      \/ \E d \in Conn \ {c} :
           Bootstrap[d] = Bootstrap[c] /\ <>[]Talking(<<d, "server">>)

(***************************************************************************)
(* Once both ends talk, each gets through with the message of the other,   *)
(* a Ping is answered, or the conversation ends: neither half of the join  *)
(* and no loss of the connection leaves it hanging in between.             *)
(***************************************************************************)
MessagesGetThrough ==
  \A e \in End :
    Talking(e) /\ Talking(Other(e)) ~>
      heard[e] \in {"answered", "ignored", "over"} \/ ~Polled(Owner(e))
=============================================================================
