--------------------------- MODULE OldPeerProofs ---------------------------
(***************************************************************************)
(* The tasks of the old peer fail apart, for any set of peers and whoever  *)
(* bootstraps from whom.                                                   *)
(***************************************************************************)
EXTENDS OldPeer, Integers, TLAPS

\* The shape of the state.
PeerShape ==
  /\ process \in [Peer -> {"starting", "driving", "draining", "ok", "failed", "panicked"}]
  /\ boot \in [Peer -> {"none", "connecting", "talking", "ok", "failed"}]
  /\ listener \in [Peer -> {"waiting", "talking", "ok", "failed"}]
  /\ incoming \in [Peer -> Seq(Conn)]
  /\ conn \in [Conn -> {"none", "handshake", "open", "lost"}]
  /\ sent \in [End -> {"none", "opening", "sending", "done", "over"}]
  /\ heard \in [End -> {"none", "idle", "answering", "ignoring", "answered", "ignored", "over"}]

(***************************************************************************)
(* What FailuresStayApart needs to be inductive: a listener is given only  *)
(* connections to itself, a peer has no connection before it has started,  *)
(* so a lost one is never begun again, and only peers with a bootstrap     *)
(* peer have a bootstrap task.                                             *)
(***************************************************************************)
OwnIncoming == \A p \in Peer : \A n \in 1 .. Len(incoming[p]) : Bootstrap[incoming[p][n]] = p
NotBegun    == \A c \in Conn : process[c] = "starting" => conn[c] = "none"
BootOfConn  == \A p \in Peer : boot[p] # "none" => p \in Conn

TasksInv == PeerShape /\ OwnIncoming /\ NotBegun /\ BootOfConn

\* Connections are named after peers, and both ends belong to peers.
LEMMA EndFacts ==
  /\ Conn \subseteq Peer
  /\ \A c \in Conn : Bootstrap[c] \in Peer /\ <<c, "client">> \in End /\ <<c, "server">> \in End
  /\ \A e \in End : e[1] \in Conn /\ Owner(e) \in Peer
  /\ \A e \in End : e[2] = "client" => e = <<e[1], "client">> /\ Owner(e) = e[1]
  /\ \A e \in End : e[2] # "client" => e = <<e[1], "server">> /\ Owner(e) = Bootstrap[e[1]]
BY OldPeerAssumption DEF Conn, End, Owner

\* The head of the queue of incoming connections is one to the peer itself.
LEMMA NextIncoming ==
  ASSUME TasksInv, NEW p \in Peer, incoming[p] # <<>>
  PROVE  /\ Head(incoming[p]) \in Conn /\ Bootstrap[Head(incoming[p])] = p
         /\ Tail(incoming[p]) \in Seq(Conn)
         /\ \A n \in 1 .. Len(Tail(incoming[p])) : Bootstrap[Tail(incoming[p])[n]] = p
<1> DEFINE q == incoming[p]
<1>1. q \in Seq(Conn) /\ q # <<>>
  BY DEF TasksInv, PeerShape
<1>2. \A n \in 1 .. Len(q) : Bootstrap[q[n]] = p
  BY DEF TasksInv, OwnIncoming
<1> HIDE DEF q
<1>3. /\ Head(q) = q[1] /\ 1 \in 1 .. Len(q) /\ Head(q) \in Conn /\ Tail(q) \in Seq(Conn)
      /\ Len(Tail(q)) = Len(q) - 1 /\ Len(q) \in Nat
      /\ \A n \in 1 .. Len(Tail(q)) : Tail(q)[n] = q[n + 1]
  BY <1>1
<1>4. \A n \in 1 .. Len(Tail(q)) : n + 1 \in 1 .. Len(q)
  BY <1>3
<1> QED  BY <1>2, <1>3, <1>4 DEF q

-----------------------------------------------------------------------------
(***************************************************************************)
(* What a step may do as far as the invariants are concerned.  Tasks only  *)
(* fail for cause, a lost connection stays lost, a conversation that is    *)
(* over stays so while its listener stays failed, and nobody goes on with  *)
(* the stream that made a peer panic.                                      *)
(***************************************************************************)
KeepsTasks ==
  /\ PeerShape'
  /\ OwnIncoming'
  /\ \A c \in Conn : process'[c] = "starting" =>
       process[c] = "starting" /\ (conn[c] = "none" => conn'[c] = "none")
  /\ \A p \in Peer : boot'[p] # "none" => boot[p] # "none" \/ p \in Conn

KeepsApart ==
  /\ \A p \in Peer : listener'[p] = "failed" =>
       \/ listener[p] = "failed"
       \/ \E c \in Conn : Bootstrap[c] = p /\ sent'[<<c, "server">>] = "over"
  /\ \A c \in Conn : sent[<<c, "server">>] = "over" =>
       sent'[<<c, "server">>] = "over" \/ listener'[Bootstrap[c]] # "failed"
  /\ \A p \in Peer : boot'[p] = "failed" => boot[p] = "failed" \/ conn'[p] = "lost"
  /\ \A c \in Conn : conn[c] = "lost" => conn'[c] = "lost"
  /\ \A p \in Peer : process'[p] = "panicked" =>
       \/ process[p] = "panicked"
       \/ \E e \in End : Owner(e) = p /\ sent'[e] = "opening" /\ conn'[e[1]] = "lost"
  /\ \A e \in End : process[Owner(e)] = "panicked" /\ sent[e] = "opening" => sent'[e] = "opening"

LEMMA Kept ==
  ASSUME TasksInv, FailuresStayApart, KeepsTasks, KeepsApart
  PROVE  TasksInv' /\ FailuresStayApart'
<1>1. TasksInv'
  <2>1. NotBegun'
    BY DEF KeepsTasks, TasksInv, NotBegun
  <2>2. BootOfConn'
    BY DEF KeepsTasks, TasksInv, BootOfConn
  <2> QED  BY <2>1, <2>2 DEF KeepsTasks, TasksInv
<1>2. ASSUME NEW p \in Peer, listener'[p] = "failed"
      PROVE  \E c \in Conn : Bootstrap[c] = p /\ sent'[<<c, "server">>] = "over"
  <2>1. CASE listener[p] = "failed"
    <3>1. PICK c \in Conn : Bootstrap[c] = p /\ sent[<<c, "server">>] = "over"
      BY <2>1 DEF FailuresStayApart
    <3> QED  BY <1>2, <3>1 DEF KeepsApart
  <2> QED  BY <1>2, <2>1 DEF KeepsApart
<1>3. ASSUME NEW p \in Peer, boot'[p] = "failed" PROVE conn'[p] = "lost"
  <2>1. CASE boot[p] = "failed"
    <3>1. p \in Conn /\ conn[p] = "lost"
      BY <2>1 DEF FailuresStayApart, TasksInv, BootOfConn
    <3> QED  BY <3>1 DEF KeepsApart
  <2> QED  BY <1>3, <2>1 DEF KeepsApart
<1>4. ASSUME NEW p \in Peer, process'[p] = "panicked"
      PROVE  \E e \in End : Owner(e) = p /\ sent'[e] = "opening" /\ conn'[e[1]] = "lost"
  <2>1. CASE process[p] = "panicked"
    <3>1. PICK e \in End : Owner(e) = p /\ sent[e] = "opening" /\ conn[e[1]] = "lost"
      BY <2>1 DEF FailuresStayApart
    <3>2. sent'[e] = "opening" /\ conn'[e[1]] = "lost"
      BY <2>1, <3>1, EndFacts DEF KeepsApart
    <3> QED  BY <3>1, <3>2
  <2> QED  BY <1>4, <2>1 DEF KeepsApart
<1>5. FailuresStayApart'
  BY <1>2, <1>3, <1>4 DEF FailuresStayApart
<1> QED  BY <1>1, <1>5

\* A queue that is left alone keeps its connections.
LEMMA SameIncoming ==
  ASSUME OwnIncoming, incoming' = incoming
  PROVE  OwnIncoming'
BY DEF OwnIncoming

(***************************************************************************)
(* start() and run(), the network.                                         *)
(***************************************************************************)
LEMMA ProcessStep ==
  ASSUME TasksInv, NEW p \in Peer,
         \/ Start(p) \/ StartFails(p) \/ RunReturns(p)
         \/ DriverEnds(p, "draining") \/ DriverEnds(p, "failed")
  PROVE  KeepsTasks /\ KeepsApart
<1>0. PeerShape /\ NotBegun
  BY DEF TasksInv
<1>1. incoming' = incoming /\ listener' = listener /\ sent' = sent /\ heard' = heard
  BY DEF Start, StartFails, RunReturns, DriverEnds
<1>2. OwnIncoming'
  BY <1>1, SameIncoming DEF TasksInv
<1>3. PICK how \in {"driving", "draining", "ok", "failed"} : process' = [process EXCEPT ![p] = how]
  BY DEF Start, StartFails, RunReturns, DriverEnds
<1>4. /\ boot' \in [Peer -> {"none", "connecting", "talking", "ok", "failed"}]
      /\ \A q \in Peer : boot'[q] = boot[q] \/ boot'[q] = "none"
                         \/ (boot'[q] = "connecting" /\ q \in Conn)
  <2>1. CASE Start(p)
    <3>1. boot' = [boot EXCEPT ![p] = IF p \in Conn THEN "connecting" ELSE "none"]
      BY <2>1 DEF Start
    <3> QED  BY <1>0, <3>1 DEF PeerShape
  <2>2. CASE ~Start(p)
    <3>1. boot' = boot
      BY <2>2 DEF StartFails, RunReturns, DriverEnds
    <3> QED  BY <1>0, <3>1 DEF PeerShape
  <2> QED  BY <2>1, <2>2
<1>5. /\ conn' \in [Conn -> {"none", "handshake", "open", "lost"}]
      /\ \A c \in Conn : c # p /\ conn[c] = "none" => conn'[c] = "none"
      /\ \A c \in Conn : conn[c] = "lost" => conn'[c] = "lost"
  <2>1. CASE Start(p)
    <3>1. conn' = [c \in Conn |-> IF c = p THEN "handshake" ELSE conn[c]]
          /\ process[p] = "starting"
      BY <2>1 DEF Start
    <3> QED  BY <1>0, <3>1 DEF PeerShape, NotBegun
  <2>2. CASE StartFails(p) \/ RunReturns(p)
    <3>1. conn' = conn
      BY <2>2 DEF StartFails, RunReturns
    <3> QED  BY <1>0, <3>1 DEF PeerShape
  <2>3. CASE DriverEnds(p, "draining") \/ DriverEnds(p, "failed")
    <3>1. conn' = Cut(p)
      BY <2>3 DEF DriverEnds
    <3> QED  BY <1>0, <3>1 DEF PeerShape, Cut
  <2> QED  BY <2>1, <2>2, <2>3
<1>6. PeerShape'
  BY <1>0, <1>1, <1>3, <1>4, <1>5 DEF PeerShape
<1>7. /\ process'[p] \notin {"starting", "panicked"}
      /\ \A q \in Peer : q # p => process'[q] = process[q]
  BY <1>0, <1>3 DEF PeerShape
<1>8. KeepsTasks
  BY <1>2, <1>4, <1>5, <1>6, <1>7, EndFacts DEF KeepsTasks
<1>9. KeepsApart
  BY <1>1, <1>4, <1>5, <1>7 DEF KeepsApart
<1> QED  BY <1>8, <1>9

LEMMA NetworkStep ==
  ASSUME TasksInv, NEW c \in Conn, Handshake(c) \/ Lose(c)
  PROVE  KeepsTasks /\ KeepsApart
<1>0. PeerShape /\ OwnIncoming
  BY DEF TasksInv
<1>1. /\ conn' \in [Conn -> {"none", "handshake", "open", "lost"}]
      /\ \A d \in Conn : conn[d] \in {"none", "lost"} => conn'[d] = conn[d]
  BY <1>0 DEF Handshake, Lose, PeerShape
<1>2. UNCHANGED <<process, boot, listener, sent, heard>>
  BY DEF Handshake, Lose
<1>3. incoming' \in [Peer -> Seq(Conn)] /\ OwnIncoming'
  <2>1. CASE Handshake(c)
    <3> DEFINE b == Bootstrap[c]
               q == incoming[b]
    <3>0. b \in Peer
      BY EndFacts
    <3>1. q \in Seq(Conn) /\ \A n \in 1 .. Len(q) : Bootstrap[q[n]] = b
      BY <1>0, <3>0 DEF OwnIncoming, PeerShape
    <3>2. incoming' = [incoming EXCEPT ![b] = Append(q, c)]
      BY <2>1 DEF Handshake
    <3>3. c \in Conn /\ Bootstrap[c] = b
      OBVIOUS
    <3> HIDE DEF q, b
    <3> DEFINE r == Append(q, c)
    <3>4. /\ r \in Seq(Conn) /\ Len(r) = Len(q) + 1 /\ Len(q) \in Nat /\ r[Len(q) + 1] = c
          /\ \A n \in 1 .. Len(q) : r[n] = q[n]
      BY <3>1
    <3> HIDE DEF r
    <3>5. \A n \in 1 .. Len(r) : n \in 1 .. Len(q) \/ n = Len(q) + 1
      BY <3>4
    <3>6. \A n \in 1 .. Len(r) : Bootstrap[r[n]] = b
      BY <3>1, <3>3, <3>4, <3>5
    <3>7. incoming' \in [Peer -> Seq(Conn)] /\ incoming'[b] = r
          /\ \A p \in Peer : p # b => incoming'[p] = incoming[p]
      BY <1>0, <3>0, <3>2, <3>4 DEF PeerShape, r
    <3>8. ASSUME NEW p \in Peer, NEW n \in 1 .. Len(incoming'[p])
          PROVE  Bootstrap[incoming'[p][n]] = p
      <4>1. CASE p = b
        BY <3>6, <3>7, <3>8, <4>1
      <4>2. CASE p # b
        <5>1. incoming'[p] = incoming[p]
          BY <3>7, <4>2
        <5> QED  BY <1>0, <3>8, <5>1 DEF OwnIncoming
      <4> QED  BY <4>1, <4>2
    <3> QED  BY <3>7, <3>8 DEF OwnIncoming
  <2>2. CASE Lose(c)
    BY <1>0, <2>2, SameIncoming DEF Lose, PeerShape
  <2> QED  BY <2>1, <2>2
<1>4. KeepsTasks
  BY <1>0, <1>1, <1>2, <1>3 DEF KeepsTasks, PeerShape
<1>5. KeepsApart
  BY <1>1, <1>2 DEF KeepsApart
<1> QED  BY <1>4, <1>5

(***************************************************************************)
(* The two tasks take up a connection.                                     *)
(***************************************************************************)
LEMMA TaskStep ==
  ASSUME TasksInv, NEW p \in Peer,
         Connected(p) \/ ConnectFails(p) \/ Accept(p) \/ IncomingEnds(p)
  PROVE  KeepsTasks /\ KeepsApart
<1>0. PeerShape /\ OwnIncoming /\ BootOfConn /\ process' = process /\ conn' = conn
  BY DEF TasksInv, Connected, ConnectFails, Accept, IncomingEnds
<1>1. CASE Connected(p)
  <2> DEFINE e == <<p, "client">>
  <2>0. boot[p] = "connecting" /\ p \in Conn
    BY <1>0, <1>1 DEF Connected, BootOfConn
  <2>1. e \in End /\ Owner(e) = p /\ \A c \in Conn : <<c, "server">> # e
    BY <2>0 DEF End, Owner
  <2>2. /\ process[p] # "panicked"
        /\ sent' = [sent EXCEPT ![e] = "opening"]
        /\ heard' = [heard EXCEPT ![e] = "idle"]
        /\ boot' = [boot EXCEPT ![p] = "talking"]
        /\ UNCHANGED <<listener, incoming>>
    BY <1>1 DEF Connected, Talk, Polled
  <2> HIDE DEF e
  <2>3. KeepsTasks
    BY <1>0, <2>0, <2>1, <2>2, SameIncoming DEF KeepsTasks, PeerShape
  <2>4. KeepsApart
    BY <1>0, <2>1, <2>2, EndFacts DEF KeepsApart, PeerShape
  <2> QED  BY <2>3, <2>4
<1>2. CASE ConnectFails(p)
  <2>1. /\ boot' = [boot EXCEPT ![p] = "failed"] /\ conn[p] = "lost" /\ boot[p] # "none"
        /\ UNCHANGED <<listener, incoming, sent, heard>>
    BY <1>2 DEF ConnectFails
  <2>2. KeepsTasks
    BY <1>0, <2>1, SameIncoming DEF KeepsTasks, PeerShape
  <2>3. KeepsApart
    BY <1>0, <2>1 DEF KeepsApart, PeerShape
  <2> QED  BY <2>2, <2>3
<1>3. CASE Accept(p)
  <2> DEFINE c == Head(incoming[p])
             e == <<c, "server">>
             t == Tail(incoming[p])
  <2>1. c \in Conn /\ Bootstrap[c] = p /\ t \in Seq(Conn)
        /\ \A n \in 1 .. Len(t) : Bootstrap[t[n]] = p
    BY <1>3, NextIncoming DEF Accept
  <2>2. /\ process[p] # "panicked"
        /\ sent' = [sent EXCEPT ![e] = "opening"]
        /\ heard' = [heard EXCEPT ![e] = "idle"]
        /\ listener' = [listener EXCEPT ![p] = "talking"]
        /\ incoming' = [incoming EXCEPT ![p] = t]
        /\ boot' = boot
    BY <1>3 DEF Accept, Talk, Polled
  <2> HIDE DEF c, t
  <2>3. e \in End /\ Owner(e) = p /\ \A d \in Conn : <<d, "server">> = e => Bootstrap[d] = p
    BY <2>1 DEF End, Owner
  <2> HIDE DEF e
  <2>4. /\ incoming' \in [Peer -> Seq(Conn)] /\ incoming'[p] = t
        /\ \A q \in Peer : q # p => incoming'[q] = incoming[q]
    BY <1>0, <2>1, <2>2 DEF PeerShape
  <2>5. ASSUME NEW q \in Peer, NEW n \in 1 .. Len(incoming'[q])
        PROVE  Bootstrap[incoming'[q][n]] = q
    <3>1. CASE q = p
      BY <2>1, <2>4, <2>5, <3>1
    <3>2. CASE q # p
      <4>1. incoming'[q] = incoming[q]
        BY <2>4, <3>2
      <4> QED  BY <1>0, <2>5, <4>1 DEF OwnIncoming
    <3> QED  BY <3>1, <3>2
  <2>6. OwnIncoming'
    BY <2>5 DEF OwnIncoming
  <2>7. KeepsTasks
    BY <1>0, <2>2, <2>3, <2>4, <2>6 DEF KeepsTasks, PeerShape
  <2>8. KeepsApart
    BY <1>0, <2>2, <2>3, EndFacts DEF KeepsApart, PeerShape
  <2> QED  BY <2>7, <2>8
<1>4. CASE IncomingEnds(p)
  <2>1. listener' = [listener EXCEPT ![p] = "ok"] /\ UNCHANGED <<boot, incoming, sent, heard>>
    BY <1>4 DEF IncomingEnds
  <2>2. KeepsTasks
    BY <1>0, <2>1, SameIncoming DEF KeepsTasks, PeerShape
  <2>3. KeepsApart
    BY <1>0, <2>1 DEF KeepsApart, PeerShape
  <2> QED  BY <2>2, <2>3
<1> QED  BY <1>1, <1>2, <1>3, <1>4

(***************************************************************************)
(* talk_to_peer.                                                           *)
(***************************************************************************)
LEMMA TalkStep ==
  ASSUME TasksInv, NEW e \in End, talk_to_peer(e) \/ PongFails(e)
  PROVE  KeepsTasks /\ KeepsApart
<1>0. PeerShape /\ OwnIncoming /\ NotBegun /\ OwnIncoming' /\ incoming' = incoming
  <2>1. incoming' = incoming
    BY DEF talk_to_peer, OpenStream, OpenStreamPanics, SendMessage, ReadMessage, CloseStream,
           TalkEnds, PongFails, Hangup
  <2> QED  BY <2>1, SameIncoming DEF TasksInv
<1>o. /\ Owner(e) \in Peer /\ e[1] \in Conn /\ process[Owner(e)] # "panicked"
      /\ e[2] = "client" => Owner(e) = e[1]
      /\ e[2] # "client" => Owner(e) = Bootstrap[e[1]] /\ e = <<e[1], "server">>
  BY EndFacts DEF talk_to_peer, OpenStream, OpenStreamPanics, SendMessage, ReadMessage,
           CloseStream, TalkEnds, PongFails, Polled
<1>1. CASE OpenStream(e) \/ SendMessage(e)
  <2>1. /\ sent[e] # "over" /\ UNCHANGED <<process, boot, listener, conn, heard>>
        /\ sent' = [sent EXCEPT ![e] = "sending"] \/ sent' = [sent EXCEPT ![e] = "done"]
    BY <1>1 DEF OpenStream, SendMessage
  <2>2. KeepsTasks
    BY <1>0, <2>1 DEF KeepsTasks, PeerShape
  <2>3. KeepsApart
    <3>1. /\ sent'[e] # "over"
          /\ \A f \in End : f # e => sent'[f] = sent[f]
      BY <1>0, <2>1 DEF PeerShape
    <3>2. \A f \in End : sent[f] = "over" => sent'[f] = "over"
      BY <2>1, <3>1
    <3>3. \A f \in End : process[Owner(f)] = "panicked" => sent'[f] = sent[f]
      BY <1>o, <3>1
    <3> QED  BY <2>1, <3>2, <3>3, EndFacts DEF KeepsApart
  <2> QED  BY <2>2, <2>3
<1>2. CASE ReadMessage(e) \/ CloseStream(e)
  <2>1. UNCHANGED <<process, boot, listener, conn, sent>>
    BY <1>2 DEF ReadMessage, CloseStream
  <2>2. \E h \in {"answering", "ignoring", "answered", "ignored"} : heard' = [heard EXCEPT ![e] = h]
    BY <1>2 DEF ReadMessage, CloseStream, Closed
  <2>3. KeepsTasks
    BY <1>0, <2>1, <2>2 DEF KeepsTasks, PeerShape
  <2>4. KeepsApart
    BY <2>1 DEF KeepsApart
  <2> QED  BY <2>3, <2>4
<1>3. CASE OpenStreamPanics(e)
  <2>1. /\ process' = [process EXCEPT ![Owner(e)] = "panicked"]
        /\ conn' = Cut(Owner(e)) /\ sent[e] = "opening" /\ conn[e[1]] = "lost"
        /\ UNCHANGED <<boot, listener, sent, heard>>
    BY <1>3 DEF OpenStreamPanics
  <2>2. /\ conn' \in [Conn -> {"none", "handshake", "open", "lost"}]
        /\ \A c \in Conn : conn[c] \in {"none", "lost"} => conn'[c] = conn[c]
    BY <1>0, <2>1 DEF Cut, PeerShape
  <2>3. KeepsTasks
    BY <1>0, <1>o, <2>1, <2>2, EndFacts DEF KeepsTasks, PeerShape
  <2>4. KeepsApart
    BY <1>0, <1>o, <2>1, <2>2 DEF KeepsApart, PeerShape
  <2> QED  BY <2>3, <2>4
<1>4. ASSUME NEW ok \in BOOLEAN, Hangup(e), TaskEnds(e, ok), conn[e[1]] # "none"
      PROVE  KeepsTasks /\ KeepsApart
  <2>1. /\ sent' = [sent EXCEPT ![e] = "over"] /\ heard' = [heard EXCEPT ![e] = "over"]
        /\ conn' = [conn EXCEPT ![e[1]] = "lost"] /\ process' = process
    BY <1>4 DEF Hangup
  <2>c. /\ conn' \in [Conn -> {"none", "handshake", "open", "lost"}]
        /\ \A c \in Conn : conn[c] \in {"none", "lost"} => conn'[c] = conn[c]
    BY <1>0, <1>o, <1>4, <2>1 DEF PeerShape
  <2>s. /\ sent' \in [End -> {"none", "opening", "sending", "done", "over"}]
        /\ heard' \in [End -> {"none", "idle", "answering", "ignoring",
                               "answered", "ignored", "over"}]
    BY <1>0, <2>1 DEF PeerShape
  <2>2. CASE e[2] = "client"
    <3>1. listener' = listener
          /\ (boot' = [boot EXCEPT ![e[1]] = "ok"] \/ boot' = [boot EXCEPT ![e[1]] = "failed"])
      BY <1>4, <1>o, <2>2 DEF TaskEnds
    <3>2. KeepsTasks
      <4>0. /\ boot' \in [Peer -> {"none", "connecting", "talking", "ok", "failed"}]
            /\ listener' \in [Peer -> {"waiting", "talking", "ok", "failed"}]
        BY <1>0, <3>1 DEF PeerShape
      <4>1. PeerShape'
        <5>1. process' = process
          BY <2>1
        <5> QED  BY <1>0, <2>c, <2>s, <4>0, <5>1 DEF PeerShape
      <4>2. \A p \in Peer : boot'[p] = boot[p] \/ p \in Conn
        BY <1>0, <1>o, <3>1 DEF PeerShape
      <4> QED  BY <1>0, <2>1, <2>c, <4>1, <4>2 DEF KeepsTasks
    <3>3. KeepsApart
      BY <1>0, <1>o, <2>1, <3>1, EndFacts DEF KeepsApart, PeerShape
    <3> QED  BY <3>2, <3>3
  <2>3. CASE e[2] # "client"
    <3>1. boot' = boot
          /\ (\/ listener' = [listener EXCEPT ![Owner(e)] = "waiting"]
              \/ listener' = [listener EXCEPT ![Owner(e)] = "failed"])
      BY <1>4, <2>3 DEF TaskEnds
    <3>2. KeepsTasks
      <4>0. /\ boot' \in [Peer -> {"none", "connecting", "talking", "ok", "failed"}]
            /\ listener' \in [Peer -> {"waiting", "talking", "ok", "failed"}]
        BY <1>0, <3>1 DEF PeerShape
      <4>1. PeerShape'
        <5>1. process' = process
          BY <2>1
        <5> QED  BY <1>0, <2>c, <2>s, <4>0, <5>1 DEF PeerShape
      <4>2. \A p \in Peer : boot'[p] = boot[p] \/ p \in Conn
        BY <1>0, <1>o, <3>1 DEF PeerShape
      <4> QED  BY <1>0, <2>1, <2>c, <4>1, <4>2 DEF KeepsTasks
    <3>3. KeepsApart
      <4>1. sent'[<<e[1], "server">>] = "over" /\ Bootstrap[e[1]] = Owner(e)
        <5>1. sent'[e] = "over"
          BY <1>0, <2>1 DEF PeerShape
        <5> QED  BY <1>o, <2>3, <5>1
      <4>2. \A p \in Peer : listener'[p] = "failed" => listener[p] = "failed" \/ p = Owner(e)
        BY <1>0, <1>o, <3>1 DEF PeerShape
      <4>3. \A f \in End : sent'[f] = "over" \/ (f # e /\ sent'[f] = sent[f])
        BY <1>0, <2>1 DEF PeerShape
      <4>4. \A d \in Conn : conn[d] = "lost" => conn'[d] = "lost"
        BY <1>0, <2>1 DEF PeerShape
      <4> QED  BY <1>o, <2>1, <3>1, <4>1, <4>2, <4>3, <4>4, EndFacts DEF KeepsApart
    <3> QED  BY <3>2, <3>3
  <2> QED  BY <2>2, <2>3
<1>5. CASE \E ok \in BOOLEAN : TalkEnds(e, ok)
  BY <1>4, <1>5 DEF TalkEnds
<1>6. CASE PongFails(e)
  BY <1>4, <1>6 DEF PongFails
<1> QED  BY <1>1, <1>2, <1>3, <1>5, <1>6 DEF talk_to_peer

-----------------------------------------------------------------------------
(***************************************************************************)
(* A task of a peer fails over its own connection only, and only a         *)
(* connection that is lost before its first stream takes the peer down.    *)
(***************************************************************************)
THEOREM OldPeerFailuresStayApart == Spec => []FailuresStayApart
<1> DEFINE Inv == TasksInv /\ FailuresStayApart
<1>1. Init => Inv
  <2> SUFFICES ASSUME Init PROVE Inv
    OBVIOUS
  <2>1. PeerShape /\ NotBegun /\ BootOfConn
    BY EndFacts DEF Init, PeerShape, NotBegun, BootOfConn
  <2>2. OwnIncoming
    BY DEF Init, OwnIncoming
  <2>3. FailuresStayApart
    BY DEF Init, FailuresStayApart
  <2> QED  BY <2>1, <2>2, <2>3 DEF TasksInv
<1>2. Inv /\ [Next]_vars => Inv'
  <2> SUFFICES ASSUME Inv, [Next]_vars PROVE Inv'
    OBVIOUS
  <2>1. CASE Next
    <3>1. \/ \E p \in Peer : peer_step(p) \/ StartFails(p) \/ DriverEnds(p, "draining")
                             \/ DriverEnds(p, "failed")
          \/ \E e \in End : PongFails(e)
          \/ \E c \in Conn : Handshake(c) \/ Lose(c)
      BY <2>1 DEF Next
    <3>2. KeepsTasks /\ KeepsApart
      BY <3>1, ProcessStep, NetworkStep, TaskStep, TalkStep DEF peer_step
    <3> QED  BY <3>2, Kept
  <2>2. CASE UNCHANGED vars
    <3>1. UNCHANGED <<process, boot, listener, incoming, conn, sent, heard>>
      BY <2>2 DEF vars
    <3>2. PeerShape' /\ OwnIncoming' /\ NotBegun' /\ BootOfConn'
      BY <3>1, SameIncoming DEF TasksInv, PeerShape, NotBegun, BootOfConn
    <3>3. FailuresStayApart'
      BY <3>1 DEF FailuresStayApart
    <3> QED  BY <3>2, <3>3 DEF TasksInv
  <2> QED  BY <2>1, <2>2
<1>3. Inv => FailuresStayApart
  OBVIOUS
<1> HIDE DEF Inv
<1> QED  BY <1>1, <1>2, <1>3, PTL DEF Spec
=============================================================================
