----------------------------- MODULE Peer2Proofs -----------------------------
(***************************************************************************)
(* peer2.rs for any number of connections and addresses: the worker        *)
(* outlives the tasks that forward to it, and a run() that returns Ok has  *)
(* lost nothing it read.                                                   *)
(***************************************************************************)
EXTENDS Peer2, TLAPS

(***************************************************************************)
(* The inductive invariant.  Both properties rest on the order of the      *)
(* channel: nothing but quit() sends a Quit, after which no task runs any  *)
(* more, so a Quit is the last item and the worker that takes it has taken *)
(* everything else.                                                        *)
(***************************************************************************)
ChannelType ==
  /\ run \in {"starting", "driving", "quitting", "ok", "failed", "panicked"}
  /\ worker \in {"running", "ended", "panicked"}
  /\ control \in Seq(Conn \cup {"Quit"})
  /\ request \in [Conn -> {"none", "reading", "waiting", "closing", "done", "failed", "unclosed"}]

\* The connections whose request went to the worker, as the tasks see it.
Forwarded == {c \in Conn : request[c] \in {"closing", "done", "unclosed"}}

Queued == {c \in Conn : \E n \in 1 .. Len(control) : control[n] = c}

QuitIsLast ==
  /\ run \in {"starting", "driving"} =>
       worker = "running" /\ \A n \in 1 .. Len(control) : control[n] # "Quit"
  /\ run = "quitting" => worker # "panicked"
  /\ run = "quitting" /\ worker = "running" =>
       /\ control # <<>>
       /\ \A n \in 1 .. Len(control) : control[n] = "Quit" <=> n = Len(control)

Accounted ==
  /\ run \in {"starting", "driving", "quitting"} => Forwarded \subseteq handled \cup Queued
  /\ run = "quitting" /\ worker = "ended" => Forwarded \subseteq handled
  /\ run = "ok" => Forwarded \subseteq handled

PanicHasCause ==
  run = "panicked" => \E c \in Conn : greeting[c] = "opening" /\ conn[c] = "lost"

PeerInv == ChannelType /\ QuitIsLast /\ Accounted /\ PanicHasCause
-----------------------------------------------------------------------------
\* A send puts its item behind the others.
LEMMA QueuedAfterAppend ==
  ASSUME ChannelType, NEW x \in Conn \cup {"Quit"}, control' = Append(control, x)
  PROVE  /\ control' \in Seq(Conn \cup {"Quit"})
         /\ Len(control') = Len(control) + 1 /\ Len(control) \in Nat
         /\ control'[Len(control')] = x
         /\ \A n \in 1 .. Len(control) : control'[n] = control[n]
         /\ Queued' = Queued \cup {c \in Conn : c = x}
<1>1. /\ control' \in Seq(Conn \cup {"Quit"})
      /\ Len(control') = Len(control) + 1 /\ Len(control) \in Nat
      /\ control'[Len(control')] = x
      /\ \A n \in 1 .. Len(control) : control'[n] = control[n]
  BY DEF ChannelType
<1>2. ASSUME NEW c \in Conn
      PROVE  (\E n \in 1 .. Len(control') : control'[n] = c)
               <=> (\E n \in 1 .. Len(control) : control[n] = c) \/ c = x
  BY <1>1
<1> QED  BY <1>1, <1>2 DEF Queued

\* A receive takes the first item.
LEMMA QueuedAfterTail ==
  ASSUME ChannelType, control # <<>>, control' = Tail(control)
  PROVE  /\ control' \in Seq(Conn \cup {"Quit"})
         /\ Len(control') = Len(control) - 1 /\ Len(control) \in Nat /\ Len(control) >= 1
         /\ Head(control) = control[1] /\ Head(control) \in Conn \cup {"Quit"}
         /\ \A n \in 1 .. Len(control') : control'[n] = control[n + 1]
         /\ Queued \subseteq Queued' \cup {Head(control)}
<1>1. /\ control' \in Seq(Conn \cup {"Quit"})
      /\ Len(control') = Len(control) - 1 /\ Len(control) \in Nat /\ Len(control) >= 1
      /\ Head(control) = control[1] /\ Head(control) \in Conn \cup {"Quit"}
      /\ \A n \in 1 .. Len(control') : control'[n] = control[n + 1]
  BY DEF ChannelType
<1>2. ASSUME NEW c \in Conn, NEW n \in 1 .. Len(control), control[n] = c, c # control[1]
      PROVE  \E m \in 1 .. Len(control') : control'[m] = c
  <2>1. n - 1 \in 1 .. Len(control') /\ (n - 1) + 1 = n
    BY <1>1, <1>2
  <2> QED  BY <1>1, <1>2, <2>1
<1>3. Queued \subseteq Queued' \cup {Head(control)}
  BY <1>1, <1>2 DEF Queued
<1> QED  BY <1>1, <1>3

(***************************************************************************)
(* The steps of the tasks and of the network that neither send nor end     *)
(* anything.                                                               *)
(***************************************************************************)
LEMMA QuietStep ==
  ASSUME PeerInv, run = "driving", UNCHANGED <<run, control, handled, worker>>,
         request' \in [Conn -> {"none", "reading", "waiting", "closing", "done", "failed", "unclosed"}],
         Forwarded' \subseteq Forwarded
  PROVE  PeerInv'
<1>1. Queued' = Queued
  BY DEF Queued
<1> QED  BY <1>1 DEF PeerInv, ChannelType, QuitIsLast, Accounted, PanicHasCause

\* A step of the tasks of a connection keeps the invariant.
LEMMA TaskStep ==
  ASSUME PeerInv, NEW c \in Conn,
         handle_connection(c) \/ read_message(c) \/ Handshake(c) \/ Lose(c)
  PROVE  PeerInv'
<1>1. CASE \/ HandleConnection(c) \/ StreamsEnd(c) \/ Greet(c) \/ GreetingFails(c)
           \/ Handshake(c) \/ Lose(c)
  <2>1. run = "driving" /\ UNCHANGED <<run, control, handled, worker, request>>
    BY <1>1 DEF HandleConnection, StreamsEnd, Greet, GreetingFails, Handshake, Lose
  <2>2. Forwarded' = Forwarded
    BY <2>1 DEF Forwarded
  <2> QED  BY <2>1, <2>2, QuietStep DEF PeerInv, ChannelType
<1>2. CASE NewStream(c) \/ CloseRequest(c) \/ RequestFails(c)
  <2>1. run = "driving" /\ UNCHANGED <<run, control, handled, worker>>
    BY <1>2 DEF NewStream, CloseRequest, RequestFails
  <2>2. request' \in [Conn -> {"none", "reading", "waiting", "closing", "done", "failed", "unclosed"}]
    BY <1>2 DEF NewStream, CloseRequest, RequestFails, PeerInv, ChannelType
  <2>3. Forwarded' \subseteq Forwarded
    BY <1>2 DEF NewStream, CloseRequest, RequestFails, PeerInv, ChannelType, Forwarded
  <2> QED  BY <2>1, <2>2, <2>3, QuietStep
<1>3. CASE ReadMessage(c)
  <2>1. run = "driving" /\ worker = "running"
    BY <1>3 DEF ReadMessage, PeerInv, QuitIsLast
  <2>2. /\ control' = Append(control, c)
        /\ request' = [request EXCEPT ![c] = "closing"]
        /\ UNCHANGED <<run, handled, worker>>
    BY <1>3, <2>1 DEF ReadMessage
  <2>3. /\ control' \in Seq(Conn \cup {"Quit"})
        /\ Len(control') = Len(control) + 1 /\ Len(control) \in Nat
        /\ control'[Len(control')] = c
        /\ \A n \in 1 .. Len(control) : control'[n] = control[n]
        /\ Queued' = Queued \cup {c}
    BY <2>2, QueuedAfterAppend DEF PeerInv
  <2>4. Forwarded' = Forwarded \cup {c}
    BY <2>2 DEF Forwarded, PeerInv, ChannelType
  <2>5. ChannelType'
    BY <2>2, <2>3 DEF PeerInv, ChannelType
  <2>6. QuitIsLast'
    BY <2>1, <2>2, <2>3, Peer2Assumption DEF PeerInv, QuitIsLast
  <2>7. Accounted' /\ PanicHasCause'
    BY <2>1, <2>2, <2>3, <2>4 DEF PeerInv, Accounted, PanicHasCause
  <2> QED  BY <2>5, <2>6, <2>7 DEF PeerInv
<1>4. CASE OpenStreamPanics(c)
  BY <1>4 DEF OpenStreamPanics, taskVars, PeerInv, ChannelType, QuitIsLast, Accounted, PanicHasCause
<1> QED  BY <1>1, <1>2, <1>3, <1>4 DEF handle_connection, read_message

\* So does a step of the worker thread: a worker that takes the Quit has taken
\* everything in front of it.
LEMMA WorkerStep ==
  ASSUME PeerInv, worker_step
  PROVE  PeerInv'
<1>0. UNCHANGED <<run, taskVars>> /\ worker = "running"
  BY DEF worker_step, WorkerTakes, WorkerEnds, WorkerPanics
<1>1. Forwarded' = Forwarded /\ PanicHasCause'
  BY <1>0 DEF Forwarded, taskVars, PeerInv, PanicHasCause
<1>2. CASE WorkerTakes
  <2>1. /\ control # <<>> /\ Head(control) # "Quit" /\ control' = Tail(control)
        /\ handled' = handled \cup {Head(control)} /\ worker' = worker
    BY <1>2 DEF WorkerTakes
  <2>2. /\ control' \in Seq(Conn \cup {"Quit"})
        /\ Len(control') = Len(control) - 1 /\ Len(control) \in Nat /\ Len(control) >= 1
        /\ Head(control) = control[1]
        /\ \A n \in 1 .. Len(control') : control'[n] = control[n + 1]
        /\ Queued \subseteq Queued' \cup {Head(control)}
    BY <2>1, QueuedAfterTail DEF PeerInv
  <2>3. ChannelType'
    BY <1>0, <2>1, <2>2 DEF PeerInv, ChannelType, taskVars
  <2>4. QuitIsLast'
    <3>1. CASE run \in {"starting", "driving"}
      <4>1. \A n \in 1 .. Len(control) : control[n] # "Quit"
        BY <3>1 DEF PeerInv, QuitIsLast
      <4>2. \A n \in 1 .. Len(control') : n + 1 \in 1 .. Len(control)
        BY <2>2
      <4>3. \A n \in 1 .. Len(control') : control'[n] # "Quit"
        BY <2>2, <4>1, <4>2
      <4> QED  BY <1>0, <2>1, <3>1, <4>3 DEF QuitIsLast
    <3>2. CASE run = "quitting"
      <4>1. \A n \in 1 .. Len(control) : control[n] = "Quit" <=> n = Len(control)
        BY <1>0, <3>2 DEF PeerInv, QuitIsLast
      <4>2. Len(control) # 1
        <5>1. 1 \in 1 .. Len(control) /\ control[1] # "Quit"
          BY <2>1, <2>2
        <5> QED  BY <4>1, <5>1
      <4>3. \A n \in 1 .. Len(control') : control'[n] = "Quit" <=> n = Len(control')
        BY <2>2, <4>1
      <4>4. control' # <<>>
        BY <2>2, <4>2
      <4> QED  BY <1>0, <2>1, <3>2, <4>3, <4>4 DEF QuitIsLast
    <3>3. CASE run \notin {"starting", "driving", "quitting"}
      BY <1>0, <3>3 DEF QuitIsLast
    <3> QED  BY <3>1, <3>2, <3>3
  <2>5. Accounted'
    BY <1>0, <1>1, <2>1, <2>2 DEF PeerInv, Accounted
  <2> QED  BY <1>1, <2>3, <2>4, <2>5 DEF PeerInv
<1>3. CASE WorkerEnds
  <2>1. /\ worker' = "ended" /\ control' = <<>> /\ handled' = handled
        /\ (control # <<>> /\ Head(control) = "Quit")
             \/ run \in {"ok", "failed", "panicked"}
    BY <1>3 DEF WorkerEnds, HandleDropped
  <2>2. run \notin {"starting", "driving"}
    <3>1. CASE control # <<>> /\ Head(control) = "Quit"
      <4>1. Len(control) \in Nat /\ Len(control) >= 1 /\ Head(control) = control[1]
        BY <3>1 DEF PeerInv, ChannelType
      <4> QED  BY <3>1, <4>1 DEF PeerInv, QuitIsLast
    <3> QED  BY <2>1, <3>1
  <2>3. run = "quitting" => Forwarded \subseteq handled
    <3> SUFFICES ASSUME run = "quitting" PROVE Forwarded \subseteq handled
      OBVIOUS
    <3>1. control # <<>> /\ Head(control) = "Quit"
      BY <2>1
    <3>2. Len(control) \in Nat /\ Len(control) >= 1 /\ Head(control) = control[1]
      BY <3>1 DEF PeerInv, ChannelType
    <3>3. Len(control) = 1
      <4>1. 1 \in 1 .. Len(control) /\ control[1] = "Quit"
        BY <3>1, <3>2
      <4>2. \A n \in 1 .. Len(control) : control[n] = "Quit" <=> n = Len(control)
        BY <1>0 DEF PeerInv, QuitIsLast
      <4> QED  BY <4>1, <4>2
    <3>4. Queued = {}
      BY <3>1, <3>2, <3>3, Peer2Assumption DEF Queued
    <3> QED  BY <3>4 DEF PeerInv, Accounted
  <2>4. ChannelType'
    BY <1>0, <2>1 DEF PeerInv, ChannelType, taskVars
  <2>5. QuitIsLast' /\ Accounted'
    BY <1>0, <1>1, <2>1, <2>2, <2>3 DEF PeerInv, QuitIsLast, Accounted
  <2> QED  BY <1>1, <2>4, <2>5 DEF PeerInv
<1>4. CASE WorkerPanics
  <2>1. /\ worker' = "panicked" /\ control' = <<>> /\ handled' = handled
        /\ run \in {"ok", "failed", "panicked"}
    BY <1>4 DEF WorkerPanics, HandleDropped
  <2>2. ChannelType'
    BY <1>0, <2>1 DEF PeerInv, ChannelType, taskVars
  <2>3. QuitIsLast' /\ Accounted'
    BY <1>0, <1>1, <2>1 DEF PeerInv, QuitIsLast, Accounted
  <2> QED  BY <1>1, <2>2, <2>3 DEF PeerInv
<1> QED  BY <1>2, <1>3, <1>4 DEF worker_step

\* And so does a step of run() itself.
LEMMA RunStep ==
  ASSUME PeerInv, Start \/ RunFails \/ DriverEnds \/ QuitJoin
  PROVE  PeerInv'
<1>0. UNCHANGED <<request, handled, worker>> /\ Forwarded' = Forwarded
  BY DEF Start, RunFails, DriverEnds, QuitJoin, taskVars, Forwarded
<1>1. CASE Start
  <2>1. run = "starting" /\ run' = "driving" /\ control' = control /\ Queued' = Queued
    BY <1>1 DEF Start, Queued
  <2> QED  BY <1>0, <2>1 DEF PeerInv, ChannelType, QuitIsLast, Accounted, PanicHasCause
<1>2. CASE RunFails
  BY <1>0, <1>2 DEF RunFails, PeerInv, ChannelType, QuitIsLast, Accounted, PanicHasCause
<1>3. CASE DriverEnds
  <2>1. run = "driving" /\ worker = "running"
    BY <1>3 DEF DriverEnds, PeerInv, QuitIsLast
  <2>2. run' = "quitting" /\ control' = Append(control, "Quit")
    BY <1>3, <2>1 DEF DriverEnds
  <2>3. /\ control' \in Seq(Conn \cup {"Quit"})
        /\ Len(control') = Len(control) + 1 /\ Len(control) \in Nat
        /\ control'[Len(control')] = "Quit"
        /\ \A n \in 1 .. Len(control) : control'[n] = control[n]
        /\ Queued \subseteq Queued'
    BY <2>2, QueuedAfterAppend DEF PeerInv
  <2>4. control' # <<>>
    BY <2>3
  <2>5. QuitIsLast'
    BY <1>0, <2>1, <2>2, <2>3, <2>4 DEF PeerInv, QuitIsLast
  <2>6. ChannelType'
    BY <1>0, <2>2, <2>3 DEF PeerInv, ChannelType
  <2>7. Accounted' /\ PanicHasCause'
    BY <1>0, <2>1, <2>2, <2>3 DEF PeerInv, Accounted, PanicHasCause
  <2> QED  BY <2>5, <2>6, <2>7 DEF PeerInv
<1>4. CASE QuitJoin
  <2>1. run = "quitting" /\ worker = "ended" /\ run' = "ok" /\ control' = control
    BY <1>4 DEF QuitJoin, PeerInv, QuitIsLast, ChannelType
  <2> QED  BY <1>0, <2>1 DEF PeerInv, ChannelType, QuitIsLast, Accounted, PanicHasCause
<1> QED  BY <1>1, <1>2, <1>3, <1>4

(***************************************************************************)
(* The inductive invariant of run(), its tasks and the worker.             *)
(***************************************************************************)
THEOREM Peer2Invariant == Spec => []PeerInv
<1>1. Init => PeerInv
  <2> SUFFICES ASSUME Init PROVE PeerInv
    OBVIOUS
  <2>1. Forwarded = {}
    BY DEF Init, Forwarded
  <2> QED  BY <2>1 DEF Init, PeerInv, ChannelType, QuitIsLast, Accounted, PanicHasCause
<1>2. PeerInv /\ [Next]_vars => PeerInv'
  <2> SUFFICES ASSUME PeerInv, [Next]_vars PROVE PeerInv'
    OBVIOUS
  <2>1. CASE Next
    BY <2>1, TaskStep, WorkerStep, RunStep DEF Next
  <2>2. CASE UNCHANGED vars
    BY <2>2 DEF vars, taskVars, PeerInv, ChannelType, QuitIsLast, Accounted, PanicHasCause,
                Forwarded, Queued
  <2> QED  BY <2>1, <2>2
<1> QED  BY <1>1, <1>2, PTL DEF Spec

(***************************************************************************)
(* The expect() in read_message cannot fail, quit() finds its worker, and  *)
(* the only panic is the one at a connection that was lost before its      *)
(* stream was opened.                                                      *)
(***************************************************************************)
THEOREM Peer2WorkerOutlivesTasks == Spec => []WorkerOutlivesTasks
<1>1. PeerInv => WorkerOutlivesTasks
  BY DEF PeerInv, QuitIsLast, PanicHasCause, WorkerOutlivesTasks
<1> QED  BY <1>1, Peer2Invariant, PTL

(***************************************************************************)
(* Every request that was read is in the channel or handled, and handled   *)
(* once run() has returned Ok, for any number of connections.              *)
(***************************************************************************)
THEOREM Peer2NothingReadIsLost == Spec => []NothingReadIsLost
<1>1. PeerInv => NothingReadIsLost
  <2> SUFFICES ASSUME PeerInv, run \in {"driving", "quitting", "ok"}, NEW c \in Conn,
                      request[c] \in {"closing", "done", "unclosed"}
               PROVE  c \in handled \/ (run # "ok" /\ c \in ToSet(control))
    BY DEF NothingReadIsLost
  <2>1. c \in Forwarded
    BY DEF Forwarded
  <2>2. CASE run = "ok"
    BY <2>1, <2>2 DEF PeerInv, Accounted
  <2>3. CASE run # "ok"
    <3>1. c \in handled \/ c \in Queued
      BY <2>1, <2>3 DEF PeerInv, Accounted
    <3>2. DOMAIN control = 1 .. Len(control)
      BY DEF PeerInv, ChannelType
    <3>3. c \in Queued => c \in ToSet(control)
      BY <3>2 DEF Queued, ToSet
    <3> QED  BY <2>3, <3>1, <3>3
  <2> QED  BY <2>2, <2>3
<1> QED  BY <1>1, Peer2Invariant, PTL
=============================================================================
