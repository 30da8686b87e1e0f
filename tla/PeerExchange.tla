---------------------------- MODULE PeerExchange ----------------------------
(***************************************************************************)
(* The simulation of src/bin/sim.rs with workers that also ping each       *)
(* other.  The simulator as it is never makes a worker start a Ping; the   *)
(* injected ones belong to the environment, some owner of the handles that *)
(* calls controller().message().  This is the exchange by which two peers  *)
(* of src/worker.rs get to know each other.                                *)
(***************************************************************************)
EXTENDS WorkerSim

CONSTANT MaxPings   \* bound: number of pings injected

ASSUME ExchangeAssumption == MaxPings \in Nat

VARIABLE injected   \* the pairs <<v, w>> such that a Ping of v was given to w

exchangeVars == <<vars, injected>>

ExchangeInit == Init /\ injected = {}

InAddedPlace(w) == workers[AddrOf[w]] = w

\* The environment: a Ping of v arrives at w, both of them part of the network.
InjectPing(v, w) ==
  /\ v # w
  /\ InAddedPlace(v) /\ InAddedPlace(w)
  /\ <<v, w>> \notin injected
  /\ Cardinality(injected) < MaxPings
  /\ control' = [control EXCEPT ![w] = Enqueue(w, Incoming(AddrOf[v], Ping(IdOf[v])))]
  /\ injected' = injected \cup {<<v, w>>}
  /\ UNCHANGED <<outbox, to_send, peer_map, thread, handle, controllers, routerVars>>

ExchangeNext ==
  \/ Next /\ UNCHANGED injected
  \/ \E v, w \in Worker : InjectPing(v, w)

ExchangeSpec == ExchangeInit /\ [][ExchangeNext]_exchangeVars

ExchangeFairSpec == ExchangeSpec /\ Fairness
-----------------------------------------------------------------------------
(***************************************************************************)
(* One Ping is enough: with the Pong, the Ping back and the Pong to that,  *)
(* both workers end up in the table of the other, at the right address.    *)
(***************************************************************************)
HandshakeCompletes ==
  \A v \in Worker : \A w \in Worker \ {v} :
    <<v, w>> \in injected ~>
      /\ contains(peer_map[v], IdOf[v], IdOf[w]) = AddrOf[w]
      /\ contains(peer_map[w], IdOf[w], IdOf[v]) = AddrOf[v]
=============================================================================
