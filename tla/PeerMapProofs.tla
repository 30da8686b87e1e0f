--------------------------- MODULE PeerMapProofs ---------------------------
(***************************************************************************)
(* Lemmas on the operators of module PeerMap, for every table whose peers  *)
(* are in the bucket of their distance rank: what insert changes, what     *)
(* count adds up, and what the search of find_closest_peers returns for    *)
(* every order in which the buckets are iterated.                          *)
(***************************************************************************)
EXTENDS PeerMap, HashProofs

\* A peer is stored in the bucket of its rank and nowhere else.
Placed(b, self) ==
  \A k \in Rank, p \in PeerId : p \in known_peers(b, k) => k = distance_rank(self, p)

\* The rank of a peer is the index of a bucket, the last one for the own id alone.
LEMMA PeerRank ==
  ASSUME NEW self \in PeerId, NEW p \in PeerId
  PROVE  /\ distance_rank(self, p) \in Rank
         /\ distance_rank(self, p) = max_power - 1 <=> self = p
BY PeerMapAssumption, DistanceRank DEF Rank

LEMMA EmptyTable ==
  ASSUME NEW self
  PROVE  EmptyPeerMap \in PeerMaps /\ Placed(EmptyPeerMap, self)
BY DEF EmptyPeerMap, PeerMaps, Bucket, Placed, known_peers

(***************************************************************************)
(* insert never indexes outside the vector of buckets, changes one entry   *)
(* of one bucket, and keeps every peer in its place.                       *)
(***************************************************************************)
LEMMA InsertFacts ==
  ASSUME NEW b \in PeerMaps, NEW self \in PeerId, NEW address \in SocketAddr,
         NEW peer_id \in PeerId
  PROVE  LET c == insert(b, self, address, peer_id)
             r == distance_rank(self, peer_id)
         IN  /\ c \in PeerMaps
             /\ \A k \in Rank, p \in PeerId :
                  c[k][p] = IF k = r /\ p = peer_id THEN address ELSE b[k][p]
             /\ Placed(b, self) => Placed(c, self)
<1> DEFINE r == distance_rank(self, peer_id)
           c == insert(b, self, address, peer_id)
<1>1. r \in Rank
  BY PeerRank
<1>2. c = [b EXCEPT ![r][peer_id] = address]
  BY DEF insert
<1> HIDE DEF r, c
<1>3. c \in PeerMaps
  BY <1>1, <1>2 DEF PeerMaps, Bucket
<1>4. \A k \in Rank, p \in PeerId :
        c[k][p] = IF k = r /\ p = peer_id THEN address ELSE b[k][p]
  BY <1>1, <1>2 DEF PeerMaps, Bucket
<1>5. Placed(b, self) => Placed(c, self)
  BY <1>4 DEF Placed, known_peers, r
<1> QED  BY <1>3, <1>4, <1>5 DEF r, c

-----------------------------------------------------------------------------
\* There are only finitely many ids: a hash is determined by its bits that are set.
LEMMA FinitelyManyPeers == IsFiniteSet(PeerId)
<1> DEFINE Bits == ByteIndex \X BitIndex
           ones(h) == {ij \in Bits : h[ij[1]][ij[2]] = 1}
           f == [h \in Blake2Hash |-> ones(h)]
<1>1. IsFiniteSet(SUBSET Bits)
  <2>1. IsFiniteSet(ByteIndex) /\ IsFiniteSet(BitIndex)
    BY HashAssumption, FS_Interval DEF ByteIndex, BitIndex
  <2>2. IsFiniteSet(Bits)
    BY <2>1, FS_Product
  <2> HIDE DEF Bits
  <2> QED  BY <2>2, FS_SUBSET
<1>2. ASSUME NEW g \in Blake2Hash, NEW h \in Blake2Hash, ones(g) = ones(h)
      PROVE  g = h
  <2>1. ASSUME NEW i \in ByteIndex, NEW j \in BitIndex PROVE g[i][j] = h[i][j]
    <3>1. <<i, j>> \in Bits
      OBVIOUS
    <3>2. g[i][j] = 1 <=> h[i][j] = 1
      <4>1. <<i, j>> \in ones(g) <=> g[i][j] = 1
        BY <3>1
      <4>2. <<i, j>> \in ones(h) <=> h[i][j] = 1
        BY <3>1
      <4> HIDE DEF ones
      <4> QED  BY <1>2, <4>1, <4>2
    <3>3. g[i][j] \in {0, 1} /\ h[i][j] \in {0, 1}
      BY DEF Blake2Hash, Byte
    <3> QED  BY <3>2, <3>3
  <2>2. ASSUME NEW i \in ByteIndex PROVE g[i] = h[i]
    <3>1. g[i] \in Byte /\ h[i] \in Byte
      BY DEF Blake2Hash
    <3> QED  BY <2>1, <3>1 DEF Byte
  <2> QED  BY <2>2 DEF Blake2Hash
<1>3. f \in Injection(Blake2Hash, SUBSET Bits)
  <2>1. f \in [Blake2Hash -> SUBSET Bits]
    OBVIOUS
  <2>2. \A g, h \in Blake2Hash : f[g] = f[h] => g = h
    <3>1. \A h \in Blake2Hash : f[h] = ones(h)
      OBVIOUS
    <3> HIDE DEF f, ones
    <3> QED  BY <1>2, <3>1
  <2> HIDE DEF f, Bits
  <2> QED  BY <2>1, <2>2 DEF Injection, IsInjective
<1>4. IsFiniteSet(Blake2Hash)
  <2> HIDE DEF f, Bits
  <2> QED  BY <1>1, <1>3, FS_Injection
<1> QED  BY <1>4, PeerMapAssumption, FS_Subset

-----------------------------------------------------------------------------
\* The entries of a bucket, and the items of a sequence.
Entry           == PeerId \X SocketAddr
EntriesOf(b, k) == {<<p, b[k][p]>> : p \in known_peers(b, k)}
Items(s)        == {s[n] : n \in 1 .. Len(s)}

\* Every order of iteration goes through every known peer.
LEMMA OrdersCover ==
  ASSUME NEW b \in PeerMaps, NEW order \in IterationOrders(b)
  PROVE  order \in Seq(PeerId) /\ \A k \in Rank : known_peers(b, k) \subseteq Items(order)
<1> DEFINE S == UNION {known_peers(b, k) : k \in Rank}
           D == 1 .. Cardinality(S)
<1>1. S \subseteq PeerId /\ \A k \in Rank : known_peers(b, k) \subseteq S
  BY DEF known_peers
<1>2. order \in [D -> S] /\ \A i, j \in D : i # j => order[i] # order[j]
  BY DEF IterationOrders, SetToSeqs
<1> HIDE DEF S
<1>3. IsFiniteSet(S) /\ Cardinality(S) \in Nat
  BY <1>1, FinitelyManyPeers, FS_Subset, FS_CardinalityType
<1>4. IsFiniteSet(D) /\ Cardinality(D) = Cardinality(S)
  <2>1. Cardinality(S) \in Int /\ 1 \in Int
    BY <1>3
  <2>2. IsFiniteSet(D) /\ Cardinality(D) = IF 1 > Cardinality(S) THEN 0 ELSE Cardinality(S) - 1 + 1
    BY <2>1, FS_Interval
  <2> QED  BY <1>3, <2>2
<1> HIDE DEF D
<1>5. order \in Injection(D, S)
  BY <1>2 DEF Injection, IsInjective
<1>6. order \in Surjection(D, S)
  BY <1>3, <1>4, <1>5, FS_Injection
<1> USE DEF D
<1>7. order \in Seq(PeerId) /\ Len(order) = Cardinality(S)
  BY <1>1, <1>2, <1>3
<1>8. S \subseteq Items(order)
  BY <1>6, <1>7 DEF Surjection, Items
<1> QED  BY <1>1, <1>7, <1>8

\* And there is one: a search has an answer in every table.
LEMMA OrdersExist ==
  ASSUME NEW b \in PeerMaps
  PROVE  IterationOrders(b) # {}
<1> DEFINE S == UNION {known_peers(b, k) : k \in Rank}
<1>1. S \subseteq PeerId
  BY DEF known_peers
<1>2. IterationOrders(b) = SetToSeqs(S)
  BY DEF IterationOrders
<1> HIDE DEF S
<1>3. IsFiniteSet(S)
  BY <1>1, FinitelyManyPeers, FS_Subset
<1>4. PICK n \in Nat : ExistsBijection(1 .. n, S)
  BY <1>3, FS_NatBijection
<1>5. n = Cardinality(S)
  BY <1>4, FS_CountingElements
<1>6. PICK f \in Bijection(1 .. Cardinality(S), S) : TRUE
  BY <1>4, <1>5 DEF ExistsBijection
<1>7. f \in SetToSeqs(S)
  BY <1>6 DEF SetToSeqs, Bijection, Injection, IsInjective
<1> QED  BY <1>2, <1>7

\* Iterating a bucket gives its entries.
LEMMA IterFacts ==
  ASSUME NEW b \in PeerMaps, NEW k \in Rank, NEW order \in IterationOrders(b)
  PROVE  iter(b, k, order) \in Seq(Entry) /\ Items(iter(b, k, order)) = EntriesOf(b, k)
<1> DEFINE K == known_peers(b, k)
           ids == filter(order, K)
           it == iter(b, k, order)
<1>1. order \in Seq(PeerId) /\ K \subseteq Items(order) /\ K \subseteq PeerId
  BY OrdersCover DEF known_peers
<1>2. Filtered(PeerId, order, K, ids)
  <2> HIDE DEF K
  <2> QED  BY <1>1, FilterFacts
<1>3. /\ ids \in Seq(K)
      /\ \A i \in 1 .. Len(order) : order[i] \in K => \E n \in 1 .. Len(ids) : ids[n] = order[i]
  <2>1. PeerId \cap K = K
    BY <1>1
  <2> HIDE DEF K
  <2> QED  BY <1>2, <2>1 DEF Filtered
<1>4. it = [n \in 1 .. Len(ids) |-> <<ids[n], b[k][ids[n]]>>]
  BY DEF iter
<1>5. \A p \in K : p \in PeerId /\ b[k][p] \in SocketAddr
  BY DEF known_peers, PeerMaps, Bucket
<1> HIDE DEF ids, it, K
<1>6. Len(ids) \in Nat /\ \A n \in 1 .. Len(ids) : ids[n] \in K
  BY <1>3
<1>7. it \in Seq(Entry) /\ Len(it) = Len(ids) /\ \A n \in 1 .. Len(ids) : it[n] = <<ids[n], b[k][ids[n]]>>
  BY <1>4, <1>5, <1>6 DEF Entry
<1>8. ASSUME NEW e \in Items(it) PROVE e \in EntriesOf(b, k)
  BY <1>6, <1>7 DEF Items, EntriesOf, K
<1>9. ASSUME NEW e \in EntriesOf(b, k) PROVE e \in Items(it)
  <2>1. PICK p \in K : e = <<p, b[k][p]>>
    BY DEF EntriesOf, K
  <2>2. PICK i \in 1 .. Len(order) : order[i] = p
    BY <1>1, <2>1 DEF Items
  <2>3. PICK n \in 1 .. Len(ids) : ids[n] = p
    BY <1>3, <2>1, <2>2
  <2> QED  BY <1>7, <2>1, <2>3 DEF Items
<1> QED  BY <1>7, <1>8, <1>9 DEF it

\* A concatenation has the items of both.
LEMMA ConcatItems ==
  ASSUME NEW S, NEW s \in Seq(S), NEW t \in Seq(S)
  PROVE  /\ s \o t \in Seq(S) /\ Len(s \o t) = Len(s) + Len(t)
         /\ \A n \in 1 .. Len(s) : (s \o t)[n] = s[n]
         /\ Items(s \o t) = Items(s) \cup Items(t)
<1>1. /\ s \o t \in Seq(S) /\ Len(s) \in Nat /\ Len(t) \in Nat
      /\ Len(s \o t) = Len(s) + Len(t)
      /\ \A n \in 1 .. Len(s) : (s \o t)[n] = s[n]
      /\ \A n \in 1 .. Len(t) : (s \o t)[Len(s) + n] = t[n]
  OBVIOUS
<1> DEFINE u == s \o t
<1> HIDE DEF u
<1>2. \A n \in 1 .. Len(s) : n \in 1 .. Len(u) /\ u[n] = s[n]
  BY <1>1 DEF u
<1>3. \A n \in 1 .. Len(t) : Len(s) + n \in 1 .. Len(u) /\ u[Len(s) + n] = t[n]
  BY <1>1 DEF u
<1>4. ASSUME NEW n \in 1 .. Len(u)
      PROVE  u[n] \in Items(s) \cup Items(t)
  <2>1. CASE n <= Len(s)
    BY <1>1, <1>2, <2>1 DEF Items, u
  <2>2. CASE n > Len(s)
    <3>1. n - Len(s) \in 1 .. Len(t) /\ Len(s) + (n - Len(s)) = n
      BY <1>1, <2>2 DEF u
    <3> QED  BY <1>3, <3>1 DEF Items
  <2> QED  BY <1>1, <2>1, <2>2 DEF u
<1>5. Items(u) = Items(s) \cup Items(t)
  <2>1. Items(s) \subseteq Items(u)
    BY <1>2 DEF Items
  <2>2. Items(t) \subseteq Items(u)
    BY <1>3 DEF Items
  <2>3. Items(u) \subseteq Items(s) \cup Items(t)
    <3>1. \A e \in Items(u) : \E n \in 1 .. Len(u) : e = u[n]
      BY DEF Items
    <3> QED  BY <1>4, <3>1
  <2> QED  BY <2>1, <2>2, <2>3
<1> QED  BY <1>1, <1>5 DEF u

(***************************************************************************)
(* The buckets whose guards have let the search in by the end of iteration *)
(* w: those from the target on and, once w has passed the target, the      *)
(* first.                                                                  *)
(***************************************************************************)
Reached(t, w, k) == k \in t .. t + w \/ (k = 0 /\ w > t)

\* What the search has found by then.
Searched(b, t, first, w, s) ==
  /\ s \in Seq(Entry)
  /\ Len(first) <= Len(s) /\ \A n \in 1 .. Len(first) : s[n] = first[n]
  /\ \A e \in Items(s) : \E k \in Rank : e \in EntriesOf(b, k)
  /\ Len(s) < bucket_size =>
       \A k \in Rank : Reached(t, w, k) => EntriesOf(b, k) \subseteq Items(s)

\* One iteration of the loop.
iteration(b, t, order, w, s) ==
  LET bucket(visit, k) == IF visit THEN iter(b, k, order) ELSE <<>>
  IN  IF Len(s) >= bucket_size THEN s
      ELSE s \o bucket(visits_behind(t, w), target_behind(t, w))
             \o bucket(visits_ahead(t, w), target_ahead(t, w))

\* The buckets that an iteration visits are buckets of the table.
LEMMA VisitsFacts ==
  ASSUME NEW t \in Rank, NEW w \in 1 .. max_power - 1
  PROVE  /\ visits_behind(t, w) => target_behind(t, w) = 0 /\ 0 \in Rank
         /\ visits_ahead(t, w) => target_ahead(t, w) \in Rank
         /\ target_ahead(t, w) = t + w
         /\ \A k \in Rank : Reached(t, w, k) =>
              \/ Reached(t, w - 1, k)
              \/ k = 0 /\ visits_behind(t, w)
              \/ k = t + w /\ visits_ahead(t, w)
BY MaxPower DEF Rank, visits_behind, visits_ahead, target_behind, target_ahead,
                saturating_sub, Reached

\* The loop only adds entries of the table, and what it has let in stays.
LEMMA IterationFacts ==
  ASSUME NEW b \in PeerMaps, NEW order \in IterationOrders(b), NEW t \in Rank,
         NEW first \in Seq(Entry), NEW w \in 1 .. max_power - 1, NEW s,
         Searched(b, t, first, w - 1, s)
  PROVE  Searched(b, t, first, w, iteration(b, t, order, w, s))
<1> DEFINE B == IF visits_behind(t, w) THEN iter(b, target_behind(t, w), order) ELSE <<>>
           A == IF visits_ahead(t, w) THEN iter(b, target_ahead(t, w), order) ELSE <<>>
           u == iteration(b, t, order, w, s)
<1>1. s \in Seq(Entry) /\ Len(s) \in Nat /\ bucket_size \in Nat
  BY PeerMapAssumption DEF Searched
<1>2. CASE Len(s) >= bucket_size
  <2>1. u = s /\ ~(Len(s) < bucket_size)
    BY <1>1, <1>2 DEF iteration
  <2> HIDE DEF u
  <2> QED  BY <2>1 DEF Searched, u
<1>3. CASE ~(Len(s) >= bucket_size)
  <2>1. u = s \o B \o A /\ Len(s) < bucket_size
    <3>1. u = IF Len(s) >= bucket_size THEN s ELSE s \o B \o A
      BY DEF iteration
    <3> HIDE DEF u, A, B
    <3> QED  BY <1>1, <1>3, <3>1
  <2>2. /\ B \in Seq(Entry)
        /\ Items(B) = IF visits_behind(t, w) THEN EntriesOf(b, 0) ELSE {}
        /\ visits_behind(t, w) => 0 \in Rank
    <3>1. CASE visits_behind(t, w)
      <4>1. target_behind(t, w) = 0 /\ 0 \in Rank
        BY <3>1, VisitsFacts
      <4> QED  BY <3>1, <4>1, IterFacts
    <3>2. CASE ~visits_behind(t, w)
      BY <3>2 DEF Items
    <3> QED  BY <3>1, <3>2
  <2>3. /\ A \in Seq(Entry)
        /\ Items(A) = IF visits_ahead(t, w) THEN EntriesOf(b, t + w) ELSE {}
        /\ visits_ahead(t, w) => t + w \in Rank
    <3>1. CASE visits_ahead(t, w)
      <4>1. target_ahead(t, w) = t + w /\ t + w \in Rank
        BY <3>1, VisitsFacts
      <4> QED  BY <3>1, <4>1, IterFacts
    <3>2. CASE ~visits_ahead(t, w)
      BY <3>2 DEF Items
    <3> QED  BY <3>1, <3>2
  <2> HIDE DEF A, B, u
  <2> DEFINE v == s \o B
  <2>4. /\ v \in Seq(Entry) /\ Len(v) = Len(s) + Len(B)
        /\ \A n \in 1 .. Len(s) : v[n] = s[n]
        /\ Items(v) = Items(s) \cup Items(B)
    BY <1>1, <2>2, ConcatItems
  <2>5. u = v \o A
    BY <2>1
  <2> HIDE DEF v
  <2>6. /\ u \in Seq(Entry) /\ Len(u) = Len(v) + Len(A)
        /\ \A n \in 1 .. Len(v) : u[n] = v[n]
        /\ Items(u) = Items(v) \cup Items(A)
    <3>1. v \in Seq(Entry) /\ A \in Seq(Entry)
      BY <2>3, <2>4
    <3>2. /\ v \o A \in Seq(Entry) /\ Len(v \o A) = Len(v) + Len(A)
          /\ \A n \in 1 .. Len(v) : (v \o A)[n] = v[n]
          /\ Items(v \o A) = Items(v) \cup Items(A)
      BY <3>1, ConcatItems
    <3> QED  BY <2>5, <3>2, Zenon
  <2>7. Len(A) \in Nat /\ Len(B) \in Nat /\ Len(first) \in Nat
    BY <2>2, <2>3
  <2>8. Len(first) <= Len(u) /\ \A n \in 1 .. Len(first) : u[n] = first[n]
    <3>1. Len(first) <= Len(s) /\ \A n \in 1 .. Len(first) : s[n] = first[n]
      BY DEF Searched
    <3> QED  BY <1>1, <2>4, <2>6, <2>7, <3>1
  <2>9. ASSUME NEW e \in Items(u) PROVE \E k \in Rank : e \in EntriesOf(b, k)
    <3>1. e \in Items(s) \/ e \in Items(B) \/ e \in Items(A)
      BY <2>4, <2>6
    <3> QED  BY <2>2, <2>3, <3>1 DEF Searched
  <2>10. ASSUME NEW k \in Rank, Reached(t, w, k) PROVE EntriesOf(b, k) \subseteq Items(u)
    <3>1. \/ Reached(t, w - 1, k)
          \/ k = 0 /\ visits_behind(t, w)
          \/ k = t + w /\ visits_ahead(t, w)
      BY <2>10, VisitsFacts
    <3>2. ASSUME Reached(t, w - 1, k) PROVE EntriesOf(b, k) \subseteq Items(s)
      BY <2>1, <3>2 DEF Searched
    <3> QED  BY <2>2, <2>3, <2>4, <2>6, <3>1, <3>2
  <2> QED  BY <2>6, <2>8, <2>9, <2>10 DEF Searched, u
<1> QED  BY <1>2, <1>3

\* An iteration makes a list of entries from any list of entries.
LEMMA IterationType ==
  ASSUME NEW b \in PeerMaps, NEW order \in IterationOrders(b), NEW t \in Rank,
         NEW w \in 1 .. max_power - 1, NEW s \in Seq(Entry)
  PROVE  iteration(b, t, order, w, s) \in Seq(Entry)
<1> DEFINE B == IF visits_behind(t, w) THEN iter(b, target_behind(t, w), order) ELSE <<>>
           A == IF visits_ahead(t, w) THEN iter(b, target_ahead(t, w), order) ELSE <<>>
<1>1. iteration(b, t, order, w, s) = IF Len(s) >= bucket_size THEN s ELSE s \o B \o A
  BY DEF iteration
<1>2. B \in Seq(Entry)
  <2>1. CASE visits_behind(t, w)
    <3>1. target_behind(t, w) \in Rank
      BY <2>1, VisitsFacts
    <3> QED  BY <2>1, <3>1, IterFacts
  <2> QED  BY <2>1
<1>3. A \in Seq(Entry)
  <2>1. CASE visits_ahead(t, w)
    <3>1. target_ahead(t, w) \in Rank
      BY <2>1, VisitsFacts
    <3> QED  BY <2>1, <3>1, IterFacts
  <2> QED  BY <2>1
<1> HIDE DEF A, B
<1> QED  BY <1>1, <1>2, <1>3

(***************************************************************************)
(* The whole search.  Unless it is full, it has been through the buckets   *)
(* from the target on and, if the target is not the last one, the first.   *)
(***************************************************************************)
LEMMA SearchFacts ==
  ASSUME NEW b \in PeerMaps, NEW order \in IterationOrders(b), NEW t \in Rank
  PROVE  Searched(b, t, iter(b, t, order), max_power - 1, search_results(b, t, order))
<1> DEFINE N == max_power - 1
           first == iter(b, t, order)
           Step(w, s) == iteration(b, t, order, w, s)
           bucket(visit, k) == IF visit THEN iter(b, k, order) ELSE <<>>
           Eq(o) == [w \in 0 .. N |->
                       IF w = 0 THEN iter(b, t, order)
                       ELSE IF Len(o[w - 1]) >= bucket_size THEN o[w - 1]
                       ELSE o[w - 1]
                            \o bucket(visits_behind(t, w), target_behind(t, w))
                            \o bucket(visits_ahead(t, w), target_ahead(t, w))]
           out == CHOOSE o : o = Eq(o)
           F == [w \in 1 .. N |-> [s \in Seq(Entry) |-> Step(w, s)]]
<1>0. N \in Nat /\ N >= 1
  BY MaxPower
<1>1. search_results(b, t, order) = out[N]
  BY DEF search_results
<1>2. first \in Seq(Entry) /\ Items(first) = EntriesOf(b, t)
  BY IterFacts
<1>3. F \in LoopBodies(N, Seq(Entry))
  <2>1. \A w \in 1 .. N, s \in Seq(Entry) : Step(w, s) \in Seq(Entry)
    BY IterationType
  <2> HIDE DEF Step, N
  <2> QED  BY <2>1 DEF LoopBodies
<1>4. PICK g \in [0 .. N -> Seq(Entry)] :
        g[0] = first /\ \A w \in 1 .. N : g[w] = F[w][g[w - 1]]
  <2>1. LoopRuns(N, Seq(Entry), first, F) # {}
    <3> HIDE DEF F, N, first
    <3> QED  BY <1>0, <1>2, <1>3, LoopStates
  <2> HIDE DEF F, N, first
  <2> QED  BY <2>1 DEF LoopRuns
<1>5. ASSUME NEW w \in 1 .. N PROVE g[w - 1] \in Seq(Entry) /\ g[w] = Step(w, g[w - 1])
  <2>1. w - 1 \in 0 .. N
    BY <1>0
  <2> HIDE DEF N
  <2>2. g[w - 1] \in Seq(Entry)
    BY <1>4, <2>1
  <2>3. F[w][g[w - 1]] = Step(w, g[w - 1])
    <3> HIDE DEF Step
    <3> QED  BY <2>2
  <2> HIDE DEF Step, F
  <2> QED  BY <1>4, <2>2, <2>3
<1>6. \A o : \A w \in 0 .. N : Eq(o)[w] = IF w = 0 THEN first ELSE Step(w, o[w - 1])
  <2> HIDE DEF N
  <2> QED  BY DEF iteration
<1>7. g = Eq(g)
  <2>1. \A w \in 0 .. N : w # 0 => w \in 1 .. N
    BY <1>0
  <2>2. \A w \in 0 .. N : Eq(g)[w] = g[w]
    <3> HIDE DEF Step, Eq, N, first
    <3> QED  BY <1>4, <1>5, <1>6, <2>1
  <2>3. g = [w \in 0 .. N |-> g[w]] /\ Eq(g) = [w \in 0 .. N |-> Eq(g)[w]]
    OBVIOUS
  <2> HIDE DEF Eq
  <2> QED  BY <2>2, <2>3
<1>8. out = Eq(out)
  <2> HIDE DEF Eq
  <2> QED  BY <1>7
<1> HIDE DEF out
<1>9. out[0] = first /\ \A w \in 1 .. N : out[w] = Step(w, out[w - 1])
  <2>1. 0 \in 0 .. N /\ \A w \in 1 .. N : w \in 0 .. N /\ w # 0
    BY <1>0
  <2> HIDE DEF Step, Eq, N, first
  <2> QED  BY <1>6, <1>8, <2>1
<1> DEFINE Good == {w \in 0 .. N : Searched(b, t, first, w, out[w])}
<1>10. 0 \in Good
  <2>1. \A k \in Rank : Reached(t, 0, k) => k = t
    BY MaxPower DEF Reached, Rank
  <2> HIDE DEF first
  <2>2. Searched(b, t, first, 0, first)
    BY <1>2, <2>1 DEF Searched
  <2> QED  BY <1>0, <1>9, <2>2
<1>11. \A w \in 1 .. N : w - 1 \in Good => w \in Good
  <2> SUFFICES ASSUME NEW w \in 1 .. N, w - 1 \in Good PROVE w \in Good
    OBVIOUS
  <2>1. Searched(b, t, first, w - 1, out[w - 1]) /\ out[w] = Step(w, out[w - 1])
    BY <1>9
  <2>2. Searched(b, t, first, w, Step(w, out[w - 1]))
    <3> HIDE DEF first
    <3> QED  BY <1>2, <2>1, IterationFacts
  <2> HIDE DEF Step, first
  <2> QED  BY <2>1, <2>2
<1>12. N \in Good
  <2> HIDE DEF Good, N
  <2>1. \A w \in 0 .. N : w \in Good
    BY <1>0, <1>10, <1>11, CountingUp
  <2> QED  BY <1>0, <2>1
<1> QED  BY <1>1, <1>12

-----------------------------------------------------------------------------
\* Iterator::take
LEMMA TakeFacts ==
  ASSUME NEW S, NEW s \in Seq(S), NEW n \in Nat
  PROVE  /\ take(n, s) \in Seq(S)
         /\ Len(take(n, s)) = IF n <= Len(s) THEN n ELSE Len(s)
         /\ \A i \in 1 .. Len(take(n, s)) : take(n, s)[i] = s[i]
         /\ Len(take(n, s)) < n => take(n, s) = s
<1>1. Len(s) \in Nat
  OBVIOUS
<1>2. CASE n <= Len(s)
  <2>1. take(n, s) = SubSeq(s, 1, n)
    BY <1>2 DEF take
  <2> QED  BY <1>1, <1>2, <2>1
<1>3. CASE ~(n <= Len(s))
  <2>1. take(n, s) = SubSeq(s, 1, Len(s))
    BY <1>3 DEF take
  <2>2. SubSeq(s, 1, Len(s)) = s
    BY <1>1
  <2> QED  BY <1>1, <1>3, <2>1, <2>2
<1> QED  BY <1>2, <1>3

(***************************************************************************)
(* What find_closest_peers answers, in terms of the entries of the table.  *)
(***************************************************************************)
LEMMA AnswerFacts ==
  ASSUME NEW b \in PeerMaps, NEW self \in PeerId, NEW peer_id \in PeerId,
         NEW answer \in find_closest_peers(b, self, peer_id)
  PROVE  LET t == distance_rank(self, peer_id)
         IN  /\ answer \in Seq(Entry) /\ Len(answer) <= bucket_size
             /\ \A e \in Items(answer) : \E k \in Rank : e \in EntriesOf(b, k)
             /\ \/ EntriesOf(b, t) \subseteq Items(answer)
                \/ Len(answer) = bucket_size /\ Items(answer) \subseteq EntriesOf(b, t)
             /\ Len(answer) < bucket_size =>
                  \A k \in Rank : k >= t \/ (k = 0 /\ peer_id # self) =>
                    EntriesOf(b, k) \subseteq Items(answer)
<1> DEFINE t == distance_rank(self, peer_id)
<1>1. PICK order \in IterationOrders(b) :
        answer = take(bucket_size, search_results(b, t, order))
  BY DEF find_closest_peers
<1>2. t \in Rank /\ (t = max_power - 1 <=> self = peer_id)
  BY PeerRank
<1> HIDE DEF t
<1> DEFINE r == search_results(b, t, order)
           first == iter(b, t, order)
<1>3. Searched(b, t, first, max_power - 1, r)
  BY <1>2, SearchFacts
<1>4. first \in Seq(Entry) /\ Items(first) = EntriesOf(b, t)
  BY <1>2, IterFacts
<1>5. answer = take(bucket_size, r)
  BY <1>1
<1> HIDE DEF r, first
<1>6. /\ r \in Seq(Entry)
      /\ Len(first) <= Len(r) /\ \A n \in 1 .. Len(first) : r[n] = first[n]
      /\ \A e \in Items(r) : \E k \in Rank : e \in EntriesOf(b, k)
      /\ Len(r) < bucket_size =>
           \A k \in Rank : Reached(t, max_power - 1, k) => EntriesOf(b, k) \subseteq Items(r)
  BY <1>3 DEF Searched
<1>7. bucket_size \in Nat /\ Len(r) \in Nat /\ Len(first) \in Nat
  BY <1>4, <1>6, PeerMapAssumption
<1>8. /\ answer \in Seq(Entry)
      /\ Len(answer) = IF bucket_size <= Len(r) THEN bucket_size ELSE Len(r)
      /\ \A n \in 1 .. Len(answer) : answer[n] = r[n]
      /\ Len(answer) < bucket_size => answer = r
  BY <1>5, <1>6, <1>7, TakeFacts
<1>9. Len(answer) <= bucket_size /\ Len(answer) <= Len(r) /\ Len(answer) \in Nat
  BY <1>7, <1>8
<1>10. Items(answer) \subseteq Items(r)
  <2>1. \A n \in 1 .. Len(answer) : n \in 1 .. Len(r) /\ answer[n] = r[n]
    BY <1>7, <1>8, <1>9
  <2> QED  BY <2>1 DEF Items
<1>11. \/ EntriesOf(b, t) \subseteq Items(answer)
       \/ Len(answer) = bucket_size /\ Items(answer) \subseteq EntriesOf(b, t)
  <2>1. CASE Len(first) <= bucket_size
    <3>1. \A n \in 1 .. Len(first) : n \in 1 .. Len(answer) /\ answer[n] = first[n]
      BY <1>6, <1>7, <1>8, <1>9, <2>1
    <3>2. Items(first) \subseteq Items(answer)
      BY <3>1 DEF Items
    <3> QED  BY <1>4, <3>2
  <2>2. CASE Len(first) > bucket_size
    <3>1. Len(answer) = bucket_size
      BY <1>6, <1>7, <1>8, <2>2
    <3>2. \A n \in 1 .. Len(answer) : n \in 1 .. Len(first) /\ answer[n] = first[n]
      BY <1>6, <1>7, <1>8, <2>2, <3>1
    <3>3. Items(answer) \subseteq Items(first)
      BY <3>2 DEF Items
    <3> QED  BY <1>4, <3>1, <3>3
  <2> QED  BY <1>7, <2>1, <2>2
<1>12. ASSUME Len(answer) < bucket_size, NEW k \in Rank, k >= t \/ (k = 0 /\ peer_id # self)
       PROVE  EntriesOf(b, k) \subseteq Items(answer)
  <2>1. answer = r /\ Len(r) < bucket_size
    BY <1>8, <1>12
  <2>2. Reached(t, max_power - 1, k)
    BY <1>2, <1>12, MaxPower DEF Reached, Rank
  <2> QED  BY <1>6, <2>1, <2>2
<1> QED  BY <1>6, <1>8, <1>9, <1>10, <1>11, <1>12 DEF t

\* In a table where every peer is in its place, an entry is what contains() gives.
LEMMA EntryIsContains ==
  ASSUME NEW b \in PeerMaps, NEW self \in PeerId, Placed(b, self),
         NEW k \in Rank, NEW e \in EntriesOf(b, k)
  PROVE  /\ e[1] \in known_peers(b, k) /\ k = distance_rank(self, e[1])
         /\ e[2] # None /\ e[2] = contains(b, self, e[1])
<1>1. PICK p \in known_peers(b, k) : e = <<p, b[k][p]>>
  BY DEF EntriesOf
<1>2. p \in PeerId /\ b[k][p] # None /\ k = distance_rank(self, p)
  BY DEF Placed, known_peers
<1> QED  BY <1>1, <1>2 DEF contains

-----------------------------------------------------------------------------
\* The peers of the first k buckets.
PeersBelow(b, k) == {p \in PeerId : \E j \in 0 .. k - 1 : p \in known_peers(b, j)}

\* One more bucket adds its peers, none of which is in an earlier bucket.
LEMMA BelowFacts ==
  ASSUME NEW b \in PeerMaps, NEW self \in PeerId, Placed(b, self), NEW k \in 1 .. max_power
  PROVE  Cardinality(PeersBelow(b, k))
           = Cardinality(PeersBelow(b, k - 1)) + Cardinality(known_peers(b, k - 1))
<1> DEFINE S == PeersBelow(b, k - 1)
           T == known_peers(b, k - 1)
<1>1. k - 1 \in Rank /\ \A j \in 0 .. k - 2 : j \in Rank /\ j # k - 1
  BY MaxPower DEF Rank
<1>2. S \subseteq PeerId /\ T \subseteq PeerId
  BY DEF PeersBelow, known_peers
<1>3. S \cap T = {}
  BY <1>1, MaxPower DEF PeersBelow, Placed
<1>4. PeersBelow(b, k) = S \cup T
  <2>1. \A j : j \in 0 .. k - 1 <=> j = k - 1 \/ j \in 0 .. (k - 1) - 1
    BY MaxPower
  <2> QED  BY <1>2, <2>1 DEF PeersBelow
<1>5. IsFiniteSet(S) /\ IsFiniteSet(T)
  BY <1>2, FinitelyManyPeers, FS_Subset
<1> HIDE DEF S, T
<1>6. Cardinality(S \cup T) = Cardinality(S) + Cardinality(T) - Cardinality(S \cap T)
  BY <1>5, FS_Union
<1>7. Cardinality(S \cap T) = 0 /\ Cardinality(S) \in Nat /\ Cardinality(T) \in Nat
  BY <1>3, <1>5, FS_EmptySet, FS_CardinalityType
<1> QED  BY <1>4, <1>6, <1>7 DEF S, T

(***************************************************************************)
(* count, the sum over the buckets, is the number of peers that contains   *)
(* finds.                                                                  *)
(***************************************************************************)
LEMMA CountFacts ==
  ASSUME NEW b \in PeerMaps, NEW self \in PeerId, Placed(b, self)
  PROVE  count(b) = Cardinality({p \in PeerId : contains(b, self, p) # None})
<1> DEFINE N == max_power
           size(k) == Cardinality(known_peers(b, k))
           Step(k, s) == s + size(k - 1)
           Eq(o) == [k \in 0 .. N |->
                       IF k = 0 THEN 0 ELSE o[k - 1] + Cardinality(known_peers(b, k - 1))]
           acc == CHOOSE o : o = Eq(o)
           F == [k \in 1 .. N |-> [s \in Nat |-> Step(k, s)]]
<1>0. N \in Nat /\ N >= 2
  BY MaxPower
<1>1. count(b) = acc[N]
  BY DEF count
<1>2. \A k \in 1 .. N : size(k - 1) \in Nat
  <2>1. \A k : known_peers(b, k) \subseteq PeerId
    BY DEF known_peers
  <2>2. \A k : IsFiniteSet(known_peers(b, k))
    BY <2>1, FinitelyManyPeers, FS_Subset
  <2> QED  BY <2>2, FS_CardinalityType
<1>3. F \in LoopBodies(N, Nat)
  <2>1. \A k \in 1 .. N, s \in Nat : Step(k, s) \in Nat
    <3> HIDE DEF size, N
    <3> QED  BY <1>2
  <2> HIDE DEF Step, N
  <2> QED  BY <2>1 DEF LoopBodies
<1>4. PICK g \in [0 .. N -> Nat] : g[0] = 0 /\ \A k \in 1 .. N : g[k] = F[k][g[k - 1]]
  <2>1. LoopRuns(N, Nat, 0, F) # {}
    <3> HIDE DEF F, N
    <3> QED  BY <1>0, <1>3, LoopStates
  <2> HIDE DEF F, N
  <2> QED  BY <2>1 DEF LoopRuns
<1>5. ASSUME NEW k \in 1 .. N PROVE g[k] = Step(k, g[k - 1])
  <2>1. k - 1 \in 0 .. N
    BY <1>0
  <2> HIDE DEF N
  <2>2. g[k - 1] \in Nat
    BY <1>4, <2>1
  <2>3. F[k][g[k - 1]] = Step(k, g[k - 1])
    <3> HIDE DEF Step
    <3> QED  BY <2>2
  <2> HIDE DEF Step, F
  <2> QED  BY <1>4, <2>3
<1>6. \A o : \A k \in 0 .. N : Eq(o)[k] = IF k = 0 THEN 0 ELSE Step(k, o[k - 1])
  <2> HIDE DEF N
  <2> QED  OBVIOUS
<1>7. g = Eq(g)
  <2>1. \A k \in 0 .. N : k # 0 => k \in 1 .. N
    BY <1>0
  <2>2. \A k \in 0 .. N : Eq(g)[k] = g[k]
    <3> HIDE DEF Step, Eq, N
    <3> QED  BY <1>4, <1>5, <1>6, <2>1
  <2>3. g = [k \in 0 .. N |-> g[k]] /\ Eq(g) = [k \in 0 .. N |-> Eq(g)[k]]
    OBVIOUS
  <2> HIDE DEF Eq
  <2> QED  BY <2>2, <2>3
<1>8. acc = Eq(acc)
  <2> HIDE DEF Eq
  <2> QED  BY <1>7
<1> HIDE DEF acc
<1>9. acc[0] = 0 /\ \A k \in 1 .. N : acc[k] = Step(k, acc[k - 1])
  <2>1. 0 \in 0 .. N /\ \A k \in 1 .. N : k \in 0 .. N /\ k # 0
    BY <1>0
  <2> HIDE DEF Step, Eq, N
  <2> QED  BY <1>6, <1>8, <2>1
<1> DEFINE Good == {k \in 0 .. N : acc[k] = Cardinality(PeersBelow(b, k))}
<1>10. 0 \in Good
  <2>1. PeersBelow(b, 0) = {}
    BY DEF PeersBelow
  <2>2. Cardinality(PeersBelow(b, 0)) = 0
    BY <2>1, FS_EmptySet
  <2> QED  BY <1>0, <1>9, <2>2
<1>11. \A k \in 1 .. N : k - 1 \in Good => k \in Good
  <2> SUFFICES ASSUME NEW k \in 1 .. N, k - 1 \in Good PROVE k \in Good
    OBVIOUS
  <2>1. acc[k] = Cardinality(PeersBelow(b, k - 1)) + Cardinality(known_peers(b, k - 1))
    BY <1>9
  <2>2. acc[k] = Cardinality(PeersBelow(b, k))
    BY <2>1, BelowFacts
  <2> QED  BY <2>2
<1>12. N \in Good
  <2> HIDE DEF Good, N
  <2>1. \A k \in 0 .. N : k \in Good
    BY <1>0, <1>10, <1>11, CountingUp
  <2> QED  BY <1>0, <2>1
<1>13. PeersBelow(b, N) = {p \in PeerId : contains(b, self, p) # None}
  <2>1. \A p \in PeerId : distance_rank(self, p) \in 0 .. N - 1
    BY PeerRank DEF Rank
  <2> QED  BY <2>1 DEF PeersBelow, contains, known_peers, Placed, Rank
<1> QED  BY <1>1, <1>12, <1>13
=============================================================================
