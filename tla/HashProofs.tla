----------------------------- MODULE HashProofs -----------------------------
(***************************************************************************)
(* Lemmas on the operators of module Hash: what distance_rank returns, for *)
(* hashes of every size.  Then on loops written as recursive functions:    *)
(* that the function exists, how to count up to a property, what filter    *)
(* returns.                                                                *)
(***************************************************************************)
EXTENDS Hash, Iterators, FiniteSetTheorems, WellFoundedInduction, TLAPS

(***************************************************************************)
(* A non-empty set of naturals has a least element, and Min returns it.    *)
(***************************************************************************)
LEMMA MinOfNaturals ==
  ASSUME NEW S \in SUBSET Nat, S # {}
  PROVE  Min(S) \in S /\ \A y \in S : Min(S) <= y
<1> DEFINE R == OpToRel(<, Nat)
<1>1. \E x \in S : \A y \in S : ~(<<y, x>> \in R)
  <2>1. IsWellFoundedOn(R, Nat)
    BY NatLessThanWellFounded
  <2> HIDE DEF R
  <2> QED BY <2>1, WFMin
<1>2. PICK x \in S : \A y \in S : ~(<<y, x>> \in R)
  BY <1>1
<1>3. ASSUME NEW y \in S PROVE x <= y
  <2>1. <<y, x>> \notin R
    BY <1>2
  <2>2. x \in Nat /\ y \in Nat
    OBVIOUS
  <2>3. y < x => <<y, x>> \in R
    BY <2>2, Zenon DEF OpToRel
  <2>4. ~(y < x)
    <3> HIDE DEF R
    <3> QED BY <2>1, <2>3
  <2> HIDE DEF R
  <2> QED BY <2>2, <2>4
<1> QED  BY <1>3 DEF Min

(***************************************************************************)
(* A non-empty set of naturals with an upper bound has a greatest element, *)
(* and Max returns it.                                                     *)
(***************************************************************************)
LEMMA MaxOfBoundedNaturals ==
  ASSUME NEW n \in Nat, NEW S \in SUBSET (0 .. n), S # {}
  PROVE  Max(S) \in S /\ \A y \in S : Max(S) >= y
<1> DEFINE T == {k \in Nat : \E x \in S : k = n - x}
<1>1. T \in SUBSET Nat
  OBVIOUS
<1>2. T # {}
  <2>1. PICK x \in S : TRUE  OBVIOUS
  <2>2. x \in 0 .. n  OBVIOUS
  <2>3. n - x \in T  BY <2>2
  <2> QED BY <2>3
<1> HIDE DEF T
<1>3. Min(T) \in T /\ \A y \in T : Min(T) <= y
  BY <1>1, <1>2, MinOfNaturals
<1> USE DEF T
<1>4. PICK x \in S : Min(T) = n - x
  BY <1>3
<1>5. ASSUME NEW y \in S PROVE x >= y
  <2>1. x \in 0 .. n /\ y \in 0 .. n  OBVIOUS
  <2>2. n - y \in T  BY <2>1
  <2>3. n - x <= n - y  BY <2>2, <1>3, <1>4
  <2> QED BY <2>1, <2>3
<1> QED  BY <1>5 DEF Max

(***************************************************************************)
(* The greatest element of a bounded set is the one Max returns.           *)
(***************************************************************************)
LEMMA MaxUnique ==
  ASSUME NEW n \in Nat, NEW S \in SUBSET (0 .. n), NEW i \in S,
         \A k \in S : k <= i
  PROVE  Max(S) = i
<1>1. Max(S) \in S /\ Max(S) >= i
  BY MaxOfBoundedNaturals
<1>2. Max(S) \in 0 .. n /\ i \in 0 .. n /\ Max(S) <= i
  BY <1>1
<1> QED  BY <1>1, <1>2

-----------------------------------------------------------------------------
(***************************************************************************)
(* The first bit set of a non-zero byte is one of its bits.                *)
(***************************************************************************)
LEMMA ByteLeadingZerosRange ==
  ASSUME NEW b \in Byte, b # ZeroByte
  PROVE  byte_leading_zeros(b) \in BitIndex /\ b[byte_leading_zeros(b)] = 1
<1> DEFINE Ones == {j \in BitIndex : b[j] = 1}
<1>1. Ones # {}
  BY DEF Byte, ZeroByte
<1>2. Ones \in SUBSET Nat
  BY HashAssumption DEF BitIndex
<1> HIDE DEF Ones
<1>3. Min(Ones) \in Ones
  BY <1>1, <1>2, MinOfNaturals
<1> QED  BY <1>3 DEF Ones, byte_leading_zeros

\* max_power counts at least two buckets.
LEMMA MaxPower == max_power \in Nat /\ max_power >= 2
BY HashAssumption DEF max_power

(***************************************************************************)
(* The position of a bit inside a hash is below the number of bits, and    *)
(* zero only for the first bit.                                            *)
(***************************************************************************)
LEMMA BitPosition ==
  ASSUME NEW i \in ByteIndex, NEW j \in BitIndex
  PROVE  BYTE_BITS * i + j \in 0 .. max_power - 1
<1>1. BLAKE2_HASH_SIZE \in Nat /\ BYTE_BITS \in Nat /\ i \in Nat /\ j \in Nat
  BY HashAssumption DEF ByteIndex, BitIndex
<1>2. BLAKE2_HASH_SIZE - 1 - i \in Nat /\ j <= BYTE_BITS - 1
  BY <1>1 DEF ByteIndex, BitIndex
<1>3. BYTE_BITS * (BLAKE2_HASH_SIZE - 1 - i) \in Nat
  BY <1>1, <1>2
<1>4. BYTE_BITS * (BLAKE2_HASH_SIZE - 1 - i)
        = BLAKE2_HASH_SIZE * BYTE_BITS - BYTE_BITS - BYTE_BITS * i
  BY <1>1
<1>5. BYTE_BITS * i \in Nat /\ BLAKE2_HASH_SIZE * BYTE_BITS \in Nat
  BY <1>1
<1> QED  BY <1>1, <1>2, <1>3, <1>4, <1>5 DEF max_power

(***************************************************************************)
(* leading_zeros of any hash indexes a bucket; the last bucket belongs to  *)
(* the zero hash alone.                                                    *)
(***************************************************************************)
LEMMA LeadingZerosRange ==
  ASSUME NEW h \in Blake2Hash
  PROVE  /\ leading_zeros(h) \in 0 .. max_power - 1
         /\ leading_zeros(h) = max_power - 1 <=> h = ZeroHash
<1> DEFINE N == NonZeroBytes(h)
           k == Max(N)
<1>1. N = {} <=> h = ZeroHash
  BY DEF NonZeroBytes, ZeroHash, Blake2Hash
<1>2. CASE N = {}
  BY <1>1, <1>2, MaxPower DEF leading_zeros, saturating_sub
<1>3. CASE N # {}
  <2>1. BLAKE2_HASH_SIZE - 1 \in Nat /\ N \in SUBSET (0 .. BLAKE2_HASH_SIZE - 1)
    BY HashAssumption DEF NonZeroBytes, ByteIndex
  <2>2. k \in N
    <3> HIDE DEF N
    <3> QED BY <2>1, <1>3, MaxOfBoundedNaturals
  <2> HIDE DEF k
  <2>3. k \in ByteIndex /\ h[k] \in Byte /\ h[k] # ZeroByte
    BY <2>2 DEF NonZeroBytes, Blake2Hash
  <2>4. byte_leading_zeros(h[k]) \in BitIndex
    BY <2>3, ByteLeadingZerosRange
  <2> DEFINE p == BYTE_BITS * k + byte_leading_zeros(h[k])
  <2>5. p \in 0 .. max_power - 1
    BY <2>3, <2>4, BitPosition
  <2>6. leading_zeros(h) = saturating_sub(p, 1)
    BY <1>3 DEF leading_zeros, k
  <2> HIDE DEF p
  <2>7. saturating_sub(p, 1) \in 0 .. max_power - 2
    BY <2>5, MaxPower DEF saturating_sub
  <2> QED  BY <2>6, <2>7, <1>1, <1>3, MaxPower
<1> QED  BY <1>2, <1>3

\* The distance of two hashes is a hash, and it is symmetric.
LEMMA BitxorHash ==
  ASSUME NEW a \in Blake2Hash, NEW b \in Blake2Hash
  PROVE  /\ bitxor(a, b) \in Blake2Hash
         /\ bitxor(a, b) = bitxor(b, a)
         /\ bitxor(a, b) = ZeroHash <=> a = b
<1>1. bitxor(a, b) \in Blake2Hash
  BY DEF bitxor, Blake2Hash, Byte
<1>2. bitxor(a, b) = bitxor(b, a)
  BY DEF bitxor
<1>3. ASSUME bitxor(a, b) = ZeroHash PROVE a = b
  <2>1. ASSUME NEW i \in ByteIndex, NEW j \in BitIndex PROVE a[i][j] = b[i][j]
    <3>1. bitxor(a, b)[i][j] = 0
      BY <1>3 DEF ZeroHash, ZeroByte
    <3> QED  BY <3>1 DEF bitxor
  <2>2. ASSUME NEW i \in ByteIndex PROVE a[i] = b[i]
    <3>1. a[i] \in Byte /\ b[i] \in Byte
      BY DEF Blake2Hash
    <3> QED  BY <3>1, <2>1 DEF Byte
  <2> QED  BY <2>2 DEF Blake2Hash
<1>4. bitxor(a, a) = ZeroHash
  BY DEF bitxor, ZeroHash, ZeroByte
<1> QED  BY <1>1, <1>2, <1>3, <1>4

(***************************************************************************)
(* PeerId::distance_rank, for every two ids: it indexes a bucket, it does  *)
(* not depend on whose table it is computed for, and only an id itself has *)
(* the last bucket.                                                        *)
(***************************************************************************)
THEOREM DistanceRank ==
  ASSUME NEW a \in Blake2Hash, NEW b \in Blake2Hash
  PROVE  /\ distance_rank(a, b) \in 0 .. max_power - 1
         /\ distance_rank(a, b) = distance_rank(b, a)
         /\ distance_rank(a, b) = max_power - 1 <=> a = b
BY BitxorHash, LeadingZerosRange DEF distance_rank

-----------------------------------------------------------------------------
(***************************************************************************)
(* Loops.  What a recursive function computes is shown in three steps: the *)
(* function exists, it satisfies its equation, and its values have a       *)
(* property by induction.  Properties are sets here, and steps functions.  *)
(***************************************************************************)

\* Induction up to a bound.
LEMMA CountingUp ==
  ASSUME NEW N \in Nat, NEW Good, 0 \in Good,
         \A n \in 1 .. N : n - 1 \in Good => n \in Good
  PROVE  \A n \in 0 .. N : n \in Good
<1> DEFINE Bad == {n \in 0 .. N : n \notin Good}
<1> SUFFICES ASSUME Bad # {} PROVE FALSE
  OBVIOUS
<1>1. Bad \in SUBSET Nat
  OBVIOUS
<1>2. PICK m \in Bad : \A y \in Bad : m <= y
  <2> HIDE DEF Bad
  <2> QED  BY <1>1, MinOfNaturals
<1>3. m \in 1 .. N
  BY <1>2
<1>4. m - 1 \in 0 .. N /\ ~(m <= m - 1)
  BY <1>3
<1>5. m - 1 \in Good
  BY <1>2, <1>4
<1> QED  BY <1>2, <1>3, <1>5

\* The bodies of loops of N iterations over states S, and what such a loop does
\* from state a.
LoopBodies(N, S) == [1 .. N -> [S -> S]]

LoopRuns(N, S, a, F) ==
  {g \in [0 .. N -> S] : g[0] = a /\ \A n \in 1 .. N : g[n] = F[n][g[n - 1]]}

\* Every such loop runs.
LEMMA LoopStates ==
  ASSUME NEW N \in Nat, NEW S, NEW a \in S, NEW F \in LoopBodies(N, S)
  PROVE  LoopRuns(N, S, a, F) # {}
<1> USE DEF LoopBodies, LoopRuns
<1> DEFINE Upto(m) == {g \in [0 .. m -> S] : g[0] = a /\ \A n \in 1 .. m : g[n] = F[n][g[n - 1]]}
           Good == {m \in 0 .. N : Upto(m) # {}}
<1>1. 0 \in Good
  <2>1. [n \in 0 .. 0 |-> a] \in Upto(0)
    OBVIOUS
  <2> QED  BY <2>1
<1>2. ASSUME NEW m \in 1 .. N, m - 1 \in Good PROVE m \in Good
  <2>1. PICK g \in [0 .. m - 1 -> S] :
          g[0] = a /\ \A n \in 1 .. m - 1 : g[n] = F[n][g[n - 1]]
    BY <1>2
  <2> DEFINE h == [n \in 0 .. m |-> IF n < m THEN g[n] ELSE F[m][g[m - 1]]]
  <2>2. m - 1 \in 0 .. m - 1 /\ g[m - 1] \in S /\ F[m][g[m - 1]] \in S
    BY <1>2, <2>1
  <2>3. h \in [0 .. m -> S] /\ h[0] = a
    BY <2>1, <2>2
  <2>4. ASSUME NEW n \in 1 .. m PROVE h[n] = F[n][h[n - 1]]
    <3>1. n - 1 \in 0 .. m /\ n - 1 < m /\ h[n - 1] = g[n - 1]
      BY <2>4
    <3>2. CASE n < m
      BY <2>1, <2>4, <3>1, <3>2
    <3>3. CASE n = m
      BY <2>4, <3>1, <3>3
    <3> QED  BY <3>2, <3>3
  <2> HIDE DEF h
  <2>5. h \in Upto(m)
    BY <2>3, <2>4
  <2> QED  BY <2>5
<1> HIDE DEF Good
<1>3. N \in Good
  <2>1. \A n \in 1 .. N : n - 1 \in Good => n \in Good
    BY <1>2
  <2>2. \A n \in 0 .. N : n \in Good
    BY <1>1, <2>1, CountingUp
  <2> QED  BY <2>2
<1> USE DEF Good
<1> QED  BY <1>3

(***************************************************************************)
(* What filter makes of a sequence: the items that are kept, and no two    *)
(* results from one item.                                                  *)
(***************************************************************************)
Filtered(S, seq, kept, out) ==
  /\ out \in Seq(S \cap kept)
  /\ \A n \in 1 .. Len(out) : \E i \in 1 .. Len(seq) : out[n] = seq[i]
  /\ \A i \in 1 .. Len(seq) : seq[i] \in kept => \E n \in 1 .. Len(out) : out[n] = seq[i]
  /\ \A m, n \in 1 .. Len(out) : m < n =>
       \E i, j \in 1 .. Len(seq) : i < j /\ out[m] = seq[i] /\ out[n] = seq[j]

\* Iterator::filter does so.
LEMMA FilterFacts ==
  ASSUME NEW S, NEW seq \in Seq(S), NEW kept
  PROVE  Filtered(S, seq, kept, filter(seq, kept))
<1> USE DEF Filtered
<1> DEFINE N == Len(seq)
           T == S \cap kept
           Step(n, s) == IF seq[n] \in kept THEN Append(s, seq[n]) ELSE s
           Eq(o) == [n \in 0 .. N |-> IF n = 0 THEN <<>>
                                     ELSE IF seq[n] \in kept THEN Append(o[n - 1], seq[n])
                                     ELSE o[n - 1]]
           out == CHOOSE o : o = Eq(o)
           F == [n \in 1 .. N |-> [s \in Seq(T) |-> Step(n, s)]]
<1>0. N \in Nat /\ \A n \in 1 .. N : seq[n] \in S
  OBVIOUS
<1>1. filter(seq, kept) = out[N]
  BY DEF filter
<1>2. F \in [1 .. N -> [Seq(T) -> Seq(T)]]
  BY <1>0
<1>3. PICK g \in [0 .. N -> Seq(T)] : g[0] = <<>> /\ \A n \in 1 .. N : g[n] = F[n][g[n - 1]]
  <2>1. <<>> \in Seq(T) /\ N \in Nat /\ F \in LoopBodies(N, Seq(T))
    BY <1>0, <1>2 DEF LoopBodies
  <2>2. LoopRuns(N, Seq(T), <<>>, F) # {}
    <3> HIDE DEF F, N, T
    <3> QED  BY <2>1, LoopStates
  <2> QED  BY <2>2 DEF LoopRuns
<1>4. ASSUME NEW n \in 1 .. N PROVE g[n - 1] \in Seq(T) /\ g[n] = Step(n, g[n - 1])
  <2>1. n - 1 \in 0 .. N
    BY <1>0
  <2>2. g[n - 1] \in Seq(T)
    BY <1>3, <2>1
  <2>3. F[n][g[n - 1]] = Step(n, g[n - 1])
    <3> HIDE DEF Step
    <3> QED  BY <2>2
  <2> HIDE DEF Step, F
  <2> QED  BY <1>3, <2>2, <2>3
<1>5. g = Eq(g)
  <2>1. \A n \in 0 .. N : n # 0 => n \in 1 .. N
    BY <1>0
  <2>2. \A n \in 0 .. N : Eq(g)[n] = IF n = 0 THEN <<>> ELSE Step(n, g[n - 1])
    OBVIOUS
  <2>3. \A n \in 0 .. N : Eq(g)[n] = g[n]
    <3> HIDE DEF Step, Eq
    <3> QED  BY <1>3, <1>4, <2>1, <2>2
  <2>4. g = [n \in 0 .. N |-> g[n]] /\ Eq(g) = [n \in 0 .. N |-> Eq(g)[n]]
    OBVIOUS
  <2> HIDE DEF Eq
  <2> QED  BY <2>3, <2>4
<1>6. out = Eq(out)
  <2> HIDE DEF Eq
  <2> QED  BY <1>5
<1> HIDE DEF out
<1>7. out[0] = <<>> /\ \A n \in 1 .. N : out[n] = Step(n, out[n - 1])
  <2>1. \A n \in 0 .. N : Eq(out)[n] = IF n = 0 THEN <<>> ELSE Step(n, out[n - 1])
    OBVIOUS
  <2>2. 0 \in 0 .. N /\ \A n \in 1 .. N : n \in 0 .. N /\ n # 0
    BY <1>0
  <2> HIDE DEF Step, Eq
  <2> QED  BY <1>6, <2>1, <2>2
<1> DEFINE Found(k, s) ==
             /\ s \in Seq(T)
             /\ \A n \in 1 .. Len(s) : \E i \in 1 .. k : s[n] = seq[i]
             /\ \A i \in 1 .. k : seq[i] \in kept => \E n \in 1 .. Len(s) : s[n] = seq[i]
             /\ \A m, n \in 1 .. Len(s) : m < n =>
                  \E i, j \in 1 .. k : i < j /\ s[m] = seq[i] /\ s[n] = seq[j]
           Good == {k \in 0 .. N : Found(k, out[k])}
<1>8. 0 \in Good
  <2>1. Found(0, <<>>)
    OBVIOUS
  <2> HIDE DEF Found
  <2> QED  BY <1>0, <1>7, <2>1
<1>9. ASSUME NEW k \in 1 .. N, k - 1 \in Good PROVE k \in Good
  <2> DEFINE s == out[k - 1]
             t == out[k]
  <2>1. Found(k - 1, s) /\ t = Step(k, s)
    BY <1>7, <1>9
  <2> HIDE DEF s, t
  <2>2. \A i \in 1 .. k - 1 : i \in 1 .. k /\ i < k
    OBVIOUS
  <2>3. ASSUME seq[k] \notin kept PROVE Found(k, t)
    <3>1. t = s
      BY <2>1, <2>3
    <3>2. \A i \in 1 .. k : i = k \/ i \in 1 .. k - 1
      OBVIOUS
    <3>3. Found(k, s)
      <4>1. s \in Seq(T) /\ \A n \in 1 .. Len(s) : \E i \in 1 .. k : s[n] = seq[i]
        BY <2>1, <2>2
      <4>2. \A i \in 1 .. k : seq[i] \in kept => \E n \in 1 .. Len(s) : s[n] = seq[i]
        BY <2>1, <2>3, <3>2
      <4>3. ASSUME NEW m \in 1 .. Len(s), NEW n \in 1 .. Len(s), m < n
            PROVE  \E i, j \in 1 .. k : i < j /\ s[m] = seq[i] /\ s[n] = seq[j]
        <5>1. PICK i \in 1 .. k - 1, j \in 1 .. k - 1 : i < j /\ s[m] = seq[i] /\ s[n] = seq[j]
          BY <2>1, <4>3
        <5> QED  BY <2>2, <5>1
      <4> QED  BY <4>1, <4>2, <4>3
    <3> HIDE DEF Found
    <3> QED  BY <3>1, <3>3
  <2>4. ASSUME seq[k] \in kept PROVE Found(k, t)
    <3>1. t = Append(s, seq[k]) /\ s \in Seq(T) /\ seq[k] \in T
      BY <1>0, <2>1, <2>4
    <3>2. /\ t \in Seq(T) /\ Len(s) \in Nat /\ Len(t) = Len(s) + 1 /\ t[Len(t)] = seq[k]
          /\ \A n \in 1 .. Len(s) : t[n] = s[n]
      BY <3>1
    <3>3. \A n \in 1 .. Len(t) : n = Len(t) \/ n \in 1 .. Len(s)
      BY <3>2
    <3>4. \A n \in 1 .. Len(t) : \E i \in 1 .. k : t[n] = seq[i]
      BY <2>1, <2>2, <3>2, <3>3
    <3>5. ASSUME NEW i \in 1 .. k, seq[i] \in kept PROVE \E n \in 1 .. Len(t) : t[n] = seq[i]
      <4>1. CASE i = k
        BY <3>2, <4>1
      <4>2. CASE i \in 1 .. k - 1
        <5>1. PICK n \in 1 .. Len(s) : s[n] = seq[i]
          BY <2>1, <3>5, <4>2
        <5> QED  BY <3>2, <5>1
      <4> QED  BY <4>1, <4>2
    <3>6. ASSUME NEW m \in 1 .. Len(t), NEW n \in 1 .. Len(t), m < n
          PROVE  \E i, j \in 1 .. k : i < j /\ t[m] = seq[i] /\ t[n] = seq[j]
      <4>1. m \in 1 .. Len(s)
        BY <3>2, <3>6
      <4>2. CASE n = Len(t)
        <5>1. PICK i \in 1 .. k - 1 : s[m] = seq[i]
          BY <2>1, <4>1
        <5> QED  BY <2>2, <3>2, <4>1, <4>2, <5>1
      <4>3. CASE n \in 1 .. Len(s)
        <5>1. PICK i \in 1 .. k - 1, j \in 1 .. k - 1 : i < j /\ s[m] = seq[i] /\ s[n] = seq[j]
          BY <2>1, <3>6, <4>1, <4>3
        <5> QED  BY <2>2, <3>2, <4>1, <4>3, <5>1
      <4> QED  BY <3>3, <4>2, <4>3
    <3> QED  BY <3>2, <3>4, <3>5, <3>6
  <2> HIDE DEF Found
  <2> QED  BY <2>3, <2>4 DEF t
<1>10. N \in Good
  <2> HIDE DEF Good, N
  <2>1. N \in Nat
    BY <1>0
  <2>2. \A k \in 1 .. N : k - 1 \in Good => k \in Good
    BY <1>9
  <2>3. \A k \in 0 .. N : k \in Good
    BY <1>8, <2>1, <2>2, CountingUp
  <2> QED  BY <2>1, <2>3
<1>11. Found(N, out[N])
  BY <1>10
<1> QED  BY <1>1, <1>11
=============================================================================
