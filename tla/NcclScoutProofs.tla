-------------------------- MODULE NcclScoutProofs --------------------------
(***************************************************************************)
(* What the search for bad nodes promises, for any number of nodes, shapes *)
(* and bandwidths, and any order of answers, tests and retests: Base is    *)
(* about any run, ScoutInv about those on nodes of one known shape, where  *)
(* every pair is measured against the same threshold.                      *)
(***************************************************************************)
EXTENDS NcclScout, FoldTheorems, FiniteSetTheorems, SequenceTheorems, TLAPS

-----------------------------------------------------------------------------
(* Sequences *)

LEMMA RangeOf ==
  ASSUME NEW S, NEW s \in Seq(S)
  PROVE  /\ Len(s) \in Nat /\ DOMAIN s = 1 .. Len(s) /\ Range(s) \subseteq S
         /\ \A x : x \in Range(s) <=> \E i \in 1 .. Len(s) : x = s[i]
<1>1. Len(s) \in Nat /\ DOMAIN s = 1 .. Len(s)
  BY LenProperties
<1>2. Range(s) \subseteq S
  BY RangeOfSeq
<1>. QED
  BY <1>1, <1>2 DEF Range

LEMMA RangeOfAppend ==
  ASSUME NEW S, NEW s \in Seq(S), NEW e \in S
  PROVE  Append(s, e) \in Seq(S) /\ Range(Append(s, e)) = Range(s) \union {e}
<1>1. PICK t : t = Append(s, e)
  OBVIOUS
<1>2. /\ t \in Seq(S) /\ Len(t) = Len(s) + 1 /\ \A i \in 1 .. Len(s) : t[i] = s[i]
      /\ t[Len(s) + 1] = e
  BY <1>1, AppendProperties
<1>3. Len(s) \in Nat /\ \A x : x \in Range(s) <=> \E i \in 1 .. Len(s) : x = s[i]
  BY RangeOf
<1>4. \A x : x \in Range(t) <=> \E i \in 1 .. Len(t) : x = t[i]
  BY <1>2, RangeOf
<1>5. ASSUME NEW x PROVE x \in Range(t) <=> x \in Range(s) \/ x = e
  <2>1. 1 .. Len(t) = (1 .. Len(s)) \union {Len(s) + 1}
    BY <1>2, <1>3
  <2>. QED
    BY <1>2, <1>3, <1>4, <2>1
<1>. QED
  BY <1>1, <1>2, <1>5

LEMMA RangeOfConcat ==
  ASSUME NEW S, NEW s \in Seq(S), NEW t \in Seq(S)
  PROVE  s \o t \in Seq(S) /\ Range(s \o t) = Range(s) \union Range(t)
<1>1. PICK u : u = s \o t
  OBVIOUS
<1>2. /\ u \in Seq(S) /\ Len(u) = Len(s) + Len(t)
      /\ \A i \in 1 .. Len(s) + Len(t) : u[i] = IF i <= Len(s) THEN s[i] ELSE t[i - Len(s)]
  BY <1>1, ConcatProperties
<1>3. /\ Len(s) \in Nat /\ \A x : x \in Range(s) <=> \E i \in 1 .. Len(s) : x = s[i]
      /\ Len(t) \in Nat /\ \A x : x \in Range(t) <=> \E i \in 1 .. Len(t) : x = t[i]
  BY RangeOf
<1>4. \A x : x \in Range(u) <=> \E i \in 1 .. Len(u) : x = u[i]
  BY <1>2, RangeOf
<1>5. ASSUME NEW x, x \in Range(u) PROVE x \in Range(s) \union Range(t)
  <2>1. PICK i \in 1 .. Len(u) : x = u[i]
    BY <1>4, <1>5
  <2>2. CASE i <= Len(s)
    BY <1>2, <1>3, <2>1, <2>2
  <2>3. CASE ~(i <= Len(s))
    <3>1. i - Len(s) \in 1 .. Len(t) /\ x = t[i - Len(s)]
      BY <1>2, <1>3, <2>1, <2>3
    <3>. QED
      BY <1>3, <3>1
  <2>. QED
    BY <2>2, <2>3
<1>6. ASSUME NEW x, x \in Range(s) PROVE x \in Range(u)
  <2>1. PICK i \in 1 .. Len(s) : x = s[i]
    BY <1>3, <1>6
  <2>2. i \in 1 .. Len(u) /\ u[i] = s[i]
    BY <1>2, <1>3
  <2>. QED
    BY <1>4, <2>1, <2>2
<1>7. ASSUME NEW x, x \in Range(t) PROVE x \in Range(u)
  <2>1. PICK i \in 1 .. Len(t) : x = t[i]
    BY <1>3, <1>7
  <2>2. PICK k : k = i + Len(s)
    OBVIOUS
  <2>3. k \in 1 .. Len(u) /\ u[k] = t[i]
    <3>1. k \in 1 .. Len(s) + Len(t) /\ ~(k <= Len(s)) /\ k - Len(s) = i
      BY <1>3, <2>2
    <3>2. u[k] = t[k - Len(s)]
      BY <1>2, <3>1
    <3>. QED
      BY <1>2, <3>1, <3>2
  <2>. QED
    BY <1>4, <2>1, <2>3
<1>. QED
  BY <1>1, <1>2, <1>5, <1>6, <1>7

LEMMA PartOfSeq ==
  ASSUME NEW S, NEW s \in Seq(S), NEW m \in 1 .. Len(s) + 1, NEW n \in 0 .. Len(s)
  PROVE  /\ SubSeq(s, m, n) \in Seq(S)
         /\ \A x : x \in Range(SubSeq(s, m, n)) <=> \E i \in m .. n : x = s[i]
<1>1. Len(s) \in Nat /\ \A i \in 1 .. Len(s) : s[i] \in S
  BY LenProperties, ElementOfSeq
<1>2. m \in Int /\ n \in Int /\ \A i \in m .. n : s[i] \in S
  BY <1>1
<1>3. PICK u : u = SubSeq(s, m, n)
  OBVIOUS
<1>4. /\ u \in Seq(S) /\ Len(u) = IF m <= n THEN n - m + 1 ELSE 0
      /\ \A i \in 1 .. n - m + 1 : u[i] = s[m + i - 1]
  BY <1>2, <1>3, SubSeqProperties
<1>5. \A x : x \in Range(u) <=> \E i \in 1 .. Len(u) : x = u[i]
  BY <1>4, RangeOf
<1>6. ASSUME NEW x, x \in Range(u) PROVE \E i \in m .. n : x = s[i]
  <2>1. PICK i \in 1 .. Len(u) : x = u[i]
    BY <1>5, <1>6
  <2>2. i \in 1 .. n - m + 1
    BY <1>1, <1>4
  <2>3. m + i - 1 \in m .. n /\ x = s[m + i - 1]
    BY <1>1, <1>4, <2>1, <2>2
  <2>. QED
    BY <2>3
<1>7. ASSUME NEW i \in m .. n PROVE s[i] \in Range(u)
  <2>1. i - m + 1 \in 1 .. n - m + 1 /\ m + (i - m + 1) - 1 = i /\ i - m + 1 \in 1 .. Len(u)
    BY <1>1, <1>4
  <2>2. u[i - m + 1] = s[i]
    BY <1>4, <2>1
  <2>. QED
    BY <1>5, <2>1, <2>2
<1>. QED
  BY <1>3, <1>4, <1>6, <1>7

LEMMA RangeOfRemoveAt ==
  ASSUME NEW S, NEW s \in Seq(S), NEW k \in 1 .. Len(s)
  PROVE  RemoveAt(s, k) \in Seq(S) /\ Range(s) = Range(RemoveAt(s, k)) \union {s[k]}
<1>1. Len(s) \in Nat /\ \A x : x \in Range(s) <=> \E i \in 1 .. Len(s) : x = s[i]
  BY RangeOf
<1>2. PICK u, v : u = SubSeq(s, 1, k - 1) /\ v = SubSeq(s, k + 1, Len(s))
  OBVIOUS
<1>3. /\ 1 \in 1 .. Len(s) + 1 /\ k - 1 \in 0 .. Len(s)
      /\ k + 1 \in 1 .. Len(s) + 1 /\ Len(s) \in 0 .. Len(s)
  BY <1>1
<1>4. u \in Seq(S) /\ \A x : x \in Range(u) <=> \E i \in 1 .. k - 1 : x = s[i]
  BY <1>2, <1>3, PartOfSeq
<1>5. v \in Seq(S) /\ \A x : x \in Range(v) <=> \E i \in k + 1 .. Len(s) : x = s[i]
  <2>1. PICK m, n : m = k + 1 /\ n = Len(s)
    OBVIOUS
  <2>2. m \in 1 .. Len(s) + 1 /\ n \in 0 .. Len(s) /\ v = SubSeq(s, m, n)
    BY <1>2, <1>3, <2>1
  <2>3. v \in Seq(S) /\ \A x : x \in Range(v) <=> \E i \in m .. n : x = s[i]
    BY <2>2, PartOfSeq
  <2>. QED
    BY <2>1, <2>3
<1>6. u \o v \in Seq(S) /\ Range(u \o v) = Range(u) \union Range(v)
  BY <1>4, <1>5, RangeOfConcat
<1>7. ASSUME NEW x PROVE x \in Range(s) <=> x \in Range(u) \union Range(v) \union {s[k]}
  <2>1. 1 .. Len(s) = (1 .. k - 1) \union {k} \union (k + 1 .. Len(s))
    BY <1>1
  <2>. QED
    BY <1>1, <1>4, <1>5, <2>1
<1>8. RemoveAt(s, k) = u \o v
  BY <1>2 DEF RemoveAt
<1>. QED
  BY <1>6, <1>7, <1>8

-----------------------------------------------------------------------------
(* Bandwidths *)

LEMMA LowerOfTwo ==
  ASSUME NEW a \in Int, NEW b \in Int
  PROVE  Min({a, b}) = IF a <= b THEN a ELSE b
<1>1. PICK m : m = IF a <= b THEN a ELSE b
  OBVIOUS
<1>2. m \in {a, b} /\ m \in Int /\ \A y \in {a, b} : m <= y
  BY <1>1
<1>3. Min({a, b}) \in {a, b} /\ \A y \in {a, b} : Min({a, b}) <= y
  BY <1>2 DEF Min
<1>4. Min({a, b}) = m
  BY <1>2, <1>3
<1>. QED
  BY <1>1, <1>4

LEMMA ThresholdType == \A h : Threshold(h) \in 0 .. 2
  BY DEF Threshold

LEMMA PairThresholdIs ==
  \A p : /\ PairThreshold(p) \in 0 .. 2
         /\ PairThreshold(p) = IF Threshold(p[1]) <= Threshold(p[2]) THEN Threshold(p[1]) ELSE Threshold(p[2])
  BY ThresholdType, LowerOfTwo DEF PairThreshold

LEMMA BandwidthIs ==
  ASSUME NEW p \in Pair, speed \in [Hosts -> Failed .. 2]
  PROVE  /\ Bandwidth(p) \in Failed .. 2
         /\ Bandwidth(p) = IF speed[p[1]] <= speed[p[2]] THEN speed[p[1]] ELSE speed[p[2]]
         /\ Bandwidth(p) # Failed => Bandwidth(p) \in 0 .. 2
<1>1. speed[p[1]] \in -1 .. 2 /\ speed[p[2]] \in -1 .. 2
  BY DEF Pair, Failed
<1>. QED
  BY <1>1, LowerOfTwo DEF Bandwidth, Failed

LEMMA HostsOfPairs ==
  \A P, h : h \in HostsOf(P) <=> \E p \in P : h = p[1] \/ h = p[2]
  BY DEF HostsOf

LEMMA WhoIsAbove ==
  ASSUME NEW rs, NEW h
  PROVE  /\ h \in Above(rs) <=> \E r \in Range(rs) :
                (h = r.pair[1] \/ h = r.pair[2]) /\ r.bw >= Limit(r.pair)
         /\ h \in Below(rs) <=> \E r \in Range(rs) :
                (h = r.pair[1] \/ h = r.pair[2]) /\ r.bw < Limit(r.pair)
<1>1. ASSUME NEW x \in Range(rs), h = x.pair[1] \/ h = x.pair[2], x.bw >= Limit(x.pair)
      PROVE  h \in Above(rs)
  <2>1. x.pair \in {r.pair : r \in {x1 \in Range(rs) : x1.bw >= Limit(x1.pair)}}
    BY <1>1
  <2>. QED
    BY <1>1, <2>1, HostsOfPairs DEF Above
<1>2. ASSUME NEW x \in Range(rs), h = x.pair[1] \/ h = x.pair[2], x.bw < Limit(x.pair)
      PROVE  h \in Below(rs)
  <2>1. x.pair \in {r.pair : r \in {x1 \in Range(rs) : x1.bw < Limit(x1.pair)}}
    BY <1>2
  <2>. QED
    BY <1>2, <2>1, HostsOfPairs DEF Below
<1>3. h \in Above(rs) => \E r \in Range(rs) :
                (h = r.pair[1] \/ h = r.pair[2]) /\ r.bw >= Limit(r.pair)
  BY HostsOfPairs DEF Above
<1>4. h \in Below(rs) => \E r \in Range(rs) :
                (h = r.pair[1] \/ h = r.pair[2]) /\ r.bw < Limit(r.pair)
  BY HostsOfPairs DEF Below
<1>. QED
  BY <1>1, <1>2, <1>3, <1>4

-----------------------------------------------------------------------------
(* The order of the nodes, and their pairs *)

LEMMA OrderIsSeq ==
  ASSUME NEW S \in SUBSET Hosts, NEW f \in Orders(S)
  PROVE  /\ f \in Seq(S) /\ f \in Seq(Hosts) /\ Len(f) = Cardinality(S) /\ Range(f) \subseteq S
         /\ \A i, j \in 1 .. Len(f) : i # j => f[i] # f[j]
<1>1. Cardinality(S) \in Nat
  BY HostsAssumption, FS_Subset, FS_CardinalityType
<1>2. f \in [1 .. Cardinality(S) -> S] /\ \A i, j \in DOMAIN f : i # j => f[i] # f[j]
  BY DEF Orders
<1>3. f \in Seq(S) /\ Len(f) = Cardinality(S)
  BY <1>1, <1>2
<1>4. f \in Seq(Hosts)
  BY <1>3, SeqMonotonic
<1>5. Range(f) \subseteq S
  BY <1>3, RangeOf
<1>. QED
  BY <1>2, <1>3, <1>4, <1>5

LEMMA TwoOfThem ==
  ASSUME NEW S \in SUBSET Hosts, NEW a \in S, NEW b \in S, a # b
  PROVE  Cardinality(S) >= 2
<1>1. IsFiniteSet(S) /\ IsFiniteSet(S \ {a}) /\ IsFiniteSet((S \ {a}) \ {b})
  BY HostsAssumption, FS_Subset, FS_RemoveElement
<1>2. /\ Cardinality(S \ {a}) = Cardinality(S) - 1
      /\ Cardinality((S \ {a}) \ {b}) = Cardinality(S \ {a}) - 1
  BY <1>1, FS_RemoveElement
<1>3. Cardinality(S) \in Nat /\ Cardinality((S \ {a}) \ {b}) \in Nat /\ Cardinality(S \ {a}) \in Nat
  BY <1>1, FS_CardinalityType
<1>. QED
  BY <1>2, <1>3

LEMMA ZippedPairs ==
  ASSUME NEW order \in Seq(Hosts), NEW n, n = Len(order), NEW z, z = Zipped(order)
  PROVE  /\ z \in Seq(Pair) /\ Len(z) = n \div 2 /\ n \in Nat
         /\ \A i \in 1 .. n \div 2 : /\ z[i] = <<order[2 * i - 1], order[2 * i]>>
                                     /\ 2 * i - 1 \in 1 .. n /\ 2 * i \in 1 .. n
<1>1. n \in Nat /\ n \div 2 \in Nat /\ \A i \in 1 .. n : order[i] \in Hosts
  BY LenProperties, ElementOfSeq
<1>2. \A i \in 1 .. n \div 2 : 2 * i - 1 \in 1 .. n /\ 2 * i \in 1 .. n
  BY <1>1
<1>3. z = [i \in 1 .. n \div 2 |-> <<order[2 * i - 1], order[2 * i]>>]
  BY DEF Zipped
<1>4. \A i \in 1 .. n \div 2 : z[i] = <<order[2 * i - 1], order[2 * i]>> /\ z[i] \in Pair
  BY <1>1, <1>2, <1>3 DEF Pair
<1>5. z \in [1 .. n \div 2 -> Pair]
  BY <1>3, <1>4
<1>6. z \in Seq(Pair) /\ Len(z) = n \div 2
  BY <1>1, <1>5
<1>. QED
  BY <1>1, <1>2, <1>4, <1>6

(* The fold keeps the pairs of known shapes, and no others. *)
(* One pair after the other is kept if it is of known shapes. *)
KeepsKnown(z, n, ps) ==
    \E v : /\ n \in Nat
          /\ v \in [0 .. n -> Seq(Pair)] /\ v[0] = <<>> /\ v[n] = ps
          /\ \A i \in 1 .. n : v[i] = IF Known(z[i]) THEN Append(v[i - 1], z[i]) ELSE v[i - 1]

LEMMA KnownPairsFold ==
  ASSUME NEW order \in Seq(Hosts), NEW z, z = Zipped(order), NEW n, n = Len(z)
  PROVE  KeepsKnown(z, n, KnownPairs(order))
<1>. DEFINE Next1(i, ps) == IF Known(z[i]) THEN Append(ps, z[i]) ELSE ps
            IsFolded(k) ==
              k = [s \in SUBSET (DOMAIN z) |->
                     IF s = {} THEN <<>> ELSE Next1(Max(s), k[s \ {Max(s)}])]
<1>1. n \in Nat /\ z \in Seq(Pair) /\ DOMAIN z = 1 .. n /\ \A i \in 1 .. n : z[i] \in Pair
  BY ZippedPairs, LenProperties, ElementOfSeq
<1>2. PICK V : V = Seq(Pair)
  OBVIOUS
<1>3. PICK h : h = [q \in (1 .. n) \X V |-> Next1(q[1], q[2])]
  OBVIOUS
<1>4. \A i \in 1 .. n, ps \in V : Next1(i, ps) \in V
  BY <1>1, <1>2, AppendProperties
<1>5. h \in [(1 .. n) \X V -> V] /\ <<>> \in V
  BY <1>2, <1>3, <1>4
<1>6. PICK c : c = [s \in SUBSET (1 .. n) |-> Max(s)]
  OBVIOUS
<1>7. \A s \in SUBSET (1 .. n) : s # {} => Max(s) \in s /\ c[s] = Max(s) /\ Max(s) \in 1 .. n
  BY <1>1, <1>6, LargestIndex
<1>8. IsFiniteSet(1 .. n) /\ Takes(c, 1 .. n)
  <2>1. IsFiniteSet(1 .. n)
    BY <1>1, FS_Interval
  <2>. QED
    BY <1>7, <2>1 DEF Takes
<1>9. PICK g : IsFold(g, 1 .. n, V, <<>>, c, h)
  BY <1>5, <1>8, FoldExists
<1>10. ASSUME NEW s \in SUBSET (1 .. n), s # {}, NEW k, k[s \ {Max(s)}] \in V
       PROVE  h[<<c[s], k[s \ {c[s]}]>>] = Next1(Max(s), k[s \ {Max(s)}])
  <2>1. <<Max(s), k[s \ {Max(s)}]>> \in (1 .. n) \X V
    BY <1>7, <1>10
  <2>. QED
    BY <1>3, <1>7, <1>10, <2>1
<1>. HIDE DEF Next1
<1>11. IsFolded(g)
  <2>1. ASSUME NEW s \in SUBSET (1 .. n)
        PROVE  g[s] = IF s = {} THEN <<>> ELSE Next1(Max(s), g[s \ {Max(s)}])
    <3>1. CASE s = {}
      BY <1>9, <3>1 DEF IsFold
    <3>2. CASE s # {}
      <4>1. g[s \ {Max(s)}] \in V
        BY <1>7, <1>9, <3>2 DEF IsFold
      <4>2. g[s] = h[<<c[s], g[s \ {c[s]}]>>]
        BY <1>9, <3>2 DEF IsFold
      <4>. QED
        BY <1>10, <3>2, <4>1, <4>2
    <3>. QED
      BY <3>1, <3>2
  <2>2. g = [s \in SUBSET (1 .. n) |-> g[s]]
    BY <1>9 DEF IsFold
  <2>. QED
    BY <1>1, <2>1, <2>2, Zenon
<1>12. PICK k : k = CHOOSE x : IsFolded(x)
  OBVIOUS
<1>13. IsFolded(k)
  BY <1>11, <1>12
<1>14. KnownPairs(order) = k[DOMAIN z]
  BY <1>12 DEF KnownPairs, FoldLeft, MapThenFoldSet, Next1
<1>15. Obeys(k, 1 .. n, V, <<>>, c, h)
  <2>1. k[{}] = <<>>
    BY <1>13
  <2>2. ASSUME NEW s \in SUBSET (1 .. n), s # {}, k[s \ {c[s]}] \in V
        PROVE  k[s] = h[<<c[s], k[s \ {c[s]}]>>]
    <3>1. k[s] = Next1(Max(s), k[s \ {Max(s)}])
      BY <1>1, <1>13, <2>2
    <3>2. k[s \ {Max(s)}] \in V
      BY <1>7, <2>2
    <3>. QED
      BY <1>10, <2>2, <3>1, <3>2
  <2>. QED
    BY <2>1, <2>2 DEF Obeys
<1>16. PICK v : InOrder(v, n, V, <<>>, h) /\ (\A x : Obeys(x, 1 .. n, V, <<>>, c, h) => x[1 .. n] = v[n])
  <2>1. PICK e : e = <<>>
    OBVIOUS
  <2>2. n \in Nat /\ e \in V /\ h \in [(1 .. n) \X V -> V]
      /\ TakesLast(c, n)
    BY <1>1, <1>5, <1>7, <2>1 DEF TakesLast
  <2>3. HasSeries(n, V, e, h, c)
    BY ONLY <2>2, FoldInOrder
  <2>. QED
    BY <2>1, <2>3, Zenon DEF HasSeries
<1>17. v[n] = KnownPairs(order)
  BY <1>1, <1>14, <1>15, <1>16
<1>18. ASSUME NEW i \in 1 .. n PROVE v[i] = Next1(i, v[i - 1])
  <2>1. v[i] = h[<<i, v[i - 1]>>] /\ v[i - 1] \in V
    BY <1>1, <1>16 DEF InOrder
  <2>2. <<i, v[i - 1]>> \in (1 .. n) \X V
    BY <2>1
  <2>. QED
    BY <1>3, <2>1, <2>2
<1>19. v \in [0 .. n -> Seq(Pair)] /\ v[0] = <<>>
  BY <1>2, <1>16 DEF InOrder
<1>. QED
  <2>1. \A i \in 1 .. n : v[i] = IF Known(z[i]) THEN Append(v[i - 1], z[i]) ELSE v[i - 1]
    BY <1>18 DEF Next1
  <2>. QED
    BY <1>1, <1>17, <1>19, <2>1 DEF KeepsKnown

LEMMA KnownPairsAre ==
  ASSUME NEW order \in Seq(Hosts), NEW z, z = Zipped(order), NEW ps, ps = KnownPairs(order)
  PROVE  ps \in Seq(Pair) /\ Range(ps) = {p \in Range(z) : Known(p)}
<1>1. PICK n : n = Len(z)
  OBVIOUS
<1>2. PICK v : /\ n \in Nat
               /\ v \in [0 .. n -> Seq(Pair)] /\ v[0] = <<>> /\ v[n] = ps
               /\ \A i \in 1 .. n : v[i] = IF Known(z[i]) THEN Append(v[i - 1], z[i]) ELSE v[i - 1]
  <2>1. KeepsKnown(z, n, ps)
    BY <1>1, KnownPairsFold
  <2>. QED
    BY <2>1 DEF KeepsKnown
<1>3. z \in Seq(Pair) /\ \A i \in 1 .. n : z[i] \in Pair
  BY <1>1, ZippedPairs, ElementOfSeq
<1>. DEFINE Upto(i) == {p \in Pair : \E j \in 1 .. i : p = z[j] /\ Known(p)}
            T == {i \in 0 .. n : Range(v[i]) # Upto(i)}
<1>4. T = {}
  <2>1. SUFFICES ASSUME T # {} PROVE FALSE
    OBVIOUS
  <2>2. T \subseteq Nat
    BY <1>2
  <2>3. PICK m \in T : \A k \in T : m <= k
    <3>. HIDE DEF T
    <3>. QED
      BY <2>1, <2>2, SmallestNumber
  <2>4. m \in 0 .. n /\ Range(v[m]) # Upto(m)
    OBVIOUS
  <2>5. CASE m = 0
    <3>1. Range(v[0]) = {}
      BY <1>2 DEF Range
    <3>2. Upto(0) = {}
      BY Z3
    <3>. QED
      BY <2>4, <2>5, <3>1, <3>2
  <2>6. CASE m # 0
    <3>1. PICK k : k = m - 1
      OBVIOUS
    <3>2. k \in 0 .. n /\ m \in 1 .. n /\ k \notin T
      BY <1>2, <2>3, <2>4, <2>6, <3>1
    <3>3. Range(v[k]) = Upto(k) /\ v[k] \in Seq(Pair)
      BY <1>2, <3>2
    <3>4. Upto(m) = IF Known(z[m]) THEN Upto(k) \union {z[m]} ELSE Upto(k)
      <4>1. 1 .. m = (1 .. k) \union {m}
        BY <3>1, <3>2
      <4>. QED
        BY <1>3, <3>2, <4>1
    <3>5. Range(v[m]) = IF Known(z[m]) THEN Range(v[k]) \union {z[m]} ELSE Range(v[k])
      <4>1. v[m] = IF Known(z[m]) THEN Append(v[k], z[m]) ELSE v[k]
        BY <1>2, <3>1, <3>2
      <4>2. Range(Append(v[k], z[m])) = Range(v[k]) \union {z[m]}
        BY <1>3, <3>2, <3>3, RangeOfAppend
      <4>. QED
        BY <4>1, <4>2
    <3>. QED
      BY <2>4, <3>3, <3>4, <3>5
  <2>. QED
    BY <2>5, <2>6
<1>5. Range(ps) = Upto(n) /\ ps \in Seq(Pair)
  <2>1. n \in 0 .. n /\ v[n] = ps /\ v[n] \in Seq(Pair)
    BY <1>2
  <2>. HIDE DEF Upto
  <2>. QED
    BY <1>4, <2>1
<1>6. \A x : x \in Range(z) <=> \E i \in 1 .. n : x = z[i]
  BY <1>1, <1>3, RangeOf
<1>7. Upto(n) = {p \in Range(z) : Known(p)}
  BY <1>3, <1>6
<1>. QED
  BY <1>5, <1>7

-----------------------------------------------------------------------------
(* Types and places *)

Reached == Range(reachable)
Tested == {r.pair : r \in Range(results)}
Early == {"test", "classify"}
Late == {"retest_timeout", "retest_low", "done"}

(* The nodes that are tested have answered, a result is what its pair can  *)
(* do, and there are two good nodes, if any, to retest with in turn.       *)
Places ==
    /\ HostsOf(Range(todo) \union Tested \union failed) \subseteq Reached
    /\ timeouts \union good \union bad \union again \union Range(cycle) \subseteq Reached
Measures == \A r \in Range(results) : r.bw = Bandwidth(r.pair)
Speeds == \A h \in Hosts : speed[h] <= (IF shape[h] = "A100" THEN 1 ELSE 2)
Couples ==
    /\ pc \in Early => \A p \in Range(todo) \union Tested : p[1] # p[2]
    /\ pc \in Late /\ good # {} => \E a, b \in good : a # b
    /\ pc \in Late /\ again # {} => good # {} /\ Len(cycle) >= 2 /\ Range(cycle) \subseteq good
Fresh ==
    pc = "reach" =>
      /\ todo = <<>> /\ results = <<>> /\ cycle = <<>>
      /\ timeouts = {} /\ good = {} /\ bad = {} /\ again = {} /\ failed = {}
Base == TypeOK /\ Places /\ Measures /\ Speeds /\ Couples /\ Fresh

LEMMA BaseFacts ==
  ASSUME TypeOK
  PROVE  /\ DOMAIN todo = 1 .. Len(todo) /\ DOMAIN results = 1 .. Len(results)
         /\ Len(todo) \in Nat /\ Len(results) \in Nat
         /\ Range(results) \subseteq Result /\ Tested \subseteq Pair
         /\ Range(todo) \subseteq Pair /\ Reached \subseteq Hosts
         /\ \A i \in 1 .. Len(todo) : todo[i] \in Pair
         /\ mode \in {"serial", "parallel"}
<1>1. todo \in Seq(Pair) /\ results \in Seq(Result) /\ reachable \in Seq(Hosts)
  BY DEF TypeOK
<1>2. /\ DOMAIN todo = 1 .. Len(todo) /\ Len(todo) \in Nat /\ Range(todo) \subseteq Pair
      /\ DOMAIN results = 1 .. Len(results) /\ Len(results) \in Nat /\ Range(results) \subseteq Result
  BY <1>1, RangeOf
<1>3. Reached \subseteq Hosts
  BY <1>1, RangeOf DEF Reached
<1>4. \A i \in 1 .. Len(todo) : todo[i] \in Pair
  BY <1>1, ElementOfSeq
<1>5. Tested \subseteq Pair
  BY <1>2 DEF Tested, Result
<1>6. mode \in {"serial", "parallel"}
  BY ScoutBounds DEF TypeOK
<1>. QED
  BY <1>2, <1>3, <1>4, <1>5, <1>6

LEMMA RangeOfNone == \A s : s = <<>> => Range(s) = {}
  BY DEF Range

LEMMA BaseStart == Init => Base
<1>. SUFFICES ASSUME Init PROVE Base
  OBVIOUS
<1>1. /\ reachable = <<>> /\ todo = <<>> /\ results = <<>> /\ cycle = <<>> /\ pc = "reach"
      /\ thresholds = {} /\ threshold = 0 /\ timeouts = {} /\ good = {} /\ bad = {} /\ again = {}
      /\ failed = {} /\ cleared = {} /\ accused = {}
      /\ mode \in Modes /\ shape \in Fleets /\ speed \in [Hosts -> Failed .. 2]
  BY DEF Init
<1>2. TypeOK
  BY <1>1 DEF TypeOK, PCs
<1>3. Range(todo) = {} /\ Range(results) = {} /\ Range(cycle) = {} /\ Tested = {}
  BY <1>1, RangeOfNone DEF Tested
<1>4. Places
  BY <1>1, <1>3, HostsOfPairs DEF Places
<1>5. Speeds
  BY DEF Init, Speeds
<1>. QED
  BY <1>1, <1>2, <1>3, <1>4, <1>5 DEF Base, Measures, Couples, Fresh, Early, Late

(* The state that the steps leave alone. *)
LEMMA SameNodes ==
  ASSUME nodes' = nodes
  PROVE  /\ mode' = mode /\ shape' = shape /\ speed' = speed /\ reachable' = reachable
         /\ Reached' = Reached /\ (Speeds => Speeds')
         /\ \A p : Bandwidth(p)' = Bandwidth(p)
  BY DEF nodes, Reached, Speeds, Bandwidth

LEMMA SameResults ==
  ASSUME nodes' = nodes, results' = results
  PROVE  Tested' = Tested /\ (Measures => Measures')
  BY DEF nodes, Tested, Measures, Bandwidth

(* What the hosts of a pair that is to be tested are. *)
LEMMA PairToTest ==
  ASSUME Base, NEW i \in DOMAIN todo
  PROVE  /\ todo[i] \in Pair /\ todo[i] \in Range(todo)
         /\ todo[i][1] \in Reached /\ todo[i][2] \in Reached
         /\ RemoveAt(todo, i) \in Seq(Pair)
         /\ Range(todo) = Range(RemoveAt(todo, i)) \union {todo[i]}
<1>1. todo \in Seq(Pair) /\ i \in 1 .. Len(todo)
  BY BaseFacts DEF Base, TypeOK
<1>2. todo[i] \in Pair /\ todo[i] \in Range(todo)
  BY <1>1, ElementOfSeq, RangeOf
<1>3. todo[i][1] \in Reached /\ todo[i][2] \in Reached
  BY <1>2, HostsOfPairs DEF Base, Places
<1>. QED
  BY <1>1, <1>2, <1>3, RangeOfRemoveAt

(* The pairs that are tested first, that of an odd node included. *)
AllPairs(order) ==
    IF Len(order) % 2 = 0 THEN KnownPairs(order)
    ELSE Append(KnownPairs(order), <<order[1], Last(order)>>)

LEMMA ReachPairs ==
  ASSUME NEW S \in SUBSET Hosts, NEW order \in Orders(S), Len(order) >= 2,
         NEW q, q = AllPairs(order)
  PROVE  /\ order \in Seq(Hosts) /\ KnownPairs(order) \in Seq(Pair) /\ q \in Seq(Pair)
         /\ Range(KnownPairs(order)) \subseteq Pair /\ HostsOf(Range(q)) \subseteq Range(order)
         /\ \A p \in Range(q) : p[1] # p[2]
         /\ \A p \in Range(KnownPairs(order)) : Known(p)
         /\ (\A h \in Range(order) : shape[h] # "unknown")
              => Range(order) \subseteq HostsOf(Range(q))
         /\ Len(order) % 2 = 0 => Range(q) = Range(KnownPairs(order))
<1>1. /\ order \in Seq(Hosts) /\ \A i, j \in 1 .. Len(order) : i # j => order[i] # order[j]
  BY OrderIsSeq
<1>2. PICK n, z, ps, l : /\ n = Len(order) /\ z = Zipped(order) /\ ps = KnownPairs(order)
                         /\ l = <<order[1], Last(order)>>
  OBVIOUS
<1>3. /\ n \in Nat /\ n >= 2 /\ z \in Seq(Pair) /\ Len(z) = n \div 2
      /\ \A i \in 1 .. n \div 2 : /\ z[i] = <<order[2 * i - 1], order[2 * i]>>
                                  /\ 2 * i - 1 \in 1 .. n /\ 2 * i \in 1 .. n
  BY <1>1, <1>2, ZippedPairs
<1>4. ps \in Seq(Pair) /\ Range(ps) = {p \in Range(z) : Known(p)} /\ Range(ps) \subseteq Pair
  BY <1>1, <1>2, KnownPairsAre, RangeOf
<1>5. \A x : x \in Range(z) <=> \E i \in 1 .. n \div 2 : x = z[i]
  <2>1. \A x : x \in Range(z) <=> \E i \in 1 .. Len(z) : x = z[i]
    BY <1>3, RangeOf
  <2>. QED
    BY <1>3, <2>1, Zenon
<1>6. \A h : h \in Range(order) <=> \E i \in 1 .. n : h = order[i]
  BY <1>1, <1>2, RangeOf
<1>7. \A p \in Range(z) : p[1] \in Range(order) /\ p[2] \in Range(order) /\ p[1] # p[2]
  <2>1. ASSUME NEW i \in 1 .. n \div 2
        PROVE  z[i][1] \in Range(order) /\ z[i][2] \in Range(order) /\ z[i][1] # z[i][2]
    <3>1. 2 * i - 1 # 2 * i
      OBVIOUS
    <3>2. order[2 * i - 1] # order[2 * i]
      BY <1>1, <1>2, <1>3, <3>1
    <3>. QED
      BY <1>3, <1>6, <3>2
  <2>. QED
    BY <1>5, <2>1
<1>8. /\ l \in Pair /\ l[1] = order[1] /\ l[2] = order[n] /\ l[1] \in Range(order) /\ l[2] \in Range(order)
      /\ l[1] # l[2]
  <2>1. 1 \in 1 .. n /\ n \in 1 .. n /\ 1 # n
    BY <1>3
  <2>2. l = <<order[1], order[n]>>
    BY <1>2 DEF Last
  <2>3. order[1] \in Hosts /\ order[n] \in Hosts
    BY <1>1, <1>2, <2>1, ElementOfSeq
  <2>. QED
    BY <1>1, <1>2, <1>6, <2>1, <2>2, <2>3 DEF Pair
<1>9. /\ q \in Seq(Pair)
      /\ Range(q) = IF n % 2 = 0 THEN Range(ps) ELSE Range(ps) \union {l}
  <2>1. q = IF n % 2 = 0 THEN ps ELSE Append(ps, l)
    BY <1>2 DEF AllPairs
  <2>2. Append(ps, l) \in Seq(Pair) /\ Range(Append(ps, l)) = Range(ps) \union {l}
    BY <1>4, <1>8, RangeOfAppend
  <2>. QED
    BY <1>4, <2>1, <2>2
<1>10. HostsOf(Range(q)) \subseteq Range(order) /\ \A p \in Range(q) : p[1] # p[2]
  <2>1. ASSUME NEW p \in Range(q)
        PROVE  p[1] \in Range(order) /\ p[2] \in Range(order) /\ p[1] # p[2]
    <3>1. p \in Range(z) \/ p = l
      BY <1>4, <1>9
    <3>. QED
      BY <1>7, <1>8, <3>1
  <2>. QED
    BY <2>1, HostsOfPairs
<1>11. ASSUME \A h \in Range(order) : shape[h] # "unknown"
       PROVE  Range(order) \subseteq HostsOf(Range(q))
  <2>1. Range(z) \subseteq Range(q)
    BY <1>4, <1>7, <1>9, <1>11 DEF Known
  <2>2. ASSUME NEW k \in 1 .. n PROVE order[k] \in HostsOf(Range(q))
    <3>1. PICK i : i = (k + 1) \div 2
      OBVIOUS
    <3>2. CASE i \in 1 .. n \div 2
      <4>1. k = 2 * i - 1 \/ k = 2 * i
        BY <1>3, <3>1
      <4>2. z[i] \in Range(q) /\ z[i][1] = order[2 * i - 1] /\ z[i][2] = order[2 * i]
        <5>1. z[i] \in Range(q)
          BY <1>5, <2>1, <3>2
        <5>2. z[i] = <<order[2 * i - 1], order[2 * i]>>
          BY <1>3, <3>2
        <5>. QED
          BY <5>1, <5>2
      <4>. QED
        BY <4>1, <4>2, HostsOfPairs
    <3>3. CASE i \notin 1 .. n \div 2
      <4>1. n % 2 # 0 /\ k = n
        BY <1>3, <3>1, <3>3
      <4>. QED
        BY <1>8, <1>9, <4>1, HostsOfPairs
    <3>. QED
      BY <3>2, <3>3
  <2>. QED
    BY <1>6, <2>2
<1>. QED
  BY <1>1, <1>2, <1>4, <1>9, <1>10, <1>11

LEMMA ReachOrder ==
  ASSUME Reach
  PROVE  \E S \in SUBSET Hosts : \E order \in Orders(S) :
         /\ reachable' = order
         /\ IF Len(order) < 2 THEN pc' = "stopped" /\ todo' = todo /\ thresholds' = thresholds
            ELSE /\ pc' = "test"
                 /\ todo' = AllPairs(order)
                 /\ thresholds' = IF mode = "parallel" THEN Range(KnownPairs(order)) ELSE {}
  BY Zenon DEF Reach, AllPairs

LEMMA ReachKeepsBase ==
  ASSUME Base, Reach
  PROVE  Base'
<1>1. PICK S \in SUBSET Hosts : \E order \in Orders(S) :
         /\ reachable' = order
         /\ IF Len(order) < 2 THEN pc' = "stopped" /\ todo' = todo /\ thresholds' = thresholds
            ELSE /\ pc' = "test"
                 /\ todo' = AllPairs(order)
                 /\ thresholds' = IF mode = "parallel" THEN Range(KnownPairs(order)) ELSE {}
  BY ReachOrder
<1>2. PICK order \in Orders(S) :
         /\ reachable' = order
         /\ IF Len(order) < 2 THEN pc' = "stopped" /\ todo' = todo /\ thresholds' = thresholds
            ELSE /\ pc' = "test"
                 /\ todo' = AllPairs(order)
                 /\ thresholds' = IF mode = "parallel" THEN Range(KnownPairs(order)) ELSE {}
  BY <1>1
<1>3. /\ mode' = mode /\ shape' = shape /\ speed' = speed /\ results' = results
      /\ threshold' = threshold /\ timeouts' = timeouts /\ good' = good /\ bad' = bad
      /\ cycle' = cycle /\ again' = again /\ failed' = failed
      /\ cleared' = cleared /\ accused' = accused /\ pc = "reach"
  BY DEF Reach, report
<1>4. order \in Seq(Hosts) /\ Reached' = Range(order) /\ Len(order) \in Nat
  BY <1>2, OrderIsSeq, LenProperties DEF Reached
<1>5. /\ todo = <<>> /\ results = <<>> /\ cycle = <<>> /\ failed = {}
      /\ timeouts = {} /\ good = {} /\ bad = {} /\ again = {}
  BY <1>3 DEF Base, Fresh
<1>6. pc' \in {"stopped", "test"} /\ (pc' = "stopped" => Range(todo') = {})
  BY <1>2, <1>5, RangeOfNone
<1>7. /\ todo' \in Seq(Pair) /\ thresholds' \subseteq Pair
      /\ HostsOf(Range(todo')) \subseteq Range(order) /\ \A p \in Range(todo') : p[1] # p[2]
  <2>1. CASE Len(order) < 2
    BY <1>2, <1>5, <1>6, <2>1, HostsOfPairs DEF Base, TypeOK
  <2>2. CASE ~(Len(order) < 2)
    <3>1. PICK q : q = AllPairs(order)
      OBVIOUS
    <3>2. /\ q \in Seq(Pair) /\ Range(KnownPairs(order)) \subseteq Pair
          /\ HostsOf(Range(q)) \subseteq Range(order) /\ \A p \in Range(q) : p[1] # p[2]
      <4>1. Len(order) >= 2
        BY <1>4, <2>2
      <4>. QED
        BY <3>1, <4>1, ReachPairs
    <3>3. todo' = q /\ (thresholds' = Range(KnownPairs(order)) \/ thresholds' = {})
      BY <1>2, <2>2, <3>1
    <3>. QED
      BY <3>2, <3>3
  <2>. QED
    BY <2>1, <2>2
<1>8. TypeOK'
  BY <1>2, <1>3, <1>4, <1>6, <1>7 DEF Base, TypeOK, PCs
<1>9. Tested' = {}
  BY <1>3, <1>5, RangeOfNone DEF Tested
<1>10. Places'
  <2>1. Range(cycle') = {} /\ failed' = {}
    BY <1>3, <1>5, RangeOfNone
  <2>. QED
    BY <1>3, <1>4, <1>5, <1>7, <1>9, <2>1 DEF Places
<1>11. Measures' /\ Speeds'
  BY <1>3, <1>5, RangeOfNone DEF Base, Measures, Speeds
<1>12. Couples' /\ Fresh'
  BY <1>6, <1>7, <1>9 DEF Couples, Fresh, Late
<1>. QED
  BY <1>8, <1>10, <1>11, <1>12 DEF Base

LEMMA TestKeepsBase ==
  ASSUME Base, NEW i \in DOMAIN todo, Test(i)
  PROVE  Base'
<1>1. PICK p : p = todo[i]
  OBVIOUS
<1>2. /\ pc = "test" /\ todo' = RemoveAt(todo, i)
      /\ nodes' = nodes /\ thresholds' = thresholds /\ threshold' = threshold /\ good' = good
      /\ bad' = bad /\ cycle' = cycle /\ again' = again /\ cleared' = cleared /\ accused' = accused
      /\ pc' = pc
      /\ IF Bandwidth(p) = Failed
         THEN /\ timeouts' = timeouts \union TimedOut(p) /\ failed' = failed \union {p}
              /\ results' = results
         ELSE /\ results' = Append(results, [pair |-> p, bw |-> Bandwidth(p)])
              /\ timeouts' = timeouts /\ failed' = failed
  BY <1>1 DEF Test, report
<1>3. /\ p \in Pair /\ p[1] \in Reached /\ p[2] \in Reached /\ p \in Range(todo)
      /\ todo' \in Seq(Pair) /\ Range(todo) = Range(todo') \union {p}
  BY <1>1, <1>2, PairToTest
<1>4. /\ mode' = mode /\ shape' = shape /\ speed' = speed /\ reachable' = reachable
      /\ Reached' = Reached /\ Speeds' /\ \A q : Bandwidth(q)' = Bandwidth(q)
  BY <1>2, SameNodes DEF Base
<1>5. /\ results' \in Seq(Result)
      /\ \/ Bandwidth(p) = Failed /\ Range(results') = Range(results) /\ Tested' = Tested
         \/ /\ Range(results') = Range(results) \union {[pair |-> p, bw |-> Bandwidth(p)]}
            /\ Tested' = Tested \union {p}
  <2>1. CASE Bandwidth(p) = Failed
    BY <1>2, <2>1 DEF Base, TypeOK, Tested
  <2>2. CASE Bandwidth(p) # Failed
    <3>1. PICK r : r = [pair |-> p, bw |-> Bandwidth(p)]
      OBVIOUS
    <3>2. r \in Result /\ r.pair = p
      BY <1>3, <2>2, <3>1, BandwidthIs DEF Base, TypeOK, Result
    <3>3. results' \in Seq(Result) /\ Range(results') = Range(results) \union {r}
      <4>1. results \in Seq(Result) /\ results' = Append(results, r)
        BY <1>2, <2>2, <3>1 DEF Base, TypeOK
      <4>. QED
        BY <3>2, <4>1, RangeOfAppend
    <3>4. Tested' = Tested \union {p}
      BY <3>2, <3>3 DEF Tested
    <3>. QED
      BY <3>1, <3>3, <3>4
  <2>. QED
    BY <2>1, <2>2
<1>6. TimedOut(p) \subseteq Reached /\ Reached \subseteq Hosts
  BY <1>3, BaseFacts DEF TimedOut, Base
<1>7. TypeOK'
  <2>1. UNION {timeouts', good', bad', again', cleared', accused'} \subseteq Hosts
    BY <1>2, <1>6 DEF Base, TypeOK
  <2>2. failed' \subseteq Pair
    BY <1>2, <1>3 DEF Base, TypeOK
  <2>. QED
    BY <1>2, <1>3, <1>4, <1>5, <2>1, <2>2 DEF Base, TypeOK
<1>8. Range(todo') \union Tested' \union failed' \subseteq Range(todo) \union Tested \union failed \union {p}
  BY <1>2, <1>3, <1>5
<1>9. Places'
  <2>1. HostsOf(Range(todo') \union Tested' \union failed') \subseteq Reached
    BY <1>3, <1>8, HostsOfPairs DEF Base, Places
  <2>2. timeouts' \subseteq Reached
    BY <1>2, <1>6 DEF Base, Places
  <2>. QED
    BY <1>2, <1>4, <2>1, <2>2 DEF Base, Places
<1>10. Measures'
  BY <1>4, <1>5 DEF Base, Measures
<1>11. Couples' /\ Fresh'
  BY <1>2, <1>3, <1>5 DEF Base, Couples, Fresh, Early, Late
<1>. QED
  BY <1>4, <1>7, <1>9, <1>10, <1>11 DEF Base

LEMMA TestRaisesKeepsBase ==
  ASSUME Base, NEW i \in DOMAIN todo, TestRaises(i)
  PROVE  Base'
<1>1. /\ pc = "test" /\ todo' = RemoveAt(todo, i)
      /\ nodes' = nodes /\ thresholds' = thresholds /\ threshold' = threshold /\ good' = good
      /\ bad' = bad /\ cycle' = cycle /\ again' = again /\ cleared' = cleared /\ accused' = accused
      /\ results' = results /\ timeouts' = timeouts /\ failed' = failed
      /\ pc' \in {"test", "died"}
  BY DEF TestRaises, report
<1>2. /\ todo' \in Seq(Pair) /\ Range(todo') \subseteq Range(todo)
  BY <1>1, PairToTest
<1>3. /\ mode' = mode /\ shape' = shape /\ speed' = speed /\ reachable' = reachable
      /\ Reached' = Reached /\ Speeds' /\ Tested' = Tested /\ Measures'
  BY <1>1, SameNodes, SameResults DEF Base
<1>4. TypeOK'
  BY <1>1, <1>2, <1>3 DEF Base, TypeOK, PCs
<1>5. Places'
  <2>1. HostsOf(Range(todo') \union Tested \union failed) \subseteq Reached
    BY <1>2, HostsOfPairs DEF Base, Places
  <2>. QED
    BY <1>1, <1>3, <2>1 DEF Base, Places
<1>6. Couples' /\ Fresh'
  BY <1>1, <1>2, <1>3 DEF Base, Couples, Fresh, Early, Late
<1>. QED
  BY <1>3, <1>4, <1>5, <1>6 DEF Base

LEMMA LastPrintedType ==
  ASSUME TypeOK, results # <<>>
  PROVE  \E r \in Range(results) : LastPrinted = PairThreshold(r.pair)
<1>1. PICK n : n = Len(results)
  OBVIOUS
<1>2. /\ DOMAIN results = 1 .. n /\ n \in Nat /\ n # 0 /\ \A i \in 1 .. n : results[i] \in Result
  BY <1>1, BaseFacts, ElementOfSeq, EmptySeq DEF TypeOK
<1>3. PICK B : B = {r.bw : r \in Range(results)}
  OBVIOUS
<1>4. \A b : b \in B <=> \E i \in 1 .. n : b = results[i].bw
  BY <1>2, <1>3 DEF Range
<1>5. B \subseteq Nat /\ B # {}
  <2>1. \A i \in 1 .. n : results[i].bw \in Nat
    BY <1>2 DEF Result
  <2>2. 1 \in 1 .. n
    BY <1>2
  <2>. QED
    BY <1>4, <2>1, <2>2
<1>6. PICK w : w = Min(B)
  OBVIOUS
<1>7. w \in B
  <2>1. \E m \in B : \A k \in B : m <= k
    BY <1>5, SmallestNumber
  <2>. QED
    BY <1>6, <2>1 DEF Min
<1>8. PICK s : s = {i \in DOMAIN results : results[i].bw = w}
  OBVIOUS
<1>9. s \in SUBSET (1 .. n) /\ s # {}
  BY <1>2, <1>4, <1>7, <1>8
<1>10. Max(s) \in 1 .. n
  BY <1>2, <1>9, LargestIndex
<1>11. LastPrinted = PairThreshold(results[Max(s)].pair)
  BY <1>3, <1>6, <1>8 DEF LastPrinted
<1>12. results[Max(s)] \in Range(results)
  BY <1>2, <1>10 DEF Range
<1>. QED
  BY <1>11, <1>12

LEMMA PrintKeepsBase ==
  ASSUME Base, PrintResults
  PROVE  Base'
<1>1. /\ pc = "test" /\ pc' \in {"died", "classify"} /\ todo' = todo
      /\ nodes' = nodes /\ thresholds' = thresholds /\ good' = good
      /\ bad' = bad /\ cycle' = cycle /\ again' = again /\ cleared' = cleared /\ accused' = accused
      /\ results' = results /\ timeouts' = timeouts /\ failed' = failed
      /\ threshold' = threshold \/ (results # <<>> /\ threshold' = LastPrinted)
  BY DEF PrintResults, report
<1>2. threshold' \in 0 .. 2
  BY <1>1, LastPrintedType, PairThresholdIs DEF Base, TypeOK
<1>3. /\ mode' = mode /\ shape' = shape /\ speed' = speed /\ reachable' = reachable
      /\ Reached' = Reached /\ Speeds' /\ Tested' = Tested /\ Measures'
  BY <1>1, SameNodes, SameResults DEF Base
<1>4. TypeOK'
  BY <1>1, <1>2, <1>3 DEF Base, TypeOK, PCs
<1>5. Places'
  BY <1>1, <1>3 DEF Base, Places
<1>6. Couples' /\ Fresh'
  BY <1>1, <1>3 DEF Base, Couples, Fresh, Early, Late
<1>. QED
  BY <1>3, <1>4, <1>5, <1>6 DEF Base

(* What the results say of a node that is good or bad.                     *)
LEMMA GoodAndBad ==
  ASSUME Base
  PROVE  /\ Above(results) \subseteq HostsOf(Tested) /\ Below(results) \subseteq HostsOf(Tested)
         /\ HostsOf(Tested) = Above(results) \union Below(results)
         /\ HostsOf(Tested) \subseteq Reached /\ Reached \subseteq Hosts
<1>1. \A h : h \in HostsOf(Tested) <=> \E r \in Range(results) : h = r.pair[1] \/ h = r.pair[2]
  BY HostsOfPairs DEF Tested
<1>2. HostsOf(Tested) \subseteq Reached /\ Reached \subseteq Hosts
  BY HostsOfPairs, BaseFacts DEF Base, Places
<1>3. ASSUME NEW r \in Range(results)
      PROVE  r.bw >= Limit(r.pair) \/ r.bw < Limit(r.pair)
  <2>1. r.bw \in Int
    BY <1>3, BaseFacts DEF Base, Result
  <2>2. Limit(r.pair) \in Int
    BY PairThresholdIs DEF Base, TypeOK, Limit
  <2>. QED
    BY <2>1, <2>2
<1>. QED
  BY <1>1, <1>2, <1>3, WhoIsAbove

LEMMA PairOfGood ==
  ASSUME Base, pc \in Early, Above(results) # {}
  PROVE  \E a, b \in Above(results) : a # b
<1>1. PICK r \in Range(results) : r.bw >= Limit(r.pair)
  BY WhoIsAbove
<1>2. r.pair[1] \in Above(results) /\ r.pair[2] \in Above(results)
  BY <1>1, WhoIsAbove
<1>3. r.pair[1] # r.pair[2]
  BY DEF Base, Couples, Tested
<1>. QED
  BY <1>2, <1>3

(* An order of the good nodes to retest with. *)
LEMMA CycleOfGood ==
  ASSUME NEW G \in SUBSET Hosts, G # {} => \E a, b \in G : a # b, NEW A, NEW c \in Cycles(A, G)
  PROVE  /\ c \in Seq(Hosts) /\ Range(c) \subseteq G
         /\ A # {} /\ G # {} => Len(c) >= 2
<1>1. CASE A = {}
  BY <1>1, RangeOfNone DEF Cycles
<1>2. CASE A # {}
  <2>1. c \in Orders(G)
    BY <1>2 DEF Cycles
  <2>2. c \in Seq(Hosts) /\ Range(c) \subseteq G /\ Len(c) = Cardinality(G)
    BY <2>1, OrderIsSeq
  <2>3. G # {} => Cardinality(G) >= 2
    BY TwoOfThem
  <2>. QED
    BY <2>2, <2>3
<1>. QED
  BY <1>1, <1>2

LEMMA ClassifyKeepsBase ==
  ASSUME Base, Classify
  PROVE  Base'
<1>1. /\ pc = "classify" /\ pc' = "retest_timeout"
      /\ good' = Above(results) /\ bad' = Below(results)
      /\ again' = IF good' = {} THEN {} ELSE timeouts
      /\ cycle' \in Cycles(again', good')
      /\ nodes' = nodes /\ todo' = todo /\ results' = results /\ thresholds' = thresholds
      /\ threshold' = threshold /\ timeouts' = timeouts /\ failed' = failed
      /\ cleared' = cleared /\ accused' = accused
  BY DEF Classify, report
<1>2. /\ good' \subseteq Reached /\ bad' \subseteq Reached /\ Reached \subseteq Hosts
      /\ good' # {} => \E a, b \in good' : a # b
  BY <1>1, GoodAndBad, PairOfGood DEF Early
<1>3. /\ cycle' \in Seq(Hosts) /\ Range(cycle') \subseteq good'
      /\ again' # {} /\ good' # {} => Len(cycle') >= 2
  <2>1. PICK G, A : G = good' /\ A = again'
    OBVIOUS
  <2>2. G \in SUBSET Hosts /\ (G # {} => \E a, b \in G : a # b) /\ cycle' \in Cycles(A, G)
    BY <1>1, <1>2, <2>1
  <2>. QED
    BY <2>1, <2>2, CycleOfGood
<1>4. again' \subseteq timeouts /\ (again' # {} => good' # {})
  BY <1>1
<1>5. /\ mode' = mode /\ shape' = shape /\ speed' = speed /\ reachable' = reachable
      /\ Reached' = Reached /\ Speeds' /\ Tested' = Tested /\ Measures'
  BY <1>1, SameNodes, SameResults DEF Base
<1>6. TypeOK'
  <2>1. UNION {timeouts', good', bad', again', cleared', accused'} \subseteq Hosts
    BY <1>1, <1>2, <1>4 DEF Base, TypeOK
  <2>. QED
    BY <1>1, <1>3, <1>5, <2>1 DEF Base, TypeOK, PCs
<1>7. Places'
  BY <1>1, <1>2, <1>3, <1>4, <1>5 DEF Base, Places
<1>8. Couples' /\ Fresh'
  BY <1>1, <1>2, <1>3, <1>4 DEF Couples, Fresh, Early
<1>. QED
  BY <1>5, <1>6, <1>7, <1>8 DEF Base

LEMMA RetestLowKeepsBase ==
  ASSUME Base, RetestLow
  PROVE  Base'
<1>1. /\ pc = "retest_timeout" /\ again = {} /\ pc' = "retest_low"
      /\ good' = good /\ bad' = bad
      /\ again' = IF good = {} THEN {} ELSE IF mode = "parallel" THEN bad \ good ELSE bad
      /\ cycle' \in Cycles(again', good)
      /\ nodes' = nodes /\ todo' = todo /\ results' = results /\ thresholds' = thresholds
      /\ threshold' = threshold /\ timeouts' = timeouts /\ failed' = failed
      /\ cleared' = cleared /\ accused' = accused
  BY DEF RetestLow, report
<1>2. /\ good \subseteq Reached /\ bad \subseteq Reached /\ Reached \subseteq Hosts
      /\ good # {} => \E a, b \in good : a # b
  BY <1>1, GoodAndBad DEF Base, Places, Couples, Late
<1>3. /\ cycle' \in Seq(Hosts) /\ Range(cycle') \subseteq good
      /\ again' # {} /\ good # {} => Len(cycle') >= 2
  <2>1. PICK A : A = again'
    OBVIOUS
  <2>2. good \in SUBSET Hosts /\ cycle' \in Cycles(A, good)
    BY <1>1, <1>2, <2>1
  <2>. QED
    BY <1>2, <2>1, <2>2, CycleOfGood
<1>4. again' \subseteq bad /\ (again' # {} => good # {})
  BY <1>1
<1>5. /\ mode' = mode /\ shape' = shape /\ speed' = speed /\ reachable' = reachable
      /\ Reached' = Reached /\ Speeds' /\ Tested' = Tested /\ Measures'
  BY <1>1, SameNodes, SameResults DEF Base
<1>6. TypeOK'
  <2>1. UNION {timeouts', good', bad', again', cleared', accused'} \subseteq Hosts
    BY <1>1, <1>2, <1>4 DEF Base, TypeOK
  <2>. QED
    BY <1>1, <1>3, <1>5, <2>1 DEF Base, TypeOK, PCs
<1>7. Places'
  BY <1>1, <1>2, <1>3, <1>4, <1>5 DEF Base, Places
<1>8. Couples' /\ Fresh'
  BY <1>1, <1>2, <1>3, <1>4 DEF Couples, Fresh, Early
<1>. QED
  BY <1>5, <1>6, <1>7, <1>8 DEF Base

LEMMA ReportKeepsBase ==
  ASSUME Base, Report
  PROVE  Base'
<1>1. /\ pc = "retest_low" /\ again = {} /\ pc' \in {"died", "done"}
      /\ good' = good /\ bad' = bad /\ again' = again /\ cycle' = cycle
      /\ nodes' = nodes /\ todo' = todo /\ results' = results /\ thresholds' = thresholds
      /\ threshold' = threshold /\ timeouts' = timeouts /\ failed' = failed
      /\ \/ cleared' = cleared /\ accused' = accused
         \/ cleared' = Above(results) /\ accused' = Below(results) \ Above(results)
  BY DEF Report, report
<1>2. Above(results) \subseteq Hosts /\ Below(results) \subseteq Hosts
  BY GoodAndBad
<1>3. /\ mode' = mode /\ shape' = shape /\ speed' = speed /\ reachable' = reachable
      /\ Reached' = Reached /\ Speeds' /\ Tested' = Tested /\ Measures'
  BY <1>1, SameNodes, SameResults DEF Base
<1>4. TypeOK'
  <2>1. UNION {timeouts', good', bad', again', cleared', accused'} \subseteq Hosts
    BY <1>1, <1>2 DEF Base, TypeOK
  <2>. QED
    BY <1>1, <1>3, <2>1 DEF Base, TypeOK, PCs
<1>5. Places'
  BY <1>1, <1>3 DEF Base, Places
<1>6. Couples' /\ Fresh'
  BY <1>1, <1>3 DEF Base, Couples, Fresh, Early, Late
<1>. QED
  BY <1>3, <1>4, <1>5, <1>6 DEF Base

(* A node does the same every time, so a new result changes no old one. *)
LEMMA UpdatedAdds ==
  ASSUME TypeOK, Measures, NEW r \in Result, r.bw = Bandwidth(r.pair)
  PROVE  Updated(r) \in Seq(Result) /\ Range(Updated(r)) = Range(results) \union {r}
<1>1. results \in Seq(Result) /\ DOMAIN results = 1 .. Len(results) /\ Len(results) \in Nat
  BY BaseFacts DEF TypeOK
<1>2. CASE \E i \in DOMAIN results : results[i].pair = r.pair
  <2>1. ASSUME NEW i \in DOMAIN results, results[i].pair = r.pair
        PROVE  results[i] = r
    <3>1. results[i] \in Result /\ results[i] \in Range(results)
      BY <1>1, ElementOfSeq, RangeOf
    <3>2. results[i].bw = r.bw
      BY <2>1, <3>1 DEF Measures
    <3>. QED
      BY <2>1, <3>1, <3>2 DEF Result
  <2>2. Updated(r) = [i \in DOMAIN results |-> IF results[i].pair = r.pair THEN r ELSE results[i]]
    BY <1>2 DEF Updated
  <2>3. Updated(r) = [i \in DOMAIN results |-> results[i]]
    BY <2>1, <2>2
  <2>4. results = [i \in DOMAIN results |-> results[i]]
    BY <1>1
  <2>5. r \in Range(results)
    BY <1>2, <2>1 DEF Range
  <2>. QED
    BY <1>1, <2>3, <2>4, <2>5
<1>3. CASE ~\E i \in DOMAIN results : results[i].pair = r.pair
  <2>1. Updated(r) = Append(results, r)
    BY <1>3 DEF Updated
  <2>. QED
    BY <1>1, <2>1, RangeOfAppend
<1>. QED
  BY <1>2, <1>3

LEMMA PartnerIsGood ==
  ASSUME Base, pc \in {"retest_timeout", "retest_low"}, NEW n \in again
  PROVE  /\ n \in Reached /\ n \in Hosts /\ Partner(n) \in good /\ good \subseteq Reached
         /\ <<Partner(n), n>> \in Pair
         /\ Turned(n) \in Seq(Hosts) /\ Len(Turned(n)) >= 2 /\ Range(Turned(n)) \subseteq good
<1>1. /\ Len(cycle) >= 2 /\ Range(cycle) \subseteq good /\ cycle \in Seq(Hosts)
      /\ n \in Reached /\ Reached \subseteq Hosts /\ good \subseteq Reached
  BY BaseFacts DEF Base, Places, Couples, Late, TypeOK
<1>2. PICK k : k = Len(cycle)
  OBVIOUS
<1>3. k \in Nat /\ 1 \in 1 .. k /\ 2 \in 1 .. k /\ \A i \in 1 .. k : cycle[i] \in good /\ cycle[i] \in Hosts
  <2>1. k \in Nat /\ \A i \in 1 .. k : cycle[i] \in Range(cycle)
    BY <1>1, <1>2, RangeOf
  <2>. QED
    BY <1>1, <1>2, <2>1
<1>4. Partner(n) \in good
  BY <1>3 DEF Partner
<1>5. <<Partner(n), n>> \in Pair
  BY <1>1, <1>4 DEF Pair
<1>6. cycle \in Seq(good)
  <2>1. cycle \in Seq(Range(cycle))
    BY <1>1, SeqOfRange
  <2>. QED
    BY <1>1, <2>1, SeqMonotonic
<1>7. Turned(n) \in Seq(good) /\ Len(Turned(n)) >= 2
  <2>1. CASE cycle[1] = n
    <3>1. PICK u, v, m : u = SubSeq(cycle, m, k) /\ v = <<cycle[1], cycle[2]>> /\ m = 3
      OBVIOUS
    <3>2. v \in Seq(good) /\ Len(v) = 2
      BY <1>3, <3>1
    <3>3. u \in Seq(good) /\ Len(u) \in Nat
      <4>1. m \in Int /\ k \in Int /\ \A i \in m .. k : cycle[i] \in good
        BY <1>3, <3>1
      <4>2. u \in Seq(good)
        BY <3>1, <4>1, SubSeqProperties
      <4>. QED
        BY <4>2, LenProperties
    <3>4. u \o v \in Seq(good) /\ Len(u \o v) = Len(u) + Len(v)
      BY <3>2, <3>3, ConcatProperties
    <3>5. Turned(n) = u \o v
      BY <1>2, <2>1, <3>1 DEF Turned
    <3>. QED
      BY <3>2, <3>3, <3>4, <3>5
  <2>2. CASE cycle[1] # n
    <3>1. Tail(cycle) \in Seq(good) /\ Len(Tail(cycle)) = k - 1
      BY <1>1, <1>2, <1>6, HeadTailProperties
    <3>2. cycle[1] \in good
      BY <1>3
    <3>3. Append(Tail(cycle), cycle[1]) \in Seq(good) /\ Len(Append(Tail(cycle), cycle[1])) = (k - 1) + 1
      BY <3>1, <3>2, AppendProperties
    <3>4. Turned(n) = Append(Tail(cycle), cycle[1])
      BY <2>2 DEF Turned
    <3>. QED
      BY <1>1, <1>2, <1>3, <3>3, <3>4
  <2>. QED
    BY <2>1, <2>2
<1>8. Range(Turned(n)) \subseteq good
  BY <1>7, RangeOf
<1>9. Turned(n) \in Seq(Hosts)
  <2>1. good \subseteq Hosts
    BY <1>1
  <2>. QED
    BY <1>7, <2>1, SeqMonotonic
<1>. QED
  BY <1>1, <1>4, <1>5, <1>7, <1>8, <1>9

LEMMA RetestResults ==
  ASSUME Base, NEW n \in Hosts, Retest(n)
  PROVE  LET p == <<Partner(n), n>> IN
         /\ results' \in Seq(Result)
         /\ \/ Bandwidth(p) = Failed /\ Range(results') = Range(results) /\ Tested' = Tested
               /\ threshold' = threshold
            \/ /\ Range(results') = Range(results) \union {[pair |-> p, bw |-> Bandwidth(p)]}
               /\ Tested' = Tested \union {p} /\ results' # <<>>
               /\ threshold' = IF mode = "parallel" THEN threshold ELSE PairThreshold(p)
<1>1. PICK p : p = <<Partner(n), n>>
  OBVIOUS
<1>2. /\ IF Bandwidth(p) = Failed THEN results' = results /\ threshold' = threshold
         ELSE /\ results' = Updated([pair |-> p, bw |-> Bandwidth(p)])
              /\ threshold' = IF mode = "parallel" THEN threshold ELSE PairThreshold(p)
      /\ pc \in {"retest_timeout", "retest_low"} /\ n \in again
  BY <1>1 DEF Retest
<1>3. CASE Bandwidth(p) = Failed
  BY <1>1, <1>2, <1>3 DEF Base, TypeOK, Tested
<1>4. CASE Bandwidth(p) # Failed
  <2>1. PICK r : r = [pair |-> p, bw |-> Bandwidth(p)]
    OBVIOUS
  <2>2. r \in Result /\ r.pair = p /\ r.bw = Bandwidth(r.pair)
    <3>1. p \in Pair
      BY <1>1, <1>2, PartnerIsGood
    <3>2. Bandwidth(p) \in 0 .. 2
      BY <1>4, <3>1, BandwidthIs DEF Base, TypeOK
    <3>. QED
      BY <2>1, <3>1, <3>2 DEF Result
  <2>3. results' \in Seq(Result) /\ Range(results') = Range(results) \union {r}
    <3>1. results' = Updated(r)
      BY <1>2, <1>4, <2>1
    <3>. QED
      BY <2>2, <3>1, UpdatedAdds DEF Base
  <2>4. Tested' = Tested \union {p} /\ results' # <<>>
    BY <2>2, <2>3, RangeOfNone DEF Tested
  <2>. QED
    BY <1>1, <1>2, <1>4, <2>1, <2>3, <2>4
<1>. QED
  BY <1>3, <1>4

LEMMA RetestKeepsBase ==
  ASSUME Base, NEW n \in Hosts, Retest(n)
  PROVE  Base'
<1>1. PICK p : p = <<Partner(n), n>>
  OBVIOUS
<1>2. /\ pc \in {"retest_timeout", "retest_low"} /\ n \in again
      /\ pc' \in {"died", pc} /\ again' = again \ {n} /\ cycle' = Turned(n)
      /\ good' = good /\ bad' = bad /\ nodes' = nodes /\ todo' = todo /\ thresholds' = thresholds
      /\ timeouts' = timeouts /\ failed' = failed /\ cleared' = cleared /\ accused' = accused
  BY DEF Retest, report
<1>3. /\ results' \in Seq(Result)
      /\ \/ Range(results') = Range(results) /\ Tested' = Tested /\ threshold' = threshold
         \/ /\ Range(results') = Range(results) \union {[pair |-> p, bw |-> Bandwidth(p)]}
            /\ Tested' = Tested \union {p}
            /\ threshold' = IF mode = "parallel" THEN threshold ELSE PairThreshold(p)
  BY <1>1, RetestResults
<1>4. /\ n \in Reached /\ Partner(n) \in good /\ good \subseteq Reached /\ p \in Pair
      /\ cycle' \in Seq(Hosts) /\ Len(cycle') >= 2 /\ Range(cycle') \subseteq good
  BY <1>1, <1>2, PartnerIsGood
<1>5. /\ mode' = mode /\ shape' = shape /\ speed' = speed /\ reachable' = reachable
      /\ Reached' = Reached /\ Speeds' /\ \A q : Bandwidth(q)' = Bandwidth(q)
  BY <1>2, SameNodes DEF Base
<1>6. TypeOK'
  <2>1. threshold' \in 0 .. 2
    BY <1>3, PairThresholdIs DEF Base, TypeOK
  <2>2. UNION {timeouts', good', bad', again', cleared', accused'} \subseteq Hosts
    BY <1>2 DEF Base, TypeOK
  <2>3. pc' \in PCs
    BY <1>2 DEF PCs
  <2>. QED
    BY <1>2, <1>3, <1>4, <1>5, <2>1, <2>2, <2>3 DEF Base, TypeOK
<1>7. Places'
  <2>1. p[1] \in Reached /\ p[2] \in Reached
    BY <1>1, <1>4
  <2>2. Range(todo') \union Tested' \union failed' \subseteq Range(todo) \union Tested \union failed \union {p}
    BY <1>2, <1>3
  <2>3. HostsOf(Range(todo') \union Tested' \union failed') \subseteq Reached
    BY <2>1, <2>2, HostsOfPairs DEF Base, Places
  <2>. QED
    BY <1>2, <1>4, <1>5, <2>3 DEF Base, Places
<1>8. Measures'
  BY <1>3, <1>5 DEF Base, Measures
<1>9. Couples' /\ Fresh'
  BY <1>2, <1>4 DEF Base, Couples, Fresh, Early, Late
<1>. QED
  BY <1>5, <1>6, <1>7, <1>8, <1>9 DEF Base

LEMMA BaseStep == Base /\ [Next]_vars => Base'
<1>. SUFFICES ASSUME Base, [Next]_vars PROVE Base'
  OBVIOUS
<1>1. CASE Reach
  BY <1>1, ReachKeepsBase
<1>2. CASE PrintResults
  BY <1>2, PrintKeepsBase
<1>3. CASE Classify
  BY <1>3, ClassifyKeepsBase
<1>4. CASE RetestLow
  BY <1>4, RetestLowKeepsBase
<1>5. CASE Report
  BY <1>5, ReportKeepsBase
<1>6. ASSUME NEW i \in DOMAIN todo, Test(i) PROVE Base'
  BY <1>6, TestKeepsBase
<1>7. ASSUME NEW i \in DOMAIN todo, TestRaises(i) PROVE Base'
  BY <1>7, TestRaisesKeepsBase
<1>8. ASSUME NEW n \in Hosts, Retest(n) PROVE Base'
  BY <1>8, RetestKeepsBase
<1>9. CASE UNCHANGED vars
  BY <1>9 DEF vars, nodes, report, Base, TypeOK, Places, Measures, Speeds, Couples, Fresh, Reached,
              Tested, Bandwidth
<1>. QED
  BY <1>1, <1>2, <1>3, <1>4, <1>5, <1>6, <1>7, <1>8, <1>9 DEF Next

(* The state has its type. *)
THEOREM ScoutTypes == Spec => []TypeOK
<1>1. Base => TypeOK
  BY DEF Base
<1>. QED
  BY <1>1, BaseStart, BaseStep, PTL DEF Spec

-----------------------------------------------------------------------------
(* Nodes of one known shape, of the threshold T *)

OneShape(T) ==
    /\ \A h \in Reached : shape[h] # "unknown" /\ Threshold(h) = T
    /\ mode = "parallel" => Len(reachable) % 2 = 0

(* A node that was in a good pair; and one of which the tests say what it  *)
(* is, be it sound or slow.                                                *)
Proven(T, h) == \E r \in Range(results) : (h = r.pair[1] \/ h = r.pair[2]) /\ r.bw = T
Judged(T, h) ==
    /\ speed[h] = T => Proven(T, h)
    /\ speed[h] \in 0 .. T - 1 => h \in HostsOf(Tested)

(* Every pair is measured against T, and every node is in one that is yet  *)
(* to be tested, has a result or has failed.                               *)
Counted(T) ==
    /\ mode = "serial" /\ pc # "test" /\ results # <<>> => threshold = T
    /\ mode = "parallel" /\ pc \in Early => Range(todo) \union Tested \subseteq thresholds
    /\ timeouts = UNION {TimedOut(p) : p \in failed}
    /\ Reached \subseteq HostsOf(Range(todo) \union Tested \union failed)
    /\ pc # "test" => todo = <<>>

(* Good nodes are good, and whoever was to be retested is, or is judged.   *)
Retested(T) ==
    /\ \A h \in good : Proven(T, h)
    /\ \A h \in HostsOf(Tested) : h \in good \/ h \in bad \/ Judged(T, h)
    /\ good # {} => \A n \in timeouts : (pc = "retest_timeout" /\ n \in again) \/ Judged(T, n)
    /\ good # {} /\ pc # "retest_timeout" =>
         \A n \in bad \ good : (pc = "retest_low" /\ n \in again) \/ Judged(T, n)
    /\ pc = "done" => cleared = Above(results) /\ accused = Below(results) \ Above(results)

ScoutInv ==
    \A T \in 1 .. 2 :
      OneShape(T) =>
        /\ pc \in Early \union Late => Counted(T)
        /\ pc \in Late => Retested(T)

LEMMA SpeedOf ==
  ASSUME Base, NEW T \in 1 .. 2, OneShape(T), NEW h \in Reached
  PROVE  speed[h] \in Failed .. T /\ h \in Hosts
<1>1. h \in Hosts
  BY BaseFacts DEF Base
<1>2. speed[h] \in Failed .. 2 /\ shape[h] \in {"A100", "H100", "unknown"}
  BY <1>1, ScoutBounds DEF Base, TypeOK
<1>3. speed[h] <= (IF shape[h] = "A100" THEN 1 ELSE 2)
  BY <1>1 DEF Base, Speeds
<1>4. shape[h] # "unknown" /\ Threshold(h) = T
  BY DEF OneShape
<1>. QED
  BY <1>1, <1>2, <1>3, <1>4 DEF Threshold, Failed

LEMMA BandwidthOf ==
  ASSUME Base, NEW T \in 1 .. 2, OneShape(T), NEW p \in Pair, p[1] \in Reached, p[2] \in Reached
  PROVE  /\ Bandwidth(p) \in Failed .. T /\ Known(p) /\ PairThreshold(p) = T
         /\ Bandwidth(p) <= speed[p[1]] /\ Bandwidth(p) <= speed[p[2]]
         /\ speed[p[1]] = T => Bandwidth(p) = speed[p[2]]
         /\ speed[p[2]] = T => Bandwidth(p) = speed[p[1]]
<1>1. speed[p[1]] \in Failed .. T /\ speed[p[2]] \in Failed .. T
  BY SpeedOf
<1>2. Bandwidth(p) = IF speed[p[1]] <= speed[p[2]] THEN speed[p[1]] ELSE speed[p[2]]
  BY BandwidthIs DEF Base, TypeOK
<1>3. Known(p) /\ Threshold(p[1]) = T /\ Threshold(p[2]) = T
  BY DEF Known, OneShape
<1>4. PairThreshold(p) = T
  BY <1>3, PairThresholdIs
<1>. QED
  BY <1>1, <1>2, <1>3, <1>4 DEF Failed

(* A result is that of nodes which have answered. *)
LEMMA ResultOf ==
  ASSUME Base, NEW T \in 1 .. 2, OneShape(T), NEW r \in Range(results)
  PROVE  /\ r.pair \in Pair /\ r.pair[1] \in Reached /\ r.pair[2] \in Reached /\ r.pair \in Tested
         /\ r.bw = Bandwidth(r.pair) /\ r.bw \in 0 .. T /\ results # <<>>
         /\ r.bw <= speed[r.pair[1]] /\ r.bw <= speed[r.pair[2]]
         /\ r.pair[1] \in HostsOf(Tested) /\ r.pair[2] \in HostsOf(Tested)
<1>1. r \in Result /\ r.pair \in Tested /\ r.bw = Bandwidth(r.pair)
  BY BaseFacts DEF Base, Measures, Tested
<1>2. r.pair \in Pair /\ r.bw \in 0 .. 2
  BY <1>1 DEF Result
<1>3. r.pair[1] \in HostsOf(Tested) /\ r.pair[2] \in HostsOf(Tested)
  BY <1>1, HostsOfPairs
<1>4. r.pair[1] \in Reached /\ r.pair[2] \in Reached
  BY <1>1, HostsOfPairs DEF Base, Places
<1>5. /\ Bandwidth(r.pair) \in Failed .. T
      /\ Bandwidth(r.pair) <= speed[r.pair[1]] /\ Bandwidth(r.pair) <= speed[r.pair[2]]
  BY <1>2, <1>4, BandwidthOf
<1>6. results # <<>>
  BY RangeOfNone
<1>7. r.bw \in 0 .. T
  BY <1>1, <1>2, <1>5 DEF Failed
<1>. QED
  BY <1>1, <1>2, <1>3, <1>4, <1>5, <1>6, <1>7

LEMMA LimitOf ==
  ASSUME Base, NEW T \in 1 .. 2, OneShape(T), NEW p \in Pair, p[1] \in Reached, p[2] \in Reached
  PROVE  /\ mode = "serial" => Limit(p) = threshold
         /\ mode = "parallel" => Limit(p) \in {0, T}
         /\ mode = "parallel" /\ p \in thresholds => Limit(p) = T
  BY BandwidthOf DEF Limit

(* A node is proven by a result of T, and only if it is sound. *)
LEMMA ProvenIs ==
  ASSUME Base, NEW T \in 1 .. 2, OneShape(T), NEW h, Proven(T, h)
  PROVE  h \in Reached /\ speed[h] = T /\ h \in HostsOf(Tested)
<1>1. PICK r \in Range(results) : (h = r.pair[1] \/ h = r.pair[2]) /\ r.bw = T
  BY DEF Proven
<1>2. h \in Reached /\ r.bw <= speed[h] /\ h \in HostsOf(Tested)
  BY <1>1, ResultOf
<1>3. speed[h] \in Failed .. T
  BY <1>2, SpeedOf
<1>. QED
  BY <1>1, <1>2, <1>3 DEF Failed

LEMMA SoundIsProven ==
  ASSUME Base, NEW T \in 1 .. 2, OneShape(T), NEW r \in Range(results), NEW h, NEW g,
         speed[h] = T, speed[g] = T,
         (h = r.pair[1] /\ g = r.pair[2]) \/ (h = r.pair[2] /\ g = r.pair[1])
  PROVE  Proven(T, h)
<1>1. r.bw = Bandwidth(r.pair)  /\ r.pair \in Pair /\ r.pair[1] \in Reached /\ r.pair[2] \in Reached
  BY ResultOf
<1>2. Bandwidth(r.pair) = T
  BY <1>1, BandwidthOf
<1>. QED
  BY <1>1, <1>2 DEF Proven

LEMMA SameShape ==
  ASSUME nodes' = nodes, NEW T
  PROVE  OneShape(T)' <=> OneShape(T)
  BY DEF nodes, OneShape, Reached, Threshold

LEMMA SameReport ==
  ASSUME nodes' = nodes, results' = results, thresholds' = thresholds, threshold' = threshold
  PROVE  Above(results)' = Above(results) /\ Below(results)' = Below(results)
<1>1. \A p : Limit(p)' = Limit(p)
  BY DEF nodes, Limit, PairThreshold, Threshold
<1>. QED
  BY <1>1 DEF nodes, Above, Below

(* More results judge more nodes. *)
LEMMA JudgedStays ==
  ASSUME nodes' = nodes, Range(results) \subseteq Range(results'), NEW T, NEW h
  PROVE  /\ Tested \subseteq Tested' /\ HostsOf(Tested) \subseteq HostsOf(Tested)'
         /\ Proven(T, h) => Proven(T, h)'
         /\ Judged(T, h) => Judged(T, h)'
<1>1. Tested \subseteq Tested'
  BY DEF Tested
<1>2. HostsOf(Tested) \subseteq HostsOf(Tested)'
  BY <1>1, HostsOfPairs DEF HostsOf
<1>3. Proven(T, h) => Proven(T, h)'
  BY DEF Proven
<1>. QED
  BY <1>1, <1>2, <1>3 DEF Judged, nodes

LEMMA ScoutStart == Init => ScoutInv
  BY DEF Init, ScoutInv, Early, Late

LEMMA ReachScouts ==
  ASSUME Base, Base', Reach
  PROVE  ScoutInv'
<1>1. PICK S \in SUBSET Hosts : \E order \in Orders(S) :
         /\ reachable' = order
         /\ IF Len(order) < 2 THEN pc' = "stopped" /\ todo' = todo /\ thresholds' = thresholds
            ELSE /\ pc' = "test"
                 /\ todo' = AllPairs(order)
                 /\ thresholds' = IF mode = "parallel" THEN Range(KnownPairs(order)) ELSE {}
  BY ReachOrder
<1>2. PICK order \in Orders(S) :
         /\ reachable' = order
         /\ IF Len(order) < 2 THEN pc' = "stopped" /\ todo' = todo /\ thresholds' = thresholds
            ELSE /\ pc' = "test"
                 /\ todo' = AllPairs(order)
                 /\ thresholds' = IF mode = "parallel" THEN Range(KnownPairs(order)) ELSE {}
  BY <1>1
<1>3. /\ mode' = mode /\ shape' = shape /\ results' = results
      /\ timeouts' = timeouts /\ failed' = failed /\ pc = "reach"
  BY DEF Reach, report
<1>4. results = <<>> /\ failed = {} /\ timeouts = {}
  BY <1>3 DEF Base, Fresh
<1>5. CASE Len(order) < 2
  BY <1>2, <1>5 DEF ScoutInv, Early, Late
<1>6. CASE ~(Len(order) < 2)
  <2>1. pc' = "test" /\ todo' = AllPairs(order) /\ Reached' = Range(order) /\ Len(order) \in Nat
    BY <1>2, <1>6, OrderIsSeq, LenProperties DEF Reached
  <2>2. Len(order) >= 2
    BY <1>6, <2>1
  <2>3. /\ (\A h \in Range(order) : shape[h] # "unknown") => Range(order) \subseteq HostsOf(Range(todo'))
        /\ Len(order) % 2 = 0 => Range(todo') = Range(KnownPairs(order))
    <3>1. PICK q : q = AllPairs(order)
      OBVIOUS
    <3>2. /\ (\A h \in Range(order) : shape[h] # "unknown") => Range(order) \subseteq HostsOf(Range(q))
          /\ Len(order) % 2 = 0 => Range(q) = Range(KnownPairs(order))
      BY <2>2, <3>1, ReachPairs
    <3>. QED
      BY <2>1, <3>1, <3>2
  <2>4. Tested' = {} /\ results' = <<>>
    BY <1>3, <1>4, RangeOfNone DEF Tested
  <2>5. ASSUME NEW T \in 1 .. 2, OneShape(T)' PROVE Counted(T)'
    <3>1. Reached' \subseteq HostsOf(Range(todo') \union Tested' \union failed')
      <4>1. Reached' \subseteq HostsOf(Range(todo'))
        BY <1>3, <2>1, <2>3, <2>5 DEF OneShape
      <4>. QED
        BY <4>1, HostsOfPairs
    <3>2. mode = "parallel" => Range(todo') \subseteq thresholds'
      BY <1>2, <1>3, <1>6, <2>1, <2>3, <2>5 DEF OneShape
    <3>3. timeouts' = UNION {TimedOut(p)' : p \in failed'}
      BY <1>3, <1>4
    <3>. QED
      BY <1>3, <2>1, <2>4, <3>1, <3>2, <3>3 DEF Counted
  <2>. QED
    BY <2>1, <2>5 DEF ScoutInv, Late
<1>. QED
  BY <1>5, <1>6

LEMMA TestScouts ==
  ASSUME Base, Base', ScoutInv, NEW i \in DOMAIN todo, Test(i)
  PROVE  ScoutInv'
<1>1. PICK p : p = todo[i]
  OBVIOUS
<1>2. /\ pc = "test" /\ todo' = RemoveAt(todo, i)
      /\ nodes' = nodes /\ thresholds' = thresholds /\ threshold' = threshold /\ pc' = pc
      /\ IF Bandwidth(p) = Failed
         THEN /\ timeouts' = timeouts \union TimedOut(p) /\ failed' = failed \union {p}
              /\ results' = results
         ELSE /\ results' = Append(results, [pair |-> p, bw |-> Bandwidth(p)])
              /\ timeouts' = timeouts /\ failed' = failed
  BY <1>1 DEF Test, report
<1>3. p \in Pair /\ p \in Range(todo) /\ Range(todo) = Range(todo') \union {p}
  BY <1>1, <1>2, PairToTest
<1>4. mode' = mode /\ Reached' = Reached /\ \A q : TimedOut(q)' = TimedOut(q)
  BY <1>2, SameNodes DEF TimedOut
<1>5. IF Bandwidth(p) = Failed THEN Tested' = Tested ELSE Tested' = Tested \union {p}
  <2>1. CASE Bandwidth(p) = Failed
    BY <1>2, <2>1 DEF Tested
  <2>2. CASE Bandwidth(p) # Failed
    <3>1. PICK r : r = [pair |-> p, bw |-> Bandwidth(p)]
      OBVIOUS
    <3>2. r \in Result /\ r.pair = p
      BY <1>3, <2>2, <3>1, BandwidthIs DEF Base, TypeOK, Result
    <3>3. results \in Seq(Result) /\ results' = Append(results, r)
      BY <1>2, <2>2, <3>1 DEF Base, TypeOK
    <3>4. Range(results') = Range(results) \union {r}
      BY <3>2, <3>3, RangeOfAppend
    <3>. QED
      BY <2>2, <3>2, <3>4 DEF Tested
  <2>. QED
    BY <2>1, <2>2
<1>6. ASSUME NEW T \in 1 .. 2, OneShape(T)' PROVE Counted(T)'
  <2>1. Counted(T)
    BY <1>2, <1>6, SameShape DEF ScoutInv, Early
  <2>2. timeouts' = UNION {TimedOut(q)' : q \in failed'}
    <3>1. timeouts = UNION {TimedOut(q) : q \in failed}
      BY <2>1 DEF Counted
    <3>2. timeouts' = UNION {TimedOut(q) : q \in failed'}
      BY <1>2, <3>1
    <3>. QED
      BY <1>4, <3>2
  <2>3. /\ Range(todo) \union Tested \union failed = Range(todo') \union Tested' \union failed'
        /\ Range(todo') \union Tested' \subseteq Range(todo) \union Tested
    BY <1>2, <1>3, <1>5
  <2>4. Reached' \subseteq HostsOf(Range(todo') \union Tested' \union failed')
    BY <1>4, <2>1, <2>3 DEF Counted
  <2>5. mode' = "parallel" => Range(todo') \union Tested' \subseteq thresholds'
    BY <1>2, <1>4, <2>1, <2>3 DEF Counted, Early
  <2>. QED
    BY <1>2, <2>2, <2>4, <2>5 DEF Counted
<1>. QED
  BY <1>2, <1>6 DEF ScoutInv, Late

(* Where all shapes are known no test raises. *)
LEMMA TestRaisesScouts ==
  ASSUME Base, Base', ScoutInv, NEW i \in DOMAIN todo, TestRaises(i)
  PROVE  ScoutInv'
<1>1. nodes' = nodes /\ ~Known(todo[i])
  BY DEF TestRaises
<1>2. ASSUME NEW T \in 1 .. 2 PROVE ~OneShape(T)
  BY <1>1, PairToTest, BandwidthOf
<1>. QED
  BY <1>1, <1>2, SameShape DEF ScoutInv

LEMMA PrintScouts ==
  ASSUME Base, Base', ScoutInv, PrintResults
  PROVE  ScoutInv'
<1>1. /\ pc = "test" /\ todo = <<>> /\ pc' \in {"died", "classify"} /\ todo' = todo
      /\ nodes' = nodes /\ thresholds' = thresholds
      /\ results' = results /\ timeouts' = timeouts /\ failed' = failed
      /\ pc' = "classify" => threshold' = IF mode = "serial" /\ results # <<>> THEN LastPrinted ELSE threshold
  BY DEF PrintResults, report
<1>2. mode' = mode /\ Reached' = Reached /\ Tested' = Tested /\ \A q : TimedOut(q)' = TimedOut(q)
  BY <1>1, SameNodes, SameResults DEF TimedOut
<1>3. ASSUME NEW T \in 1 .. 2, OneShape(T)', pc' = "classify" PROVE Counted(T)'
  <2>1. Counted(T) /\ OneShape(T)
    BY <1>1, <1>3, SameShape DEF ScoutInv, Early
  <2>2. mode = "serial" /\ results # <<>> => threshold' = T
    <3>1. SUFFICES ASSUME mode = "serial", results # <<>> PROVE threshold' = T
      OBVIOUS
    <3>2. PICK r \in Range(results) : LastPrinted = PairThreshold(r.pair)
      BY <3>1, LastPrintedType DEF Base
    <3>3. r.pair \in Pair /\ r.pair[1] \in Reached /\ r.pair[2] \in Reached
      BY <2>1, ResultOf
    <3>. QED
      BY <1>1, <1>3, <2>1, <3>1, <3>2, <3>3, BandwidthOf
  <2>3. timeouts' = UNION {TimedOut(q)' : q \in failed'}
    BY <1>1, <1>2, <2>1 DEF Counted
  <2>. QED
    BY <1>1, <1>2, <2>1, <2>2, <2>3 DEF Counted, Early
<1>. QED
  BY <1>1, <1>3 DEF ScoutInv, Early, Late

LEMMA ClassifyScouts ==
  ASSUME Base, Base', ScoutInv, Classify
  PROVE  ScoutInv'
<1>1. /\ pc = "classify" /\ pc' = "retest_timeout"
      /\ good' = Above(results) /\ bad' = Below(results)
      /\ again' = IF good' = {} THEN {} ELSE timeouts
      /\ nodes' = nodes /\ todo' = todo /\ results' = results /\ thresholds' = thresholds
      /\ threshold' = threshold /\ timeouts' = timeouts /\ failed' = failed
  BY DEF Classify
<1>2. mode' = mode /\ Reached' = Reached /\ Tested' = Tested /\ \A q : TimedOut(q)' = TimedOut(q)
  BY <1>1, SameNodes, SameResults DEF TimedOut
<1>3. ASSUME NEW T \in 1 .. 2, OneShape(T)' PROVE Counted(T)' /\ Retested(T)'
  <2>1. Counted(T) /\ OneShape(T)
    BY <1>1, <1>3, SameShape DEF ScoutInv, Early
  <2>2. Counted(T)'
    BY <1>1, <1>2, <2>1 DEF Counted, Early
  <2>3. ASSUME NEW r \in Range(results), r.bw >= Limit(r.pair)
        PROVE  r.bw = T
    <3>1. /\ r.pair \in Pair /\ r.pair[1] \in Reached /\ r.pair[2] \in Reached /\ r.pair \in Tested
          /\ r.bw \in 0 .. T /\ results # <<>>
      BY <2>1, ResultOf
    <3>2. Limit(r.pair) = T
      <4>1. CASE mode = "serial"
        BY <1>1, <2>1, <3>1, <4>1, LimitOf DEF Counted
      <4>2. CASE mode = "parallel"
        BY <1>1, <2>1, <3>1, <4>2, LimitOf DEF Counted, Early
      <4>. QED
        BY <4>1, <4>2, BaseFacts DEF Base
    <3>. QED
      BY <2>3, <3>1, <3>2
  <2>4. ASSUME NEW h \in good' PROVE Proven(T, h)'
    <3>1. PICK r \in Range(results) : (h = r.pair[1] \/ h = r.pair[2]) /\ r.bw >= Limit(r.pair)
      BY <1>1, <2>4, WhoIsAbove
    <3>2. r.bw = T
      BY <2>3, <3>1
    <3>. QED
      BY <1>1, <3>1, <3>2 DEF Proven
  <2>5. HostsOf(Tested)' = HostsOf(Tested) /\ HostsOf(Tested) = good' \union bad'
    BY <1>1, <1>2, GoodAndBad DEF HostsOf
  <2>6. good' # {} => again' = timeouts'
    BY <1>1
  <2>. QED
    BY <1>1, <2>2, <2>4, <2>5, <2>6 DEF Retested
<1>. QED
  BY <1>1, <1>3 DEF ScoutInv

(* What is known of the runs of one shape before a step among the retests. *)
LEMMA LateFacts ==
  ASSUME ScoutInv, nodes' = nodes, pc \in Late, NEW T \in 1 .. 2, OneShape(T)'
  PROVE  OneShape(T) /\ Counted(T) /\ Retested(T)
  BY SameShape DEF ScoutInv

LEMMA RetestLowScouts ==
  ASSUME Base, Base', ScoutInv, RetestLow
  PROVE  ScoutInv'
<1>1. /\ pc = "retest_timeout" /\ again = {} /\ pc' = "retest_low"
      /\ good' = good /\ bad' = bad
      /\ again' = IF good = {} THEN {} ELSE IF mode = "parallel" THEN bad \ good ELSE bad
      /\ nodes' = nodes /\ todo' = todo /\ results' = results /\ thresholds' = thresholds
      /\ threshold' = threshold /\ timeouts' = timeouts /\ failed' = failed
  BY DEF RetestLow
<1>2. mode' = mode /\ Reached' = Reached /\ Tested' = Tested /\ \A q : TimedOut(q)' = TimedOut(q)
  BY <1>1, SameNodes, SameResults DEF TimedOut
<1>3. ASSUME NEW T \in 1 .. 2, OneShape(T)' PROVE Counted(T)' /\ Retested(T)'
  <2>1. OneShape(T) /\ Counted(T) /\ Retested(T)
    BY <1>1, <1>3, LateFacts DEF Late
  <2>2. Counted(T)'
    BY <1>1, <1>2, <2>1 DEF Counted, Early
  <2>3. \A h : /\ Proven(T, h) => Proven(T, h)'
               /\ Judged(T, h) => Judged(T, h)'
    BY <1>1, JudgedStays
  <2>4. HostsOf(Tested)' = HostsOf(Tested)
    BY <1>2 DEF HostsOf
  <2>5. good' # {} => \A n \in timeouts' : Judged(T, n)'
    BY <1>1, <2>1, <2>3 DEF Retested
  <2>6. good' # {} => \A n \in bad' \ good' : n \in again'
    BY <1>1
  <2>7. \A h \in HostsOf(Tested)' : h \in good' \/ h \in bad' \/ Judged(T, h)'
    BY <1>1, <2>1, <2>3, <2>4 DEF Retested
  <2>8. \A h \in good' : Proven(T, h)'
    BY <1>1, <2>1, <2>3 DEF Retested
  <2>. QED
    BY <1>1, <2>2, <2>5, <2>6, <2>7, <2>8 DEF Retested
<1>. QED
  BY <1>1, <1>3 DEF ScoutInv

LEMMA ReportScouts ==
  ASSUME Base, Base', ScoutInv, Report
  PROVE  ScoutInv'
<1>1. /\ pc = "retest_low" /\ again = {} /\ pc' \in {"died", "done"}
      /\ good' = good /\ bad' = bad /\ again' = again
      /\ nodes' = nodes /\ todo' = todo /\ results' = results /\ thresholds' = thresholds
      /\ threshold' = threshold /\ timeouts' = timeouts /\ failed' = failed
      /\ pc' = "done" => cleared' = Above(results) /\ accused' = Below(results) \ Above(results)
  BY DEF Report, report
<1>2. mode' = mode /\ Reached' = Reached /\ Tested' = Tested /\ \A q : TimedOut(q)' = TimedOut(q)
  BY <1>1, SameNodes, SameResults DEF TimedOut
<1>3. ASSUME NEW T \in 1 .. 2, OneShape(T)', pc' = "done" PROVE Counted(T)' /\ Retested(T)'
  <2>1. OneShape(T) /\ Counted(T) /\ Retested(T)
    BY <1>1, <1>3, LateFacts DEF Late
  <2>2. Counted(T)'
    BY <1>1, <1>2, <1>3, <2>1 DEF Counted, Early
  <2>3. \A h : /\ Proven(T, h) => Proven(T, h)'
               /\ Judged(T, h) => Judged(T, h)'
    BY <1>1, JudgedStays
  <2>4. HostsOf(Tested)' = HostsOf(Tested)
    BY <1>2 DEF HostsOf
  <2>5. good' # {} => \A n \in timeouts' : Judged(T, n)'
    BY <1>1, <2>1, <2>3 DEF Retested
  <2>6. good' # {} => \A n \in bad' \ good' : Judged(T, n)'
    BY <1>1, <2>1, <2>3 DEF Retested
  <2>7. \A h \in HostsOf(Tested)' : h \in good' \/ h \in bad' \/ Judged(T, h)'
    BY <1>1, <2>1, <2>3, <2>4 DEF Retested
  <2>8. \A h \in good' : Proven(T, h)'
    BY <1>1, <2>1, <2>3 DEF Retested
  <2>9. cleared' = Above(results)' /\ accused' = Below(results)' \ Above(results)'
    BY <1>1, <1>3, SameReport
  <2>. QED
    BY <2>2, <2>5, <2>6, <2>7, <2>8, <2>9 DEF Retested
<1>. QED
  BY <1>1, <1>3 DEF ScoutInv, Early, Late

LEMMA RetestScouts ==
  ASSUME Base, Base', ScoutInv, NEW n \in Hosts, Retest(n)
  PROVE  ScoutInv'
<1>1. PICK p : p = <<Partner(n), n>>
  OBVIOUS
<1>2. /\ pc \in {"retest_timeout", "retest_low"} /\ n \in again
      /\ pc' \in {"died", pc} /\ again' = again \ {n}
      /\ good' = good /\ bad' = bad /\ nodes' = nodes /\ todo' = todo /\ thresholds' = thresholds
      /\ timeouts' = timeouts /\ failed' = failed
  BY DEF Retest
<1>3. \/ /\ Bandwidth(p) = Failed /\ Range(results') = Range(results) /\ Tested' = Tested
         /\ threshold' = threshold
      \/ /\ Range(results') = Range(results) \union {[pair |-> p, bw |-> Bandwidth(p)]}
         /\ Tested' = Tested \union {p} /\ results' # <<>>
         /\ threshold' = IF mode = "parallel" THEN threshold ELSE PairThreshold(p)
  BY <1>1, RetestResults
<1>4. n \in Reached /\ Partner(n) \in good /\ good \subseteq Reached /\ p \in Pair
  BY <1>1, <1>2, PartnerIsGood
<1>5. p[1] = Partner(n) /\ p[2] = n /\ p[1] \in Reached /\ p[2] \in Reached
  BY <1>1, <1>4
<1>6. mode' = mode /\ Reached' = Reached /\ \A q : TimedOut(q)' = TimedOut(q)
  BY <1>2, SameNodes DEF TimedOut
<1>7. Range(results) \subseteq Range(results') /\ Tested \subseteq Tested'
  BY <1>3
<1>8. ASSUME NEW T \in 1 .. 2, OneShape(T)', pc' = pc PROVE Counted(T)' /\ Retested(T)'
  <2>1. OneShape(T) /\ Counted(T) /\ Retested(T)
    BY <1>2, <1>8, LateFacts DEF Late
  <2>2. speed[Partner(n)] = T
    BY <1>4, <2>1, ProvenIs DEF Retested
  <2>3. Bandwidth(p) = speed[n] /\ PairThreshold(p) = T
    BY <1>4, <1>5, <2>1, <2>2, BandwidthOf
  <2>4. \A h : /\ Proven(T, h) => Proven(T, h)'
               /\ Judged(T, h) => Judged(T, h)'
    BY <1>2, <1>7, JudgedStays
  <2>5. Judged(T, n)'
    <3>1. CASE Bandwidth(p) = Failed
      <4>1. speed[n] = -1 /\ speed' = speed
        BY <1>2, <2>3, <3>1, SameNodes DEF Failed
      <4>2. speed'[n] # T /\ speed'[n] \notin 0 .. T - 1
        BY <4>1
      <4>. QED
        BY <4>2 DEF Judged
    <3>2. CASE Bandwidth(p) # Failed
      <4>1. PICK r : r = [pair |-> p, bw |-> Bandwidth(p)]
        OBVIOUS
      <4>2. r \in Range(results') /\ p \in Tested'
        BY <1>3, <3>2, <4>1
      <4>3. r.pair[2] = n /\ r.bw = speed[n]
        BY <1>5, <2>3, <4>1
      <4>4. speed[n] = T => Proven(T, n)'
        BY <4>2, <4>3 DEF Proven
      <4>5. n \in HostsOf(Tested)'
        BY <1>5, <4>2 DEF HostsOf
      <4>. QED
        BY <1>2, <4>4, <4>5, SameNodes DEF Judged
    <3>. QED
      BY <3>1, <3>2
  <2>6. Counted(T)'
    <3>1. mode' = "serial" /\ results' # <<>> => threshold' = T
      <4>1. CASE Range(results') = Range(results) /\ threshold' = threshold
        <5>1. results' # <<>> => results # <<>>
          <6>1. DOMAIN results' = 1 .. Len(results') /\ Len(results') \in Nat /\ results' \in Seq(Result)
            BY LenProperties DEF Base, TypeOK
          <6>2. results' # <<>> => results'[1] \in Range(results')
            BY <6>1, EmptySeq DEF Range
          <6>. QED
            BY <4>1, <6>2, RangeOfNone
        <5>. QED
          BY <1>2, <1>6, <2>1, <4>1, <5>1 DEF Counted
      <4>2. CASE ~(Range(results') = Range(results) /\ threshold' = threshold)
        BY <1>3, <1>6, <2>3, <4>2
      <4>. QED
        BY <4>1, <4>2
    <3>2. Reached' \subseteq HostsOf(Range(todo') \union Tested' \union failed')
      BY <1>2, <1>6, <1>7, <2>1, HostsOfPairs DEF Counted
    <3>3. timeouts' = UNION {TimedOut(q)' : q \in failed'}
      BY <1>2, <1>6, <2>1 DEF Counted
    <3>. QED
      BY <1>2, <1>8, <2>1, <3>1, <3>2, <3>3 DEF Counted, Early
  <2>7. \A h \in good' : Proven(T, h)'
    BY <1>2, <2>1, <2>4 DEF Retested
  <2>8. ASSUME NEW h \in HostsOf(Tested)' PROVE h \in good' \/ h \in bad' \/ Judged(T, h)'
    <3>1. h \in HostsOf(Tested) \/ h = p[1] \/ h = p[2]
      BY <1>3, <2>8, HostsOfPairs DEF HostsOf
    <3>2. CASE h \in HostsOf(Tested)
      BY <1>2, <2>1, <2>4, <3>2 DEF Retested
    <3>3. CASE h = p[1]
      BY <1>2, <1>4, <1>5, <3>3
    <3>4. CASE h = p[2]
      BY <1>5, <2>5, <3>4
    <3>. QED
      BY <3>1, <3>2, <3>3, <3>4
  <2>9. good' # {} => \A m \in timeouts' : (pc' = "retest_timeout" /\ m \in again') \/ Judged(T, m)'
    BY <1>2, <1>8, <2>1, <2>4, <2>5 DEF Retested
  <2>10. good' # {} /\ pc' # "retest_timeout" =>
           \A m \in bad' \ good' : (pc' = "retest_low" /\ m \in again') \/ Judged(T, m)'
    BY <1>2, <1>8, <2>1, <2>4, <2>5 DEF Retested
  <2>. QED
    BY <1>2, <1>8, <2>6, <2>7, <2>8, <2>9, <2>10 DEF Retested
<1>. QED
  BY <1>2, <1>8 DEF ScoutInv, Early, Late

LEMMA ScoutStep == Base /\ Base' /\ ScoutInv /\ [Next]_vars => ScoutInv'
<1>. SUFFICES ASSUME Base, Base', ScoutInv, [Next]_vars PROVE ScoutInv'
  OBVIOUS
<1>1. CASE Reach
  BY <1>1, ReachScouts
<1>2. CASE PrintResults
  BY <1>2, PrintScouts
<1>3. CASE Classify
  BY <1>3, ClassifyScouts
<1>4. CASE RetestLow
  BY <1>4, RetestLowScouts
<1>5. CASE Report
  BY <1>5, ReportScouts
<1>6. ASSUME NEW i \in DOMAIN todo, Test(i) PROVE ScoutInv'
  BY <1>6, TestScouts
<1>7. ASSUME NEW i \in DOMAIN todo, TestRaises(i) PROVE ScoutInv'
  BY <1>7, TestRaisesScouts
<1>8. ASSUME NEW n \in Hosts, Retest(n) PROVE ScoutInv'
  BY <1>8, RetestScouts
<1>9. CASE UNCHANGED vars
  <2>1. /\ nodes' = nodes /\ results' = results /\ todo' = todo /\ thresholds' = thresholds
        /\ threshold' = threshold /\ timeouts' = timeouts /\ failed' = failed /\ good' = good
        /\ bad' = bad /\ again' = again /\ cleared' = cleared /\ accused' = accused /\ pc' = pc
    BY <1>9 DEF vars, report
  <2>2. /\ mode' = mode /\ Reached' = Reached /\ Tested' = Tested /\ speed' = speed
        /\ \A q : TimedOut(q)' = TimedOut(q)
    BY <2>1, SameNodes, SameResults DEF TimedOut
  <2>3. HostsOf(Tested)' = HostsOf(Tested) /\ Above(results)' = Above(results) /\ Below(results)' = Below(results)
    BY <2>1, <2>2, SameReport DEF HostsOf
  <2>4. ASSUME NEW T \in 1 .. 2, OneShape(T)'
        PROVE  /\ pc' \in Early \union Late => Counted(T)'
               /\ pc' \in Late => Retested(T)'
    <3>1. /\ pc \in Early \union Late => Counted(T)
          /\ pc \in Late => Retested(T)
      BY <2>1, <2>4, SameShape DEF ScoutInv
    <3>2. \A h : /\ Proven(T, h) => Proven(T, h)'
                 /\ Judged(T, h) => Judged(T, h)'
      BY <2>1, JudgedStays
    <3>3. Counted(T) => Counted(T)'
      BY <2>1, <2>2 DEF Counted
    <3>4. Retested(T) => Retested(T)'
      BY <2>1, <2>3, <3>2 DEF Retested
    <3>. QED
      BY <2>1, <3>1, <3>3, <3>4
  <2>. QED
    BY <2>4 DEF ScoutInv
<1>. QED
  BY <1>1, <1>2, <1>3, <1>4, <1>5, <1>6, <1>7, <1>8, <1>9 DEF Next

LEMMA PlainShape ==
  ASSUME Base, Plain, mode = "parallel" => Len(reachable) % 2 = 0
  PROVE  \E T \in 1 .. 2 : OneShape(T)
<1>1. PICK s \in {"A100", "H100"} : \A h \in Range(reachable) : shape[h] = s
  BY DEF Plain
<1>2. PICK T : T = IF s = "A100" THEN 1 ELSE 2
  OBVIOUS
<1>3. T \in 1 .. 2
  BY <1>2
<1>4. OneShape(T)
  BY <1>1, <1>2 DEF OneShape, Threshold, Reached
<1>. QED
  BY <1>3, <1>4

(* A node that is judged and sound is cleared, once the report is written. *)
LEMMA ReportTells ==
  ASSUME Base, ScoutInv, pc = "done", NEW T \in 1 .. 2, OneShape(T), NEW h \in Reached
  PROVE  /\ Proven(T, h) => h \in cleared
         /\ h \in HostsOf(Tested) /\ ~Proven(T, h) /\ mode = "serial" => h \in accused
         /\ h \in accused => h \in HostsOf(Tested) /\ h \notin cleared
<1>1. Counted(T) /\ cleared = Above(results) /\ accused = Below(results) \ Above(results)
  BY DEF ScoutInv, Late, Retested
<1>2. mode \in {"serial", "parallel"} /\ HostsOf(Tested) = Above(results) \union Below(results)
  BY BaseFacts, GoodAndBad DEF Base
<1>3. ASSUME NEW r \in Range(results)
      PROVE  /\ r.bw \in 0 .. T /\ Limit(r.pair) \in {0, T} /\ (mode = "serial" => Limit(r.pair) = T)
  <2>1. /\ r.pair \in Pair /\ r.pair[1] \in Reached /\ r.pair[2] \in Reached
        /\ r.bw \in 0 .. T /\ results # <<>>
    BY ResultOf
  <2>2. mode = "serial" => threshold = T
    BY <1>1, <2>1 DEF Counted
  <2>. QED
    BY <1>2, <2>1, <2>2, LimitOf
<1>4. Proven(T, h) => h \in cleared
  <2>1. SUFFICES ASSUME Proven(T, h) PROVE h \in Above(results)
    BY <1>1
  <2>2. PICK r \in Range(results) : (h = r.pair[1] \/ h = r.pair[2]) /\ r.bw = T
    BY <2>1 DEF Proven
  <2>3. r.bw >= Limit(r.pair)
    BY <1>3, <2>2
  <2>. QED
    BY <2>2, <2>3, WhoIsAbove
<1>5. ASSUME h \in HostsOf(Tested), ~Proven(T, h), mode = "serial" PROVE h \in accused
  <2>1. h \notin Above(results)
    <3>1. SUFFICES ASSUME h \in Above(results) PROVE FALSE
      OBVIOUS
    <3>2. PICK r \in Range(results) : (h = r.pair[1] \/ h = r.pair[2]) /\ r.bw >= Limit(r.pair)
      BY <3>1, WhoIsAbove
    <3>3. r.bw = T
      BY <1>3, <1>5, <3>2
    <3>. QED
      BY <1>5, <3>2, <3>3 DEF Proven
  <2>. QED
    BY <1>1, <1>2, <1>5, <2>1
<1>. QED
  BY <1>1, <1>2, <1>4, <1>5

LEMMA SoundAreCleared ==
  ASSUME Base, ScoutInv
  PROVE  GoodNodesCleared
<1>1. SUFFICES ASSUME Plain, good # {}, mode = "parallel" => Len(reachable) % 2 = 0,
                      NEW h \in Reached, Sound(h)
               PROVE  \/ h \in cleared
                      \/ mode = "serial" /\ h \notin accused /\ \E p \in failed : p[1] = h
  BY DEF GoodNodesCleared, Reached
<1>2. PICK T \in 1 .. 2 : OneShape(T)
  BY <1>1, PlainShape
<1>3. Counted(T) /\ Retested(T) /\ pc = "done" /\ mode \in {"serial", "parallel"}
  BY <1>1, <1>2, BaseFacts DEF ScoutInv, Late, Plain, Base
<1>4. speed[h] = T
  BY <1>1, <1>2 DEF Sound, OneShape
<1>5. Judged(T, h) => h \in cleared
  BY <1>2, <1>3, <1>4, ReportTells DEF Judged
<1>6. h \in HostsOf(Tested) => h \in cleared
  <2>1. h \in good => h \in cleared
    BY <1>2, <1>3, ReportTells DEF Retested
  <2>2. h \in bad \ good => Judged(T, h)
    BY <1>1, <1>3 DEF Retested
  <2>. QED
    BY <1>3, <1>5, <2>1, <2>2 DEF Retested
<1>7. ASSUME h \notin HostsOf(Tested)
      PROVE  \/ h \in cleared
             \/ mode = "serial" /\ h \notin accused /\ \E p \in failed : p[1] = h
  <2>1. PICK p \in failed : h = p[1] \/ h = p[2]
    <3>1. h \in HostsOf(Range(todo) \union Tested \union failed) /\ Range(todo) = {}
      BY <1>3, RangeOfNone DEF Counted
    <3>. QED
      BY <1>7, <3>1, HostsOfPairs
  <2>2. h \notin accused
    BY <1>2, <1>3, <1>7, ReportTells
  <2>3. CASE h = p[2] \/ mode = "parallel"
    <3>1. h \in timeouts
      BY <1>3, <2>1, <2>3 DEF Counted, TimedOut
    <3>2. Judged(T, h)
      BY <1>1, <1>3, <3>1 DEF Retested
    <3>. QED
      BY <1>5, <3>2
  <2>4. CASE ~(h = p[2] \/ mode = "parallel")
    BY <1>3, <2>1, <2>2, <2>4
  <2>. QED
    BY <2>3, <2>4
<1>. QED
  BY <1>6, <1>7

LEMMA SlowAreReported ==
  ASSUME Base, ScoutInv
  PROVE  SlowNodeReported
<1>1. SUFFICES ASSUME Plain, mode = "serial", NEW h \in Reached, Slow(h)
               PROVE  \/ h \in accused
                      \/ \E p \in failed : p[1] = h \/ (p[2] = h /\ good = {})
  BY DEF SlowNodeReported, Reached
<1>2. PICK T \in 1 .. 2 : OneShape(T)
  BY <1>1, PlainShape
<1>3. Counted(T) /\ Retested(T) /\ pc = "done"
  BY <1>1, <1>2 DEF ScoutInv, Late, Plain
<1>4. speed[h] \in 0 .. T - 1
  BY <1>1, <1>2 DEF Slow, OneShape
<1>5. h \in HostsOf(Tested) => h \in accused
  <2>1. ~Proven(T, h)
    BY <1>2, <1>4, ProvenIs
  <2>. QED
    BY <1>1, <1>2, <1>3, <2>1, ReportTells
<1>6. ASSUME h \notin HostsOf(Tested)
      PROVE  \E p \in failed : p[1] = h \/ (p[2] = h /\ good = {})
  <2>1. PICK p \in failed : h = p[1] \/ h = p[2]
    <3>1. h \in HostsOf(Range(todo) \union Tested \union failed) /\ Range(todo) = {}
      BY <1>3, RangeOfNone DEF Counted
    <3>. QED
      BY <1>6, <3>1, HostsOfPairs
  <2>2. CASE h = p[2] /\ good # {}
    <3>1. h \in timeouts
      BY <1>1, <1>3, <2>1, <2>2 DEF Counted, TimedOut
    <3>2. Judged(T, h)
      BY <1>3, <2>2, <3>1 DEF Retested
    <3>. QED
      BY <1>4, <1>6, <3>2 DEF Judged
  <2>. QED
    BY <2>1, <2>2
<1>. QED
  BY <1>5, <1>6

(* Where all nodes are of one known shape, and some pair did well, every   *)
(* sound node is called good.                                              *)
THEOREM SoundNodesAreCleared == Spec => []GoodNodesCleared
<1>1. Base /\ ScoutInv => GoodNodesCleared
  BY SoundAreCleared
<1>. QED
  BY <1>1, BaseStart, BaseStep, ScoutStart, ScoutStep, PTL DEF Spec

(* Without --parallel every slow node that was measured is called bad.     *)
THEOREM SlowNodesAreReported == Spec => []SlowNodeReported
<1>1. Base /\ ScoutInv => SlowNodeReported
  BY SlowAreReported
<1>. QED
  BY <1>1, BaseStart, BaseStep, ScoutStart, ScoutStep, PTL DEF Spec
=============================================================================
