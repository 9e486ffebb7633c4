---------------------------- MODULE FoldTheorems ----------------------------
(***************************************************************************)
(* What the folds of the community modules compute, for sets of any size.  *)
(* A fold is a function on the subsets of a set, defined by recursion; the *)
(* lemmas are stated for functions and sets in place of operators, so that *)
(* each fold of the models is an instance.  Every induction here takes a   *)
(* smallest counterexample, which strict inclusion of finite sets and the  *)
(* order of the natural numbers both have.                                 *)
(***************************************************************************)
EXTENDS FiniteSetsExt, Functions, FiniteSetTheorems, WellFoundedInduction, TLAPS

(* A set of subsets of a finite set has one that includes no other. *)
LEMMA SmallestSubset ==
  ASSUME NEW S, IsFiniteSet(S), NEW T, T \subseteq SUBSET S, T # {}
  PROVE  \E x \in T : \A y \in T : y \subseteq x => y = x
<1>1. IsWellFoundedOn(StrictSubsetOrdering(S), FiniteSubsetsOf(S))
  BY FS_StrictSubsetOrderingWellFounded
<1>2. FiniteSubsetsOf(S) = SUBSET S
  BY FS_FiniteSubsetsOfFinite
<1>3. \E x \in T : \A y \in T : ~ (<<y, x>> \in StrictSubsetOrdering(S))
  BY <1>1, <1>2, WFMin
<1>. QED
  BY <1>3 DEF StrictSubsetOrdering

(* A set of natural numbers has a least one. *)
LEMMA SmallestNumber ==
  ASSUME NEW T, T \subseteq Nat, T # {}
  PROVE  \E n \in T : \A m \in T : n <= m
<1>. DEFINE R == {p \in Nat \X Nat : p[1] < p[2]}
<1>1. IsWellFoundedOn(R, Nat)
  BY NatLessThanWellFounded DEF OpToRel
<1>. HIDE DEF R
<1>2. PICK n \in T : \A m \in T : ~ (<<m, n>> \in R)
  BY <1>1, WFMin
<1>3. ASSUME NEW m \in T PROVE n <= m
  <2>1. <<m, n>> \notin R /\ m \in Nat /\ n \in Nat
    BY <1>2
  <2>. QED
    BY <2>1 DEF R
<1>. QED
  BY <1>3

-----------------------------------------------------------------------------
(* Folds in general: c[s] is the element that is taken out of s, h what is *)
(* made of it and of the fold of the rest.                                 *)
IsFold(g, D, V, base, c, h) ==
    /\ g \in [SUBSET D -> V]
    /\ \A s \in SUBSET D : g[s] = IF s = {} THEN base ELSE h[<<c[s], g[s \ {c[s]}]>>]

Takes(c, D) == \A s \in SUBSET D : s # {} => c[s] \in s

LEMMA FoldsAgree ==
  ASSUME NEW S, IsFiniteSet(S), NEW V, NEW base, NEW c, NEW h, Takes(c, S),
         NEW D \in SUBSET S, NEW E \in SUBSET S, NEW g, NEW k,
         IsFold(g, D, V, base, c, h), IsFold(k, E, V, base, c, h),
         NEW s \in (SUBSET D) \cap (SUBSET E)
  PROVE  g[s] = k[s]
<1>. DEFINE T == {t \in (SUBSET D) \cap (SUBSET E) : g[t] # k[t]}
<1>1. SUFFICES ASSUME T # {} PROVE FALSE
  OBVIOUS
<1>2. T \subseteq SUBSET S
  OBVIOUS
<1>. HIDE DEF T
<1>3. PICK x \in T : \A y \in T : y \subseteq x => y = x
  BY <1>1, <1>2, SmallestSubset
<1>. USE DEF T
<1>4. x # {}
  BY <1>3 DEF IsFold
<1>5. c[x] \in x /\ x \ {c[x]} \in (SUBSET D) \cap (SUBSET E)
  BY <1>4 DEF Takes
<1>6. x \ {c[x]} \notin T
  BY <1>3, <1>5
<1>7. g[x \ {c[x]}] = k[x \ {c[x]}]
  BY <1>5, <1>6
<1>8. g[x] = h[<<c[x], g[x \ {c[x]}]>>] /\ k[x] = h[<<c[x], k[x \ {c[x]}]>>]
  BY <1>4 DEF IsFold
<1>. QED
  BY <1>7, <1>8

LEMMA FoldExists ==
  ASSUME NEW S, IsFiniteSet(S), NEW V, NEW base \in V, NEW c, NEW h \in [S \X V -> V],
         Takes(c, S)
  PROVE  \E g : IsFold(g, S, V, base, c, h)
<1>. DEFINE T == {D \in SUBSET S : ~ \E g : IsFold(g, D, V, base, c, h)}
<1>1. SUFFICES ASSUME T # {} PROVE FALSE
  OBVIOUS
<1>2. T \subseteq SUBSET S
  OBVIOUS
<1>. HIDE DEF T
<1>3. PICK D \in T : \A E \in T : E \subseteq D => E = D
  BY <1>1, <1>2, SmallestSubset
<1>4. D \in SUBSET S /\ ~ \E g : IsFold(g, D, V, base, c, h)
  BY DEF T
<1>5. D # {}
  <2>1. SUFFICES ASSUME D = {} PROVE FALSE
    OBVIOUS
  <2>2. IsFold([s \in SUBSET D |-> base], D, V, base, c, h)
    BY <2>1 DEF IsFold
  <2>. QED
    BY <1>4, <2>2
<1>6. PICK G : \A U \in SUBSET D : U # D => IsFold(G[U], U, V, base, c, h)
  <2>1. \A U \in SUBSET D : U # D => \E g : IsFold(g, U, V, base, c, h)
    BY <1>2, <1>3 DEF T
  <2>2. \A U \in SUBSET D : U # D =>
           IsFold([W \in SUBSET D |-> CHOOSE g : IsFold(g, W, V, base, c, h)][U], U, V, base, c, h)
    BY <2>1
  <2>. QED
    BY <2>2
<1>7. PICK rest : rest = D \ {c[D]}
  OBVIOUS
<1>8. c[D] \in D /\ rest \in SUBSET D /\ rest # D
  BY <1>4, <1>5, <1>7 DEF Takes
<1>9. PICK k : k = [s \in SUBSET D |-> IF s = D THEN h[<<c[D], G[rest][rest]>>] ELSE G[s][s]]
  OBVIOUS
<1>10. k[D] = h[<<c[D], G[rest][rest]>>] /\ \A s \in SUBSET D : s # D => k[s] = G[s][s]
  BY <1>9
<1>11. \A s \in SUBSET D : s # D => k[s] \in V
  BY <1>6, <1>10 DEF IsFold
<1>12. k[rest] = G[rest][rest]
  BY <1>8, <1>10
<1>13. k[D] \in V
  <2>1. <<c[D], k[rest]>> \in S \X V
    BY <1>4, <1>8, <1>11
  <2>. QED
    BY <1>10, <1>12, <2>1
<1>14. ASSUME NEW s \in SUBSET D
       PROVE  k[s] = IF s = {} THEN base ELSE h[<<c[s], k[s \ {c[s]}]>>]
  <2>1. CASE s = D
    BY <2>1, <1>5, <1>7, <1>10, <1>12
  <2>2. CASE s # D /\ s = {}
    BY <2>2, <1>6, <1>10 DEF IsFold
  <2>3. CASE s # D /\ s # {}
    <3>1. PICK r : r = s \ {c[s]}
      OBVIOUS
    <3>2. /\ r \in SUBSET D /\ r # D /\ r \in SUBSET s /\ s \in SUBSET s /\ r \in SUBSET r
          /\ s \in SUBSET S /\ r \in SUBSET S
      BY <1>4, <2>3, <3>1 DEF Takes
    <3>3. IsFold(G[s], s, V, base, c, h) /\ IsFold(G[r], r, V, base, c, h)
      BY <2>3, <3>2, <1>6
    <3>4. r \in (SUBSET s) \cap (SUBSET r)
      BY <3>2
    <3>5. G[s][r] = G[r][r]
      <4>1. ASSUME NEW f, NEW g, IsFold(f, s, V, base, c, h), IsFold(g, r, V, base, c, h)
            PROVE  f[r] = g[r]
        BY <3>2, <3>4, <4>1, FoldsAgree
      <4>. QED
        BY <3>3, <4>1
    <3>6. G[s][s] = h[<<c[s], G[s][r]>>]
      BY <2>3, <3>1, <3>2, <3>3 DEF IsFold
    <3>. QED
      BY <2>3, <3>1, <3>2, <3>5, <3>6, <1>10
  <2>. QED
    BY <2>1, <2>2, <2>3
<1>15. k \in [SUBSET D -> V]
  BY <1>9, <1>10, <1>11, <1>13
<1>. QED
  BY <1>4, <1>14, <1>15 DEF IsFold

(* Whatever satisfies the equation of a fold is the fold. *)
Obeys(k, D, V, base, c, h) ==
    /\ k[{}] = base
    /\ \A s \in SUBSET D :
         s # {} /\ k[s \ {c[s]}] \in V => k[s] = h[<<c[s], k[s \ {c[s]}]>>]

LEMMA FoldUnique ==
  ASSUME NEW S, IsFiniteSet(S), NEW V, NEW base, NEW c, NEW h, Takes(c, S),
         NEW g, IsFold(g, S, V, base, c, h), NEW D \in SUBSET S, NEW k,
         Obeys(k, D, V, base, c, h)
  PROVE  \A s \in SUBSET D : k[s] = g[s]
<1>. DEFINE T == {s \in SUBSET D : k[s] # g[s]}
<1>1. SUFFICES ASSUME T # {} PROVE FALSE
  OBVIOUS
<1>2. T \subseteq SUBSET S
  OBVIOUS
<1>. HIDE DEF T
<1>3. PICK x \in T : \A y \in T : y \subseteq x => y = x
  BY <1>1, <1>2, SmallestSubset
<1>4. x \in SUBSET D /\ x \in SUBSET S /\ k[x] # g[x]
  BY <1>2 DEF T
<1>5. x # {}
  BY <1>4 DEF IsFold, Obeys
<1>6. c[x] \in x /\ x \ {c[x]} \in SUBSET D /\ x \ {c[x]} \in SUBSET S
  BY <1>4, <1>5 DEF Takes
<1>7. k[x \ {c[x]}] = g[x \ {c[x]}]
  BY <1>3, <1>6 DEF T
<1>8. g[x \ {c[x]}] \in V
  BY <1>6 DEF IsFold
<1>9. g[x] = h[<<c[x], g[x \ {c[x]}]>>]
  BY <1>4, <1>5 DEF IsFold
<1>. QED
  BY <1>4, <1>5, <1>7, <1>8, <1>9 DEF Obeys

-----------------------------------------------------------------------------
(* Sums of natural numbers over a finite set *)

Natural(f, S) == \A x \in S : f[x] \in Nat
Chosen(s) == CHOOSE x \in s : TRUE

(* SumFunctionOnSet adds one chosen element after the other. *)
LEMMA SumRecursion ==
  ASSUME NEW S, IsFiniteSet(S), NEW f, Natural(f, S)
  PROVE  /\ SumFunctionOnSet(f, S) \in Nat
         /\ SumFunctionOnSet(f, S) =
              IF S = {} THEN 0 ELSE f[Chosen(S)] + SumFunctionOnSet(f, S \ {Chosen(S)})
<1>. DEFINE IsSum(k, D) ==
              k = [s \in SUBSET D |-> IF s = {} THEN 0 ELSE f[Chosen(s)] + k[s \ {Chosen(s)}]]
<1>1. PICK c : c = [s \in SUBSET S |-> Chosen(s)]
  OBVIOUS
<1>2. PICK h : h = [p \in S \X Nat |-> f[p[1]] + p[2]]
  OBVIOUS
<1>3. Takes(c, S)
  BY <1>1 DEF Takes, Chosen
<1>4. h \in [S \X Nat -> Nat]
  BY <1>2 DEF Natural
<1>5. PICK g : IsFold(g, S, Nat, 0, c, h)
  BY <1>3, <1>4, FoldExists
<1>6. \A s \in SUBSET S : s # {} => Chosen(s) \in S /\ s \ {Chosen(s)} \in SUBSET S /\ c[s] = Chosen(s)
  BY <1>1 DEF Chosen
<1>7. ASSUME NEW D \in SUBSET S PROVE SumFunctionOnSet(f, D) = g[D]
  <2>1. SumFunctionOnSet(f, D) = (CHOOSE k : IsSum(k, D))[D]
    BY DEF SumFunctionOnSet, FoldFunctionOnSet, MapThenFoldSet, Chosen
  <2>2. PICK r : r = [s \in SUBSET D |-> g[s]]
    OBVIOUS
  <2>3. IsSum(r, D)
    <3>1. ASSUME NEW s \in SUBSET D
          PROVE  r[s] = IF s = {} THEN 0 ELSE f[Chosen(s)] + r[s \ {Chosen(s)}]
      <4>1. s \in SUBSET S
        OBVIOUS
      <4>2. CASE s = {}
        BY <4>1, <4>2, <2>2, <1>5 DEF IsFold
      <4>3. CASE s # {}
        <5>1. Chosen(s) \in s /\ s \ {Chosen(s)} \in SUBSET D /\ s \ {Chosen(s)} \in SUBSET S
          BY <4>1, <4>3 DEF Chosen
        <5>2. r[s] = g[s] /\ r[s \ {Chosen(s)}] = g[s \ {Chosen(s)}]
          BY <2>2, <5>1
        <5>3. g[s] = h[<<Chosen(s), g[s \ {Chosen(s)}]>>] /\ g[s \ {Chosen(s)}] \in Nat
          BY <4>1, <4>3, <5>1, <1>5, <1>6 DEF IsFold
        <5>4. <<Chosen(s), g[s \ {Chosen(s)}]>> \in S \X Nat
          BY <5>1, <5>3
        <5>. QED
          BY <4>3, <5>2, <5>3, <5>4, <1>2
      <4>. QED
        BY <4>2, <4>3
    <3>. QED
      BY <3>1, <2>2
  <2>4. PICK k : k = CHOOSE x : IsSum(x, D)
    OBVIOUS
  <2>5. IsSum(k, D)
    BY <2>3, <2>4
  <2>6. k[{}] = 0
    BY <2>5
  <2>7. ASSUME NEW s \in SUBSET D, s # {}, k[s \ {c[s]}] \in Nat
        PROVE  k[s] = h[<<c[s], k[s \ {c[s]}]>>]
    <3>1. c[s] = Chosen(s) /\ c[s] \in S
      BY <2>7, <1>6
    <3>2. k[s] = f[c[s]] + k[s \ {c[s]}]
      BY <2>5, <2>7, <3>1
    <3>3. <<c[s], k[s \ {c[s]}]>> \in S \X Nat
      BY <2>7, <3>1
    <3>. QED
      BY <3>2, <3>3, <1>2
  <2>8. Obeys(k, D, Nat, 0, c, h)
    BY <2>6, <2>7 DEF Obeys
  <2>9. \A s \in SUBSET D : k[s] = g[s]
    <3>1. IsFiniteSet(S) /\ Takes(c, S) /\ IsFold(g, S, Nat, 0, c, h) /\ D \in SUBSET S
      BY <1>3, <1>5
    <3>. HIDE DEF IsSum
    <3>. QED
      BY ONLY <2>8, <3>1, FoldUnique
  <2>. QED
    BY <2>1, <2>4, <2>9
<1>8. S \in SUBSET S
  OBVIOUS
<1>9. SumFunctionOnSet(f, S) = g[S] /\ g[S] \in Nat
  BY <1>5, <1>7, <1>8 DEF IsFold
<1>10. CASE S = {}
  BY <1>9, <1>10, <1>5 DEF IsFold
<1>11. CASE S # {}
  <2>1. Chosen(S) \in S /\ S \ {Chosen(S)} \in SUBSET S /\ c[S] = Chosen(S)
    BY <1>6, <1>11
  <2>2. SumFunctionOnSet(f, S \ {Chosen(S)}) = g[S \ {Chosen(S)}] /\ g[S \ {Chosen(S)}] \in Nat
    BY <1>5, <1>7, <2>1 DEF IsFold
  <2>3. g[S] = h[<<Chosen(S), g[S \ {Chosen(S)}]>>]
    BY <1>5, <1>8, <1>11, <2>1 DEF IsFold
  <2>4. <<Chosen(S), g[S \ {Chosen(S)}]>> \in S \X Nat
    BY <2>1, <2>2
  <2>. QED
    BY <1>9, <1>11, <2>2, <2>3, <2>4, <1>2
<1>. QED
  BY <1>9, <1>10, <1>11

LEMMA SumOfNone == \A f : SumFunctionOnSet(f, {}) = 0
  BY SumRecursion, FS_EmptySet DEF Natural

(* The order of the additions does not matter. *)
LEMMA SumAdd ==
  ASSUME NEW S, IsFiniteSet(S), NEW f, NEW x, x \notin S, Natural(f, S \union {x})
  PROVE  SumFunctionOnSet(f, S \union {x}) = f[x] + SumFunctionOnSet(f, S)
<1>1. PICK A : A = S \union {x}
  OBVIOUS
<1>2. IsFiniteSet(A)
  BY <1>1, FS_AddElement
<1>3. ASSUME NEW U \in SUBSET A
      PROVE  /\ IsFiniteSet(U) /\ Natural(f, U)
             /\ SumFunctionOnSet(f, U) \in Nat
             /\ U # {} => /\ Chosen(U) \in U
                          /\ SumFunctionOnSet(f, U) = f[Chosen(U)] + SumFunctionOnSet(f, U \ {Chosen(U)})
  <2>1. IsFiniteSet(U)
    BY <1>2, FS_Subset
  <2>2. Natural(f, U)
    BY <1>1 DEF Natural
  <2>3. U # {} => Chosen(U) \in U
    BY DEF Chosen
  <2>. QED
    BY <2>1, <2>2, <2>3, SumRecursion
<1>. DEFINE T == {U \in SUBSET A : \E y \in A \ U :
                    SumFunctionOnSet(f, U \union {y}) # f[y] + SumFunctionOnSet(f, U)}
<1>4. SUFFICES ASSUME T # {} PROVE FALSE
  BY <1>1
<1>5. T \subseteq SUBSET A
  OBVIOUS
<1>. HIDE DEF T
<1>6. PICK U \in T : \A W \in T : W \subseteq U => W = U
  BY <1>2, <1>4, <1>5, SmallestSubset
<1>7. PICK y \in A \ U : SumFunctionOnSet(f, U \union {y}) # f[y] + SumFunctionOnSet(f, U)
  BY DEF T
<1>8. U \in SUBSET A
  BY <1>5
<1>9. PICK W : W = U \union {y}
  OBVIOUS
<1>10. PICK z : z = Chosen(W)
  OBVIOUS
<1>11. /\ W \in SUBSET A /\ z \in W
       /\ SumFunctionOnSet(f, W) = f[z] + SumFunctionOnSet(f, W \ {z})
  BY <1>3, <1>7, <1>8, <1>9, <1>10
<1>12. z # y
  <2>1. SUFFICES ASSUME z = y PROVE FALSE
    OBVIOUS
  <2>2. W \ {z} = U
    BY <1>7, <1>9, <2>1
  <2>. QED
    BY <1>7, <1>9, <1>11, <2>1, <2>2
<1>13. PICK R : R = U \ {z}
  OBVIOUS
<1>14. /\ R \in SUBSET A /\ R \subseteq U /\ R # U /\ y \in A \ R /\ z \in A \ R
       /\ W \ {z} = R \union {y} /\ U = R \union {z}
  BY <1>7, <1>8, <1>9, <1>11, <1>12, <1>13
<1>15. \A k \in A \ R : SumFunctionOnSet(f, R \union {k}) = f[k] + SumFunctionOnSet(f, R)
  BY <1>6, <1>14 DEF T
<1>16. f[y] \in Nat /\ f[z] \in Nat /\ SumFunctionOnSet(f, R) \in Nat
  BY <1>1, <1>3, <1>14 DEF Natural
<1>17. /\ SumFunctionOnSet(f, W \ {z}) = f[y] + SumFunctionOnSet(f, R)
       /\ SumFunctionOnSet(f, U) = f[z] + SumFunctionOnSet(f, R)
  BY <1>14, <1>15
<1>. QED
  BY <1>7, <1>9, <1>11, <1>16, <1>17

LEMMA SumRemove ==
  ASSUME NEW S, IsFiniteSet(S), NEW f, Natural(f, S), NEW x \in S
  PROVE  SumFunctionOnSet(f, S) = f[x] + SumFunctionOnSet(f, S \ {x})
<1>1. IsFiniteSet(S \ {x}) /\ S = (S \ {x}) \union {x}
  BY FS_RemoveElement
<1>. QED
  BY <1>1, SumAdd, Zenon DEF Natural

(* A sum is no smaller when no summand is. *)
LEMMA SumMonotone ==
  ASSUME NEW S, IsFiniteSet(S), NEW f, Natural(f, S), NEW g, Natural(g, S),
         \A x \in S : f[x] <= g[x]
  PROVE  SumFunctionOnSet(f, S) <= SumFunctionOnSet(g, S)
<1>. DEFINE T == {U \in SUBSET S : ~ SumFunctionOnSet(f, U) <= SumFunctionOnSet(g, U)}
<1>1. SUFFICES ASSUME T # {} PROVE FALSE
  OBVIOUS
<1>2. T \subseteq SUBSET S
  OBVIOUS
<1>. HIDE DEF T
<1>3. PICK U \in T : \A W \in T : W \subseteq U => W = U
  BY <1>1, <1>2, SmallestSubset
<1>4. U \in SUBSET S /\ ~ SumFunctionOnSet(f, U) <= SumFunctionOnSet(g, U)
  BY <1>2 DEF T
<1>5. U # {}
  BY <1>4, SumOfNone
<1>6. PICK x : x \in U
  BY <1>5
<1>7. U \ {x} \in SUBSET S /\ U \ {x} # U
  BY <1>4, <1>6
<1>8. SumFunctionOnSet(f, U \ {x}) <= SumFunctionOnSet(g, U \ {x})
  BY <1>3, <1>7 DEF T
<1>9. IsFiniteSet(U) /\ IsFiniteSet(U \ {x})
  BY <1>4, <1>7, FS_Subset
<1>10. Natural(f, U) /\ Natural(g, U) /\ Natural(f, U \ {x}) /\ Natural(g, U \ {x})
  BY <1>4 DEF Natural
<1>11. /\ SumFunctionOnSet(f, U) = f[x] + SumFunctionOnSet(f, U \ {x})
       /\ SumFunctionOnSet(g, U) = g[x] + SumFunctionOnSet(g, U \ {x})
  BY <1>6, <1>9, <1>10, SumRemove
<1>12. SumFunctionOnSet(f, U \ {x}) \in Nat /\ SumFunctionOnSet(g, U \ {x}) \in Nat
  BY <1>9, <1>10, SumRecursion
<1>13. f[x] \in Nat /\ g[x] \in Nat /\ f[x] <= g[x]
  BY <1>4, <1>6 DEF Natural
<1>. QED
  BY <1>4, <1>8, <1>11, <1>12, <1>13

(* Equal summands have equal sums, and one summand more counts once. *)
LEMMA SumSame ==
  ASSUME NEW S, IsFiniteSet(S), NEW f, Natural(f, S), NEW g, \A x \in S : f[x] = g[x]
  PROVE  SumFunctionOnSet(f, S) = SumFunctionOnSet(g, S)
<1>1. Natural(g, S)
  BY DEF Natural
<1>2. /\ SumFunctionOnSet(f, S) <= SumFunctionOnSet(g, S)
      /\ SumFunctionOnSet(g, S) <= SumFunctionOnSet(f, S)
  <2>1. \A x \in S : f[x] <= g[x] /\ g[x] <= f[x]
    BY DEF Natural
  <2>. QED
    BY <1>1, <2>1, SumMonotone
<1>3. SumFunctionOnSet(f, S) \in Nat /\ SumFunctionOnSet(g, S) \in Nat
  BY <1>1, SumRecursion
<1>. QED
  BY <1>2, <1>3

LEMMA SumIncrease ==
  ASSUME NEW S, IsFiniteSet(S), NEW f, Natural(f, S), NEW x \in S, NEW n \in Nat,
         NEW g, g[x] = f[x] + n, \A y \in S \ {x} : g[y] = f[y]
  PROVE  SumFunctionOnSet(g, S) = SumFunctionOnSet(f, S) + n
<1>1. Natural(g, S) /\ Natural(f, S \ {x}) /\ IsFiniteSet(S \ {x})
  BY FS_RemoveElement DEF Natural
<1>2. SumFunctionOnSet(f, S \ {x}) = SumFunctionOnSet(g, S \ {x})
  BY <1>1, SumSame
<1>3. /\ SumFunctionOnSet(f, S) = f[x] + SumFunctionOnSet(f, S \ {x})
      /\ SumFunctionOnSet(g, S) = g[x] + SumFunctionOnSet(g, S \ {x})
  BY <1>1, SumRemove
<1>4. SumFunctionOnSet(f, S \ {x}) \in Nat /\ f[x] \in Nat
  BY <1>1, SumRecursion DEF Natural
<1>. QED
  BY <1>2, <1>3, <1>4

LEMMA SumOfZeros ==
  ASSUME NEW S, IsFiniteSet(S), NEW f, \A x \in S : f[x] = 0
  PROVE  SumFunctionOnSet(f, S) = 0
<1>. DEFINE T == {U \in SUBSET S : SumFunctionOnSet(f, U) # 0}
<1>1. SUFFICES ASSUME T # {} PROVE FALSE
  OBVIOUS
<1>2. T \subseteq SUBSET S
  OBVIOUS
<1>. HIDE DEF T
<1>3. PICK U \in T : \A W \in T : W \subseteq U => W = U
  BY <1>1, <1>2, SmallestSubset
<1>4. U \in SUBSET S /\ SumFunctionOnSet(f, U) # 0
  BY <1>2 DEF T
<1>5. PICK x : x \in U
  BY <1>4, SumOfNone
<1>6. U \ {x} \in SUBSET S /\ U \ {x} # U
  BY <1>4, <1>5
<1>7. SumFunctionOnSet(f, U \ {x}) = 0
  BY <1>3, <1>6 DEF T
<1>8. IsFiniteSet(U) /\ Natural(f, U) /\ f[x] = 0
  BY <1>4, <1>5, FS_Subset DEF Natural
<1>. QED
  BY <1>4, <1>5, <1>7, <1>8, SumRemove

-----------------------------------------------------------------------------
(* Folds over sequences, which take the largest index first *)

LEMMA LargestIndex ==
  ASSUME NEW n \in Nat, NEW s \in SUBSET (1 .. n), s # {}
  PROVE  Max(s) \in s /\ \A i \in s : i <= Max(s)
<1>. DEFINE T == {m \in Nat : m <= n /\ n - m \in s}
<1>1. T \subseteq Nat /\ T # {}
  <2>1. PICK i \in s : TRUE
    OBVIOUS
  <2>2. n - i \in Nat /\ n - i <= n /\ n - (n - i) = i
    BY <2>1
  <2>. QED
    BY <2>1, <2>2
<1>. HIDE DEF T
<1>2. PICK m \in T : \A k \in T : m <= k
  BY <1>1, SmallestNumber
<1>. USE DEF T
<1>3. n - m \in s
  BY <1>2
<1>4. ASSUME NEW i \in s PROVE n - m >= i
  <2>1. n - i \in Nat /\ n - i <= n /\ n - (n - i) = i /\ m \in Nat
    BY <1>2
  <2>2. m <= n - i
    BY <1>2, <2>1
  <2>. QED
    BY <2>1, <2>2
<1>5. \E x \in s : \A y \in s : x >= y
  BY <1>3, <1>4
<1>6. Max(s) \in s /\ \A y \in s : Max(s) >= y
  BY <1>5, Zenon DEF Max
<1>. QED
  BY <1>6

(* The fold of a sequence is the last of a series of values, one for each  *)
(* element.                                                                *)
InOrder(v, n, V, base, h) ==
    /\ v \in [0 .. n -> V] /\ v[0] = base
    /\ \A i \in 1 .. n : v[i] = h[<<i, v[i - 1]>>]

TakesLast(c, n) == \A s \in SUBSET (1 .. n) : s # {} => c[s] = Max(s)

HasSeries(n, V, base, h, c) ==
    \E v : /\ InOrder(v, n, V, base, h)
           /\ \A k : Obeys(k, 1 .. n, V, base, c, h) => k[1 .. n] = v[n]

LEMMA FoldInOrder ==
  ASSUME NEW n \in Nat, NEW V, NEW base \in V, NEW h \in [(1 .. n) \X V -> V],
         NEW c, TakesLast(c, n)
  PROVE  HasSeries(n, V, base, h, c)
<1>1. IsFiniteSet(1 .. n)
  BY FS_Interval
<1>2. \A s \in SUBSET (1 .. n) : s # {} => c[s] = Max(s) /\ Max(s) \in s /\ \A i \in s : i <= Max(s)
  BY LargestIndex DEF TakesLast
<1>3. Takes(c, 1 .. n)
  BY <1>2 DEF Takes
<1>4. PICK g : IsFold(g, 1 .. n, V, base, c, h)
  BY <1>1, <1>3, FoldExists
<1>5. PICK v : v = [i \in 0 .. n |-> g[1 .. i]]
  OBVIOUS
<1>6. \A i \in 0 .. n : 1 .. i \in SUBSET (1 .. n)
  OBVIOUS
<1>7. v \in [0 .. n -> V]
  BY <1>4, <1>5, <1>6 DEF IsFold
<1>8. v[0] = base
  <2>1. 1 .. 0 = {} /\ 0 \in 0 .. n
    OBVIOUS
  <2>. QED
    BY <1>4, <1>5, <1>6, <2>1 DEF IsFold
<1>9. ASSUME NEW i \in 1 .. n PROVE v[i] = h[<<i, v[i - 1]>>]
  <2>1. PICK s, t : s = 1 .. i /\ t = 1 .. i - 1
    OBVIOUS
  <2>2. s \in SUBSET (1 .. n) /\ s # {} /\ i \in s /\ i \in 0 .. n /\ i - 1 \in 0 .. n
    <3>1. i \in s /\ i \in 0 .. n /\ i - 1 \in 0 .. n
      BY <2>1
    <3>2. s \in SUBSET (1 .. n)
      BY <1>6, <2>1, <3>1
    <3>. QED
      BY <3>1, <3>2
  <2>3. Max(s) = i
    <3>1. Max(s) \in 1 .. i /\ i <= Max(s)
      BY <1>2, <2>1, <2>2
    <3>. QED
      BY <3>1
  <2>4. s \ {i} = t
    BY <2>1
  <2>5. g[s] = h[<<c[s], g[s \ {c[s]}]>>]
    BY <1>4, <2>2 DEF IsFold
  <2>6. c[s] = i
    BY <1>2, <2>2, <2>3
  <2>7. v[i] = g[s] /\ v[i - 1] = g[t]
    BY <1>5, <2>1, <2>2
  <2>. QED
    BY <2>4, <2>5, <2>6, <2>7
<1>10. ASSUME NEW k, Obeys(k, 1 .. n, V, base, c, h) PROVE k[1 .. n] = v[n]
  <2>1. \A s \in SUBSET (1 .. n) : k[s] = g[s]
    <3>1. PICK S : S = 1 .. n
      OBVIOUS
    <3>2. S \in SUBSET S /\ IsFiniteSet(S) /\ Takes(c, S)
          /\ IsFold(g, S, V, base, c, h) /\ Obeys(k, S, V, base, c, h)
      BY <1>1, <1>3, <1>4, <1>10, <3>1
    <3>3. \A s \in SUBSET S : k[s] = g[s]
      BY ONLY <3>2, FoldUnique
    <3>. QED
      BY <3>1, <3>3
  <2>2. n \in 0 .. n /\ 1 .. n \in SUBSET (1 .. n)
    OBVIOUS
  <2>. QED
    BY <1>5, <2>1, <2>2
<1>. QED
  BY <1>7, <1>8, <1>9, <1>10 DEF InOrder, HasSeries

=============================================================================
