--------------------------- MODULE Kernels_proofs ----------------------------
(***************************************************************************)
(* Two of the three algorithms of Kernels, and the launch of the third.    *)
(* The rejection sampler, for every batch of well-formed arrays and every  *)
(* number of lanes: the block-wise search for the recovered token finds    *)
(* the first maximum of the scaled residual, and every request gets the    *)
(* tokens its own drafts call for, whatever its neighbours are. The path   *)
(* of the embeddings, for every well-formed prompt and every batch its     *)
(* images are encoded in: a step is handed the embeddings of its own       *)
(* positions. The launch of the router, for every number of tokens and of  *)
(* threads: the slices of the threads share the batch out.                 *)
(***************************************************************************)
EXTENDS Kernels, FiniteSetTheorems, SequenceTheorems, WellFoundedInduction, TLAPS

-----------------------------------------------------------------------------
(***************************************************************************)
(* A set of natural numbers has a least element.                           *)
(***************************************************************************)
LEMMA LeastNat ==
  ASSUME NEW T, T \subseteq Nat, T # {}
  PROVE  \E x \in T : \A y \in T : x <= y
<1>1. PICK x \in T : \A y \in T : ~ (<<y, x>> \in OpToRel(<, Nat))
  BY NatLessThanWellFounded, WFMin
<1>2. \A y \in T : y < x => <<y, x>> \in OpToRel(<, Nat)
  BY DEF OpToRel
<1>3. \A y \in T : ~(y < x)
  BY <1>1, <1>2, Zenon
<1>4. \A y \in T : x <= y
  BY <1>3, SMT
<1> QED  BY <1>4, Zenon

(***************************************************************************)
(* What holds of 0, and of i + 1 when it holds of i, holds up to n: T is   *)
(* the set of numbers it holds of.                                         *)
(***************************************************************************)
LEMMA UpTo ==
  ASSUME NEW n \in Nat, NEW T, 0 \in T, \A i \in 0 .. n - 1 : i \in T => i + 1 \in T
  PROVE  \A i \in 0 .. n : i \in T
<1> SUFFICES ASSUME NEW k \in 0 .. n, k \notin T PROVE FALSE
  OBVIOUS
<1> DEFINE B == {i \in 0 .. n : i \notin T}
<1>1. B \subseteq Nat /\ B # {}
  OBVIOUS
<1>2. PICK b \in B : \A y \in B : b <= y
  BY <1>1, LeastNat, Zenon
<1>3. b # 0 /\ b \in 0 .. n
  BY <1>2
<1>4. b - 1 \in 0 .. n - 1 /\ b - 1 \notin B /\ b - 1 \in 0 .. n
  BY <1>2, <1>3
<1>5. b - 1 \in T
  BY <1>4
<1>6. (b - 1) + 1 \in T
  BY <1>4, <1>5
<1> QED  BY <1>2, <1>3, <1>6

(***************************************************************************)
(* A loop of n rounds over states in S, its rounds, and a trace of it.     *)
(***************************************************************************)
Rounds(n, S) == [(1 .. n) \X S -> S]
Trace(f, n, S, base, step) ==
  /\ f \in [0 .. n -> S] /\ f[0] = base
  /\ \A i \in 1 .. n : f[i] = step[<<i, f[i - 1]>>]

(***************************************************************************)
(* Every loop has a trace: the recursive functions of the kernels exist.   *)
(***************************************************************************)
LEMMA LoopExists ==
  ASSUME NEW n \in Nat, NEW S, NEW base, base \in S, NEW step, step \in Rounds(n, S)
  PROVE  \E f : Trace(f, n, S, base, step)
<1> DEFINE T == {m \in 0 .. n : \E f : Trace(f, m, S, base, step)}
<1>1. 0 \in T
  <2>1. Trace([i \in 0 .. 0 |-> base], 0, S, base, step)
    BY DEF Trace
  <2> QED  BY <2>1
<1>2. ASSUME NEW m \in 0 .. n - 1, m \in T PROVE m + 1 \in T
  <2>1. PICK f : Trace(f, m, S, base, step)
    BY <1>2
  <2>2. m \in 0 .. m /\ m + 1 \in 1 .. n /\ m + 1 \in 0 .. n
    OBVIOUS
  <2>3. f[m] \in S
    BY <2>1, <2>2 DEF Trace
  <2> DEFINE new == step[<<m + 1, f[m]>>]
             g == [i \in 0 .. m + 1 |-> IF i = m + 1 THEN new ELSE f[i]]
  <2>4. new \in S
    BY <2>2, <2>3 DEF Rounds
  <2>5. Trace(g, m + 1, S, base, step)
    <3>1. g \in [0 .. m + 1 -> S] /\ g[0] = base
      BY <2>1, <2>4 DEF Trace
    <3>2. ASSUME NEW i \in 1 .. m + 1 PROVE g[i] = step[<<i, g[i - 1]>>]
      <4>1. CASE i = m + 1
        <5>1. g[i] = new /\ g[i - 1] = f[m] /\ i - 1 = m
          BY <2>2, <4>1
        <5> HIDE DEF g
        <5> QED  BY <4>1, <5>1
      <4>2. CASE i \in 1 .. m
        BY <2>1, <4>2 DEF Trace
      <4> QED  BY <4>1, <4>2
    <3> QED  BY <3>1, <3>2 DEF Trace
  <2> HIDE DEF g
  <2> QED  BY <2>2, <2>5
<1>3. n \in T
  <2> HIDE DEF T
  <2>1. \A i \in 0 .. n - 1 : i \in T => i + 1 \in T
    BY <1>2
  <2>2. \A i \in 0 .. n : i \in T
    BY <1>1, <2>1, UpTo
  <2> QED  BY <2>2
<1> QED  BY <1>3, Zenon

-----------------------------------------------------------------------------
(***************************************************************************)
(* The element of a set that bounds the others is its maximum.             *)
(***************************************************************************)
LEMMA MaxIs ==
  ASSUME NEW S, S \subseteq Int, NEW m \in S, \A x \in S : x <= m
  PROVE  Max(S) = m
<1>1. \A x \in S : m >= x
  OBVIOUS
<1>2. Max(S) \in S /\ \A x \in S : Max(S) >= x
  BY <1>1, Zenon DEF Max
<1>3. Max(S) >= m /\ Max(S) <= m /\ Max(S) \in Int /\ m \in Int
  BY <1>2
<1> QED  BY <1>2, <1>3

(***************************************************************************)
(* The element of a set that is below the others is its minimum.           *)
(***************************************************************************)
LEMMA MinIs ==
  ASSUME NEW S, S \subseteq Int, NEW m \in S, \A x \in S : m <= x
  PROVE  Min(S) = m
<1>1. Min(S) \in S /\ \A x \in S : Min(S) <= x
  BY Zenon DEF Min
<1>2. Min(S) >= m /\ Min(S) <= m /\ Min(S) \in Int /\ m \in Int
  BY <1>1
<1> QED  BY <1>1, <1>2

(***************************************************************************)
(* The minimum of a set of natural numbers is its least element.           *)
(***************************************************************************)
LEMMA MinLeast ==
  ASSUME NEW S, S \subseteq Nat, S # {}
  PROVE  Min(S) \in S /\ \A x \in S : Min(S) <= x
<1>1. PICK m \in S : \A x \in S : m <= x
  BY LeastNat, Zenon
<1>2. S \subseteq Int
  OBVIOUS
<1>3. Min(S) = m
  BY <1>1, <1>2, MinIs, Zenon
<1> QED  BY <1>1, <1>3

(***************************************************************************)
(* The larger of two numbers.                                              *)
(***************************************************************************)
Larger(a, c) == Max({a, c})

(***************************************************************************)
(* It is one of them, and not below the other.                             *)
(***************************************************************************)
LEMMA MaxOfTwo ==
  ASSUME NEW a \in Int, NEW c \in Int
  PROVE  Larger(a, c) = IF a >= c THEN a ELSE c
<1>1. CASE a >= c
  BY <1>1, MaxIs DEF Larger
<1>2. CASE ~(a >= c)
  BY <1>2, MaxIs DEF Larger
<1> QED  BY <1>1, <1>2

(***************************************************************************)
(* Multiplication by a number of lanes keeps the order.                    *)
(***************************************************************************)
LEMMA TimesOrder ==
  ASSUME NEW a \in Nat, NEW c \in Nat, NEW l \in Nat
  PROVE  /\ a * l \in Nat /\ c * l \in Nat /\ (a + 1) * l = a * l + l
         /\ a <= c => a * l <= c * l
         /\ a < c => a * l + l <= c * l
<1>1. a * l \in Nat /\ c * l \in Nat
  OBVIOUS
<1>2. (a + 1) * l = a * l + l
  OBVIOUS
<1>3. ASSUME NEW d \in Nat, NEW e \in Nat, d <= e PROVE d * l <= e * l
  <2>1. (e - d) * l \in Nat
    BY <1>3
  <2>2. (e - d) * l = e * l - d * l
    OBVIOUS
  <2> QED  BY <2>1, <2>2
<1>4. a <= c => a * l <= c * l
  BY <1>3
<1>5. a < c => (a + 1) * l <= c * l
  BY <1>3
<1> QED  BY <1>1, <1>2, <1>4, <1>5

(***************************************************************************)
(* A position of a flat array lies in one block of lanes.                  *)
(***************************************************************************)
LEMMA BlockOf ==
  ASSUME NEW v \in Nat, NEW l \in Nat \ {0}
  PROVE  /\ v \div l \in Nat
         /\ (v \div l) * l <= v /\ v < (v \div l) * l + l
<1>1. v \div l \in Int
  OBVIOUS
<1>2. (v \div l) * l <= v /\ v < (v \div l) * l + l
  OBVIOUS
<1>3. v \div l \in Nat
  BY <1>1, <1>2
<1> QED  BY <1>2, <1>3

(***************************************************************************)
(* A running maximum is the largest of the base and the elements.          *)
(***************************************************************************)
LEMMA RunningMax ==
  ASSUME NEW base \in Int, NEW n \in Nat, NEW s \in [1 .. n -> Int]
  PROVE  /\ Running(base, s) \in Int /\ base <= Running(base, s)
         /\ \A i \in 1 .. n : s[i] <= Running(base, s)
         /\ Running(base, s) = base \/ \E i \in 1 .. n : Running(base, s) = s[i]
<1> DEFINE IsRun(f) == f = [i \in 0 .. n |-> IF i = 0 THEN base ELSE Larger(f[i - 1], s[i])]
           step == [p \in (1 .. n) \X Int |-> Larger(p[2], s[p[1]])]
<1>1. \E f : IsRun(f)
  <2>1. step \in Rounds(n, Int)
    BY MaxOfTwo DEF Rounds
  <2>2. \A i \in 1 .. n, x \in Int : step[<<i, x>>] = Larger(x, s[i])
    OBVIOUS
  <2> HIDE DEF step
  <2>3. PICK f : Trace(f, n, Int, base, step)
    BY <2>1, LoopExists, Zenon
  <2>4. ASSUME NEW i \in 1 .. n PROVE f[i] = Larger(f[i - 1], s[i])
    <3>1. f[i] = step[<<i, f[i - 1]>>] /\ f[i - 1] \in Int
      BY <2>3 DEF Trace
    <3> QED  BY <2>2, <3>1
  <2>5. IsRun(f)
    BY <2>3, <2>4 DEF Trace
  <2> QED  BY <2>5
<1> DEFINE best == CHOOSE f : IsRun(f)
<1>2. IsRun(best)
  <2> HIDE DEF IsRun
  <2> QED  BY <1>1
<1>3. Len(s) = n
  OBVIOUS
<1>4. Running(base, s) = best[n]
  BY <1>3 DEF Running, Larger
<1> HIDE DEF best, step
<1>5. \A i \in 0 .. n : best[i] = IF i = 0 THEN base ELSE Larger(best[i - 1], s[i])
  BY <1>2
<1> HIDE DEF IsRun
<1> DEFINE T == {i \in 0 .. n : /\ best[i] \in Int /\ base <= best[i]
                                /\ \A j \in 1 .. i : s[j] <= best[i]
                                /\ best[i] = base \/ \E j \in 1 .. i : best[i] = s[j]}
<1>6. 0 \in T
  BY <1>5
<1>7. ASSUME NEW i \in 0 .. n - 1, i \in T PROVE i + 1 \in T
  <2>1. best[i + 1] = Larger(best[i], s[i + 1]) /\ i + 1 \in 1 .. n
    BY <1>5
  <2>2. best[i + 1] = IF best[i] >= s[i + 1] THEN best[i] ELSE s[i + 1]
    BY <1>7, <2>1, MaxOfTwo
  <2> QED  BY <1>7, <2>1, <2>2
<1>8. n \in T
  <2> HIDE DEF T
  <2>1. \A i \in 0 .. n : i \in T
    BY <1>6, <1>7, UpTo
  <2> QED  BY <2>1
<1> QED  BY <1>4, <1>8

-----------------------------------------------------------------------------
(***************************************************************************)
(* Blocks of lanes: the i-th block holds the positions from i * ScoreLanes *)
(* on, and every position before the tail is in one of them.               *)
(***************************************************************************)
LEMMA Blocks ==
  ASSUME NEW n \in Nat
  PROVE  LET nb == n \div ScoreLanes
         IN /\ nb \in Nat /\ nb * ScoreLanes \in Nat
            /\ nb * ScoreLanes <= n /\ n < nb * ScoreLanes + ScoreLanes
            /\ \A i \in 0 .. nb - 1 : i * ScoreLanes \in Nat /\
                 i * ScoreLanes + ScoreLanes <= nb * ScoreLanes
            /\ \A v \in 0 .. nb * ScoreLanes - 1 :
                 \E i \in 0 .. nb - 1 : \E j \in 0 .. ScoreLanes - 1 : v = i * ScoreLanes + j
<1> DEFINE nb == n \div ScoreLanes
<1>1. ScoreLanes \in Nat \ {0}
  BY LanesAssumption
<1>2. nb \in Nat /\ nb * ScoreLanes <= n /\ n < nb * ScoreLanes + ScoreLanes
  BY <1>1, BlockOf
<1> HIDE DEF nb
<1>3. nb * ScoreLanes \in Nat
  BY <1>1, <1>2, TimesOrder
<1>4. \A i \in 0 .. nb - 1 : i * ScoreLanes \in Nat /\
        i * ScoreLanes + ScoreLanes <= nb * ScoreLanes
  BY <1>1, <1>2, TimesOrder
<1>5. ASSUME NEW v \in 0 .. nb * ScoreLanes - 1
      PROVE  \E i \in 0 .. nb - 1 : \E j \in 0 .. ScoreLanes - 1 : v = i * ScoreLanes + j
  <2> DEFINE i == v \div ScoreLanes
  <2>1. v \in Nat
    OBVIOUS
  <2>2. i \in Nat /\ i * ScoreLanes <= v /\ v < i * ScoreLanes + ScoreLanes
    BY <1>1, <2>1, BlockOf
  <2> HIDE DEF i
  <2>3. i * ScoreLanes \in Nat
    BY <1>1, <2>2, TimesOrder
  <2>4. i < nb
    <3>1. nb <= i => nb * ScoreLanes <= i * ScoreLanes
      BY <1>1, <1>2, <2>2, TimesOrder
    <3> QED  BY <1>2, <1>3, <2>2, <2>3, <3>1
  <2>5. i \in 0 .. nb - 1 /\ v - i * ScoreLanes \in 0 .. ScoreLanes - 1
        /\ v = i * ScoreLanes + (v - i * ScoreLanes)
    BY <1>1, <1>2, <2>1, <2>2, <2>3, <2>4
  <2> QED  BY <2>5
<1> QED  BY <1>2, <1>3, <1>4, <1>5 DEF nb

(***************************************************************************)
(* A flat array of n elements has n of them.                               *)
(***************************************************************************)
LEMMA Elements ==
  ASSUME NEW n \in Nat, NEW S, NEW x \in [0 .. n - 1 -> S]
  PROVE  DOMAIN x = 0 .. n - 1 /\ Cardinality(DOMAIN x) = n
<1>1. Cardinality(0 .. n - 1) = IF 0 > n - 1 THEN 0 ELSE n - 1 - 0 + 1
  BY FS_Interval
<1> QED  BY <1>1

(***************************************************************************)
(* The block-wise reduction computes the maximum of the scores.            *)
(***************************************************************************)
LEMMA MaxScoreIs ==
  ASSUME NEW n \in Nat \ {0}, NEW score \in [0 .. n - 1 -> Nat]
  PROVE  /\ MaxScore(score) \in Nat
         /\ \A v \in 0 .. n - 1 : score[v] <= MaxScore(score)
         /\ \E v \in 0 .. n - 1 : score[v] = MaxScore(score)
<1> DEFINE nb == n \div ScoreLanes
           lane(j) == [i \in 1 .. nb - 1 |-> score[i * ScoreLanes + j - 1]]
           acc == [j \in 1 .. ScoreLanes |-> Running(score[j - 1], lane(j))]
           best == IF nb = 0 THEN NoScore ELSE Running(NoScore, acc)
           tail == [i \in 1 .. n - nb * ScoreLanes |-> score[nb * ScoreLanes + i - 1]]
<1>1. MaxScore(score) = Running(best, tail)
  BY Elements DEF MaxScore
<1>2. ScoreLanes \in Nat \ {0} /\ NoScore = -1
  BY LanesAssumption DEF NoScore
<1>3. /\ nb \in Nat /\ nb * ScoreLanes \in Nat
      /\ nb * ScoreLanes <= n
      /\ \A i \in 0 .. nb - 1 : i * ScoreLanes \in Nat /\
           i * ScoreLanes + ScoreLanes <= nb * ScoreLanes
      /\ \A v \in 0 .. nb * ScoreLanes - 1 :
           \E i \in 0 .. nb - 1 : \E j \in 0 .. ScoreLanes - 1 : v = i * ScoreLanes + j
  BY Blocks
<1> HIDE DEF nb
<1>4. \A i \in 0 .. nb - 1 : \A j \in 1 .. ScoreLanes : i * ScoreLanes + j - 1 \in 0 .. n - 1
  BY <1>2, <1>3
<1>5. ASSUME nb # 0, NEW j \in 1 .. ScoreLanes
      PROVE  /\ acc[j] \in Int
             /\ \A i \in 0 .. nb - 1 : score[i * ScoreLanes + j - 1] <= acc[j]
             /\ \E v \in 0 .. n - 1 : acc[j] = score[v]
  <2>1. 0 \in 0 .. nb - 1 /\ 0 * ScoreLanes + j - 1 = j - 1
    BY <1>2, <1>3, <1>5
  <2>2. j - 1 \in 0 .. n - 1 /\ score[j - 1] \in Int
    BY <1>4, <2>1
  <2>3. nb - 1 \in Nat /\ lane(j) \in [1 .. nb - 1 -> Int]
    BY <1>3, <1>4, <1>5
  <2> DEFINE r == Running(score[j - 1], lane(j))
  <2>4. acc[j] = r
    OBVIOUS
  <2> HIDE DEF lane
  <2>5. /\ r \in Int /\ score[j - 1] <= r
        /\ \A i \in 1 .. nb - 1 : lane(j)[i] <= r
        /\ r = score[j - 1] \/ \E i \in 1 .. nb - 1 : r = lane(j)[i]
    BY <2>2, <2>3, RunningMax
  <2> HIDE DEF r, acc
  <2>6. \A i \in 1 .. nb - 1 : lane(j)[i] = score[i * ScoreLanes + j - 1]
    BY DEF lane
  <2>7. ASSUME NEW i \in 0 .. nb - 1 PROVE score[i * ScoreLanes + j - 1] <= r
    <3>1. CASE i = 0
      BY <2>1, <2>5, <3>1
    <3>2. CASE i \in 1 .. nb - 1
      BY <2>5, <2>6, <3>2
    <3> QED  BY <1>3, <3>1, <3>2
  <2>8. \E v \in 0 .. n - 1 : r = score[v]
    <3>1. CASE r = score[j - 1]
      BY <2>2, <3>1
    <3>2. CASE \E i \in 1 .. nb - 1 : r = lane(j)[i]
      <4>1. PICK i \in 1 .. nb - 1 : r = score[i * ScoreLanes + j - 1]
        BY <2>6, <3>2
      <4>2. i \in 0 .. nb - 1
        OBVIOUS
      <4> QED  BY <1>4, <4>1, <4>2
    <3> QED  BY <2>5, <3>1, <3>2
  <2> QED  BY <2>4, <2>5, <2>7, <2>8
<1>6. /\ best \in Int
      /\ \A v \in 0 .. nb * ScoreLanes - 1 : score[v] <= best
      /\ best = NoScore \/ \E v \in 0 .. n - 1 : best = score[v]
  <2>1. CASE nb = 0
    <3>1. nb * ScoreLanes = 0
      BY <1>2, <2>1
    <3> QED  BY <1>2, <2>1, <3>1
  <2>2. CASE nb # 0
    <3>1. acc \in [1 .. ScoreLanes -> Int]
      <4>1. acc = [j \in 1 .. ScoreLanes |-> acc[j]]
        OBVIOUS
      <4> HIDE DEF acc
      <4> QED  BY <1>5, <2>2, <4>1
    <3>2. best = Running(NoScore, acc)
      BY <2>2
    <3> HIDE DEF acc, best
    <3>3. /\ best \in Int
          /\ \A j \in 1 .. ScoreLanes : acc[j] <= best
          /\ best = NoScore \/ \E j \in 1 .. ScoreLanes : best = acc[j]
      <4>1. NoScore \in Int /\ ScoreLanes \in Nat
        BY <1>2
      <4> QED  BY <3>1, <3>2, <4>1, RunningMax
    <3>4. ASSUME NEW v \in 0 .. nb * ScoreLanes - 1 PROVE score[v] <= best
      <4>1. PICK i \in 0 .. nb - 1, k \in 0 .. ScoreLanes - 1 : v = i * ScoreLanes + k
        BY <1>3
      <4>2. k + 1 \in 1 .. ScoreLanes /\ v = i * ScoreLanes + (k + 1) - 1
        BY <1>2, <1>3, <4>1
      <4>3. score[v] <= acc[k + 1] /\ acc[k + 1] <= best
        BY <1>5, <2>2, <3>3, <4>2
      <4>4. acc[k + 1] \in Int /\ score[v] \in Int
        <5>1. v \in 0 .. n - 1
          BY <1>3
        <5> QED  BY <3>1, <4>2, <5>1
      <4> QED  BY <3>3, <4>3, <4>4
    <3>5. best = NoScore \/ \E v \in 0 .. n - 1 : best = score[v]
      BY <1>5, <2>2, <3>3
    <3> QED  BY <3>3, <3>4, <3>5
  <2> QED  BY <2>1, <2>2
<1> HIDE DEF best
<1>7. n - nb * ScoreLanes \in Nat /\ tail \in [1 .. n - nb * ScoreLanes -> Int]
  BY <1>3
<1> DEFINE top == Running(best, tail)
<1>8. \A i \in 1 .. n - nb * ScoreLanes : tail[i] = score[nb * ScoreLanes + i - 1]
  OBVIOUS
<1> HIDE DEF tail
<1>9. /\ top \in Int /\ best <= top
      /\ \A i \in 1 .. n - nb * ScoreLanes : tail[i] <= top
      /\ top = best \/ \E i \in 1 .. n - nb * ScoreLanes : top = tail[i]
  BY <1>6, <1>7, RunningMax
<1> HIDE DEF top
<1>10. ASSUME NEW v \in 0 .. n - 1 PROVE score[v] <= top
  <2>1. CASE v \in 0 .. nb * ScoreLanes - 1
    BY <1>6, <1>9, <2>1
  <2>2. CASE v \in nb * ScoreLanes .. n - 1
    <3>1. v - nb * ScoreLanes + 1 \in 1 .. n - nb * ScoreLanes
      BY <1>3, <2>2
    <3>2. tail[v - nb * ScoreLanes + 1] = score[v]
      <4>1. nb * ScoreLanes + (v - nb * ScoreLanes + 1) - 1 = v
        BY <1>3
      <4> QED  BY <1>8, <3>1, <4>1
    <3> QED  BY <1>9, <3>1, <3>2
  <2> QED  BY <1>3, <2>1, <2>2
<1>11. \E v \in 0 .. n - 1 : top = score[v]
  <2>1. CASE \E i \in 1 .. n - nb * ScoreLanes : top = tail[i]
    <3>1. PICK i \in 1 .. n - nb * ScoreLanes : top = tail[i]
      BY <2>1
    <3>2. nb * ScoreLanes + i - 1 \in 0 .. n - 1
      BY <1>3
    <3> QED  BY <1>8, <3>1, <3>2
  <2>2. CASE top = best
    <3>1. 0 \in 0 .. n - 1 /\ score[0] \in Nat /\ score[0] <= top
      BY <1>10
    <3>2. top # NoScore
      BY <1>2, <1>9, <3>1
    <3> QED  BY <1>6, <2>2, <3>2
  <2> QED  BY <1>9, <2>1, <2>2
<1>12. MaxScore(score) = top
  BY <1>1 DEF top
<1> QED  BY <1>9, <1>10, <1>11, <1>12

(***************************************************************************)
(* The first position that holds the maximum.                              *)
(***************************************************************************)
LEMMA FirstArgmaxIs ==
  ASSUME NEW n \in Nat \ {0}, NEW x \in [0 .. n - 1 -> Nat], NEW v \in 0 .. n - 1,
         \A w \in 0 .. n - 1 : x[w] <= x[v],
         \A w \in 0 .. v - 1 : x[w] # x[v]
  PROVE  FirstArgmax(x) = v
<1> DEFINE S == {u \in 0 .. n - 1 : \A w \in 0 .. n - 1 : x[w] <= x[u]}
<1>1. v \in S /\ S \subseteq Int
  OBVIOUS
<1>2. ASSUME NEW u \in S PROVE v <= u
  <2>1. x[u] = x[v]
    OBVIOUS
  <2> QED  BY <2>1
<1>3. FirstArgmax(x) = Min(S)
  <2>1. DOMAIN x = 0 .. n - 1
    OBVIOUS
  <2> QED  BY <2>1 DEF FirstArgmax
<1> HIDE DEF S
<1> QED  BY <1>1, <1>2, <1>3, MinIs

(***************************************************************************)
(* FirstArgmax is the first position with the maximum.                     *)
(***************************************************************************)
LEMMA FirstArgmaxType ==
  ASSUME NEW n \in Nat \ {0}, NEW x \in [0 .. n - 1 -> Nat]
  PROVE  FirstArgmax(x) \in 0 .. n - 1
<1> DEFINE m == MaxScore(x)
           S == {v \in 0 .. n - 1 : \A w \in 0 .. n - 1 : x[w] <= x[v]}
<1>1. S # {} /\ S \subseteq Nat
  <2>1. PICK v \in 0 .. n - 1 : x[v] = m
    BY MaxScoreIs
  <2>2. \A w \in 0 .. n - 1 : x[w] <= m
    BY MaxScoreIs
  <2>3. v \in S
    BY <2>1, <2>2
  <2>4. S # {}
    BY <2>3
  <2> QED  BY <2>4
<1>2. FirstArgmax(x) = Min(S)
  <2>1. DOMAIN x = 0 .. n - 1
    OBVIOUS
  <2> QED  BY <2>1 DEF FirstArgmax
<1>3. Min(S) \in S
  <2> HIDE DEF S
  <2> QED  BY <1>1, MinLeast
<1> QED  BY <1>2, <1>3

(***************************************************************************)
(* The block-wise search finds the first position with the maximum.        *)
(***************************************************************************)
LEMMA FindScoreIs ==
  ASSUME NEW n \in Nat \ {0}, NEW score \in [0 .. n - 1 -> Nat]
  PROVE  FindScore(score, MaxScore(score)) = FirstArgmax(score)
<1> DEFINE top == MaxScore(score)
           nb == n \div ScoreLanes
           Hits(i) == {j \in 0 .. ScoreLanes - 1 : score[i * ScoreLanes + j] = top}
           blocks == {i \in 0 .. nb - 1 : Hits(i) # {}}
           tail == {v \in nb * ScoreLanes .. n - 1 : score[v] = top}
<1> HIDE DEF top
<1>1. FindScore(score, top) =
        CASE blocks # {} -> Min(blocks) * ScoreLanes + Min(Hits(Min(blocks)))
          [] blocks = {} /\ tail # {} -> Min(tail)
          [] OTHER -> -1
  BY Elements DEF FindScore
<1>2. ScoreLanes \in Nat \ {0}
  BY LanesAssumption
<1>3. /\ nb \in Nat /\ nb * ScoreLanes \in Nat
      /\ nb * ScoreLanes <= n
      /\ \A i \in 0 .. nb - 1 : i * ScoreLanes \in Nat /\
           i * ScoreLanes + ScoreLanes <= nb * ScoreLanes
      /\ \A v \in 0 .. nb * ScoreLanes - 1 :
           \E i \in 0 .. nb - 1 : \E j \in 0 .. ScoreLanes - 1 : v = i * ScoreLanes + j
  BY Blocks
<1>4. /\ top \in Nat /\ \A v \in 0 .. n - 1 : score[v] <= top
      /\ \E v \in 0 .. n - 1 : score[v] = top
  BY MaxScoreIs DEF top
<1> HIDE DEF nb
<1>5. ASSUME NEW v \in 0 .. n - 1, score[v] = top, \A w \in 0 .. v - 1 : score[w] # top
      PROVE  FirstArgmax(score) = v
  BY <1>4, <1>5, FirstArgmaxIs
<1>6. ASSUME NEW v \in 0 .. nb * ScoreLanes - 1, score[v] = top
      PROVE  \E i \in blocks : \E j \in Hits(i) : v = i * ScoreLanes + j
  <2>1. PICK i \in 0 .. nb - 1, j \in 0 .. ScoreLanes - 1 : v = i * ScoreLanes + j
    BY <1>3
  <2>2. j \in Hits(i)
    BY <1>6, <2>1
  <2> QED  BY <2>1, <2>2
<1>7. CASE blocks # {}
  <2> DEFINE i == Min(blocks)
             j == Min(Hits(i))
  <2>1. i \in blocks /\ \A k \in blocks : i <= k
    <3>1. blocks \subseteq Nat
      OBVIOUS
    <3> HIDE DEF blocks
    <3> QED  BY <1>7, <3>1, MinLeast
  <2>2. j \in Hits(i) /\ \A k \in Hits(i) : j <= k
    <3>1. Hits(i) \subseteq Nat
      BY <1>2
    <3>2. Hits(i) # {}
      BY <2>1
    <3> HIDE DEF Hits, i
    <3> QED  BY <3>1, <3>2, MinLeast
  <2>3. FindScore(score, top) = i * ScoreLanes + j
    BY <1>1, <1>7
  <2> HIDE DEF i, j
  <2> DEFINE v == i * ScoreLanes + j
  <2>4. i \in 0 .. nb - 1 /\ j \in 0 .. ScoreLanes - 1 /\ score[v] = top
    BY <2>1, <2>2
  <2>5. v \in 0 .. n - 1 /\ v < nb * ScoreLanes
    BY <1>2, <1>3, <2>4
  <2>6. ASSUME NEW w \in 0 .. v - 1, score[w] = top PROVE FALSE
    <3>1. w \in 0 .. nb * ScoreLanes - 1
      BY <1>3, <2>5
    <3>2. PICK k \in blocks : \E l \in Hits(k) : w = k * ScoreLanes + l
      BY <1>6, <2>6, <3>1
    <3>3. PICK l \in Hits(k) : w = k * ScoreLanes + l
      BY <3>2
    <3>4. k \in 0 .. nb - 1 /\ l \in 0 .. ScoreLanes - 1 /\ i <= k
      BY <2>1
    <3>5. k * ScoreLanes \in Nat /\ i * ScoreLanes \in Nat
          /\ (i < k => i * ScoreLanes + ScoreLanes <= k * ScoreLanes)
      BY <1>2, <1>3, <2>4, <3>4, TimesOrder
    <3>6. ~(i < k)
      <4> DEFINE a == i * ScoreLanes
                 c == k * ScoreLanes
      <4>1. a \in Nat /\ c \in Nat /\ (i < k => a + ScoreLanes <= c)
            /\ w < a + j /\ w = c + l
        BY <1>2, <2>4, <3>3, <3>5
      <4> HIDE DEF a, c
      <4> QED  BY <1>2, <2>4, <3>4, <4>1
    <3>7. k = i
      BY <1>3, <2>4, <3>4, <3>6
    <3>8. j <= l
      BY <2>2, <3>7
    <3> QED  BY <2>4, <3>3, <3>4, <3>5, <3>7, <3>8
  <2>7. FirstArgmax(score) = v
    <3> HIDE DEF v
    <3> QED  BY <1>5, <2>4, <2>5, <2>6
  <2> QED  BY <2>3, <2>7 DEF top
<1>8. CASE blocks = {} /\ tail # {}
  <2> DEFINE v == Min(tail)
  <2>1. v \in tail /\ \A w \in tail : v <= w
    <3>1. tail \subseteq Nat
      BY <1>3
    <3> HIDE DEF tail
    <3> QED  BY <1>8, <3>1, MinLeast
  <2>2. FindScore(score, top) = v
    BY <1>1, <1>8
  <2> HIDE DEF v
  <2>3. v \in 0 .. n - 1 /\ score[v] = top
    BY <1>3, <2>1
  <2>4. ASSUME NEW w \in 0 .. v - 1, score[w] = top PROVE FALSE
    <3>1. w \notin 0 .. nb * ScoreLanes - 1
      BY <1>6, <1>8, <2>4
    <3>2. w \in tail
      BY <1>3, <2>3, <2>4, <3>1
    <3> QED  BY <2>1, <2>3, <3>2
  <2> QED  BY <1>5, <2>2, <2>3, <2>4 DEF top
<1>9. CASE blocks = {} /\ tail = {}
  <2>1. PICK v \in 0 .. n - 1 : score[v] = top
    BY <1>4
  <2>2. v \notin 0 .. nb * ScoreLanes - 1
    BY <1>6, <1>9, <2>1
  <2>3. v \in tail
    BY <1>3, <2>1, <2>2
  <2> QED  BY <1>9, <2>3
<1> QED  BY <1>7, <1>8, <1>9

-----------------------------------------------------------------------------
(***************************************************************************)
(* The rows of a batch follow one another in its flat arrays.              *)
(***************************************************************************)
LEMMA BatchRows ==
  ASSUME NEW b, DraftsFormed(b)
  PROVE  LET n == Cardinality(DOMAIN b.cu)
         IN /\ n \in Nat /\ Rows(b.cu) = 0 .. n - 1 /\ DOMAIN b.cu = Rows(b.cu)
            /\ Start(b.cu, n) \in Nat /\ Tokens(b) = 0 .. Start(b.cu, n) - 1
            /\ \A r \in Rows(b.cu) :
                 /\ b.cu[r] \in Nat /\ Start(b.cu, r) \in Nat /\ Drafted(b.cu, r) \in Nat
                 /\ Start(b.cu, r) + Drafted(b.cu, r) = b.cu[r]
                 /\ b.cu[r] <= Start(b.cu, n)
            /\ \A q, r \in Rows(b.cu) : q < r => b.cu[q] <= Start(b.cu, r)
<1> DEFINE n == Cardinality(DOMAIN b.cu)
<1>1. /\ IsFiniteSet(DOMAIN b.cu) /\ b.cu \in [Rows(b.cu) -> Nat]
      /\ \A q, r \in Rows(b.cu) : q <= r => b.cu[q] <= b.cu[r]
  BY DEF DraftsFormed
<1>2. n \in Nat /\ Rows(b.cu) = 0 .. n - 1 /\ DOMAIN b.cu = Rows(b.cu)
      /\ Tokens(b) = 0 .. Start(b.cu, n) - 1
  BY <1>1, FS_CardinalityType DEF Rows, Tokens
<1> HIDE DEF n
<1>3. ASSUME NEW r \in Rows(b.cu)
      PROVE  /\ b.cu[r] \in Nat /\ Start(b.cu, r) \in Nat /\ Start(b.cu, r) <= b.cu[r]
             /\ b.cu[r] <= Start(b.cu, n)
  <2>1. b.cu[r] \in Nat /\ r \in 0 .. n - 1
    BY <1>1, <1>2
  <2>2. b.cu[r] <= Start(b.cu, n)
    <3>1. n - 1 \in Rows(b.cu) /\ Start(b.cu, n) = b.cu[n - 1] /\ r <= n - 1
      BY <1>2, <2>1 DEF Start
    <3> QED  BY <1>1, <3>1
  <2>3. Start(b.cu, r) \in Nat /\ Start(b.cu, r) <= b.cu[r]
    <3>1. CASE r = 0
      BY <2>1, <3>1 DEF Start
    <3>2. CASE r # 0
      <4>1. r - 1 \in Rows(b.cu) /\ Start(b.cu, r) = b.cu[r - 1] /\ r - 1 <= r
        BY <1>2, <2>1, <3>2 DEF Start
      <4>2. b.cu[r - 1] <= b.cu[r] /\ b.cu[r - 1] \in Nat
        BY <1>1, <2>1, <4>1
      <4> QED  BY <2>1, <4>1, <4>2
    <3> QED  BY <3>1, <3>2
  <2> QED  BY <2>1, <2>2, <2>3
<1>4. Start(b.cu, n) \in Nat
  <2>1. CASE n = 0
    BY <2>1 DEF Start
  <2>2. CASE n # 0
    <3>1. n - 1 \in Rows(b.cu) /\ Start(b.cu, n) = b.cu[n - 1]
      BY <1>2, <2>2 DEF Start
    <3> QED  BY <1>1, <3>1
  <2> QED  BY <2>1, <2>2
<1>5. ASSUME NEW q \in Rows(b.cu), NEW r \in Rows(b.cu), q < r PROVE b.cu[q] <= Start(b.cu, r)
  <2>1. r - 1 \in Rows(b.cu) /\ Start(b.cu, r) = b.cu[r - 1] /\ q <= r - 1
    BY <1>2, <1>5 DEF Start
  <2> QED  BY <1>1, <2>1
<1>6. ASSUME NEW r \in Rows(b.cu)
      PROVE  /\ Drafted(b.cu, r) \in Nat
             /\ Start(b.cu, r) + Drafted(b.cu, r) = b.cu[r]
  BY <1>3 DEF Drafted
<1> QED  BY <1>2, <1>3, <1>4, <1>5, <1>6 DEF n

(***************************************************************************)
(* A draft between a row's ends belongs to that row and to no other.       *)
(***************************************************************************)
LEMMA TokenOwner ==
  ASSUME NEW b, DraftsFormed(b), NEW r \in Rows(b.cu),
         NEW t \in Start(b.cu, r) .. b.cu[r] - 1
  PROVE  t \in Tokens(b) /\ TokenToReq(b.cu, t) = r
<1> DEFINE n == Cardinality(DOMAIN b.cu)
<1>1. /\ n \in Nat /\ Rows(b.cu) = 0 .. n - 1
      /\ Start(b.cu, n) \in Nat /\ Tokens(b) = 0 .. Start(b.cu, n) - 1
      /\ \A q \in Rows(b.cu) : /\ b.cu[q] \in Nat /\ Start(b.cu, q) \in Nat
                               /\ b.cu[q] <= Start(b.cu, n)
      /\ \A q, p \in Rows(b.cu) : q < p => b.cu[q] <= Start(b.cu, p)
  BY BatchRows
<1> HIDE DEF n
<1>2. t \in Tokens(b)
  BY <1>1
<1>3. Start(b.cu, r) <= t /\ t < b.cu[r]
  BY <1>1
<1>4. ASSUME NEW q \in Rows(b.cu), Start(b.cu, q) <= t, t < b.cu[q] PROVE q = r
  <2>1. ~(q < r)
    BY <1>1, <1>3, <1>4
  <2>2. ~(r < q)
    BY <1>1, <1>3, <1>4
  <2> QED  BY <1>1, <2>1, <2>2
<1>5. TokenToReq(b.cu, t) = r
  BY <1>3, <1>4, Zenon DEF TokenToReq
<1> QED  BY <1>2, <1>5

(***************************************************************************)
(* Every draft of a batch belongs to a row.                                *)
(***************************************************************************)
LEMMA TokenOwned ==
  ASSUME NEW b, DraftsFormed(b), NEW t \in Tokens(b)
  PROVE  LET r == TokenToReq(b.cu, t)
         IN r \in Rows(b.cu) /\ t \in Start(b.cu, r) .. b.cu[r] - 1
<1> DEFINE n == Cardinality(DOMAIN b.cu)
<1>1. /\ n \in Nat /\ Rows(b.cu) = 0 .. n - 1
      /\ Start(b.cu, n) \in Nat /\ Tokens(b) = 0 .. Start(b.cu, n) - 1
      /\ \A q \in Rows(b.cu) : b.cu[q] \in Nat /\ Start(b.cu, q) \in Nat
  BY BatchRows
<1> HIDE DEF n
<1> DEFINE T == {q \in Rows(b.cu) : t < b.cu[q]}
<1>2. T # {} /\ T \subseteq Nat
  <2>1. n # 0
    BY <1>1 DEF Start
  <2>2. n - 1 \in Rows(b.cu) /\ Start(b.cu, n) = b.cu[n - 1]
    BY <1>1, <2>1 DEF Start
  <2>3. n - 1 \in T
    BY <1>1, <2>2
  <2>4. T # {}
    BY <2>3
  <2> QED  BY <1>1, <2>4
<1>3. PICK r \in T : \A q \in T : r <= q
  BY <1>2, LeastNat, Zenon
<1>4. Start(b.cu, r) <= t /\ t < b.cu[r] /\ r \in Rows(b.cu)
  <2>1. CASE r = 0
    BY <1>1, <2>1 DEF Start
  <2>2. CASE r # 0
    <3>1. r - 1 \in Rows(b.cu) /\ r - 1 \notin T /\ Start(b.cu, r) = b.cu[r - 1]
      BY <1>1, <1>3, <2>2 DEF Start
    <3>2. ~(t < b.cu[r - 1])
      BY <3>1
    <3> QED  BY <1>1, <3>1, <3>2
  <2> QED  BY <2>1, <2>2
<1>5. t \in Start(b.cu, r) .. b.cu[r] - 1
  BY <1>1, <1>4
<1>6. TokenToReq(b.cu, t) = r
  BY <1>4, <1>5, TokenOwner
<1> QED  BY <1>4, <1>5, <1>6

(***************************************************************************)
(* The scores of the kernel are the scaled residual, and natural numbers.  *)
(***************************************************************************)
LEMMA ScoresFormed ==
  ASSUME NEW b, DraftsFormed(b), NEW t \in Tokens(b), NEW r \in Rows(b.cu)
  PROVE  LET score == IF b.no_draft_probs
                      THEN MaskedScore(b.target_probs[t], b.inv_q[r], b.draft[t])
                      ELSE ClampedScore(b.target_probs[t], b.draft_probs[t], b.inv_q[r])
         IN /\ score \in Scored(b)
            /\ score = [v \in 0 .. b.vocab_size - 1 |-> Residual(b, t)[v] * b.inv_q[r][v]]
<1> DEFINE V == 0 .. b.vocab_size - 1
           target == b.target_probs[t]
           q == b.inv_q[r]
           score == IF b.no_draft_probs THEN MaskedScore(target, q, b.draft[t])
                    ELSE ClampedScore(target, b.draft_probs[t], q)
<1>1. /\ target \in [V -> Nat] /\ q \in [V -> Nat] /\ b.no_draft_probs \in BOOLEAN
      /\ ~b.no_draft_probs => b.draft_probs[t] \in [V -> Nat]
  BY DEF DraftsFormed, Scored
<1>2. Residual(b, t) = [v \in V |->
        IF b.no_draft_probs THEN IF v = b.draft[t] THEN 0 ELSE target[v]
        ELSE Larger(0, target[v] - b.draft_probs[t][v])]
  BY <1>1 DEF Residual, Larger
<1>3. \A v \in V : Residual(b, t)[v] \in Nat
  <2> SUFFICES ASSUME NEW v \in V PROVE Residual(b, t)[v] \in Nat
    OBVIOUS
  <2>1. CASE b.no_draft_probs
    <3>1. Residual(b, t)[v] = IF v = b.draft[t] THEN 0 ELSE target[v]
      BY <1>2, <2>1
    <3> HIDE DEF target
    <3> QED  BY <1>1, <3>1
  <2>2. CASE ~b.no_draft_probs
    <3>1. target[v] \in Nat /\ b.draft_probs[t][v] \in Nat
      BY <1>1, <2>2
    <3>2. Larger(0, target[v] - b.draft_probs[t][v]) \in Nat
      BY <3>1, MaxOfTwo
    <3> QED  BY <1>2, <2>2, <3>2
  <2> QED  BY <2>1, <2>2
<1>4. \A v \in V : Residual(b, t)[v] * q[v] \in Nat
  BY <1>1, <1>3, TimesOrder
<1>5. score = [v \in V |-> Residual(b, t)[v] * q[v]]
  <2>1. CASE b.no_draft_probs
    <3>1. score = [v \in V |-> (IF v = b.draft[t] THEN 0 ELSE target[v]) * q[v]]
      BY <1>1, <2>1 DEF MaskedScore
    <3>2. \A v \in V : Residual(b, t)[v] = IF v = b.draft[t] THEN 0 ELSE target[v]
      BY <1>2, <2>1
    <3> QED  BY <3>1, <3>2
  <2>2. CASE ~b.no_draft_probs
    <3>1. score = [v \in V |-> Larger(target[v] - b.draft_probs[t][v], 0) * q[v]]
      BY <1>1, <2>2 DEF ClampedScore, Larger
    <3>2. ASSUME NEW v \in V
          PROVE  Residual(b, t)[v] = Larger(target[v] - b.draft_probs[t][v], 0)
      <4>1. target[v] \in Nat /\ b.draft_probs[t][v] \in Nat
        BY <1>1, <2>2
      <4>2. Larger(target[v] - b.draft_probs[t][v], 0)
              = Larger(0, target[v] - b.draft_probs[t][v])
        BY <4>1, MaxOfTwo
      <4> QED  BY <1>2, <2>2, <4>2
    <3> QED  BY <3>1, <3>2
  <2> QED  BY <2>1, <2>2
<1> HIDE DEF score
<1>6. score \in Scored(b)
  BY <1>4, <1>5 DEF Scored
<1> QED  BY <1>5, <1>6 DEF score

(***************************************************************************)
(* A rejected draft is replaced by the first index that maximises the      *)
(* residual of its own position, scaled by its own request's noise.        *)
(***************************************************************************)
THEOREM RecoveredIsResampled ==
  ASSUME NEW b, DraftsFormed(b), NEW t \in Tokens(b)
  PROVE  Recovered(b)[t] = Resampled(b, TokenToReq(b.cu, t), t)
<1> DEFINE r == TokenToReq(b.cu, t)
           score == IF b.no_draft_probs
                    THEN MaskedScore(b.target_probs[t], b.inv_q[r], b.draft[t])
                    ELSE ClampedScore(b.target_probs[t], b.draft_probs[t], b.inv_q[r])
<1>1. r \in Rows(b.cu)
  BY TokenOwned
<1>2. Recovered(b)[t] = Larger(FindScore(score, MaxScore(score)), 0)
  BY DEF Recovered, Tokens, RecoveredToken, Larger
<1> HIDE DEF r
<1>3. /\ score \in Scored(b)
      /\ score = [v \in 0 .. b.vocab_size - 1 |-> Residual(b, t)[v] * b.inv_q[r][v]]
  BY <1>1, ScoresFormed
<1> HIDE DEF score
<1>4. b.vocab_size \in Nat \ {0} /\ score \in [0 .. b.vocab_size - 1 -> Nat]
  BY <1>3 DEF Scored, DraftsFormed
<1>5. FindScore(score, MaxScore(score)) = FirstArgmax(score)
  BY <1>4, FindScoreIs
<1>6. FirstArgmax(score) \in 0 .. b.vocab_size - 1
  BY <1>4, FirstArgmaxType
<1>7. Larger(FirstArgmax(score), 0) = FirstArgmax(score)
  BY <1>4, <1>6, MaxOfTwo
<1>8. Resampled(b, r, t) = FirstArgmax(score)
  BY <1>3 DEF Resampled
<1> QED  BY <1>2, <1>5, <1>7, <1>8 DEF r

-----------------------------------------------------------------------------
(***************************************************************************)
(* The rows the kernels write.  A row says of every draft of a request     *)
(* whether it is accepted and which token to write; Kept is the length of  *)
(* its accepted prefix, and Slot what the row leaves in its k-th slot.     *)
(***************************************************************************)
RowSet(n, V) == [0 .. n - 1 -> [accepted : BOOLEAN, token : V]]

Kept(row, n) == Max({m \in 0 .. n : \A k \in 0 .. m - 1 : row[k].accepted})

Slot(row, n, bonus, old, k) ==
  IF k < Kept(row, n) THEN row[k].token
  ELSE IF k > Kept(row, n) THEN old
  ELSE IF k < n THEN row[k].token ELSE bonus

(***************************************************************************)
(* Kept is the position of the first rejected draft, n if there is none.   *)
(***************************************************************************)
LEMMA KeptIs ==
  ASSUME NEW n \in Nat, NEW row
  PROVE  /\ Kept(row, n) \in 0 .. n
         /\ \A k \in 0 .. Kept(row, n) - 1 : row[k].accepted
         /\ Kept(row, n) < n => ~row[Kept(row, n)].accepted
<1> DEFINE S == {m \in 0 .. n : \A k \in 0 .. m - 1 : row[k].accepted}
           R == {k \in 0 .. n - 1 : ~row[k].accepted}
<1>1. CASE R = {}
  <2>1. n \in S /\ S \subseteq Int /\ \A m \in S : m <= n
    BY <1>1
  <2> HIDE DEF S
  <2>2. Max(S) = n
    BY <2>1, MaxIs
  <2> USE DEF S
  <2>3. Kept(row, n) = n
    BY <2>2 DEF Kept
  <2> QED  BY <2>1, <2>3
<1>2. CASE R # {}
  <2>1. R \subseteq Nat
    OBVIOUS
  <2>2. PICK k \in R : \A j \in R : k <= j
    BY <1>2, <2>1, LeastNat, Zenon
  <2>3. k \in 0 .. n - 1 /\ ~row[k].accepted
    OBVIOUS
  <2>4. \A j \in 0 .. k - 1 : row[j].accepted
    BY <2>2, <2>3
  <2>5. k \in S /\ S \subseteq Int /\ \A m \in S : m <= k
    BY <2>3, <2>4
  <2> HIDE DEF S
  <2>6. Max(S) = k
    BY <2>5, MaxIs
  <2> USE DEF S
  <2>7. Kept(row, n) = k
    BY <2>6 DEF Kept
  <2> QED  BY <2>3, <2>4, <2>7
<1> QED  BY <1>1, <1>2

(***************************************************************************)
(* A row fits a request: its slots are in the output array, whose indices  *)
(* are I and whose values V, and it has a value for each of its drafts.    *)
(***************************************************************************)
RowFits(b, req, row, I, V) ==
  /\ Drafted(b.cu, req) \in Nat /\ b.max_spec_len \in Nat
  /\ Drafted(b.cu, req) <= b.max_spec_len
  /\ row \in RowSet(Drafted(b.cu, req), V) /\ b.bonus[req] \in V
  /\ req * (b.max_spec_len + 1) \in Nat
  /\ \A k \in 0 .. b.max_spec_len : req * (b.max_spec_len + 1) + k \in I

(***************************************************************************)
(* The slots of a request hold its row; the slots of all others are as     *)
(* they were.                                                              *)
(***************************************************************************)
RowEmitted(result, out, b, req, row, I, V) ==
  /\ result \in [I -> V]
  /\ \A i \in I : (\A k \in 0 .. b.max_spec_len : i # req * (b.max_spec_len + 1) + k)
                    => result[i] = out[i]
  /\ \A k \in 0 .. b.max_spec_len :
       result[req * (b.max_spec_len + 1) + k]
         = Slot(row, Drafted(b.cu, req), b.bonus[req], out[req * (b.max_spec_len + 1) + k], k)

(***************************************************************************)
(* The row loop writes the accepted prefix and one token more, and leaves  *)
(* the slots behind it, and those of all other requests, as they were.     *)
(***************************************************************************)
LEMMA EmitRowIs ==
  ASSUME NEW b, NEW req, NEW V, NEW I, NEW out, out \in [I -> V], NEW row,
         RowFits(b, req, row, I, V)
  PROVE  RowEmitted(EmitRow(out, req, b, row), out, b, req, row, I, V)
<1> DEFINE n == Drafted(b.cu, req)
           m == b.max_spec_len
           base == req * (m + 1)
           bonus == b.bonus[req]
           kept == Kept(row, n)
<1>1. /\ n \in Nat /\ m \in Nat /\ n <= m /\ base \in Nat /\ bonus \in V
      /\ \A k \in 0 .. m : base + k \in I
      /\ \A k \in 0 .. n - 1 : row[k].token \in V /\ row[k].accepted \in BOOLEAN
  BY DEF RowFits, RowSet
<1>2. /\ kept \in 0 .. n /\ \A k \in 0 .. kept - 1 : row[k].accepted
      /\ kept < n => ~row[kept].accepted
  BY <1>1, KeptIs
<1> DEFINE S == [out : [I -> V], rejected : BOOLEAN]
           After(s, pos) == IF s.rejected THEN s
                            ELSE [out |-> [s.out EXCEPT ![base + pos - 1] = row[pos - 1].token],
                                  rejected |-> ~row[pos - 1].accepted]
           fresh == [out |-> out, rejected |-> FALSE]
           IsEmit(f) == f = [pos \in 0 .. n |-> IF pos = 0 THEN fresh ELSE After(f[pos - 1], pos)]
           emit == CHOOSE f : IsEmit(f)
<1>3. EmitRow(out, req, b, row)
        = IF emit[n].rejected THEN emit[n].out ELSE [emit[n].out EXCEPT ![base + n] = bonus]
  BY DEF EmitRow
<1> HIDE DEF n, m, base, bonus, kept
<1>4. ASSUME NEW s \in S, NEW pos \in 1 .. n PROVE After(s, pos) \in S
  <2>1. pos - 1 \in 0 .. n - 1 /\ pos - 1 \in 0 .. m /\ base + (pos - 1) = base + pos - 1
    BY <1>1
  <2>2. row[pos - 1].token \in V /\ base + pos - 1 \in I
    BY <1>1, <2>1
  <2> QED  BY <1>1, <2>2
<1>5. \E f : IsEmit(f)
  <2> DEFINE step == [p \in (1 .. n) \X S |-> After(p[2], p[1])]
  <2>1. \A pos \in 1 .. n : \A s \in S : step[<<pos, s>>] = After(s, pos)
    OBVIOUS
  <2>2. step \in Rounds(n, S)
    BY <1>4 DEF Rounds
  <2> HIDE DEF step, After
  <2>3. fresh \in S
    OBVIOUS
  <2> HIDE DEF S, fresh
  <2>4. PICK f : Trace(f, n, S, fresh, step)
    BY <1>1, <2>2, <2>3, LoopExists, Zenon
  <2>5. ASSUME NEW pos \in 1 .. n PROVE f[pos] = After(f[pos - 1], pos)
    <3>1. f[pos] = step[<<pos, f[pos - 1]>>] /\ f[pos - 1] \in S
      BY <1>1, <2>4 DEF Trace
    <3> QED  BY <2>1, <3>1
  <2>6. IsEmit(f)
    BY <2>4, <2>5 DEF Trace
  <2> QED  BY <2>6
<1>6. \A pos \in 0 .. n : emit[pos] = IF pos = 0 THEN fresh ELSE After(emit[pos - 1], pos)
  <2>1. IsEmit(emit)
    <3> HIDE DEF IsEmit
    <3> QED  BY <1>5
  <2> HIDE DEF emit, After, fresh
  <2> QED  BY <2>1
<1> HIDE DEF emit, IsEmit
<1> DEFINE T == {pos \in 0 .. n :
                   /\ emit[pos] \in S /\ (emit[pos].rejected <=> kept < pos)
                   /\ \A i \in I :
                        emit[pos].out[i] =
                          IF base <= i /\ i < base + pos /\ i <= base + kept /\ i \in Int
                          THEN row[i - base].token ELSE out[i]}
<1>7. 0 \in T
  <2>1. emit[0] = fresh /\ 0 \in 0 .. n
    <3> HIDE DEF After, fresh, T
    <3> QED  BY <1>1, <1>6
  <2>2. emit[0] \in S /\ (emit[0].rejected <=> kept < 0) /\ emit[0].out = out
    BY <1>1, <1>2, <2>1
  <2>3. \A i \in I : ~(base <= i /\ i < base + 0 /\ i <= base + kept /\ i \in Int)
    BY <1>1
  <2> HIDE DEF S
  <2> QED  BY <2>1, <2>2, <2>3
<1>8. ASSUME NEW pos \in 0 .. n - 1, pos \in T PROVE pos + 1 \in T
  <2>1. pos + 1 \in 1 .. n /\ pos + 1 \in 0 .. n /\ (pos + 1) - 1 = pos /\ pos + 1 # 0
    BY <1>1
  <2>2. emit[pos + 1] = After(emit[pos], pos + 1)
    <3> HIDE DEF After, T
    <3> QED  BY <1>6, <2>1
  <2>3. emit[pos] \in S /\ emit[pos + 1] \in S
    <3>1. emit[pos] \in S
      BY <1>8
    <3> HIDE DEF S, After, T
    <3> QED  BY <1>4, <2>1, <2>2, <3>1
  <2>4. CASE emit[pos].rejected
    <3>1. emit[pos + 1] = emit[pos] /\ kept < pos
      BY <1>8, <2>2, <2>4
    <3>2. \A i \in I : (base <= i /\ i < base + pos /\ i <= base + kept /\ i \in Int)
                       <=> (base <= i /\ i < base + (pos + 1) /\ i <= base + kept /\ i \in Int)
      BY <1>1, <1>2, <3>1
    <3> QED  BY <1>1, <1>2, <1>8, <2>1, <2>3, <3>1, <3>2
  <2>5. CASE ~emit[pos].rejected
    <3>1. pos <= kept /\ base + (pos + 1) - 1 = base + pos
      BY <1>1, <1>2, <1>8, <2>5
    <3>2. emit[pos + 1] = [out |-> [emit[pos].out EXCEPT ![base + pos] = row[pos].token],
                           rejected |-> ~row[pos].accepted]
      BY <2>1, <2>2, <2>5, <3>1
    <3>3. emit[pos + 1].rejected <=> kept < pos + 1
      <4>1. emit[pos + 1].rejected = ~row[pos].accepted
        BY <3>2
      <4>2. CASE pos < kept
        <5>1. row[pos].accepted /\ ~(kept < pos + 1)
          BY <1>1, <1>2, <4>2
        <5> QED  BY <4>1, <5>1
      <4>3. CASE pos = kept
        <5>1. ~row[pos].accepted /\ kept < pos + 1
          BY <1>1, <1>2, <4>3
        <5> QED  BY <4>1, <5>1
      <4> QED  BY <1>1, <1>2, <3>1, <4>2, <4>3
    <3>4. ASSUME NEW i \in I
          PROVE  emit[pos + 1].out[i] =
                   IF base <= i /\ i < base + (pos + 1) /\ i <= base + kept /\ i \in Int
                   THEN row[i - base].token ELSE out[i]
      <4>1. emit[pos].out \in [I -> V]
        BY <2>3
      <4>2. emit[pos + 1].out[i] = IF i = base + pos THEN row[pos].token ELSE emit[pos].out[i]
        BY <3>2, <4>1
      <4>3. emit[pos].out[i] =
              IF base <= i /\ i < base + pos /\ i <= base + kept /\ i \in Int
              THEN row[i - base].token ELSE out[i]
        BY <1>8
      <4>4. CASE i = base + pos
        BY <1>1, <1>2, <3>1, <4>2, <4>4
      <4>5. CASE i # base + pos
        BY <1>1, <1>2, <3>1, <4>2, <4>3, <4>5
      <4> QED  BY <4>4, <4>5
    <3> QED  BY <2>1, <2>3, <3>3, <3>4
  <2> QED  BY <2>4, <2>5
<1>9. n \in T
  <2> HIDE DEF T
  <2>1. \A pos \in 0 .. n : pos \in T
    BY <1>1, <1>7, <1>8, UpTo
  <2> QED  BY <1>1, <2>1
<1> DEFINE result == EmitRow(out, req, b, row)
<1>10. /\ emit[n].out \in [I -> V] /\ (emit[n].rejected <=> kept < n)
       /\ \A i \in I :
            emit[n].out[i] = IF base <= i /\ i < base + n /\ i <= base + kept /\ i \in Int
                             THEN row[i - base].token ELSE out[i]
  BY <1>9
<1> HIDE DEF S, T
<1>11. base + n \in I /\ result \in [I -> V]
       /\ \A i \in I : result[i] = IF kept = n /\ i = base + n THEN bonus ELSE emit[n].out[i]
  <2>1. base + n \in I
    BY <1>1
  <2>2. CASE kept < n
    BY <1>2, <1>3, <1>10, <2>1, <2>2
  <2>3. CASE kept = n
    <3>1. result = [emit[n].out EXCEPT ![base + n] = bonus]
      BY <1>1, <1>2, <1>3, <1>10, <2>3
    <3> QED  BY <1>1, <1>10, <2>1, <2>3, <3>1
  <2> QED  BY <1>1, <1>2, <2>2, <2>3
<1> HIDE DEF result
<1>12. ASSUME NEW i \in I, \A k \in 0 .. m : i # base + k PROVE result[i] = out[i]
  <2>1. i # base + n
    BY <1>1, <1>12
  <2>2. ~(base <= i /\ i < base + n /\ i \in Int)
    <3> SUFFICES ASSUME base <= i, i < base + n, i \in Int PROVE FALSE
      OBVIOUS
    <3>1. i - base \in 0 .. m /\ i = base + (i - base)
      BY <1>1
    <3> QED  BY <1>12, <3>1
  <2> QED  BY <1>10, <1>11, <2>1, <2>2
<1>13. ASSUME NEW k \in 0 .. m PROVE result[base + k] = Slot(row, n, bonus, out[base + k], k)
  <2>1. base + k \in I /\ (base + k) - base = k /\ base + k \in Int /\ base <= base + k
        /\ (base + k < base + n <=> k < n) /\ (base + k <= base + kept <=> k <= kept)
        /\ (base + k = base + n <=> k = n)
    BY <1>1, <1>2
  <2>2. emit[n].out[base + k] = IF k < n /\ k <= kept THEN row[k].token ELSE out[base + k]
    BY <1>10, <2>1
  <2>3. result[base + k] = IF kept = n /\ k = n THEN bonus ELSE emit[n].out[base + k]
    BY <1>11, <2>1
  <2>4. Slot(row, n, bonus, out[base + k], k)
          = IF k < kept THEN row[k].token ELSE IF k > kept THEN out[base + k]
            ELSE IF k < n THEN row[k].token ELSE bonus
    BY DEF Slot, kept
  <2> QED  BY <1>1, <1>2, <2>2, <2>3, <2>4
<1> QED  BY <1>11, <1>12, <1>13 DEF RowEmitted, n, m, base, bonus, result

(***************************************************************************)
(* The output array has max_spec_len + 1 slots per request.                *)
(***************************************************************************)
Slots(b) == 0 .. (b.max_spec_len + 1) * Cardinality(DOMAIN b.cu) - 1

(***************************************************************************)
(* The rows of a batch fit their requests.                                 *)
(***************************************************************************)
RowsFit(b, skipped, row, V) ==
  /\ Cardinality(DOMAIN b.cu) \in Nat /\ b.max_spec_len \in Nat
  /\ \A r \in Rows(b.cu) : /\ Drafted(b.cu, r) \in Nat
                           /\ Drafted(b.cu, r) <= b.max_spec_len
                           /\ b.bonus[r] \in V
                           /\ ~skipped[r] => row[r] \in RowSet(Drafted(b.cu, r), V)

(***************************************************************************)
(* Every request that is not skipped has its row, the others what they had.*)
(***************************************************************************)
RowsEmitted(result, out, b, skipped, row, V) ==
  /\ result \in [Slots(b) -> V]
  /\ \A r \in Rows(b.cu) : \A k \in 0 .. b.max_spec_len :
       result[r * (b.max_spec_len + 1) + k]
         = IF skipped[r] THEN out[r * (b.max_spec_len + 1) + k]
           ELSE Slot(row[r], Drafted(b.cu, r), b.bonus[r], out[r * (b.max_spec_len + 1) + k], k)

(***************************************************************************)
(* The loop over the requests gives every request that is not skipped its  *)
(* own row, and leaves the others as they were.                            *)
(***************************************************************************)
LEMMA EmitRowsIs ==
  ASSUME NEW b, NEW V, NEW out, NEW skipped, NEW row,
         RowsFit(b, skipped, row, V), out \in [Slots(b) -> V]
  PROVE  RowsEmitted(EmitRows(out, b, skipped, row), out, b, skipped, row, V)
<1> DEFINE n == Cardinality(DOMAIN b.cu)
           m == b.max_spec_len
           I == 0 .. (m + 1) * n - 1
           At(r, k) == r * (m + 1) + k
           Row(r, old, k) == Slot(row[r], Drafted(b.cu, r), b.bonus[r], old, k)
<1>1. n \in Nat /\ m \in Nat /\ m + 1 \in Nat /\ out \in [I -> V] /\ Rows(b.cu) = 0 .. n - 1
  BY DEF RowsFit, Slots, Rows
<1>2. ASSUME NEW r \in 0 .. n - 1
      PROVE  /\ Drafted(b.cu, r) \in Nat /\ Drafted(b.cu, r) <= m /\ b.bonus[r] \in V
             /\ ~skipped[r] => row[r] \in RowSet(Drafted(b.cu, r), V)
  BY <1>1 DEF RowsFit
<1> DEFINE IsLoop(f) == f = [i \in 0 .. n |->
                               IF i = 0 THEN out
                               ELSE IF skipped[i - 1] THEN f[i - 1]
                               ELSE EmitRow(f[i - 1], i - 1, b, row[i - 1])]
           emitted == CHOOSE f : IsLoop(f)
<1>3. EmitRows(out, b, skipped, row) = emitted[n]
  BY DEF EmitRows
<1>4. (m + 1) * n = n * (m + 1)
  BY <1>1
<1> HIDE DEF n, m
<1>5. ASSUME NEW r \in 0 .. n - 1
      PROVE  /\ r * (m + 1) \in Nat
             /\ \A k \in 0 .. m : At(r, k) \in I
             /\ \A q \in 0 .. n - 1 : q # r =>
                  \A j, k \in 0 .. m : At(q, j) # At(r, k)
  <2>1. ASSUME NEW p \in 0 .. n, NEW q \in 0 .. n
        PROVE  /\ p * (m + 1) \in Nat /\ q * (m + 1) \in Nat
               /\ p < q => p * (m + 1) + (m + 1) <= q * (m + 1)
    <3>1. p \in Nat /\ q \in Nat
      BY <1>1
    <3> QED  BY <1>1, <3>1, TimesOrder
  <2>2. r \in 0 .. n /\ n \in 0 .. n /\ r < n
    BY <1>1
  <2>3. r * (m + 1) \in Nat /\ r * (m + 1) + (m + 1) <= (m + 1) * n
    BY <1>4, <2>1, <2>2
  <2>4. \A k \in 0 .. m : At(r, k) \in I
    BY <1>1, <2>1, <2>2, <2>3
  <2>5. ASSUME NEW q \in 0 .. n - 1, q # r, NEW j \in 0 .. m, NEW k \in 0 .. m,
               At(q, j) = At(r, k)
        PROVE  FALSE
    <3> DEFINE x == q * (m + 1)
               y == r * (m + 1)
    <3>1. x \in Nat /\ y \in Nat /\ (q < r => x + (m + 1) <= y) /\ (r < q => y + (m + 1) <= x)
      <4>1. q \in 0 .. n
        BY <1>1
      <4> QED  BY <2>1, <2>2, <4>1
    <3>2. x + j = y + k
      BY <2>5
    <3> HIDE DEF x, y
    <3> QED  BY <1>1, <2>5, <3>1, <3>2
  <2> QED  BY <2>3, <2>4, <2>5
<1> HIDE DEF I
<1>6. ASSUME NEW o \in [I -> V], NEW r \in 0 .. n - 1, ~skipped[r]
      PROVE  /\ EmitRow(o, r, b, row[r]) \in [I -> V]
             /\ \A i \in I : (\A k \in 0 .. m : i # At(r, k)) =>
                  EmitRow(o, r, b, row[r])[i] = o[i]
             /\ \A k \in 0 .. m :
                  EmitRow(o, r, b, row[r])[At(r, k)] = Row(r, o[At(r, k)], k)
  <2> HIDE DEF Row
  <2>1. /\ Drafted(b.cu, r) \in Nat /\ row[r] \in RowSet(Drafted(b.cu, r), V)
        /\ b.bonus[r] \in V /\ Drafted(b.cu, r) <= m
    BY <1>2, <1>6
  <2>2. r * (m + 1) \in Nat /\ \A k \in 0 .. m : r * (m + 1) + k \in I
    BY <1>5
  <2>3. RowFits(b, r, row[r], I, V)
    BY <1>1, <2>1, <2>2 DEF RowFits, m
  <2>4. RowEmitted(EmitRow(o, r, b, row[r]), o, b, r, row[r], I, V)
    BY <2>3, EmitRowIs, Zenon
  <2> QED  BY <2>4 DEF RowEmitted, m, Row
<1>7. \E f : IsLoop(f)
  <2> DEFINE S == [I -> V]
             step == [p \in (1 .. n) \X S |->
                        IF skipped[p[1] - 1] THEN p[2]
                        ELSE EmitRow(p[2], p[1] - 1, b, row[p[1] - 1])]
  <2>1. \A i \in 1 .. n : \A o \in S :
          step[<<i, o>>] = IF skipped[i - 1] THEN o ELSE EmitRow(o, i - 1, b, row[i - 1])
    OBVIOUS
  <2>2. ASSUME NEW i \in 1 .. n, NEW o \in S PROVE step[<<i, o>>] \in S
    <3>1. i - 1 \in 0 .. n - 1
      BY <1>1
    <3> HIDE DEF step
    <3> QED  BY <1>6, <2>1, <3>1
  <2>3. step \in Rounds(n, S)
    <3> HIDE DEF S
    <3>1. step = [p \in (1 .. n) \X S |-> step[p]]
      OBVIOUS
    <3> HIDE DEF step
    <3>2. \A p \in (1 .. n) \X S : step[p] \in S
      BY <2>2
    <3> QED  BY <3>1, <3>2 DEF Rounds
  <2>4. out \in S
    BY <1>1
  <2> HIDE DEF step, S
  <2>5. PICK f : Trace(f, n, S, out, step)
    BY <1>1, <2>3, <2>4, LoopExists, Zenon
  <2>6. ASSUME NEW i \in 1 .. n
        PROVE  f[i] = IF skipped[i - 1] THEN f[i - 1]
                      ELSE EmitRow(f[i - 1], i - 1, b, row[i - 1])
    <3>1. f[i] = step[<<i, f[i - 1]>>] /\ f[i - 1] \in S
      BY <1>1, <2>5 DEF Trace
    <3> QED  BY <2>1, <3>1
  <2>7. IsLoop(f)
    BY <2>5, <2>6 DEF Trace
  <2> QED  BY <2>7
<1>8. \A i \in 0 .. n : emitted[i] = IF i = 0 THEN out
                                     ELSE IF skipped[i - 1] THEN emitted[i - 1]
                                     ELSE EmitRow(emitted[i - 1], i - 1, b, row[i - 1])
  <2>1. IsLoop(emitted)
    <3> HIDE DEF IsLoop
    <3> QED  BY <1>7
  <2> HIDE DEF emitted
  <2> QED  BY <2>1
<1> HIDE DEF emitted, IsLoop
<1> DEFINE Done(i) == \A r \in 0 .. n - 1 : \A k \in 0 .. m :
                        emitted[i][At(r, k)] = IF r < i /\ ~skipped[r]
                                               THEN Row(r, out[At(r, k)], k)
                                               ELSE out[At(r, k)]
           T == {i \in 0 .. n : emitted[i] \in [I -> V] /\ Done(i)}
<1> HIDE DEF At, Row
<1>9. 0 \in T
  <2>1. emitted[0] = out /\ 0 \in 0 .. n
    BY <1>1, <1>8
  <2> QED  BY <1>1, <2>1
<1>10. ASSUME NEW i \in 0 .. n - 1, i \in T PROVE i + 1 \in T
  <2>1. i + 1 \in 0 .. n /\ i + 1 # 0 /\ (i + 1) - 1 = i
    BY <1>1
  <2>2. emitted[i + 1] = IF skipped[i] THEN emitted[i] ELSE EmitRow(emitted[i], i, b, row[i])
    BY <1>8, <2>1
  <2>3. emitted[i] \in [I -> V] /\ Done(i)
    BY <1>10
  <2>4. CASE skipped[i]
    <3>1. emitted[i + 1] = emitted[i]
      BY <2>2, <2>4
    <3>2. \A r \in 0 .. n - 1 : (r < i /\ ~skipped[r]) <=> (r < i + 1 /\ ~skipped[r])
      BY <1>1, <2>4
    <3> QED  BY <2>1, <2>3, <3>1, <3>2
  <2>5. CASE ~skipped[i]
    <3>1. emitted[i + 1] = EmitRow(emitted[i], i, b, row[i])
      BY <2>2, <2>5
    <3>2. emitted[i + 1] \in [I -> V]
      <4>1. EmitRow(emitted[i], i, b, row[i]) \in [I -> V]
        BY <1>6, <2>3, <2>5, Zenon
      <4> QED  BY <3>1, <4>1
    <3>3. ASSUME NEW r \in 0 .. n - 1, NEW k \in 0 .. m
          PROVE  emitted[i + 1][At(r, k)] = IF r < i + 1 /\ ~skipped[r]
                                            THEN Row(r, out[At(r, k)], k)
                                            ELSE out[At(r, k)]
      <4>1. CASE r = i
        <5>1. emitted[i + 1][At(i, k)] = Row(i, emitted[i][At(i, k)], k)
          <6>1. EmitRow(emitted[i], i, b, row[i])[At(i, k)] = Row(i, emitted[i][At(i, k)], k)
            BY <1>6, <2>3, <2>5, Zenon
          <6> QED  BY <3>1, <6>1
        <5>2. emitted[i][At(i, k)] = out[At(i, k)]
          BY <1>1, <2>3
        <5> QED  BY <1>1, <2>5, <4>1, <5>1, <5>2
      <4>2. CASE r # i
        <5>1. At(r, k) \in I /\ \A j \in 0 .. m : At(r, k) # At(i, j)
          BY <1>5, <4>2
        <5>2. emitted[i + 1][At(r, k)] = emitted[i][At(r, k)]
          BY <1>6, <2>3, <2>5, <3>1, <5>1
        <5>3. r < i + 1 <=> r < i
          BY <1>1, <4>2
        <5> QED  BY <2>3, <5>2, <5>3
      <4> QED  BY <4>1, <4>2
    <3> QED  BY <2>1, <3>2, <3>3
  <2> QED  BY <2>4, <2>5
<1>11. emitted[n] \in [I -> V] /\ Done(n)
  <2> HIDE DEF T
  <2>1. \A i \in 0 .. n : i \in T
    BY <1>1, <1>9, <1>10, UpTo
  <2> HIDE DEF Done
  <2>2. n \in T
    BY <1>1, <2>1
  <2> USE DEF T
  <2> QED  BY <2>2
<1>12. ASSUME NEW r \in 0 .. n - 1, NEW k \in 0 .. m
       PROVE  emitted[n][At(r, k)] = IF skipped[r] THEN out[At(r, k)]
                                     ELSE Row(r, out[At(r, k)], k)
  BY <1>1, <1>11
<1> QED  BY <1>1, <1>3, <1>11, <1>12 DEF RowsEmitted, Slots, n, m, I, At, Row

-----------------------------------------------------------------------------
(***************************************************************************)
(* What the kernels write for a request: the row of the kernel that takes  *)
(* it, with numbers as tokens.                                             *)
(***************************************************************************)
Values == Int \cup {Placeholder}

RowOf(b, r) == IF b.is_greedy[r] THEN GreedyRow(b, r) ELSE RandomRow(b, r, Recovered(b))

(***************************************************************************)
(* What a well-formed batch says of the k-th draft of a request.           *)
(***************************************************************************)
LEMMA DraftFormed ==
  ASSUME NEW b, WellFormed(b), NEW r \in Rows(b.cu), NEW k \in 0 .. Drafted(b.cu, r) - 1
  PROVE  LET t == Start(b.cu, r) + k
         IN /\ t \in Tokens(b) /\ TokenToReq(b.cu, t) = r /\ t = Tok(b, r, k)
            /\ b.draft[t] \in 0 .. b.vocab_size - 1 /\ b.vocab_size \in Nat \ {0}
            /\ b.target_probs[t] \in [0 .. b.vocab_size - 1 -> Nat]
            /\ b.argmax[t] = FirstArgmax(b.target_probs[t])
            /\ b.argmax[t] \in 0 .. b.vocab_size - 1
            /\ Recovered(b)[t] = Resampled(b, r, t)
            /\ Recovered(b)[t] \in 0 .. b.vocab_size - 1
            /\ ~b.no_draft_probs => b.draft_probs[t][b.draft[t]] \in Nat
            /\ b.target_probs[t][b.draft[t]] \in Nat
            /\ b.synthetic \/ ~b.is_greedy[r] => b.uniform[t] \in Nat
            /\ b.synthetic => b.rates[k] \in Nat
<1> DEFINE t == Start(b.cu, r) + k
<1>1. DraftsFormed(b)
  BY DEF WellFormed
<1>2. t \in Start(b.cu, r) .. b.cu[r] - 1
  <2>1. /\ Start(b.cu, r) \in Nat /\ Drafted(b.cu, r) \in Nat /\ b.cu[r] \in Nat
        /\ Start(b.cu, r) + Drafted(b.cu, r) = b.cu[r]
    BY <1>1, BatchRows
  <2> QED  BY <2>1
<1>3. t = Tok(b, r, k)
  BY DEF Tok
<1> HIDE DEF t
<1>4. t \in Tokens(b) /\ TokenToReq(b.cu, t) = r
  BY <1>1, <1>2, TokenOwner
<1>5. /\ b.draft[t] \in 0 .. b.vocab_size - 1 /\ b.vocab_size \in Nat \ {0}
      /\ b.target_probs[t] \in [0 .. b.vocab_size - 1 -> Nat]
      /\ ~b.no_draft_probs => b.draft_probs[t] \in [0 .. b.vocab_size - 1 -> Nat]
  BY <1>1, <1>4 DEF DraftsFormed, Scored
<1>6. b.argmax[t] = FirstArgmax(b.target_probs[t])
  BY <1>4 DEF WellFormed
<1>7. b.argmax[t] \in 0 .. b.vocab_size - 1
  BY <1>5, <1>6, FirstArgmaxType
<1>8. Recovered(b)[t] = Resampled(b, r, t)
  BY <1>1, <1>4, RecoveredIsResampled
<1>9. Resampled(b, r, t) \in 0 .. b.vocab_size - 1
  <2> DEFINE score == [v \in 0 .. b.vocab_size - 1 |-> Residual(b, t)[v] * b.inv_q[r][v]]
  <2>1. score \in Scored(b)
    BY <1>1, <1>4, ScoresFormed
  <2>2. Resampled(b, r, t) = FirstArgmax(score)
    BY DEF Resampled
  <2> HIDE DEF score
  <2> QED  BY <1>5, <2>1, <2>2, FirstArgmaxType DEF Scored
<1>10. b.synthetic \/ ~b.is_greedy[r] => b.uniform[t] \in Nat
  <2>1. b.synthetic \/ ~b.is_greedy[r] => b.uniform \in [Tokens(b) -> Nat]
    BY DEF WellFormed
  <2> QED  BY <1>4, <2>1
<1>11. b.synthetic => b.rates[k] \in Nat
  <2>1. /\ b.synthetic => b.rates \in [0 .. b.max_spec_len - 1 -> Nat]
        /\ b.max_spec_len \in Nat /\ Drafted(b.cu, r) <= b.max_spec_len
    BY DEF WellFormed
  <2>2. Drafted(b.cu, r) \in Nat
    BY <1>1, BatchRows
  <2> QED  BY <2>1, <2>2
<1>12. /\ b.target_probs[t][b.draft[t]] \in Nat
       /\ ~b.no_draft_probs => b.draft_probs[t][b.draft[t]] \in Nat
  BY <1>5
<1> QED  BY <1>3, <1>4, <1>5, <1>6, <1>7, <1>8, <1>9, <1>10, <1>11, <1>12 DEF t

(***************************************************************************)
(* The rows of both kernels are made of numbers.                           *)
(***************************************************************************)
LEMMA RowsTyped ==
  ASSUME NEW b, WellFormed(b), NEW r \in Rows(b.cu)
  PROVE  /\ GreedyRow(b, r) \in RowSet(Drafted(b.cu, r), Values)
         /\ ~b.is_greedy[r] =>
              RandomRow(b, r, Recovered(b)) \in RowSet(Drafted(b.cu, r), Values)
<1> DEFINE n == Drafted(b.cu, r)
<1>1. ASSUME NEW k \in 0 .. n - 1
      PROVE  /\ b.draft[Start(b.cu, r) + k] \in Values
             /\ b.argmax[Start(b.cu, r) + k] \in Values
             /\ Recovered(b)[Start(b.cu, r) + k] \in Values
  BY DraftFormed DEF Values
<1>2. GreedyRow(b, r) \in RowSet(n, Values)
  <2>1. ASSUME NEW k \in 0 .. n - 1
        PROVE  GreedyRow(b, r)[k] \in [accepted : BOOLEAN, token : Values]
    <3> DEFINE t == Start(b.cu, r) + k
               ok == IF b.synthetic THEN b.uniform[t] < b.rates[k] ELSE b.draft[t] = b.argmax[t]
               token == IF b.synthetic /\ ok THEN b.draft[t] ELSE b.argmax[t]
    <3>1. GreedyRow(b, r)[k] = [accepted |-> ok, token |-> token]
      BY DEF GreedyRow
    <3>2. ok \in BOOLEAN
      <4>1. b.synthetic => b.uniform[t] \in Nat /\ b.rates[k] \in Nat
        BY DraftFormed
      <4>2. CASE b.synthetic
        <5> DEFINE u == b.uniform[t]
                   rate == b.rates[k]
        <5>1. ok = (u < rate) /\ u \in Nat /\ rate \in Nat
          BY <4>1, <4>2
        <5> HIDE DEF ok, u, rate
        <5>2. (u < rate) \in BOOLEAN
          BY <5>1
        <5> QED  BY <5>1, <5>2
      <4>3. CASE ~b.synthetic
        BY <4>3, Zenon
      <4> QED  BY <4>2, <4>3
    <3>3. token \in Values
      BY <1>1
    <3> HIDE DEF ok, token
    <3> QED  BY <3>1, <3>2, <3>3
  <2>2. GreedyRow(b, r) = [k \in 0 .. n - 1 |-> GreedyRow(b, r)[k]]
    BY DEF GreedyRow
  <2> QED  BY <2>1, <2>2 DEF RowSet
<1>3. ASSUME ~b.is_greedy[r] PROVE RandomRow(b, r, Recovered(b)) \in RowSet(n, Values)
  <2> DEFINE row == RandomRow(b, r, Recovered(b))
  <2>1. ASSUME NEW k \in 0 .. n - 1
        PROVE  row[k] \in [accepted : BOOLEAN, token : Values]
    <3> DEFINE t == Start(b.cu, r) + k
               d == b.draft[t]
               ok == IF b.synthetic THEN b.uniform[t] < b.rates[k]
                     ELSE IF b.no_draft_probs THEN b.target_probs[t][d] >= b.uniform[t]
                     ELSE /\ b.draft_probs[t][d] > 0
                          /\ b.target_probs[t][d] >= b.uniform[t] * b.draft_probs[t][d]
               token == IF ok THEN d ELSE Recovered(b)[t]
    <3>1. row[k] = [accepted |-> ok, token |-> token]
      BY DEF RandomRow
    <3>2. ok \in BOOLEAN
      <4>1. /\ b.synthetic => b.rates[k] \in Nat
            /\ b.uniform[t] \in Nat /\ b.target_probs[t][d] \in Nat
            /\ ~b.no_draft_probs => b.draft_probs[t][d] \in Nat
        BY <1>3, DraftFormed
      <4>2. CASE b.synthetic
        <5> DEFINE u == b.uniform[t]
                   rate == b.rates[k]
        <5>1. ok = (u < rate) /\ u \in Nat /\ rate \in Nat
          BY <4>1, <4>2
        <5> HIDE DEF ok, u, rate
        <5>2. (u < rate) \in BOOLEAN
          BY <5>1
        <5> QED  BY <5>1, <5>2
      <4>3. CASE ~b.synthetic /\ b.no_draft_probs
        <5> DEFINE u == b.uniform[t]
                   p == b.target_probs[t][d]
        <5>1. ok = (p >= u) /\ u \in Nat /\ p \in Nat
          BY <4>1, <4>3
        <5> HIDE DEF ok, u, p
        <5>2. (p >= u) \in BOOLEAN
          BY <5>1
        <5> QED  BY <5>1, <5>2
      <4>4. CASE ~b.synthetic /\ ~b.no_draft_probs
        BY <4>4, Zenon
      <4> QED  BY <4>2, <4>3, <4>4
    <3>3. token \in Values
      BY <1>1
    <3> HIDE DEF ok, token
    <3> QED  BY <3>1, <3>2, <3>3
  <2>2. row = [k \in 0 .. n - 1 |-> row[k]]
    BY DEF RandomRow
  <2> QED  BY <2>1, <2>2 DEF RowSet
<1> QED  BY <1>2, <1>3

(***************************************************************************)
(* Whichever kernels a batch needs, the launchers accept it, and every     *)
(* request ends up with its own row in slots that held nothing else.       *)
(***************************************************************************)
LEMMA SampledRows ==
  ASSUME NEW b, WellFormed(b)
  PROVE  \A r \in Rows(b.cu) : \A k \in 0 .. b.max_spec_len :
           RejectionSample(b)[r * (b.max_spec_len + 1) + k]
             = Slot(RowOf(b, r), Drafted(b.cu, r), b.bonus[r], Placeholder, k)
<1> DEFINE n == Cardinality(DOMAIN b.cu)
           R == Rows(b.cu)
           m == b.max_spec_len
           fresh == [i \in Slots(b) |-> Placeholder]
           all_greedy == \A r \in R : b.is_greedy[r]
           all_random == \A r \in R : ~b.is_greedy[r]
           mask == [r \in R |-> ~all_greedy /\ ~b.is_greedy[r]]
           rows == [r \in R |-> GreedyRow(b, r)]
           randoms == [r \in R |-> RandomRow(b, r, Recovered(b))]
           At(r, k) == r * (m + 1) + k
<1>1. /\ n \in Nat /\ m \in Nat /\ R = 0 .. n - 1 /\ b.is_greedy \in [R -> BOOLEAN]
      /\ \A r \in R : Drafted(b.cu, r) \in Nat /\ Drafted(b.cu, r) <= m /\ b.bonus[r] \in Values
  <2>1. DraftsFormed(b) /\ m \in Nat /\ b.bonus \in [R -> Nat] /\ b.is_greedy \in [R -> BOOLEAN]
        /\ \A r \in R : Drafted(b.cu, r) <= m
    BY DEF WellFormed
  <2> QED  BY <2>1, BatchRows DEF Values
<1>2. fresh \in [Slots(b) -> Values]
  BY DEF Values
<1>3. Cardinality(R) = n
  <2>1. Cardinality(0 .. n - 1) = IF 0 > n - 1 THEN 0 ELSE n - 1 - 0 + 1
    <3>1. n - 1 \in Int /\ 0 \in Int
      BY <1>1
    <3> HIDE DEF n
    <3> QED  BY <3>1, FS_Interval
  <2> QED  BY <1>1, <2>1
<1>4. fresh = [i \in 0 .. (m + 1) * Cardinality(R) - 1 |-> Placeholder]
  BY <1>3 DEF Slots
<1>5. ASSUME NEW r \in R, NEW k \in 0 .. m PROVE fresh[At(r, k)] = Placeholder
  <2>1. r \in Nat /\ n \in Nat /\ r < n
    BY <1>1
  <2>2. r * (m + 1) \in Nat /\ r * (m + 1) + (m + 1) <= n * (m + 1) /\ n * (m + 1) = (m + 1) * n
    <3>1. m + 1 \in Nat
      BY <1>1
    <3> HIDE DEF n, m
    <3> QED  BY <2>1, <3>1, TimesOrder
  <2>3. At(r, k) \in Slots(b)
    BY <1>1, <2>1, <2>2 DEF Slots
  <2> QED  BY <2>3
<1> DEFINE greedy == IF all_random THEN fresh ELSE Greedy(fresh, b, ~all_greedy)
<1>6. RejectionSample(b)
        = IF all_greedy THEN greedy ELSE Random(greedy, b, Recovered(b))
  <2>1. ~all_random => ~GreedyRefused(b)
    <3>1. b.synthetic => b.uniform # Absent /\ b.rates # Absent
      BY DEF WellFormed
    <3> QED  BY <3>1 DEF GreedyRefused
  <2>2. ~RecoveredRefused(b) /\ ~RandomRefused(b)
    <3>1. /\ b.synthetic => b.rates # Absent
          /\ ~b.no_draft_probs => b.draft_probs # Absent
      BY DEF WellFormed, DraftsFormed
    <3> QED  BY <3>1 DEF RecoveredRefused, RandomRefused
  <2> QED  BY <1>4, <2>1, <2>2 DEF RejectionSample
<1>7. Greedy(fresh, b, ~all_greedy) = EmitRows(fresh, b, mask, rows)
  BY DEF Greedy
<1>8. Random(greedy, b, Recovered(b)) = EmitRows(greedy, b, b.is_greedy, randoms)
  BY DEF Random
<1> HIDE DEF fresh
<1>9. RowsFit(b, mask, rows, Values) /\ RowsFit(b, b.is_greedy, randoms, Values)
  BY <1>1, RowsTyped DEF RowsFit
<1>10. RowsEmitted(Greedy(fresh, b, ~all_greedy), fresh, b, mask, rows, Values)
  <2> HIDE DEF mask, rows, all_greedy
  <2> QED  BY <1>2, <1>7, <1>9, EmitRowsIs
<1>11. greedy \in [Slots(b) -> Values]
  BY <1>2, <1>10 DEF RowsEmitted
<1>12. RowsEmitted(Random(greedy, b, Recovered(b)), greedy, b, b.is_greedy, randoms, Values)
  <2> HIDE DEF greedy, randoms
  <2> QED  BY <1>8, <1>9, <1>11, EmitRowsIs
<1> SUFFICES ASSUME NEW r \in R, NEW k \in 0 .. m
             PROVE  RejectionSample(b)[At(r, k)]
                      = Slot(RowOf(b, r), Drafted(b.cu, r), b.bonus[r], Placeholder, k)
  OBVIOUS
<1> DEFINE Written(row) == Slot(row, Drafted(b.cu, r), b.bonus[r], Placeholder, k)
<1>13. Greedy(fresh, b, ~all_greedy)[At(r, k)]
         = IF ~all_greedy /\ ~b.is_greedy[r] THEN Placeholder ELSE Written(GreedyRow(b, r))
  <2>1. mask[r] = (~all_greedy /\ ~b.is_greedy[r]) /\ rows[r] = GreedyRow(b, r)
    OBVIOUS
  <2> HIDE DEF mask, rows, all_greedy
  <2> QED  BY <1>5, <1>10, <2>1 DEF RowsEmitted
<1>14. Random(greedy, b, Recovered(b))[At(r, k)]
         = IF b.is_greedy[r] THEN greedy[At(r, k)]
           ELSE Slot(RandomRow(b, r, Recovered(b)), Drafted(b.cu, r), b.bonus[r],
                     greedy[At(r, k)], k)
  <2>1. randoms[r] = RandomRow(b, r, Recovered(b))
    OBVIOUS
  <2> HIDE DEF greedy, randoms
  <2> QED  BY <1>12, <2>1 DEF RowsEmitted
<1>15. CASE b.is_greedy[r]
  <2>1. ~all_random /\ greedy[At(r, k)] = Written(GreedyRow(b, r))
    BY <1>13, <1>15
  <2>2. RejectionSample(b)[At(r, k)] = greedy[At(r, k)]
    BY <1>6, <1>14, <1>15
  <2> QED  BY <1>15, <2>1, <2>2 DEF RowOf
<1>16. CASE ~b.is_greedy[r]
  <2>1. ~all_greedy
    BY <1>16
  <2>2. greedy[At(r, k)] = Placeholder
    BY <1>5, <1>13, <1>16, <2>1
  <2>3. RejectionSample(b)[At(r, k)] = Written(RandomRow(b, r, Recovered(b)))
    BY <1>6, <1>14, <1>16, <2>1, <2>2
  <2> QED  BY <1>16, <2>3 DEF RowOf
<1> QED  BY <1>15, <1>16

(***************************************************************************)
(* A request's own view of the batch has its drafts and no others.         *)
(***************************************************************************)
LEMMA DraftsCounted ==
  ASSUME NEW b, DraftsFormed(b), NEW r \in Rows(b.cu)
  PROVE  Cardinality(DraftsOf(b, r)) = Drafted(b.cu, r)
<1> DEFINE lo == Start(b.cu, r)
           hi == b.cu[r] - 1
<1>1. lo \in Int /\ hi \in Int /\ Drafted(b.cu, r) \in Nat /\ lo + Drafted(b.cu, r) = hi + 1
  BY BatchRows
<1>2. DOMAIN b.draft = Tokens(b)
  BY DEF DraftsFormed
<1>3. DraftsOf(b, r) = lo .. hi
  <2>1. ASSUME NEW t \in DraftsOf(b, r) PROVE t \in lo .. hi
    BY <1>2, TokenOwned DEF DraftsOf
  <2>2. ASSUME NEW t \in lo .. hi PROVE t \in DraftsOf(b, r)
    BY <1>2, TokenOwner DEF DraftsOf
  <2> QED  BY <2>1, <2>2
<1> HIDE DEF lo, hi
<1>4. Cardinality(lo .. hi) = IF lo > hi THEN 0 ELSE hi - lo + 1
  BY <1>1, FS_Interval
<1> QED  BY <1>1, <1>3, <1>4

(***************************************************************************)
(* The rows decide as the reference does: a draft is accepted on the       *)
(* verdict of its own request, kept as it is if so, and corrected if not.  *)
(***************************************************************************)
LEMMA RowDecides ==
  ASSUME NEW b, WellFormed(b), NEW r \in Rows(b.cu), NEW k \in 0 .. Drafted(b.cu, r) - 1
  PROVE  /\ RowOf(b, r)[k].accepted <=> Verdict(b, r, k)
         /\ RowOf(b, r)[k].accepted => RowOf(b, r)[k].token = b.draft[Tok(b, r, k)]
         /\ ~RowOf(b, r)[k].accepted => RowOf(b, r)[k].token = Correction(b, r, k)
<1> DEFINE t == Start(b.cu, r) + k
           d == b.draft[t]
<1>1. /\ t = Tok(b, r, k)
      /\ b.argmax[t] = FirstArgmax(b.target_probs[t])
      /\ Recovered(b)[t] = Resampled(b, r, t)
      /\ ~b.no_draft_probs => b.draft_probs[t][d] \in Nat
  <2>1. t = Tok(b, r, k)
    BY DEF Tok
  <2>2. b.argmax[t] = FirstArgmax(b.target_probs[t])
    BY DraftFormed
  <2>3. Recovered(b)[t] = Resampled(b, r, t)
    BY DraftFormed
  <2>4. ~b.no_draft_probs => b.draft_probs[t][b.draft[t]] \in Nat
    BY DraftFormed
  <2> QED  BY <2>1, <2>2, <2>3, <2>4
<1>2. CASE b.is_greedy[r]
  <2> DEFINE ok == IF b.synthetic THEN b.uniform[t] < b.rates[k] ELSE d = b.argmax[t]
  <2>1. RowOf(b, r)[k].accepted = ok
    BY <1>2 DEF RowOf, GreedyRow
  <2>2. RowOf(b, r)[k].token = IF b.synthetic /\ ok THEN d ELSE b.argmax[t]
    BY <1>2 DEF RowOf, GreedyRow
  <2>3. Verdict(b, r, k) <=> ok
    BY <1>1, <1>2 DEF Verdict
  <2>4. Correction(b, r, k) = b.argmax[t]
    BY <1>1, <1>2 DEF Correction
  <2>5. ok /\ ~b.synthetic => d = b.argmax[t]
    OBVIOUS
  <2> HIDE DEF ok, t, d
  <2> QED  BY <1>1, <2>1, <2>2, <2>3, <2>4, <2>5 DEF d
<1>3. CASE ~b.is_greedy[r]
  <2> DEFINE ok == IF b.synthetic THEN b.uniform[t] < b.rates[k]
                   ELSE IF b.no_draft_probs THEN b.target_probs[t][d] >= b.uniform[t]
                   ELSE /\ b.draft_probs[t][d] > 0
                        /\ b.target_probs[t][d] >= b.uniform[t] * b.draft_probs[t][d]
  <2>1. RowOf(b, r)[k].accepted = ok
    BY <1>3 DEF RowOf, RandomRow
  <2>2. RowOf(b, r)[k].token = IF ok THEN d ELSE Recovered(b)[t]
    BY <1>3 DEF RowOf, RandomRow
  <2>3. Verdict(b, r, k) <=> ok
    <3>1. ~b.no_draft_probs => (b.draft_probs[t][d] > 0 <=> b.draft_probs[t][d] # 0)
      <4> DEFINE p == b.draft_probs[t][d]
      <4>1. ~b.no_draft_probs => p \in Nat
        BY <1>1
      <4> HIDE DEF p
      <4>2. ~b.no_draft_probs => (p > 0 <=> p # 0)
        BY <4>1
      <4> QED  BY <4>2 DEF p
    <3> QED  BY <1>1, <1>3, <3>1 DEF Verdict
  <2>4. Correction(b, r, k) = Recovered(b)[t]
    BY <1>1, <1>3 DEF Correction
  <2> HIDE DEF ok, t, d
  <2> QED  BY <1>1, <2>1, <2>2, <2>3, <2>4 DEF d
<1> QED  BY <1>2, <1>3

(***************************************************************************)
(* For every well-formed batch the sampler gives every request the longest *)
(* accepted prefix of its drafts, one token more and nothing after it,     *)
(* whatever the other requests of the batch are.                           *)
(***************************************************************************)
THEOREM SamplerAgrees ==
  ASSUME NEW b, WellFormed(b)
  PROVE  RowsAgree(b)
<1>1. DraftsFormed(b) /\ b.max_spec_len \in Nat
      /\ \A r \in Rows(b.cu) : Drafted(b.cu, r) <= b.max_spec_len
  BY DEF WellFormed
<1> DEFINE Own(r) == Cardinality(DraftsOf(b, r))
           Longest(r) == Max({m \in 0 .. Own(r) : \A k \in 0 .. m - 1 : Verdict(b, r, k)})
           Slotted(r, k) == RejectionSample(b)[r * (b.max_spec_len + 1) + k]
           Expected(r, k) == CASE k < Longest(r) -> b.draft[Tok(b, r, k)]
                               [] k = Longest(r) /\ Longest(r) < Own(r) -> Correction(b, r, k)
                               [] k = Longest(r) /\ Longest(r) = Own(r) -> b.bonus[r]
                               [] k > Longest(r) -> Placeholder
<1>2. ASSUME NEW r \in Rows(b.cu), NEW k \in 0 .. b.max_spec_len
      PROVE  Slotted(r, k) = Expected(r, k)
  <2> DEFINE n == Drafted(b.cu, r)
             row == RowOf(b, r)
             kept == Kept(row, n)
  <2>1. n \in Nat /\ Own(r) = n
    BY <1>1, BatchRows, DraftsCounted
  <2>2. ASSUME NEW j \in 0 .. n - 1
        PROVE  /\ row[j].accepted <=> Verdict(b, r, j)
               /\ row[j].accepted => row[j].token = b.draft[Tok(b, r, j)]
               /\ ~row[j].accepted => row[j].token = Correction(b, r, j)
    BY RowDecides
  <2>3. kept \in 0 .. n /\ (\A j \in 0 .. kept - 1 : row[j].accepted)
        /\ (kept < n => ~row[kept].accepted)
    <3> HIDE DEF n, row
    <3> QED  BY <2>1, KeptIs
  <2>4. Longest(r) = kept
    <3>1. \A m \in 0 .. n : (\A j \in 0 .. m - 1 : Verdict(b, r, j))
                              <=> (\A j \in 0 .. m - 1 : row[j].accepted)
      <4> HIDE DEF n, row
      <4> QED  BY <2>1, <2>2
    <3>2. {m \in 0 .. n : \A j \in 0 .. m - 1 : Verdict(b, r, j)}
            = {m \in 0 .. n : \A j \in 0 .. m - 1 : row[j].accepted}
      <4> HIDE DEF n, row
      <4> QED  BY <3>1
    <3> HIDE DEF n, row
    <3> QED  BY <2>1, <3>2 DEF Kept
  <2>5. Slotted(r, k) = Slot(row, n, b.bonus[r], Placeholder, k)
    BY SampledRows
  <2>6. k \in Nat
    BY <1>1
  <2> HIDE DEF n, row, kept, Own, Longest
  <2>7. CASE k < kept
    <3>1. row[k].accepted /\ k \in 0 .. n - 1 /\ k # kept /\ ~(k > kept)
      BY <2>1, <2>3, <2>6, <2>7
    <3>2. row[k].token = b.draft[Tok(b, r, k)]
      BY <2>2, <3>1
    <3>3. Slotted(r, k) = row[k].token
      BY <2>5, <2>7 DEF Slot, kept
    <3> HIDE DEF Slotted
    <3> QED  BY <2>4, <2>7, <3>1, <3>2, <3>3
  <2>8. CASE k = kept /\ kept < n
    <3>1. ~row[k].accepted /\ k \in 0 .. n - 1 /\ ~(k < kept) /\ ~(k > kept)
      BY <2>1, <2>3, <2>6, <2>8
    <3>2. row[k].token = Correction(b, r, k)
      BY <2>2, <3>1
    <3>3. Slotted(r, k) = row[k].token
      BY <2>5, <2>8, <3>1 DEF Slot, kept
    <3> HIDE DEF Slotted
    <3> QED  BY <2>1, <2>4, <2>8, <3>1, <3>2, <3>3
  <2>9. CASE k = kept /\ kept = n
    <3>1. ~(k < n) /\ ~(k < kept) /\ ~(k > kept)
      BY <2>1, <2>3, <2>6, <2>9
    <3>2. Slotted(r, k) = b.bonus[r]
      BY <2>5, <3>1 DEF Slot, kept
    <3> HIDE DEF Slotted
    <3> QED  BY <2>1, <2>4, <2>9, <3>1, <3>2
  <2>10. CASE k > kept
    <3>1. ~(k < kept) /\ k # kept
      BY <2>1, <2>3, <2>6, <2>10
    <3>2. Slotted(r, k) = Placeholder
      BY <2>5, <2>10, <3>1 DEF Slot, kept
    <3> HIDE DEF Slotted
    <3> QED  BY <2>4, <2>10, <3>1, <3>2
  <2> HIDE DEF Slotted, Expected
  <2> QED  BY <2>1, <2>3, <2>6, <2>7, <2>8, <2>9, <2>10
<1>3. DOMAIN b.cu = Rows(b.cu)
  BY <1>1, BatchRows
<1> HIDE DEF Slotted, Expected
<1>4. \A r \in DOMAIN b.cu : \A k \in 0 .. b.max_spec_len : Slotted(r, k) = Expected(r, k)
  BY <1>2, <1>3
<1> QED  BY <1>4 DEF RowsAgree, Slotted, Expected

-----------------------------------------------------------------------------
(***************************************************************************)
(* What the tasks hand to the sampler is well formed.                      *)
(***************************************************************************)
InputsFormed ==
  /\ task.kind = "rejection" => WellFormed(task.input)
  /\ task.kind = "recovered" => DraftsFormed(task.input)

(***************************************************************************)
(* The arrays of a step over a workload have matching shapes.              *)
(***************************************************************************)
LEMMA StepFormed ==
  ASSUME NEW w \in Workloads \cup Recoveries, NEW b, b.cu = w.cu, b.vocab_size = w.vocab_size,
         b.draft \in [Tokens(w) -> w.drafts], b.target_probs \in [Tokens(w) -> w.targets],
         b.draft_probs \in [Tokens(w) -> w.proposals] \cup {Absent},
         b.no_draft_probs = (b.draft_probs = Absent), b.inv_q \in w.noises
  PROVE  DraftsFormed(b)
<1>1. /\ IsFiniteSet(DOMAIN w.cu) /\ w.cu \in [Rows(w.cu) -> Nat]
      /\ \A q, r \in Rows(w.cu) : q <= r => w.cu[q] <= w.cu[r]
      /\ w.vocab_size \in Nat \ {0} /\ w.drafts \subseteq 0 .. w.vocab_size - 1
      /\ \A x \in w.targets \cup w.proposals : x \in Scored(w)
      /\ \A x \in w.noises : x \in [Rows(w.cu) -> Scored(w)]
  BY WorkloadsAssumption
<1>2. Tokens(b) = Tokens(w) /\ Scored(b) = Scored(w)
  BY DEF Tokens, Scored
<1>3. b.draft \in [Tokens(b) -> 0 .. b.vocab_size - 1]
  BY <1>1, <1>2
<1>4. b.target_probs \in [Tokens(b) -> Scored(b)]
  BY <1>1, <1>2
<1>5. b.inv_q \in [Rows(b.cu) -> Scored(b)]
  BY <1>1, <1>2
<1>6. b.no_draft_probs \in BOOLEAN
  OBVIOUS
<1>7. ~b.no_draft_probs => b.draft_probs # Absent /\ b.draft_probs \in [Tokens(b) -> Scored(b)]
  BY <1>1, <1>2
<1> QED  BY <1>1, <1>3, <1>4, <1>5, <1>6, <1>7 DEF DraftsFormed

(***************************************************************************)
(* So are those of a sampling step.                                        *)
(***************************************************************************)
LEMMA SampleFormed ==
  ASSUME NEW w \in Workloads, NEW draft \in [Tokens(w) -> w.drafts],
         NEW target \in [Tokens(w) -> w.targets],
         NEW probs \in [Tokens(w) -> w.proposals] \cup {Absent}, NEW noise \in w.noises,
         NEW uniform \in [Tokens(w) -> w.uniforms], NEW greedy \in [Rows(w.cu) -> BOOLEAN],
         NEW synthetic \in BOOLEAN
  PROVE  WellFormed(
           [cu |-> w.cu, vocab_size |-> w.vocab_size, draft |-> draft, target_probs |-> target,
            draft_probs |-> probs, no_draft_probs |-> probs = Absent, inv_q |-> noise,
            argmax |-> [t \in Tokens(w) |-> FirstArgmax(target[t])],
            bonus |-> w.bonus, uniform |-> uniform, rates |-> w.rates, is_greedy |-> greedy,
            max_spec_len |-> w.max_spec_len, synthetic |-> synthetic])
<1> DEFINE b ==
      [cu |-> w.cu, vocab_size |-> w.vocab_size, draft |-> draft, target_probs |-> target,
       draft_probs |-> probs, no_draft_probs |-> probs = Absent, inv_q |-> noise,
       argmax |-> [t \in Tokens(w) |-> FirstArgmax(target[t])],
       bonus |-> w.bonus, uniform |-> uniform, rates |-> w.rates, is_greedy |-> greedy,
       max_spec_len |-> w.max_spec_len, synthetic |-> synthetic]
<1>1. /\ b.cu = w.cu /\ b.vocab_size = w.vocab_size /\ b.draft = draft
      /\ b.target_probs = target /\ b.draft_probs = probs
      /\ b.no_draft_probs = (probs = Absent) /\ b.inv_q = noise
      /\ b.argmax = [t \in Tokens(w) |-> FirstArgmax(target[t])]
      /\ b.bonus = w.bonus /\ b.uniform = uniform /\ b.rates = w.rates
      /\ b.is_greedy = greedy /\ b.max_spec_len = w.max_spec_len /\ b.synthetic = synthetic
  OBVIOUS
<1> HIDE DEF b
<1>2. DraftsFormed(b)
  <2>1. w \in Workloads \cup Recoveries
    OBVIOUS
  <2>2. /\ b.draft \in [Tokens(w) -> w.drafts] /\ b.target_probs \in [Tokens(w) -> w.targets]
        /\ b.draft_probs \in [Tokens(w) -> w.proposals] \cup {Absent}
        /\ b.no_draft_probs = (b.draft_probs = Absent) /\ b.inv_q \in w.noises
    BY <1>1
  <2> QED  BY <1>1, <2>1, <2>2, StepFormed
<1>3. /\ w.bonus \in [Rows(w.cu) -> Nat] /\ w.max_spec_len \in Nat
      /\ \A r \in Rows(w.cu) : Drafted(w.cu, r) <= w.max_spec_len
      /\ w.uniforms \subseteq Nat
      /\ w.rates # Absent /\ w.rates \in [0 .. w.max_spec_len - 1 -> Nat]
  BY SamplingAssumption
<1>4. Absent \notin [Tokens(w) -> w.uniforms]
  BY AbsentAssumption
<1>5. Tokens(b) = Tokens(w)
  BY <1>1 DEF Tokens
<1>6. b.uniform # Absent /\ b.uniform \in [Tokens(b) -> Nat]
  BY <1>1, <1>3, <1>4, <1>5
<1>7. \A t \in Tokens(b) : b.argmax[t] = FirstArgmax(b.target_probs[t])
  BY <1>1, <1>5
<1>8. WellFormed(b)
  BY <1>1, <1>2, <1>3, <1>6, <1>7 DEF WellFormed
<1> QED  BY <1>8 DEF b

(***************************************************************************)
(* Every task that reaches the sampler is one it was written for.          *)
(***************************************************************************)
LEMMA InputsAreFormed == Spec => []InputsFormed
<1>1. Init => InputsFormed
  BY DEF Init, InputsFormed
<1>2. InputsFormed /\ [Next]_task => InputsFormed'
  <2> SUFFICES ASSUME InputsFormed, [Next]_task PROVE InputsFormed'
    OBVIOUS
  <2>1. CASE UNCHANGED task
    BY <2>1 DEF InputsFormed
  <2>2. CASE SampleDrafts
    <3>1. PICK w \in Workloads :
           \E draft \in [Tokens(w) -> w.drafts],
               target \in [Tokens(w) -> w.targets],
               probs \in [Tokens(w) -> w.proposals] \cup {Absent}, noise \in w.noises,
               uniform \in [Tokens(w) -> w.uniforms], greedy \in [Rows(w.cu) -> BOOLEAN],
               synthetic \in BOOLEAN :
            Take("rejection",
              [cu |-> w.cu, vocab_size |-> w.vocab_size, draft |-> draft,
               target_probs |-> target, draft_probs |-> probs,
               no_draft_probs |-> probs = Absent, inv_q |-> noise,
               argmax |-> [t \in Tokens(w) |-> FirstArgmax(target[t])],
               bonus |-> w.bonus, uniform |-> uniform, rates |-> w.rates,
               is_greedy |-> greedy, max_spec_len |-> w.max_spec_len, synthetic |-> synthetic])
      BY <2>2, Zenon DEF SampleDrafts
    <3>2. PICK draft \in [Tokens(w) -> w.drafts],
               target \in [Tokens(w) -> w.targets],
               probs \in [Tokens(w) -> w.proposals] \cup {Absent}, noise \in w.noises,
               uniform \in [Tokens(w) -> w.uniforms], greedy \in [Rows(w.cu) -> BOOLEAN],
               synthetic \in BOOLEAN :
            Take("rejection",
              [cu |-> w.cu, vocab_size |-> w.vocab_size, draft |-> draft,
               target_probs |-> target, draft_probs |-> probs,
               no_draft_probs |-> probs = Absent, inv_q |-> noise,
               argmax |-> [t \in Tokens(w) |-> FirstArgmax(target[t])],
               bonus |-> w.bonus, uniform |-> uniform, rates |-> w.rates,
               is_greedy |-> greedy, max_spec_len |-> w.max_spec_len, synthetic |-> synthetic])
      BY <3>1, Zenon
    <3> DEFINE b == [cu |-> w.cu, vocab_size |-> w.vocab_size, draft |-> draft,
                     target_probs |-> target, draft_probs |-> probs,
                     no_draft_probs |-> probs = Absent, inv_q |-> noise,
                     argmax |-> [t \in Tokens(w) |-> FirstArgmax(target[t])],
                     bonus |-> w.bonus, uniform |-> uniform, rates |-> w.rates,
                     is_greedy |-> greedy, max_spec_len |-> w.max_spec_len,
                     synthetic |-> synthetic]
    <3>3. WellFormed(b)
      BY SampleFormed
    <3>4. Take("rejection", b)
      BY <3>2
    <3> HIDE DEF b
    <3>5. task'.input = b /\ task'.kind = "rejection"
      BY <3>4 DEF Take
    <3> QED  BY <3>3, <3>5 DEF InputsFormed
  <2>3. CASE RecoverToken
    <3>1. PICK w \in Recoveries :
           \E draft \in [Tokens(w) -> w.drafts],
               target \in [Tokens(w) -> w.targets],
               probs \in [Tokens(w) -> w.proposals] \cup {Absent}, noise \in w.noises :
            Take("recovered",
              [cu |-> w.cu, vocab_size |-> w.vocab_size, draft |-> draft,
               target_probs |-> target, draft_probs |-> probs,
               no_draft_probs |-> probs = Absent, inv_q |-> noise])
      BY <2>3, Zenon DEF RecoverToken
    <3>2. PICK draft \in [Tokens(w) -> w.drafts],
               target \in [Tokens(w) -> w.targets],
               probs \in [Tokens(w) -> w.proposals] \cup {Absent}, noise \in w.noises :
            Take("recovered",
              [cu |-> w.cu, vocab_size |-> w.vocab_size, draft |-> draft,
               target_probs |-> target, draft_probs |-> probs,
               no_draft_probs |-> probs = Absent, inv_q |-> noise])
      BY <3>1, Zenon
    <3> DEFINE b == [cu |-> w.cu, vocab_size |-> w.vocab_size, draft |-> draft,
                     target_probs |-> target, draft_probs |-> probs,
                     no_draft_probs |-> probs = Absent, inv_q |-> noise]
    <3>3. /\ b.cu = w.cu /\ b.vocab_size = w.vocab_size
          /\ b.draft \in [Tokens(w) -> w.drafts] /\ b.target_probs \in [Tokens(w) -> w.targets]
          /\ b.draft_probs \in [Tokens(w) -> w.proposals] \cup {Absent}
          /\ b.no_draft_probs = (b.draft_probs = Absent) /\ b.inv_q \in w.noises
      OBVIOUS
    <3>4. task'.input = b /\ task'.kind = "recovered"
      BY <3>2 DEF Take
    <3> HIDE DEF b
    <3>5. w \in Workloads \cup Recoveries
      OBVIOUS
    <3>6. DraftsFormed(b)
      BY <3>3, <3>5, StepFormed
    <3> QED  BY <3>4, <3>6 DEF InputsFormed
  <2>4. CASE RouteToken \/ LaunchThreads \/ GatherWindow
    <3>1. task'.kind \in {"router", "launch", "multimodal"}
      BY <2>4 DEF RouteToken, LaunchThreads, GatherWindow, Take
    <3> QED  BY <3>1 DEF InputsFormed
  <2> QED  BY <2>1, <2>2, <2>3, <2>4 DEF Next
<1> QED  BY <1>1, <1>2, PTL DEF Spec

(***************************************************************************)
(* The sampler agrees with its reference, whatever the workloads, the      *)
(* values in their arrays and the number of lanes.                         *)
(***************************************************************************)
THEOREM RejectionIsRight == Spec => []RejectionAgrees
<1>1. InputsFormed => RejectionAgrees
  <2> SUFFICES ASSUME InputsFormed PROVE RejectionAgrees
    OBVIOUS
  <2>1. ASSUME task.kind = "rejection" PROVE RowsAgree(task.input)
    BY <2>1, SamplerAgrees DEF InputsFormed
  <2>2. ASSUME task.kind = "recovered", NEW t \in Tokens(task.input)
        PROVE  Recovered(task.input)[t]
                 = Resampled(task.input, TokenToReq(task.input.cu, t), t)
    BY <2>2, RecoveredIsResampled DEF InputsFormed
  <2> QED  BY <2>1, <2>2 DEF RejectionAgrees
<1> QED  BY <1>1, InputsAreFormed, PTL
-----------------------------------------------------------------------------
(***************************************************************************)
(* A function on 1 .. n is a sequence of length n.                         *)
(***************************************************************************)
LEMMA Listed ==
  ASSUME NEW S, NEW n \in Nat, NEW f \in [1 .. n -> S]
  PROVE  f \in Seq(S) /\ Len(f) = n
<1>1. f \in Seq(S)
  BY SeqDef
<1> QED  BY <1>1, LenProperties

(***************************************************************************)
(* The ends of the pieces of a flat sequence are the running sums of their *)
(* lengths.                                                                *)
(***************************************************************************)
LEMMA OffsetsAre ==
  ASSUME NEW n \in Nat, NEW sizes \in [1 .. n -> Nat]
  PROVE  /\ Offsets(sizes) \in [0 .. n -> Nat] /\ Offsets(sizes)[0] = 0
         /\ \A i \in 1 .. n : Offsets(sizes)[i] = Offsets(sizes)[i - 1] + sizes[i]
<1> DEFINE IsSum(f) == f = [i \in 0 .. n |-> IF i = 0 THEN 0 ELSE f[i - 1] + sizes[i]]
           step == [p \in (1 .. n) \X Nat |-> p[2] + sizes[p[1]]]
<1>1. \E f : IsSum(f) /\ f \in [0 .. n -> Nat]
  <2>1. step \in Rounds(n, Nat)
    BY DEF Rounds
  <2>2. \A i \in 1 .. n, x \in Nat : step[<<i, x>>] = x + sizes[i]
    OBVIOUS
  <2> HIDE DEF step
  <2>3. PICK f : Trace(f, n, Nat, 0, step)
    BY <2>1, LoopExists, Zenon
  <2>4. ASSUME NEW i \in 1 .. n PROVE f[i] = f[i - 1] + sizes[i]
    <3>1. f[i] = step[<<i, f[i - 1]>>] /\ f[i - 1] \in Nat
      BY <2>3 DEF Trace
    <3> QED  BY <2>2, <3>1
  <2>5. IsSum(f) /\ f \in [0 .. n -> Nat]
    BY <2>3, <2>4 DEF Trace
  <2> QED  BY <2>5
<1> DEFINE ends == CHOOSE f : IsSum(f)
<1>2. IsSum(ends)
  <2> HIDE DEF IsSum
  <2> QED  BY <1>1
<1>3. Len(sizes) = n
  BY Listed
<1>4. Offsets(sizes) = ends
  BY <1>3 DEF Offsets
<1> HIDE DEF ends, step
<1>5. ends[0] = 0 /\ \A i \in 1 .. n : ends[i] = ends[i - 1] + sizes[i]
  BY <1>2
<1>6. ends = [i \in 0 .. n |-> ends[i]]
  BY <1>2
<1> HIDE DEF IsSum
<1> DEFINE T == {i \in 0 .. n : ends[i] \in Nat}
<1>7. 0 \in T
  BY <1>5
<1>8. ASSUME NEW i \in 0 .. n - 1, i \in T PROVE i + 1 \in T
  <2>1. i + 1 \in 1 .. n /\ (i + 1) - 1 = i /\ sizes[i + 1] \in Nat
    OBVIOUS
  <2>2. ends[i + 1] = ends[i] + sizes[i + 1]
    BY <1>5, <2>1
  <2> QED  BY <1>8, <2>1, <2>2
<1>9. \A i \in 0 .. n : ends[i] \in Nat
  <2> HIDE DEF T
  <2>1. \A i \in 0 .. n : i \in T
    BY <1>7, <1>8, UpTo
  <2> QED  BY <2>1 DEF T
<1>10. ends \in [0 .. n -> Nat]
  BY <1>6, <1>9
<1> QED  BY <1>4, <1>5, <1>10

(***************************************************************************)
(* The pieces follow one another: a position of the flat sequence is in    *)
(* one of them only, and none begins before the one in front of it ends.   *)
(***************************************************************************)
LEMMA PiecesApart ==
  ASSUME NEW n \in Nat, NEW sizes \in [1 .. n -> Nat]
  PROVE  /\ \A i, j \in 0 .. n : i <= j => Offsets(sizes)[i] <= Offsets(sizes)[j]
         /\ \A i, j \in 1 .. n : \A q \in Nat :
              /\ Offsets(sizes)[i - 1] < q /\ q <= Offsets(sizes)[i]
              /\ Offsets(sizes)[j - 1] < q /\ q <= Offsets(sizes)[j]
              => i = j
<1> DEFINE o == Offsets(sizes)
<1>1. o \in [0 .. n -> Nat] /\ \A i \in 1 .. n : o[i] = o[i - 1] + sizes[i]
  BY OffsetsAre
<1> HIDE DEF o
<1>2. ASSUME NEW i \in 0 .. n, NEW j \in 0 .. n, i <= j PROVE o[i] <= o[j]
  <2> DEFINE T == {k \in 0 .. n : k >= i => o[i] <= o[k]}
  <2>1. 0 \in T
    BY <1>1
  <2>2. ASSUME NEW k \in 0 .. n - 1, k \in T PROVE k + 1 \in T
    <3>1. o[k + 1] = o[k] + sizes[k + 1] /\ sizes[k + 1] \in Nat /\ o[k] \in Nat /\ o[i] \in Nat
      BY <1>1
    <3> QED  BY <2>2, <3>1
  <2> HIDE DEF T
  <2>3. j \in T
    BY <2>1, <2>2, UpTo
  <2> QED  BY <1>2, <2>3 DEF T
<1>3. ASSUME NEW i \in 1 .. n, NEW j \in 1 .. n, NEW q \in Nat,
             o[i - 1] < q, q <= o[i], o[j - 1] < q, q <= o[j]
      PROVE  i = j
  <2>1. o[i] \in Nat /\ o[j] \in Nat /\ o[i - 1] \in Nat /\ o[j - 1] \in Nat
    BY <1>1
  <2>2. i <= j - 1 => o[i] <= o[j - 1]
    BY <1>2
  <2>3. j <= i - 1 => o[j] <= o[i - 1]
    BY <1>2
  <2> QED  BY <1>3, <2>1, <2>2, <2>3
<1> QED  BY <1>2, <1>3 DEF o

(***************************************************************************)
(* Pieces of one length are found by multiplication.                       *)
(***************************************************************************)
LEMMA EqualPieces ==
  ASSUME NEW n \in Nat, NEW sizes \in [1 .. n -> Nat], NEW m \in Nat,
         \A i \in 1 .. n : sizes[i] = m
  PROVE  \A i \in 0 .. n : Offsets(sizes)[i] = m * i
<1> DEFINE o == Offsets(sizes)
           T == {i \in 0 .. n : o[i] = m * i}
<1>1. o[0] = 0 /\ \A i \in 1 .. n : o[i] = o[i - 1] + m
  BY OffsetsAre
<1> HIDE DEF o
<1>2. 0 \in T
  BY <1>1
<1>3. ASSUME NEW i \in 0 .. n - 1, i \in T PROVE i + 1 \in T
  <2>1. m * (i + 1) = m * i + m
    OBVIOUS
  <2> QED  BY <1>1, <1>3, <2>1
<1> HIDE DEF T
<1>4. \A i \in 0 .. n : i \in T
  BY <1>2, <1>3, UpTo
<1> QED  BY <1>4 DEF T, o
-----------------------------------------------------------------------------
(***************************************************************************)
(* What multiplication and division by a width do to a position.           *)
(***************************************************************************)
LEMMA PlaceIn ==
  ASSUME NEW a \in Nat, NEW l \in Nat \ {0}, NEW h \in 0 .. l - 1
  PROVE  (a * l + h) \div l = a /\ (a * l + h) % l = h
<1> DEFINE v == a * l + h
           q == v \div l
<1>1. v \in Nat /\ q \in Nat /\ q * l <= v /\ v < q * l + l
  <2>1. v \in Nat
    OBVIOUS
  <2> HIDE DEF v
  <2> QED  BY <2>1, BlockOf
<1>2. v % l = v - l * q
  <2>1. v \in Nat
    OBVIOUS
  <2> HIDE DEF v
  <2> QED  BY <2>1
<1>3. v = a * l + h /\ l * q = q * l
  BY <1>1
<1> HIDE DEF v, q
<1>4. q < a + 1
  <2> SUFFICES ASSUME a + 1 <= q PROVE FALSE
    BY <1>1
  <2>1. (a + 1) * l <= q * l /\ (a + 1) * l = a * l + l
    BY <1>1, TimesOrder
  <2> QED  BY <1>1, <1>3, <2>1
<1>5. a < q + 1
  <2> SUFFICES ASSUME q + 1 <= a PROVE FALSE
    BY <1>1
  <2>1. (q + 1) * l <= a * l /\ (q + 1) * l = q * l + l
    BY <1>1, TimesOrder
  <2> QED  BY <1>1, <1>3, <2>1
<1>6. q = a
  BY <1>1, <1>4, <1>5
<1>7. v % l = h
  BY <1>2, <1>3, <1>6
<1> QED  BY <1>6, <1>7 DEF v, q

-----------------------------------------------------------------------------
(***************************************************************************)
(* A batch of n images, and the numbers of their patches.  An image is a   *)
(* sequence of w patches that begins with the m of its hash.               *)
(***************************************************************************)
Sizes(batch) == [i \in DOMAIN batch |-> batch[i].patches]
IsBatch(kind, n, batch) ==
  /\ n \in Nat /\ DOMAIN batch = 1 .. n /\ Len(batch) = n
  /\ kind \in {"flat", "grid", "tensor"}
  /\ \A i \in 1 .. n : batch[i].patches \in Nat \ {0}
  /\ kind = "flat" => \A i \in 1 .. n : batch[i].patches <= MaxPatches
  /\ kind = "tensor" => \A i, j \in 1 .. n : batch[i].patches = batch[j].patches
IsImage(s, hash, m, w) == Len(s) = w /\ \A j \in 1 .. m : s[j] = <<hash, j - 1>>

(***************************************************************************)
(* The patches of a batch lie image after image.                           *)
(***************************************************************************)
LEMMA PixelsAre ==
  ASSUME NEW kind, NEW n, NEW batch, IsBatch(kind, n, batch)
  PROVE  /\ Sizes(batch) \in [1 .. n -> Nat]
         /\ Len(Pixels(batch)) = Offsets(Sizes(batch))[n]
         /\ \A i \in 1 .. n : \A j \in 1 .. batch[i].patches :
              Pixels(batch)[Offsets(Sizes(batch))[i - 1] + j] = <<batch[i].hash, j - 1>>
<1> DEFINE sizes == Sizes(batch)
           ends == Offsets(sizes)
           Holds(i, q) == ends[i - 1] < q /\ q <= ends[i]
           at(q) == CHOOSE i \in DOMAIN batch : Holds(i, q)
<1>1. n \in Nat /\ DOMAIN batch = 1 .. n /\ Len(batch) = n
  BY DEF IsBatch
<1>2. sizes \in [1 .. n -> Nat] /\ \A i \in 1 .. n : sizes[i] = batch[i].patches
  BY DEF IsBatch, Sizes
<1> HIDE DEF sizes
<1>3. /\ ends \in [0 .. n -> Nat] /\ \A i \in 1 .. n : ends[i] = ends[i - 1] + sizes[i]
      /\ \A i, j \in 0 .. n : i <= j => ends[i] <= ends[j]
      /\ \A i, j \in 1 .. n : \A q \in Nat : Holds(i, q) /\ Holds(j, q) => i = j
  <2>1. ends \in [0 .. n -> Nat] /\ \A i \in 1 .. n : ends[i] = ends[i - 1] + sizes[i]
    BY <1>1, <1>2, OffsetsAre
  <2>2. /\ \A i, j \in 0 .. n : i <= j => ends[i] <= ends[j]
        /\ \A i, j \in 1 .. n : \A q \in Nat :
             /\ ends[i - 1] < q /\ q <= ends[i]
             /\ ends[j - 1] < q /\ q <= ends[j]
             => i = j
    BY <1>1, <1>2, PiecesApart, Zenon
  <2> QED  BY <2>1, <2>2
<1>4. Pixels(batch) = [q \in 1 .. ends[n] |-> <<batch[at(q)].hash, q - ends[at(q) - 1] - 1>>]
  BY <1>1 DEF Pixels, sizes, Sizes
<1> HIDE DEF ends
<1>5. Len(Pixels(batch)) = ends[n]
  <2>1. ends[n] \in Nat
    BY <1>1, <1>3
  <2> HIDE DEF at
  <2> QED  BY <1>4, <2>1
<1>6. ASSUME NEW i \in 1 .. n, NEW j \in 1 .. batch[i].patches
      PROVE  Pixels(batch)[ends[i - 1] + j] = <<batch[i].hash, j - 1>>
  <2> DEFINE q == ends[i - 1] + j
  <2>1. /\ ends[i] = ends[i - 1] + batch[i].patches /\ ends[i] \in Nat /\ ends[i - 1] \in Nat
        /\ ends[i] <= ends[n] /\ ends[n] \in Nat /\ batch[i].patches \in Nat
    BY <1>1, <1>2, <1>3
  <2>2. Holds(i, q) /\ q \in 1 .. ends[n] /\ q \in Nat
    BY <2>1
  <2>3. at(q) = i
    <3> HIDE DEF q, Holds
    <3>1. at(q) \in 1 .. n /\ Holds(at(q), q)
      BY <1>1, <2>2
    <3> HIDE DEF at
    <3> QED  BY <1>3, <2>2, <3>1 DEF Holds
  <2>4. Pixels(batch)[q] = <<batch[i].hash, q - ends[i - 1] - 1>>
    <3> HIDE DEF q, at
    <3> QED  BY <1>4, <2>2, <2>3
  <2>5. q - ends[i - 1] - 1 = j - 1
    BY <2>1
  <2> QED  BY <2>4, <2>5
<1> QED  BY <1>2, <1>5, <1>6 DEF ends, sizes

(***************************************************************************)
(* The pieces the processor cuts are the images, padded in the flat case.  *)
(***************************************************************************)
LEMMA PieceIs ==
  ASSUME NEW kind, NEW n, NEW batch, IsBatch(kind, n, batch), NEW i \in 1 .. n,
         NEW a, NEW c,
         a = Offsets(Sizes(batch))[i - 1] + 1, c = Offsets(Sizes(batch))[i]
  PROVE  IsImage(SubSeq(Pixels(batch), a, c), batch[i].hash, batch[i].patches, batch[i].patches)
<1> DEFINE m == batch[i].patches
           ends == Offsets(Sizes(batch))
           S == {batch[i].hash} \X Nat
<1>1. n \in Nat /\ m \in Nat
  BY DEF IsBatch
<1>2. Sizes(batch) \in [1 .. n -> Nat] /\ Sizes(batch)[i] = m
  BY PixelsAre DEF Sizes, IsBatch
<1>3. ends \in [0 .. n -> Nat] /\ ends[i] = ends[i - 1] + m
  BY <1>1, <1>2, OffsetsAre
<1>5. /\ \A j \in 1 .. m : Pixels(batch)[ends[i - 1] + j] = <<batch[i].hash, j - 1>>
      /\ a = ends[i - 1] + 1 /\ c = ends[i]
  BY PixelsAre
<1> HIDE DEF ends, m
<1>4. ends[i - 1] \in Nat /\ a \in Int /\ c \in Int /\ a = ends[i - 1] + 1 /\ c = a + m - 1
  BY <1>1, <1>3, <1>5
<1>6. ASSUME NEW k \in a .. c PROVE Pixels(batch)[k] \in S
  <2>1. k - a + 1 \in 1 .. m /\ k = ends[i - 1] + (k - a + 1) /\ k - a \in Nat
    BY <1>1, <1>4
  <2>2. Pixels(batch)[k] = <<batch[i].hash, (k - a + 1) - 1>>
    BY <1>5, <2>1
  <2> QED  BY <2>1, <2>2
<1>7. /\ Len(SubSeq(Pixels(batch), a, c)) = IF a <= c THEN c - a + 1 ELSE 0
      /\ \A j \in 1 .. c - a + 1 : SubSeq(Pixels(batch), a, c)[j] = Pixels(batch)[a + j - 1]
  <2> HIDE DEF S
  <2> QED  BY <1>4, <1>6, SubSeqProperties
<1>8. Len(SubSeq(Pixels(batch), a, c)) = m
  BY <1>1, <1>4, <1>7
<1>9. ASSUME NEW j \in 1 .. m PROVE SubSeq(Pixels(batch), a, c)[j] = <<batch[i].hash, j - 1>>
  <2>1. j \in 1 .. c - a + 1 /\ a + j - 1 = ends[i - 1] + j
    BY <1>1, <1>4
  <2> QED  BY <1>5, <1>7, <2>1
<1> QED  BY <1>8, <1>9 DEF IsImage, m
-----------------------------------------------------------------------------
(***************************************************************************)
(* What the encoder is run on, image by image.                             *)
(***************************************************************************)
Width(kind, m) == IF kind = "flat" THEN MaxPatches ELSE m
LEMMA InputsAre ==
  ASSUME NEW kind, NEW n, NEW batch, IsBatch(kind, n, batch)
  PROVE  LET inputs == ParseRaw(kind, Pixels(batch), Sizes(batch))
         IN /\ DOMAIN inputs = 1 .. n
            /\ \A i \in 1 .. n :
                 IsImage(inputs[i], batch[i].hash, batch[i].patches,
                         Width(kind, batch[i].patches))
<1> DEFINE pixels == Pixels(batch)
           sizes == Sizes(batch)
           ends == Offsets(sizes)
           piece(i) == SubSeq(pixels, ends[i - 1] + 1, ends[i])
<1>1. /\ n \in Nat /\ DOMAIN sizes = 1 .. n /\ MaxPatches \in Nat \ {0}
      /\ sizes \in [1 .. n -> Nat] /\ kind \in {"flat", "grid", "tensor"}
  <2>1. sizes \in [1 .. n -> Nat]
    BY PixelsAre
  <2>2. MaxPatches \in Nat \ {0}
    BY MultiModalAssumption
  <2> HIDE DEF sizes
  <2> QED  BY <2>1, <2>2 DEF IsBatch
<1>2. \A i \in 1 .. n : IsImage(piece(i), batch[i].hash, batch[i].patches, batch[i].patches)
  BY PieceIs
<1>3. Split(pixels, sizes) = [i \in 1 .. n |-> piece(i)]
  BY <1>1 DEF Split
<1>4. \A i \in 1 .. n : batch[i].patches \in Nat \ {0}
  BY DEF IsBatch
<1> HIDE DEF pixels
<1>5. CASE kind = "grid"
  <2>1. ParseRaw(kind, pixels, sizes) = [i \in 1 .. n |-> piece(i)]
    BY <1>3, <1>5 DEF ParseRaw
  <2> HIDE DEF piece, sizes
  <2> QED  BY <1>2, <1>5, <2>1 DEF Width, pixels, sizes
<1>6. CASE kind = "flat"
  <2>1. ParseRaw(kind, pixels, sizes) = [i \in 1 .. n |-> PadOrCrop(piece(i), MaxPatches)]
    BY <1>1, <1>3, <1>6 DEF ParseRaw
  <2>2. ASSUME NEW i \in 1 .. n
        PROVE  IsImage(PadOrCrop(piece(i), MaxPatches), batch[i].hash, batch[i].patches, MaxPatches)
    <3>1. batch[i].patches \in Nat /\ batch[i].patches <= MaxPatches
      BY <1>4, <1>6 DEF IsBatch
    <3>2. Len(piece(i)) = batch[i].patches /\
          \A j \in 1 .. batch[i].patches : piece(i)[j] = <<batch[i].hash, j - 1>>
      BY <1>2 DEF IsImage
    <3> HIDE DEF piece
    <3>3. PadOrCrop(piece(i), MaxPatches)
            = [t \in 1 .. MaxPatches |-> IF t <= batch[i].patches THEN piece(i)[t] ELSE Zero]
      BY <3>2 DEF PadOrCrop
    <3>4. Len(PadOrCrop(piece(i), MaxPatches)) = MaxPatches
      BY <1>1, <3>3
    <3>5. ASSUME NEW j \in 1 .. batch[i].patches
          PROVE  PadOrCrop(piece(i), MaxPatches)[j] = <<batch[i].hash, j - 1>>
      <4>1. j \in 1 .. MaxPatches /\ j <= batch[i].patches
        BY <1>1, <3>1
      <4> QED  BY <3>2, <3>3, <4>1
    <3> QED  BY <3>4, <3>5 DEF IsImage
  <2> HIDE DEF piece, sizes
  <2> QED  BY <1>6, <2>1, <2>2 DEF Width, pixels, sizes
<1>7. CASE kind = "tensor"
  <2> DEFINE chunk == Len(pixels) \div Len(sizes)
             cut(i) == SubSeq(pixels, chunk * (i - 1) + 1, chunk * i)
  <2>1. ParseRaw(kind, pixels, sizes) = [i \in 1 .. n |-> cut(i)]
    BY <1>1, <1>7 DEF ParseRaw
  <2>2. ASSUME NEW i \in 1 .. n PROVE cut(i) = piece(i)
    <3> DEFINE m == batch[i].patches
    <3>1. m \in Nat /\ \A j \in 1 .. n : sizes[j] = m
      BY <1>1, <1>7 DEF IsBatch, Sizes
    <3>2. Len(sizes) = n /\ Len(pixels) = ends[n]
      BY <1>1, PixelsAre, Listed DEF pixels
    <3> HIDE DEF m, sizes
    <3>3. \A j \in 0 .. n : ends[j] = m * j
      BY <1>1, <3>1, EqualPieces
    <3> HIDE DEF ends
    <3>4. n \in Nat \ {0} /\ n \in 0 .. n /\ i \in 0 .. n /\ i - 1 \in 0 .. n
      BY <1>1
    <3>5. chunk = m
      <4>1. Len(pixels) = m * n + 0 /\ 0 \in 0 .. n - 1 /\ Len(sizes) = n
        BY <3>1, <3>2, <3>3, <3>4
      <4> QED  BY <3>1, <3>4, <4>1, PlaceIn
    <3> HIDE DEF chunk
    <3> QED  BY <3>3, <3>4, <3>5
  <2> HIDE DEF cut, piece, sizes
  <2> QED  BY <1>2, <1>7, <2>1, <2>2 DEF Width, pixels, sizes
<1> QED  BY <1>1, <1>5, <1>6, <1>7

(***************************************************************************)
(* The rows the encoder makes of an image, cut back to its own patches.    *)
(***************************************************************************)
LEMMA RowIs ==
  ASSUME NEW kind \in {"flat", "grid", "tensor"}, NEW s, NEW hash,
         NEW m \in Nat, NEW w, IsImage(s, hash, m, w), NEW k \in 0 .. EmbedCount(kind, m) - 1
  PROVE  EncoderRow(kind, s, k) = EmbedToken(kind, hash, k)
<1>1. {TokensPerPatch, MergeSize} \subseteq Nat \ {0} /\ k \in Nat
  BY MultiModalAssumption DEF EmbedCount
<1>2. \A j \in 1 .. m : s[j] = <<hash, j - 1>>
  BY DEF IsImage
<1>3. CASE kind = "grid"
  <2> DEFINE q == m \div MergeSize
  <2>1. q \in Nat /\ q * MergeSize <= m /\ k < q
    BY <1>1, <1>3, BlockOf DEF EmbedCount
  <2> HIDE DEF q
  <2>2. k * MergeSize \in Nat /\ k * MergeSize + MergeSize <= q * MergeSize
    BY <1>1, <2>1, TimesOrder
  <2>3. k * MergeSize + 1 \in 1 .. m /\ (k * MergeSize + 1) - 1 = k * MergeSize
    BY <1>1, <2>1, <2>2
  <2> QED  BY <1>2, <1>3, <2>3 DEF EncoderRow, EmbedToken
<1>4. CASE kind # "grid"
  <2> DEFINE q == k \div TokensPerPatch
  <2>1. q \in Nat /\ q * TokensPerPatch <= k /\ k < m * TokensPerPatch
    BY <1>1, <1>4, BlockOf DEF EmbedCount
  <2> HIDE DEF q
  <2>2. q < m
    <3> SUFFICES ASSUME m <= q PROVE FALSE
      BY <2>1
    <3>1. m * TokensPerPatch <= q * TokensPerPatch /\ m * TokensPerPatch \in Nat
          /\ q * TokensPerPatch \in Nat
      BY <1>1, <2>1, TimesOrder
    <3> QED  BY <1>1, <2>1, <3>1
  <2>3. q + 1 \in 1 .. m /\ (q + 1) - 1 = q
    BY <2>1, <2>2
  <2> QED  BY <1>2, <1>4, <2>3 DEF EncoderRow, EmbedToken, q
<1> QED  BY <1>3, <1>4

(***************************************************************************)
(* The features of an image are the embeddings of its patches, in order.   *)
(***************************************************************************)
Features(kind, hash, m) == [k \in 1 .. EmbedCount(kind, m) |-> Feature(EmbedToken(kind, hash, k - 1))]
LEMMA FeaturesAre ==
  ASSUME NEW kind, NEW n, NEW batch, IsBatch(kind, n, batch)
  PROVE  LET encoded == EmbedMultimodal(kind, Pixels(batch), Sizes(batch))
         IN \A i \in 1 .. n : encoded[i] = Features(kind, batch[i].hash, batch[i].patches)
<1> DEFINE inputs == ParseRaw(kind, Pixels(batch), Sizes(batch))
           sizes == Sizes(batch)
<1> SUFFICES ASSUME NEW i \in 1 .. n
             PROVE  PixelsToFeatures(kind, inputs, sizes)[i]
                      = Features(kind, batch[i].hash, batch[i].patches)
  BY DEF EmbedMultimodal
<1> DEFINE m == batch[i].patches
           w == Width(kind, m)
           rows == OutputRows(kind, inputs[i])
           kept == IF kind = "flat" /\ m < w THEN m * (rows \div w) ELSE rows
<1>1. DOMAIN inputs = 1 .. n /\ IsImage(inputs[i], batch[i].hash, m, w)
  BY InputsAre
<1>2. sizes[i] = m /\ Len(inputs[i]) = w
  BY <1>1 DEF IsBatch, Sizes, IsImage
<1>3. /\ m \in Nat \ {0} /\ kind \in {"flat", "grid", "tensor"}
      /\ kind = "flat" => m <= MaxPatches
      /\ {TokensPerPatch, MaxPatches, MergeSize} \subseteq Nat \ {0}
  BY MultiModalAssumption DEF IsBatch
<1> HIDE DEF inputs, sizes, m
<1>4. PixelsToFeatures(kind, inputs, sizes)[i]
        = [k \in 1 .. kept |-> Feature(EncoderRow(kind, inputs[i], k - 1))]
  BY <1>1, <1>2 DEF PixelsToFeatures
<1>5. kept = EmbedCount(kind, m)
  <2>1. CASE kind = "flat"
    <3>1. w = MaxPatches /\ rows = MaxPatches * TokensPerPatch
      BY <1>2, <2>1 DEF Width, OutputRows
    <3>2. rows = TokensPerPatch * MaxPatches + 0 /\ 0 \in 0 .. MaxPatches - 1
      BY <1>3, <3>1
    <3>3. rows \div w = TokensPerPatch
      BY <1>3, <3>1, <3>2, PlaceIn
    <3>4. m < MaxPatches \/ m = MaxPatches
      BY <1>3, <2>1
    <3> HIDE DEF rows, w
    <3> QED  BY <2>1, <3>1, <3>3, <3>4 DEF EmbedCount
  <2>2. CASE kind # "flat"
    BY <1>2, <2>2 DEF Width, OutputRows, EmbedCount
  <2> QED  BY <2>1, <2>2
<1>6. \A k \in 1 .. EmbedCount(kind, m) :
        EncoderRow(kind, inputs[i], k - 1) = EmbedToken(kind, batch[i].hash, k - 1)
  <2> HIDE DEF w
  <2>1. ASSUME NEW k \in 1 .. EmbedCount(kind, m) PROVE k - 1 \in 0 .. EmbedCount(kind, m) - 1
    <3>1. EmbedCount(kind, m) \in Int
      BY <1>3 DEF EmbedCount
    <3> QED  BY <3>1
  <2> QED  BY <1>1, <1>3, <2>1, RowIs
<1> HIDE DEF kept
<1> QED  BY <1>4, <1>5, <1>6 DEF Features, m
-----------------------------------------------------------------------------
(***************************************************************************)
(* The encoder cache holds, for every image of the prompt, the embeddings  *)
(* of its own patches: wherever the image was in the batch.                *)
(***************************************************************************)
LEMMA CacheIs ==
  ASSUME NEW p, PromptFormed(p), NEW f \in Range(p.features)
  PROVE  EncoderCache(p)[f.hash] = Features(p.kind, f.hash, f.patches)
<1> DEFINE fs == p.features
           batch == [i \in DOMAIN p.batch |-> fs[p.batch[i]]]
           n == Len(p.batch)
           encoded == EmbedMultimodal(p.kind, Pixels(batch), Sizes(batch))
<1>0. /\ \A i \in DOMAIN fs : FeatureFormed(p.kind, fs[i])
      /\ \A i, j \in DOMAIN fs :
           fs[i].hash = fs[j].hash \/ p.kind = "tensor" => fs[i].patches = fs[j].patches
  BY DEF PromptFormed
<1>1. /\ p.batch \in Seq(DOMAIN fs) /\ p.kind \in {"flat", "grid", "tensor"}
      /\ \A i \in DOMAIN fs : \E j \in DOMAIN p.batch : fs[p.batch[j]].hash = fs[i].hash
  BY DEF PromptFormed
<1>2. PICK u \in DOMAIN fs : f = fs[u]
  BY DEF Range
<1>3. n \in Nat /\ DOMAIN p.batch = 1 .. n /\ \A i \in 1 .. n : p.batch[i] \in DOMAIN fs
  BY <1>1, LenProperties, ElementOfSeq
<1>4. DOMAIN batch = 1 .. n /\ Len(batch) = n /\ \A i \in 1 .. n : batch[i] = fs[p.batch[i]]
  BY <1>3
<1>5. EncoderCache(p)
        = [h \in {batch[i].hash : i \in 1 .. n} |-> encoded[CHOOSE i \in 1 .. n : batch[i].hash = h]]
  <2>1. EncoderCache(p) = [h \in {batch[i].hash : i \in DOMAIN batch} |->
                             encoded[CHOOSE i \in DOMAIN batch : batch[i].hash = h]]
    BY DEF EncoderCache, Sizes
  <2> HIDE DEF batch, n, encoded
  <2> QED  BY <1>4, <2>1
<1> HIDE DEF fs, n, batch
<1>6. IsBatch(p.kind, n, batch)
  <2>1. \A i \in 1 .. n : FeatureFormed(p.kind, batch[i])
    BY <1>0, <1>3, <1>4, Zenon
  <2>2. ASSUME p.kind = "tensor", NEW i \in 1 .. n, NEW j \in 1 .. n
        PROVE  batch[i].patches = batch[j].patches
    <3>1. /\ p.batch[i] \in DOMAIN fs /\ p.batch[j] \in DOMAIN fs
          /\ batch[i] = fs[p.batch[i]] /\ batch[j] = fs[p.batch[j]]
      BY <1>3, <1>4, Zenon
    <3> QED  BY <1>0, <2>2, <3>1, Zenon
  <2> QED  BY <1>1, <1>3, <1>4, <2>1, <2>2 DEF IsBatch, FeatureFormed
<1>7. \A i \in 1 .. n : encoded[i] = Features(p.kind, batch[i].hash, batch[i].patches)
  BY <1>6, FeaturesAre
<1> HIDE DEF encoded
<1> DEFINE at == CHOOSE i \in 1 .. n : batch[i].hash = f.hash
<1>8. \E i \in 1 .. n : batch[i].hash = f.hash
  <2>1. PICK j \in 1 .. n : fs[p.batch[j]].hash = fs[u].hash
    BY <1>1, <1>2, <1>3, Zenon
  <2>2. batch[j] = fs[p.batch[j]]
    BY <1>4, Zenon
  <2> QED  BY <1>2, <2>1, <2>2
<1>9. at \in 1 .. n /\ batch[at].hash = f.hash
  BY <1>8
<1>10. EncoderCache(p)[f.hash] = encoded[at]
  <2>1. f.hash \in {batch[i].hash : i \in 1 .. n}
    BY <1>8
  <2> QED  BY <1>5, <2>1, Zenon
<1> HIDE DEF at
<1>11. batch[at].patches = f.patches
  <2>1. p.batch[at] \in DOMAIN fs /\ batch[at] = fs[p.batch[at]]
    BY <1>3, <1>4, <1>9, Zenon
  <2>2. fs[p.batch[at]].hash = fs[u].hash
    BY <1>2, <1>9, <2>1
  <2> QED  BY <1>0, <1>2, <2>1, <2>2, Zenon
<1> QED  BY <1>7, <1>9, <1>10, <1>11

(***************************************************************************)
(* What was put behind the columns of an embedding is found again.         *)
(***************************************************************************)
LEMMA ColumnsAre ==
  ASSUME NEW t, NEW h \in 0 .. H - 1
  PROVE  /\ ExtractDeepstack(Feature(t)).embed[h] = Column(t, "embed", h)
         /\ \A d \in 0 .. D - 1 : ExtractDeepstack(Feature(t)).deepstack[d][h] = Column(t, d, h)
<1> DEFINE row == Feature(t)
           e == [c \in 0 .. H - 1 |-> Column(t, "embed", c)]
           ds == [d \in 0 .. D - 1 |-> [c \in 0 .. H - 1 |-> Column(t, d, c)]]
<1>1. H \in Nat \ {0} /\ D \in Nat
  BY MultiModalAssumption
<1>2. row = [c \in 0 .. H * (1 + D) - 1 |-> IF c < H THEN e[c] ELSE ds[(c \div H) - 1][c % H]]
  BY DEF Feature, CombineDeepstack
<1> HIDE DEF row
<1>3. ExtractDeepstack(row).embed[h] = row[h]
  BY DEF ExtractDeepstack
<1>4. \A d \in 0 .. D - 1 : ExtractDeepstack(row).deepstack[d][h] = row[H + d * H + h]
  BY DEF ExtractDeepstack
<1>5. h \in 0 .. H * (1 + D) - 1 /\ h < H
  <2>1. 1 * H <= (1 + D) * H /\ (1 + D) * H = H * (1 + D) /\ 1 * H = H /\ (1 + D) * H \in Nat
    BY <1>1, TimesOrder
  <2> QED  BY <1>1, <2>1
<1>6. row[h] = Column(t, "embed", h)
  BY <1>2, <1>5
<1>7. ASSUME NEW d \in 0 .. D - 1 PROVE row[H + d * H + h] = Column(t, d, h)
  <2> DEFINE c == (d + 1) * H + h
  <2>1. c = H + d * H + h /\ c \in Nat /\ H <= c
    <3>1. (d + 1) * H = d * H + H /\ d * H \in Nat
      BY <1>1, TimesOrder
    <3> QED  BY <1>1, <3>1
  <2>2. c \in 0 .. H * (1 + D) - 1
    <3>1. (d + 1) * H + H <= (1 + D) * H /\ (d + 1) * H \in Nat /\ (1 + D) * H = H * (1 + D)
          /\ (1 + D) * H \in Nat
      BY <1>1, TimesOrder
    <3> QED  BY <1>1, <3>1
  <2>3. c \div H = d + 1 /\ c % H = h
    BY <1>1, PlaceIn
  <2> HIDE DEF c, e, ds
  <2>4. row[c] = ds[(c \div H) - 1][c % H]
    <3>1. ~(c < H)
      BY <1>1, <2>1
    <3> QED  BY <1>2, <2>2, <3>1, Zenon
  <2>5. row[c] = ds[d][h]
    BY <2>3, <2>4
  <2>6. ds[d][h] = Column(t, d, h)
    BY DEF ds
  <2> QED  BY <2>1, <2>5, <2>6
<1> QED  BY <1>3, <1>4, <1>6, <1>7 DEF row

-----------------------------------------------------------------------------
(***************************************************************************)
(* A placeholder range, and the positions of a part of it that take an     *)
(* embedding.                                                              *)
(***************************************************************************)
IsPlace(f) == /\ f.offset \in Nat /\ f.length \in Nat
              /\ f.is_embed = NoMask \/ f.is_embed \in [1 .. f.length -> BOOLEAN]
Run(f, a, b) == {x \in f.offset + a .. f.offset + b - 1 : Takes(f, x)}

(***************************************************************************)
(* With a mask, the mask says which positions take an embedding.           *)
(***************************************************************************)
LEMMA Masked ==
  ASSUME NEW f, f.is_embed # NoMask
  PROVE  \A x : Takes(f, x) <=> f.is_embed[x - f.offset + 1]
BY DEF Takes

(***************************************************************************)
(* One position more is one embedding more, if the position takes one.     *)
(***************************************************************************)
LEMMA EmbedsStep ==
  ASSUME NEW f, IsPlace(f)
  PROVE  /\ EmbedsBefore(f, 0) = 0
         /\ \A n \in 0 .. f.length : EmbedsBefore(f, n) \in Nat
         /\ \A n \in 0 .. f.length - 1 :
              EmbedsBefore(f, n + 1)
                = EmbedsBefore(f, n) + (IF Takes(f, f.offset + n) THEN 1 ELSE 0)
<1>1. f.offset \in Nat /\ f.length \in Nat
  BY DEF IsPlace
<1>2. CASE f.is_embed = NoMask
  BY <1>1, <1>2 DEF EmbedsBefore, Takes
<1>3. CASE f.is_embed # NoMask
  <2> DEFINE C(n) == {j \in 1 .. n : f.is_embed[j]}
  <2>1. \A n : EmbedsBefore(f, n) = Cardinality(C(n))
    BY <1>3 DEF EmbedsBefore
  <2>2. ASSUME NEW n \in 0 .. f.length PROVE IsFiniteSet(C(n)) /\ Cardinality(C(n)) \in Nat
    <3>1. IsFiniteSet(1 .. n) /\ C(n) \subseteq 1 .. n
      BY FS_Interval
    <3> HIDE DEF C
    <3> QED  BY <3>1, FS_Subset, FS_CardinalityType
  <2>3. C(0) = {}
    OBVIOUS
  <2>4. ASSUME NEW n \in 0 .. f.length - 1
        PROVE  Cardinality(C(n + 1)) = Cardinality(C(n)) + (IF Takes(f, f.offset + n) THEN 1 ELSE 0)
    <3>1. Takes(f, f.offset + n) <=> f.is_embed[n + 1]
      <4>1. (f.offset + n) - f.offset + 1 = n + 1
        BY <1>1
      <4>2. Takes(f, f.offset + n) <=> f.is_embed[(f.offset + n) - f.offset + 1]
        BY <1>3, Masked, Zenon
      <4>3. f.is_embed[(f.offset + n) - f.offset + 1] = f.is_embed[n + 1]
        BY <4>1
      <4> QED  BY <4>2, <4>3, Zenon
    <3>2. n \in Nat /\ n \in 0 .. f.length /\ n + 1 \notin 1 .. n
      BY <1>1
    <3>3. CASE f.is_embed[n + 1]
      <4>1. C(n + 1) = C(n) \cup {n + 1} /\ n + 1 \notin C(n)
        BY <3>2, <3>3
      <4> HIDE DEF C
      <4> QED  BY <2>2, <3>1, <3>2, <3>3, <4>1, FS_AddElement
    <3>4. CASE ~f.is_embed[n + 1]
      <4>1. C(n + 1) = C(n)
        BY <3>2, <3>4
      <4> HIDE DEF C
      <4> QED  BY <2>2, <3>1, <3>2, <3>4, <4>1
    <3> QED  BY <3>3, <3>4
  <2> HIDE DEF C
  <2> QED  BY <2>1, <2>2, <2>3, <2>4, FS_EmptySet
<1> QED  BY <1>2, <1>3

(***************************************************************************)
(* The embeddings of a part of a placeholder range are those before its    *)
(* end and not before its start.                                           *)
(***************************************************************************)
LEMMA RunCount ==
  ASSUME NEW f, IsPlace(f), NEW a \in 0 .. f.length, NEW b \in a .. f.length
  PROVE  /\ IsFiniteSet(Run(f, a, b))
         /\ Cardinality(Run(f, a, b)) = EmbedsBefore(f, b) - EmbedsBefore(f, a)
<1>1. f.offset \in Nat /\ f.length \in Nat
  BY DEF IsPlace
<1> DEFINE E(n) == EmbedsBefore(f, n)
           Counted(n) == IsFiniteSet(Run(f, a, n)) /\ Cardinality(Run(f, a, n)) = E(n) - E(a)
           T == {n \in 0 .. f.length : n >= a => Counted(n)}
<1>2. \A n \in 0 .. f.length : E(n) \in Nat
  BY EmbedsStep
<1>3. Counted(a)
  <2>1. Run(f, a, a) = {}
    BY <1>1 DEF Run
  <2>2. E(a) - E(a) = 0
    BY <1>2
  <2> QED  BY <2>1, <2>2, FS_EmptySet
<1>4. 0 \in T
  <2>1. 0 >= a => a = 0
    OBVIOUS
  <2> HIDE DEF Counted
  <2> QED  BY <1>1, <1>3, <2>1
<1>5. ASSUME NEW n \in 0 .. f.length - 1, n \in T PROVE n + 1 \in T
  <2>1. n \in Nat /\ n + 1 \in 0 .. f.length /\ n \in 0 .. f.length
    BY <1>1
  <2>2. CASE a = n + 1
    BY <1>3, <2>1, <2>2
  <2>3. CASE a > n + 1
    BY <2>1, <2>3
  <2>4. CASE a <= n
    <3> DEFINE x == f.offset + n
               S == Run(f, a, n)
    <3>1. Counted(n)
      BY <1>5, <2>4
    <3>2. E(n + 1) = E(n) + (IF Takes(f, x) THEN 1 ELSE 0)
      BY EmbedsStep
    <3>3. Run(f, a, n + 1) = IF Takes(f, x) THEN S \cup {x} ELSE S
      <4>1. \A y : y \in a + f.offset .. f.offset + (n + 1) - 1
                    <=> y \in f.offset + a .. f.offset + n - 1 \/ y = x
        BY <1>1, <2>1, <2>4
      <4>2. a + f.offset = f.offset + a
        BY <1>1
      <4> HIDE DEF x
      <4> QED  BY <4>1, <4>2, Zenon DEF Run
    <3>4. x \notin S
      BY <1>1, <2>1 DEF Run
    <3>5. E(n) \in Nat /\ E(a) \in Nat
      BY <1>2, <2>1
    <3> HIDE DEF x, S, E
    <3>6. IsFiniteSet(S) /\ Cardinality(S) = E(n) - E(a)
      BY <3>1 DEF S
    <3>7. Counted(n + 1)
      <4>1. CASE Takes(f, x)
        BY <3>2, <3>3, <3>4, <3>5, <3>6, <4>1, FS_AddElement
      <4>2. CASE ~Takes(f, x)
        BY <3>2, <3>3, <3>5, <3>6, <4>2
      <4> QED  BY <4>1, <4>2
    <3> HIDE DEF Counted
    <3> QED  BY <2>1, <3>7
  <2> HIDE DEF Counted, T
  <2> QED  BY <2>1, <2>2, <2>3, <2>4
<1> HIDE DEF T
<1>6. b \in T
  BY <1>1, <1>4, <1>5, UpTo
<1> QED  BY <1>6 DEF T
-----------------------------------------------------------------------------
(***************************************************************************)
(* The smaller of two numbers.                                             *)
(***************************************************************************)
LEMMA MinOfTwo ==
  ASSUME NEW a \in Int, NEW c \in Int
  PROVE  Min({a, c}) = IF a <= c THEN a ELSE c
<1>1. CASE a <= c
  BY <1>1, MinIs
<1>2. CASE ~(a <= c)
  BY <1>2, MinIs
<1> QED  BY <1>1, <1>2

(***************************************************************************)
(* The embeddings of a placeholder range that a step needs: those between  *)
(* the indices the runner computes.                                        *)
(***************************************************************************)
Piece(f, c, u) == {x \in c .. u - 1 : Covers(f, x) /\ Takes(f, x)}
Indices(f, c, n, a, b) ==
  a = Max({c - f.offset, 0}) /\ b = Min({c - f.offset + n, f.length})
LEMMA PieceIsRun ==
  ASSUME NEW f, IsPlace(f), NEW c \in Nat, NEW n \in Nat, NEW a, NEW b, Indices(f, c, n, a, b),
         n > 0, f.offset < c + n, f.offset + f.length > c
  PROVE  /\ a \in 0 .. f.length /\ b \in a .. f.length
         /\ Piece(f, c, c + n) = Run(f, a, b)
         /\ \A x \in Run(f, a, b) :
              /\ x - f.offset \in a .. b - 1 /\ x = f.offset + (x - f.offset)
              /\ {y \in Run(f, a, b) : y < x} = Run(f, a, x - f.offset)
<1>1. f.offset \in Nat /\ f.length \in Nat
  BY DEF IsPlace
<1>2. a = (IF c - f.offset >= 0 THEN c - f.offset ELSE 0)
  <2>1. c - f.offset \in Int /\ 0 \in Int
    BY <1>1
  <2> QED  BY <2>1, MaxOfTwo DEF Indices, Larger
<1>3. b = (IF c - f.offset + n <= f.length THEN c - f.offset + n ELSE f.length)
  <2>1. c - f.offset + n \in Int /\ f.length \in Int
    BY <1>1
  <2> QED  BY <2>1, MinOfTwo DEF Indices
<1>4. a \in 0 .. f.length /\ b \in a .. f.length
  BY <1>1, <1>2, <1>3
<1>5. \A x : x \in c .. (c + n) - 1 /\ x \in f.offset .. f.offset + f.length - 1
             <=> x \in f.offset + a .. f.offset + b - 1
  BY <1>1, <1>2, <1>3
<1>6. Piece(f, c, c + n) = Run(f, a, b)
  <2>1. \A x : x \in Piece(f, c, c + n) <=> x \in Run(f, a, b)
    BY <1>5, Zenon DEF Piece, Covers, Run
  <2> QED  BY <2>1, Zenon
<1>7. ASSUME NEW x \in Run(f, a, b)
      PROVE  /\ x - f.offset \in a .. b - 1 /\ x = f.offset + (x - f.offset)
             /\ {y \in Run(f, a, b) : y < x} = Run(f, a, x - f.offset)
  <2>1. x \in f.offset + a .. f.offset + b - 1
    BY DEF Run
  <2>2. x - f.offset \in a .. b - 1 /\ x = f.offset + (x - f.offset)
    BY <1>1, <1>4, <2>1
  <2>3. \A y : y \in f.offset + a .. f.offset + b - 1 /\ y < x
               <=> y \in f.offset + a .. f.offset + (x - f.offset) - 1
    BY <1>1, <1>4, <2>1
  <2>4. \A y : y \in {z \in Run(f, a, b) : z < x} <=> y \in Run(f, a, x - f.offset)
    BY <2>3, Zenon DEF Run
  <2> QED  BY <2>2, <2>4, Zenon
<1> QED  BY <1>4, <1>6, <1>7

(***************************************************************************)
(* A range that ends before the step, or starts behind it, adds nothing.   *)
(***************************************************************************)
LEMMA PieceEmpty ==
  ASSUME NEW f, IsPlace(f), NEW c \in Nat, NEW u \in Nat,
         f.offset >= u \/ f.offset + f.length <= c
  PROVE  Piece(f, c, u) = {}
<1>1. f.offset \in Nat /\ f.length \in Nat
  BY DEF IsPlace
<1>2. \A x \in c .. u - 1 : x \notin f.offset .. f.offset + f.length - 1
  BY <1>1
<1> QED  BY <1>2, Zenon DEF Piece, Covers

(***************************************************************************)
(* What gathering from one placeholder range adds to what was gathered: a  *)
(* row of its image for each of its positions in the step, in their order. *)
(***************************************************************************)
Gathered(E) == [break : BOOLEAN, embeds : Seq(E)]
Below(P, x) == {y \in P : y < x}
Added(g, r, P, row) ==
  /\ IsFiniteSet(P) /\ Len(r.embeds) = Len(g.embeds) + Cardinality(P)
  /\ \A i \in 1 .. Len(g.embeds) : r.embeds[i] = g.embeds[i]
  /\ \A x \in P : r.embeds[Len(g.embeds) + Cardinality(Below(P, x)) + 1] = row[x]
LEMMA ItemIs ==
  ASSUME NEW f, IsPlace(f), NEW c \in Nat, NEW n \in Nat, n > 0, NEW E, NEW cache,
         cache[f.hash] \in Seq(E), Len(cache[f.hash]) = EmbedsBefore(f, f.length),
         NEW g \in Gathered(E), ~g.break, NEW row,
         \A x \in Piece(f, c, c + n) :
           row[x] = cache[f.hash][EmbedsBefore(f, x - f.offset) + 1]
  PROVE  LET r == GatherItem(g, f, cache, c, n)
         IN /\ r \in Gathered(E) /\ Added(g, r, Piece(f, c, c + n), row)
            /\ r.break => f.offset >= c + n
<1> DEFINE r == GatherItem(g, f, cache, c, n)
           a == Max({c - f.offset, 0})
           b == Min({c - f.offset + n, f.length})
           es == EmbedsBefore(f, a)
           ee == EmbedsBefore(f, b)
           C == cache[f.hash]
           P == Piece(f, c, c + n)
           item == SubSeq(C, es + 1, ee)
<1>1. f.offset \in Nat /\ f.length \in Nat /\ g.break = FALSE /\ g.embeds \in Seq(E)
  BY DEF IsPlace, Gathered
<1>2. ASSUME P = {}, r.embeds = g.embeds PROVE Added(g, r, P, row)
  <2>1. Len(g.embeds) \in Nat
    BY <1>1, LenProperties
  <2> HIDE DEF r, P
  <2> QED  BY <1>2, <2>1, FS_EmptySet DEF Added
<1>3. CASE f.offset >= c + n
  <2>1. r = [g EXCEPT !.break = TRUE]
    BY <1>3 DEF GatherItem
  <2>2. P = {}
    BY <1>1, <1>3, PieceEmpty
  <2>3. r \in Gathered(E) /\ r.embeds = g.embeds
    BY <2>1 DEF Gathered
  <2> QED  BY <1>2, <1>3, <2>2, <2>3
<1>4. CASE ~(f.offset >= c + n) /\ f.offset + f.length <= c
  <2>1. r = g
    BY <1>1, <1>4 DEF GatherItem
  <2>2. P = {}
    BY <1>1, <1>4, PieceEmpty
  <2> QED  BY <1>1, <1>2, <2>1, <2>2
<1>5. CASE ~(f.offset >= c + n) /\ ~(f.offset + f.length <= c)
  <2>1. f.offset < c + n /\ f.offset + f.length > c
    BY <1>1, <1>5
  <2>2. Indices(f, c, n, a, b)
    BY DEF Indices
  <2> HIDE DEF a, b
  <2>3. /\ a \in 0 .. f.length /\ b \in a .. f.length /\ P = Run(f, a, b)
        /\ \A x \in Run(f, a, b) :
             /\ x - f.offset \in a .. b - 1 /\ x = f.offset + (x - f.offset)
             /\ {y \in Run(f, a, b) : y < x} = Run(f, a, x - f.offset)
    BY <2>1, <2>2, PieceIsRun
  <2>4. \A i \in 0 .. f.length : EmbedsBefore(f, i) \in Nat
    BY EmbedsStep
  <2>5. b \in 0 .. f.length /\ es \in Nat /\ ee \in Nat
    BY <1>1, <2>3, <2>4
  <2>6. IsFiniteSet(P) /\ Cardinality(P) = ee - es /\ Cardinality(P) \in Nat
    BY <2>3, RunCount, FS_CardinalityType
  <2>7. CASE es = ee
    <3>1. r = g
      BY <1>1, <1>5, <2>7 DEF GatherItem, a, b
    <3>2. Cardinality(P) = 0
      BY <2>5, <2>6, <2>7
    <3> HIDE DEF r, P
    <3>3. P = {}
      BY <2>6, <3>2, FS_EmptySet
    <3>4. Added(g, r, P, row)
      BY <1>2, <3>1, <3>3
    <3>5. r \in Gathered(E) /\ r.break = FALSE
      BY <1>1, <3>1
    <3> QED  BY <3>4, <3>5 DEF r, P
  <2>8. CASE es # ee
    <3>1. r = [g EXCEPT !.embeds = @ \o item]
      <4>1. f.is_embed = NoMask => es = a /\ ee = b
        BY DEF EmbedsBefore
      <4> QED  BY <1>1, <1>5, <2>8, <4>1 DEF GatherItem, a, b
    <3>2. es < ee /\ ee <= Len(C)
      <4>1. Cardinality(Run(f, b, f.length)) = EmbedsBefore(f, f.length) - ee
            /\ IsFiniteSet(Run(f, b, f.length))
        BY <1>1, <2>5, RunCount
      <4>2. EmbedsBefore(f, f.length) - ee \in Nat
        BY <4>1, FS_CardinalityType
      <4>3. EmbedsBefore(f, f.length) \in Nat
        BY <1>1, <2>4
      <4> QED  BY <2>5, <2>6, <2>8, <4>2, <4>3
    <3> HIDE DEF r, es, ee, C, P
    <3>3. \A i \in es + 1 .. ee : C[i] \in E
      <4>1. C \in Seq(E)
        BY DEF C
      <4>2. \A i \in es + 1 .. ee : i \in 1 .. Len(C)
        BY <2>5, <3>2, <4>1, LenProperties
      <4> QED  BY <4>1, <4>2, ElementOfSeq
    <3>4. /\ item \in Seq(E) /\ Len(item) = ee - es
          /\ \A i \in 1 .. ee - es : item[i] = C[es + i]
      <4>1. es + 1 \in Int /\ ee \in Int /\ es + 1 <= ee
        BY <2>5, <3>2
      <4>2. /\ item \in Seq(E) /\ Len(item) = IF es + 1 <= ee THEN ee - (es + 1) + 1 ELSE 0
            /\ \A i \in 1 .. ee - (es + 1) + 1 : item[i] = C[(es + 1) + i - 1]
        BY <3>3, <4>1, SubSeqProperties
      <4>3. ee - (es + 1) + 1 = ee - es
        BY <2>5
      <4>4. \A i \in 1 .. ee - es : (es + 1) + i - 1 = es + i
        BY <2>5
      <4> HIDE DEF item
      <4> QED  BY <4>1, <4>2, <4>3, <4>4
    <3> HIDE DEF item
    <3>5. r.embeds = g.embeds \o item /\ r.break = FALSE /\ r = [break |-> FALSE, embeds |-> g.embeds \o item]
      BY <1>1, <3>1 DEF Gathered
    <3>6. /\ r.embeds \in Seq(E) /\ Len(r.embeds) = Len(g.embeds) + Len(item)
          /\ \A i \in 1 .. Len(g.embeds) + Len(item) :
               r.embeds[i] = IF i <= Len(g.embeds) THEN g.embeds[i] ELSE item[i - Len(g.embeds)]
      BY <1>1, <3>4, <3>5, ConcatProperties
    <3>7. Len(g.embeds) \in Nat
      BY <1>1, LenProperties
    <3>8. ASSUME NEW x \in P
          PROVE  r.embeds[Len(g.embeds) + Cardinality(Below(P, x)) + 1] = row[x]
      <4> DEFINE j == x - f.offset
                 m == Cardinality(Below(P, x))
      <4>1. j \in a .. b - 1 /\ x = f.offset + j /\ Below(P, x) = Run(f, a, j)
        BY <2>3 DEF Below
      <4>2. j \in a .. f.length /\ j \in 0 .. f.length - 1 /\ j + 1 \in a .. b
            /\ j + 1 \in 0 .. f.length /\ b \in j + 1 .. f.length
        BY <1>1, <2>3, <4>1
      <4>3. m = EmbedsBefore(f, j) - es
        BY <2>3, <4>1, <4>2, RunCount DEF es
      <4>4. m \in Nat
        <5>1. IsFiniteSet(Run(f, a, j))
          BY <2>3, <4>2, RunCount
        <5> QED  BY <4>1, <5>1, FS_CardinalityType
      <4>5. Takes(f, f.offset + j)
        BY <2>3, <4>1 DEF Run
      <4>6. EmbedsBefore(f, j + 1) = EmbedsBefore(f, j) + 1
        BY <4>2, <4>5, EmbedsStep
      <4>7. ee - EmbedsBefore(f, j + 1) \in Nat
        <5>1. Cardinality(Run(f, j + 1, b)) = ee - EmbedsBefore(f, j + 1)
              /\ IsFiniteSet(Run(f, j + 1, b))
          BY <4>2, RunCount DEF ee
        <5> QED  BY <5>1, FS_CardinalityType
      <4>8. EmbedsBefore(f, j) \in Nat
        BY <2>4, <4>2
      <4>9. row[x] = C[EmbedsBefore(f, j) + 1]
        BY DEF C, P
      <4> HIDE DEF m, j
      <4>10. m + 1 \in 1 .. ee - es /\ es + (m + 1) = EmbedsBefore(f, j) + 1
        BY <2>5, <4>3, <4>4, <4>6, <4>7, <4>8
      <4>11. item[m + 1] = row[x]
        BY <3>4, <4>9, <4>10
      <4> DEFINE q == Len(g.embeds) + m + 1
      <4>14. ee - es \in Nat /\ Len(item) = ee - es
        BY <2>5, <3>2, <3>4
      <4>12. q \in 1 .. Len(g.embeds) + Len(item) /\ ~(q <= Len(g.embeds)) /\ q - Len(g.embeds) = m + 1
        <5>1. \A l, i, k \in Nat : i + 1 <= k =>
                l + i + 1 \in 1 .. l + k /\ ~(l + i + 1 <= l) /\ (l + i + 1) - l = i + 1
          OBVIOUS
        <5>2. Len(item) \in Nat /\ m + 1 <= Len(item)
          BY <4>10, <4>14
        <5> QED  BY <3>7, <4>4, <5>1, <5>2, Zenon
      <4> HIDE DEF q
      <4>13. r.embeds[q] = item[m + 1]
        BY <3>6, <4>12
      <4> QED  BY <4>11, <4>13 DEF q, m
    <3>9. \A i \in 1 .. Len(g.embeds) : r.embeds[i] = g.embeds[i]
      <4>1. \A i \in 1 .. Len(g.embeds) : i \in 1 .. Len(g.embeds) + Len(item) /\ i <= Len(g.embeds)
        BY <2>5, <3>2, <3>4, <3>7
      <4> QED  BY <3>6, <4>1
    <3>10. r \in Gathered(E)
      BY <3>5, <3>6 DEF Gathered
    <3> QED  BY <2>6, <3>4, <3>5, <3>6, <3>8, <3>9, <3>10 DEF Added, P, r
  <2> QED  BY <2>7, <2>8
<1> QED  BY <1>3, <1>4, <1>5
-----------------------------------------------------------------------------
(***************************************************************************)
(* The rows of a set of positions, in the order of the positions; and what *)
(* stays true of them when the rows of later positions are put behind.     *)
(***************************************************************************)
Placed(I, s, row) ==
  /\ IsFiniteSet(I) /\ Len(s) = Cardinality(I)
  /\ \A x \in I : s[Cardinality(Below(I, x)) + 1] = row[x]
LEMMA PlacedBehind ==
  ASSUME NEW I, I \subseteq Int, NEW P, P \subseteq Int, \A x \in I, y \in P : x < y,
         NEW g, NEW r, NEW row, Placed(I, g.embeds, row), Added(g, r, P, row)
  PROVE  Placed(I \cup P, r.embeds, row)
<1>1. /\ IsFiniteSet(I) /\ IsFiniteSet(P) /\ Cardinality(I) \in Nat /\ Cardinality(P) \in Nat
      /\ Len(g.embeds) = Cardinality(I) /\ Len(r.embeds) = Cardinality(I) + Cardinality(P)
  BY FS_CardinalityType DEF Placed, Added
<1>2. ASSUME NEW Q, Q \subseteq P
      PROVE  IsFiniteSet(I \cup Q) /\ Cardinality(I \cup Q) = Cardinality(I) + Cardinality(Q)
             /\ Cardinality(Q) \in Nat
  <2>1. IsFiniteSet(Q) /\ Cardinality(Q) \in Nat
    BY <1>1, <1>2, FS_Subset, FS_CardinalityType
  <2>2. I \cap Q = {}
    BY <1>2
  <2>3. Cardinality(I \cap Q) = 0
    BY <2>2, FS_EmptySet
  <2>4. IsFiniteSet(I \cup Q)
        /\ Cardinality(I \cup Q) = Cardinality(I) + Cardinality(Q) - Cardinality(I \cap Q)
    BY <1>1, <2>1, FS_Union
  <2> QED  BY <1>1, <2>1, <2>3, <2>4
<1>3. ASSUME NEW x \in I PROVE r.embeds[Cardinality(Below(I \cup P, x)) + 1] = row[x]
  <2>1. Below(I \cup P, x) = Below(I, x)
    <3>1. \A y \in P : ~(y < x)
      <4>1. \A y \in P : y \in Int /\ x \in Int /\ x < y
        OBVIOUS
      <4> QED  BY <4>1
    <3> QED  BY <3>1, Zenon DEF Below
  <2> DEFINE m == Cardinality(Below(I, x))
  <2>2. m \in Nat /\ m < Cardinality(I)
    <3>1. Below(I, x) \subseteq I /\ x \notin Below(I, x) /\ x \in I
      BY DEF Below
    <3>2. /\ IsFiniteSet(Below(I, x)) /\ m <= Cardinality(I)
          /\ Cardinality(I) = m => I = Below(I, x)
      BY <1>1, <3>1, FS_Subset
    <3>3. m \in Nat
      BY <3>2, FS_CardinalityType
    <3> HIDE DEF m
    <3> QED  BY <1>1, <3>1, <3>2, <3>3
  <2>3. g.embeds[m + 1] = row[x]
    BY DEF Placed
  <2> HIDE DEF m
  <2>4. m + 1 \in 1 .. Len(g.embeds)
    BY <1>1, <2>2
  <2>5. r.embeds[m + 1] = g.embeds[m + 1]
    BY <2>4 DEF Added
  <2> QED  BY <2>1, <2>3, <2>5 DEF m
<1>4. ASSUME NEW x \in P PROVE r.embeds[Cardinality(Below(I \cup P, x)) + 1] = row[x]
  <2>1. Below(I \cup P, x) = I \cup Below(P, x)
    BY DEF Below
  <2>2. Below(P, x) \subseteq P
    BY DEF Below
  <2>3. Cardinality(I \cup Below(P, x)) = Cardinality(I) + Cardinality(Below(P, x))
    BY <1>2, <2>2
  <2>4. r.embeds[Len(g.embeds) + Cardinality(Below(P, x)) + 1] = row[x]
    BY DEF Added
  <2> QED  BY <1>1, <2>1, <2>3, <2>4
<1>5. IsFiniteSet(I \cup P) /\ Len(r.embeds) = Cardinality(I \cup P)
  BY <1>1, <1>2
<1> QED  BY <1>3, <1>4, <1>5 DEF Placed

(***************************************************************************)
(* The placeholder ranges of a prompt, as the prompt's form gives them.    *)
(***************************************************************************)
LEMMA RangesAre ==
  ASSUME NEW p, PromptFormed(p)
  PROVE  LET fs == p.features
         IN /\ Len(fs) \in Nat /\ DOMAIN fs = 1 .. Len(fs)
            /\ \A j \in 1 .. Len(fs) : IsPlace(fs[j])
            /\ \A i, j \in 1 .. Len(fs) : i < j => fs[i].offset + fs[i].length <= fs[j].offset
            /\ \A j \in 1 .. Len(fs) :
                 fs[j] \in Range(fs) /\
                 EmbedsBefore(fs[j], fs[j].length) = EmbedCount(p.kind, fs[j].patches)
<1> DEFINE fs == p.features
<1>1. Len(fs) \in Nat /\ DOMAIN fs = 1 .. Len(fs)
  BY LenProperties DEF PromptFormed
<1>2. \A j \in 1 .. Len(fs) : FeatureFormed(p.kind, fs[j])
  BY <1>1 DEF PromptFormed
<1>3. \A j \in 1 .. Len(fs) : fs[j] \in Range(fs)
  BY <1>1 DEF Range
<1>4. \A i, j \in 1 .. Len(fs) : i < j => fs[i].offset + fs[i].length <= fs[j].offset
  BY <1>1 DEF PromptFormed
<1> HIDE DEF fs
<1>5. \A j \in 1 .. Len(fs) :
        IsPlace(fs[j]) /\ EmbedsBefore(fs[j], fs[j].length) = EmbedCount(p.kind, fs[j].patches)
  BY <1>2, Zenon DEF FeatureFormed, IsPlace
<1> QED  BY <1>1, <1>3, <1>4, <1>5 DEF fs

(***************************************************************************)
(* A position is covered by one range only, so the embedding it stands for *)
(* is the one its range says.                                              *)
(***************************************************************************)
LEMMA EmbedAtIs ==
  ASSUME NEW p, PromptFormed(p), NEW j \in 1 .. Len(p.features),
         NEW x \in Int, Covers(p.features[j], x)
  PROVE  LET f == p.features[j]
         IN EmbedAt(p, x) = EmbedToken(p.kind, f.hash, EmbedsBefore(f, x - f.offset))
<1> DEFINE fs == p.features
           f == fs[j]
           N == Len(fs)
           chosen == CHOOSE g \in Range(fs) : Covers(g, x)
<1>1. /\ N \in Nat /\ DOMAIN fs = 1 .. N /\ \A i \in 1 .. N : IsPlace(fs[i])
      /\ \A i, k \in 1 .. N : i < k => fs[i].offset + fs[i].length <= fs[k].offset
  BY RangesAre
<1>2. f \in Range(fs) /\ Covers(f, x)
  BY RangesAre
<1>3. EmbedAt(p, x) = EmbedToken(p.kind, chosen.hash,
                        Cardinality({y \in chosen.offset .. x - 1 : Takes(chosen, y)}))
  BY DEF EmbedAt
<1>4. chosen = f
  <2>1. chosen \in Range(fs) /\ Covers(chosen, x)
    BY <1>2
  <2> HIDE DEF chosen
  <2>2. PICK i \in 1 .. N : chosen = fs[i]
    BY <1>1, <2>1 DEF Range
  <2> HIDE DEF fs, N
  <2>3. /\ fs[i].offset \in Nat /\ fs[i].length \in Nat /\ f.offset \in Nat /\ f.length \in Nat
        /\ x \in fs[i].offset .. fs[i].offset + fs[i].length - 1
        /\ x \in f.offset .. f.offset + f.length - 1
    <3>1. j \in 1 .. N
      BY DEF N, fs
    <3>2. IsPlace(fs[i]) /\ IsPlace(f)
      BY <1>1, <3>1
    <3> QED  BY <1>2, <2>1, <2>2, <3>2 DEF IsPlace, Covers
  <2>4. ~(i < j) /\ ~(j < i)
    <3>1. j \in 1 .. N
      BY DEF N, fs
    <3>2. i < j => fs[i].offset + fs[i].length <= f.offset
      BY <1>1, <3>1
    <3>3. j < i => f.offset + f.length <= fs[i].offset
      BY <1>1, <3>1
    <3> HIDE DEF f
    <3>4. ~(fs[i].offset + fs[i].length <= f.offset) /\ ~(f.offset + f.length <= fs[i].offset)
      <4>1. \A o, q, l, m \in Nat :
              x \in o .. o + l - 1 /\ x \in q .. q + m - 1 => ~(o + l <= q) /\ ~(q + m <= o)
        OBVIOUS
      <4> QED  BY <2>3, <4>1, Zenon
    <3> QED  BY <3>2, <3>3, <3>4, Zenon
  <2>5. i = j
    BY <1>1, <2>4 DEF N, fs
  <2> QED  BY <2>2, <2>5
<1>5. Cardinality({y \in f.offset .. x - 1 : Takes(f, y)}) = EmbedsBefore(f, x - f.offset)
  <2>1. IsPlace(f)
    BY <1>1
  <2> HIDE DEF f
  <2>2. f.offset \in Nat /\ f.length \in Nat /\ x \in f.offset .. f.offset + f.length - 1
    BY <1>2, <2>1 DEF IsPlace, Covers
  <2>3. x - f.offset \in 0 .. f.length /\ 0 \in 0 .. f.length
        /\ f.offset + 0 = f.offset /\ f.offset + (x - f.offset) - 1 = x - 1
    BY <2>2
  <2>4. {y \in f.offset .. x - 1 : Takes(f, y)} = Run(f, 0, x - f.offset)
    BY <2>3 DEF Run
  <2>5. Cardinality(Run(f, 0, x - f.offset)) = EmbedsBefore(f, x - f.offset) - EmbedsBefore(f, 0)
    BY <2>1, <2>3, RunCount
  <2>6. EmbedsBefore(f, 0) = 0 /\ EmbedsBefore(f, x - f.offset) \in Nat
    BY <2>1, <2>3, EmbedsStep
  <2>7. Cardinality(Run(f, 0, x - f.offset)) = EmbedsBefore(f, x - f.offset)
    BY <2>5, <2>6
  <2> QED  BY <2>4, <2>7, Zenon
<1> HIDE DEF chosen
<1> QED  BY <1>3, <1>4, <1>5
-----------------------------------------------------------------------------
(***************************************************************************)
(* The positions of the first k ranges that a step needs, and the row each *)
(* position of a prompt stands for.                                        *)
(***************************************************************************)
In(fs, k, c, u) == UNION {Piece(fs[j], c, u) : j \in 1 .. k}
RowsOf(p) == [x \in Int |-> Feature(EmbedAt(p, x))]
AllRows(p) == {Feature(EmbedToken(p.kind, f.hash, k)) : f \in Range(p.features), k \in Nat}

(***************************************************************************)
(* What the cache holds for a range of the prompt.                         *)
(***************************************************************************)
LEMMA CachedRows ==
  ASSUME NEW p, PromptFormed(p), NEW j \in 1 .. Len(p.features), NEW c \in Nat, NEW u \in Nat
  PROVE  LET f == p.features[j]
             s == EncoderCache(p)[f.hash]
         IN /\ s \in Seq(AllRows(p)) /\ Len(s) = EmbedsBefore(f, f.length)
            /\ \A x \in Piece(f, c, u) : RowsOf(p)[x] = s[EmbedsBefore(f, x - f.offset) + 1]
<1> DEFINE f == p.features[j]
           s == EncoderCache(p)[f.hash]
           N == EmbedCount(p.kind, f.patches)
<1>1. f \in Range(p.features) /\ IsPlace(f) /\ EmbedsBefore(f, f.length) = N
  BY RangesAre
<1>2. s = Features(p.kind, f.hash, f.patches)
  BY <1>1, CacheIs
<1>3. \A x \in Int : Covers(f, x) =>
        EmbedAt(p, x) = EmbedToken(p.kind, f.hash, EmbedsBefore(f, x - f.offset))
  BY EmbedAtIs
<1> HIDE DEF f, s
<1>4. f.offset \in Nat /\ f.length \in Nat
  BY <1>1 DEF IsPlace
<1>5. \A i \in 0 .. f.length : EmbedsBefore(f, i) \in Nat
  BY <1>1, EmbedsStep
<1>6. N \in Nat
  BY <1>1, <1>4, <1>5
<1>7. s = [k \in 1 .. N |-> Feature(EmbedToken(p.kind, f.hash, k - 1))]
  BY <1>2 DEF Features
<1> HIDE DEF N
<1>8. s \in Seq(AllRows(p)) /\ Len(s) = N
  <2>1. ASSUME NEW k \in 1 .. N PROVE Feature(EmbedToken(p.kind, f.hash, k - 1)) \in AllRows(p)
    <3>1. k - 1 \in Nat
      BY <1>6
    <3> QED  BY <1>1, <3>1 DEF AllRows
  <2>2. s \in [1 .. N -> AllRows(p)]
    BY <1>7, <2>1
  <2> QED  BY <1>6, <2>2, Listed
<1>9. ASSUME NEW x \in Piece(f, c, u) PROVE RowsOf(p)[x] = s[EmbedsBefore(f, x - f.offset) + 1]
  <2> DEFINE i == x - f.offset
             m == EmbedsBefore(f, i)
  <2>1. x \in c .. u - 1 /\ Covers(f, x) /\ Takes(f, x)
    BY DEF Piece
  <2>2. x \in Int /\ x \in f.offset .. f.offset + f.length - 1
    BY <2>1 DEF Covers
  <2>3. i \in 0 .. f.length - 1 /\ f.offset + i = x /\ i + 1 \in 0 .. f.length /\ i \in 0 .. f.length
        /\ f.length \in i + 1 .. f.length
    <3>1. \A o, l \in Nat, y \in Int : y \in o .. o + l - 1 =>
            /\ y - o \in 0 .. l - 1 /\ o + (y - o) = y /\ (y - o) + 1 \in 0 .. l
            /\ y - o \in 0 .. l /\ l \in (y - o) + 1 .. l
      OBVIOUS
    <3> QED  BY <1>4, <2>2, <3>1, Zenon
  <2>4. RowsOf(p)[x] = Feature(EmbedToken(p.kind, f.hash, m))
    BY <1>3, <2>1, <2>2 DEF RowsOf
  <2> HIDE DEF i
  <2>5. EmbedsBefore(f, i + 1) = m + 1 /\ m \in Nat
    BY <1>1, <1>5, <2>1, <2>3, EmbedsStep
  <2>6. EmbedsBefore(f, f.length) - EmbedsBefore(f, i + 1) \in Nat
    <3>1. IsFiniteSet(Run(f, i + 1, f.length)) /\
          Cardinality(Run(f, i + 1, f.length)) = EmbedsBefore(f, f.length) - EmbedsBefore(f, i + 1)
      BY <1>1, <2>3, RunCount
    <3> QED  BY <3>1, FS_CardinalityType
  <2> HIDE DEF m
  <2>7. m + 1 \in 1 .. N /\ (m + 1) - 1 = m
    BY <1>1, <1>6, <2>5, <2>6
  <2> QED  BY <1>7, <2>4, <2>7 DEF m, i
<1> QED  BY <1>1, <1>8, <1>9 DEF f, s

(***************************************************************************)
(* Whatever was gathered, one more range leaves a list of rows.            *)
(***************************************************************************)
LEMMA ItemTyped ==
  ASSUME NEW p, PromptFormed(p), NEW j \in 1 .. Len(p.features),
         NEW c \in Nat, NEW n \in Nat \ {0}, NEW g \in Gathered(AllRows(p))
  PROVE  GatherItem(g, p.features[j], EncoderCache(p), c, n) \in Gathered(AllRows(p))
<1> DEFINE f == p.features[j]
           cache == EncoderCache(p)
<1>1. CASE g.break
  <2>1. GatherItem(g, f, cache, c, n) = [g EXCEPT !.break = TRUE]
    BY <1>1 DEF GatherItem
  <2> QED  BY <2>1 DEF Gathered
<1>2. CASE ~g.break
  <2>1. IsPlace(f)
    BY RangesAre
  <2>2. /\ cache[f.hash] \in Seq(AllRows(p)) /\ Len(cache[f.hash]) = EmbedsBefore(f, f.length)
        /\ \A x \in Piece(f, c, c + n) :
             RowsOf(p)[x] = cache[f.hash][EmbedsBefore(f, x - f.offset) + 1]
    <3>1. c + n \in Nat
      OBVIOUS
    <3> QED  BY <3>1, CachedRows
  <2> HIDE DEF f, cache
  <2>3. g \in Gathered(AllRows(p)) /\ n \in Nat /\ n > 0
    OBVIOUS
  <2>4. /\ GatherItem(g, f, cache, c, n) \in Gathered(AllRows(p))
        /\ Added(g, GatherItem(g, f, cache, c, n), Piece(f, c, c + n), RowsOf(p))
    BY <1>2, <2>1, <2>2, <2>3, ItemIs, Zenon
  <2> QED  BY <2>4 DEF f, cache
<1> QED  BY <1>1, <1>2

(***************************************************************************)
(* A step gathers the rows of the positions it needs, in their order.      *)
(***************************************************************************)
LEMMA GatherIs ==
  ASSUME NEW p, PromptFormed(p), NEW c \in Nat, NEW n \in Nat \ {0}
  PROVE  /\ Placed(In(p.features, Len(p.features), c, c + n),
                   Gather(p.features, EncoderCache(p), c, n), RowsOf(p))
         /\ Gather(p.features, EncoderCache(p), c, n) \in Seq(AllRows(p))
<1> DEFINE fs == p.features
           N == Len(fs)
           u == c + n
           cache == EncoderCache(p)
           S == Gathered(AllRows(p))
           base == [break |-> FALSE, embeds |-> <<>>]
           item(k, g) == GatherItem(g, fs[k], cache, c, n)
           step == [q \in (1 .. N) \X S |-> item(q[1], q[2])]
           IsRun(h) == h = [k \in 0 .. N |-> IF k = 0 THEN base ELSE item(k, h[k - 1])]
<1>1. /\ N \in Nat /\ u \in Nat /\ \A j \in 1 .. N : IsPlace(fs[j])
      /\ \A i, j \in 1 .. N : i < j => fs[i].offset + fs[i].length <= fs[j].offset
  BY RangesAre
<1>2. \A j \in 1 .. N : \A g \in S : item(j, g) \in S
  BY ItemTyped
<1>3. base \in S /\ base.break = FALSE /\ base.embeds = <<>>
  BY EmptySeq DEF Gathered
<1>4. \E h : IsRun(h) /\ h \in [0 .. N -> S]
  <2> HIDE DEF S, N, item, base
  <2>1. step \in Rounds(N, S)
    BY <1>2 DEF Rounds
  <2>2. \A k \in 1 .. N, g \in S : step[<<k, g>>] = item(k, g)
    OBVIOUS
  <2> HIDE DEF step
  <2>3. PICK h : Trace(h, N, S, base, step)
    BY <1>1, <1>3, <2>1, LoopExists, Zenon
  <2>4. ASSUME NEW k \in 1 .. N PROVE h[k] = item(k, h[k - 1])
    <3>1. k - 1 \in 0 .. N
      BY <1>1
    <3>2. h[k] = step[<<k, h[k - 1]>>] /\ h[k - 1] \in S
      BY <2>3, <3>1 DEF Trace
    <3> QED  BY <2>2, <3>2
  <2>5. IsRun(h) /\ h \in [0 .. N -> S]
    BY <2>3, <2>4 DEF Trace
  <2> QED  BY <2>5
<1> DEFINE after == CHOOSE h : IsRun(h)
<1>5. Gather(fs, cache, c, n) = after[N].embeds
  BY DEF Gather
<1>6. IsRun(after)
  <2> HIDE DEF IsRun
  <2> QED  BY <1>4
<1> HIDE DEF after, item, S, base, N, u, cache
<1>7. after[0] = base /\ \A k \in 1 .. N : after[k] = item(k, after[k - 1])
  BY <1>1, <1>6
<1> HIDE DEF IsRun
<1> DEFINE I(k) == In(fs, k, c, u)
           Right(k) == /\ after[k] \in S /\ Placed(I(k), after[k].embeds, RowsOf(p))
                       /\ after[k].break => \A j \in 1 .. N : j >= k => fs[j].offset >= u
           T == {k \in 0 .. N : Right(k)}
<1>8. 0 \in T
  <2>1. I(0) = {}
    BY DEF In
  <2>2. Placed({}, <<>>, RowsOf(p))
    BY FS_EmptySet, EmptySeq DEF Placed
  <2> HIDE DEF I
  <2>3. after[0] \in S /\ after[0].embeds = <<>> /\ after[0].break = FALSE
    BY <1>3, <1>7
  <2>4. Right(0)
    BY <2>1, <2>2, <2>3
  <2> HIDE DEF Right
  <2> QED  BY <1>1, <2>4
<1>9. ASSUME NEW k \in 0 .. N - 1, k \in T PROVE k + 1 \in T
  <2> DEFINE g == after[k]
             f == fs[k + 1]
             r == after[k + 1]
             P == Piece(f, c, u)
  <2>1. k \in Nat /\ k + 1 \in 1 .. N /\ k + 1 \in 0 .. N /\ (k + 1) - 1 = k
    BY <1>1
  <2>2. Right(k)
    BY <1>9
  <2>3. r = GatherItem(g, f, cache, c, n)
    BY <1>7, <2>1 DEF item
  <2>4. r \in S
    BY <1>2, <1>7, <2>1, <2>2
  <2>5. I(k + 1) = I(k) \cup P
    <3>1. \A j : j \in 1 .. k + 1 <=> j \in 1 .. k \/ j = k + 1
      BY <2>1
    <3>2. \A x : x \in I(k + 1) <=> x \in I(k) \/ x \in P
      BY <3>1, Zenon DEF In
    <3> HIDE DEF I
    <3> QED  BY <3>2
  <2>6. IsPlace(f)
    BY <1>1, <2>1
  <2>7. I(k) \subseteq Int /\ P \subseteq Int /\ \A x \in I(k), y \in P : x < y
    <3>1. I(k) \subseteq Int /\ P \subseteq Int
      BY <1>1 DEF In, Piece
    <3>2. ASSUME NEW x \in I(k), NEW y \in P PROVE x < y
      <4>1. PICK j \in 1 .. k : x \in Piece(fs[j], c, u)
        BY DEF In
      <4>2. j \in 1 .. N /\ j < k + 1
        BY <1>1, <2>1
      <4>3. fs[j].offset + fs[j].length <= f.offset
        BY <1>1, <2>1, <4>2
      <4>4. x \in fs[j].offset .. fs[j].offset + fs[j].length - 1
            /\ y \in f.offset .. f.offset + f.length - 1
        BY <4>1 DEF Piece, Covers
      <4>5. fs[j].offset \in Nat /\ fs[j].length \in Nat /\ f.offset \in Nat
        BY <1>1, <2>6, <4>2 DEF IsPlace
      <4> QED  BY <4>3, <4>4, <4>5
    <3> QED  BY <3>1, <3>2
  <2>8. CASE g.break
    <3>1. r = [g EXCEPT !.break = TRUE]
      BY <2>3, <2>8 DEF GatherItem
    <3>2. \A j \in 1 .. N : j >= k => fs[j].offset >= u
      BY <2>2, <2>8
    <3>3. f.offset >= u
      BY <2>1, <3>2
    <3>4. P = {}
      BY <1>1, <2>6, <3>3, PieceEmpty
    <3>5. r.embeds = g.embeds
      BY <2>2, <3>1 DEF S, Gathered
    <3> HIDE DEF I, P
    <3>6. \A j \in 1 .. N : j >= k + 1 => fs[j].offset >= u
      BY <2>1, <3>2
    <3>7. Placed(I(k + 1), r.embeds, RowsOf(p))
      BY <2>2, <2>5, <3>4, <3>5
    <3> QED  BY <2>1, <2>4, <3>6, <3>7
  <2>9. CASE ~g.break
    <3>1. /\ cache[f.hash] \in Seq(AllRows(p)) /\ Len(cache[f.hash]) = EmbedsBefore(f, f.length)
          /\ \A x \in P : RowsOf(p)[x] = cache[f.hash][EmbedsBefore(f, x - f.offset) + 1]
      BY <1>1, <2>1, CachedRows DEF cache, N
    <3>2. Added(g, r, P, RowsOf(p)) /\ (r.break => f.offset >= u)
      <4>1. g \in Gathered(AllRows(p))
        BY <2>2 DEF S
      <4> HIDE DEF g, f, r
      <4>2. u = c + n /\ P = Piece(f, c, c + n)
        BY DEF u
      <4> HIDE DEF P
      <4>3. Added(g, GatherItem(g, f, cache, c, n), Piece(f, c, c + n), RowsOf(p))
            /\ (GatherItem(g, f, cache, c, n).break => f.offset >= c + n)
        BY <2>6, <2>9, <3>1, <4>1, <4>2, ItemIs
      <4> QED  BY <2>3, <4>2, <4>3
    <3>3. Placed(I(k) \cup P, r.embeds, RowsOf(p))
      <4> HIDE DEF I, P, g, r
      <4> QED  BY <2>2, <2>7, <3>2, PlacedBehind DEF g
    <3>4. ASSUME r.break, NEW j \in 1 .. N, j >= k + 1 PROVE fs[j].offset >= u
      <4>1. CASE j = k + 1
        BY <3>2, <3>4, <4>1
      <4>2. CASE j > k + 1
        <5>1. f.offset + f.length <= fs[j].offset
          BY <1>1, <2>1, <4>2
        <5>2. f.offset \in Nat /\ f.length \in Nat /\ fs[j].offset \in Nat
          BY <1>1, <2>6 DEF IsPlace
        <5> QED  BY <1>1, <3>2, <3>4, <5>1, <5>2
      <4> QED  BY <2>1, <3>4, <4>1, <4>2
    <3> HIDE DEF I, P
    <3> QED  BY <2>1, <2>4, <2>5, <3>3, <3>4
  <2> QED  BY <2>8, <2>9
<1>10. Right(N)
  <2> HIDE DEF T
  <2>1. \A k \in 0 .. N : k \in T
    BY <1>1, <1>8, <1>9, UpTo
  <2> QED  BY <1>1, <2>1 DEF T
<1>11. after[N].embeds \in Seq(AllRows(p))
  BY <1>10 DEF S, Gathered
<1> QED  BY <1>5, <1>10, <1>11 DEF N, u, cache
-----------------------------------------------------------------------------
(***************************************************************************)
(* Every window of a well-formed prompt is placed as the reference says.   *)
(***************************************************************************)
THEOREM WindowIsPlaced ==
  ASSUME NEW p, PromptFormed(p), NEW c \in Nat, NEW n \in Nat \ {0}, c + n <= p.length
  PROVE  WindowPlaced(p, c, n)
<1> DEFINE fs == p.features
           N == Len(fs)
           in == {x \in EmbedPositions(p) : x >= c /\ x < c + n}
           embeds == Gather(fs, EncoderCache(p), c, n)
           vision == ProcessVisionEmbeds(embeds)
           rank(x) == Cardinality({y \in in : y < x}) + 1
<1>1. N \in Nat /\ DOMAIN fs = 1 .. N /\ p.length \in Nat
  BY RangesAre DEF PromptFormed
<1>2. in = In(fs, N, c, c + n)
  <2>1. \A x : x \in 0 .. p.length - 1 /\ x >= c /\ x < c + n <=> x \in c .. (c + n) - 1
    BY <1>1
  <2>2. ASSUME NEW x \in in PROVE x \in In(fs, N, c, c + n)
    <3>1. x \in c .. (c + n) - 1 /\ \E f \in Range(fs) : Covers(f, x) /\ Takes(f, x)
      BY <2>1 DEF EmbedPositions
    <3>2. PICK j \in 1 .. N : Covers(fs[j], x) /\ Takes(fs[j], x)
      BY <1>1, <3>1 DEF Range
    <3> QED  BY <3>1, <3>2 DEF In, Piece
  <2>3. ASSUME NEW x \in In(fs, N, c, c + n) PROVE x \in in
    <3>1. PICK j \in 1 .. N : x \in Piece(fs[j], c, c + n)
      BY DEF In
    <3>2. x \in c .. (c + n) - 1 /\ Covers(fs[j], x) /\ Takes(fs[j], x)
      BY <3>1 DEF Piece
    <3>3. fs[j] \in Range(fs)
      BY <1>1 DEF Range
    <3> QED  BY <2>1, <3>2, <3>3 DEF EmbedPositions
  <2> QED  BY <2>2, <2>3
<1>3. Placed(in, embeds, RowsOf(p)) /\ embeds \in Seq(AllRows(p))
  BY <1>2, GatherIs
<1>4. in \subseteq Int
  BY <1>1 DEF EmbedPositions
<1> HIDE DEF in, embeds
<1>5. /\ IsFiniteSet(in) /\ Cardinality(in) \in Nat /\ Len(embeds) = Cardinality(in)
      /\ \A x \in in : embeds[rank(x)] = RowsOf(p)[x]
  BY <1>3, FS_CardinalityType DEF Placed, Below
<1>6. VisionSize \in Nat \ {0}
  BY MultiModalAssumption
<1>7. vision = [i \in 1 .. VisionSize |->
                  IF i <= Cardinality(in) THEN ExtractDeepstack(embeds[i]) ELSE Zero]
  <2>1. DOMAIN embeds = 1 .. Cardinality(in)
    BY <1>3, <1>5, LenProperties
  <2> DEFINE parts == [i \in 1 .. Cardinality(in) |-> ExtractDeepstack(embeds[i])]
  <2>2. vision = PadOrCrop(parts, VisionSize)
    BY <2>1 DEF ProcessVisionEmbeds
  <2>3. Len(parts) = Cardinality(in)
    BY <1>5
  <2>4. \A i \in 1 .. VisionSize : i <= Cardinality(in) => parts[i] = ExtractDeepstack(embeds[i])
    BY <1>5, <1>6
  <2> HIDE DEF parts
  <2> QED  BY <2>2, <2>3, <2>4 DEF PadOrCrop
<1> HIDE DEF vision
<1>8. ASSUME NEW x \in in, rank(x) <= VisionSize, NEW h \in 0 .. H - 1
      PROVE  /\ vision[rank(x)].embed[h] = Column(EmbedAt(p, x), "embed", h)
             /\ \A d \in 0 .. D - 1 :
                  vision[rank(x)].deepstack[d][h] = Column(EmbedAt(p, x), d, h)
  <2> DEFINE m == Cardinality({y \in in : y < x})
  <2>1. m \in Nat /\ m < Cardinality(in)
    <3>1. {y \in in : y < x} \subseteq in /\ x \notin {y \in in : y < x}
      BY <1>4
    <3>2. /\ IsFiniteSet({y \in in : y < x}) /\ m <= Cardinality(in)
          /\ Cardinality(in) = m => in = {y \in in : y < x}
      BY <1>5, <3>1, FS_Subset
    <3>3. m \in Nat
      BY <3>2, FS_CardinalityType
    <3>4. m # Cardinality(in)
      BY <3>1, <3>2
    <3> HIDE DEF m
    <3> QED  BY <1>5, <3>2, <3>3, <3>4
  <2>2. RowsOf(p)[x] = Feature(EmbedAt(p, x))
    BY <1>4 DEF RowsOf
  <2>3. embeds[rank(x)] = Feature(EmbedAt(p, x))
    BY <1>5, <2>2
  <2>4. rank(x) = m + 1
    OBVIOUS
  <2> HIDE DEF m, rank
  <2>5. rank(x) \in 1 .. VisionSize /\ rank(x) <= Cardinality(in)
    BY <1>5, <1>6, <1>8, <2>1, <2>4
  <2>6. vision[rank(x)] = ExtractDeepstack(Feature(EmbedAt(p, x)))
    BY <1>7, <2>3, <2>5
  <2> QED  BY <2>6, ColumnsAre
<1>9. ASSUME NEW k \in Cardinality(in) + 1 .. VisionSize PROVE vision[k] = Zero
  <2>1. k \in 1 .. VisionSize /\ ~(k <= Cardinality(in))
    BY <1>5, <1>6
  <2> QED  BY <1>7, <2>1
<1> QED  BY <1>8, <1>9 DEF WindowPlaced, in, embeds, vision

(***************************************************************************)
(* A multimodal task is a window of one of the prompts.                    *)
(***************************************************************************)
WindowFormed ==
  task.kind = "multimodal" =>
    /\ task.input.prompt \in Prompts /\ task.input.computed \in Nat
    /\ task.input.scheduled \in Nat \ {0}
    /\ task.input.computed + task.input.scheduled <= task.input.prompt.length
LEMMA WindowsAreFormed == Spec => []WindowFormed
<1>1. Init => WindowFormed
  BY DEF Init, WindowFormed
<1>2. WindowFormed /\ [Next]_task => WindowFormed'
  <2> SUFFICES ASSUME WindowFormed, [Next]_task PROVE WindowFormed'
    OBVIOUS
  <2>1. CASE UNCHANGED task
    BY <2>1 DEF WindowFormed
  <2>2. CASE GatherWindow
    <3>1. PICK p \in Prompts : \E c \in 0 .. p.length - 1 : \E n \in 1 .. p.length - c :
            Take("multimodal", [prompt |-> p, computed |-> c, scheduled |-> n])
      BY <2>2 DEF GatherWindow
    <3>2. PICK c \in 0 .. p.length - 1 : \E n \in 1 .. p.length - c :
            Take("multimodal", [prompt |-> p, computed |-> c, scheduled |-> n])
      BY <3>1
    <3>3. PICK n \in 1 .. p.length - c :
            Take("multimodal", [prompt |-> p, computed |-> c, scheduled |-> n])
      BY <3>2
    <3>4. p.length \in Nat
      BY PromptsAssumption DEF PromptFormed
    <3>5. c \in Nat /\ n \in Nat \ {0} /\ c + n <= p.length
      BY <3>4
    <3>6. task'.input = [prompt |-> p, computed |-> c, scheduled |-> n]
      BY <3>3 DEF Take
    <3> QED  BY <3>5, <3>6 DEF WindowFormed
  <2>3. CASE SampleDrafts \/ RecoverToken \/ RouteToken \/ LaunchThreads
    <3>1. task'.kind \in {"rejection", "recovered", "router", "launch"}
      BY <2>3 DEF SampleDrafts, RecoverToken, RouteToken, LaunchThreads, Take
    <3> QED  BY <3>1 DEF WindowFormed
  <2> QED  BY <2>1, <2>2, <2>3 DEF Next
<1> QED  BY <1>1, <1>2, PTL DEF Spec

(***************************************************************************)
(* Every step hands the session the embeddings its positions call for,     *)
(* whatever the prompts, the batches and the compiled sizes.               *)
(***************************************************************************)
THEOREM EmbeddingsAreRight == Spec => []EmbeddingsPlaced
<1>1. WindowFormed => EmbeddingsPlaced
  BY WindowIsPlaced, PromptsAssumption DEF WindowFormed, EmbeddingsPlaced
<1> QED  BY <1>1, WindowsAreFormed, PTL
-----------------------------------------------------------------------------
(***************************************************************************)
(* Slices of p tokens are apart, and a token is in the slice of its        *)
(* quotient.                                                               *)
(***************************************************************************)
LEMMA SlicesApart ==
  ASSUME NEW p \in Nat \ {0}, NEW v \in Nat, NEW w \in Nat
  PROVE  w * p <= v /\ v < w * p + p <=> w = v \div p
<1> DEFINE q == v \div p
<1>1. q \in Nat /\ q * p <= v /\ v < q * p + p
  OBVIOUS
<1> HIDE DEF q
<1>2. \A a, b \in Nat : a < b => a * p + p <= b * p
  <2> SUFFICES ASSUME NEW a \in Nat, NEW b \in Nat, a < b PROVE a * p + p <= b * p
    OBVIOUS
  <2>1. PICK k \in Nat : b = a + 1 + k
    <3>1. b - a - 1 \in Nat /\ b = a + 1 + (b - a - 1)
      OBVIOUS
    <3> QED  BY <3>1
  <2>2. b * p = (a * p + p) + k * p
    BY <2>1
  <2>3. k * p \in Nat /\ a * p \in Nat
    OBVIOUS
  <2> QED  BY <2>2, <2>3
<1>3. w * p \in Nat /\ q * p \in Nat
  BY <1>1
<1>4. ASSUME w * p <= v, v < w * p + p PROVE w = q
  <2>1. ~(w < q)
    BY <1>1, <1>2, <1>3, <1>4
  <2>2. ~(q < w)
    BY <1>1, <1>2, <1>3, <1>4
  <2> QED  BY <1>1, <2>1, <2>2
<1>5. w = q => w * p <= v /\ v < w * p + p
  BY <1>1
<1> QED  BY <1>4, <1>5 DEF q

(***************************************************************************)
(* TokenRange: every token of the batch is in the slice of one worker.     *)
(***************************************************************************)
LEMMA TokenHasWorker ==
  ASSUME NEW n \in Nat, NEW m \in Nat \ {0}, NEW t \in 0 .. n - 1
  PROVE  \E w \in 0 .. m - 1 :
           \A x \in 0 .. m - 1 : t \in TokenRange(n, m, x) <=> x = w
<1> DEFINE p == CeilDiv(n, m)
           w == t \div p
<1>1. p \in Nat /\ n <= m * p
  <2> DEFINE s == (n + m) - 1
             d == s \div m
  <2>1. s \in Nat /\ d \in Nat /\ s < d * m + m
    OBVIOUS
  <2>2. p = d
    BY DEF CeilDiv
  <2> HIDE DEF d, p
  <2>3. d * m \in Nat /\ n <= d * m
    BY <2>1
  <2>4. d * m = m * d
    BY <2>1
  <2> QED  BY <2>1, <2>2, <2>3, <2>4
<1> HIDE DEF p
<1>2. p # 0
  <2>1. p = 0 => m * p = 0
    BY <1>1
  <2> QED  BY <1>1, <2>1
<1>3. p \in Nat \ {0} /\ t \in Nat
  BY <1>1, <1>2
<1>4. w \in Nat
  BY <1>3
<1> HIDE DEF w
<1>5. \A x \in Nat : x * p <= t /\ t < x * p + p <=> x = w
  BY <1>3, SlicesApart DEF w
<1>6. w \in 0 .. m - 1
  <2>1. w * p <= t /\ w * p \in Nat
    BY <1>3, <1>4, <1>5
  <2>2. SUFFICES ASSUME m <= w PROVE FALSE
    BY <1>4
  <2>3. w - m \in Nat /\ w = m + (w - m)
    BY <1>4, <2>2
  <2>4. \A k \in Nat : (m + k) * p = m * p + k * p /\ k * p \in Nat
    BY <1>3
  <2>5. m * p <= w * p
    BY <1>3, <2>3, <2>4
  <2> QED  BY <1>1, <1>3, <2>1, <2>5
<1>7. ASSUME NEW x \in 0 .. m - 1
      PROVE  t \in TokenRange(n, m, x) <=> x * p <= t /\ t < x * p + p
  <2>1. x * p \in Nat
    BY <1>3
  <2>2. TokenRange(n, m, x) = x * p .. Min2(x * p + p, n) - 1
    BY DEF TokenRange, p
  <2>3. Min2(x * p + p, n) = IF x * p + p <= n THEN x * p + p ELSE n
    BY DEF Min2
  <2> QED  BY <1>3, <2>1, <2>2, <2>3
<1>8. \A x \in 0 .. m - 1 : t \in TokenRange(n, m, x) <=> x = w
  BY <1>5, <1>7
<1> QED  BY <1>6, <1>8

(***************************************************************************)
(* The rows of a launch after each of its workers.                         *)
(***************************************************************************)
RowsAfter(out, n, m, route) ==
  /\ Routed(n, m, route) = out[m]
  /\ \A w \in 1 .. m, t \in 0 .. n - 1 :
       out[w][t] = IF t \in TokenRange(n, m, w - 1) THEN route[t] ELSE out[w - 1][t]

(***************************************************************************)
(* Routed: a worker after the other fills the rows of its slice.           *)
(***************************************************************************)
LEMMA RoutedIs ==
  ASSUME NEW n \in Nat, NEW m \in Nat, NEW route
  PROVE  \E out : RowsAfter(out, n, m, route)
<1> DEFINE Row(w, f) == [t \in 0 .. n - 1 |->
                           IF t \in TokenRange(n, m, w - 1) THEN route[t] ELSE f[t]]
           start == [t \in 0 .. n - 1 |-> <<>>]
           IsOut(f) == f = [w \in 0 .. m |-> IF w = 0 THEN start ELSE Row(w, f[w - 1])]
           V == {route[t] : t \in 0 .. n - 1} \cup {<<>>}
           S == [0 .. n - 1 -> V]
           step == [p \in (1 .. m) \X S |-> Row(p[1], p[2])]
<1>1. \E f : IsOut(f)
  <2>1. \A w \in 1 .. m, f \in S : Row(w, f) \in S
    OBVIOUS
  <2>2. start \in S
    OBVIOUS
  <2> HIDE DEF Row, start, S
  <2>3. step \in Rounds(m, S)
    BY <2>1 DEF Rounds
  <2>4. \A w \in 1 .. m, f \in S : step[<<w, f>>] = Row(w, f)
    OBVIOUS
  <2> HIDE DEF step
  <2>5. PICK f : Trace(f, m, S, start, step)
    BY <2>2, <2>3, LoopExists, Zenon
  <2>6. ASSUME NEW w \in 1 .. m PROVE f[w] = Row(w, f[w - 1])
    <3>1. f[w] = step[<<w, f[w - 1]>>] /\ f[w - 1] \in S
      BY <2>5 DEF Trace
    <3> QED  BY <2>4, <3>1
  <2>7. IsOut(f)
    BY <2>5, <2>6 DEF Trace
  <2> QED  BY <2>7
<1> DEFINE out == CHOOSE f : IsOut(f)
<1>2. IsOut(out)
  <2> HIDE DEF IsOut
  <2> QED  BY <1>1
<1>3. Routed(n, m, route) = out[m]
  BY DEF Routed
<1> HIDE DEF out
<1>4. ASSUME NEW w \in 1 .. m, NEW t \in 0 .. n - 1
      PROVE  out[w][t] = IF t \in TokenRange(n, m, w - 1) THEN route[t] ELSE out[w - 1][t]
  <2>1. out[w] = Row(w, out[w - 1])
    <3>1. w \in 0 .. m /\ w # 0
      OBVIOUS
    <3>2. out[w] = IF w = 0 THEN start ELSE Row(w, out[w - 1])
      <4> HIDE DEF Row, start
      <4> QED  BY <1>2, <3>1
    <3> QED  BY <3>1, <3>2
  <2> QED  BY <2>1
<1> QED  BY <1>3, <1>4 DEF RowsAfter

(***************************************************************************)
(* A launch routes every token of its batch, each by exactly one thread:   *)
(* for every number of tokens and of threads.                              *)
(***************************************************************************)
LEMMA LaunchIsShared ==
  ASSUME NEW i, i.num_tokens \in Nat, i.workers \in Nat \ {0}
  PROVE  LaunchAgrees(i)
<1> DEFINE n == i.num_tokens
           m == i.workers
           route == [t \in 0 .. n - 1 |-> <<t>>]
           Takers(t) == {w \in 0 .. m - 1 : t \in TokenRange(n, m, w)}
<1> HIDE DEF n, m
<1>1. n \in Nat /\ m \in Nat \ {0}
  BY DEF n, m
<1>2. ASSUME NEW t \in 0 .. n - 1
      PROVE  Routed(n, m, route)[t] = <<t>> /\ Cardinality(Takers(t)) = 1
  <2>1. PICK w \in 0 .. m - 1 : \A x \in 0 .. m - 1 : t \in TokenRange(n, m, x) <=> x = w
    BY <1>1, TokenHasWorker
  <2>2. Takers(t) = {w}
    BY <2>1
  <2>3. Cardinality(Takers(t)) = 1
    BY <2>2, FS_Singleton
  <2>4. PICK out : RowsAfter(out, n, m, route)
    <3> HIDE DEF route
    <3>1. m \in Nat
      BY <1>1
    <3> QED  BY <1>1, <3>1, RoutedIs, Zenon
  <2>5. \A x \in 1 .. m : out[x][t] = IF x - 1 = w THEN <<t>> ELSE out[x - 1][t]
    <3> SUFFICES ASSUME NEW x \in 1 .. m
                 PROVE  out[x][t] = IF x - 1 = w THEN <<t>> ELSE out[x - 1][t]
      OBVIOUS
    <3>1. x - 1 \in 0 .. m - 1
      BY <1>1
    <3>2. t \in TokenRange(n, m, x - 1) <=> x - 1 = w
      BY <2>1, <3>1
    <3>3. route[t] = <<t>>
      OBVIOUS
    <3> QED  BY <2>4, <3>2, <3>3 DEF RowsAfter
  <2> DEFINE T == {x \in 0 .. m : w < x => out[x][t] = <<t>>}
  <2>6. 0 \in T
    BY <1>1, <2>1
  <2>7. ASSUME NEW x \in 0 .. m - 1, x \in T PROVE x + 1 \in T
    <3>1. x + 1 \in 1 .. m /\ (x + 1) - 1 = x /\ x + 1 \in 0 .. m
      BY <1>1
    <3>2. out[x + 1][t] = IF x = w THEN <<t>> ELSE out[x][t]
      BY <2>5, <3>1
    <3> QED  BY <1>1, <2>7, <3>1, <3>2
  <2>8. m \in T
    <3> HIDE DEF T
    <3>1. \A x \in 0 .. m : x \in T
      BY <1>1, <2>6, <2>7, UpTo
    <3> QED  BY <1>1, <3>1
  <2>9. out[m][t] = <<t>>
    BY <1>1, <2>8
  <2> QED  BY <2>3, <2>4, <2>9 DEF RowsAfter
<1> QED  BY <1>2 DEF LaunchAgrees, n, m

(***************************************************************************)
(* Every launch is one of the constant's.                                  *)
(***************************************************************************)
LaunchFormed == task.kind = "launch" => task.input \in Launches
LEMMA LaunchesAreFormed == Spec => []LaunchFormed
<1>1. Init => LaunchFormed
  BY DEF Init, LaunchFormed
<1>2. LaunchFormed /\ [Next]_task => LaunchFormed'
  <2> SUFFICES ASSUME LaunchFormed, [Next]_task PROVE LaunchFormed'
    OBVIOUS
  <2>1. CASE UNCHANGED task
    BY <2>1 DEF LaunchFormed
  <2>2. CASE LaunchThreads
    BY <2>2 DEF LaunchThreads, Take, LaunchFormed
  <2>3. CASE SampleDrafts \/ RecoverToken \/ RouteToken \/ GatherWindow
    <3>1. task'.kind \in {"rejection", "recovered", "router", "multimodal"}
      BY <2>3 DEF SampleDrafts, RecoverToken, RouteToken, GatherWindow, Take
    <3> QED  BY <3>1 DEF LaunchFormed
  <2> QED  BY <2>1, <2>2, <2>3 DEF Next
<1> QED  BY <1>1, <1>2, PTL DEF Spec

(***************************************************************************)
(* The half of RouterAgrees about launches: whatever the number of tokens  *)
(* and of threads, every token is routed, by exactly one thread.           *)
(***************************************************************************)
LaunchesAgree == task.kind = "launch" => LaunchAgrees(task.input)
THEOREM LaunchesAreShared == Spec => []LaunchesAgree
<1>1. LaunchFormed => LaunchesAgree
  BY LaunchIsShared, LaunchesAreSized DEF LaunchFormed, LaunchesAgree
<1> QED  BY <1>1, LaunchesAreFormed, PTL
=============================================================================
