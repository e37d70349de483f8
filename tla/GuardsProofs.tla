---------------------------- MODULE GuardsProofs ----------------------------
(***************************************************************************)
(* Theorems about Guards, for any number of keys, any limits and a clock   *)
(* that runs for any time: the limiter and the store answer like those of  *)
(* AccessLimits, and the wait they tell is honest.                         *)
(*                                                                         *)
(* The argument: the times of a key are a suffix of all those granted to   *)
(* it, in order, and what is missing at the front is older than a window.  *)
(* Dropping from the front until the first that is kept therefore leaves   *)
(* exactly the calls of the last window.                                   *)
(***************************************************************************)
EXTENDS GuardsInvariant, FiniteSetTheorems, WellFoundedInduction, TLAPS

-----------------------------------------------------------------------------
(* AccessLimits counts as FiniteSets does.                                 *)
LEMMA SameCount == \A S : Limits!Cardinality(S) = Cardinality(S)
BY DEF Limits!Cardinality, Cardinality, Limits!IsFiniteSet, IsFiniteSet

(* The loop of _prune.                                                     *)

(* A later call is kept longer, and none comes back.                       *)
LEMMA KeptOrder ==
    ASSUME NEW a \in Nat, NEW b \in Nat, NEW t \in Nat, NEW u \in Nat
    PROVE  /\ Kept(a, t) <=> a + window > t
           /\ a <= b /\ Kept(a, t) => Kept(b, t)
           /\ t <= u /\ ~Kept(a, t) => ~Kept(a, u)
BY GuardsAssumption DEF Kept

(* A set of numbers that is not empty has a least one.                     *)
LEMMA Least ==
    ASSUME NEW T \in SUBSET Nat, T # {}
    PROVE  \E k \in T : \A j \in T : k <= j
<1>1. PICK k \in T : \A j \in T : <<j, k>> \notin OpToRel(<, Nat)
  BY WFMin, NatLessThanWellFounded
<1>2. ASSUME NEW j \in T PROVE k <= j
  <2>1. ~(j < k)
    BY <1>1 DEF OpToRel
  <2> QED
    BY <2>1
<1> QED
  BY <1>2

(* The loop ends at the first time that is kept, or with none left.        *)
LEMMA LeftAtFirstKept ==
    ASSUME NEW hits \in Seq(Nat), now \in Nat
    PROVE  /\ Left(hits) \in 0..Len(hits)
           /\ \A i \in 1..Left(hits) : ~Kept(hits[i], now)
           /\ Left(hits) < Len(hits) => Kept(hits[Left(hits) + 1], now)
<1> DEFINE T == {d \in 0..Len(hits) : d < Len(hits) => Kept(hits[d + 1], now)}
<1>1. T \in SUBSET Nat /\ Len(hits) \in T
  OBVIOUS
<1>2. PICK k \in T : \A j \in T : k <= j
  <2> HIDE DEF T
  <2> QED
    BY <1>1, Least
<1>3. ASSUME NEW i \in 1..k PROVE ~Kept(hits[i], now)
  <2>1. i - 1 \in 0..Len(hits) /\ i - 1 < Len(hits) /\ ~(k <= i - 1) /\ i - 1 + 1 = i
    OBVIOUS
  <2>2. i - 1 \notin T
    BY <1>2, <2>1
  <2> QED
    BY <2>1, <2>2
<1>4. k \in 0..Len(hits) /\ (k < Len(hits) => Kept(hits[k + 1], now))
  OBVIOUS
<1> DEFINE P(d) == /\ \A i \in 1..d : ~Kept(hits[i], now)
                   /\ d < Len(hits) => Kept(hits[d + 1], now)
<1>5. k \in 0..Len(hits) /\ P(k)
  BY <1>3, <1>4
<1>6. Left(hits) = CHOOSE d \in 0..Len(hits) : P(d)
  BY DEF Left
<1>7. Left(hits) \in 0..Len(hits) /\ P(Left(hits))
  <2> HIDE DEF P
  <2> QED
    BY <1>5, <1>6
<1> QED
  BY <1>7

(* What is left at the back.                                               *)
LEMMA BackOf ==
    ASSUME NEW s \in Seq(Nat), NEW e \in 0..Len(s)
    PROVE  /\ SubSeq(s, e + 1, Len(s)) \in Seq(Nat)
           /\ Len(SubSeq(s, e + 1, Len(s))) = Len(s) - e
           /\ \A i \in 1..Len(s) - e : SubSeq(s, e + 1, Len(s))[i] = s[e + i]
<1>1. PICK n \in Nat : n = Len(s) /\ e \in 0..n
  OBVIOUS
<1>2. SubSeq(s, e + 1, n) = [i \in 1..(n - (e + 1) + 1) |-> s[(e + 1) + i - 1]]
  BY <1>1
<1>3. n - (e + 1) + 1 = n - e /\ n - e \in Nat
  BY <1>1
<1>4. \A i \in 1..n - e : (e + 1) + i - 1 = e + i /\ e + i \in 1..n
  BY <1>1
<1>5. SubSeq(s, e + 1, n) = [i \in 1..(n - e) |-> s[e + i]]
  BY <1>2, <1>3, <1>4
<1>6. \A i \in 1..n - e : s[e + i] \in Nat
  BY <1>1, <1>4
<1> QED
  BY <1>1, <1>3, <1>5, <1>6

LEMMA HitsType ==
    ASSUME GuardsTypeOK, NEW k
    PROVE  HitsOf(k) \in Seq(Nat)
BY DEF GuardsTypeOK, HitsOf

(* After _prune the limiter remembers exactly the calls of the last window *)
(* among all that it ever granted.                                         *)
LEMMA PrunedIsWindow ==
    ASSUME GuardsInv, NEW k \in Callers
    PROVE  \E d \in 0..Len(granted[k]) :
              /\ IsRest(_prune(k), granted[k], d)
              /\ \A i \in 1..d : ~Kept(granted[k][i], now)
              /\ _prune(k) \in Seq(Nat)
              /\ Len(_prune(k)) <= max_calls
              /\ Limits!InWindow(k) = d + 1..Len(granted[k])
              /\ Cardinality(Limits!InWindow(k)) = Len(_prune(k))
<1>1. PICK g, hits : g = granted[k] /\ hits = HitsOf(k)
  OBVIOUS
<1>2. g \in Seq(Nat) /\ hits \in Seq(Nat) /\ now \in Nat /\ window \in Nat
  BY <1>1, HitsType, GuardsAssumption DEF GuardsInv, GuardsTypeOK
<1>3. InOrder(g) /\ Len(hits) <= max_calls
  BY <1>1 DEF GuardsInv, GrantsFit, HitsFit
<1>4. PICK d \in 0..Len(g) : IsRest(hits, g, d) /\ \A i \in 1..d : ~Kept(g[i], now)
  BY <1>1 DEF GuardsInv, HitsFit
<1>5. PICK e : e = Left(hits)
  OBVIOUS
<1>6. /\ e \in 0..Len(hits)
      /\ \A i \in 1..e : ~Kept(hits[i], now)
      /\ e < Len(hits) => Kept(hits[e + 1], now)
  BY <1>2, <1>5, LeftAtFirstKept
<1>7. PICK rest : rest = SubSeq(hits, e + 1, Len(hits))
  OBVIOUS
<1>8. /\ rest = _prune(k)
      /\ rest \in Seq(Nat) /\ Len(rest) = Len(hits) - e
      /\ \A i \in 1..Len(hits) - e : rest[i] = hits[e + i]
  <2>1. rest = _prune(k)
    BY <1>1, <1>5, <1>7 DEF _prune
  <2>2. /\ rest \in Seq(Nat) /\ Len(rest) = Len(hits) - e
        /\ \A i \in 1..Len(hits) - e : rest[i] = hits[e + i]
    BY <1>2, <1>6, <1>7, BackOf
  <2> QED
    BY <2>1, <2>2
<1>9. PICK c \in 0..Len(g) : c = d + e
  BY <1>2, <1>4, <1>6 DEF IsRest
<1>10. IsRest(rest, g, c)
  <2>1. /\ d \in Nat /\ e \in Nat /\ Len(g) \in Nat /\ Len(hits) = Len(g) - d
        /\ \A i \in 1..Len(hits) : hits[i] = g[d + i]
    BY <1>2, <1>4, <1>6 DEF IsRest
  <2>2. Len(rest) = Len(g) - c
    BY <1>8, <1>9, <2>1
  <2>3. ASSUME NEW i \in 1..Len(rest) PROVE rest[i] = g[c + i]
    <3>1. i \in 1..Len(hits) - e /\ e + i \in 1..Len(hits) /\ d + (e + i) = c + i
      BY <1>6, <1>8, <1>9, <2>1
    <3> QED
      BY <1>8, <2>1, <3>1
  <2> QED
    BY <2>2, <2>3 DEF IsRest
<1>11. ASSUME NEW i \in 1..c PROVE ~Kept(g[i], now)
  <2>1. CASE i <= d
    BY <1>4, <2>1
  <2>2. CASE i > d
    <3>1. i - d \in 1..e /\ i - d \in 1..Len(hits) /\ d + (i - d) = i
      BY <1>2, <1>6, <1>9, <2>2
    <3>2. hits[i - d] = g[i]
      BY <1>4, <3>1 DEF IsRest
    <3> QED
      BY <1>6, <3>1, <3>2
  <2> QED
    BY <2>1, <2>2
<1>12. ASSUME NEW i \in c + 1..Len(g) PROVE Kept(g[i], now)
  <2>1. e < Len(hits) /\ e + 1 \in 1..Len(hits)
    BY <1>2, <1>4, <1>6, <1>9 DEF IsRest
  <2>2. hits[e + 1] = g[c + 1]
    <3>1. d + (e + 1) = c + 1
      BY <1>2, <1>6, <1>9
    <3>2. hits[e + 1] = g[d + (e + 1)]
      BY <1>4, <2>1 DEF IsRest
    <3> QED
      BY <3>1, <3>2
  <2>3. c + 1 \in 1..Len(g) /\ i \in 1..Len(g) /\ c + 1 <= i
    OBVIOUS
  <2>4. g[c + 1] <= g[i] /\ g[c + 1] \in Nat /\ g[i] \in Nat
    BY <1>2, <1>3, <2>3 DEF InOrder
  <2>5. Kept(g[c + 1], now)
    BY <1>6, <2>1, <2>2
  <2> QED
    BY <1>2, <2>4, <2>5, KeptOrder
<1>13. Limits!InWindow(k) = c + 1..Len(g)
  <2>1. ASSUME NEW i \in 1..Len(g) PROVE g[i] + window > now <=> i \in c + 1..Len(g)
    <3>1. g[i] \in Nat
      BY <1>2
    <3>2. i \in 1..c \/ i \in c + 1..Len(g)
      OBVIOUS
    <3>3. Kept(g[i], now) <=> g[i] + window > now
      BY <1>2, <3>1, KeptOrder
    <3>4. i \in 1..c => ~(i \in c + 1..Len(g))
      OBVIOUS
    <3> QED
      BY <1>11, <1>12, <3>2, <3>3, <3>4
  <2>2. DOMAIN g = 1..Len(g)
    BY <1>2
  <2> QED
    BY <1>1, <2>1, <2>2 DEF Limits!InWindow
<1>14. Cardinality(c + 1..Len(g)) = Len(g) - c
  <2>1. PICK a, b : a = c + 1 /\ b = Len(g)
    OBVIOUS
  <2>2. a \in Int /\ b \in Int
    BY <1>2, <2>1
  <2>3. Cardinality(a..b) = IF a > b THEN 0 ELSE b - a + 1
    BY <2>2, FS_Interval
  <2>4. (IF a > b THEN 0 ELSE b - a + 1) = Len(g) - c
    BY <1>2, <2>1
  <2> QED
    BY <2>1, <2>3, <2>4
<1>15. Len(rest) <= max_calls /\ Len(rest) = Len(g) - c
  <2>1. PICK m, n \in Nat : m = Len(hits) /\ n = max_calls
    BY <1>2, GuardsAssumption
  <2>2. Len(rest) = m - e /\ e \in Nat /\ m <= n
    BY <1>3, <1>6, <1>8, <2>1
  <2>3. Len(rest) <= n
    BY <2>1, <2>2
  <2>4. Len(rest) = Len(g) - c
    BY <1>10 DEF IsRest
  <2> QED
    BY <2>1, <2>3, <2>4
<1> QED
  BY <1>1, <1>8, <1>10, <1>11, <1>13, <1>14, <1>15
-----------------------------------------------------------------------------
(* What holds of a key as long as it is left alone, and time goes by.      *)

(* A key whose calls of the last window are still remembered.              *)
LEMMA StillFits ==
    ASSUME GuardsTypeOK, GuardsTypeOK', NEW k \in Callers,
           HitsFit(k), GrantsFit(k), FreeFits(k),
           now <= now', HitsOf(k)' = HitsOf(k), granted'[k] = granted[k],
           free'[k] = free[k]
    PROVE  HitsFit(k)' /\ GrantsFit(k)' /\ FreeFits(k)'
<1>1. PICK g, hits, t : g = granted[k] /\ hits = HitsOf(k) /\ t = now'
  OBVIOUS
<1>2. /\ g \in Seq(Nat) /\ now \in Nat /\ t \in Nat /\ now <= t /\ window \in Nat
      /\ free[k] \in Nat /\ max_calls \in Nat \ {0} /\ Ticks \in Nat
  BY <1>1, GuardsAssumption DEF GuardsTypeOK
<1>3. HitsFit(k)'
  <2>1. PICK d \in 0..Len(g) : IsRest(hits, g, d) /\ \A i \in 1..d : ~Kept(g[i], now)
    BY <1>1 DEF HitsFit
  <2>2. ASSUME NEW i \in 1..d PROVE ~Kept(g[i], t)
    <3>1. g[i] \in Nat /\ ~Kept(g[i], now)
      BY <1>2, <2>1
    <3> QED
      BY <1>2, <3>1, KeptOrder
  <2> QED
    BY <1>1, <2>1, <2>2 DEF HitsFit
<1>4. GrantsFit(k)'
  <2>1. InOrder(g) /\ \A i \in DOMAIN g : g[i] <= now /\ g[i] \in Nat
    BY <1>1, <1>2 DEF GrantsFit
  <2>2. \A i \in DOMAIN g : g[i] <= t
    BY <1>2, <2>1
  <2> QED
    BY <1>1, <2>1, <2>2 DEF GrantsFit
<1>5. FreeFits(k)'
  <2> SUFFICES ASSUME free[k] # 0 PROVE FreeFits(k)'
    BY DEF FreeFits
  <2>1. PICK n, ends : n = Len(g) /\ ends = g[n - max_calls + 1] + window
    OBVIOUS
  <2>2. IF n < max_calls THEN free[k] <= now
        ELSE ends <= free[k] /\ (free[k] <= now \/ free[k] <= ends + Ticks)
    BY <1>1, <2>1 DEF FreeFits
  <2>3. IF n < max_calls THEN free[k] <= t
        ELSE ends <= free[k] /\ (free[k] <= t \/ free[k] <= ends + Ticks)
    BY <1>2, <2>2
  <2> QED
    BY <1>1, <2>1, <2>3 DEF FreeFits
<1> QED
  BY <1>3, <1>4, <1>5

(* Pruning a key, or all of them, keeps what is remembered of it.          *)
LEMMA PrunedFits ==
    ASSUME GuardsInv, NEW k \in Callers, now' = now, granted'[k] = granted[k],
           HitsOf(k)' = _prune(k)
    PROVE  HitsFit(k)' /\ GrantsFit(k)'
<1>1. PICK d \in 0..Len(granted[k]) :
          /\ IsRest(_prune(k), granted[k], d)
          /\ \A i \in 1..d : ~Kept(granted[k][i], now)
          /\ Len(_prune(k)) <= max_calls
  BY PrunedIsWindow
<1>2. HitsFit(k)'
  BY <1>1 DEF HitsFit
<1>3. GrantsFit(k)'
  BY DEF GuardsInv, GrantsFit
<1> QED
  BY <1>2, <1>3

-----------------------------------------------------------------------------
(* The limiter.                                                            *)

(* allow keeps the invariant and grants exactly the calls AccessLimits     *)
(* grants.                                                                 *)
LEMMA AllowStep ==
    ASSUME GuardsInv, NEW k \in Callers, allow(k)
    PROVE  GuardsInv' /\ Limits!Ask(k)
<1>1. PICK g, hits : g = granted[k] /\ hits = _prune(k)
  OBVIOUS
<1> DEFINE ok == Len(hits) < max_calls
<1>2. /\ now' = now /\ _seen' = _seen /\ used' = used
      /\ _hits' = Storing(_hits, k, IF ok THEN Append(hits, now) ELSE hits)
  BY <1>1 DEF allow
<1>3. /\ granted' = [granted EXCEPT ![k] = IF ok THEN Append(g, now) ELSE g]
      /\ free' = [free EXCEPT ![k] = IF ok THEN 0 ELSE free[k]]
  BY <1>1 DEF allow
<1>4. /\ GuardsTypeOK /\ g \in Seq(Nat) /\ now \in Nat /\ max_calls \in Nat
      /\ window \in Nat \ {0}
  BY <1>1, GuardsAssumption DEF GuardsInv, GuardsTypeOK
<1>5. PICK d \in 0..Len(g) :
          /\ IsRest(hits, g, d)
          /\ \A i \in 1..d : ~Kept(g[i], now)
          /\ hits \in Seq(Nat) /\ Len(hits) <= max_calls
          /\ Cardinality(Limits!InWindow(k)) = Len(hits)
  BY <1>1, PrunedIsWindow
<1>6. Limits!Ask(k)
  <2>1. Limits!Cardinality(Limits!InWindow(k)) = Len(_prune(k))
    BY <1>1, <1>5, SameCount
  <2> QED
    BY <2>1 DEF allow, Limits!Ask
<1>7. Append(hits, now) \in Seq(Nat) /\ Append(g, now) \in Seq(Nat)
  BY <1>4, <1>5
<1>8. GuardsTypeOK'
  <2>1. granted' \in [Callers -> Seq(Nat)] /\ free' \in [Callers -> Nat]
    BY <1>3, <1>4, <1>7 DEF GuardsTypeOK
  <2>2. DOMAIN _hits' \subseteq Callers /\ \A j \in DOMAIN _hits' : _hits'[j] \in Seq(Nat)
    BY <1>2, <1>4, <1>5, <1>7 DEF GuardsTypeOK, Storing
  <2> QED
    BY <1>2, <1>4, <2>1, <2>2 DEF GuardsTypeOK
<1>9. ASSUME NEW j \in Callers, j # k PROVE HitsFit(j)' /\ GrantsFit(j)' /\ FreeFits(j)'
  <2>1. HitsOf(j)' = HitsOf(j)
    BY <1>2, <1>9 DEF HitsOf, Storing
  <2>2. granted'[j] = granted[j] /\ free'[j] = free[j] /\ now <= now'
    BY <1>2, <1>3, <1>4, <1>9 DEF GuardsTypeOK
  <2> QED
    BY <1>4, <1>8, <2>1, <2>2, StillFits DEF GuardsInv
<1>10. ASSUME ~ok PROVE HitsFit(k)' /\ GrantsFit(k)' /\ FreeFits(k)'
  <2>1. HitsOf(k)' = hits /\ granted'[k] = g /\ free'[k] = free[k]
    BY <1>1, <1>2, <1>3, <1>4, <1>10 DEF HitsOf, Storing, GuardsTypeOK
  <2>2. HitsFit(k)' /\ GrantsFit(k)'
    BY <1>1, <1>2, <2>1, PrunedFits
  <2>3. FreeFits(k)'
    <3>1. FreeFits(k)
      BY DEF GuardsInv
    <3> QED
      BY <1>1, <1>2, <2>1, <3>1 DEF FreeFits
  <2> QED
    BY <2>2, <2>3
<1>11. ASSUME ok PROVE HitsFit(k)' /\ GrantsFit(k)' /\ FreeFits(k)'
  <2>1. PICK new, newHits : new = Append(g, now) /\ newHits = Append(hits, now)
    OBVIOUS
  <2>2. HitsOf(k)' = newHits /\ granted'[k] = new /\ free'[k] = 0
    BY <1>2, <1>3, <1>4, <1>11, <2>1 DEF HitsOf, Storing, GuardsTypeOK
  <2>3. PICK n \in Nat : n = Len(g)
    BY <1>4
  <2>4. /\ Len(new) = n + 1 /\ new[n + 1] = now /\ \A i \in 1..n : new[i] = g[i]
        /\ DOMAIN new = 1..n + 1
    BY <1>4, <2>1, <2>3
  <2>5. PICK m \in Nat : m = Len(hits)
    BY <1>5
  <2>6. /\ Len(newHits) = m + 1 /\ newHits[m + 1] = now
        /\ \A i \in 1..m : newHits[i] = hits[i]
    BY <1>5, <2>1, <2>5
  <2>7. d \in 0..n /\ m = n - d /\ \A i \in 1..m : hits[i] = g[d + i]
    BY <1>5, <2>3, <2>5 DEF IsRest
  <2>8. ASSUME NEW i \in 1..m + 1 PROVE newHits[i] = new[d + i]
    <3>1. CASE i = m + 1
      BY <2>4, <2>6, <2>7, <3>1
    <3>2. CASE i \in 1..m
      <4>1. d + i \in 1..n
        BY <2>7, <3>2
      <4> QED
        BY <2>4, <2>6, <2>7, <3>2, <4>1
    <3> QED
      BY <3>1, <3>2
  <2>9. HitsFit(k)'
    <3>1. d \in 0..Len(new) /\ Len(newHits) = Len(new) - d
      BY <2>4, <2>6, <2>7
    <3>2. IsRest(newHits, new, d)
      BY <2>6, <2>8, <3>1 DEF IsRest
    <3>3. \A i \in 1..d : i \in 1..n
      BY <2>7
    <3>4. \A i \in 1..d : ~Kept(new[i], now)
      BY <1>5, <2>4, <3>3
    <3>5. Len(newHits) <= max_calls
      <4>1. m < max_calls
        BY <1>11, <2>5
      <4> QED
        BY <1>4, <2>6, <4>1
    <3> QED
      BY <1>2, <2>2, <3>1, <3>2, <3>4, <3>5 DEF HitsFit
  <2>10. GrantsFit(k)'
    <3>1. InOrder(g) /\ \A i \in 1..n : g[i] <= now
      BY <1>1, <1>4, <2>3 DEF GuardsInv, GrantsFit
    <3>2. \A i \in 1..n + 1 : new[i] <= now
      BY <1>4, <2>4, <3>1
    <3>3. ASSUME NEW i \in 1..n + 1, NEW j \in 1..n + 1, i <= j PROVE new[i] <= new[j]
      <4>1. CASE j = n + 1
        BY <2>4, <3>2, <4>1
      <4>2. CASE j # n + 1
        <5>1. i \in 1..n /\ j \in 1..n
          BY <3>3, <4>2
        <5>2. g[i] <= g[j]
          <6>1. i \in DOMAIN g /\ j \in DOMAIN g
            BY <1>4, <2>3, <5>1
          <6> QED
            BY <3>1, <3>3, <6>1 DEF InOrder
        <5> QED
          BY <2>4, <3>3, <5>2, <5>1
      <4> QED
        BY <4>1, <4>2
    <3> QED
      BY <1>2, <2>2, <2>4, <3>2, <3>3 DEF GrantsFit, InOrder
  <2>11. FreeFits(k)'
    BY <2>2 DEF FreeFits
  <2> QED
    BY <2>9, <2>10, <2>11
<1>12. \A j \in Nonces : SeenFits(j)'
  BY <1>2 DEF GuardsInv, SeenFits
<1> QED
  BY <1>6, <1>8, <1>9, <1>10, <1>11, <1>12 DEF GuardsInv
(* The seconds told last longer than the ticks, by a second at most.       *)
LEMMA SecondsSpan ==
    ASSUME NEW t \in Nat
    PROVE  \E y \in Nat : y = Ticks * Seconds(t) /\ t < y /\ y <= t + Ticks
<1>1. PICK q \in Nat : /\ q = t \div Ticks
                       /\ Ticks * q <= t /\ t < Ticks * q + Ticks
  BY GuardsAssumption
<1>2. Max({1, q + 1}) = q + 1
  <2>1. \E x \in {1, q + 1} : \A y \in {1, q + 1} : x >= y
    OBVIOUS
  <2> QED
    BY <2>1 DEF Max
<1>3. Seconds(t) = q + 1
  BY <1>1, <1>2 DEF Seconds
<1>4. Ticks * (q + 1) = Ticks * q + Ticks /\ Ticks * q \in Nat
  BY GuardsAssumption
<1>5. PICK y \in Nat : y = Ticks * q + Ticks
  BY <1>4, GuardsAssumption
<1>6. t < y /\ y <= t + Ticks /\ y = Ticks * Seconds(t)
  BY <1>1, <1>3, <1>4, <1>5, GuardsAssumption
<1> QED
  BY <1>5, <1>6

(* The wait told by retry_after ends after the oldest call of a full       *)
(* window has left it.                                                     *)
LEMMA RetryFree ==
    ASSUME GuardsInv, NEW k \in Callers, retry_after(k)
    PROVE  FreeFits(k)'
<1>1. PICK g, hits : g = granted[k] /\ hits = _prune(k)
  OBVIOUS
<1> DEFINE wait == IF Len(hits) < max_calls THEN 0 ELSE Seconds(hits[1] + window - now)
<1>2. now' = now /\ granted' = granted /\ free'[k] = now + Ticks * wait
  BY <1>1 DEF retry_after, GuardsInv, GuardsTypeOK
<1>3. PICK d \in 0..Len(g) :
          /\ IsRest(hits, g, d)
          /\ \A i \in 1..d : ~Kept(g[i], now)
          /\ Len(hits) <= max_calls
          /\ Limits!InWindow(k) = d + 1..Len(g)
  BY <1>1, PrunedIsWindow
<1>4. /\ g \in Seq(Nat) /\ now \in Nat /\ max_calls \in Nat \ {0} /\ window \in Nat
      /\ Ticks \in Nat \ {0}
  BY <1>1, GuardsAssumption DEF GuardsInv, GuardsTypeOK
<1>5. PICK n \in Nat : n = Len(g) /\ d \in 0..n /\ Len(hits) = n - d
  BY <1>3, <1>4 DEF IsRest
<1>6. PICK f, ends : f = free'[k] /\ ends = g[n - max_calls + 1] + window
  OBVIOUS
<1>7. n >= max_calls => n - max_calls + 1 \in 1..n /\ g[n - max_calls + 1] \in Nat
  BY <1>4, <1>5
<1>8. IF n < max_calls THEN f <= now
      ELSE ends <= f /\ (f <= now \/ f <= ends + Ticks)
  <2>1. CASE Len(hits) < max_calls
    <3>1. f = now
      BY <1>2, <1>4, <1>6, <2>1
    <3>2. CASE n < max_calls
      BY <1>4, <3>1, <3>2
    <3>3. CASE n >= max_calls
      <4>1. n - max_calls + 1 \in 1..d
        BY <1>4, <1>5, <2>1, <3>3
      <4>2. g[n - max_calls + 1] <= now - window
        BY <1>3, <1>4, <1>7, <3>3, <4>1 DEF Kept
      <4>3. ends <= f
        BY <1>4, <1>6, <1>7, <3>1, <3>3, <4>2
      <4> QED
        BY <1>4, <3>1, <3>3, <4>3
    <3> QED
      BY <1>4, <3>2, <3>3
  <2>2. CASE ~(Len(hits) < max_calls)
    <3>1. d = n - max_calls /\ n >= max_calls /\ 1 \in 1..Len(hits) /\ d + 1 \in d + 1..Len(g)
      <4>1. PICK m : m = max_calls
        OBVIOUS
      <4>2. m \in Nat \ {0} /\ n - d <= m /\ ~(n - d < m)
        BY <1>3, <1>4, <1>5, <2>2, <4>1
      <4>3. d = n - m /\ n >= m /\ 1 \in 1..n - d /\ d + 1 \in d + 1..n
        BY <1>5, <4>2
      <4> QED
        BY <1>5, <4>1, <4>3
    <3>2. hits[1] = g[n - max_calls + 1]
      <4>1. hits[1] = g[d + 1]
        BY <1>3, <3>1 DEF IsRest
      <4> QED
        BY <3>1, <4>1
    <3>3. g[d + 1] + window > now
      BY <1>1, <1>3, <3>1 DEF Limits!InWindow
    <3>4. PICK x : x = ends - now
      OBVIOUS
    <3>5. ends \in Nat /\ x \in Nat /\ hits[1] + window - now = x
      <4>1. PICK a \in Nat : a = hits[1]
        BY <1>7, <3>1, <3>2
      <4>2. d + 1 = n - max_calls + 1
        BY <3>1
      <4>3. ends = a + window /\ a + window > now
        BY <1>6, <3>2, <3>3, <4>1, <4>2
      <4>4. PICK b, c \in Nat : b = now /\ c = window
        BY <1>4
      <4>5. ends = a + c /\ x = a + c - b /\ a + c > b
        BY <3>4, <4>3, <4>4
      <4>6. ends \in Nat /\ x \in Nat
        BY <4>5
      <4> QED
        BY <4>1, <4>4, <4>5, <4>6
    <3>6. PICK y \in Nat : y = Ticks * Seconds(x) /\ x < y /\ y <= x + Ticks
      BY <3>5, SecondsSpan
    <3>7. f = now + y
      BY <1>2, <1>6, <2>2, <3>5, <3>6
    <3>8. ends <= f /\ f <= ends + Ticks
      BY <1>4, <3>4, <3>5, <3>6, <3>7
    <3> QED
      BY <1>4, <1>5, <3>1, <3>8
  <2> QED
    BY <2>1, <2>2
<1> QED
  BY <1>1, <1>2, <1>5, <1>6, <1>8 DEF FreeFits

LEMMA RetryStep ==
    ASSUME GuardsInv, NEW k \in Callers, retry_after(k)
    PROVE  GuardsInv' /\ UNCHANGED <<now, granted, used, reply>>
<1>1. PICK hits : hits = _prune(k)
  OBVIOUS
<1> DEFINE wait == IF Len(hits) < max_calls THEN 0 ELSE Seconds(hits[1] + window - now)
<1>2. /\ _hits' = Storing(_hits, k, hits) /\ UNCHANGED <<now, _seen, granted, used, reply>>
      /\ free' = [free EXCEPT ![k] = now + Ticks * wait]
  BY <1>1 DEF retry_after
<1>3. GuardsTypeOK /\ hits \in Seq(Nat) /\ now \in Nat
  BY <1>1, PrunedIsWindow DEF GuardsInv, GuardsTypeOK
<1>4. now + Ticks * wait \in Nat
  <2>1. CASE Len(hits) < max_calls
    BY <1>3, <2>1, GuardsAssumption
  <2>2. CASE ~(Len(hits) < max_calls)
    <3>1. PICK d \in 0..Len(granted[k]) :
              /\ IsRest(hits, granted[k], d)
              /\ Limits!InWindow(k) = d + 1..Len(granted[k])
      BY <1>1, PrunedIsWindow
    <3>2. granted[k] \in Seq(Nat) /\ Len(granted[k]) \in Nat /\ Len(hits) \in Nat
      BY <1>3 DEF GuardsTypeOK
    <3>3. 1 \in 1..Len(hits) /\ d + 1 \in d + 1..Len(granted[k])
      BY <2>2, <3>1, <3>2, GuardsAssumption DEF IsRest
    <3>4. hits[1] = granted[k][d + 1] /\ granted[k][d + 1] + window > now
      BY <3>1, <3>3 DEF IsRest, Limits!InWindow
    <3>5. PICK x : x = hits[1] + window - now
      OBVIOUS
    <3>6. x \in Nat
      <4>1. PICK a : a = granted[k][d + 1]
        OBVIOUS
      <4>2. a \in Nat /\ window \in Nat
        BY <3>2, <3>3, <4>1, GuardsAssumption
      <4>3. x = a + window - now /\ a + window > now
        BY <3>4, <3>5, <4>1
      <4> QED
        BY <1>3, <4>2, <4>3
    <3>7. Ticks * Seconds(x) \in Nat
      BY <3>6, SecondsSpan
    <3> QED
      BY <1>3, <2>2, <3>5, <3>7
  <2> QED
    BY <2>1, <2>2
<1>5. GuardsTypeOK'
  <2>1. DOMAIN _hits' \subseteq Callers /\ \A j \in DOMAIN _hits' : _hits'[j] \in Seq(Nat)
    BY <1>2, <1>3 DEF GuardsTypeOK, Storing
  <2>2. free' \in [Callers -> Nat]
    <3> HIDE DEF wait
    <3> QED
      BY <1>2, <1>3, <1>4 DEF GuardsTypeOK
  <2> QED
    BY <1>2, <1>3, <2>1, <2>2 DEF GuardsTypeOK
<1>6. ASSUME NEW j \in Callers, j # k PROVE HitsFit(j)' /\ GrantsFit(j)' /\ FreeFits(j)'
  <2>1. HitsOf(j)' = HitsOf(j)
    BY <1>2, <1>6 DEF HitsOf, Storing
  <2>2. granted'[j] = granted[j] /\ free'[j] = free[j] /\ now <= now'
    BY <1>2, <1>3, <1>6 DEF GuardsTypeOK
  <2> QED
    BY <1>3, <1>5, <2>1, <2>2, StillFits DEF GuardsInv
<1>7. HitsFit(k)' /\ GrantsFit(k)' /\ FreeFits(k)'
  <2>1. HitsOf(k)' = _prune(k)
    BY <1>1, <1>2 DEF HitsOf, Storing
  <2> QED
    BY <1>2, <2>1, PrunedFits, RetryFree
<1>8. \A j \in Nonces : SeenFits(j)'
  BY <1>2 DEF GuardsInv, SeenFits
<1> QED
  BY <1>2, <1>5, <1>6, <1>7, <1>8 DEF GuardsInv

LEMMA ResetStep ==
    ASSUME GuardsInv, NEW k \in Callers, reset(k)
    PROVE  GuardsInv' /\ Limits!Reset(k)
<1>1. /\ _hits' = Forgetting(_hits, {k}) /\ UNCHANGED <<now, _seen, used>>
      /\ granted' = [granted EXCEPT ![k] = <<>>]
      /\ free' = [free EXCEPT ![k] = 0]
  BY DEF reset
<1>2. GuardsTypeOK /\ now \in Nat
  BY DEF GuardsInv, GuardsTypeOK
<1>3. GuardsTypeOK'
  <2>1. granted' \in [Callers -> Seq(Nat)] /\ free' \in [Callers -> Nat]
    BY <1>1, <1>2 DEF GuardsTypeOK
  <2>2. DOMAIN _hits' \subseteq Callers /\ \A j \in DOMAIN _hits' : _hits'[j] \in Seq(Nat)
    BY <1>1, <1>2 DEF GuardsTypeOK, Forgetting
  <2> QED
    BY <1>1, <1>2, <2>1, <2>2 DEF GuardsTypeOK
<1>4. ASSUME NEW j \in Callers, j # k PROVE HitsFit(j)' /\ GrantsFit(j)' /\ FreeFits(j)'
  <2>1. HitsOf(j)' = HitsOf(j)
    BY <1>1, <1>4 DEF HitsOf, Forgetting
  <2>2. granted'[j] = granted[j] /\ free'[j] = free[j] /\ now <= now'
    BY <1>1, <1>2, <1>4 DEF GuardsTypeOK
  <2> QED
    BY <1>2, <1>3, <2>1, <2>2, StillFits DEF GuardsInv
<1>5. HitsFit(k)' /\ GrantsFit(k)' /\ FreeFits(k)'
  <2>1. HitsOf(k)' = <<>> /\ granted'[k] = <<>> /\ free'[k] = 0
    BY <1>1, <1>2 DEF HitsOf, Forgetting, GuardsTypeOK
  <2>2. HitsFit(k)'
    BY <1>1, <2>1, GuardsAssumption DEF HitsFit, IsRest
  <2> QED
    BY <2>1, <2>2 DEF GrantsFit, FreeFits, InOrder
<1>6. \A j \in Nonces : SeenFits(j)'
  BY <1>1 DEF GuardsInv, SeenFits
<1>7. Limits!Reset(k)
  BY DEF reset, Limits!Reset, NoReply, Limits!NoReply
<1> QED
  BY <1>3, <1>4, <1>5, <1>6, <1>7 DEF GuardsInv

LEMMA SweepStep ==
    ASSUME GuardsInv, sweep
    PROVE  GuardsInv' /\ UNCHANGED <<now, granted, used, reply>>
<1>1. /\ _hits' = [k \in {n \in DOMAIN _hits : _prune(n) # <<>>} |-> _prune(k)]
      /\ UNCHANGED <<now, _seen, granted, used, free, reply>>
  BY DEF sweep
<1>2. GuardsTypeOK /\ now \in Nat
  BY DEF GuardsInv, GuardsTypeOK
<1>3. \A k \in Callers : _prune(k) \in Seq(Nat)
  BY PrunedIsWindow
<1>4. GuardsTypeOK'
  <2>1. DOMAIN _hits' \subseteq Callers /\ \A j \in DOMAIN _hits' : _hits'[j] \in Seq(Nat)
    BY <1>1, <1>2, <1>3 DEF GuardsTypeOK
  <2> QED
    BY <1>1, <1>2, <2>1 DEF GuardsTypeOK
<1>5. ASSUME NEW k \in Callers PROVE HitsFit(k)' /\ GrantsFit(k)' /\ FreeFits(k)'
  <2>1. granted'[k] = granted[k] /\ free'[k] = free[k] /\ now <= now' /\ now' = now
    BY <1>1, <1>2
  <2>2. CASE k \notin DOMAIN _hits
    <3>1. HitsOf(k)' = HitsOf(k)
      BY <1>1, <2>2 DEF HitsOf
    <3> QED
      BY <1>2, <1>4, <2>1, <3>1, StillFits DEF GuardsInv
  <2>3. CASE k \in DOMAIN _hits
    <3>1. HitsOf(k)' = _prune(k)
      BY <1>1, <2>3 DEF HitsOf
    <3>2. FreeFits(k)
      BY DEF GuardsInv
    <3>3. FreeFits(k)'
      BY <2>1, <3>2 DEF FreeFits
    <3> QED
      BY <2>1, <3>1, <3>3, PrunedFits
  <2> QED
    BY <2>2, <2>3
<1>6. \A j \in Nonces : SeenFits(j)'
  BY <1>1 DEF GuardsInv, SeenFits
<1> QED
  BY <1>1, <1>4, <1>5, <1>6 DEF GuardsInv
-----------------------------------------------------------------------------
(* The store.                                                              *)

(* consume accepts exactly the values AccessLimits accepts.                *)
LEMMA ConsumeStep ==
    ASSUME GuardsInv, NEW k \in Nonces, consume(k)
    PROVE  GuardsInv' /\ Limits!Present(k)
<1>1. PICK left : left = _sweep
  OBVIOUS
<1>2. /\ _seen' = IF k \notin DOMAIN left THEN Storing(left, k, now) ELSE left
      /\ used' = [used EXCEPT ![k] = IF k \notin DOMAIN left THEN now ELSE used[k]]
      /\ UNCHANGED <<now, _hits, granted, free>>
  BY <1>1 DEF consume
<1>3. GuardsTypeOK /\ now \in Nat \ {0} /\ used \in [Nonces -> Nat] /\ ttl \in Nat
  BY GuardsAssumption DEF GuardsInv, GuardsTypeOK
<1>4. /\ DOMAIN left = {j \in DOMAIN _seen : ~(_seen[j] <= now - ttl)}
      /\ \A j \in DOMAIN left : left[j] = _seen[j]
  BY <1>1 DEF _sweep, Forgetting
<1>5. ASSUME NEW j \in Nonces
      PROVE  IF j \in DOMAIN left THEN left[j] = used[j] /\ used[j] # 0 /\ ~(used[j] + ttl <= now)
             ELSE used[j] = 0 \/ used[j] + ttl <= now
  <2>1. SeenFits(j) /\ used[j] \in Nat
    BY <1>3 DEF GuardsInv
  <2>2. CASE j \in DOMAIN _seen
    <3>1. _seen[j] = used[j] /\ used[j] # 0
      BY <2>1, <2>2 DEF SeenFits
    <3>2. used[j] <= now - ttl <=> used[j] + ttl <= now
      BY <1>3, <2>1
    <3> QED
      BY <1>4, <2>2, <3>1, <3>2
  <2>3. CASE j \notin DOMAIN _seen
    BY <1>4, <2>1, <2>3 DEF SeenFits
  <2> QED
    BY <2>2, <2>3
<1>6. Limits!Present(k)
  <2>1. (k \notin DOMAIN _sweep) <=> (used[k] = 0 \/ used[k] + ttl <= now)
    BY <1>1, <1>5
  <2>2. CASE k \notin DOMAIN _sweep
    BY <2>1, <2>2 DEF consume, Limits!Present
  <2>3. CASE k \in DOMAIN _sweep
    BY <2>1, <2>3 DEF consume, Limits!Present
  <2> QED
    BY <2>2, <2>3
<1>7. GuardsTypeOK'
  <2>1. DOMAIN _seen' \subseteq Nonces
    BY <1>2, <1>3, <1>4 DEF GuardsTypeOK, Storing
  <2>2. used' \in [Nonces -> Nat]
    BY <1>2, <1>3
  <2> QED
    BY <1>2, <1>3, <2>1, <2>2 DEF GuardsTypeOK
<1>8. ASSUME NEW j \in Callers PROVE HitsFit(j)' /\ GrantsFit(j)' /\ FreeFits(j)'
  <2>1. HitsOf(j)' = HitsOf(j) /\ now <= now'
    BY <1>2, <1>3 DEF HitsOf
  <2> QED
    BY <1>2, <1>3, <1>7, <2>1, StillFits DEF GuardsInv
<1>9. ASSUME NEW j \in Nonces PROVE SeenFits(j)'
  <2>1. CASE k \in DOMAIN left
    BY <1>2, <1>3, <1>5, <2>1 DEF SeenFits
  <2>2. CASE k \notin DOMAIN left /\ j = k
    BY <1>2, <1>3, <2>2 DEF SeenFits, Storing
  <2>3. CASE k \notin DOMAIN left /\ j # k
    <3>1. used'[j] = used[j] /\ (j \in DOMAIN _seen' <=> j \in DOMAIN left)
      BY <1>2, <1>3, <2>3 DEF Storing
    <3>2. j \in DOMAIN left => _seen'[j] = left[j]
      BY <1>2, <2>3 DEF Storing
    <3> QED
      BY <1>2, <1>5, <3>1, <3>2 DEF SeenFits
  <2> QED
    BY <2>1, <2>2, <2>3
<1> QED
  BY <1>6, <1>7, <1>8, <1>9 DEF GuardsInv

LEMMA TickStep ==
    ASSUME GuardsInv, Tick
    PROVE  GuardsInv' /\ Limits!Later
<1>1. now' = now + 1 /\ UNCHANGED <<_hits, _seen, granted, used, free>>
  BY DEF Tick
<1>2. GuardsTypeOK /\ now \in Nat \ {0} /\ now + 1 \in Nat \ {0} /\ now <= now'
  BY <1>1 DEF GuardsInv, GuardsTypeOK
<1>3. GuardsTypeOK'
  BY <1>1, <1>2 DEF GuardsTypeOK
<1>4. ASSUME NEW j \in Callers PROVE HitsFit(j)' /\ GrantsFit(j)' /\ FreeFits(j)'
  <2>1. HitsOf(j)' = HitsOf(j)
    BY <1>1 DEF HitsOf
  <2> QED
    BY <1>1, <1>2, <1>3, <2>1, StillFits DEF GuardsInv
<1>5. ASSUME NEW j \in Nonces PROVE SeenFits(j)'
  <2>1. SeenFits(j) /\ used[j] \in Nat
    BY <1>2 DEF GuardsInv, GuardsTypeOK
  <2> QED
    BY <1>1, <1>2, <2>1, GuardsAssumption DEF SeenFits
<1>6. Limits!Later
  BY DEF Tick, Limits!Later, NoReply, Limits!NoReply
<1> QED
  BY <1>3, <1>4, <1>5, <1>6 DEF GuardsInv

-----------------------------------------------------------------------------
(* The theorems.                                                           *)

LEMMA InitGuards == Init => GuardsInv /\ Limits!Init
<1> SUFFICES ASSUME Init PROVE GuardsInv /\ Limits!Init
  OBVIOUS
<1>1. GuardsTypeOK
  BY DEF Init, GuardsTypeOK
<1>2. ASSUME NEW k \in Callers PROVE HitsFit(k) /\ GrantsFit(k) /\ FreeFits(k)
  <2>1. granted[k] = <<>> /\ HitsOf(k) = <<>> /\ free[k] = 0
    BY DEF Init, HitsOf
  <2>2. HitsFit(k)
    BY <2>1, GuardsAssumption DEF HitsFit, IsRest
  <2> QED
    BY <2>1, <2>2 DEF GrantsFit, FreeFits, InOrder
<1>3. \A k \in Nonces : SeenFits(k)
  BY DEF Init, SeenFits
<1>4. Limits!Init
  BY DEF Init, Limits!Init, NoReply, Limits!NoReply
<1> QED
  BY <1>1, <1>2, <1>3, <1>4 DEF GuardsInv

(* Every step keeps the invariant, and is a step of AccessLimits or none.  *)
LEMMA NextGuards ==
    ASSUME GuardsInv, [Next]_vars
    PROVE  GuardsInv' /\ [Limits!Next]_<<now, granted, used, reply>>
<1>1. ASSUME NEW k \in Callers, allow(k) \/ retry_after(k) \/ reset(k)
      PROVE  GuardsInv' /\ [Limits!Next]_<<now, granted, used, reply>>
  BY <1>1, AllowStep, RetryStep, ResetStep DEF Limits!Next
<1>2. ASSUME NEW k \in Nonces, consume(k)
      PROVE  GuardsInv' /\ [Limits!Next]_<<now, granted, used, reply>>
  BY <1>2, ConsumeStep DEF Limits!Next
<1>3. CASE sweep
  BY <1>3, SweepStep
<1>4. CASE Tick
  BY <1>4, TickStep DEF Limits!Next
<1>5. CASE UNCHANGED vars
  BY <1>5 DEF vars, GuardsInv, GuardsTypeOK, HitsFit, GrantsFit, FreeFits, SeenFits, HitsOf
<1> QED
  BY <1>1, <1>2, <1>3, <1>4, <1>5 DEF Next

(* What the limiter and the store have forgotten is over, whatever calls,  *)
(* questions, resets and sweeps come in whatever order.                    *)
THEOREM GuardsInvariantHolds == Spec => []GuardsInv
BY InitGuards, NextGuards, PTL DEF Spec

(* Forgetting changes no answer: every call of allow and consume is a call *)
(* of AccessLimits, which remembers all, with the same reply; retry_after  *)
(* and sweep are none.                                                     *)
THEOREM GuardsImplementLimits == Spec => LimitsKept
BY InitGuards, NextGuards, GuardsInvariantHolds, PTL DEF Spec, LimitsKept, Limits!Spec

(* The Retry-After of a 429 is honest: who waits as long as retry_after    *)
(* said finds a free call, if no other has come in between, and was told   *)
(* at most one second more than it takes: int(...) + 1 adds a whole second *)
(* to a wait of whole seconds.                                             *)
THEOREM RetryIsHonest == Spec => []RetryHonest
<1>1. ASSUME GuardsInv, NEW k \in Callers, free[k] # 0
      PROVE  LET recent == Limits!Cardinality(Limits!InWindow(k))
             IN  /\ now >= free[k] => recent < max_calls
                 /\ now + Ticks < free[k] => recent >= max_calls
  <2>1. PICK g, i : g = granted[k] /\ i = Len(g) - max_calls + 1
    OBVIOUS
  <2>2. /\ g \in Seq(Nat) /\ now \in Nat /\ free[k] \in Nat
        /\ max_calls \in Nat \ {0} /\ window \in Nat /\ Ticks \in Nat
    BY <1>1, <2>1, GuardsAssumption DEF GuardsInv, GuardsTypeOK
  <2>3. PICK d \in 0..Len(g) :
            /\ Limits!InWindow(k) = d + 1..Len(g)
            /\ Cardinality(Limits!InWindow(k)) = Len(g) - d
    BY <1>1, <2>1, PrunedIsWindow DEF IsRest
  <2>4. PICK n \in Nat : n = Len(g) /\ d \in 0..n
    BY <2>2
  <2>5. PICK recent \in Nat : recent = Limits!Cardinality(Limits!InWindow(k)) /\ recent = n - d
    BY <2>3, <2>4, SameCount
  <2>6. FreeFits(k)
    BY <1>1 DEF GuardsInv
  <2>7. CASE n < max_calls
    <3>1. free[k] <= now
      BY <1>1, <2>1, <2>4, <2>6, <2>7 DEF FreeFits
    <3>2. recent < max_calls /\ ~(now + Ticks < free[k])
      BY <2>2, <2>4, <2>5, <2>7, <3>1
    <3> QED
      BY <2>5, <3>2
  <2>8. CASE n >= max_calls
    <3>1. i \in 1..n /\ i = n - max_calls + 1
      <4>1. PICK m \in Nat \ {0} : m = max_calls
        BY <2>2
      <4>2. i = n - m + 1 /\ n >= m
        BY <2>1, <2>4, <2>8, <4>1
      <4> QED
        BY <4>1, <4>2
    <3>2. g[i] \in Nat
      BY <2>2, <2>4, <3>1
    <3>3. g[i] + window <= free[k] /\ (free[k] <= now \/ free[k] <= g[i] + window + Ticks)
      <4>1. ~(n < max_calls)
        BY <2>2, <2>8
      <4> QED
        BY <1>1, <2>1, <2>4, <2>6, <4>1 DEF FreeFits
    <3>4. g[i] + window > now <=> i \in d + 1..n
      <4>1. i \in DOMAIN g
        BY <2>2, <2>4, <3>1
      <4>2. g[i] + window > now <=> i \in Limits!InWindow(k)
        BY <2>1, <4>1 DEF Limits!InWindow
      <4> QED
        BY <2>3, <2>4, <4>2
    <3>5. i \in d + 1..n <=> recent >= max_calls
      BY <2>2, <2>4, <2>5, <2>8, <3>1
    <3>6. /\ now >= free[k] => ~(g[i] + window > now)
          /\ now + Ticks < free[k] => g[i] + window > now
      <4>1. PICK a, b, c : a = g[i] + window /\ b = now /\ c = free[k]
        OBVIOUS
      <4>2. a <= c /\ (c <= b \/ c <= a + Ticks)
        BY <3>3, <4>1
      <4>3. (b >= c => ~(a > b)) /\ (b + Ticks < c => a > b)
        <5>1. a \in Nat /\ b \in Nat /\ c \in Nat /\ Ticks \in Nat
          BY <2>2, <3>2, <4>1
        <5> QED
          BY <4>2, <5>1
      <4> QED
        BY <4>1, <4>3
    <3>7. recent < max_calls <=> ~(recent >= max_calls)
      BY <2>2
    <3> QED
      BY <2>5, <3>4, <3>5, <3>6, <3>7
  <2> QED
    BY <2>2, <2>4, <2>7, <2>8
<1>2. GuardsInv => RetryHonest
  BY <1>1, SameCount DEF RetryHonest
<1> QED
  BY <1>2, GuardsInvariantHolds, PTL
=============================================================================
