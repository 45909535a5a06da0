--------------------------- MODULE MediaScanProofs --------------------------
(***************************************************************************)
(* Proofs about MediaScan, for any frames, thresholds, sampling, budgets   *)
(* and numbers of frames, failures and faults.                             *)
(***************************************************************************)
EXTENDS MediaScan, FiniteSetTheorems, WellFoundedInduction, TLAPS

(* A non-empty set of naturals has a least element.                        *)
LEMMA HasLeast ==
  ASSUME NEW S, S \subseteq Nat, S # {}
  PROVE  \E x \in S : \A y \in S : x <= y
<1>1. PICK x \in S : \A y \in S : ~(<<y, x>> \in OpToRel(<, Nat))
  BY NatLessThanWellFounded, WFMin
<1>2. \A y \in S : x <= y
  <2>1. SUFFICES ASSUME NEW y \in S, y < x PROVE FALSE
    OBVIOUS
  <2>2. <<y, x>> \in OpToRel(<, Nat)
    BY <2>1 DEF OpToRel
  <2> QED BY <1>1, <2>2
<1> QED BY <1>2

(* A non-empty bounded set of naturals has a largest element.              *)
LEMMA HasLargest ==
  ASSUME NEW n \in Nat, NEW S, S \subseteq 0..n, S # {}
  PROVE  \E x \in S : \A y \in S : x >= y
<1> DEFINE T == {n - x : x \in S}
<1>1. T \subseteq Nat
  OBVIOUS
<1>1a. T # {}
  <2>1. PICK x \in S : TRUE
    OBVIOUS
  <2>2. n - x \in T
    OBVIOUS
  <2> QED BY <2>2
<1>2. PICK t \in T : \A u \in T : t <= u
  BY <1>1, <1>1a, HasLeast
<1>3. PICK x \in S : t = n - x
  OBVIOUS
<1>4. \A y \in S : n - x <= n - y
  BY <1>2, <1>3
<1>5. \A y \in S : x >= y
  BY <1>4
<1> QED BY <1>5

(* Max is the element that no other exceeds.                               *)
LEMMA MaxIs ==
  ASSUME NEW S, S \subseteq Int, NEW m \in S, \A y \in S : m >= y
  PROVE  Max(S) = m
<1>1. Max(S) \in S /\ \A y \in S : Max(S) >= y
  BY DEF Max
<1>2. PICK x \in S : Max(S) = x /\ \A y \in S : x >= y
  BY <1>1
<1>3. x >= m /\ m >= x /\ x \in Int /\ m \in Int
  BY <1>2
<1> QED BY <1>2, <1>3

(* A subset of an interval of naturals is finite, and no larger.           *)
LEMMA PartsAreFinite ==
  ASSUME NEW n \in Nat, NEW S, S \subseteq 1..n
  PROVE  IsFiniteSet(S) /\ Cardinality(S) \in 0..n
<1>1. IsFiniteSet(1..n) /\ Cardinality(1..n) = n
  BY FS_Interval
<1>2. S \in SUBSET (1..n)
  OBVIOUS
<1>3. IsFiniteSet(S) /\ Cardinality(S) <= n
  BY <1>1, <1>2, FS_Subset
<1>4. Cardinality(S) \in Nat
  BY <1>3, FS_CardinalityType
<1> QED BY <1>3, <1>4

(* An image of a finite set is finite, and no larger.                      *)
LEMMA ImagesAreFinite ==
  ASSUME NEW S, IsFiniteSet(S), NEW g, DOMAIN g = S
  PROVE  /\ IsFiniteSet({g[x] : x \in S})
         /\ Cardinality({g[x] : x \in S}) <= Cardinality(S)
<1> DEFINE T == {g[x] : x \in S}  h == [x \in S |-> g[x]]
<1>1. h \in Surjection(S, T)
  BY DEF Surjection
<1> HIDE DEF h
<1>2. IsFiniteSet(T) /\ Cardinality(T) <= Cardinality(S)
  BY <1>1, FS_Surjection
<1> QED BY <1>2

(* A finite set is larger than any other set inside it.                    *)
LEMMA StrictlySmaller ==
  ASSUME NEW S, NEW T, IsFiniteSet(S), T \subseteq S, T # S
  PROVE  /\ IsFiniteSet(T) /\ Cardinality(T) \in Nat /\ Cardinality(S) \in Nat
         /\ Cardinality(T) < Cardinality(S)
<1>1. T \in SUBSET S
  OBVIOUS
<1>2. IsFiniteSet(T) /\ Cardinality(T) <= Cardinality(S)
      /\ (Cardinality(S) = Cardinality(T) => S = T)
  BY <1>1, FS_Subset
<1>3. Cardinality(S) \in Nat /\ Cardinality(T) \in Nat
  BY <1>2, FS_CardinalityType
<1> QED BY <1>2, <1>3

(* The budget is kept: what is granted fits in what is left of it.         *)
LEMMA GrantedFits ==
  ASSUME NEW n \in Nat, NEW eligible, eligible \subseteq 1..n,
         NEW used \in Nat, NEW limit \in Nat, used <= limit
  PROVE  /\ Granted(eligible, used, limit) \subseteq eligible
         /\ IsFiniteSet(Granted(eligible, used, limit))
         /\ Cardinality(Granted(eligible, used, limit)) \in Nat
         /\ used + Cardinality(Granted(eligible, used, limit)) <= limit
<1> DEFINE G == Granted(eligible, used, limit)
           Earlier(i) == {j \in eligible : j < i}
<1>0. G \subseteq eligible /\ G \subseteq 1..n
  BY DEF Granted
<1>1. \A i \in G : used + Cardinality(Earlier(i)) < limit
  BY DEF Granted
<1> HIDE DEF G
<1>2. IsFiniteSet(G) /\ Cardinality(G) \in Nat
  <2>1. IsFiniteSet(G) /\ Cardinality(G) \in 0..n
    BY <1>0, PartsAreFinite
  <2> QED BY <2>1
<1>3. ASSUME G = {} PROVE used + Cardinality(G) <= limit
  BY <1>3, FS_EmptySet
<1>4. ASSUME G # {} PROVE used + Cardinality(G) <= limit
  <2>0. G \subseteq 0..n
    BY <1>0
  <2>1. PICK m \in G : \A i \in G : m >= i
    BY <2>0, <1>4, HasLargest
  <2>2. IsFiniteSet(G \ {m}) /\ Cardinality(G \ {m}) = Cardinality(G) - 1
    BY <1>2, FS_RemoveElement
  <2>3. IsFiniteSet(Earlier(m)) /\ Cardinality(Earlier(m)) \in Nat
    <3>1. Earlier(m) \subseteq 1..n
      OBVIOUS
    <3> HIDE DEF Earlier
    <3> QED BY <3>1, PartsAreFinite
  <2>4. G \ {m} \in SUBSET Earlier(m)
    BY <1>0, <2>0, <2>1
  <2> HIDE DEF Earlier
  <2>5. Cardinality(G \ {m}) <= Cardinality(Earlier(m))
    BY <2>3, <2>4, FS_Subset
  <2> QED BY <1>1, <1>2, <2>1, <2>2, <2>3, <2>5
<1> QED BY <1>0, <1>2, <1>3, <1>4 DEF G

----------------------------------------------------------------------------
(* Rankings.  R is a strict order on S, total, as a set of pairs.          *)
OrderOn(S, R) ==
  /\ \A p \in S : <<p, p>> \notin R
  /\ \A p, q, r \in S : <<p, q>> \in R /\ <<q, r>> \in R => <<p, r>> \in R
  /\ \A p, q \in S : p = q \/ <<p, q>> \in R \/ <<q, p>> \in R

Under(S, R, e) == {d \in S : <<d, e>> \in R}

(* The number of elements below one is its rank, and ranks go up with R.   *)
LEMMA RanksOfAnOrder ==
  ASSUME NEW S, IsFiniteSet(S), NEW R, OrderOn(S, R)
  PROVE  /\ Cardinality(S) \in Nat
         /\ \A e \in S : /\ IsFiniteSet(Under(S, R, e))
                         /\ Cardinality(Under(S, R, e)) \in 0..(Cardinality(S) - 1)
         /\ \A d, e \in S :
              (<<d, e>> \in R) <=> Cardinality(Under(S, R, d)) < Cardinality(Under(S, R, e))
<1>1. Cardinality(S) \in Nat
  BY FS_CardinalityType
<1>2. ASSUME NEW e \in S
      PROVE  IsFiniteSet(Under(S, R, e)) /\ Cardinality(Under(S, R, e)) \in 0..(Cardinality(S) - 1)
  <2>1. Under(S, R, e) \subseteq S /\ e \notin Under(S, R, e)
    BY DEF Under, OrderOn
  <2>2. Under(S, R, e) # S
    BY <2>1
  <2>3. IsFiniteSet(Under(S, R, e)) /\ Cardinality(Under(S, R, e)) \in Nat
        /\ Cardinality(Under(S, R, e)) < Cardinality(S)
    BY <2>1, <2>2, StrictlySmaller
  <2> QED BY <1>1, <2>3
<1>3. ASSUME NEW d \in S, NEW e \in S, <<d, e>> \in R
      PROVE  Cardinality(Under(S, R, d)) < Cardinality(Under(S, R, e))
  <2>1. Under(S, R, d) \subseteq Under(S, R, e)
    BY <1>3 DEF Under, OrderOn
  <2>2. d \in Under(S, R, e) /\ d \notin Under(S, R, d)
    BY <1>3 DEF Under, OrderOn
  <2>3. Under(S, R, d) # Under(S, R, e)
    BY <2>2
  <2> QED BY <1>2, <2>1, <2>3, StrictlySmaller
<1>4. ASSUME NEW d \in S, NEW e \in S,
             Cardinality(Under(S, R, d)) < Cardinality(Under(S, R, e))
      PROVE  <<d, e>> \in R
  <2>1. d # e
    BY <1>2, <1>4
  <2>2. <<d, e>> \in R \/ <<e, d>> \in R
    BY <2>1 DEF OrderOn
  <2>3. <<e, d>> \notin R
    BY <1>2, <1>3, <1>4
  <2> QED BY <2>2, <2>3
<1> QED BY <1>1, <1>2, <1>3, <1>4

(* As ranks are different, and as many as there may be, each is taken.     *)
LEMMA EveryRankIsTaken ==
  ASSUME NEW S, IsFiniteSet(S), NEW R, OrderOn(S, R)
  PROVE  \A k \in 1..Cardinality(S) : \E e \in S : Cardinality(Under(S, R, e)) = k - 1
<1> DEFINE n == Cardinality(S)  rank == [e \in S |-> Cardinality(Under(S, R, e)) + 1]
<1>1. n \in Nat
  BY FS_CardinalityType
<1>2. /\ \A e \in S : Cardinality(Under(S, R, e)) \in 0..(n - 1)
      /\ \A d, e \in S :
           (<<d, e>> \in R) <=> Cardinality(Under(S, R, d)) < Cardinality(Under(S, R, e))
  BY RanksOfAnOrder
<1>3. rank \in [S -> 1..n] /\ \A e \in S : rank[e] = Cardinality(Under(S, R, e)) + 1
  BY <1>1, <1>2
<1>4. \A d, e \in S : (<<d, e>> \in R) => rank[d] < rank[e]
  BY <1>1, <1>2, <1>3
<1> HIDE DEF rank
<1>5. \A d, e \in S : rank[d] = rank[e] => d = e
  <2>1. SUFFICES ASSUME NEW d \in S, NEW e \in S, rank[d] = rank[e], d # e PROVE FALSE
    OBVIOUS
  <2>2. <<d, e>> \in R \/ <<e, d>> \in R
    BY <2>1 DEF OrderOn
  <2> QED BY <1>3, <1>4, <2>1, <2>2
<1>6. rank \in Injection(S, 1..n)
  BY <1>3, <1>5 DEF Injection, IsInjective
<1>7. IsFiniteSet(1..n) /\ Cardinality(1..n) = n
  BY <1>1, FS_Interval
<1>8. rank \in Surjection(S, 1..n)
  BY <1>6, <1>7, FS_Injection
<1>9. \A k \in 1..n : \E e \in S : rank[e] = k
  BY <1>8 DEF Surjection
<1> QED BY <1>1, <1>2, <1>3, <1>9

AtItsRank(list, S, R) ==
  /\ list = [k \in 1..Cardinality(S) |-> list[k]]
  /\ \A k \in 1..Cardinality(S) :
       list[k] \in S /\ Cardinality(Under(S, R, list[k])) = k - 1

(* A list that has every element at its rank has each once, and in order.  *)
LEMMA RankingOfAnOrder ==
  ASSUME NEW S, IsFiniteSet(S), NEW R, OrderOn(S, R), NEW list, AtItsRank(list, S, R)
  PROVE  /\ Cardinality(S) \in Nat /\ list \in [1..Cardinality(S) -> S]
         /\ \A e \in S : \E k \in 1..Cardinality(S) : e = list[k]
         /\ \A i, j \in 1..Cardinality(S) : (<<list[i], list[j]>> \in R) <=> i < j
<1> DEFINE n == Cardinality(S)
<1>1. /\ n \in Nat
      /\ \A e \in S : Cardinality(Under(S, R, e)) \in 0..(n - 1)
      /\ \A d, e \in S :
           (<<d, e>> \in R) <=> Cardinality(Under(S, R, d)) < Cardinality(Under(S, R, e))
  BY RanksOfAnOrder
<1> HIDE DEF n
<1>2. \A k \in 1..n : list[k] \in S /\ Cardinality(Under(S, R, list[k])) = k - 1
  BY DEF n, AtItsRank
<1>3. list \in [1..n -> S]
  <2>1. list = [k \in 1..n |-> list[k]]
    BY DEF n, AtItsRank
  <2> QED BY <1>2, <2>1
<1>4. \A i, j \in 1..n : (<<list[i], list[j]>> \in R) <=> i < j
  BY <1>1, <1>2
<1>5. ASSUME NEW e \in S PROVE \E k \in 1..n : e = list[k]
  <2> DEFINE k == Cardinality(Under(S, R, e)) + 1
  <2>1. k \in 1..n /\ Cardinality(Under(S, R, e)) = k - 1
    BY <1>1
  <2> HIDE DEF k
  <2>2. list[k] \in S /\ Cardinality(Under(S, R, list[k])) = Cardinality(Under(S, R, e))
    BY <1>2, <2>1
  <2>3. <<e, list[k]>> \notin R /\ <<list[k], e>> \notin R
    BY <1>1, <2>2
  <2>4. e = list[k]
    BY <2>2, <2>3 DEF OrderOn
  <2> QED BY <2>1, <2>4
<1> QED BY <1>1, <1>3, <1>4, <1>5 DEF n

----------------------------------------------------------------------------
(* The order of best_frames is a strict order, and total on frames that    *)
(* differ: interests are compared place by place, then the frames.         *)
LEMMA ExceedsIs ==
  ASSUME NEW a \in Interests, NEW b \in Interests
  PROVE  Exceeds(a, b) <=>
           \/ a[1] > b[1]
           \/ a[1] = b[1] /\ a[2] > b[2]
           \/ a[1] = b[1] /\ a[2] = b[2] /\ a[3] > b[3]
           \/ a[1] = b[1] /\ a[2] = b[2] /\ a[3] = b[3] /\ a[4] > b[4]
<1>1. DOMAIN a = {1, 2, 3, 4}
  BY DEF Interests
<1>2. /\ \A j \in 1..(1 - 1) : a[j] = b[j]
      /\ (\A j \in 1..(2 - 1) : a[j] = b[j]) <=> a[1] = b[1]
      /\ (\A j \in 1..(3 - 1) : a[j] = b[j]) <=> (a[1] = b[1] /\ a[2] = b[2])
      /\ (\A j \in 1..(4 - 1) : a[j] = b[j]) <=> (a[1] = b[1] /\ a[2] = b[2] /\ a[3] = b[3])
  OBVIOUS
<1> QED BY <1>1, <1>2 DEF Exceeds

(* Better is a strict order, total on entries of different frames.         *)
LEMMA BetterIsAnOrder ==
  ASSUME NEW p \in Entry, NEW q \in Entry, NEW r \in Entry
  PROVE  /\ ~Better(p, p)
         /\ (Better(p, q) /\ Better(q, r)) => Better(p, r)
         /\ p.frame # q.frame => (Better(p, q) \/ Better(q, p))
         /\ ~(Better(p, q) /\ Better(q, p))
<1>1. /\ p.interest \in Interests /\ q.interest \in Interests /\ r.interest \in Interests
      /\ p.frame \in Nat /\ q.frame \in Nat /\ r.frame \in Nat
  BY DEF Entry
<1>2. \A x \in Interests : x[1] \in Nat /\ x[2] \in Nat /\ x[3] \in Nat /\ x[4] \in Nat
                           /\ x = <<x[1], x[2], x[3], x[4]>>
  BY DEF Interests
<1>3. \A x, y \in Interests :
        (x = y) <=> x[1] = y[1] /\ x[2] = y[2] /\ x[3] = y[3] /\ x[4] = y[4]
  BY <1>2
<1>4. \A x, y, z \in Interests : Exceeds(x, y) /\ Exceeds(y, z) => Exceeds(x, z)
  BY <1>2, ExceedsIs
<1>5. \A x \in Interests : ~Exceeds(x, x)
  BY <1>2, ExceedsIs
<1>6. \A x, y \in Interests : x = y \/ Exceeds(x, y) \/ Exceeds(y, x)
  BY <1>2, <1>3, ExceedsIs
<1>7. ~Better(p, p)
  BY <1>1, <1>5 DEF Better
<1>8. Better(p, q) /\ Better(q, r) => Better(p, r)
  BY <1>1, <1>4 DEF Better
<1>9. p.frame # q.frame => Better(p, q) \/ Better(q, p)
  BY <1>1, <1>6 DEF Better
<1>10. ~(Better(p, q) /\ Better(q, p))
  BY <1>1, <1>4, <1>5 DEF Better
<1> QED BY <1>7, <1>8, <1>9, <1>10

(* Entries that can be ranked: of frames that differ.                      *)
Distinct(S) == \A p, q \in S : p.frame = q.frame => p = q

Above(S, e) == {d \in S : Better(d, e)}

BetterIn(S) == {p \in S \X S : Better(p[1], p[2])}

(* On such entries Better is an order as the rankings need it.             *)
LEMMA BetterOrders ==
  ASSUME NEW S, S \subseteq Entry, Distinct(S)
  PROVE  /\ OrderOn(S, BetterIn(S))
         /\ \A d, e \in S : (<<d, e>> \in BetterIn(S)) <=> Better(d, e)
         /\ \A e \in S : Under(S, BetterIn(S), e) = Above(S, e)
<1>1. \A d, e \in S : (<<d, e>> \in BetterIn(S)) <=> Better(d, e)
  BY DEF BetterIn
<1>2. \A e \in S : Under(S, BetterIn(S), e) = Above(S, e)
  BY <1>1 DEF Under, Above
<1>3. \A p, q, r \in S : /\ ~Better(p, p)
                         /\ Better(p, q) /\ Better(q, r) => Better(p, r)
                         /\ p.frame # q.frame => Better(p, q) \/ Better(q, p)
  BY BetterIsAnOrder
<1>4. \A p, q \in S : p = q \/ Better(p, q) \/ Better(q, p)
  BY <1>3 DEF Distinct
<1>5. OrderOn(S, BetterIn(S))
  BY <1>1, <1>3, <1>4 DEF OrderOn
<1> QED BY <1>1, <1>2, <1>5

(* The rank of an entry is the number of entries above it.                 *)
LEMMA RanksDiffer ==
  ASSUME NEW S, S \subseteq Entry, IsFiniteSet(S), Distinct(S)
  PROVE  /\ Cardinality(S) \in Nat
         /\ \A e \in S : /\ IsFiniteSet(Above(S, e))
                         /\ Cardinality(Above(S, e)) \in 0..(Cardinality(S) - 1)
         /\ \A d, e \in S :
              (Better(d, e)) <=> Cardinality(Above(S, d)) < Cardinality(Above(S, e))
         /\ \A k \in 1..Cardinality(S) : \E e \in S : Cardinality(Above(S, e)) = k - 1
<1> DEFINE R == BetterIn(S)
<1>1. /\ OrderOn(S, R)
      /\ \A d, e \in S : (<<d, e>> \in R) <=> Better(d, e)
      /\ \A e \in S : Under(S, R, e) = Above(S, e)
  BY BetterOrders
<1> HIDE DEF R
<1>2. /\ Cardinality(S) \in Nat
      /\ \A e \in S : /\ IsFiniteSet(Under(S, R, e))
                      /\ Cardinality(Under(S, R, e)) \in 0..(Cardinality(S) - 1)
      /\ \A d, e \in S :
           (<<d, e>> \in R) <=> Cardinality(Under(S, R, d)) < Cardinality(Under(S, R, e))
  BY <1>1, RanksOfAnOrder
<1>3. \A k \in 1..Cardinality(S) : \E e \in S : Cardinality(Under(S, R, e)) = k - 1
  BY <1>1, EveryRankIsTaken
<1> QED BY <1>1, <1>2, <1>3

(* Every rank is taken, so InOrder lists the entries, each once, in order. *)
LEMMA InOrderIs ==
  ASSUME NEW S, S \subseteq Entry, IsFiniteSet(S), Distinct(S)
  PROVE  /\ Cardinality(S) \in Nat
         /\ InOrder(S) \in [1..Cardinality(S) -> S]
         /\ \A k \in 1..Cardinality(S) : Cardinality(Above(S, InOrder(S)[k])) = k - 1
         /\ \A e \in S : \E k \in 1..Cardinality(S) : e = InOrder(S)[k]
         /\ \A i, j \in 1..Cardinality(S) : (Better(InOrder(S)[i], InOrder(S)[j])) <=> i < j
<1> DEFINE n == Cardinality(S)  R == BetterIn(S)  list == InOrder(S)
<1>1. /\ OrderOn(S, R)
      /\ \A d, e \in S : (<<d, e>> \in R) <=> Better(d, e)
      /\ \A e \in S : Under(S, R, e) = Above(S, e)
  BY BetterOrders
<1>2. \A k \in 1..n : \E e \in S : Cardinality(Above(S, e)) = k - 1
  BY RanksDiffer
<1>3. list = [k \in 1..n |-> CHOOSE e \in S : Cardinality(Above(S, e)) = k - 1]
  BY DEF InOrder, Ranked, Above
<1> HIDE DEF list, R
<1>4. \A k \in 1..n : list[k] \in S /\ Cardinality(Above(S, list[k])) = k - 1
  BY <1>2, <1>3
<1>5. list = [k \in 1..n |-> list[k]]
  BY <1>3
<1>6. \A k \in 1..n : list[k] \in S /\ Cardinality(Under(S, R, list[k])) = k - 1
  BY <1>1, <1>4
<1>7. /\ n \in Nat /\ list \in [1..n -> S]
      /\ \A e \in S : \E k \in 1..n : e = list[k]
      /\ \A i, j \in 1..n : (<<list[i], list[j]>> \in R) <=> i < j
  <2>1. AtItsRank(list, S, R)
    BY <1>5, <1>6 DEF AtItsRank
  <2> QED BY <1>1, <2>1, RankingOfAnOrder
<1>8. \A i, j \in 1..n : (Better(list[i], list[j])) <=> i < j
  BY <1>1, <1>4, <1>7
<1> QED BY <1>4, <1>7, <1>8 DEF list

(* The first places do not depend on entries that are below them.          *)
LEMMA TopIsLocal ==
  ASSUME NEW V, V \subseteq Entry, IsFiniteSet(V), Distinct(V),
         NEW U, U \subseteq V, NEW m \in Nat, m <= Cardinality(V),
         \A x \in V \ U : Cardinality(Above(V, x)) >= m
  PROVE  /\ m <= Cardinality(U) /\ Cardinality(U) \in Nat
         /\ \A k \in 1..m : InOrder(U)[k] = InOrder(V)[k]
<1>1. /\ U \subseteq Entry /\ IsFiniteSet(U) /\ Distinct(U) /\ Cardinality(U) \in Nat
      /\ Cardinality(V) \in Nat
  <2>1. IsFiniteSet(U) /\ Cardinality(V) \in Nat
    BY FS_Subset, FS_CardinalityType
  <2> QED BY <2>1, FS_CardinalityType DEF Distinct
<1>2. ASSUME NEW k \in 1..m
      PROVE  k <= Cardinality(U) /\ InOrder(U)[k] = InOrder(V)[k]
  <2> DEFINE x == InOrder(V)[k]
  <2>1. x \in V /\ Cardinality(Above(V, x)) = k - 1 /\ k \in 1..Cardinality(V)
    <3>1. k \in 1..Cardinality(V)
      BY <1>1
    <3> QED BY <3>1, InOrderIs
  <2> HIDE DEF x
  <2>2. x \in U
    BY <2>1
  <2>3. \A d \in V : Better(d, x) => d \in U
    <3>1. SUFFICES ASSUME NEW d \in V, Better(d, x), d \notin U PROVE FALSE
      OBVIOUS
    <3>2. Cardinality(Above(V, d)) < k - 1
      BY <2>1, <3>1, RanksDiffer
    <3>3. Cardinality(Above(V, d)) >= m /\ Cardinality(Above(V, d)) \in Nat
      BY <1>1, <3>1, RanksDiffer
    <3> QED BY <3>2, <3>3
  <2>4. Above(U, x) = Above(V, x)
    BY <2>3 DEF Above
  <2>5. PICK j \in 1..Cardinality(U) : x = InOrder(U)[j]
    BY <1>1, <2>2, InOrderIs
  <2>6. Cardinality(Above(U, x)) = j - 1
    BY <1>1, <2>5, InOrderIs
  <2>7. j = k
    BY <1>1, <2>1, <2>4, <2>6
  <2> QED BY <1>1, <2>5, <2>7 DEF x
<1>3. m <= Cardinality(U)
  <2>1. CASE m = 0
    BY <1>1, <2>1
  <2>2. CASE m > 0
    <3>1. m \in 1..m
      BY <2>2
    <3> QED BY <1>2, <3>1
  <2> QED BY <2>1, <2>2
<1> QED BY <1>1, <1>2, <1>3

(* Best is the first places of InOrder.                                    *)
LEMMA BestIs ==
  ASSUME NEW S, S \subseteq Entry, IsFiniteSet(S), Distinct(S)
  PROVE  /\ Best(S) \in Seq(S)
         /\ Len(Best(S)) = Smaller(Cardinality(S), MaxAnnotated)
         /\ Len(Best(S)) \in 0..Cardinality(S) /\ Len(Best(S)) \in 0..MaxAnnotated
         /\ \A k \in 1..Len(Best(S)) : Best(S)[k] = InOrder(S)[k]
<1> DEFINE n == Cardinality(S)  m == Smaller(n, MaxAnnotated)
<1>1. n \in Nat /\ InOrder(S) \in [1..n -> S]
  BY InOrderIs
<1>2. MaxAnnotated \in Nat \ {0}
  BY ScanAssumption
<1>3. m \in 0..n /\ m \in 0..MaxAnnotated
  BY <1>1, <1>2 DEF Smaller
<1>4. Best(S) = SubSeq(InOrder(S), 1, m)
  BY DEF Best
<1>5. InOrder(S) \in Seq(S) /\ Len(InOrder(S)) = n
  BY <1>1
<1> HIDE DEF m, n
<1>6. /\ SubSeq(InOrder(S), 1, m) \in Seq(S) /\ Len(SubSeq(InOrder(S), 1, m)) = m
      /\ \A k \in 1..m : SubSeq(InOrder(S), 1, m)[k] = InOrder(S)[k]
  BY <1>1, <1>3, <1>5
<1> QED BY <1>3, <1>4, <1>6 DEF m, n

(* One step of the shortlist: what is kept of the best and a later frame   *)
(* is the best of them all.                                                *)
LEMMA ShortlistStep ==
  ASSUME NEW S, S \subseteq Entry, IsFiniteSet(S), Distinct(S),
         NEW e \in Entry, \A d \in S : d.frame < e.frame
  PROVE  Shortlisted(Best(S), e) = Best(S \union {e})
<1> DEFINE V == S \union {e}  m == MaxAnnotated  T == Range(Best(S))
<1>1. m \in Nat \ {0}
  BY ScanAssumption
<1>2. e \notin S /\ V \subseteq Entry /\ Distinct(V)
  <2>1. \A d \in S : d.frame \in Nat /\ e.frame \in Nat
    BY DEF Entry
  <2>2. \A d \in S : d.frame # e.frame
    BY <2>1
  <2> QED BY <2>2 DEF Distinct
<1>3. IsFiniteSet(V) /\ Cardinality(V) = Cardinality(S) + 1 /\ Cardinality(S) \in Nat
  BY <1>2, FS_AddElement, FS_CardinalityType
<1> HIDE DEF V
<1>4. /\ Best(S) \in Seq(S) /\ Len(Best(S)) = Smaller(Cardinality(S), m)
      /\ \A k \in 1..Len(Best(S)) : Best(S)[k] = InOrder(S)[k]
  BY BestIs
<1>5. T = {InOrder(S)[k] : k \in 1..Len(Best(S))} /\ T \subseteq S
  BY <1>4 DEF Range
<1>6. InOrder(S) \in [1..Cardinality(S) -> S]
  BY InOrderIs
<1>7. ASSUME Len(Best(S)) < m
      PROVE  Best(T \union {e}) = Best(V)
  <2>1. Len(Best(S)) = Cardinality(S)
    BY <1>1, <1>3, <1>4, <1>7 DEF Smaller
  <2>2. \A d \in S : \E k \in 1..Cardinality(S) : d = InOrder(S)[k]
    BY InOrderIs
  <2>3. T = S
    BY <1>5, <2>1, <2>2
  <2> QED BY <2>3 DEF V
<1>8. ASSUME NEW U, U \subseteq V, m <= Cardinality(V),
             \A x \in V \ U : Cardinality(Above(V, x)) >= m
      PROVE  Best(U) = Best(V)
  <2>1. /\ m <= Cardinality(U) /\ Cardinality(U) \in Nat
        /\ \A k \in 1..m : InOrder(U)[k] = InOrder(V)[k]
    BY <1>1, <1>2, <1>3, <1>8, TopIsLocal
  <2>2. U \subseteq Entry /\ IsFiniteSet(U) /\ Distinct(U)
    BY <1>2, <1>3, <1>8, FS_Subset DEF Distinct
  <2>3. /\ Best(U) \in Seq(U) /\ Len(Best(U)) = m
        /\ \A k \in 1..m : Best(U)[k] = InOrder(U)[k]
    <3>1. Smaller(Cardinality(U), m) = m
      BY <1>1, <2>1 DEF Smaller
    <3> QED BY <2>2, <3>1, BestIs
  <2>4. /\ Best(V) \in Seq(V) /\ Len(Best(V)) = m
        /\ \A k \in 1..m : Best(V)[k] = InOrder(V)[k]
    <3>1. Smaller(Cardinality(V), m) = m
      BY <1>1, <1>3, <1>8 DEF Smaller
    <3> QED BY <1>2, <1>3, <3>1, BestIs
  <2>5. Best(U) \in Seq(V)
    BY <1>8, <2>3
  <2>6. \A k \in 1..m : Best(U)[k] = Best(V)[k]
    BY <2>1, <2>3, <2>4
  <2>7. \A s, t \in Seq(V) :
          Len(s) = m /\ Len(t) = m /\ (\A k \in 1..m : s[k] = t[k]) => s = t
    OBVIOUS
  <2> QED BY <2>3, <2>4, <2>5, <2>6, <2>7
<1>9. ASSUME Len(Best(S)) >= m
      PROVE  /\ Len(Best(S)) = m /\ m <= Cardinality(S) /\ Last(Best(S)) = InOrder(S)[m]
             /\ Last(Best(S)) \in S /\ Cardinality(Above(S, Last(Best(S)))) = m - 1
  <2>1. Len(Best(S)) = m /\ m <= Cardinality(S)
    BY <1>1, <1>3, <1>4, <1>9 DEF Smaller
  <2>2. Last(Best(S)) = InOrder(S)[m] /\ m \in 1..Cardinality(S)
    BY <1>1, <1>3, <1>4, <2>1 DEF Last
  <2>3. Cardinality(Above(S, InOrder(S)[m])) = m - 1
    BY <2>2, InOrderIs
  <2> QED BY <1>6, <2>1, <2>2, <2>3
<1>10. ASSUME Len(Best(S)) >= m, Exceeds(e.interest, Last(Best(S)).interest)
       PROVE  Best(T \union {e}) = Best(V)
  <2>1. T \union {e} \subseteq V /\ m <= Cardinality(V)
    BY <1>1, <1>3, <1>5, <1>9, <1>10 DEF V
  <2>2. ASSUME NEW x \in V \ (T \union {e}) PROVE Cardinality(Above(V, x)) >= m
    <3>1. x \in S /\ x \notin T
      BY <2>2 DEF V
    <3>2. PICK k \in 1..Cardinality(S) : x = InOrder(S)[k]
      BY <3>1, InOrderIs
    <3>3. k \notin 1..m
      BY <1>5, <1>9, <1>10, <3>1, <3>2
    <3>4. Cardinality(Above(S, x)) = k - 1
      BY <3>2, InOrderIs
    <3>5. IsFiniteSet(Above(V, x)) /\ Cardinality(Above(V, x)) \in Nat
      BY <1>2, <1>3, RanksDiffer
    <3>6. Above(S, x) \in SUBSET Above(V, x)
      BY DEF Above, V
    <3>7. Cardinality(Above(S, x)) <= Cardinality(Above(V, x))
      BY <3>5, <3>6, FS_Subset
    <3> QED BY <1>1, <1>3, <3>3, <3>4, <3>5, <3>7
  <2> QED BY <1>8, <2>1, <2>2
<1>11. ASSUME Len(Best(S)) >= m, ~Exceeds(e.interest, Last(Best(S)).interest)
       PROVE  Best(S) = Best(V)
  <2> DEFINE l == Last(Best(S))
  <2>1. l \in S /\ Cardinality(Above(S, l)) = m - 1 /\ m <= Cardinality(V)
    BY <1>1, <1>3, <1>9, <1>11
  <2> HIDE DEF l
  <2>2. l \in Entry /\ l.frame < e.frame /\ ~Exceeds(e.interest, l.interest)
    BY <1>11, <2>1 DEF l
  <2>3. Better(l, e)
    <3>1. Better(l, e) \/ Better(e, l)
      <4>1. l.frame # e.frame
        BY <2>2 DEF Entry
      <4> QED BY <2>2, <4>1, BetterIsAnOrder
    <3>2. ~Better(e, l)
      <4>1. ~(e.frame < l.frame)
        BY <2>2 DEF Entry
      <4> QED BY <2>2, <4>1 DEF Better
    <3> QED BY <3>1, <3>2
  <2>4. \A d \in Above(S, l) : Better(d, e)
    BY <2>2, <2>3, BetterIsAnOrder DEF Above
  <2>5. Above(S, l) \subseteq Above(V, e)
    BY <2>4 DEF Above, V
  <2>6. l \in Above(V, e) /\ l \notin Above(S, l)
    BY <2>1, <2>2, <2>3, BetterIsAnOrder DEF Above, V
  <2>7. IsFiniteSet(Above(V, e)) /\ Cardinality(Above(V, e)) \in Nat
    BY <1>2, <1>3, RanksDiffer DEF V
  <2>8. Above(S, l) # Above(V, e)
    BY <2>6
  <2>9. Cardinality(Above(S, l)) < Cardinality(Above(V, e))
    BY <2>5, <2>7, <2>8, StrictlySmaller
  <2>10. Cardinality(Above(V, e)) >= m
    BY <1>1, <2>1, <2>7, <2>9
  <2>11. S \subseteq V /\ \A x \in V \ S : x = e
    BY DEF V
  <2> QED BY <1>8, <2>1, <2>10, <2>11
<1>12. CASE Len(Best(S)) < m
  BY <1>7, <1>12 DEF Shortlisted, V
<1>13. CASE Len(Best(S)) >= m
  <2>1. ~(Len(Best(S)) < m)
    BY <1>1, <1>4, <1>13
  <2>2. CASE Exceeds(e.interest, Last(Best(S)).interest)
    BY <1>10, <1>13, <2>2 DEF Shortlisted, V
  <2>3. CASE ~Exceeds(e.interest, Last(Best(S)).interest)
    BY <1>11, <1>13, <2>1, <2>3 DEF Shortlisted, V
  <2> QED BY <2>2, <2>3
<1>14. Len(Best(S)) < m \/ Len(Best(S)) >= m
  BY <1>1, <1>4
<1> QED BY <1>12, <1>13, <1>14

----------------------------------------------------------------------------
(* A frame of the menu is a sequence of detections with their smoke.       *)
LEMMA FramesAre ==
  ASSUME NEW raw \in FrameMenu
  PROVE  Process(raw) \in Seq(Detection)
<1> DEFINE D == [box : Box, conf : Nat, region : Region]
<1>1. raw \in Seq(D)
  BY MenuAssumption
<1> HIDE DEF D
<1>2. \A i \in 1..Len(raw) : raw[i] \in D
  BY <1>1
<1>3. ASSUME NEW i \in 1..Len(raw)
      PROVE  [box |-> raw[i].box, conf |-> raw[i].conf,
              smoke |-> IF ClearsFloors(raw[i].region) THEN raw[i].region.density ELSE None]
               \in Detection
  <2>0. raw[i] \in D
    BY <1>2
  <2>1. raw[i].region \in Region /\ raw[i].conf \in Nat /\ raw[i].box \in Box
    BY <2>0 DEF D
  <2>2. raw[i].region.density \in 0..100
    BY <2>1 DEF Region
  <2> QED BY <2>1, <2>2 DEF Detection, None
<1>4. Process(raw) \in [1..Len(raw) -> Detection]
  BY <1>1, <1>3 DEF Process
<1>5. Len(raw) \in Nat
  BY <1>1
<1> HIDE DEF Process
<1> QED BY <1>4, <1>5

(* Smoke has a severity, and only smoke has.                               *)
LEMMA RankIs == \A x \in Nat : Rank(x) \in 0..3 /\ (x # None => Rank(x) \in Names)
BY ScanAssumption DEF Rank, Classify, None, Names

(* The interest of a frame is four naturals.                               *)
LEMMA InterestIs ==
  ASSUME NEW f \in Seq(Detection)
  PROVE  Interest(f) \in Interests
<1>1. /\ DOMAIN f = 1..Len(f) /\ Len(f) \in Nat
      /\ \A i \in DOMAIN f : f[i].conf \in Nat /\ f[i].smoke \in 0..100
  <2>1. \A i \in DOMAIN f : f[i] \in Detection
    OBVIOUS
  <2> QED BY <2>1 DEF Detection
<1>2. IsFiniteSet(DOMAIN f)
  BY <1>1, FS_Interval
<1>3. Max({None} \union {Rank(f[i].smoke) : i \in DOMAIN f}) \in Nat
  <2> DEFINE S == {None} \union {Rank(f[i].smoke) : i \in DOMAIN f}
  <2>0. \A i \in DOMAIN f : Rank(f[i].smoke) \in 0..3
    <3>1. \A i \in DOMAIN f : f[i].smoke \in Nat
      <4>1. \A x \in 0..100 : x \in Nat
        OBVIOUS
      <4> QED BY <1>1, <4>1
    <3> QED BY <3>1, RankIs
  <2>1. S \subseteq 0..3 /\ None \in S
    BY <2>0 DEF None
  <2> HIDE DEF S
  <2>2. PICK m \in S : \A y \in S : m >= y
    BY <2>1, HasLargest
  <2>3. Max(S) = m
    <3>1. S \subseteq Int
      BY <2>1
    <3> QED BY <2>2, <3>1, MaxIs
  <2> QED BY <2>1, <2>2, <2>3 DEF S
<1>4. Cardinality({i \in DOMAIN f : f[i].smoke # None}) \in Nat
  <2>1. {i \in DOMAIN f : f[i].smoke # None} \subseteq 1..Len(f)
    BY <1>1
  <2> HIDE DEF None
  <2>2. Cardinality({i \in DOMAIN f : f[i].smoke # None}) \in 0..Len(f)
    BY <1>1, <2>1, PartsAreFinite
  <2> QED BY <2>2
<1>5. SumOf(f) \in Nat
  <2> DEFINE part == [i \in DOMAIN f |-> {i} \X (1..f[i].conf)]
             parts == {part[i] : i \in DOMAIN f}
  <2>1. ASSUME NEW i \in DOMAIN f PROVE IsFiniteSet(part[i])
    <3>1. f[i].conf \in Int
      BY <1>1
    <3>2. IsFiniteSet({i})
      BY FS_Singleton
    <3>3. IsFiniteSet(1..f[i].conf)
      BY <3>1, FS_Interval
    <3> QED BY <3>2, <3>3, FS_Product
  <2>2. DOMAIN part = DOMAIN f
    OBVIOUS
  <2>3. parts = {{i} \X (1..f[i].conf) : i \in DOMAIN f}
    OBVIOUS
  <2> HIDE DEF part
  <2>4. IsFiniteSet(parts)
    BY <1>2, <2>2, ImagesAreFinite
  <2>5. \A T \in parts : IsFiniteSet(T)
    BY <2>1
  <2> HIDE DEF parts
  <2>6. IsFiniteSet(UNION parts)
    BY <2>4, <2>5, FS_UNION
  <2>7. Cardinality(UNION parts) \in Nat
    BY <2>6, FS_CardinalityType
  <2> QED BY <2>3, <2>7 DEF SumOf
<1> QED BY <1>1, <1>3, <1>4, <1>5 DEF Interest, Interests

----------------------------------------------------------------------------
(* The constants, one by one.                                              *)
LEMMA Sizes ==
  /\ SampleRate \in Nat \ {0} /\ MaxFrames \in Nat \ {0} /\ MaxReadFailures \in Nat \ {0}
  /\ MaxAnnotated \in Nat \ {0} /\ LastIndex \in Nat /\ MaxFaults \in Nat
  /\ MaxMasks \in Nat /\ MaxSmokeCrops \in Nat /\ MaxCleanCrops \in Nat
  /\ FrameCounts \subseteq Nat /\ LowMax \in 1..99 /\ ModerateMax \in 1..99
BY ScanAssumption

(* The parts of the next-state relation, with what its frames are.         *)
LEMMA StepsAre ==
  ASSUME Next
  PROVE  \/ Start \/ CannotLoad \/ LoadImage
         \/ \E count \in Nat : ProbeVideo(count)
         \/ ReopenFails \/ DecoderHiccup \/ PassOver \/ EndOfFrames \/ SkipFrame
         \/ \E f \in Seq(Detection) : \E badCrops, badMasks \in SUBSET DOMAIN f :
              ProcessFrame(f, badCrops, badMasks)
         \/ \E stuck \in SUBSET masks : Aggregate(stuck)
         \/ StartWriting \/ WriteFrame \/ Finish
<1>1. ASSUME NEW count \in FrameCounts, ProbeVideo(count)
      PROVE  \E c \in Nat : ProbeVideo(c)
  BY <1>1, Sizes
<1>2. ASSUME NEW f \in {Process(raw) : raw \in FrameMenu}, NEW badCrops \in SUBSET DOMAIN f,
             NEW badMasks \in SUBSET {i \in DOMAIN f : Fired(f)[i]},
             ProcessFrame(f, badCrops, badMasks)
      PROVE  \E g \in Seq(Detection) : \E bc, bm \in SUBSET DOMAIN g : ProcessFrame(g, bc, bm)
  <2>1. f \in Seq(Detection)
    BY FramesAre
  <2>2. badMasks \in SUBSET DOMAIN f
    OBVIOUS
  <2> HIDE DEF ProcessFrame
  <2> QED BY <1>2, <2>1, <2>2
<1> QED BY <1>1, <1>2 DEF Next

(* Caught faults of a frame are counted.                                   *)
LEMMA FaultsOfAFrame ==
  ASSUME NEW f \in Seq(Detection), NEW S \in SUBSET DOMAIN f
  PROVE  IsFiniteSet(S) /\ Cardinality(S) \in Nat
<1>1. Len(f) \in Nat /\ S \subseteq 1..Len(f)
  OBVIOUS
<1>2. IsFiniteSet(S) /\ Cardinality(S) \in 0..Len(f)
  BY <1>1, PartsAreFinite
<1> QED BY <1>1, <1>2

(* Every step keeps the counters of the scan within their bounds.          *)
LEMMA CountsStep ==
  ASSUME CountsInv, RecordsInv, masks \subseteq DOMAIN records, Next
  PROVE  CountsInv'
<1> USE Sizes
<1> DEFINE Reader == [index : Nat, emitted : 0..MaxFrames, failures : 0..(MaxReadFailures - 1)]
<1>1. /\ reader \in Reader /\ processed \in 0..reader.emitted
      /\ reader.index \in Nat /\ reader.emitted \in 0..MaxFrames
      /\ reader.failures \in 0..(MaxReadFailures - 1) /\ faults \in 0..MaxFaults
  BY DEF CountsInv
<1>2. ASSUME Start PROVE CountsInv'
  BY <1>2 DEF Start, scanned, outcome, CountsInv
<1>3. ASSUME CannotLoad \/ ReopenFails \/ EndOfFrames PROVE CountsInv'
  BY <1>3 DEF CannotLoad, ReopenFails, EndOfFrames, scanned, outcome, CountsInv
<1>4. ASSUME LoadImage PROVE CountsInv'
  BY <1>4 DEF LoadImage, scanned, outcome, CountsInv
<1>5. ASSUME NEW count \in Nat, ProbeVideo(count) PROVE CountsInv'
  <2>1. count \div SampleRate \in Nat
    OBVIOUS
  <2>2. Expected(count) \in 1..MaxFrames
    BY <2>1 DEF Expected, Smaller
  <2> QED BY <1>5, <2>2 DEF ProbeVideo, scanned, outcome, CountsInv
<1>0. ASSUME NEW n \in 0..(MaxReadFailures - 1),
             reader' = [reader EXCEPT !.index = @ + 1, !.failures = n]
      PROVE  reader' \in Reader /\ reader'.emitted = reader.emitted
  <2>1. reader' = [index |-> reader.index + 1, emitted |-> reader.emitted, failures |-> n]
    BY <1>0, <1>1
  <2> QED BY <1>1, <2>1
<1>6. ASSUME DecoderHiccup PROVE CountsInv'
  <2>1. reader' \in Reader /\ reader'.emitted = reader.emitted
    <3>1. CASE reader' = reader
      BY <1>1, <3>1
    <3>2. CASE /\ reader.failures + 1 # MaxReadFailures
               /\ reader' = [reader EXCEPT !.index = @ + 1, !.failures = @ + 1]
      <4>1. reader.failures + 1 \in 0..(MaxReadFailures - 1)
        BY <1>1, <3>2
      <4>2. reader' = [reader EXCEPT !.index = @ + 1, !.failures = reader.failures + 1]
        BY <3>2
      <4> QED BY <1>0, <4>1, <4>2
    <3> QED BY <1>6, <3>1, <3>2 DEF DecoderHiccup
  <2> QED BY <1>1, <1>6, <2>1 DEF DecoderHiccup, outcome, CountsInv
<1>7. ASSUME PassOver PROVE CountsInv'
  <2>1. reader' \in Reader /\ reader'.emitted = reader.emitted
    <3>1. 0 \in 0..(MaxReadFailures - 1)
      OBVIOUS
    <3>2. reader' = [reader EXCEPT !.index = @ + 1, !.failures = 0]
      BY <1>7 DEF PassOver
    <3> QED BY <1>0, <3>1, <3>2
  <2> QED BY <1>1, <1>7, <2>1 DEF PassOver, outcome, CountsInv
<1>8. ASSUME Sampled, NextFrame
      PROVE  reader' \in Reader /\ reader'.emitted = reader.emitted + 1
  BY <1>1, <1>8 DEF Sampled, Reading, NextFrame
<1>9. ASSUME SkipFrame PROVE CountsInv'
  <2>1. reader' \in Reader /\ reader'.emitted = reader.emitted + 1
    BY <1>8, <1>9 DEF SkipFrame
  <2> QED BY <1>1, <1>9, <2>1 DEF SkipFrame, outcome, CountsInv
<1>10. ASSUME NEW f \in Seq(Detection), NEW badCrops \in SUBSET DOMAIN f,
              NEW badMasks \in SUBSET DOMAIN f, ProcessFrame(f, badCrops, badMasks)
       PROVE  CountsInv'
  <2>1. reader' \in Reader /\ reader'.emitted = reader.emitted + 1
    BY <1>8, <1>10 DEF ProcessFrame
  <2>2. Cardinality(badCrops) \in Nat /\ Cardinality(badMasks) \in Nat
    BY FaultsOfAFrame
  <2>3. /\ faults' = faults + Cardinality(badCrops) + Cardinality(badMasks)
        /\ faults' <= MaxFaults /\ processed' = processed + 1
        /\ UNCHANGED <<kind, expected>>
    BY <1>10 DEF ProcessFrame
  <2>4. processed' \in 0..reader'.emitted
    BY <1>1, <2>1, <2>3
  <2>5. faults' \in 0..MaxFaults
    BY <1>1, <2>2, <2>3
  <2> QED BY <1>1, <2>1, <2>3, <2>4, <2>5 DEF CountsInv
<1>11. ASSUME NEW stuck \in SUBSET masks, Aggregate(stuck) PROVE CountsInv'
  <2>1. Cardinality(stuck) \in Nat
    <3>1. Len(records) \in Nat /\ stuck \subseteq 1..Len(records)
      BY DEF RecordsInv
    <3>2. Cardinality(stuck) \in 0..Len(records)
      BY <3>1, PartsAreFinite
    <3> QED BY <3>1, <3>2
  <2>2. /\ faults' = faults \/ (faults' = faults + Cardinality(stuck) /\ faults' <= MaxFaults)
        /\ UNCHANGED <<kind, expected, reader, processed>>
    BY <1>11 DEF Aggregate, Discard
  <2> QED BY <1>1, <2>1, <2>2 DEF CountsInv
<1>12. ASSUME StartWriting \/ Finish PROVE CountsInv'
  BY <1>12 DEF StartWriting, Finish, scanned, outcome, CountsInv
<1>13. ASSUME WriteFrame PROVE CountsInv'
  <2>1. /\ faults' = faults \/ (faults' = faults + 1 /\ faults < MaxFaults)
        /\ UNCHANGED <<kind, expected, reader, processed>>
    BY <1>13 DEF WriteFrame
  <2> QED BY <1>1, <2>1 DEF CountsInv
<1> QED BY <1>2, <1>3, <1>4, <1>5, <1>6, <1>7, <1>9, <1>10, <1>11, <1>12, <1>13, StepsAre, Zenon

(* The masks a frame is granted.                                           *)
NewMasks(f, badMasks) ==
  Granted({i \in DOMAIN f : f[i].smoke # None} \ badMasks, budget.masks, MaxMasks)

(* What a processed frame adds: a record for each detection, with its      *)
(* smoke, and the masks it is granted.                                     *)
LEMMA VehiclesAdded ==
  ASSUME RecordsInv, reader.index \in Nat, budget.masks <= MaxMasks,
         NEW f \in Seq(Detection), NEW badCrops \in SUBSET DOMAIN f,
         NEW badMasks \in SUBSET DOMAIN f, AddVehicles(f, badCrops, badMasks)
  PROVE  /\ RecordsInv'
         /\ Len(records) \in Nat /\ Len(f) \in Nat /\ DOMAIN f = 1..Len(f)
         /\ DOMAIN records = 1..Len(records) /\ DOMAIN records' = 1..(Len(records) + Len(f))
         /\ \A k \in 1..Len(records) : records'[k] = records[k]
         /\ \A i \in 1..Len(f) :
              /\ records'[Len(records) + i].smoke = f[i].smoke
              /\ records'[Len(records) + i].mask <=> i \in NewMasks(f, badMasks)
         /\ NewMasks(f, badMasks) \subseteq {i \in 1..Len(f) : f[i].smoke # None}
         /\ IsFiniteSet(NewMasks(f, badMasks))
         /\ budget'.masks = budget.masks + Cardinality(NewMasks(f, badMasks))
         /\ budget'.masks <= MaxMasks
<1> DEFINE n == Len(records)  m == Len(f)
           smoking    == {i \in DOMAIN f : f[i].smoke # None}
           smokeCrops == Granted(smoking \ badCrops, budget.smoke, MaxSmokeCrops)
           cleanCrops == Granted((DOMAIN f \ smoking) \ badCrops, budget.clean, MaxCleanCrops)
           N          == NewMasks(f, badMasks)
           New == [i \in DOMAIN f |->
                     [frame |-> reader.index, smoke |-> f[i].smoke,
                      crop |-> i \in smokeCrops \union cleanCrops, mask |-> i \in N]]
<1>1. n \in Nat /\ m \in Nat /\ DOMAIN f = 1..m /\ DOMAIN records = 1..n
  BY DEF RecordsInv
<1>2. /\ records' = records \o New
      /\ budget' = [smoke |-> budget.smoke + Cardinality(smokeCrops),
                    clean |-> budget.clean + Cardinality(cleanCrops),
                    masks |-> budget.masks + Cardinality(N)]
  BY DEF AddVehicles, NewMasks
<1>3. /\ budget.smoke \in Nat /\ budget.clean \in Nat /\ budget.masks \in Nat
      /\ records \in Seq(Vehicle)
  BY DEF RecordsInv
<1>4. smokeCrops \subseteq 1..m /\ cleanCrops \subseteq 1..m
  BY <1>1 DEF Granted
<1>5. Cardinality(smokeCrops) \in 0..m /\ Cardinality(cleanCrops) \in 0..m
  <2> HIDE DEF smokeCrops, cleanCrops
  <2> QED BY <1>1, <1>4, PartsAreFinite
<1>6. /\ N \subseteq smoking \ badMasks /\ IsFiniteSet(N) /\ Cardinality(N) \in Nat
      /\ budget.masks + Cardinality(N) <= MaxMasks
  <2>1. smoking \ badMasks \subseteq 1..m
    BY <1>1
  <2> HIDE DEF smoking
  <2>2. /\ Granted(smoking \ badMasks, budget.masks, MaxMasks) \subseteq smoking \ badMasks
        /\ IsFiniteSet(Granted(smoking \ badMasks, budget.masks, MaxMasks))
        /\ Cardinality(Granted(smoking \ badMasks, budget.masks, MaxMasks)) \in Nat
        /\ budget.masks + Cardinality(Granted(smoking \ badMasks, budget.masks, MaxMasks))
             <= MaxMasks
    BY <1>1, <1>3, <2>1, Sizes, GrantedFits
  <2> QED BY <2>2 DEF NewMasks, smoking
<1>7. \A i \in 1..m : f[i].smoke \in 0..100
  <2>1. \A i \in 1..m : f[i] \in Detection
    OBVIOUS
  <2> QED BY <2>1 DEF Detection
<1> HIDE DEF smokeCrops, cleanCrops, N
<1>8. New \in [1..m -> Vehicle]
  <2>1. \A a \in Nat, b \in 0..100, c \in BOOLEAN, d \in BOOLEAN :
          [frame |-> a, smoke |-> b, crop |-> c, mask |-> d] \in Vehicle
    BY DEF Vehicle
  <2>2. \A i \in 1..m :
          [frame |-> reader.index, smoke |-> f[i].smoke,
           crop |-> i \in smokeCrops \union cleanCrops, mask |-> i \in N] \in Vehicle
    <3> SUFFICES ASSUME NEW i \in 1..m
                 PROVE  [frame |-> reader.index, smoke |-> f[i].smoke,
                         crop |-> i \in smokeCrops \union cleanCrops, mask |-> i \in N]
                          \in Vehicle
      OBVIOUS
    <3>1. (i \in smokeCrops \union cleanCrops) \in BOOLEAN
      OBVIOUS
    <3>2. (i \in N) \in BOOLEAN
      OBVIOUS
    <3> QED BY <1>7, <2>1, <3>1, <3>2, Zenon
  <2> QED BY <1>1, <2>2, Zenon
<1>9. \A i \in 1..m : New[i].smoke = f[i].smoke /\ (New[i].mask <=> i \in N)
  BY <1>1
<1> HIDE DEF New
<1>10. New \in Seq(Vehicle) /\ Len(New) = m
  BY <1>1, <1>8
<1>11. /\ records' \in Seq(Vehicle) /\ DOMAIN records' = 1..(n + m)
       /\ \A k \in 1..n : records'[k] = records[k]
       /\ \A i \in 1..m : records'[n + i] = New[i]
  <2>1. \A s, t \in Seq(Vehicle) :
          /\ s \o t \in Seq(Vehicle) /\ DOMAIN (s \o t) = 1..(Len(s) + Len(t))
          /\ \A k \in 1..Len(s) : (s \o t)[k] = s[k]
          /\ \A i \in 1..Len(t) : (s \o t)[Len(s) + i] = t[i]
    OBVIOUS
  <2>2. /\ records \o New \in Seq(Vehicle) /\ DOMAIN (records \o New) = 1..(n + m)
        /\ \A k \in 1..n : (records \o New)[k] = records[k]
        /\ \A i \in 1..m : (records \o New)[n + i] = New[i]
    <3>1. /\ records \o New \in Seq(Vehicle)
          /\ DOMAIN (records \o New) = 1..(Len(records) + Len(New))
          /\ \A k \in 1..Len(records) : (records \o New)[k] = records[k]
          /\ \A i \in 1..Len(New) : (records \o New)[Len(records) + i] = New[i]
      BY <1>3, <1>10, <2>1, Zenon
    <3> QED BY <1>10, <3>1, Zenon
  <2> QED BY <1>2, <2>2, Zenon
<1>12. budget' \in [smoke : Nat, clean : Nat, masks : Nat]
  <2>1. /\ budget.smoke + Cardinality(smokeCrops) \in Nat
        /\ budget.clean + Cardinality(cleanCrops) \in Nat
        /\ budget.masks + Cardinality(N) \in Nat
    <3>1. Cardinality(smokeCrops) \in Nat /\ Cardinality(cleanCrops) \in Nat
      BY <1>1, <1>5
    <3>2. Cardinality(N) \in Nat
      BY <1>6
    <3>3. budget.smoke \in Nat /\ budget.clean \in Nat /\ budget.masks \in Nat
      BY <1>3
    <3>4. \A a, b \in Nat : a + b \in Nat
      OBVIOUS
    <3> QED BY <3>1, <3>2, <3>3, <3>4, Zenon
  <2> QED BY <1>2, <2>1
<1>13. RecordsInv'
  BY <1>11, <1>12 DEF RecordsInv
<1>14. budget'.masks = budget.masks + Cardinality(N)
  BY <1>2
<1>15. N \subseteq {i \in 1..m : f[i].smoke # None}
  BY <1>1, <1>6
<1>16. \A i \in 1..m :
         records'[n + i].smoke = f[i].smoke /\ (records'[n + i].mask <=> i \in N)
  BY <1>9, <1>11
<1> QED BY <1>1, <1>6, <1>11, <1>13, <1>14, <1>15, <1>16 DEF N

(* The smoke found is the smoke of the records, of a new frame too.        *)
LEMMA RegionsOfAFrame ==
  ASSUME RecordsInv, RegionsInv, MasksInv, reader.index \in Nat,
         NEW f \in Seq(Detection), NEW badCrops \in SUBSET DOMAIN f,
         NEW badMasks \in SUBSET DOMAIN f, AddVehicles(f, badCrops, badMasks)
  PROVE  RegionsInv'
<1> DEFINE n == Len(records)  m == Len(f)
<1>1. /\ n \in Nat /\ m \in Nat /\ DOMAIN f = 1..m
      /\ DOMAIN records = 1..n /\ DOMAIN records' = 1..(n + m)
      /\ \A k \in 1..n : records'[k] = records[k]
      /\ \A i \in 1..m : records'[n + i].smoke = f[i].smoke
  BY VehiclesAdded DEF MasksInv
<1>2. regions' = regions \union
                   {[vehicle |-> n + i, severity |-> Rank(f[i].smoke)] :
                      i \in {j \in DOMAIN f : f[j].smoke # None}}
  BY DEF AddVehicles
<1>3. regions = {[vehicle |-> k, severity |-> Rank(records[k].smoke)] : k \in Smoking}
  BY DEF RegionsInv
<1> HIDE DEF n, m
<1>4. \A k \in Smoking' : k \in Smoking \/ \E i \in {j \in DOMAIN f : f[j].smoke # None} : k = n + i
  <2>1. SUFFICES ASSUME NEW k \in 1..(n + m), records'[k].smoke # None, k \notin Smoking
                 PROVE  \E i \in {j \in DOMAIN f : f[j].smoke # None} : k = n + i
    BY <1>1 DEF Smoking
  <2>2. k \notin 1..n
    BY <1>1, <2>1 DEF Smoking
  <2>3. k - n \in 1..m /\ k = n + (k - n)
    BY <1>1, <2>2
  <2> QED BY <1>1, <2>1, <2>3
<1>5. \A k \in Smoking : k \in Smoking' /\ records'[k] = records[k]
  BY <1>1 DEF Smoking
<1>6. \A i \in {j \in DOMAIN f : f[j].smoke # None} :
        n + i \in Smoking' /\ records'[n + i].smoke = f[i].smoke
  BY <1>1 DEF Smoking
<1> DEFINE New == {j \in DOMAIN f : f[j].smoke # None}
<1>7. \A x : x \in regions' <=>
        \E k \in Smoking' : x = [vehicle |-> k, severity |-> Rank(records'[k].smoke)]
  <2>1. ASSUME NEW x \in regions'
        PROVE  \E k \in Smoking' : x = [vehicle |-> k, severity |-> Rank(records'[k].smoke)]
    <3>1. CASE x \in regions
      <4>1. PICK k \in Smoking : x = [vehicle |-> k, severity |-> Rank(records[k].smoke)]
        BY <1>3, <3>1
      <4> QED BY <1>5, <4>1
    <3>2. CASE x \notin regions
      <4>1. PICK i \in New : x = [vehicle |-> n + i, severity |-> Rank(f[i].smoke)]
        BY <1>2, <3>2
      <4> QED BY <1>6, <4>1
    <3> QED BY <3>1, <3>2
  <2>2. ASSUME NEW k \in Smoking'
        PROVE  [vehicle |-> k, severity |-> Rank(records'[k].smoke)] \in regions'
    <3>1. CASE k \in Smoking
      BY <1>2, <1>3, <1>5, <3>1
    <3>2. CASE k \notin Smoking
      <4>1. PICK i \in New : k = n + i
        BY <1>4, <3>2
      <4> QED BY <1>2, <1>6, <4>1
    <3> QED BY <3>1, <3>2
  <2> QED BY <2>1, <2>2
<1> QED BY <1>7 DEF RegionsInv

(* While no smoke is discarded, the masks on disk are those of the         *)
(* records, and the budget counts them.                                    *)
LEMMA MasksOfAFrame ==
  ASSUME RecordsInv, MasksInv, reader.index \in Nat, pc = "detecting",
         NEW f \in Seq(Detection), NEW badCrops \in SUBSET DOMAIN f,
         NEW badMasks \in SUBSET DOMAIN f, AddVehicles(f, badCrops, badMasks),
         UNCHANGED <<pc, transient>>
  PROVE  MasksInv'
<1> DEFINE n == Len(records)  m == Len(f)  N == NewMasks(f, badMasks)
<1>1. /\ n \in Nat /\ m \in Nat /\ DOMAIN f = 1..m
      /\ DOMAIN records = 1..n /\ DOMAIN records' = 1..(n + m)
      /\ \A k \in 1..n : records'[k] = records[k]
      /\ \A i \in 1..m : records'[n + i].smoke = f[i].smoke
      /\ \A i \in 1..m : records'[n + i].mask <=> i \in N
      /\ N \subseteq {i \in 1..m : f[i].smoke # None} /\ IsFiniteSet(N)
      /\ budget'.masks = budget.masks + Cardinality(N) /\ budget'.masks <= MaxMasks
  BY VehiclesAdded DEF MasksInv
<1>2. masks' = masks \union {n + i : i \in N}
  BY DEF AddVehicles, NewMasks
<1>3. /\ ~transient /\ masks = Masked /\ Masked \subseteq Smoking
      /\ Cardinality(masks) <= budget.masks /\ budget.masks \in Nat
  BY DEF MasksInv, RecordsInv, Scanning
<1> HIDE DEF n, m, N
<1>4. masks' = Masked'
  <2>1. \A k \in 1..n : k \in Masked' <=> k \in Masked
    BY <1>1 DEF Masked
  <2>2. \A i \in 1..m : n + i \in Masked' <=> i \in N
    BY <1>1 DEF Masked
  <2>3. \A k \in 1..(n + m) : k \in 1..n \/ (k - n \in 1..m /\ k = n + (k - n))
    BY <1>1
  <2>4. Masked' \subseteq 1..(n + m) /\ Masked \subseteq 1..n /\ N \subseteq 1..m
    BY <1>1 DEF Masked
  <2>5. \A k \in Masked' : k \in masks'
    BY <1>2, <1>3, <2>1, <2>2, <2>3, <2>4
  <2>6. \A k \in masks' : k \in Masked'
    BY <1>2, <1>3, <2>1, <2>2, <2>4
  <2> QED BY <2>5, <2>6
<1>5. Masked' \subseteq Smoking'
  <2>1. SUFFICES ASSUME NEW k \in masks' PROVE k \in Smoking'
    BY <1>4
  <2>2. CASE k \in masks
    BY <1>1, <1>3, <2>2 DEF Smoking
  <2>3. CASE k \notin masks
    <3>1. PICK i \in N : k = n + i
      BY <1>2, <2>3
    <3> QED BY <1>1, <3>1 DEF Smoking
  <2> QED BY <2>2, <2>3
<1>6. Cardinality(masks') <= budget'.masks
  <2> DEFINE g == [i \in N |-> n + i]  I == {g[i] : i \in N}
  <2>1. DOMAIN g = N /\ masks' = masks \union I
    BY <1>2
  <2> HIDE DEF g
  <2>2. IsFiniteSet(I) /\ Cardinality(I) <= Cardinality(N)
    BY <1>1, <2>1, ImagesAreFinite
  <2>3. masks \subseteq 1..n
    BY <1>1, <1>3 DEF Masked
  <2>4. IsFiniteSet(masks)
    BY <1>1, <2>3, PartsAreFinite
  <2> HIDE DEF I
  <2>5. /\ IsFiniteSet(masks \cap I)
        /\ Cardinality(masks \union I)
             = Cardinality(masks) + Cardinality(I) - Cardinality(masks \cap I)
    BY <2>2, <2>4, FS_Union, FS_Intersection
  <2>6. /\ Cardinality(masks) \in Nat /\ Cardinality(I) \in Nat /\ Cardinality(N) \in Nat
        /\ Cardinality(masks \cap I) \in Nat
    BY <1>1, <2>2, <2>4, <2>5, FS_CardinalityType
  <2> QED BY <1>1, <1>3, <2>1, <2>2, <2>5, <2>6
<1>7. masks' \subseteq DOMAIN records'
  BY <1>4 DEF Masked
<1>8. ~transient'
  BY <1>3
<1> QED BY <1>1, <1>4, <1>5, <1>6, <1>7, <1>8 DEF MasksInv

(* The percentage of processed frames of those expected.                   *)
Share(done) == (32 * Smaller(done, expected)) \div expected

(* The share grows with the frames, and stays within 32.                   *)
LEMMA SharesGrow ==
  ASSUME expected \in Nat \ {0}, NEW a \in Nat, NEW b \in Nat, a <= b
  PROVE  Share(a) \in 0..32 /\ Share(b) \in 0..32 /\ Share(a) <= Share(b)
<1> DEFINE x == Smaller(a, expected)  y == Smaller(b, expected)
<1>1. x \in Nat /\ y \in Nat /\ x <= y /\ y <= expected
  BY DEF Smaller
<1> HIDE DEF x, y
<1>2. 32 * x \in Nat /\ 32 * y \in Nat /\ 32 * x <= 32 * y /\ 32 * y <= 32 * expected
  BY <1>1
<1>3. \A p, q \in Nat : p <= q => p \div expected <= q \div expected
  OBVIOUS
<1>4. \A p \in Nat : p <= 32 * expected => p \div expected \in 0..32
  OBVIOUS
<1>5. (32 * x) \div expected <= (32 * y) \div expected
  BY <1>2, <1>3
<1>6. (32 * x) \div expected \in 0..32 /\ (32 * y) \div expected \in 0..32
  <2>1. 32 * x <= 32 * expected
    BY <1>1, <1>2
  <2> QED BY <1>2, <1>4, <2>1
<1> QED BY <1>5, <1>6 DEF Share, x, y

(* Whatever the guess of the frame count, what is announced for a frame is *)
(* between 40 and 72 and not below what was announced before.              *)
LEMMA AnnounceRises ==
  ASSUME CountsInv, PercentInv, pc = "detecting", Announce
  PROVE  /\ percent' \in 40..72 /\ percent <= percent'
         /\ expected > 1 => percent' <= 40 + Share(processed + 1)
<1>1. expected \in Nat \ {0} /\ processed \in Nat
  BY Sizes DEF CountsInv
<1>2. \/ processed = 0 /\ percent = 15
      \/ /\ processed > 0 /\ percent \in 40..72
         /\ expected > 1 => percent <= 40 + Share(processed)
  BY DEF PercentInv, Share
<1>3. percent' = IF processed = 0 THEN 40
                 ELSE IF expected > 1 THEN 40 + Share(processed + 1) ELSE percent
  BY DEF Announce, Share
<1>4. /\ Share(processed) \in 0..32 /\ Share(processed + 1) \in 0..32
      /\ Share(processed) <= Share(processed + 1)
  BY <1>1, SharesGrow
<1> QED BY <1>1, <1>2, <1>3, <1>4

(* No step lowers the percentage.                                          *)
LEMMA PercentStep ==
  ASSUME CountsInv, PercentInv, Next
  PROVE  PercentInv' /\ percent \in 0..100 /\ percent' \in 0..100 /\ percent <= percent'
<1> DEFINE Rises == PercentInv' /\ percent \in 0..100 /\ percent' \in 0..100 /\ percent <= percent'
<1>1. processed \in Nat
  BY Sizes DEF CountsInv
<1>2. ASSUME pc = "detecting" PROVE percent \in 15..72 /\ (processed = 0 \/ percent \in 40..72)
                                    /\ (processed = 0 => percent = 15)
  BY <1>1, <1>2 DEF PercentInv
<1>3. ASSUME Start PROVE Rises
  BY <1>3 DEF Start, scanned, PercentInv
<1>4. ASSUME CannotLoad PROVE Rises
  BY <1>4 DEF CannotLoad, PercentInv
<1>5. ASSUME ReopenFails PROVE Rises
  <2>1. pc = "detecting" /\ pc' = "failed" /\ percent' = percent
    BY <1>5 DEF ReopenFails
  <2> QED BY <1>2, <2>1 DEF PercentInv
<1>6. ASSUME LoadImage \/ \E count \in Nat : ProbeVideo(count) PROVE Rises
  <2>1. pc = "loading" /\ pc' = "detecting" /\ percent' = 15 /\ processed' = processed
    BY <1>6 DEF LoadImage, ProbeVideo, scanned
  <2>2. percent = 5 /\ processed = 0
    BY <2>1 DEF PercentInv
  <2> QED BY <2>1, <2>2 DEF PercentInv
<1>7. ASSUME DecoderHiccup \/ EndOfFrames \/ PassOver \/ SkipFrame PROVE Rises
  <2>1. /\ pc = "detecting" /\ processed' = processed /\ expected' = expected
        /\ \/ pc' = "detecting" /\ percent' = percent
           \/ pc' = "scanned" /\ percent' = IF processed = 0 THEN 40 ELSE percent
    BY <1>7 DEF DecoderHiccup, EndOfFrames, PassOver, SkipFrame, Reading, Sampled, scanned
  <2>2. CASE pc' = "detecting" /\ percent' = percent
    <3>1. PercentInv'
      BY <2>1, <2>2 DEF PercentInv
    <3> QED BY <1>2, <2>1, <2>2, <3>1
  <2>3. CASE pc' = "scanned" /\ percent' = IF processed = 0 THEN 40 ELSE percent
    <3>1. percent' \in 40..72 /\ percent <= percent'
      BY <1>2, <2>1, <2>3
    <3> QED BY <1>2, <2>1, <2>3, <3>1 DEF PercentInv
  <2> QED BY <2>1, <2>2, <2>3
<1>8. ASSUME NEW f \in Seq(Detection), NEW badCrops \in SUBSET DOMAIN f,
             NEW badMasks \in SUBSET DOMAIN f, ProcessFrame(f, badCrops, badMasks)
      PROVE  Rises
  <2>1. /\ pc = "detecting" /\ pc' = "detecting" /\ Announce
        /\ processed' = processed + 1 /\ expected' = expected
    BY <1>8 DEF ProcessFrame, Sampled, Reading
  <2>2. /\ percent' \in 40..72 /\ percent <= percent'
        /\ expected > 1 => percent' <= 40 + Share(processed + 1)
    BY <2>1, AnnounceRises
  <2>3. Share(processed + 1) = (32 * Smaller(processed', expected')) \div expected'
    BY <2>1 DEF Share
  <2>4. PercentInv'
    BY <1>1, <2>1, <2>2, <2>3 DEF PercentInv
  <2> QED BY <1>2, <2>1, <2>2, <2>4
<1>9. ASSUME NEW stuck, Aggregate(stuck) PROVE Rises
  <2>1. pc = "scanned" /\ pc' = "aggregated" /\ percent' = 75
    BY <1>9 DEF Aggregate
  <2> QED BY <2>1 DEF PercentInv
<1>10. ASSUME StartWriting PROVE Rises
  <2>1. pc = "aggregated" /\ pc' = "writing" /\ percent' = 90
    BY <1>10 DEF StartWriting
  <2> QED BY <2>1 DEF PercentInv
<1>11. ASSUME WriteFrame PROVE Rises
  <2>1. pc = "writing" /\ pc' = "writing" /\ percent' = percent
    BY <1>11 DEF WriteFrame
  <2> QED BY <2>1 DEF PercentInv
<1>12. ASSUME Finish PROVE Rises
  <2>1. pc = "writing" /\ pc' = "done" /\ percent' = 100
    BY <1>12 DEF Finish
  <2> QED BY <2>1 DEF PercentInv
<1> HIDE DEF Rises
<1>13. Rises
  BY <1>3, <1>4, <1>5, <1>6, <1>7, <1>8, <1>9, <1>10, <1>11, <1>12, StepsAre, Zenon
<1> QED BY <1>13 DEF Rises

(* A discarded smoke is discarded everywhere: in the records, in what was  *)
(* found and on disk, save for masks that could not be unlinked.           *)
LEMMA DiscardedEverywhere ==
  ASSUME CountsInv, RecordsInv, MasksInv, NEW stuck \in SUBSET masks,
         Aggregate(stuck), IsTransient
  PROVE  RecordsInv' /\ RegionsInv' /\ MasksInv'
<1> DEFINE Without(r) == [r EXCEPT !.smoke = None, !.mask = FALSE]
<1>1. /\ records' = [k \in DOMAIN records |-> Without(records[k])]
      /\ masks' = stuck /\ regions' = {} /\ budget' = budget
      /\ faults' = faults + Cardinality(stuck) /\ pc' = "aggregated"
  BY DEF Aggregate, Discard
<1>2. transient' <=> TRUE
  BY DEF Aggregate
<1>3. records \in Seq(Vehicle) /\ budget \in [smoke : Nat, clean : Nat, masks : Nat]
  BY DEF RecordsInv
<1>4. \A r \in Vehicle : /\ Without(r) \in Vehicle
                         /\ Without(r).smoke = None /\ Without(r).mask = FALSE
  <2>1. \A r \in Vehicle, x \in 0..100, d \in BOOLEAN :
          [r EXCEPT !.smoke = x, !.mask = d] \in Vehicle
    BY DEF Vehicle
  <2>2. None \in 0..100 /\ FALSE \in BOOLEAN
    BY DEF None
  <2>3. \A r \in Vehicle : Without(r) \in Vehicle
    BY <2>1, <2>2, Zenon
  <2>4. \A r \in Vehicle : Without(r).smoke = None /\ Without(r).mask = FALSE
    BY DEF Vehicle
  <2> QED BY <2>3, <2>4
<1> HIDE DEF Without
<1>5. /\ Len(records) \in Nat /\ DOMAIN records = 1..Len(records)
      /\ \A k \in 1..Len(records) : records[k] \in Vehicle
  BY <1>3
<1>6. records' \in [1..Len(records) -> Vehicle]
  BY <1>1, <1>4, <1>5
<1>7. records' \in Seq(Vehicle) /\ DOMAIN records' = DOMAIN records
  BY <1>5, <1>6
<1>8. \A k \in DOMAIN records' : records'[k].smoke = None /\ records'[k].mask = FALSE
  BY <1>1, <1>4, <1>5, <1>7
<1>9. Smoking' = {} /\ Masked' = {}
  BY <1>8 DEF Smoking, Masked
<1>10. /\ Cardinality(stuck) \in Nat /\ Cardinality(stuck) <= Cardinality(masks)
       /\ Cardinality(masks) \in Nat
  <2>1. masks \subseteq 1..Len(records)
    BY <1>5 DEF MasksInv
  <2>2. IsFiniteSet(masks) /\ Cardinality(masks) \in 0..Len(records)
    BY <1>5, <2>1, PartsAreFinite
  <2>3. IsFiniteSet(stuck) /\ Cardinality(stuck) <= Cardinality(masks)
    BY <2>2, FS_Subset
  <2> QED BY <1>5, <2>2, <2>3, FS_CardinalityType
<1>11. RecordsInv'
  BY <1>1, <1>3, <1>7 DEF RecordsInv
<1>12. RegionsInv'
  BY <1>1, <1>9 DEF RegionsInv
<1>13. MasksInv'
  <2>1. faults \in Nat /\ budget.masks \in Nat /\ MaxMasks \in Nat
    BY <1>3, Sizes DEF CountsInv
  <2>2. masks \subseteq DOMAIN records /\ Cardinality(masks) <= budget.masks
        /\ budget.masks <= MaxMasks
    BY DEF MasksInv
  <2>3. Cardinality(masks') <= faults' /\ Cardinality(masks') <= budget'.masks
        /\ budget'.masks <= MaxMasks
    BY <1>1, <1>10, <2>1, <2>2
  <2>4. masks' \subseteq DOMAIN records' /\ pc' \notin Scanning
    BY <1>1, <1>7, <2>2 DEF Scanning
  <2> QED BY <1>2, <1>9, <2>3, <2>4 DEF MasksInv
<1> QED BY <1>11, <1>12, <1>13

(* Steps that leave the records and the masks alone.                       *)
LEMMA RecordsFrame ==
  ASSUME CountsInv, RecordsInv, RegionsInv, MasksInv,
         UNCHANGED <<records, regions, budget, masks, transient>>,
         faults' \in Nat, faults <= faults', pc' \in Scanning => pc \in Scanning
  PROVE  RecordsInv' /\ RegionsInv' /\ MasksInv'
<1>1. RecordsInv' /\ RegionsInv' /\ Smoking' = Smoking /\ Masked' = Masked
  BY DEF RecordsInv, RegionsInv, Smoking, Masked
<1>2. faults \in Nat /\ Cardinality(masks) \in Nat
  <2>1. faults \in Nat
    BY Sizes DEF CountsInv
  <2>2. Len(records) \in Nat /\ masks \subseteq 1..Len(records)
    BY DEF RecordsInv, MasksInv
  <2>3. Cardinality(masks) \in 0..Len(records)
    BY <2>2, PartsAreFinite
  <2> QED BY <2>1, <2>2, <2>3
<1>3. transient => Cardinality(masks') <= faults'
  <2>1. transient => Cardinality(masks) <= faults
    BY DEF MasksInv
  <2> QED BY <1>2, <2>1
<1>4. masks' = masks /\ budget' = budget /\ records' = records /\ (transient' <=> transient)
  OBVIOUS
<1> QED BY <1>1, <1>3, <1>4 DEF MasksInv

(* Every step keeps records, smoke and masks consistent.                   *)
LEMMA RecordsStep ==
  ASSUME CountsInv, RecordsInv, RegionsInv, MasksInv, Next
  PROVE  RecordsInv' /\ RegionsInv' /\ MasksInv'
<1> DEFINE Kept == RecordsInv' /\ RegionsInv' /\ MasksInv'
           Frame == /\ UNCHANGED <<records, regions, budget, masks, transient>>
                    /\ faults' = faults \/ faults' = faults + 1
                    /\ pc' \in Scanning => pc \in Scanning
<1>1. faults \in Nat /\ reader.index \in Nat
  BY Sizes DEF CountsInv
<1>2. ASSUME Frame PROVE Kept
  <2>1. faults' \in Nat /\ faults <= faults'
    BY <1>1, <1>2
  <2> QED BY <1>2, <2>1, RecordsFrame
<1> USE DEF Scanning, scanned, outcome
<1>3. ASSUME Start \/ CannotLoad \/ LoadImage PROVE Frame
  BY <1>3 DEF Start, CannotLoad, LoadImage
<1>4. ASSUME (\E count \in Nat : ProbeVideo(count)) \/ ReopenFails PROVE Frame
  BY <1>4 DEF ProbeVideo, ReopenFails
<1>5. ASSUME DecoderHiccup \/ PassOver PROVE Frame
  BY <1>5 DEF DecoderHiccup, PassOver, Reading
<1>6. ASSUME EndOfFrames \/ SkipFrame PROVE Frame
  BY <1>6 DEF EndOfFrames, SkipFrame, Sampled, Reading
<1>7. ASSUME StartWriting \/ WriteFrame \/ Finish PROVE Frame
  BY <1>7 DEF StartWriting, WriteFrame, Finish
<1> HIDE DEF Scanning, scanned, outcome, Frame
<1>8. ASSUME NEW f \in Seq(Detection), NEW badCrops \in SUBSET DOMAIN f,
             NEW badMasks \in SUBSET DOMAIN f, ProcessFrame(f, badCrops, badMasks)
      PROVE  Kept
  <2>1. pc = "detecting" /\ AddVehicles(f, badCrops, badMasks) /\ UNCHANGED <<pc, transient>>
    BY <1>8 DEF ProcessFrame, Sampled, Reading, outcome
  <2>2. RecordsInv'
    BY <1>1, <2>1, VehiclesAdded DEF MasksInv
  <2>3. RegionsInv'
    BY <1>1, <2>1, RegionsOfAFrame
  <2>4. MasksInv'
    BY <1>1, <2>1, MasksOfAFrame
  <2> QED BY <2>2, <2>3, <2>4
<1>9. ASSUME NEW stuck \in SUBSET masks, Aggregate(stuck) PROVE Kept
  <2>1. CASE IsTransient
    BY <1>9, <2>1, DiscardedEverywhere
  <2>2. CASE ~IsTransient
    <3>1. /\ UNCHANGED <<records, regions, budget, masks, faults>> /\ pc = "scanned"
          /\ pc' = "aggregated" /\ transient' = IsTransient
      BY <1>9, <2>2 DEF Aggregate
    <3>2. transient' <=> FALSE
      BY <2>2, <3>1
    <3>3. ~transient
      BY <3>1 DEF MasksInv, Scanning
    <3>4. RecordsInv' /\ RegionsInv' /\ Smoking' = Smoking /\ Masked' = Masked
      BY <3>1 DEF RecordsInv, RegionsInv, Smoking, Masked
    <3>5. MasksInv'
      BY <3>1, <3>2, <3>3, <3>4 DEF MasksInv
    <3> QED BY <3>4, <3>5
  <2> QED BY <2>1, <2>2
<1> HIDE DEF Kept
<1>10. Kept
  BY <1>2, <1>3, <1>4, <1>5, <1>6, <1>7, <1>8, <1>9, StepsAre, Zenon
<1> QED BY <1>10 DEF Kept

(* There is no result before the scan is done, and no step after.          *)
LEMMA AnswerStep ==
  ASSUME AnswerInv, Next
  PROVE  AnswerInv' /\ pc \notin {"done", "failed"}
<1> DEFINE Kept == AnswerInv' /\ pc \notin {"done", "failed"}
<1> USE DEF scanned, outcome, Reading, AnswerInv
<1>3. ASSUME Start \/ CannotLoad \/ LoadImage PROVE Kept
  BY <1>3 DEF Start, CannotLoad, LoadImage
<1>4. ASSUME (\E count \in Nat : ProbeVideo(count)) \/ ReopenFails PROVE Kept
  BY <1>4 DEF ProbeVideo, ReopenFails
<1>5. ASSUME DecoderHiccup \/ PassOver PROVE Kept
  BY <1>5 DEF DecoderHiccup, PassOver
<1>6. ASSUME EndOfFrames \/ SkipFrame PROVE Kept
  BY <1>6 DEF EndOfFrames, SkipFrame, Sampled
<1>7. ASSUME StartWriting \/ WriteFrame \/ Finish PROVE Kept
  BY <1>7 DEF StartWriting, WriteFrame, Finish
<1>8. ASSUME NEW f, NEW badCrops, NEW badMasks, ProcessFrame(f, badCrops, badMasks)
      PROVE  Kept
  BY <1>8 DEF ProcessFrame, Sampled
<1>9. ASSUME NEW stuck, Aggregate(stuck) PROVE Kept
  BY <1>9 DEF Aggregate
<1> HIDE DEF Kept
<1>10. Kept
  BY <1>3, <1>4, <1>5, <1>6, <1>7, <1>8, <1>9, StepsAre, Zenon
<1> QED BY <1>10 DEF Kept

(* The scan's invariant holds at first.                                    *)
LEMMA ScanAtFirst == Init => ScanInv
<1> SUFFICES ASSUME Init PROVE ScanInv
  OBVIOUS
<1>1. CountsInv
  BY Sizes DEF Init, CountsInv
<1>2. RecordsInv
  BY DEF Init, RecordsInv
<1>3. DOMAIN records = {} /\ Smoking = {} /\ Masked = {}
  BY DEF Init, Smoking, Masked
<1>4. RegionsInv
  BY <1>3 DEF Init, RegionsInv
<1>5. MasksInv
  <2>1. Cardinality({}) = 0
    BY FS_EmptySet
  <2>2. masks = {} /\ budget.masks = 0 /\ ~transient
    BY DEF Init
  <2> QED BY <1>3, <2>1, <2>2, Sizes DEF MasksInv
<1>6. PercentInv /\ AnswerInv
  BY DEF Init, PercentInv, AnswerInv
<1> QED BY <1>1, <1>2, <1>4, <1>5, <1>6 DEF ScanInv

(* Every step keeps it.                                                    *)
LEMMA ScanStep == ScanInv /\ [Next]_vars => ScanInv'
<1> SUFFICES ASSUME ScanInv, [Next]_vars PROVE ScanInv'
  OBVIOUS
<1>0. CountsInv /\ RecordsInv /\ RegionsInv /\ MasksInv /\ PercentInv /\ AnswerInv
  BY DEF ScanInv
<1>1. ASSUME Next PROVE ScanInv'
  <2>1. masks \subseteq DOMAIN records
    BY <1>0 DEF MasksInv
  <2>2. CountsInv'
    BY <1>0, <1>1, <2>1, CountsStep
  <2>3. RecordsInv' /\ RegionsInv' /\ MasksInv'
    BY <1>0, <1>1, RecordsStep
  <2>4. PercentInv' /\ AnswerInv'
    BY <1>0, <1>1, PercentStep, AnswerStep
  <2> QED BY <2>2, <2>3, <2>4 DEF ScanInv
<1>2. ASSUME UNCHANGED vars PROVE ScanInv'
  <2> USE <1>2 DEF vars
  <2>1. CountsInv' /\ RecordsInv'
    BY <1>0 DEF CountsInv, RecordsInv
  <2>2. Smoking' = Smoking /\ Masked' = Masked
    BY DEF Smoking, Masked
  <2>3. RegionsInv'
    BY <1>0, <2>2 DEF RegionsInv
  <2>4. MasksInv'
    BY <1>0, <2>2 DEF MasksInv
  <2>5. PercentInv' /\ AnswerInv'
    BY <1>0 DEF PercentInv, AnswerInv
  <2> QED BY <2>1, <2>3, <2>4, <2>5 DEF ScanInv
<1> QED BY <1>1, <1>2

(***************************************************************************)
(* The counters, records, smoke, masks and percentages of a scan stay      *)
(* consistent, whatever is read, fails or is discarded.                    *)
(***************************************************************************)
THEOREM ScanInvariance == Spec => []ScanInv
BY ScanAtFirst, ScanStep, PTL DEF Spec

(***************************************************************************)
(* A record names a mask only while its file is there; files no record     *)
(* names are left by a discard alone, at most one for each fault; and the  *)
(* budget of masks is kept (_write_vehicle_artifacts,                      *)
(* _discard_transient_smoke).                                              *)
(***************************************************************************)
THEOREM MasksTellTheTruth == Spec => []MasksMatchRecords
<1>1. ScanInv => MasksMatchRecords
  <2> SUFFICES ASSUME ScanInv PROVE MasksMatchRecords
    OBVIOUS
  <2>1. /\ Masked \subseteq Smoking
        /\ ~transient => masks = Masked
        /\ transient => Masked = {} /\ Cardinality(masks) <= faults
        /\ Cardinality(masks) <= budget.masks /\ budget.masks <= MaxMasks
    BY DEF ScanInv, MasksInv
  <2>2. Masked \subseteq masks
    BY <2>1
  <2>3. masks # Masked => transient /\ Cardinality(masks \ Masked) <= faults
    <3>1. Masked = {} => masks \ Masked = masks
      OBVIOUS
    <3> QED BY <2>1, <3>1
  <2>4. \A k \in Masked : records[k].smoke # None
    BY <2>1 DEF Smoking
  <2> QED BY <2>1, <2>2, <2>3, <2>4 DEF MasksMatchRecords, Masked
<1> QED BY <1>1, ScanInvariance, PTL

----------------------------------------------------------------------------
(* The contract with the worker.                                           *)

Phase == CASE pc = "done" -> "answered" [] pc = "failed" -> "failed" [] OTHER -> "running"

Vehicles == [k \in DOMAIN records |-> records[k].smoke]

(* The verdict of the result is the worst of the vehicles it lists.        *)
LEMMA OverallIsTheWorst ==
  ASSUME RecordsInv, RegionsInv
  PROVE  Worst(SeverityCounts)
           = Worst(Counts(Classified(Vehicles, [low |-> LowMax, moderate |-> ModerateMax])))
<1> DEFINE bands == [low |-> LowMax, moderate |-> ModerateMax]
           ranks == Classified(Vehicles, bands)
           A(n)  == {g \in regions : g.severity = n}
           B(n)  == {k \in DOMAIN ranks : ranks[k] = n}
<1>1. Len(records) \in Nat /\ DOMAIN records = 1..Len(records)
      /\ \A k \in DOMAIN records : records[k].smoke \in Nat
  <2>1. records \in Seq(Vehicle)
    BY DEF RecordsInv
  <2>2. \A k \in DOMAIN records : records[k] \in Vehicle
    BY <2>1
  <2>3. \A r \in Vehicle : r.smoke \in Nat
    BY DEF Vehicle
  <2> QED BY <2>1, <2>2, <2>3
<1>2. DOMAIN ranks = DOMAIN records /\ \A k \in DOMAIN records : ranks[k] = Rank(records[k].smoke)
  BY DEF Classified, Vehicles, Rank
<1>3. IsFiniteSet(DOMAIN records) /\ Smoking \in SUBSET DOMAIN records
  BY <1>1, FS_Interval DEF Smoking
<1>4. IsFiniteSet(regions)
  <2> DEFINE h == [k \in Smoking |-> [vehicle |-> k, severity |-> Rank(records[k].smoke)]]
  <2>1. regions = {h[k] : k \in Smoking} /\ DOMAIN h = Smoking
    BY DEF RegionsInv
  <2>2. IsFiniteSet(Smoking)
    BY <1>3, FS_Subset
  <2> HIDE DEF h
  <2> QED BY <2>1, <2>2, ImagesAreFinite
<1>5. ASSUME NEW n \in Names
      PROVE  (Cardinality(A(n)) > 0) <=> (Cardinality(B(n)) > 0)
  <2>1. A(n) = {} <=> B(n) = {}
    <3>1. ASSUME NEW g \in A(n) PROVE B(n) # {}
      <4>1. PICK k \in Smoking : g = [vehicle |-> k, severity |-> Rank(records[k].smoke)]
        BY DEF RegionsInv
      <4>2. k \in B(n)
        BY <1>2, <4>1 DEF Smoking
      <4> QED BY <4>2
    <3>2. ASSUME NEW k \in B(n) PROVE A(n) # {}
      <4>1. k \in DOMAIN records /\ Rank(records[k].smoke) = n
        BY <1>2
      <4>2. records[k].smoke # None
        BY <4>1 DEF Rank, Classify, None, Names
      <4>3. [vehicle |-> k, severity |-> Rank(records[k].smoke)] \in regions
        BY <4>1, <4>2 DEF RegionsInv, Smoking
      <4>4. [vehicle |-> k, severity |-> Rank(records[k].smoke)] \in A(n)
        BY <4>1, <4>3
      <4> QED BY <4>4
    <3> QED BY <3>1, <3>2
  <2>2. A(n) \in SUBSET regions /\ B(n) \in SUBSET DOMAIN records
    BY <1>2
  <2> HIDE DEF A, B
  <2>3. IsFiniteSet(A(n)) /\ IsFiniteSet(B(n))
    BY <1>3, <1>4, <2>2, FS_Subset
  <2>4. Cardinality(A(n)) \in Nat /\ Cardinality(B(n)) \in Nat
    BY <2>3, FS_CardinalityType
  <2>5. (Cardinality(A(n)) = 0 <=> A(n) = {}) /\ (Cardinality(B(n)) = 0 <=> B(n) = {})
    BY <2>3, FS_EmptySet
  <2> QED BY <2>1, <2>4, <2>5
<1>6. SeverityCounts = [n \in Names |-> Cardinality(A(n))]
  BY DEF SeverityCounts
<1>7. Counts(ranks) = [n \in Names |-> Cardinality(B(n))]
  BY DEF Counts
<1> HIDE DEF A, B, ranks
<1>8. {n \in Names : SeverityCounts[n] > 0} = {n \in Names : Counts(ranks)[n] > 0}
  BY <1>5, <1>6, <1>7
<1>9. Worst(SeverityCounts) = Worst(Counts(ranks))
  BY <1>8 DEF Worst
<1> QED BY <1>9 DEF ranks

Stages == {"start", "loading", "detecting", "scanned", "aggregated", "writing"}

(* A step goes from stage to stage, gives up where it is, or finishes.     *)
LEMMA StagesOfAScan ==
  ASSUME Next
  PROVE  /\ pc \in Stages
         /\ pc' \in Stages \/ Finish \/ (pc' = "failed" /\ percent' = percent)
<1> DEFINE Goes == /\ pc \in Stages
                   /\ pc' \in Stages \/ Finish \/ (pc' = "failed" /\ percent' = percent)
<1> USE DEF Stages, Reading
<1>1. ASSUME Start \/ CannotLoad \/ LoadImage PROVE Goes
  BY <1>1 DEF Start, CannotLoad, LoadImage
<1>2. ASSUME (\E count \in Nat : ProbeVideo(count)) \/ ReopenFails PROVE Goes
  BY <1>2 DEF ProbeVideo, ReopenFails
<1>3. ASSUME DecoderHiccup \/ PassOver PROVE Goes
  BY <1>3 DEF DecoderHiccup, PassOver
<1>4. ASSUME EndOfFrames \/ SkipFrame PROVE Goes
  BY <1>4 DEF EndOfFrames, SkipFrame, Sampled
<1>5. ASSUME StartWriting \/ WriteFrame PROVE Goes
  BY <1>5 DEF StartWriting, WriteFrame
<1>6. ASSUME Finish PROVE Goes
  <2>1. pc = "writing"
    BY <1>6 DEF Finish
  <2> QED BY <1>6, <2>1
<1>7. ASSUME NEW f, NEW badCrops, NEW badMasks, ProcessFrame(f, badCrops, badMasks)
      PROVE  Goes
  BY <1>7 DEF ProcessFrame, Sampled
<1>8. ASSUME NEW stuck, Aggregate(stuck) PROVE Goes
  BY <1>8 DEF Aggregate
<1> HIDE DEF Goes
<1>9. Goes
  BY <1>1, <1>2, <1>3, <1>4, <1>5, <1>6, <1>7, <1>8, StepsAre, Zenon
<1> QED BY <1>9 DEF Goes

(* The result is never the empty one.                                      *)
LEMMA FinishAnswers ==
  ASSUME Finish, RecordsInv, RegionsInv
  PROVE  /\ result' # <<>> /\ records' = records
         /\ result'.overall_severity
              = Worst(Counts(Classified(Vehicles, [low |-> LowMax, moderate |-> ModerateMax])))
<1>1. result' = [total_vehicles   |-> Len(records),
                 total_smoke      |-> Cardinality(regions),
                 overall_severity |-> Worst(SeverityCounts),
                 severity_counts  |-> SeverityCounts]
  BY DEF Finish
<1>2. result'.overall_severity = Worst(SeverityCounts)
  BY <1>1
<1>3. "total_smoke" \in DOMAIN result'
  BY <1>1
<1>4. result' # <<>>
  BY <1>3
<1>5. records' = records
  BY DEF Finish, scanned
<1> QED BY <1>2, <1>4, <1>5, OverallIsTheWorst

(***************************************************************************)
(* A scan keeps its side of the contract with the worker: it begins and    *)
(* steps as ScanContract allows, so percentages never fall, an answer      *)
(* comes once, at 100, and its verdict is the worst of the vehicles in it. *)
(***************************************************************************)
THEOREM ScanStepsKeepTheContract ==
  Spec => Contract!ScanInit /\ [][Contract!ScanNext]_(Contract!scanVars)
<1> DEFINE answer == IF result = <<>> THEN [vehicles |-> <<>>, overall |-> None]
                     ELSE [vehicles |-> [k \in DOMAIN records |-> records[k].smoke],
                           overall  |-> result.overall_severity]
           bands == [low |-> LowMax, moderate |-> ModerateMax]
           phase == CASE pc = "done" -> "answered" [] pc = "failed" -> "failed"
                      [] OTHER -> "running"
<1>1. Init => Contract!ScanInit
  BY DEF Init, Contract!ScanInit, Contract!NoAnswer, Contract!None, None
<1>2. ASSUME ScanInv, ScanInv', Next
      PROVE  Contract!ScanNext
  <2>1. /\ percent \in 0..100 /\ percent' \in 0..100 /\ percent <= percent'
        /\ RecordsInv /\ RegionsInv /\ PercentInv'
    BY <1>2, PercentStep DEF ScanInv
  <2>2. pc \in Stages /\ result = <<>> /\ (pc' # "done" => result' = <<>>)
    <3>1. pc \in Stages /\ AnswerInv /\ AnswerInv'
      BY <1>2, StagesOfAScan, AnswerStep DEF ScanInv
    <3> QED BY <3>1 DEF Stages, AnswerInv
  <2>3. phase = "running"
    BY <2>2 DEF Stages
  <2>4. CASE pc' \in Stages
    <3>1. percent' \in percent..99
      BY <2>1, <2>4 DEF Stages, PercentInv
    <3>2. phase' = "running" /\ answer' = answer
      BY <2>2, <2>4 DEF Stages
    <3>3. Contract!Report
      BY <2>3, <3>1, <3>2 DEF Contract!Report
    <3> QED BY <3>3 DEF Contract!ScanNext
  <2>5. CASE pc' = "failed" /\ percent' = percent
    <3>1. phase' = "failed" /\ answer' = answer
      BY <2>2, <2>5
    <3>2. Contract!GiveUp
      BY <2>3, <2>5, <3>1 DEF Contract!GiveUp
    <3> QED BY <3>2 DEF Contract!ScanNext
  <2>6. CASE Finish
    <3>1. pc' = "done" /\ percent' = 100
      BY <2>6 DEF Finish
    <3>2. /\ result' # <<>> /\ records' = records
          /\ result'.overall_severity = Worst(Counts(Classified(Vehicles, bands)))
      BY <2>1, <2>6, FinishAnswers
    <3>3. answer' = [vehicles |-> Vehicles,
                     overall  |-> Worst(Counts(Classified(Vehicles, bands)))]
      BY <3>2 DEF Vehicles
    <3>4. Vehicles \in Seq({None} \union Intensities)
      <4>1. records \in Seq(Vehicle)
        BY <2>1 DEF RecordsInv
      <4>2. Len(records) \in Nat /\ DOMAIN records = 1..Len(records)
            /\ \A k \in 1..Len(records) : records[k] \in Vehicle
        BY <4>1
      <4>3. \A r \in Vehicle : r.smoke \in {None} \union Intensities
        BY DEF Vehicle, None, Intensities
      <4>4. Vehicles \in [1..Len(records) -> {None} \union Intensities]
        BY <4>2, <4>3 DEF Vehicles
      <4> QED BY <4>2, <4>4
    <3>5. answer'.vehicles = Vehicles
      BY <3>3
    <3>6. phase' = "answered"
      BY <3>1
    <3> HIDE DEF answer, phase
    <3>7. Contract!Worst(Contract!Counts(Contract!Classified(Vehicles, bands)))
            = Worst(Counts(Classified(Vehicles, bands)))
      <4>1. \A x : Contract!Classify(x, bands) = Classify(x, bands)
        BY DEF Contract!Classify, Contract!None, Classify, None
      <4>2. Contract!Classified(Vehicles, bands) = Classified(Vehicles, bands)
        BY <4>1 DEF Contract!Classified, Classified
      <4>3. \A ranks : Contract!Counts(ranks) = Counts(ranks)
        <5> SUFFICES ASSUME NEW ranks PROVE Contract!Counts(ranks) = Counts(ranks)
          OBVIOUS
        <5> DEFINE Of(n) == {i \in DOMAIN ranks : ranks[i] = n}
        <5>1. \A S : Contract!Cardinality(S) = Cardinality(S)
          BY DEF Contract!Cardinality, Cardinality
        <5>2. Contract!Counts(ranks) = [n \in Names |-> Contract!Cardinality(Of(n))]
          BY Zenon DEF Contract!Counts, Contract!Names, Names
        <5>3. Counts(ranks) = [n \in Names |-> Cardinality(Of(n))]
          BY Zenon DEF Counts
        <5> HIDE DEF Of
        <5> QED BY <5>1, <5>2, <5>3
      <4>4. \A S : Contract!Max(S) = Max(S)
        BY DEF Contract!Max, Max
      <4>5. \A counts : Contract!Worst(counts) = Worst(counts)
        BY <4>4 DEF Contract!Worst, Contract!None, Contract!Names, Worst, None, Names
      <4> QED BY <4>2, <4>3, <4>5
    <3>8. Vehicles \in Seq({Contract!None} \union Contract!Intensities)
      BY <3>4 DEF Contract!None, Contract!Intensities, None, Intensities
    <3>9. answer' = Contract!Answer(answer'.vehicles)
      BY <3>3, <3>5, <3>7 DEF Contract!Answer, bands
    <3>10. answer'.vehicles \in Seq({Contract!None} \union Contract!Intensities)
      BY <3>5, <3>8
    <3>11. Contract!GiveAnswer
      BY <2>3, <3>1, <3>6, <3>9, <3>10 DEF Contract!GiveAnswer, answer, phase
    <3> QED BY <3>11 DEF Contract!ScanNext
  <2> QED BY <1>2, <2>4, <2>5, <2>6, StagesOfAScan
<1>3. UNCHANGED vars => UNCHANGED Contract!scanVars
  BY DEF vars, Contract!scanVars
<1>4. ScanInv /\ ScanInv' /\ [Next]_vars => [Contract!ScanNext]_(Contract!scanVars)
  BY <1>2, <1>3
<1> QED BY <1>1, <1>4, ScanInvariance, PTL DEF Spec

----------------------------------------------------------------------------
(* The frames that were seen, and the shortlist of the best of them.       *)

HistoryIsSeq == \E S : history \in Seq(S)

EntryOf(h) == [frame |-> h.frame, interest |-> Interest(h.dets), dets |-> h.dets]

(* What was seen are finitely many entries, of frames that differ.         *)
LEMMA SeenAre ==
  ASSUME HistoryInv, HistoryIsSeq, reader.index \in Nat
  PROVE  /\ Seen \subseteq Entry /\ IsFiniteSet(Seen) /\ Distinct(Seen)
         /\ \A d \in Seen : d.frame < reader.index
<1>1. /\ DOMAIN history = 1..Len(history) /\ Len(history) \in Nat
      /\ \A s \in DOMAIN history :
           /\ history[s].dets \in Seq(Detection)
           /\ history[s].frame \in 0..(reader.index - 1)
           /\ \A t \in DOMAIN history : history[s].frame = history[t].frame => s = t
  BY DEF HistoryInv, HistoryIsSeq
<1>2. Seen = {EntryOf(history[s]) : s \in DOMAIN history}
  BY DEF Seen, EntryOf, Range
<1>3. ASSUME NEW s \in DOMAIN history
      PROVE  /\ EntryOf(history[s]) \in Entry
             /\ EntryOf(history[s]).frame = history[s].frame
             /\ history[s].frame < reader.index
  <2>1. Interest(history[s].dets) \in Interests
    BY <1>1, InterestIs
  <2>2. history[s].frame \in Nat
    BY <1>1
  <2>3. history[s].dets \in Seq(Detection)
    BY <1>1
  <2> HIDE DEF Interests
  <2> QED BY <1>1, <2>1, <2>2, <2>3 DEF EntryOf, Entry
<1>4. IsFiniteSet(Seen)
  <2> DEFINE g == [s \in DOMAIN history |-> EntryOf(history[s])]
  <2>1. Seen = {g[s] : s \in DOMAIN history} /\ DOMAIN g = DOMAIN history
    BY <1>2
  <2>2. IsFiniteSet(DOMAIN history)
    BY <1>1, FS_Interval
  <2> HIDE DEF g
  <2> QED BY <2>1, <2>2, ImagesAreFinite
<1>5. Distinct(Seen)
  <2>1. \A s, t \in DOMAIN history :
          EntryOf(history[s]).frame = EntryOf(history[t]).frame => s = t
    BY <1>1, <1>3
  <2> QED BY <1>2, <2>1 DEF Distinct
<1> QED BY <1>2, <1>3, <1>4, <1>5

(* What the tracker is fed becomes an entry of what was seen.              *)
LEMMA SeenStep ==
  ASSUME HistoryInv, HistoryIsSeq, CountsInv, NEW f \in Seq(Detection),
         TrackFrame(f), NextFrame, processed' = processed + 1
  PROVE  /\ HistoryInv' /\ HistoryIsSeq'
         /\ Seen' = IF f = <<>> THEN Seen
                    ELSE Seen \union {[frame |-> reader.index, interest |-> Interest(f), dets |-> f]}
<1>1. reader.index \in Nat /\ processed \in Nat /\ reader'.index = reader.index + 1
  BY Sizes DEF CountsInv, NextFrame
<1>2. /\ step + 1 = Len(history) /\ Len(history) <= processed
      /\ \A s \in DOMAIN history :
           /\ history[s].dets \in Seq(Detection)
           /\ history[s].frame \in 0..(reader.index - 1)
           /\ \A t \in DOMAIN history : history[s].frame = history[t].frame => s = t
  BY DEF HistoryInv
<1>3. PICK S : history \in Seq(S)
  BY DEF HistoryIsSeq
<1>4. CASE f = <<>>
  <2>1. history' = history /\ step' = step
    BY <1>4 DEF TrackFrame
  <2>2. Seen' = Seen /\ HistoryIsSeq'
    BY <1>3, <2>1 DEF Seen, HistoryIsSeq
  <2>3. HistoryInv'
    BY <1>1, <1>2, <1>3, <2>1 DEF HistoryInv
  <2> QED BY <1>4, <2>2, <2>3
<1>5. CASE f # <<>>
  <2>1. PICK h : /\ history' = Append(history, h) /\ step' = step + 1
                 /\ h.frame = reader.index /\ h.dets = f
    <3> DEFINE ids == TrackIds(tracks, step + 1, f)
               h == [frame |-> reader.index, dets |-> f, ids |-> ids]
    <3>1. history' = Append(history, h) /\ step' = step + 1
      BY <1>5 DEF TrackFrame
    <3>2. h.frame = reader.index /\ h.dets = f
      OBVIOUS
    <3> QED BY <3>1, <3>2
  <2> DEFINE n == Len(history)
  <2>2. history \in Seq(S \union {h}) /\ h \in S \union {h}
    BY <1>3
  <2>3. /\ history' \in Seq(S \union {h}) /\ Len(history') = n + 1 /\ n \in Nat
        /\ DOMAIN history = 1..n /\ DOMAIN history' = 1..(n + 1)
        /\ history'[n + 1] = h /\ \A s \in 1..n : history'[s] = history[s]
    BY <2>1, <2>2
  <2>4. HistoryIsSeq'
    BY <2>3 DEF HistoryIsSeq
  <2> HIDE DEF n
  <2>5. \A s \in 1..(n + 1) : s \in 1..n \/ s = n + 1
    BY <2>3
  <2>6. step' + 1 = Len(history') /\ Len(history') <= processed'
    <3>1. step + 1 = n /\ n <= processed
      BY <1>2 DEF n
    <3> QED BY <1>1, <2>1, <2>3, <3>1
  <2>7. ASSUME NEW s \in DOMAIN history'
        PROVE  /\ history'[s].dets \in Seq(Detection)
               /\ history'[s].frame \in 0..(reader'.index - 1)
    <3>1. CASE s \in 1..n
      BY <1>1, <1>2, <2>3, <3>1
    <3>2. CASE s = n + 1
      BY <1>1, <2>1, <2>3, <3>2
    <3> QED BY <2>3, <2>5, <3>1, <3>2
  <2>8. ASSUME NEW s \in DOMAIN history', NEW t \in DOMAIN history',
               history'[s].frame = history'[t].frame
        PROVE  s = t
    <3>1. ASSUME NEW k \in 1..n
          PROVE  history'[k].frame < reader.index /\ history'[k].frame = history[k].frame
      <4>1. history'[k] = history[k] /\ history[k].frame \in 0..(reader.index - 1)
        BY <1>2, <2>3
      <4>2. reader.index \in Nat
        BY <1>1
      <4> QED BY <4>1, <4>2
    <3>2. history'[n + 1].frame = reader.index
      BY <2>1, <2>3
    <3>3. CASE s \in 1..n /\ t \in 1..n
      BY <1>2, <2>3, <2>8, <3>1, <3>3
    <3>4. CASE s = n + 1 /\ t = n + 1
      BY <3>4
    <3>5. CASE s \in 1..n /\ t = n + 1
      BY <1>1, <2>8, <3>1, <3>2, <3>5
    <3>6. CASE t \in 1..n /\ s = n + 1
      BY <1>1, <2>8, <3>1, <3>2, <3>6
    <3> QED BY <2>3, <2>5, <3>3, <3>4, <3>5, <3>6
  <2>9. HistoryInv'
    BY <2>6, <2>7, <2>8 DEF HistoryInv
  <2>10. Range(history') = Range(history) \union {h}
    <3>1. \A x : x \in Range(history') <=> x \in Range(history) \/ x = h
      <4>1. \A x \in Range(history') : x \in Range(history) \/ x = h
        BY <2>3, <2>5 DEF Range
      <4>2. \A x \in Range(history) : x \in Range(history')
        <5>1. \A k \in 1..n : k \in 1..(n + 1)
          BY <2>3
        <5> QED BY <2>3, <5>1 DEF Range
      <4>3. h \in Range(history')
        <5>1. n + 1 \in 1..(n + 1)
          BY <2>3
        <5> QED BY <2>3, <5>1 DEF Range
      <4> QED BY <4>1, <4>2, <4>3
    <3> QED BY <3>1
  <2>11. Seen' = Seen \union {[frame |-> reader.index, interest |-> Interest(f), dets |-> f]}
    BY <2>1, <2>10 DEF Seen
  <2> QED BY <1>5, <2>4, <2>9, <2>11
<1> QED BY <1>4, <1>5

(* A ranking lists distinct frames in order.                               *)
LEMMA RankingsAreFine ==
  ASSUME NEW S, S \subseteq Entry, IsFiniteSet(S), Distinct(S),
         NEW list \in Seq(S), Len(list) <= Cardinality(S),
         \A k \in 1..Len(list) : list[k] = InOrder(S)[k]
  PROVE  /\ list \in Seq(Entry) /\ Ordered(list)
         /\ \A i, j \in DOMAIN list : list[i].frame = list[j].frame => i = j
<1>1. Len(list) \in Nat /\ DOMAIN list = 1..Len(list) /\ Cardinality(S) \in Nat
  BY FS_CardinalityType
<1>2. \A k \in 1..Len(list) : k \in 1..Cardinality(S)
  BY <1>1
<1>3. \A i, j \in 1..Len(list) : (Better(list[i], list[j])) <=> i < j
  <2>1. \A i, j \in 1..Cardinality(S) : (Better(InOrder(S)[i], InOrder(S)[j])) <=> i < j
    BY InOrderIs
  <2> QED BY <1>2, <2>1
<1>4. \A k \in 1..Len(list) : list[k] \in S /\ list[k] \in Entry
  OBVIOUS
<1>5. ASSUME NEW i \in DOMAIN list, NEW j \in DOMAIN list, list[i].frame = list[j].frame
      PROVE  i = j
  <2>1. list[i] = list[j]
    BY <1>1, <1>4, <1>5 DEF Distinct
  <2>2. ~Better(list[i], list[j]) /\ ~Better(list[j], list[i])
    BY <1>1, <1>4, <2>1, BetterIsAnOrder
  <2> QED BY <1>1, <1>3, <2>2
<1>6. Ordered(list)
  <2>1. \A j \in 1..Len(list) : \A i \in 1..(j - 1) : i \in 1..Len(list) /\ i < j
    BY <1>1
  <2> QED BY <1>1, <1>3, <2>1 DEF Ordered
<1>7. list \in Seq(Entry)
  OBVIOUS
<1> QED BY <1>5, <1>6, <1>7

(* The best of some entries is a shortlist in order.                       *)
LEMMA BestIsFine ==
  ASSUME NEW S, S \subseteq Entry, IsFiniteSet(S), Distinct(S)
  PROVE  /\ Best(S) \in Seq(Entry) /\ Len(Best(S)) <= MaxAnnotated /\ Ordered(Best(S))
         /\ \A i, j \in DOMAIN Best(S) : Best(S)[i].frame = Best(S)[j].frame => i = j
<1>1. /\ Best(S) \in Seq(S)
      /\ Len(Best(S)) \in 0..Cardinality(S) /\ Len(Best(S)) \in 0..MaxAnnotated
      /\ \A k \in 1..Len(Best(S)) : Best(S)[k] = InOrder(S)[k]
  BY BestIs
<1>2. Len(Best(S)) <= Cardinality(S) /\ Len(Best(S)) <= MaxAnnotated
  BY <1>1, Sizes
<1> QED BY <1>1, <1>2, RankingsAreFine

(* A processed frame: the shortlist is the best of what was seen.          *)
LEMMA ShortlistOfAFrame ==
  ASSUME HistoryInv, HistoryIsSeq, CountsInv, ShortlistInv, PreviewIsTheBestWritten,
         ~transient, NEW f \in Seq(Detection),
         NEW badCrops \in SUBSET DOMAIN f, NEW badMasks \in SUBSET DOMAIN f,
         ProcessFrame(f, badCrops, badMasks)
  PROVE  BestInv' /\ HistoryIsSeq'
<1> DEFINE entry == [frame |-> reader.index, interest |-> Interest(f), dets |-> f]
<1>1. /\ pc = "detecting" /\ TrackFrame(f) /\ NextFrame /\ processed' = processed + 1
      /\ shortlist' = IF f = <<>> THEN shortlist ELSE Shortlisted(shortlist, entry)
      /\ pc' = pc /\ annotated' = annotated /\ preview' = preview /\ transient' = transient
  BY DEF ProcessFrame, Sampled, Reading, outcome
<1>2. reader.index \in Nat /\ reader'.index \in Nat
  BY <1>1 DEF CountsInv, NextFrame
<1>3. /\ HistoryInv' /\ HistoryIsSeq'
      /\ Seen' = IF f = <<>> THEN Seen ELSE Seen \union {entry}
  BY <1>1, SeenStep
<1>4. /\ Seen \subseteq Entry /\ IsFiniteSet(Seen) /\ Distinct(Seen)
      /\ \A d \in Seen : d.frame < reader.index
  BY <1>2, SeenAre
<1>5. entry \in Entry /\ entry.frame = reader.index
  <2>1. Interest(f) \in Interests
    BY InterestIs
  <2> HIDE DEF Interests
  <2> QED BY <1>2, <2>1 DEF Entry
<1>6. /\ shortlist = Best(Seen) /\ annotated = <<>> /\ preview = <<>>
      /\ annotated \in Seq(Nat)
  BY <1>1 DEF ShortlistInv, Scanning
<1> HIDE DEF entry
<1>7. shortlist' = Best(Seen')
  <2>1. CASE f = <<>>
    BY <1>1, <1>3, <1>6, <2>1
  <2>2. CASE f # <<>>
    <3>1. Shortlisted(Best(Seen), entry) = Best(Seen \union {entry})
      BY <1>4, <1>5, ShortlistStep
    <3> QED BY <1>1, <1>3, <1>6, <2>2, <3>1
  <2> QED BY <2>1, <2>2
<1>8. Seen' \subseteq Entry /\ IsFiniteSet(Seen') /\ Distinct(Seen')
  <2>1. CASE f = <<>>
    BY <1>3, <1>4, <2>1
  <2>2. CASE f # <<>>
    <3>1. IsFiniteSet(Seen \union {entry})
      BY <1>4, FS_AddElement
    <3>2. \A d \in Seen : d.frame # entry.frame
      BY <1>2, <1>4, <1>5 DEF Entry
    <3>3. Distinct(Seen \union {entry})
      BY <1>4, <3>2 DEF Distinct
    <3> QED BY <1>3, <1>4, <1>5, <2>2, <3>1, <3>3
  <2> QED BY <2>1, <2>2
<1>9. /\ shortlist' \in Seq(Entry) /\ Len(shortlist') <= MaxAnnotated /\ Ordered(shortlist')
      /\ \A i, j \in DOMAIN shortlist' : shortlist'[i].frame = shortlist'[j].frame => i = j
  BY <1>7, <1>8, BestIsFine
<1>10. ShortlistInv'
  BY <1>1, <1>6, <1>7, <1>9 DEF ShortlistInv
<1>11. PreviewIsTheBestWritten'
  BY <1>1, <1>6 DEF PreviewIsTheBestWritten
<1> QED BY <1>3, <1>10, <1>11 DEF BestInv

(* Steps that leave the frames alone.                                      *)
LEMMA FramesFrame ==
  ASSUME BestInv, HistoryIsSeq, CountsInv, CountsInv',
         UNCHANGED <<step, history, shortlist, annotated, preview, transient>>,
         processed <= processed', reader.index <= reader'.index,
         pc' \in Scanning => pc \in Scanning, (pc' = "aggregated") <=> (pc = "aggregated")
  PROVE  BestInv' /\ HistoryIsSeq'
<1>1. HistoryInv /\ ShortlistInv /\ PreviewIsTheBestWritten
  BY DEF BestInv
<1>2. HistoryIsSeq' /\ Seen' = Seen
  BY DEF HistoryIsSeq, Seen
<1>3. HistoryInv'
  <2>1. /\ reader.index \in Nat /\ reader'.index \in Nat /\ processed \in Nat /\ processed' \in Nat
    BY Sizes DEF CountsInv
  <2>2. Len(history) \in Nat
    BY DEF HistoryIsSeq
  <2>3. Len(history) <= processed'
    BY <1>1, <2>1, <2>2 DEF HistoryInv
  <2>4. \A n \in 0..(reader.index - 1) : n \in 0..(reader'.index - 1)
    BY <2>1
  <2> QED BY <1>1, <2>3, <2>4 DEF HistoryInv
<1>4. ShortlistInv'
  <2>1. /\ shortlist \in Seq(Entry) /\ Len(shortlist) <= MaxAnnotated /\ annotated \in Seq(Nat)
        /\ \A i, j \in DOMAIN shortlist : shortlist[i].frame = shortlist[j].frame => i = j
        /\ pc \in Scanning => shortlist = Best(Seen)
        /\ pc \in Scanning \union {"aggregated"} => annotated = <<>> /\ preview = <<>>
        /\ ~transient \/ pc # "aggregated" => Ordered(shortlist)
        /\ transient => \A k \in DOMAIN shortlist : Smokeless(shortlist[k])
    BY <1>1 DEF ShortlistInv
  <2>2. pc' \in Scanning => shortlist' = Best(Seen')
    BY <1>2, <2>1
  <2>3. pc' \in Scanning \union {"aggregated"} => annotated' = <<>> /\ preview' = <<>>
    BY <2>1
  <2>4. ~transient' \/ pc' # "aggregated" => Ordered(shortlist')
    BY <2>1
  <2>5. transient' => \A k \in DOMAIN shortlist' : Smokeless(shortlist'[k])
    BY <2>1
  <2> QED BY <2>1, <2>2, <2>3, <2>4, <2>5 DEF ShortlistInv
<1>5. PreviewIsTheBestWritten'
  BY <1>1 DEF PreviewIsTheBestWritten
<1> QED BY <1>2, <1>3, <1>4, <1>5 DEF BestInv

(* The overlays of discarded smoke are cleaned: the frames stay as they    *)
(* are, and show none.                                                     *)
LEMMA OverlaysAreCleaned ==
  ASSUME shortlist \in Seq(Entry),
         \A i, j \in DOMAIN shortlist : shortlist[i].frame = shortlist[j].frame => i = j,
         shortlist' = [k \in DOMAIN shortlist |->
                         [shortlist[k] EXCEPT !.dets = Clean(shortlist[k].dets)]]
  PROVE  /\ shortlist' \in Seq(Entry) /\ Len(shortlist') = Len(shortlist)
         /\ \A i, j \in DOMAIN shortlist' : shortlist'[i].frame = shortlist'[j].frame => i = j
         /\ \A k \in DOMAIN shortlist' : Smokeless(shortlist'[k])
<1> DEFINE Cleaned(e) == [e EXCEPT !.dets = Clean(e.dets)]
<1>1. \A f \in Seq(Detection) : /\ Clean(f) \in Seq(Detection)
                                /\ \A i \in DOMAIN Clean(f) : Clean(f)[i].smoke = None
  <2> SUFFICES ASSUME NEW f \in Seq(Detection)
               PROVE  /\ Clean(f) \in Seq(Detection)
                      /\ \A i \in DOMAIN Clean(f) : Clean(f)[i].smoke = None
    OBVIOUS
  <2>1. \A d \in Detection : [d EXCEPT !.smoke = None] \in Detection
    BY DEF Detection, None
  <2>2. \A d \in Detection : [d EXCEPT !.smoke = None].smoke = None
    BY DEF Detection
  <2>3. DOMAIN f = 1..Len(f) /\ Len(f) \in Nat /\ \A i \in 1..Len(f) : f[i] \in Detection
    OBVIOUS
  <2>4. Clean(f) = [i \in 1..Len(f) |-> [f[i] EXCEPT !.smoke = None]]
    BY <2>3 DEF Clean
  <2>5. Clean(f) \in [1..Len(f) -> Detection]
    BY <2>1, <2>3, <2>4
  <2>6. Clean(f) \in Seq(Detection)
    BY <2>3, <2>5
  <2>7. ASSUME NEW i \in 1..Len(f) PROVE Clean(f)[i].smoke = None
    <3>1. Clean(f)[i] = [f[i] EXCEPT !.smoke = None]
      BY <2>4
    <3>2. f[i] \in Detection
      BY <2>3
    <3> QED BY <2>2, <3>1, <3>2, Zenon
  <2> QED BY <2>5, <2>6, <2>7
<1>2. \A e \in Entry : /\ Cleaned(e) \in Entry /\ Cleaned(e).frame = e.frame
                       /\ Cleaned(e).dets = Clean(e.dets) /\ e.dets \in Seq(Detection)
  <2> HIDE DEF Interests
  <2> DEFINE D == Seq(Detection)
  <2>1. \A e \in Entry : e.dets \in D
    BY DEF Entry
  <2>2. \A e \in Entry, d \in D : /\ [e EXCEPT !.dets = d] \in Entry
                                  /\ [e EXCEPT !.dets = d].frame = e.frame
                                  /\ [e EXCEPT !.dets = d].dets = d
    <3> HIDE DEF D
    <3>1. Entry = [frame : Nat, interest : Interests, dets : D]
      BY DEF Entry, D
    <3> QED BY <3>1
  <2>3. \A e \in Entry : Clean(e.dets) \in D
    BY <1>1, <2>1
  <2> HIDE DEF D
  <2> QED BY <2>1, <2>2, <2>3 DEF D
<1>3. /\ DOMAIN shortlist = 1..Len(shortlist) /\ Len(shortlist) \in Nat
      /\ \A k \in 1..Len(shortlist) : shortlist[k] \in Entry
  OBVIOUS
<1>4. shortlist' = [k \in 1..Len(shortlist) |-> Cleaned(shortlist[k])]
  BY <1>3
<1> HIDE DEF Cleaned
<1>5. shortlist' \in [1..Len(shortlist) -> Entry]
  <2>1. \A k \in 1..Len(shortlist) : Cleaned(shortlist[k]) \in Entry
    BY <1>2, <1>3
  <2> QED BY <1>4, <2>1
<1>6. shortlist' \in Seq(Entry) /\ Len(shortlist') = Len(shortlist) /\ DOMAIN shortlist' = DOMAIN shortlist
  BY <1>3, <1>5
<1>7. \A k \in DOMAIN shortlist' : /\ shortlist'[k].frame = shortlist[k].frame
                                   /\ shortlist'[k].dets = Clean(shortlist[k].dets)
                                   /\ shortlist[k].dets \in Seq(Detection)
  BY <1>2, <1>3, <1>4, <1>6
<1>8. \A k \in DOMAIN shortlist' : Smokeless(shortlist'[k])
  <2> SUFFICES ASSUME NEW k \in DOMAIN shortlist' PROVE Smokeless(shortlist'[k])
    OBVIOUS
  <2> DEFINE f == shortlist[k].dets  g == shortlist'[k].dets
  <2>1. g = Clean(f) /\ f \in Seq(Detection)
    BY <1>7
  <2>2. \A i \in DOMAIN Clean(f) : Clean(f)[i].smoke = None
    BY <1>1, <2>1
  <2>3. \A i \in DOMAIN g : g[i].smoke = None
    BY <2>1, <2>2, Zenon
  <2> QED BY <2>3, Zenon DEF Smokeless
<1>9. ASSUME NEW i \in DOMAIN shortlist', NEW j \in DOMAIN shortlist',
             shortlist'[i].frame = shortlist'[j].frame
      PROVE  i = j
  <2>1. i \in DOMAIN shortlist /\ j \in DOMAIN shortlist
    BY <1>6
  <2>2. shortlist'[i].frame = shortlist[i].frame /\ shortlist'[j].frame = shortlist[j].frame
    BY <1>7
  <2> QED BY <1>9, <2>1, <2>2
<1> QED BY <1>6, <1>8, <1>9

(* The frames of discarded smoke are ranked again, and stay smokeless.     *)
LEMMA RankedAgain ==
  ASSUME shortlist \in Seq(Entry),
         \A k \in DOMAIN shortlist : Smokeless(shortlist[k]),
         \A i, j \in DOMAIN shortlist : shortlist[i].frame = shortlist[j].frame => i = j,
         Len(shortlist) <= MaxAnnotated,
         shortlist' = InOrder({Reranked(e) : e \in Range(shortlist)})
  PROVE  /\ shortlist' \in Seq(Entry) /\ Len(shortlist') <= MaxAnnotated /\ Ordered(shortlist')
         /\ \A i, j \in DOMAIN shortlist' : shortlist'[i].frame = shortlist'[j].frame => i = j
         /\ \A k \in DOMAIN shortlist' : Smokeless(shortlist'[k])
<1> DEFINE R == {Reranked(e) : e \in Range(shortlist)}
<1>1. /\ DOMAIN shortlist = 1..Len(shortlist) /\ Len(shortlist) \in Nat
      /\ \A k \in 1..Len(shortlist) : shortlist[k] \in Entry
  OBVIOUS
<1>2. R = {Reranked(shortlist[k]) : k \in DOMAIN shortlist}
  BY DEF Range
<1>3. \A e \in Entry : /\ Reranked(e) \in Entry /\ Reranked(e).frame = e.frame
                       /\ Reranked(e).dets = e.dets
  <2> HIDE DEF Interests
  <2> DEFINE D == Seq(Detection)
  <2>1. \A e \in Entry : e.dets \in D
    BY DEF Entry
  <2>2. \A e \in Entry, d \in Interests : /\ [e EXCEPT !.interest = d] \in Entry
                                          /\ [e EXCEPT !.interest = d].frame = e.frame
                                          /\ [e EXCEPT !.interest = d].dets = e.dets
    <3> HIDE DEF D
    <3>1. Entry = [frame : Nat, interest : Interests, dets : D]
      BY DEF Entry, D
    <3> QED BY <3>1
  <2>3. \A e \in Entry : Interest(e.dets) \in Interests
    BY <2>1, InterestIs
  <2> QED BY <2>2, <2>3 DEF Reranked
<1>4. R \subseteq Entry
  BY <1>1, <1>2, <1>3
<1>5. IsFiniteSet(R) /\ Cardinality(R) <= Len(shortlist)
  <2> DEFINE g == [k \in DOMAIN shortlist |-> Reranked(shortlist[k])]
  <2>1. R = {g[k] : k \in DOMAIN shortlist} /\ DOMAIN g = DOMAIN shortlist
    BY <1>2
  <2>2. IsFiniteSet(DOMAIN shortlist) /\ Cardinality(DOMAIN shortlist) = Len(shortlist)
    <3>1. ASSUME NEW n \in Nat PROVE IsFiniteSet(1..n) /\ Cardinality(1..n) = n
      BY FS_Interval
    <3> QED BY <1>1, <3>1
  <2> HIDE DEF g, R
  <2> QED BY <2>1, <2>2, ImagesAreFinite
<1>6. Distinct(R)
  <2>1. \A i, j \in DOMAIN shortlist :
          Reranked(shortlist[i]).frame = Reranked(shortlist[j]).frame => i = j
    BY <1>1, <1>3
  <2> QED BY <1>2, <2>1 DEF Distinct
<1>7. \A e \in R : Smokeless(e)
  <2> SUFFICES ASSUME NEW k \in DOMAIN shortlist PROVE Smokeless(Reranked(shortlist[k]))
    BY <1>2
  <2>1. shortlist[k] \in Entry
    BY <1>1
  <2>2. Smokeless(shortlist[k]) /\ Reranked(shortlist[k]).dets = shortlist[k].dets
    BY <1>3, <2>1
  <2> QED BY <2>2, Zenon DEF Smokeless
<1> HIDE DEF R
<1>8. Cardinality(R) \in Nat /\ InOrder(R) \in [1..Cardinality(R) -> R]
  BY <1>4, <1>5, <1>6, InOrderIs
<1>9. /\ InOrder(R) \in Seq(R) /\ Len(InOrder(R)) = Cardinality(R)
      /\ DOMAIN InOrder(R) = 1..Cardinality(R)
  BY <1>8
<1>10. shortlist' = InOrder(R)
  BY DEF R
<1>11. Len(InOrder(R)) <= MaxAnnotated /\ Len(InOrder(R)) <= Cardinality(R)
  BY <1>1, <1>5, <1>8, <1>9, Sizes
<1>12. /\ InOrder(R) \in Seq(Entry) /\ Ordered(InOrder(R))
       /\ \A i, j \in DOMAIN InOrder(R) : InOrder(R)[i].frame = InOrder(R)[j].frame => i = j
  BY <1>4, <1>5, <1>6, <1>9, <1>11, RankingsAreFine
<1>13. \A k \in DOMAIN InOrder(R) : Smokeless(InOrder(R)[k])
  BY <1>7, <1>8, <1>9
<1> QED BY <1>10, <1>11, <1>12, <1>13

(* A written frame leaves the shortlist at its head, and only the first    *)
(* one written becomes the preview.                                        *)
LEMMA WriteKeepsFrames ==
  ASSUME BestInv, HistoryIsSeq, WriteFrame
  PROVE  BestInv' /\ HistoryIsSeq'
<1>1. HistoryInv /\ ShortlistInv /\ PreviewIsTheBestWritten
  BY DEF BestInv
<1>2. /\ pc = "writing" /\ pc' = "writing" /\ shortlist # <<>> /\ shortlist' = Tail(shortlist)
      /\ transient' = transient
      /\ UNCHANGED <<processed, reader, step, history>>
  BY DEF WriteFrame
<1>3. /\ shortlist \in Seq(Entry) /\ Len(shortlist) <= MaxAnnotated /\ annotated \in Seq(Nat)
      /\ \A i, j \in DOMAIN shortlist : shortlist[i].frame = shortlist[j].frame => i = j
      /\ Ordered(shortlist)
      /\ transient => \A k \in DOMAIN shortlist : Smokeless(shortlist[k])
  BY <1>1, <1>2 DEF ShortlistInv
<1> DEFINE n == Len(shortlist)  e == shortlist[1]
<1>4. /\ n \in Nat \ {0} /\ DOMAIN shortlist = 1..n /\ Head(shortlist) = e /\ e \in Entry
      /\ \A k \in 1..n : shortlist[k] \in Entry
  BY <1>2, <1>3
<1>5. /\ shortlist' \in Seq(Entry) /\ Len(shortlist') = n - 1 /\ DOMAIN shortlist' = 1..(n - 1)
      /\ \A k \in 1..(n - 1) : shortlist'[k] = shortlist[k + 1]
  BY <1>2, <1>3
<1> HIDE DEF n, e
<1>6. \A k \in 1..(n - 1) : k + 1 \in 1..n
  BY <1>4
<1>7. ASSUME NEW i \in DOMAIN shortlist', NEW j \in DOMAIN shortlist',
             shortlist'[i].frame = shortlist'[j].frame
      PROVE  i = j
  <2>1. /\ i \in 1..(n - 1) /\ j \in 1..(n - 1)
        /\ i + 1 \in DOMAIN shortlist /\ j + 1 \in DOMAIN shortlist
    BY <1>4, <1>5, <1>6
  <2>2. shortlist[i + 1].frame = shortlist[j + 1].frame
    BY <1>5, <1>7, <2>1
  <2>3. i + 1 = j + 1
    BY <1>3, <2>1, <2>2, Zenon
  <2> QED BY <1>4, <2>1, <2>3
<1>8. Ordered(shortlist')
  <2> SUFFICES ASSUME NEW j \in 1..(n - 1), NEW i \in 1..(j - 1)
               PROVE  Better(shortlist'[i], shortlist'[j])
    BY <1>5 DEF Ordered
  <2>1. j + 1 \in 1..n /\ i + 1 \in 1..((j + 1) - 1) /\ i \in 1..(n - 1)
    BY <1>4
  <2>2. Better(shortlist[i + 1], shortlist[j + 1])
    BY <1>3, <1>4, <2>1 DEF Ordered
  <2> QED BY <1>5, <2>1, <2>2
<1>9. transient' => \A k \in DOMAIN shortlist' : Smokeless(shortlist'[k])
  BY <1>2, <1>3, <1>4, <1>5, <1>6
<1>10. \A k \in DOMAIN shortlist' : Better(e, shortlist'[k])
  <2> SUFFICES ASSUME NEW k \in 1..(n - 1) PROVE Better(e, shortlist[k + 1])
    BY <1>5
  <2>1. k + 1 \in 1..n /\ 1 \in 1..((k + 1) - 1)
    BY <1>4
  <2> QED BY <1>3, <1>4, <2>1 DEF Ordered, e
<1>11. \/ UNCHANGED <<annotated, preview>>
       \/ /\ annotated' = Append(annotated, e.frame)
          /\ \/ preview # <<>> /\ preview' = preview
             \/ preview = <<>> /\ preview' # <<>> /\ preview'[1] = e
  BY <1>4 DEF WriteFrame
<1>12. e.frame \in Nat
  BY <1>4 DEF Entry
<1>13. annotated' \in Seq(Nat) /\ Len(shortlist') <= MaxAnnotated
  <2>1. \A s \in Seq(Nat), x \in Nat : Append(s, x) \in Seq(Nat)
    OBVIOUS
  <2>2. annotated' \in Seq(Nat)
    BY <1>3, <1>11, <1>12, <2>1
  <2>3. n <= MaxAnnotated
    BY <1>3 DEF n
  <2> QED BY <1>4, <1>5, <2>2, <2>3, Sizes
<1>14. ShortlistInv'
  BY <1>2, <1>5, <1>7, <1>8, <1>9, <1>13 DEF ShortlistInv, Scanning
<1>15. PreviewIsTheBestWritten'
  <2>1. /\ (preview = <<>>) = (annotated = <<>>)
        /\ preview # <<>> =>
             /\ preview[1].frame = annotated[1]
             /\ \A k \in DOMAIN shortlist : Better(preview[1], shortlist[k])
             /\ transient => Fired(preview[1].dets) = [i \in DOMAIN preview[1].dets |-> FALSE]
    BY <1>1 DEF PreviewIsTheBestWritten
  <2>2. preview # <<>> => \A k \in DOMAIN shortlist' : Better(preview[1], shortlist'[k])
    BY <1>4, <1>5, <1>6, <2>1
  <2>3. CASE UNCHANGED <<annotated, preview>>
    BY <1>2, <2>1, <2>2, <2>3 DEF PreviewIsTheBestWritten
  <2>4. /\ Append(annotated, e.frame) # <<>> /\ Append(annotated, e.frame)[1] =
             IF annotated = <<>> THEN e.frame ELSE annotated[1]
    BY <1>3, <1>12
  <2>5. CASE /\ annotated' = Append(annotated, e.frame)
             /\ preview # <<>> /\ preview' = preview
    BY <1>2, <2>1, <2>2, <2>4, <2>5 DEF PreviewIsTheBestWritten
  <2>6. CASE /\ annotated' = Append(annotated, e.frame)
             /\ preview = <<>> /\ preview' # <<>> /\ preview'[1] = e
    <3>1. annotated' # <<>> /\ annotated'[1] = e.frame
      BY <2>1, <2>4, <2>6
    <3>2. ASSUME transient'
          PROVE  Fired(preview'[1].dets) = [i \in DOMAIN preview'[1].dets |-> FALSE]
      <4>1. Smokeless(e)
        <5>1. \A k \in DOMAIN shortlist : Smokeless(shortlist[k])
          BY <1>2, <1>3, <3>2
        <5>2. 1 \in DOMAIN shortlist
          BY <1>4
        <5> QED BY <5>1, <5>2 DEF e
      <4>2. \A i \in DOMAIN e.dets : (e.dets[i].smoke # None) = FALSE
        BY <4>1 DEF Smokeless
      <4>3. Fired(e.dets) = [i \in DOMAIN e.dets |-> FALSE]
        BY <4>2 DEF Fired
      <4> QED BY <2>6, <4>3
    <3> QED BY <1>10, <2>6, <3>1, <3>2 DEF PreviewIsTheBestWritten
  <2> QED BY <1>11, <2>3, <2>5, <2>6
<1>16. HistoryInv' /\ HistoryIsSeq'
  BY <1>1, <1>2 DEF HistoryInv, HistoryIsSeq
<1> QED BY <1>14, <1>15, <1>16 DEF BestInv

(* The verdict leaves the frames as they are, or cleans them.              *)
LEMMA AggregateKeepsFrames ==
  ASSUME BestInv, HistoryIsSeq, ~transient, NEW stuck, Aggregate(stuck)
  PROVE  BestInv' /\ HistoryIsSeq'
<1>1. HistoryInv /\ ShortlistInv /\ PreviewIsTheBestWritten
  BY DEF BestInv
<1>2. /\ pc = "scanned" /\ pc' = "aggregated" /\ transient' = IsTransient
      /\ UNCHANGED <<processed, reader, step, history, annotated, preview>>
      /\ IsTransient => shortlist' = [k \in DOMAIN shortlist |->
                                       [shortlist[k] EXCEPT !.dets = Clean(shortlist[k].dets)]]
      /\ ~IsTransient => shortlist' = shortlist
  BY DEF Aggregate, Discard
<1>3. /\ shortlist \in Seq(Entry) /\ Len(shortlist) <= MaxAnnotated /\ annotated \in Seq(Nat)
      /\ \A i, j \in DOMAIN shortlist : shortlist[i].frame = shortlist[j].frame => i = j
      /\ Ordered(shortlist) /\ annotated = <<>> /\ preview = <<>>
  BY <1>1, <1>2 DEF ShortlistInv, Scanning
<1>4. HistoryInv' /\ HistoryIsSeq'
  BY <1>1, <1>2 DEF HistoryInv, HistoryIsSeq
<1>5. PreviewIsTheBestWritten'
  BY <1>2, <1>3 DEF PreviewIsTheBestWritten
<1>6. CASE IsTransient
  <2>1. /\ shortlist' \in Seq(Entry) /\ Len(shortlist') = Len(shortlist)
        /\ \A i, j \in DOMAIN shortlist' : shortlist'[i].frame = shortlist'[j].frame => i = j
        /\ \A k \in DOMAIN shortlist' : Smokeless(shortlist'[k])
    BY <1>2, <1>3, <1>6, OverlaysAreCleaned
  <2>2. transient' <=> TRUE
    BY <1>2, <1>6
  <2>3. ShortlistInv'
    BY <1>2, <1>3, <2>1, <2>2 DEF ShortlistInv, Scanning
  <2> QED BY <1>4, <1>5, <2>3 DEF BestInv
<1>7. CASE ~IsTransient
  <2>1. transient' <=> FALSE
    BY <1>2, <1>7
  <2>2. ShortlistInv'
    BY <1>2, <1>3, <1>7, <2>1 DEF ShortlistInv, Scanning
  <2> QED BY <1>4, <1>5, <2>2 DEF BestInv
<1> QED BY <1>6, <1>7

(* The writing starts with a shortlist in order.                           *)
LEMMA StartWritingKeepsFrames ==
  ASSUME BestInv, HistoryIsSeq, StartWriting
  PROVE  BestInv' /\ HistoryIsSeq'
<1>1. HistoryInv /\ ShortlistInv /\ PreviewIsTheBestWritten
  BY DEF BestInv
<1>2. /\ pc = "aggregated" /\ pc' = "writing" /\ transient' = transient
      /\ UNCHANGED <<processed, reader, step, history, annotated, preview>>
      /\ shortlist' = IF transient THEN InOrder({Reranked(e) : e \in Range(shortlist)})
                      ELSE shortlist
  BY DEF StartWriting, outcome
<1>3. /\ shortlist \in Seq(Entry) /\ Len(shortlist) <= MaxAnnotated /\ annotated \in Seq(Nat)
      /\ \A i, j \in DOMAIN shortlist : shortlist[i].frame = shortlist[j].frame => i = j
      /\ (~transient => Ordered(shortlist)) /\ annotated = <<>> /\ preview = <<>>
      /\ transient => \A k \in DOMAIN shortlist : Smokeless(shortlist[k])
  BY <1>1, <1>2 DEF ShortlistInv
<1>4. HistoryInv' /\ HistoryIsSeq'
  BY <1>1, <1>2 DEF HistoryInv, HistoryIsSeq
<1>5. PreviewIsTheBestWritten'
  BY <1>2, <1>3 DEF PreviewIsTheBestWritten
<1>6. CASE transient
  <2>1. /\ shortlist' \in Seq(Entry) /\ Len(shortlist') <= MaxAnnotated /\ Ordered(shortlist')
        /\ \A i, j \in DOMAIN shortlist' : shortlist'[i].frame = shortlist'[j].frame => i = j
        /\ \A k \in DOMAIN shortlist' : Smokeless(shortlist'[k])
    BY <1>2, <1>3, <1>6, RankedAgain
  <2>2. ShortlistInv'
    BY <1>2, <1>3, <2>1 DEF ShortlistInv, Scanning
  <2> QED BY <1>4, <1>5, <2>2 DEF BestInv
<1>7. CASE ~transient
  <2>1. ShortlistInv'
    BY <1>2, <1>3, <1>7 DEF ShortlistInv, Scanning
  <2> QED BY <1>4, <1>5, <2>1 DEF BestInv
<1> QED BY <1>6, <1>7

(* No step loses a frame that belongs on the shortlist.                    *)
LEMMA FramesStep ==
  ASSUME ScanInv, ScanInv', BestInv, HistoryIsSeq, [Next]_vars
  PROVE  BestInv' /\ HistoryIsSeq'
<1> DEFINE Kept == BestInv' /\ HistoryIsSeq'
           Frame == /\ UNCHANGED <<step, history, shortlist, annotated, preview, transient>>
                    /\ processed' = processed
                    /\ reader'.index = reader.index \/ reader'.index = reader.index + 1
                    /\ pc' \in Scanning => pc \in Scanning
                    /\ (pc' = "aggregated") <=> (pc = "aggregated")
<1>1. CountsInv /\ CountsInv' /\ MasksInv
  BY DEF ScanInv
<1>2. reader.index \in Nat /\ processed \in Nat
  BY <1>1, Sizes DEF CountsInv
<1>3. ASSUME Frame PROVE Kept
  <2>1. processed <= processed' /\ reader.index <= reader'.index
    BY <1>2, <1>3
  <2> QED BY <1>1, <1>3, <2>1, FramesFrame
<1> USE DEF Scanning, scanned, outcome, Reading
<1>4. ASSUME Start \/ CannotLoad \/ LoadImage PROVE Frame
  BY <1>4 DEF Start, CannotLoad, LoadImage
<1>5. ASSUME (\E count \in Nat : ProbeVideo(count)) \/ ReopenFails PROVE Frame
  BY <1>5 DEF ProbeVideo, ReopenFails
<1>6. ASSUME DecoderHiccup \/ PassOver PROVE Frame
  <2>1. reader \in [index : Nat, emitted : 0..MaxFrames, failures : 0..(MaxReadFailures - 1)]
    BY <1>1 DEF CountsInv
  <2>2. reader'.index = reader.index \/ reader'.index = reader.index + 1
    BY <1>6, <2>1 DEF DecoderHiccup, PassOver
  <2> QED BY <1>6, <2>2 DEF DecoderHiccup, PassOver
<1>7. ASSUME EndOfFrames \/ SkipFrame PROVE Frame
  BY <1>7 DEF EndOfFrames, SkipFrame, Sampled, NextFrame
<1>8. ASSUME Finish PROVE Frame
  BY <1>8 DEF Finish
<1>9. ASSUME UNCHANGED vars PROVE Frame
  BY <1>9 DEF vars
<1> HIDE DEF Scanning, scanned, outcome, Reading, Frame
<1>10. ASSUME NEW f \in Seq(Detection), NEW badCrops \in SUBSET DOMAIN f,
              NEW badMasks \in SUBSET DOMAIN f, ProcessFrame(f, badCrops, badMasks)
       PROVE  Kept
  <2>1. pc = "detecting"
    BY <1>10 DEF ProcessFrame, Sampled, Reading
  <2>2. ~transient
    BY <1>1, <2>1 DEF MasksInv, Scanning
  <2> QED BY <1>1, <1>10, <2>2, ShortlistOfAFrame DEF BestInv
<1>11. ASSUME NEW stuck \in SUBSET masks, Aggregate(stuck) PROVE Kept
  <2>1. pc = "scanned"
    BY <1>11 DEF Aggregate
  <2>2. ~transient
    BY <1>1, <2>1 DEF MasksInv, Scanning
  <2> QED BY <1>11, <2>2, AggregateKeepsFrames
<1>12. ASSUME StartWriting PROVE Kept
  BY <1>12, StartWritingKeepsFrames
<1>13. ASSUME WriteFrame PROVE Kept
  BY <1>13, WriteKeepsFrames
<1> HIDE DEF Kept
<1>14. ASSUME Next PROVE Kept
  BY <1>3, <1>4, <1>5, <1>6, <1>7, <1>8, <1>10, <1>11, <1>12, <1>13, <1>14, StepsAre, Zenon
<1>15. Kept
  BY <1>3, <1>9, <1>14
<1> QED BY <1>15 DEF Kept

(* Nothing was seen at first.                                              *)
LEMMA FramesAtFirst == Init => BestInv /\ HistoryIsSeq
<1> SUFFICES ASSUME Init PROVE BestInv /\ HistoryIsSeq
  OBVIOUS
<1>1. /\ history = <<>> /\ shortlist = <<>> /\ annotated = <<>> /\ preview = <<>>
      /\ ~transient /\ step = -1 /\ processed = 0 /\ pc = "start"
  BY DEF Init
<1>2. HistoryIsSeq
  <2>1. <<>> \in Seq({})
    OBVIOUS
  <2> QED BY <1>1, <2>1 DEF HistoryIsSeq
<1>3. HistoryInv
  BY <1>1 DEF HistoryInv
<1>4. Best(Seen) = <<>>
  <2>1. Seen = {}
    BY <1>1 DEF Seen, Range
  <2>2. IsFiniteSet({}) /\ Cardinality({}) = 0
    BY FS_EmptySet
  <2>3. Distinct({}) /\ {} \subseteq Entry
    BY DEF Distinct
  <2>4. Best({}) \in Seq({}) /\ Len(Best({})) \in 0..Cardinality({})
    BY <2>2, <2>3, BestIs
  <2>5. Len(Best({})) = 0
    BY <2>2, <2>4
  <2> QED BY <2>1, <2>4, <2>5
<1>5. ShortlistInv
  <2>1. <<>> \in Seq(Entry) /\ <<>> \in Seq(Nat) /\ Len(<<>>) = 0 /\ DOMAIN <<>> = {}
    OBVIOUS
  <2>2. Ordered(<<>>)
    BY <2>1 DEF Ordered
  <2> QED BY <1>1, <1>4, <2>1, <2>2, Sizes DEF ShortlistInv
<1>6. PreviewIsTheBestWritten
  BY <1>1 DEF PreviewIsTheBestWritten
<1> QED BY <1>2, <1>3, <1>5, <1>6 DEF BestInv

(* The invariants of counters, records and frames are inductive.           *)
LEMMA FramesInvariance == Spec => [](ScanInv /\ BestInv /\ HistoryIsSeq)
<1>1. Init => ScanInv /\ BestInv /\ HistoryIsSeq
  BY ScanAtFirst, FramesAtFirst
<1>2. (ScanInv /\ BestInv /\ HistoryIsSeq) /\ [Next]_vars
        => (ScanInv /\ BestInv /\ HistoryIsSeq)'
  BY ScanStep, FramesStep
<1> QED BY <1>1, <1>2, PTL DEF Spec

(***************************************************************************)
(* The bounded shortlist of a scan is, for any number of frames, the best  *)
(* of all that showed a vehicle (the in-loop sort and cut of best_frames), *)
(* and the preview is the best of those that could be written.             *)
(***************************************************************************)
THEOREM BestFramesAreKept == Spec => []BestFramesAreShown
<1>1. BestInv => BestFramesAreShown
  BY DEF BestInv, ShortlistInv, Scanning, BestFramesAreShown, ShortlistKeepsTheBest
<1> QED BY <1>1, FramesInvariance, PTL

(***************************************************************************)
(* The type invariant of a scan.                                           *)
(***************************************************************************)
THEOREM ScanTypes == Spec => []TypeOK
<1> DEFINE PcInv == pc \in Stages \union {"done", "failed"}
<1>1. Init => PcInv
  BY DEF Init, Stages
<1>2. PcInv /\ [Next]_vars => PcInv'
  <2>1. ASSUME Next PROVE PcInv'
    <3>1. Finish => pc' = "done"
      BY DEF Finish
    <3> QED BY <2>1, <3>1, StagesOfAScan
  <2>2. ASSUME PcInv, UNCHANGED vars PROVE PcInv'
    BY <2>2 DEF vars
  <2> QED BY <2>1, <2>2
<1>3. PcInv /\ ScanInv /\ BestInv => TypeOK
  <2> SUFFICES ASSUME PcInv, ScanInv, BestInv PROVE TypeOK
    OBVIOUS
  <2>1. CountsInv /\ RecordsInv /\ MasksInv /\ PercentInv /\ HistoryInv /\ ShortlistInv
    BY DEF ScanInv, BestInv
  <2>2. pc \in {"start", "loading", "detecting", "scanned", "aggregated", "writing",
                "done", "failed"}
    BY DEF Stages
  <2>3. percent \in 0..100
    <3>1. processed \in Nat
      BY <2>1, Sizes DEF CountsInv
    <3> QED BY <2>1, <2>2, <3>1 DEF PercentInv
  <2>4. \A k \in DOMAIN records : records[k].smoke \in Nat
    <3>1. \A k \in DOMAIN records : records[k] \in Vehicle
      BY <2>1 DEF RecordsInv
    <3>2. \A r \in Vehicle : r.smoke \in Nat
      BY DEF Vehicle
    <3> QED BY <3>1, <3>2
  <2>5. step + 1 = Len(history) /\ Len(history) <= processed
    BY <2>1 DEF HistoryInv
  <2>6. masks \subseteq DOMAIN records /\ Len(shortlist) <= MaxAnnotated
    BY <2>1 DEF MasksInv, ShortlistInv
  <2> QED BY <2>1, <2>2, <2>3, <2>4, <2>5, <2>6 DEF TypeOK, CountsInv
<1> HIDE DEF PcInv
<1>4. Spec => []PcInv
  BY <1>1, <1>2, PTL DEF Spec
<1> QED BY <1>3, <1>4, FramesInvariance, PTL
----------------------------------------------------------------------------
(* The tracker.  How far boxes overlap, and that fractions are compared as *)
(* their cross products say.                                               *)
LEMMA ProductsGrow ==
  ASSUME NEW a \in Nat, NEW b \in Nat, NEW c \in Nat, NEW d \in Nat, a <= c, b <= d
  PROVE  a * b <= c * d
<1>1. a * b <= c * b
  <2>1. c * b = a * b + (c - a) * b /\ (c - a) * b >= 0
    OBVIOUS
  <2> QED BY <2>1
<1>2. c * b <= c * d
  <2>1. c * d = c * b + c * (d - b) /\ c * (d - b) >= 0
    OBVIOUS
  <2> QED BY <2>1
<1> QED BY <1>1, <1>2

(* A positive factor may be cancelled.                                     *)
LEMMA FactorsCancel ==
  ASSUME NEW x \in Int, NEW y \in Int, NEW z \in Nat \ {0}
  PROVE  /\ (x > y) <=> x * z > y * z
         /\ (x = y) <=> x * z = y * z
<1>1. x * z - y * z = (x - y) * z
  OBVIOUS
<1>2. x > y => (x - y) * z > 0
  OBVIOUS
<1>3. x < y => (x - y) * z < 0
  OBVIOUS
<1> QED BY <1>1, <1>2, <1>3

(* At least as large is transitive, and strictly larger if one of them is. *)
LEMMA FractionsCompare ==
  ASSUME NEW a \in Int, NEW b \in Int, NEW c \in Int,
         NEW u \in Nat \ {0}, NEW v \in Nat \ {0}, NEW w \in Nat \ {0}
  PROVE  /\ a * v >= b * u /\ b * w >= c * v => a * w >= c * u
         /\ a * v > b * u /\ b * w >= c * v => a * w > c * u
         /\ a * v >= b * u /\ b * w > c * v => a * w > c * u
<1> DEFINE av == a * v  bu == b * u  bw == b * w  cv == c * v  aw == a * w  cu == c * u
<1>1. /\ av \in Int /\ bu \in Int /\ bw \in Int /\ cv \in Int /\ aw \in Int /\ cu \in Int
      /\ av * w = aw * v /\ bu * w = bw * u /\ cv * u = cu * v
  OBVIOUS
<1> HIDE DEF av, bu, bw, cv, aw, cu
<1>2. /\ (av > bu) <=> av * w > bu * w
      /\ (av = bu) <=> av * w = bu * w
      /\ (bw > cv) <=> bw * u > cv * u
      /\ (bw = cv) <=> bw * u = cv * u
      /\ (aw > cu) <=> aw * v > cu * v
      /\ (aw = cu) <=> aw * v = cu * v
  BY <1>1, FactorsCancel
<1> DEFINE p == av * w  q == bu * w  r == cu * v
<1>3. /\ p \in Int /\ q \in Int /\ r \in Int
      /\ (av > bu) <=> p > q
      /\ (av = bu) <=> p = q
      /\ (bw > cv) <=> q > r
      /\ (bw = cv) <=> q = r
      /\ (aw > cu) <=> p > r
      /\ (aw = cu) <=> p = r
  BY <1>1, <1>2
<1> HIDE DEF p, q, r
<1>4. /\ (av >= bu /\ bw >= cv) => aw >= cu
      /\ (av > bu /\ bw >= cv) => aw > cu
      /\ (av >= bu /\ bw > cv) => aw > cu
  BY <1>1, <1>3
<1> QED BY <1>4 DEF av, bu, bw, cv, aw, cu

(* Boxes that overlap cover something together, and are read.              *)
LEMMA OverlapsAre ==
  ASSUME NEW a \in Box, NEW b \in Box
  PROVE  /\ Intersection(a, b) \in Int /\ Union(a, b) \in Int
         /\ SameVehicle(a, b) => Intersection(a, b) > 0 /\ Union(a, b) > 0 /\ a # NoBox
<1> DEFINE across == Smaller(a.x + a.w, b.x + b.w) - Larger(a.x, b.x)
           down   == Smaller(a.y + a.h, b.y + b.h) - Larger(a.y, b.y)
<1>1. /\ a.x \in Int /\ a.y \in Int /\ a.w \in Int /\ a.h \in Int
      /\ b.x \in Int /\ b.y \in Int /\ b.w \in Int /\ b.h \in Int
  BY DEF Box
<1>2. across \in Int /\ down \in Int /\ across <= a.w /\ down <= a.h
  BY <1>1 DEF Smaller, Larger
<1>3. Intersection(a, b) = IF a.w > 0 /\ a.h > 0 /\ b.w > 0 /\ b.h > 0 /\ across > 0 /\ down > 0
                           THEN across * down ELSE 0
  BY DEF Intersection
<1> HIDE DEF across, down
<1>4. Intersection(a, b) \in Int
  BY <1>2, <1>3
<1>5. a.w * a.h \in Int /\ b.w * b.h \in Int
  BY <1>1
<1>6. Union(a, b) \in Int
  BY <1>4, <1>5 DEF Union
<1>7. ASSUME Intersection(a, b) > 0 PROVE Union(a, b) > 0 /\ a # NoBox
  <2>1. /\ a.w > 0 /\ a.h > 0 /\ b.w > 0 /\ b.h > 0 /\ across > 0 /\ down > 0
        /\ Intersection(a, b) = across * down
    BY <1>3, <1>7
  <2>2. across * down <= a.w * a.h
    BY <1>1, <1>2, <2>1, ProductsGrow
  <2>3. b.w * b.h > 0
    BY <1>1, <2>1
  <2>4. Union(a, b) > 0
    BY <1>4, <1>5, <2>1, <2>2, <2>3 DEF Union
  <2> QED BY <2>1, <2>4 DEF NoBox
<1> QED BY <1>4, <1>6, <1>7 DEF SameVehicle
(* What the candidates of a frame are, and that they are finitely many.    *)
LEMMA CandidatesAre ==
  ASSUME NEW known \in Seq(Tracked), NEW at \in Int, NEW f \in Seq(Detection)
  PROVE  /\ IsFiniteSet(Candidates(known, at, f))
         /\ \A c \in Candidates(known, at, f) :
              /\ c.det \in DOMAIN f /\ c.track \in DOMAIN known
              /\ c.inter = Intersection(f[c.det].box, known[c.track].last_box)
              /\ c.union = Union(f[c.det].box, known[c.track].last_box)
              /\ c.inter \in Int /\ c.union \in Nat \ {0}
         /\ \A c, d \in Candidates(known, at, f) :
              c.det = d.det /\ c.track = d.track => c = d
         /\ \A i \in DOMAIN f, k \in DOMAIN known :
              IsLive(known[k], at) /\ SameVehicle(f[i].box, known[k].last_box) =>
                \E c \in Candidates(known, at, f) : c.det = i /\ c.track = k
<1> DEFINE P == {q \in (DOMAIN f) \X (DOMAIN known) :
                   /\ f[q[1]].box # NoBox
                   /\ IsLive(known[q[2]], at)
                   /\ SameVehicle(f[q[1]].box, known[q[2]].last_box)}
           Of(q) == [det |-> q[1], track |-> q[2],
                     inter |-> Intersection(f[q[1]].box, known[q[2]].last_box),
                     union |-> Union(f[q[1]].box, known[q[2]].last_box)]
           C == Candidates(known, at, f)
<1>1. C = {Of(q) : q \in P}
  BY DEF Candidates
<1>2. \A i \in DOMAIN f : f[i].box \in Box
  <2>1. \A i \in DOMAIN f : f[i] \in Detection
    OBVIOUS
  <2>2. \A d \in Detection : d.box \in Box
    BY DEF Detection
  <2> QED BY <2>1, <2>2
<1>3. \A k \in DOMAIN known : known[k].last_box \in Box
  <2>1. \A k \in DOMAIN known : known[k] \in Tracked
    OBVIOUS
  <2>2. \A t \in Tracked : t.last_box \in Box
    BY DEF Tracked
  <2> QED BY <2>1, <2>2
<1>4. IsFiniteSet(C)
  <2>1. IsFiniteSet(DOMAIN f) /\ IsFiniteSet(DOMAIN known)
    <3>1. DOMAIN f = 1..Len(f) /\ DOMAIN known = 1..Len(known) /\ Len(f) \in Nat /\ Len(known) \in Nat
      OBVIOUS
    <3> QED BY <3>1, FS_Interval
  <2>2. IsFiniteSet((DOMAIN f) \X (DOMAIN known))
    BY <2>1, FS_Product
  <2>3. P \in SUBSET ((DOMAIN f) \X (DOMAIN known))
    OBVIOUS
  <2>4. IsFiniteSet(P)
    BY <2>2, <2>3, FS_Subset
  <2> DEFINE g == [q \in P |-> Of(q)]
  <2>5. C = {g[q] : q \in P} /\ DOMAIN g = P
    BY <1>1
  <2> HIDE DEF g, P, C
  <2>6. IsFiniteSet({g[q] : q \in P})
    BY <2>4, <2>5, ImagesAreFinite
  <2> QED BY <2>5, <2>6
<1>5. ASSUME NEW c \in C
      PROVE  /\ c.det \in DOMAIN f /\ c.track \in DOMAIN known
             /\ c.inter = Intersection(f[c.det].box, known[c.track].last_box)
             /\ c.union = Union(f[c.det].box, known[c.track].last_box)
             /\ c.inter \in Int /\ c.union \in Nat \ {0}
             /\ c = Of(<<c.det, c.track>>)
  <2>1. PICK q \in P : c = Of(q)
    BY <1>1
  <2>2. /\ q[1] \in DOMAIN f /\ q[2] \in DOMAIN known /\ q = <<q[1], q[2]>>
        /\ SameVehicle(f[q[1]].box, known[q[2]].last_box)
    OBVIOUS
  <2>3. c.det = q[1] /\ c.track = q[2] /\ c = Of(<<c.det, c.track>>)
        /\ c.inter = Intersection(f[q[1]].box, known[q[2]].last_box)
        /\ c.union = Union(f[q[1]].box, known[q[2]].last_box)
    BY <2>1, <2>2
  <2> HIDE DEF P, Of, C
  <2>4. f[q[1]].box \in Box /\ known[q[2]].last_box \in Box
    BY <1>2, <1>3, <2>2
  <2>5. /\ Intersection(f[q[1]].box, known[q[2]].last_box) \in Int
        /\ Union(f[q[1]].box, known[q[2]].last_box) \in Int
        /\ Union(f[q[1]].box, known[q[2]].last_box) > 0
    BY <2>2, <2>4, OverlapsAre
  <2> QED BY <2>2, <2>3, <2>5
<1>6. ASSUME NEW i \in DOMAIN f, NEW k \in DOMAIN known,
             IsLive(known[k], at), SameVehicle(f[i].box, known[k].last_box)
      PROVE  \E c \in C : c.det = i /\ c.track = k
  <2>1. f[i].box # NoBox
    BY <1>2, <1>3, <1>6, OverlapsAre
  <2>2. <<i, k>> \in P
    BY <1>6, <2>1
  <2>3. Of(<<i, k>>) \in C
    BY <1>1, <2>2
  <2>4. Of(<<i, k>>).det = i /\ Of(<<i, k>>).track = k
    OBVIOUS
  <2> QED BY <2>3, <2>4
<1> HIDE DEF P, Of, C
<1>7. \A c, d \in C : c.det = d.det /\ c.track = d.track => c = d
  BY <1>5
<1> QED BY <1>4, <1>5, <1>6, <1>7 DEF C

BeforeIn(S) == {p \in S \X S : Before(p[1], p[2])}

(* The sort of the candidates has a total order: overlap, detection, track. *)
LEMMA BeforeOrders ==
  ASSUME NEW known \in Seq(Tracked), NEW at \in Int, NEW f \in Seq(Detection),
         NEW S, S = Candidates(known, at, f)
  PROVE  /\ OrderOn(S, BeforeIn(S))
         /\ \A d, e \in S : (<<d, e>> \in BeforeIn(S)) <=> Before(d, e)
<1>1. \A c \in S : /\ c.det \in Nat /\ c.track \in Nat
                   /\ c.inter \in Int /\ c.union \in Nat \ {0}
  <2>1. \A c \in S : /\ c.det \in DOMAIN f /\ c.track \in DOMAIN known
                     /\ c.inter \in Int /\ c.union \in Nat \ {0}
    BY CandidatesAre
  <2>2. DOMAIN f \subseteq Nat /\ DOMAIN known \subseteq Nat
    OBVIOUS
  <2> QED BY <2>1, <2>2
<1>2. \A c, d \in S : c.det = d.det /\ c.track = d.track => c = d
  BY CandidatesAre
<1>3. \A d, e \in S : (<<d, e>> \in BeforeIn(S)) <=> Before(d, e)
  BY DEF BeforeIn
<1>4. \A p \in S : ~Before(p, p)
  <2> SUFFICES ASSUME NEW p \in S PROVE ~Before(p, p)
    OBVIOUS
  <2> DEFINE x == p.inter * p.union
  <2>1. x \in Int /\ p.det \in Nat /\ p.track \in Nat
    BY <1>1
  <2>2. Before(p, p) <=> (x > x \/ (x = x /\ (p.det < p.det \/ (p.det = p.det /\ p.track < p.track))))
    BY DEF Before
  <2> HIDE DEF x
  <2> QED BY <2>1, <2>2
<1>5. \A p, q \in S : p = q \/ Before(p, q) \/ Before(q, p)
  <2> SUFFICES ASSUME NEW p \in S, NEW q \in S PROVE p = q \/ Before(p, q) \/ Before(q, p)
    OBVIOUS
  <2> DEFINE x == p.inter * q.union  y == q.inter * p.union
  <2>1. x \in Int /\ y \in Int /\ p.det \in Nat /\ p.track \in Nat /\ q.det \in Nat /\ q.track \in Nat
    BY <1>1
  <2>2. /\ Before(p, q) <=> (x > y \/ (x = y /\ (p.det < q.det \/ (p.det = q.det /\ p.track < q.track))))
        /\ Before(q, p) <=> (y > x \/ (y = x /\ (q.det < p.det \/ (q.det = p.det /\ q.track < p.track))))
    BY DEF Before
  <2> HIDE DEF x, y
  <2>3. ~Before(p, q) /\ ~Before(q, p) => p.det = q.det /\ p.track = q.track
    BY <2>1, <2>2
  <2> QED BY <1>2, <2>3
<1>6. \A p, q, r \in S : Before(p, q) /\ Before(q, r) => Before(p, r)
  <2> SUFFICES ASSUME NEW p \in S, NEW q \in S, NEW r \in S, Before(p, q), Before(q, r)
               PROVE  Before(p, r)
    OBVIOUS
  <2> DEFINE pq == p.inter * q.union  qp == q.inter * p.union
             qr == q.inter * r.union  rq == r.inter * q.union
             pr == p.inter * r.union  rp == r.inter * p.union
  <2>0. /\ p.inter \in Int /\ q.inter \in Int /\ r.inter \in Int
        /\ p.union \in Int /\ q.union \in Int /\ r.union \in Int
        /\ p.det \in Nat /\ p.track \in Nat /\ q.det \in Nat /\ q.track \in Nat
        /\ r.det \in Nat /\ r.track \in Nat
    BY <1>1
  <2>1. /\ pq \in Int /\ qp \in Int /\ qr \in Int /\ rq \in Int /\ pr \in Int /\ rp \in Int
        /\ p.det \in Nat /\ p.track \in Nat /\ q.det \in Nat /\ q.track \in Nat
        /\ r.det \in Nat /\ r.track \in Nat
    <3>1. \A a, b \in Int : a * b \in Int
      OBVIOUS
    <3>2. pq \in Int /\ qp \in Int /\ qr \in Int
      BY <2>0, <3>1
    <3>3. rq \in Int /\ pr \in Int /\ rp \in Int
      BY <2>0, <3>1
    <3> QED BY <2>0, <3>2, <3>3
  <2>2. /\ pq > qp \/ (pq = qp /\ (p.det < q.det \/ (p.det = q.det /\ p.track < q.track)))
        /\ qr > rq \/ (qr = rq /\ (q.det < r.det \/ (q.det = r.det /\ q.track < r.track)))
        /\ Before(p, r) <=>
             (pr > rp \/ (pr = rp /\ (p.det < r.det \/ (p.det = r.det /\ p.track < r.track))))
    BY DEF Before
  <2>3. /\ pq >= qp /\ qr >= rq => pr >= rp
        /\ pq > qp /\ qr >= rq => pr > rp
        /\ pq >= qp /\ qr > rq => pr > rp
    <3>1. /\ p.inter \in Int /\ q.inter \in Int /\ r.inter \in Int
          /\ p.union \in Nat \ {0} /\ q.union \in Nat \ {0} /\ r.union \in Nat \ {0}
      BY <1>1
    <3> QED BY <3>1, FractionsCompare
  <2> HIDE DEF pq, qp, qr, rq, pr, rp
  <2> QED BY <2>1, <2>2, <2>3
<1> QED BY <1>3, <1>4, <1>5, <1>6 DEF OrderOn

SortedAs(list, S) ==
  /\ list \in Seq(S)
  /\ \A c \in S : \E k \in 1..Len(list) : c = list[k]
  /\ \A i, j \in 1..Len(list) : i < j => Before(list[i], list[j])

(* The sorted candidates: each once, and the better ones first.            *)
LEMMA SortedCandidates ==
  ASSUME NEW known \in Seq(Tracked), NEW at \in Int, NEW f \in Seq(Detection)
  PROVE  SortedAs(Sorted(Candidates(known, at, f)), Candidates(known, at, f))
<1> DEFINE S == Candidates(known, at, f)  list == Sorted(S)
<1> DEFINE n == Cardinality(S)  R == BeforeIn(S)
<1>1. /\ OrderOn(S, R)
      /\ \A d, e \in S : (<<d, e>> \in R) <=> Before(d, e)
      /\ IsFiniteSet(S)
  BY BeforeOrders, CandidatesAre
<1> HIDE DEF R, S
<1>2. \A k \in 1..n : \E e \in S : Cardinality(Under(S, R, e)) = k - 1
  BY <1>1, EveryRankIsTaken
<1>3. \A e \in S : Under(S, R, e) = {d \in S : Before(d, e)}
  BY <1>1 DEF Under
<1>4. list = [k \in 1..n |-> CHOOSE e \in S : Cardinality({d \in S : Before(d, e)}) = k - 1]
  BY DEF Sorted, Ranked
<1> HIDE DEF list
<1>5. \A k \in 1..n : list[k] \in S /\ Cardinality(Under(S, R, list[k])) = k - 1
  <2>1. SUFFICES ASSUME NEW k \in 1..n
                 PROVE  list[k] \in S /\ Cardinality(Under(S, R, list[k])) = k - 1
    OBVIOUS
  <2>2. list[k] = CHOOSE e \in S : Cardinality({d \in S : Before(d, e)}) = k - 1
    BY <1>4
  <2>3. \E e \in S : Cardinality({d \in S : Before(d, e)}) = k - 1
    BY <1>2, <1>3
  <2>4. list[k] \in S /\ Cardinality({d \in S : Before(d, list[k])}) = k - 1
    BY <2>2, <2>3
  <2> QED BY <1>3, <2>4
<1>6. list = [k \in 1..n |-> list[k]]
  <2> DEFINE Least(k) == CHOOSE e \in S : Cardinality({d \in S : Before(d, e)}) = k - 1
  <2>1. list = [k \in 1..n |-> Least(k)]
    BY <1>4
  <2> HIDE DEF Least, n
  <2> QED BY <2>1
<1>7. /\ n \in Nat /\ list \in [1..n -> S]
      /\ \A e \in S : \E k \in 1..n : e = list[k]
      /\ \A i, j \in 1..n : (<<list[i], list[j]>> \in R) <=> i < j
  <2>1. AtItsRank(list, S, R)
    BY <1>5, <1>6 DEF AtItsRank
  <2> QED BY <1>1, <2>1, RankingOfAnOrder
<1> HIDE DEF n
<1>8. list \in Seq(S) /\ Len(list) = n
  BY <1>7
<1>9. SortedAs(list, S)
  BY <1>1, <1>5, <1>7, <1>8 DEF SortedAs
<1> QED BY <1>9 DEF list, S

(* The loop over the candidates, as far as the n-th.                       *)
TakenBy(t, list, n) ==
  [m \in 0..n |->
     IF m = 0 THEN {}
     ELSE IF \E d \in t[m - 1] : Conflicts(list[m], d) THEN t[m - 1]
     ELSE t[m - 1] \union {list[m]}]

(* There is such a function, by the least n for which there would be none. *)
LEMMA LoopIsDefined ==
  ASSUME NEW list, NEW n \in Nat
  PROVE  \E t : t = TakenBy(t, list, n)
<1> DEFINE Bad == {m \in Nat : ~\E t : t = TakenBy(t, list, m)}
<1>1. ASSUME Bad # {} PROVE FALSE
  <2>1. Bad \subseteq Nat
    OBVIOUS
  <2>2. PICK m \in Bad : \A k \in Bad : m <= k
    BY <1>1, <2>1, HasLeast
  <2>3. m \in Nat /\ ~\E t : t = TakenBy(t, list, m)
    OBVIOUS
  <2>4. ASSUME m = 0 PROVE FALSE
    <3> DEFINE t == [k \in 0..0 |-> {}]
    <3>1. \A k \in 0..0 : k = 0
      OBVIOUS
    <3>2. t = TakenBy(t, list, 0)
      BY <3>1 DEF TakenBy
    <3> QED BY <2>3, <2>4, <3>2
  <2>5. ASSUME m # 0 PROVE FALSE
    <3>1. m - 1 \in Nat /\ m - 1 \notin Bad
      BY <2>2, <2>3, <2>5
    <3>2. PICK s : s = TakenBy(s, list, m - 1)
      BY <3>1
    <3> DEFINE last == IF \E d \in s[m - 1] : Conflicts(list[m], d) THEN s[m - 1]
                       ELSE s[m - 1] \union {list[m]}
               t == [k \in 0..m |-> IF k = m THEN last ELSE s[k]]
    <3> HIDE DEF last
    <3>3. \A k \in 0..(m - 1) : t[k] = s[k]
      BY <3>1
    <3>4. t[m] = last
      BY <2>3
    <3>5. ASSUME NEW k \in 0..m
          PROVE  t[k] = IF k = 0 THEN {}
                        ELSE IF \E d \in t[k - 1] : Conflicts(list[k], d) THEN t[k - 1]
                        ELSE t[k - 1] \union {list[k]}
      <4>1. CASE k = m
        <5>1. t[m - 1] = s[m - 1]
          BY <3>1, <3>3
        <5> QED BY <2>5, <3>4, <4>1, <5>1 DEF last
      <4>2. CASE k # m /\ k # 0
        <5>1. k \in 0..(m - 1) /\ k - 1 \in 0..(m - 1)
          BY <2>3, <4>2
        <5>2. t[k] = s[k] /\ t[k - 1] = s[k - 1]
          BY <3>3, <5>1
        <5>3. s[k] = IF k = 0 THEN {}
                     ELSE IF \E d \in s[k - 1] : Conflicts(list[k], d) THEN s[k - 1]
                     ELSE s[k - 1] \union {list[k]}
          BY <3>2, <5>1 DEF TakenBy
        <5> QED BY <5>2, <5>3
      <4>3. CASE k # m /\ k = 0
        <5>1. 0 \in 0..(m - 1)
          BY <3>1
        <5>2. s[0] = {}
          BY <3>2, <5>1 DEF TakenBy
        <5> QED BY <3>3, <4>3, <5>1, <5>2
      <4> QED BY <4>1, <4>2, <4>3
    <3>6. t = [k \in 0..m |-> t[k]]
      OBVIOUS
    <3> HIDE DEF t
    <3>7. t = TakenBy(t, list, m)
      BY <3>5, <3>6 DEF TakenBy
    <3> QED BY <2>3, <3>7
  <2> QED BY <2>4, <2>5
<1> QED BY <1>1

(* What the loop assigns: candidates without a conflict, and one that is   *)
(* not assigned has lost to an earlier one.                                *)
LEMMA AssignedAre ==
  ASSUME NEW S, NEW list \in Seq(S)
  PROVE  /\ Assigned(list) \subseteq S
         /\ \A c, d \in Assigned(list) : Conflicts(c, d) => c = d
         /\ \A j \in 1..Len(list) :
              \/ list[j] \in Assigned(list)
              \/ \E i \in 1..(j - 1) : list[i] \in Assigned(list) /\ Conflicts(list[j], list[i])
<1> DEFINE n == Len(list)  t == CHOOSE t : t = TakenBy(t, list, n)
<1>1. n \in Nat /\ \A k \in 1..n : list[k] \in S
  OBVIOUS
<1>2. t = TakenBy(t, list, n)
  <2>1. \E s : s = TakenBy(s, list, n)
    BY <1>1, LoopIsDefined
  <2> QED BY <2>1
<1>3. Assigned(list) = t[n]
  BY DEF Assigned, TakenBy
<1> HIDE DEF t, n
<1>4. \A m \in 0..n : t[m] = IF m = 0 THEN {}
                             ELSE IF \E d \in t[m - 1] : Conflicts(list[m], d) THEN t[m - 1]
                             ELSE t[m - 1] \union {list[m]}
  BY <1>2 DEF TakenBy
<1> DEFINE Fine(m) ==
             /\ t[m] \subseteq {list[i] : i \in 1..m}
             /\ \A c, d \in t[m] : Conflicts(c, d) => c = d
             /\ \A j \in 1..m : \/ list[j] \in t[m]
                                \/ \E i \in 1..(j - 1) : list[i] \in t[m] /\ Conflicts(list[j], list[i])
           Bad == {m \in 0..n : ~Fine(m)}
<1>5. ASSUME NEW m \in 1..n, Fine(m - 1) PROVE Fine(m)
  <2>1. m \in 0..n /\ m # 0 /\ m - 1 \in Nat /\ m \in Nat
    BY <1>1
  <2>2. /\ t[m - 1] \subseteq {list[i] : i \in 1..(m - 1)}
        /\ \A c, d \in t[m - 1] : Conflicts(c, d) => c = d
        /\ \A j \in 1..(m - 1) :
             \/ list[j] \in t[m - 1]
             \/ \E i \in 1..(j - 1) : list[i] \in t[m - 1] /\ Conflicts(list[j], list[i])
    BY <1>5
  <2>3. t[m] = IF \E d \in t[m - 1] : Conflicts(list[m], d) THEN t[m - 1]
               ELSE t[m - 1] \union {list[m]}
    BY <1>4, <2>1
  <2> HIDE DEF Bad
  <2>4. t[m] \subseteq {list[i] : i \in 1..m}
    <3>1. 1..(m - 1) \subseteq 1..m /\ m \in 1..m
      BY <2>1
    <3> QED BY <2>2, <2>3, <3>1
  <2>5. \A c, d \in t[m] : Conflicts(c, d) => c = d
    <3>1. \A c, d : Conflicts(c, d) <=> Conflicts(d, c)
      BY DEF Conflicts
    <3> QED BY <2>2, <2>3, <3>1
  <2>6. t[m - 1] \subseteq t[m]
    BY <2>3
  <2>7. \A j \in 1..m : \/ list[j] \in t[m]
                        \/ \E i \in 1..(j - 1) : list[i] \in t[m] /\ Conflicts(list[j], list[i])
    <3>1. SUFFICES ASSUME NEW j \in 1..m
                   PROVE  \/ list[j] \in t[m]
                          \/ \E i \in 1..(j - 1) : list[i] \in t[m] /\ Conflicts(list[j], list[i])
      OBVIOUS
    <3>2. CASE j \in 1..(m - 1)
      BY <2>2, <2>6, <3>2
    <3>3. CASE j = m
      <4>1. CASE \E d \in t[m - 1] : Conflicts(list[m], d)
        <5>1. PICK d \in t[m - 1] : Conflicts(list[m], d)
          BY <4>1
        <5>2. PICK i \in 1..(m - 1) : d = list[i]
          BY <2>2, <5>1
        <5> QED BY <2>6, <3>3, <5>1, <5>2
      <4>2. CASE ~ \E d \in t[m - 1] : Conflicts(list[m], d)
        BY <2>3, <3>3, <4>2
      <4> QED BY <4>1, <4>2
    <3>4. j \in 1..(m - 1) \/ j = m
      BY <2>1
    <3> QED BY <3>2, <3>3, <3>4
  <2> QED BY <2>4, <2>5, <2>7
<1>6. Fine(0)
  <2>1. 0 \in 0..n /\ 1..0 = {}
    BY <1>1
  <2>2. t[0] = {}
    BY <1>4, <2>1
  <2> QED BY <2>1, <2>2
<1> HIDE DEF Fine
<1>7. Bad = {}
  <2>1. SUFFICES ASSUME Bad # {} PROVE FALSE
    OBVIOUS
  <2>2. Bad \subseteq Nat
    BY <1>1
  <2>3. PICK m \in Bad : \A k \in Bad : m <= k
    BY <2>1, <2>2, HasLeast
  <2>4. m \in 0..n /\ ~Fine(m)
    OBVIOUS
  <2>5. m # 0
    BY <1>6, <2>4
  <2>6. m \in 1..n /\ m - 1 \in 0..n /\ m - 1 < m
    BY <1>1, <2>4, <2>5
  <2>7. Fine(m - 1)
    BY <1>1, <2>3, <2>4, <2>6
  <2> QED BY <1>5, <2>4, <2>6, <2>7
<1>8. Fine(n)
  BY <1>1, <1>7
<1>9. /\ t[n] \subseteq {list[i] : i \in 1..n}
      /\ \A c, d \in t[n] : Conflicts(c, d) => c = d
      /\ \A j \in 1..n : \/ list[j] \in t[n]
                         \/ \E i \in 1..(j - 1) : list[i] \in t[n] /\ Conflicts(list[j], list[i])
  BY <1>8 DEF Fine
<1>10. {list[i] : i \in 1..n} \subseteq S
  BY <1>1
<1> QED BY <1>3, <1>9, <1>10 DEF n

(* The matching of a frame: candidates without a conflict, and a candidate *)
(* that is not matched conflicts with one that comes before it.            *)
LEMMA MatchingIs ==
  ASSUME NEW known \in Seq(Tracked), NEW at \in Int, NEW f \in Seq(Detection),
         NEW S, S = Candidates(known, at, f), NEW M, M = Matching(known, at, f)
  PROVE  /\ M \subseteq S
         /\ \A c, d \in M : Conflicts(c, d) => c = d
         /\ \A c \in S \ M : \E d \in M : Before(d, c) /\ Conflicts(c, d)
<1> DEFINE list == Sorted(S)
<1>1. M = Assigned(list)
  BY DEF Matching
<1>2a. SortedAs(list, S)
  BY SortedCandidates
<1> HIDE DEF list
<1>2. /\ list \in Seq(S)
      /\ \A c \in S : \E k \in 1..Len(list) : c = list[k]
      /\ \A i, j \in 1..Len(list) : i < j => Before(list[i], list[j])
  BY <1>2a DEF SortedAs
<1>3. /\ M \subseteq S
      /\ \A c, d \in M : Conflicts(c, d) => c = d
      /\ \A j \in 1..Len(list) :
           \/ list[j] \in M
           \/ \E i \in 1..(j - 1) : list[i] \in M /\ Conflicts(list[j], list[i])
  BY <1>1, <1>2, AssignedAre
<1>4. ASSUME NEW c \in S \ M PROVE \E d \in M : Before(d, c) /\ Conflicts(c, d)
  <2>1. PICK j \in 1..Len(list) : c = list[j]
    BY <1>2
  <2>2. PICK i \in 1..(j - 1) : list[i] \in M /\ Conflicts(list[j], list[i])
    BY <1>3, <1>4, <2>1
  <2>3. Len(list) \in Nat
    BY <1>2
  <2>4. i \in 1..Len(list) /\ i < j
    BY <2>1, <2>2, <2>3
  <2> QED BY <1>2, <2>1, <2>2, <2>4
<1> QED BY <1>3, <1>4
(* The track of every detection: the matched one's, or one that no track   *)
(* and no other detection has.                                             *)
LEMMA TrackIdsAre ==
  ASSUME NEW known \in Seq(Tracked), NEW at \in Int, NEW f \in Seq(Detection),
         NEW ids, ids = TrackIds(known, at, f), NEW M, M = Matching(known, at, f)
  PROVE  /\ ids \in [1..Len(f) -> 1..(Len(known) + Len(f))]
         /\ \A i, j \in 1..Len(f) : ids[i] = ids[j] => i = j
         /\ \A m \in M : m.det \in 1..Len(f) /\ ids[m.det] = m.track
<1> DEFINE n == Len(f)  o == Len(known)  matched == {m.det : m \in M}
           New(i) == (1..i) \ matched
<1>1. /\ n \in Nat /\ DOMAIN f = 1..n
      /\ o \in Nat /\ DOMAIN known = 1..o
  OBVIOUS
<1>2. \A m \in M : m.det \in 1..n /\ m.track \in 1..o
  <2>1. M \subseteq Candidates(known, at, f)
    BY MatchingIs
  <2> QED BY <1>1, <2>1, CandidatesAre
<1>3. \A c, d \in M : c.det = d.det \/ c.track = d.track => c = d
  <2>1. \A c, d \in M : Conflicts(c, d) => c = d
    BY MatchingIs
  <2> QED BY <2>1 DEF Conflicts
<1>4. ids = [i \in 1..n |-> IF i \in matched THEN (CHOOSE m \in M : m.det = i).track
                            ELSE o + Cardinality(New(i))]
  BY <1>1 DEF TrackIds
<1> HIDE DEF n, o
<1>5. ASSUME NEW m \in M PROVE ids[m.det] = m.track
  <2>1. m.det \in matched /\ m.det \in 1..n
    BY <1>2
  <2>2. ids[m.det] = (CHOOSE c \in M : c.det = m.det).track
    BY <1>4, <2>1
  <2>3. (CHOOSE c \in M : c.det = m.det) = m
    BY <1>3
  <2> QED BY <2>2, <2>3
<1> DEFINE fresh == (1..n) \ matched
<1>6. \A i \in fresh : ids[i] = o + Cardinality(New(i))
  BY <1>4
<1>7. ASSUME NEW i \in fresh
      PROVE  IsFiniteSet(New(i)) /\ Cardinality(New(i)) \in 1..n
  <2>1. i \in New(i) /\ New(i) \subseteq 1..n
    BY <1>1
  <2> HIDE DEF New
  <2>2. IsFiniteSet(New(i)) /\ Cardinality(New(i)) \in 0..n
    BY <1>1, <2>1, PartsAreFinite
  <2>3. Cardinality(New(i)) # 0
    BY <2>1, <2>2, FS_EmptySet
  <2> QED BY <1>1, <2>2, <2>3
<1>8. ASSUME NEW i \in fresh, NEW j \in fresh, i < j
      PROVE  Cardinality(New(i)) < Cardinality(New(j))
  <2>1. New(i) \subseteq New(j) /\ j \in New(j) /\ j \notin New(i)
    BY <1>1, <1>8
  <2>2. IsFiniteSet(New(j))
    BY <1>7
  <2> HIDE DEF New
  <2>3. New(i) # New(j)
    BY <2>1
  <2> QED BY <2>1, <2>2, <2>3, StrictlySmaller
<1> HIDE DEF New
<1>9. \A i \in fresh : ids[i] \in (o + 1)..(o + n)
  BY <1>1, <1>6, <1>7
<1>10. \A i, j \in fresh : ids[i] = ids[j] => i = j
  <2>1. SUFFICES ASSUME NEW i \in fresh, NEW j \in fresh, ids[i] = ids[j], i # j PROVE FALSE
    OBVIOUS
  <2>2. i \in Nat /\ j \in Nat
    BY <1>1
  <2>3. Cardinality(New(i)) = Cardinality(New(j))
    BY <1>1, <1>6, <1>7, <2>1
  <2>4. i < j \/ j < i
    BY <2>1, <2>2
  <2> QED BY <1>1, <1>7, <1>8, <2>3, <2>4
<1>11. \A i \in (1..n) : i \in fresh \/ \E m \in M : i = m.det
  OBVIOUS
<1>12. \A i \in 1..n : (i \in fresh => ids[i] > o) /\ (i \notin fresh => ids[i] \in 1..o)
  BY <1>1, <1>2, <1>5, <1>9, <1>11
<1> HIDE DEF fresh, matched
<1>13. \A i \in 1..n : ids[i] \in 1..(o + n)
  BY <1>1, <1>2, <1>5, <1>9, <1>11
<1>14. ids \in [1..n -> 1..(o + n)]
  <2>1. ids = [i \in 1..n |-> ids[i]]
    BY <1>4
  <2> QED BY <1>13, <2>1
<1>15. \A i, j \in 1..n : ids[i] = ids[j] => i = j
  <2>1. SUFFICES ASSUME NEW i \in 1..n, NEW j \in 1..n, ids[i] = ids[j] PROVE i = j
    OBVIOUS
  <2>2. ids[i] \in Nat /\ ids[j] \in Nat
    BY <1>1, <1>13
  <2>3. (i \in fresh) <=> (j \in fresh)
    BY <1>1, <1>12, <2>1, <2>2
  <2>4. CASE i \in fresh
    BY <1>10, <2>1, <2>3, <2>4
  <2>5. CASE i \notin fresh
    <3>1. PICK c \in M : i = c.det
      BY <1>11, <2>5
    <3>2. PICK d \in M : j = d.det
      BY <1>11, <2>3, <2>5
    <3> QED BY <1>3, <1>5, <2>1, <3>1, <3>2
  <2> QED BY <2>4, <2>5
<1> QED BY <1>2, <1>5, <1>14, <1>15 DEF n, o
(* What a track was before a frame: it, or the one that is started.        *)
Formerly(known, k) == IF k \in DOMAIN known THEN known[k] ELSE NewTrack

(* An observed track is a track.                                           *)
LEMMA ObservedAre ==
  ASSUME NEW t \in Tracked, NEW d \in Detection, NEW fired \in BOOLEAN, NEW at \in Int
  PROVE  Observe(t, d, fired, at) \in Tracked
<1> DEFINE run == IF fired THEN (IF t.last_step = at - 1 THEN t.current_run + 1 ELSE 1) ELSE 0
<1>1. /\ t.observations \in Nat /\ t.hits \in Nat /\ t.longest_run \in Nat
      /\ t.last_box \in Box /\ t.last_step \in Int /\ t.current_run \in Nat /\ d.box \in Box
  BY DEF Tracked, Detection
<1>2. run \in Nat
  BY <1>1
<1>3. /\ t.observations + 1 \in Nat /\ t.hits + (IF fired THEN 1 ELSE 0) \in Nat
      /\ Larger(t.longest_run, run) \in Nat
      /\ (IF d.box # NoBox THEN d.box ELSE t.last_box) \in Box
  BY <1>1, <1>2 DEF Larger
<1>4. Observe(t, d, fired, at)
        = [observations |-> t.observations + 1,
           hits         |-> t.hits + (IF fired THEN 1 ELSE 0),
           longest_run  |-> Larger(t.longest_run, run),
           last_box     |-> IF d.box # NoBox THEN d.box ELSE t.last_box,
           last_step    |-> at,
           current_run  |-> run]
  BY DEF Observe
<1> HIDE DEF run
<1> QED BY <1>2, <1>3, <1>4 DEF Tracked

Follows(new, known, at, f, ids) ==
  /\ new \in Seq(Tracked) /\ Len(known) <= Len(new)
  /\ \A k \in 1..Len(new) : Formerly(known, k) \in Tracked
  /\ \A i \in 1..Len(f) :
       /\ ids[i] \in 1..Len(new)
       /\ new[ids[i]] = Observe(Formerly(known, ids[i]), f[i], f[i].smoke # None, at)
  /\ \A k \in 1..Len(new) :
       (\A i \in 1..Len(f) : ids[i] # k) => new[k] = Formerly(known, k)

(* The tracks after a frame: those of its detections have one observation  *)
(* more, which is the frame's, and the others are what they were.          *)
LEMMA UpdateIs ==
  ASSUME NEW known \in Seq(Tracked), NEW at \in Int, NEW f \in Seq(Detection),
         NEW ids \in [1..Len(f) -> 1..(Len(known) + Len(f))],
         \A i, j \in 1..Len(f) : ids[i] = ids[j] => i = j,
         NEW new, new = Update(known, at, f, Fired(f), ids)
  PROVE  Follows(new, known, at, f, ids)
<1> DEFINE n == Len(f)  o == Len(known)  T == {o} \union Range(ids)  m == Max(T)
           Mine(k) == {i \in DOMAIN ids : ids[i] = k}
           One(k) == IF Mine(k) = {} THEN Formerly(known, k)
                     ELSE LET i == CHOOSE j \in Mine(k) : TRUE
                          IN Observe(Formerly(known, k), f[i], Fired(f)[i], at)
<1>1. /\ n \in Nat /\ DOMAIN f = 1..n /\ o \in Nat /\ DOMAIN known = 1..o /\ DOMAIN ids = 1..n
      /\ \A i \in 1..n : ids[i] \in 1..(o + n) /\ f[i] \in Detection
      /\ \A k \in 1..o : known[k] \in Tracked
  OBVIOUS
<1>2. \A k \in Nat : Formerly(known, k) \in Tracked
  <2>1. NewTrack \in Tracked
    BY DEF NewTrack, Tracked, NoBox, Box
  <2> QED BY <1>1, <2>1 DEF Formerly
<1>3. new = [k \in 1..m |-> One(k)]
  BY DEF Update, Formerly
<1>4. /\ m \in Nat /\ o <= m /\ \A i \in 1..n : ids[i] <= m
  <2>1. Range(ids) = {ids[i] : i \in 1..n}
    BY <1>1 DEF Range
  <2> HIDE DEF n, o
  <2>2. T \subseteq 0..(o + n) /\ T # {} /\ o + n \in Nat
    BY <1>1, <2>1
  <2> HIDE DEF T
  <2>3. PICK x \in T : \A y \in T : x >= y
    BY <2>2, HasLargest
  <2>4. m = x
    <3>1. T \subseteq Int
      BY <2>2
    <3> QED BY <2>3, <3>1, MaxIs
  <2>5. o \in T /\ \A i \in 1..n : ids[i] \in T
    BY <2>1 DEF T
  <2> HIDE DEF m
  <2>6. x \in Nat
    BY <2>2
  <2>7. o <= x /\ \A i \in 1..n : ids[i] <= x
    <3>1. \A y \in T : y \in Nat
      BY <2>2
    <3>2. o \in Nat /\ o <= x
      BY <2>3, <2>5, <3>1, <2>6
    <3>3. ASSUME NEW i \in 1..n PROVE ids[i] <= x
      <4>1. ids[i] \in T /\ ids[i] \in Nat
        BY <2>5, <3>1
      <4> QED BY <2>3, <2>6, <4>1
    <3> QED BY <3>2, <3>3
  <2> QED BY <2>4, <2>6, <2>7
<1>5. ASSUME NEW i \in 1..n
      PROVE  One(ids[i]) = Observe(Formerly(known, ids[i]), f[i], f[i].smoke # None, at)
  <2>1. Mine(ids[i]) = {i}
    BY <1>1
  <2>2. (CHOOSE j \in Mine(ids[i]) : TRUE) = i
    BY <2>1
  <2>3. Fired(f)[i] = (f[i].smoke # None)
    BY <1>1 DEF Fired
  <2> QED BY <2>1, <2>2, <2>3
<1>6. \A k : (\A i \in 1..n : ids[i] # k) => One(k) = Formerly(known, k)
  BY <1>1
<1> HIDE DEF n, o, m, One
<1>7. ASSUME NEW k \in 1..m PROVE One(k) \in Tracked
  <2>1. k \in Nat
    BY <1>4
  <2>2. CASE \E i \in 1..n : ids[i] = k
    <3>1. PICK i \in 1..n : ids[i] = k
      BY <2>2
    <3>2. f[i] \in Detection /\ Formerly(known, k) \in Tracked /\ (f[i].smoke # None) \in BOOLEAN
      BY <1>1, <1>2, <2>1
    <3>3. Observe(Formerly(known, k), f[i], f[i].smoke # None, at) \in Tracked
      BY <3>2, ObservedAre
    <3> QED BY <1>5, <3>1, <3>3
  <2>3. CASE \A i \in 1..n : ids[i] # k
    BY <1>2, <1>6, <2>1, <2>3
  <2> QED BY <2>2, <2>3
<1>8. new \in Seq(Tracked) /\ Len(new) = m
  BY <1>3, <1>4, <1>7
<1>9. ASSUME NEW i \in 1..n
      PROVE  /\ ids[i] \in 1..Len(new)
             /\ new[ids[i]] = Observe(Formerly(known, ids[i]), f[i], f[i].smoke # None, at)
  <2>1. ids[i] \in 1..m
    BY <1>1, <1>4
  <2> QED BY <1>3, <1>5, <1>8, <2>1
<1>10. \A k \in 1..Len(new) : (\A i \in 1..n : ids[i] # k) => new[k] = Formerly(known, k)
  BY <1>3, <1>6, <1>8
<1>11. \A k \in 1..Len(new) : Formerly(known, k) \in Tracked
  BY <1>2, <1>4, <1>8
<1>12. Len(known) <= Len(new)
  BY <1>4, <1>8 DEF o
<1> QED BY <1>8, <1>9, <1>10, <1>11, <1>12 DEF n, Follows
----------------------------------------------------------------------------
(* No stretch in S is longer than x, and one is as long.                   *)
IsLongest(x, S, n) ==
  /\ x \in 0..n
  /\ \A a, b \in S : a <= b /\ a..b \subseteq S => b - a + 1 <= x
  /\ x = 0 \/ \E a, b \in S : a <= b /\ a..b \subseteq S /\ x = b - a + 1

(* That is the longest stretch of a set of steps.                          *)
LEMMA StretchIs ==
  ASSUME NEW n \in Nat, NEW S, S \subseteq 1..n
  PROVE  IsLongest(LongestStretch(S), S, n)
<1> DEFINE Pairs == {q \in S \X S : q[1] <= q[2] /\ q[1]..q[2] \subseteq S}
           T == {0} \union {p[2] - p[1] + 1 : p \in Pairs}
<1>1. \A p \in Pairs : p[1] \in S /\ p[2] \in S /\ p[1] <= p[2] /\ p[1]..p[2] \subseteq S
  OBVIOUS
<1>2. \A a, b \in S : a <= b /\ a..b \subseteq S => b - a + 1 \in T
  <2>1. SUFFICES ASSUME NEW a \in S, NEW b \in S, a <= b, a..b \subseteq S
                 PROVE  b - a + 1 \in T
    OBVIOUS
  <2>2. <<a, b>> \in Pairs
    BY <2>1
  <2>3. <<a, b>>[2] - <<a, b>>[1] + 1 \in T
    BY <2>2
  <2> QED BY <2>3
<1>3. \A x \in T : x = 0 \/ \E a, b \in S : a <= b /\ a..b \subseteq S /\ x = b - a + 1
  BY <1>1
<1> HIDE DEF Pairs
<1>4. T \subseteq 0..n /\ 0 \in T
  <2>1. ASSUME NEW p \in Pairs PROVE p[2] - p[1] + 1 \in 0..n
    <3> DEFINE a == p[1]  b == p[2]
    <3>1. a \in S /\ b \in S /\ a <= b
      BY <1>1
    <3> HIDE DEF a, b
    <3>2. a \in 1..n /\ b \in 1..n
      BY <3>1
    <3>3. b - a + 1 \in 0..n
      BY <3>1, <3>2
    <3> QED BY <3>3 DEF a, b
  <2> QED BY <2>1
<1>5. LongestStretch(S) = Max(T)
  BY DEF LongestStretch, Pairs
<1> HIDE DEF T
<1>6. PICK m \in T : \A y \in T : m >= y
  BY <1>4, HasLargest
<1>7. Max(T) = m
  <2>1. T \subseteq Int
    BY <1>4
  <2> QED BY <1>6, <2>1, MaxIs
<1>8. LongestStretch(S) \in 0..n /\ LongestStretch(S) \in T
  BY <1>4, <1>5, <1>6, <1>7
<1>9. \A a, b \in S : a <= b /\ a..b \subseteq S => b - a + 1 <= LongestStretch(S)
  BY <1>2, <1>5, <1>6, <1>7
<1> QED BY <1>3, <1>8, <1>9 DEF IsLongest

(* With the step after the last one a stretch is as long as it was, or the *)
(* stretch that ends there.                                                *)
LEMMA StretchGrows ==
  ASSUME NEW n \in Nat, NEW S, S \subseteq 1..n, NEW r \in Nat,
         (n + 1 - r)..n \subseteq S, n - r \notin S
  PROVE  LongestStretch(S \union {n + 1}) = Larger(LongestStretch(S), r + 1)
<1> DEFINE S1 == S \union {n + 1}  L == LongestStretch(S)  L1 == LongestStretch(S1)
<1>1. S1 \subseteq 1..(n + 1) /\ n + 1 \in Nat /\ S \subseteq S1 /\ n + 1 \in S1
  OBVIOUS
<1>2. /\ L \in 0..n
      /\ \A a, b \in S : a <= b /\ a..b \subseteq S => b - a + 1 <= L
      /\ L = 0 \/ \E a, b \in S : a <= b /\ a..b \subseteq S /\ L = b - a + 1
  <2>1. IsLongest(L, S, n)
    BY StretchIs
  <2> QED BY <2>1 DEF IsLongest
<1>3. /\ L1 \in 0..(n + 1)
      /\ \A a, b \in S1 : a <= b /\ a..b \subseteq S1 => b - a + 1 <= L1
      /\ L1 = 0 \/ \E a, b \in S1 : a <= b /\ a..b \subseteq S1 /\ L1 = b - a + 1
  <2> HIDE DEF S1
  <2>1. IsLongest(L1, S1, n + 1)
    BY <1>1, StretchIs
  <2> HIDE DEF L1
  <2> QED BY <2>1 DEF IsLongest
<1> HIDE DEF L, L1
<1>4. L <= L1
  <2>1. CASE L = 0
    BY <1>3, <2>1
  <2>2. CASE L # 0
    <3>1. PICK a, b \in S : a <= b /\ a..b \subseteq S /\ L = b - a + 1
      BY <1>2, <2>2
    <3>2. a \in S1 /\ b \in S1 /\ a..b \subseteq S1
      BY <3>1
    <3> QED BY <1>3, <3>1, <3>2
  <2> QED BY <2>1, <2>2
<1>5. r + 1 <= L1
  <2>1. r <= n
    <3>1. SUFFICES ASSUME r > n PROVE FALSE
      OBVIOUS
    <3>2. n + 1 - r \in (n + 1 - r)..n /\ n + 1 - r < 1
      BY <3>1
    <3>3. n + 1 - r \in 1..n
      BY <3>2
    <3> QED BY <3>2, <3>3
  <2>2. n + 1 - r \in S1
    <3>1. CASE r = 0
      BY <3>1
    <3>2. CASE r # 0
      <4>1. n + 1 - r \in (n + 1 - r)..n
        BY <2>1, <3>2
      <4> QED BY <4>1
    <3> QED BY <3>1, <3>2
  <2>3. (n + 1 - r)..(n + 1) \subseteq S1
    <3>1. \A x \in (n + 1 - r)..(n + 1) : x \in (n + 1 - r)..n \/ x = n + 1
      OBVIOUS
    <3> QED BY <3>1
  <2>4. n + 1 - r <= n + 1 /\ (n + 1) - (n + 1 - r) + 1 = r + 1
    OBVIOUS
  <2> HIDE DEF S1
  <2> QED BY <1>1, <1>3, <2>2, <2>3, <2>4
<1>6. L1 <= L \/ L1 <= r + 1
  <2>1. CASE L1 = 0
    BY <1>2, <2>1
  <2>2. CASE L1 # 0
    <3>1. PICK a, b \in S1 : a <= b /\ a..b \subseteq S1 /\ L1 = b - a + 1
      BY <1>3, <2>2
    <3>2. a \in 1..(n + 1) /\ b \in 1..(n + 1)
      BY <1>1
    <3>3. CASE b <= n
      <4>1. \A x \in a..b : x \in S
        BY <3>1, <3>2, <3>3
      <4>2. a \in a..b /\ b \in a..b
        BY <3>1, <3>2
      <4>3. a \in S /\ b \in S /\ a..b \subseteq S
        BY <4>1, <4>2
      <4> QED BY <1>2, <3>1, <4>3
    <3>4. CASE b = n + 1
      <4>1. ASSUME a <= n - r PROVE FALSE
        <5>1. n - r \in a..b /\ n - r # n + 1
          BY <3>2, <3>4, <4>1
        <5> QED BY <3>1, <5>1
      <4> QED BY <3>1, <3>2, <3>4, <4>1
    <3> QED BY <3>2, <3>3, <3>4
  <2> QED BY <2>1, <2>2
<1>7. L1 = Larger(L, r + 1)
  BY <1>2, <1>3, <1>4, <1>5, <1>6 DEF Larger
<1> QED BY <1>7 DEF L, L1
(* What a track says of the sightings of its vehicle (see Remembers).      *)
Recalls(t, seen, fired) ==
  LET last == t.last_step + 1
  IN /\ t.observations = Cardinality(seen)
     /\ t.hits = Cardinality(fired)
     /\ t.longest_run = LongestStretch(Steps(fired))
     /\ last \in {0} \union Steps(seen)
     /\ \A s \in Steps(seen) : s <= last
     /\ (last + 1 - t.current_run)..last \subseteq Steps(fired)
     /\ last - t.current_run \notin Steps(fired)

(* A track that is started has seen nothing.                               *)
LEMMA NothingIsRecalled == NewTrack \in Tracked /\ Recalls(NewTrack, {}, {})
<1>1. NewTrack \in Tracked
  BY DEF NewTrack, Tracked, NoBox, Box
<1>2. Cardinality({}) = 0 /\ Steps({}) = {}
  BY FS_EmptySet DEF Steps
<1>3. LongestStretch({}) = 0
  <2>1. {} \subseteq 1..0
    OBVIOUS
  <2>2. LongestStretch({}) \in 0..0
    BY <2>1, StretchIs DEF IsLongest
  <2> QED BY <2>2
<1>4. /\ NewTrack.observations = 0 /\ NewTrack.hits = 0 /\ NewTrack.longest_run = 0
      /\ NewTrack.last_step + 1 = 0 /\ NewTrack.current_run = 0
  BY DEF NewTrack
<1> QED BY <1>1, <1>2, <1>3, <1>4 DEF Recalls

(* The step of one more sighting.                                          *)
LEMMA StepsGrow ==
  ASSUME NEW S, NEW s, NEW i
  PROVE  Steps(S \union {<<s, i>>}) = Steps(S) \union {s}
<1> DEFINE T == S \union {<<s, i>>}
<1>1. Steps(T) = {p[1] : p \in T} /\ Steps(S) = {p[1] : p \in S} /\ <<s, i>>[1] = s
  BY DEF Steps
<1>2. \A x \in Steps(T) : x \in Steps(S) \/ x = s
  BY <1>1
<1>3. <<s, i>> \in T /\ S \subseteq T
  OBVIOUS
<1> HIDE DEF T
<1>4. s \in Steps(T) /\ \A x \in Steps(S) : x \in Steps(T)
  BY <1>1, <1>3
<1> QED BY <1>2, <1>4 DEF T

(* One more sighting is recalled by the track that observes it: in a row   *)
(* with the last one when that was a step before.                          *)
LEMMA SightingIsRecalled ==
  ASSUME NEW n \in Nat, NEW t \in Tracked, NEW d \in Detection, NEW i \in Nat,
         NEW seen, NEW fired, fired \subseteq seen, seen \subseteq (1..n) \X Nat,
         IsFiniteSet(seen), Recalls(t, seen, fired),
         NEW seen1, seen1 = seen \union {<<n + 1, i>>},
         NEW fired1, fired1 = IF d.smoke # None THEN fired \union {<<n + 1, i>>} ELSE fired
  PROVE  Recalls(Observe(t, d, d.smoke # None, n), seen1, fired1)
<1> DEFINE p == <<n + 1, i>>  u == Observe(t, d, d.smoke # None, n)  S == Steps(fired)
           last == t.last_step + 1  r == IF last = n THEN t.current_run ELSE 0
<1>1. /\ t.observations \in Nat /\ t.hits \in Nat /\ t.longest_run \in Nat
      /\ t.last_step \in Int /\ t.current_run \in Nat
  BY DEF Tracked
<1>2. /\ t.observations = Cardinality(seen)
      /\ t.hits = Cardinality(fired)
      /\ t.longest_run = LongestStretch(S)
      /\ last \in {0} \union Steps(seen)
      /\ \A s \in Steps(seen) : s <= last
      /\ (last + 1 - t.current_run)..last \subseteq S
      /\ last - t.current_run \notin S
  BY DEF Recalls
<1>3. /\ u.observations = t.observations + 1
      /\ u.hits = t.hits + (IF d.smoke # None THEN 1 ELSE 0)
      /\ u.last_step = n
  BY DEF Observe
<1>4. /\ d.smoke # None => u.current_run = r + 1 /\ u.longest_run = Larger(t.longest_run, r + 1)
      /\ d.smoke = None => u.current_run = 0 /\ u.longest_run = t.longest_run
  <2>1. t.last_step = n - 1 <=> last = n
    BY <1>1
  <2>2. d.smoke # None => u.current_run = r + 1 /\ u.longest_run = Larger(t.longest_run, r + 1)
    BY <1>1, <2>1 DEF Observe
  <2>3. d.smoke = None => u.current_run = 0 /\ u.longest_run = t.longest_run
    BY <1>1 DEF Observe, Larger
  <2> QED BY <2>2, <2>3
<1> HIDE DEF u
<1>5. /\ p \notin seen /\ p \notin fired /\ IsFiniteSet(fired)
      /\ S \subseteq Steps(seen) /\ Steps(seen) \subseteq 1..n
  <2>1. p \notin seen /\ p \notin fired
    OBVIOUS
  <2>2. fired \in SUBSET seen
    OBVIOUS
  <2>3. IsFiniteSet(fired)
    BY <2>2, FS_Subset
  <2>4. Steps(fired) \subseteq Steps(seen) /\ Steps(seen) \subseteq 1..n
    BY DEF Steps
  <2> QED BY <2>1, <2>3, <2>4
<1>6. /\ Steps(seen1) = Steps(seen) \union {n + 1}
      /\ Steps(fired \union {p}) = S \union {n + 1}
  BY StepsGrow
<1>7. (n + 1 - r)..n \subseteq S /\ n - r \notin S /\ r \in Nat
  <2>1. CASE last = n
    BY <1>1, <1>2, <2>1
  <2>2. CASE last # n
    <3>1. n \notin Steps(seen)
      <4>1. last <= n
        BY <1>2, <1>5
      <4> QED BY <1>1, <1>2, <2>2, <4>1
    <3>2. r = 0 /\ (n + 1 - 0)..n = {} /\ n - 0 = n
      BY <2>2
    <3> HIDE DEF r
    <3> QED BY <1>5, <3>1, <3>2
  <2> QED BY <2>1, <2>2
<1> HIDE DEF S, r, last
<1>8. S \subseteq 1..n
  BY <1>5
<1>9. u.observations = Cardinality(seen1)
  <2>1. Cardinality(seen \union {p}) = Cardinality(seen) + 1
    BY <1>5, FS_AddElement
  <2> QED BY <1>2, <1>3, <2>1
<1>10. u.hits = Cardinality(fired1)
  <2>1. Cardinality(fired \union {p}) = Cardinality(fired) + 1
    BY <1>5, FS_AddElement
  <2> QED BY <1>1, <1>2, <1>3, <2>1
<1>11. u.longest_run = LongestStretch(Steps(fired1))
  <2>1. CASE d.smoke # None
    <3>1. LongestStretch(S \union {n + 1}) = Larger(LongestStretch(S), r + 1)
      BY <1>7, <1>8, StretchGrows
    <3> QED BY <1>2, <1>4, <1>6, <2>1, <3>1
  <2>2. CASE d.smoke = None
    BY <1>2, <1>4, <2>2 DEF S
  <2> QED BY <2>1, <2>2
<1>12. n + 1 \in {0} \union Steps(seen1) /\ \A s \in Steps(seen1) : s <= n + 1
  <2>1. n + 1 \in Steps(seen1)
    BY <1>6
  <2>2. ASSUME NEW s \in Steps(seen1) PROVE s <= n + 1
    <3>1. s \in 1..n \/ s = n + 1
      BY <1>5, <1>6
    <3> QED BY <3>1
  <2> QED BY <2>1, <2>2
<1>13. (n + 2 - u.current_run)..(n + 1) \subseteq Steps(fired1)
       /\ n + 1 - u.current_run \notin Steps(fired1)
  <2>1. CASE d.smoke # None
    <3>1. u.current_run = r + 1 /\ n + 2 - (r + 1) = n + 1 - r /\ n + 1 - (r + 1) = n - r
      BY <1>4, <1>7, <2>1
    <3>2. Steps(fired1) = S \union {n + 1}
      BY <1>6, <2>1
    <3>3. \A x \in (n + 1 - r)..(n + 1) : x \in (n + 1 - r)..n \/ x = n + 1
      BY <1>7
    <3>4. n - r # n + 1
      BY <1>7
    <3> QED BY <1>7, <3>1, <3>2, <3>3, <3>4
  <2>2. CASE d.smoke = None
    <3>1. u.current_run = 0 /\ Steps(fired1) = S
      BY <1>4, <2>2 DEF S
    <3> QED BY <1>8, <3>1
  <2> QED BY <2>1, <2>2
<1>14. u.last_step + 1 = n + 1 /\ u.current_run \in Nat
  BY <1>1, <1>3, <1>4, <1>7
<1> DEFINE now == u.last_step + 1  run == u.current_run
<1>15. /\ now \in {0} \union Steps(seen1)
       /\ \A s \in Steps(seen1) : s <= now
       /\ (now + 1 - run)..now \subseteq Steps(fired1)
       /\ now - run \notin Steps(fired1)
  <2>1. now = n + 1 /\ run \in Nat
    BY <1>14
  <2> HIDE DEF now
  <2>2. now \in {0} \union Steps(seen1) /\ \A s \in Steps(seen1) : s <= now
    BY <1>12, <2>1, Zenon
  <2>3. (n + 2 - run)..(n + 1) \subseteq Steps(fired1) /\ n + 1 - run \notin Steps(fired1)
    BY <1>13
  <2> HIDE DEF run
  <2>4. now + 1 - run = n + 2 - run /\ now - run = n + 1 - run
    BY <2>1
  <2> QED BY <2>1, <2>2, <2>3, <2>4, Zenon
<1>16. Recalls(u, seen1, fired1)
  BY <1>9, <1>10, <1>11, <1>15, Zenon DEF Recalls
<1> QED BY <1>16 DEF u
----------------------------------------------------------------------------
(* The sightings of a vehicle, one by one.                                 *)
LEMMA SightingsSay ==
  ASSUME NEW k, NEW p
  PROVE  /\ (p \in Sightings(k)) <=>
              \E s \in DOMAIN history : \E i \in DOMAIN history[s].ids :
                history[s].ids[i] = k /\ p = <<s, i>>
         /\ (p \in Firing(k)) <=>
              p \in Sightings(k) /\ history[p[1]].dets[p[2]].smoke # None
BY DEF Sightings, Firing

(* At most one of each step, so there are finitely many.                   *)
LEMMA SightingsAre ==
  ASSUME HistoryInv, HistoryIsSeq, \A s \in DOMAIN history : Assigns(history[s]), NEW k
  PROVE  /\ Sightings(k) \subseteq (DOMAIN history) \X Nat /\ IsFiniteSet(Sightings(k))
         /\ Firing(k) \subseteq Sightings(k)
<1> DEFINE At(s) == {i \in DOMAIN history[s].ids : history[s].ids[i] = k}
           T == {s \in DOMAIN history : At(s) # {}}
           g == [s \in T |-> <<s, CHOOSE i \in At(s) : TRUE>>]
<1>1. \A s \in DOMAIN history :
        /\ DOMAIN history[s].ids = DOMAIN history[s].dets
        /\ \A i, j \in DOMAIN history[s].ids : history[s].ids[i] = history[s].ids[j] => i = j
        /\ history[s].dets \in Seq(Detection)
  BY DEF Assigns, HistoryInv
<1>2. DOMAIN history = 1..Len(history) /\ Len(history) \in Nat
  BY DEF HistoryIsSeq
<1>3. \A s \in DOMAIN history : DOMAIN history[s].ids \subseteq Nat
  <2>1. \A x \in Seq(Detection) : DOMAIN x \subseteq Nat
    OBVIOUS
  <2> QED BY <1>1, <2>1
<1>4. Sightings(k) \subseteq (DOMAIN history) \X Nat
  <2>1. SUFFICES ASSUME NEW p \in Sightings(k) PROVE p \in (DOMAIN history) \X Nat
    OBVIOUS
  <2>2. PICK s \in DOMAIN history : \E i \in DOMAIN history[s].ids : p = <<s, i>>
    BY SightingsSay
  <2> QED BY <1>3, <2>2
<1>5. \A s \in T : \A i \in At(s) : g[s] = <<s, i>>
  <2>1. SUFFICES ASSUME NEW s \in T, NEW i \in At(s) PROVE g[s] = <<s, i>>
    OBVIOUS
  <2>2. At(s) = {i}
    BY <1>1
  <2> QED BY <2>2
<1>6. DOMAIN g = T /\ T \in SUBSET (1..Len(history))
  BY <1>2
<1> HIDE DEF g
<1>7. Sightings(k) = {g[s] : s \in T}
  <2>1. ASSUME NEW p \in Sightings(k) PROVE p \in {g[s] : s \in T}
    <3>1. PICK s \in DOMAIN history : \E i \in DOMAIN history[s].ids :
                 history[s].ids[i] = k /\ p = <<s, i>>
      BY SightingsSay
    <3>2. PICK i \in At(s) : p = <<s, i>>
      BY <3>1
    <3>3. s \in T
      BY <3>2
    <3> QED BY <1>5, <3>2, <3>3
  <2>2. ASSUME NEW s \in T PROVE g[s] \in Sightings(k)
    <3>1. PICK i \in At(s) : TRUE
      OBVIOUS
    <3>2. g[s] = <<s, i>>
      BY <1>5
    <3> QED BY <3>1, <3>2, SightingsSay
  <2> QED BY <2>1, <2>2
<1>8. IsFiniteSet(T)
  <2>1. IsFiniteSet(1..Len(history))
    BY <1>2, FS_Interval
  <2> HIDE DEF T
  <2> QED BY <1>6, <2>1, FS_Subset
<1> HIDE DEF T, At
<1>9. IsFiniteSet(Sightings(k))
  <2>1. DOMAIN g = T
    BY <1>6
  <2>2. IsFiniteSet({g[s] : s \in T})
    BY <1>8, <2>1, ImagesAreFinite
  <2> QED BY <1>7, <2>2
<1> QED BY <1>4, <1>9 DEF Firing

(* A frame with vehicles is the next entry of the history.                 *)
LEMMA HistoryGrows ==
  ASSUME HistoryInv, HistoryIsSeq, NEW f \in Seq(Detection), f # <<>>, TrackFrame(f),
         NEW ids, ids = TrackIds(tracks, step + 1, f)
  PROVE  /\ Len(history) \in Nat /\ step + 1 = Len(history) /\ step' = step + 1
         /\ DOMAIN history = 1..Len(history) /\ DOMAIN history' = 1..(Len(history) + 1)
         /\ \A s \in 1..Len(history) : history'[s] = history[s]
         /\ history'[Len(history) + 1].ids = ids /\ history'[Len(history) + 1].dets = f
         /\ tracks' = Update(tracks, step + 1, f, Fired(f), ids)
         /\ Last(history') = history'[Len(history) + 1]
<1> DEFINE h == [frame |-> reader.index, dets |-> f, ids |-> ids]  n == Len(history)
<1>1. /\ history' = Append(history, h) /\ step' = step + 1
      /\ tracks' = Update(tracks, step + 1, f, Fired(f), ids)
  BY DEF TrackFrame
<1>2. h.ids = ids /\ h.dets = f
  OBVIOUS
<1> HIDE DEF h
<1>3. PICK S : history \in Seq(S)
  BY DEF HistoryIsSeq
<1>4. history \in Seq(S \union {h}) /\ h \in S \union {h}
  BY <1>3
<1>5. /\ n \in Nat /\ DOMAIN history = 1..n /\ DOMAIN history' = 1..(n + 1) /\ Len(history') = n + 1
      /\ history'[n + 1] = h /\ \A s \in 1..n : history'[s] = history[s]
  BY <1>1, <1>4
<1>6. Last(history') = history'[n + 1]
  BY <1>5 DEF Last
<1>7. step + 1 = n
  BY DEF HistoryInv
<1> QED BY <1>1, <1>2, <1>5, <1>6, <1>7

(* The sightings of a vehicle after a frame.                               *)
LEMMA SightingsGrow ==
  ASSUME HistoryInv, HistoryIsSeq, \A s \in DOMAIN history : Assigns(history[s]),
         NEW f \in Seq(Detection), f # <<>>, TrackFrame(f),
         NEW ids, ids = TrackIds(tracks, step + 1, f), DOMAIN ids = 1..Len(f), NEW k
  PROVE  /\ Sightings(k)' = Sightings(k) \union
               {<<Len(history) + 1, i>> : i \in {j \in 1..Len(f) : ids[j] = k}}
         /\ Firing(k)' = Firing(k) \union
               {<<Len(history) + 1, i>> : i \in {j \in 1..Len(f) : ids[j] = k /\ f[j].smoke # None}}
<1> DEFINE n == Len(history)
           More == {<<n + 1, i>> : i \in {j \in 1..Len(f) : ids[j] = k}}
           Fires == {<<n + 1, i>> : i \in {j \in 1..Len(f) : ids[j] = k /\ f[j].smoke # None}}
<1>1. /\ n \in Nat /\ DOMAIN history = 1..n /\ DOMAIN history' = 1..(n + 1)
      /\ \A s \in 1..n : history'[s] = history[s]
      /\ history'[n + 1].ids = ids /\ history'[n + 1].dets = f
  BY HistoryGrows
<1> HIDE DEF n
<1>2. Sightings(k)' = UNION {{<<s, i>> : i \in {j \in DOMAIN history'[s].ids : history'[s].ids[j] = k}} :
                               s \in DOMAIN history'}
  BY DEF Sightings
<1>3. \A p : (p \in Sightings(k)') <=>
               \E s \in DOMAIN history' : \E i \in DOMAIN history'[s].ids :
                 history'[s].ids[i] = k /\ p = <<s, i>>
  BY <1>2
<1>4. \A s \in 1..(n + 1) : s \in 1..n \/ s = n + 1
  BY <1>1
<1>5. 1..n \subseteq 1..(n + 1) /\ n + 1 \in 1..(n + 1)
  BY <1>1
<1>6. ASSUME NEW p PROVE (p \in Sightings(k)') <=> p \in Sightings(k) \/ p \in More
  <2>1. ASSUME p \in Sightings(k)' PROVE p \in Sightings(k) \/ p \in More
    <3>1. PICK s \in 1..(n + 1) : \E i \in DOMAIN history'[s].ids :
                 history'[s].ids[i] = k /\ p = <<s, i>>
      BY <1>1, <1>3, <2>1
    <3>2. CASE s \in 1..n
      <4>1. \E i \in DOMAIN history[s].ids : history[s].ids[i] = k /\ p = <<s, i>>
        BY <1>1, <3>1, <3>2
      <4> QED BY <1>1, <3>2, <4>1, SightingsSay
    <3>3. CASE s = n + 1
      BY <1>1, <3>1, <3>3
    <3> QED BY <1>4, <3>2, <3>3
  <2>2. ASSUME p \in Sightings(k) PROVE p \in Sightings(k)'
    <3>1. PICK s \in 1..n : \E i \in DOMAIN history[s].ids : history[s].ids[i] = k /\ p = <<s, i>>
      BY <1>1, <2>2, SightingsSay
    <3>2. s \in 1..(n + 1) /\ history'[s] = history[s]
      BY <1>1, <1>5
    <3>3. \E i \in DOMAIN history'[s].ids : history'[s].ids[i] = k /\ p = <<s, i>>
      BY <3>1, <3>2
    <3> QED BY <1>1, <1>3, <3>2, <3>3
  <2>3. ASSUME p \in More PROVE p \in Sightings(k)'
    <3>1. PICK i \in 1..Len(f) : ids[i] = k /\ p = <<n + 1, i>>
      BY <2>3
    <3> QED BY <1>1, <1>3, <1>5, <3>1
  <2> QED BY <2>1, <2>2, <2>3
<1>7. Firing(k)' = {p \in Sightings(k)' : history'[p[1]].dets[p[2]].smoke # None}
  BY DEF Firing
<1>8. \A p \in Sightings(k) : history'[p[1]] = history[p[1]]
  <2>1. \A p \in Sightings(k) : p[1] \in 1..n
    BY <1>1, SightingsSay
  <2> QED BY <1>1, <2>1
<1>9. ASSUME NEW p \in Sightings(k)'
      PROVE  (p \in Firing(k)') <=> p \in Firing(k) \/ p \in Fires
  <2>1. (p \in Firing(k)') <=> history'[p[1]].dets[p[2]].smoke # None
    BY <1>7
  <2>2. ASSUME p \in Sightings(k) PROVE (p \in Firing(k)') <=> p \in Firing(k) \/ p \in Fires
    <3>1. p[1] \in 1..n
      BY <1>1, <2>2, SightingsSay
    <3>2. p \notin Fires
      BY <1>1, <3>1
    <3>3. history'[p[1]] = history[p[1]]
      BY <1>8, <2>2
    <3>4. (p \in Firing(k)) <=> history[p[1]].dets[p[2]].smoke # None
      BY <2>2 DEF Firing
    <3> QED BY <2>1, <3>2, <3>3, <3>4
  <2>3. ASSUME p \in More, p \notin Sightings(k)
        PROVE (p \in Firing(k)') <=> p \in Firing(k) \/ p \in Fires
    <3>1. PICK i \in 1..Len(f) : ids[i] = k /\ p = <<n + 1, i>>
      BY <2>3
    <3>2. history'[p[1]].dets[p[2]] = f[i]
      BY <1>1, <3>1
    <3>3. p \notin Firing(k)
      BY <2>3 DEF Firing
    <3>4. (p \in Fires) <=> f[i].smoke # None
      BY <3>1
    <3> QED BY <2>1, <3>2, <3>3, <3>4
  <2> QED BY <1>6, <2>2, <2>3
<1>10. Fires \subseteq More /\ Firing(k) \subseteq Sightings(k)
  BY DEF Firing
<1>11. Firing(k)' \subseteq Sightings(k)'
  BY <1>7
<1> HIDE DEF More, Fires
<1>12. Sightings(k)' = Sightings(k) \union More
  BY <1>6
<1>13. Firing(k)' = Firing(k) \union Fires
  <2>1. \A p \in Sightings(k)' : (p \in Firing(k)') <=> p \in Firing(k) \union Fires
    BY <1>9
  <2>2. Firing(k) \union Fires \subseteq Sightings(k)'
    BY <1>10, <1>12
  <2> QED BY <1>11, <2>1, <2>2
<1> QED BY <1>12, <1>13 DEF More, Fires, n
(* Remembers says of a track what Recalls says of its sightings.           *)
LEMMA RememberingIs ==
  ASSUME NEW k
  PROVE  /\ Remembers(k) <=> Recalls(tracks[k], Sightings(k), Firing(k))
         /\ Remembers(k)' <=> Recalls(tracks'[k], Sightings(k)', Firing(k)')
BY DEF Remembers, Recalls

(* A vehicle no frame has seen yet has no sighting.                        *)
LEMMA StrangersAreUnseen ==
  ASSUME HistoryInv, HistoryIsSeq, \A s \in DOMAIN history : Assigns(history[s]),
         NEW k, k \notin DOMAIN tracks
  PROVE  Sightings(k) = {} /\ Firing(k) = {}
<1>1. \A s \in DOMAIN history : \A i \in DOMAIN history[s].ids : history[s].ids[i] # k
  BY DEF Assigns
<1>2. \A p : p \notin Sightings(k)
  BY <1>1, SightingsSay
<1> QED BY <1>2, SightingsSay

(* Every track recalls the history before a frame and after it.            *)
LEMMA TracksOfAFrame ==
  ASSUME HistoryInv, HistoryIsSeq, TracksInv, NEW f \in Seq(Detection), f # <<>>, TrackFrame(f)
  PROVE  TracksInv'
<1> DEFINE n == Len(history)  ids == TrackIds(tracks, step + 1, f)  old(k) == Formerly(tracks, k)
           Here(k) == {<<n + 1, i>> : i \in {j \in 1..Len(f) : ids[j] = k}}
           Fires(k) == {<<n + 1, i>> : i \in {j \in 1..Len(f) : ids[j] = k /\ f[j].smoke # None}}
<1>1. /\ tracks \in Seq(Tracked)
      /\ \A s \in DOMAIN history : Assigns(history[s])
      /\ \A k \in DOMAIN tracks : Remembers(k)
  BY DEF TracksInv
<1>2. /\ n \in Nat /\ step + 1 = n
      /\ DOMAIN history = 1..n /\ DOMAIN history' = 1..(n + 1)
      /\ \A s \in 1..n : history'[s] = history[s]
      /\ history'[n + 1].ids = ids /\ history'[n + 1].dets = f
      /\ tracks' = Update(tracks, n, f, Fired(f), ids)
  BY HistoryGrows
<1>3. DOMAIN f = 1..Len(f) /\ Len(f) \in Nat /\ \A i \in 1..Len(f) : f[i] \in Detection /\ i \in Nat
  OBVIOUS
<1>4. /\ ids \in [1..Len(f) -> 1..(Len(tracks) + Len(f))]
      /\ \A i, j \in 1..Len(f) : ids[i] = ids[j] => i = j
  <2>1. step + 1 \in Int
    BY <1>2
  <2> QED BY <1>1, <2>1, TrackIdsAre
<1>5. ASSUME NEW k
      PROVE  /\ Sightings(k)' = Sightings(k) \union Here(k)
             /\ Firing(k)' = Firing(k) \union Fires(k)
  <2>1. DOMAIN ids = 1..Len(f)
    BY <1>4
  <2> HIDE DEF ids
  <2>2. ids = TrackIds(tracks, step + 1, f)
    BY DEF ids
  <2> QED BY <1>1, <2>1, <2>2, SightingsGrow
<1> HIDE DEF ids, n
<1>6. /\ tracks' \in Seq(Tracked) /\ Len(tracks) <= Len(tracks')
      /\ \A k \in 1..Len(tracks') : old(k) \in Tracked
      /\ \A i \in 1..Len(f) :
           /\ ids[i] \in 1..Len(tracks')
           /\ tracks'[ids[i]] = Observe(old(ids[i]), f[i], f[i].smoke # None, n)
      /\ \A k \in 1..Len(tracks') : (\A i \in 1..Len(f) : ids[i] # k) => tracks'[k] = old(k)
  <2> DEFINE new == tracks'
  <2>1. /\ n \in Int /\ tracks \in Seq(Tracked) /\ new = Update(tracks, n, f, Fired(f), ids)
    BY <1>1, <1>2
  <2> HIDE DEF new, old
  <2>2. Follows(new, tracks, n, f, ids)
    BY <1>4, <2>1, UpdateIs
  <2> QED BY <2>2, Zenon DEF new, old, Follows
<1>7. /\ DOMAIN tracks' = 1..Len(tracks') /\ DOMAIN tracks \subseteq DOMAIN tracks'
  BY <1>1, <1>6
<1>8. ASSUME NEW s \in DOMAIN history' PROVE Assigns(history[s])'
  <2>1. CASE s \in 1..n
    <3>1. Assigns(history[s]) /\ history'[s] = history[s]
      BY <1>1, <1>2, <2>1
    <3> QED BY <1>7, <3>1 DEF Assigns
  <2>2. CASE s = n + 1
    <3>1. /\ DOMAIN ids = DOMAIN f /\ \A i \in DOMAIN ids : ids[i] \in DOMAIN tracks'
          /\ \A i, j \in DOMAIN ids : ids[i] = ids[j] => i = j
      BY <1>3, <1>4, <1>6, <1>7
    <3> QED BY <1>2, <2>2, <3>1 DEF Assigns
  <2> QED BY <1>2, <2>1, <2>2
<1>9. ASSUME NEW k \in DOMAIN tracks' PROVE Recalls(old(k), Sightings(k), Firing(k))
  <2>1. CASE k \in DOMAIN tracks
    <3>1. Recalls(tracks[k], Sightings(k), Firing(k))
      BY <1>1, <2>1, RememberingIs
    <3> QED BY <2>1, <3>1 DEF Formerly
  <2>2. CASE k \notin DOMAIN tracks
    <3>1. Sightings(k) = {} /\ Firing(k) = {}
      BY <1>1, <2>2, StrangersAreUnseen
    <3>2. old(k) = NewTrack
      BY <2>2 DEF Formerly
    <3> QED BY <3>1, <3>2, NothingIsRecalled
  <2> QED BY <2>1, <2>2
<1>10. ASSUME NEW k \in DOMAIN tracks' PROVE Remembers(k)'
  <2>1. /\ Sightings(k) \subseteq (1..n) \X Nat /\ IsFiniteSet(Sightings(k))
        /\ Firing(k) \subseteq Sightings(k)
    BY <1>1, <1>2, SightingsAre
  <2>2. CASE \E i \in 1..Len(f) : ids[i] = k
    <3>1. PICK i \in 1..Len(f) : ids[i] = k
      BY <2>2
    <3>2. Here(k) = {<<n + 1, i>>}
      BY <1>4, <3>1
    <3>3. Fires(k) = IF f[i].smoke # None THEN {<<n + 1, i>>} ELSE {}
      BY <1>4, <3>1
    <3>4. /\ Sightings(k)' = Sightings(k) \union {<<n + 1, i>>}
          /\ Firing(k)' = IF f[i].smoke # None THEN Firing(k) \union {<<n + 1, i>>} ELSE Firing(k)
      <4>1. Sightings(k)' = Sightings(k) \union {<<n + 1, i>>}
        BY <1>5, <3>2, Zenon
      <4>2. Firing(k)' = Firing(k) \union Fires(k)
        BY <1>5, Zenon
      <4> HIDE DEF Fires
      <4>3. Firing(k)' = IF f[i].smoke # None THEN Firing(k) \union {<<n + 1, i>>} ELSE Firing(k)
        BY <3>3, <4>2
      <4> QED BY <4>1, <4>3
    <3>5. /\ old(k) \in Tracked /\ f[i] \in Detection /\ i \in Nat
          /\ tracks'[k] = Observe(old(k), f[i], f[i].smoke # None, n)
      BY <1>3, <1>6, <1>7, <3>1
    <3> DEFINE t == old(k)  d == f[i]  S == Sightings(k)  F == Firing(k)
               S1 == Sightings(k)'  F1 == Firing(k)'
    <3>a. /\ t \in Tracked /\ d \in Detection /\ i \in Nat /\ n \in Nat
          /\ F \subseteq S /\ S \subseteq (1..n) \X Nat /\ IsFiniteSet(S) /\ Recalls(t, S, F)
      BY <1>2, <1>9, <2>1, <3>5
    <3>b. /\ S1 = S \union {<<n + 1, i>>}
          /\ F1 = IF d.smoke # None THEN F \union {<<n + 1, i>>} ELSE F
      BY <3>4
    <3> HIDE DEF t, d, S, F, S1, F1, Here, Fires, old
    <3>c. Recalls(Observe(t, d, d.smoke # None, n), S1, F1)
      BY <3>a, <3>b, SightingIsRecalled
    <3>6. Recalls(Observe(old(k), f[i], f[i].smoke # None, n), Sightings(k)', Firing(k)')
      BY <3>c DEF t, d, S1, F1
    <3> QED BY <3>5, <3>6, RememberingIs
  <2>3. CASE \A i \in 1..Len(f) : ids[i] # k
    <3>1. Here(k) = {} /\ Fires(k) = {}
      BY <2>3
    <3>2. Sightings(k)' = Sightings(k) /\ Firing(k)' = Firing(k) /\ tracks'[k] = old(k)
      BY <1>5, <1>6, <1>7, <2>3, <3>1
    <3> QED BY <1>9, <3>2, RememberingIs
  <2> QED BY <2>2, <2>3
<1> QED BY <1>6, <1>8, <1>10 DEF TracksInv

(* Nothing but a frame changes what the tracks recall.                     *)
LEMMA TracksFrame ==
  ASSUME UNCHANGED <<tracks, history>>
  PROVE  /\ TracksInv => TracksInv'
         /\ \A k : Sightings(k)' = Sightings(k) /\ Firing(k)' = Firing(k)
<1>1. \A k : Sightings(k)' = Sightings(k) /\ Firing(k)' = Firing(k)
  BY DEF Sightings, Firing
<1>2. \A k : Remembers(k) => Remembers(k)'
  BY <1>1, RememberingIs
<1>3. \A h : Assigns(h) => Assigns(h)'
  BY DEF Assigns
<1> QED BY <1>1, <1>2, <1>3 DEF TracksInv
Decided == {"aggregated", "writing", "done"}

(* Steps that add no evidence, and neither reach a verdict nor report it.  *)
Quiet ==
  /\ UNCHANGED <<tracks, step, history, records, regions, transient, processed>>
  /\ pc' \in Decided => pc \in Decided
  /\ pc' # "done"

(* Evidence changes with a frame; the verdict is Aggregate's.              *)
LEMMA QuietSteps ==
  ASSUME Next
  PROVE  \/ Quiet
         \/ \E f \in Seq(Detection) : \E badCrops, badMasks \in SUBSET DOMAIN f :
              ProcessFrame(f, badCrops, badMasks)
         \/ \E stuck \in SUBSET masks : Aggregate(stuck)
         \/ Finish
<1> USE DEF Decided, Quiet, scanned, outcome, Reading
<1>1. ASSUME Start \/ CannotLoad \/ LoadImage PROVE Quiet
  BY <1>1 DEF Start, CannotLoad, LoadImage
<1>2. ASSUME (\E count \in Nat : ProbeVideo(count)) \/ ReopenFails PROVE Quiet
  BY <1>2 DEF ProbeVideo, ReopenFails
<1>3. ASSUME DecoderHiccup \/ PassOver PROVE Quiet
  BY <1>3 DEF DecoderHiccup, PassOver
<1>4. ASSUME EndOfFrames \/ SkipFrame PROVE Quiet
  BY <1>4 DEF EndOfFrames, SkipFrame, Sampled
<1>5. ASSUME StartWriting \/ WriteFrame PROVE Quiet
  BY <1>5 DEF StartWriting, WriteFrame
<1> HIDE DEF Quiet
<1> QED BY <1>1, <1>2, <1>3, <1>4, <1>5, StepsAre, Zenon

(* Every step keeps the tracks true to the history.                        *)
LEMMA TracksStep ==
  ASSUME HistoryInv, HistoryIsSeq, TracksInv, [Next]_vars
  PROVE  TracksInv'
<1>1. ASSUME UNCHANGED <<tracks, history>> PROVE TracksInv'
  BY <1>1, TracksFrame
<1>2. ASSUME NEW f \in Seq(Detection), NEW badCrops, NEW badMasks,
             ProcessFrame(f, badCrops, badMasks)
      PROVE  TracksInv'
  <2>1. TrackFrame(f)
    BY <1>2 DEF ProcessFrame
  <2>2. CASE f = <<>>
    BY <1>1, <2>1, <2>2 DEF TrackFrame
  <2>3. CASE f # <<>>
    BY <2>1, <2>3, TracksOfAFrame
  <2> QED BY <2>2, <2>3
<1>3. ASSUME Quiet PROVE TracksInv'
  BY <1>1, <1>3 DEF Quiet
<1>4. ASSUME NEW stuck, Aggregate(stuck) PROVE TracksInv'
  BY <1>1, <1>4 DEF Aggregate
<1>5. ASSUME Finish PROVE TracksInv'
  BY <1>1, <1>5 DEF Finish, scanned
<1>6. ASSUME UNCHANGED vars PROVE TracksInv'
  BY <1>1, <1>6 DEF vars
<1> HIDE DEF TracksInv
<1>7. ASSUME Next PROVE TracksInv'
  BY <1>2, <1>3, <1>4, <1>5, <1>7, QuietSteps, Zenon
<1> QED BY <1>6, <1>7

(* There are no tracks at first.                                           *)
LEMMA TracksAtFirst == Init => TracksInv
<1> SUFFICES ASSUME Init PROVE TracksInv
  OBVIOUS
<1>1. tracks = <<>> /\ history = <<>>
  BY DEF Init
<1>2. tracks \in Seq(Tracked) /\ DOMAIN tracks = {} /\ DOMAIN history = {}
  BY <1>1
<1> QED BY <1>2 DEF TracksInv

(* The tracks recall the history, always.                                  *)
LEMMA TracksInvariance == Spec => [](ScanInv /\ BestInv /\ HistoryIsSeq /\ TracksInv)
<1>1. Init => TracksInv
  BY TracksAtFirst
<1>2. (BestInv /\ HistoryIsSeq) /\ TracksInv /\ [Next]_vars => TracksInv'
  BY TracksStep DEF BestInv
<1> QED BY <1>1, <1>2, FramesInvariance, PTL DEF Spec

(***************************************************************************)
(* The association of a frame is stable, for any frames and thresholds: a  *)
(* detection that could continue a live track does, unless it or the track *)
(* has a partner that overlaps at least as much (VehicleTracker.update).   *)
(***************************************************************************)
THEOREM AssociationIsStable == Spec => MatchingIsStable
<1>1. ASSUME HistoryInv, HistoryIsSeq, TracksInv, NEW f \in Seq(Detection), f # <<>>, TrackFrame(f)
      PROVE  StableStep
  <2> DEFINE n == Len(history)  ids == TrackIds(tracks, step + 1, f)
             M == Matching(tracks, step + 1, f)  C == Candidates(tracks, step + 1, f)
  <2>1. /\ n \in Nat /\ step + 1 = n /\ step' = step + 1
        /\ history'[n + 1].ids = ids /\ history'[n + 1].dets = f
        /\ Last(history') = history'[n + 1]
    BY <1>1, HistoryGrows
  <2>2. tracks \in Seq(Tracked) /\ step + 1 \in Int
    BY <1>1, <2>1 DEF TracksInv
  <2>3. /\ M \subseteq C
        /\ \A c \in C \ M : \E d \in M : Before(d, c) /\ Conflicts(c, d)
    BY <2>2, MatchingIs
  <2>4. \A m \in M : m.det \in 1..Len(f) /\ ids[m.det] = m.track
    BY <2>2, TrackIdsAre
  <2>5. DOMAIN f = 1..Len(f) /\ Last(history').dets = f /\ Last(history').ids = ids
    BY <2>1
  <2>6. /\ \A c \in C : /\ c.det \in DOMAIN f /\ c.track \in DOMAIN tracks
                        /\ c.inter = Intersection(f[c.det].box, tracks[c.track].last_box)
                        /\ c.union = Union(f[c.det].box, tracks[c.track].last_box)
                        /\ c.inter \in Int /\ c.union \in Nat \ {0}
        /\ \A i \in DOMAIN f, k \in DOMAIN tracks :
             IsLive(tracks[k], step + 1) /\ SameVehicle(f[i].box, tracks[k].last_box) =>
               \E c \in C : c.det = i /\ c.track = k
    BY <2>2, CandidatesAre
  <2> HIDE DEF ids, M, C, n
  <2>7. \A c, d \in C : c = d \/ Before(d, c) => d.inter * c.union >= c.inter * d.union
    <3>1. SUFFICES ASSUME NEW c \in C, NEW d \in C, c = d \/ Before(d, c)
                   PROVE  d.inter * c.union >= c.inter * d.union
      OBVIOUS
    <3> DEFINE x == d.inter * c.union  y == c.inter * d.union
    <3>2. x \in Int /\ y \in Int
      BY <2>6
    <3>3. c = d => x = y
      OBVIOUS
    <3>4. Before(d, c) => x > y \/ x = y
      BY DEF Before
    <3> HIDE DEF x, y
    <3>5. x >= y
      BY <3>1, <3>2, <3>3, <3>4
    <3> QED BY <3>5 DEF x, y
  <2> DEFINE Over(i, k) == <<Intersection(f[i].box, tracks[k].last_box),
                             Union(f[i].box, tracks[k].last_box)>>
             NotWorse(p, q) == p[1] * q[2] >= q[1] * p[2]
  <2>8. ASSUME NEW i \in DOMAIN f, NEW k \in DOMAIN tracks,
               IsLive(tracks[k], step'), SameVehicle(f[i].box, tracks[k].last_box)
        PROVE  \/ ids[i] \in DOMAIN tracks /\ NotWorse(Over(i, ids[i]), Over(i, k))
               \/ \E j \in DOMAIN f : ids[j] = k /\ NotWorse(Over(j, k), Over(i, k))
    <3>1. PICK c \in C : c.det = i /\ c.track = k
      BY <2>1, <2>6, <2>8
    <3>2. PICK d \in M : d \in C /\ (c = d \/ Before(d, c)) /\ Conflicts(c, d)
      <4>1. Conflicts(c, c)
        BY DEF Conflicts
      <4> QED BY <2>3, <4>1
    <3>3. d.inter * c.union >= c.inter * d.union
      BY <2>7, <3>2
    <3>4. /\ c.inter = Over(i, k)[1] /\ c.union = Over(i, k)[2]
          /\ d.inter = Over(d.det, d.track)[1] /\ d.union = Over(d.det, d.track)[2]
      BY <2>6, <3>1, <3>2
    <3>5. ids[d.det] = d.track /\ d.det \in DOMAIN f /\ d.track \in DOMAIN tracks
      BY <2>4, <2>6, <3>2
    <3>6. NotWorse(Over(d.det, d.track), Over(i, k))
      BY <3>3, <3>4
    <3> HIDE DEF Over, NotWorse
    <3>7. CASE d.det = i
      BY <3>5, <3>6, <3>7
    <3>8. CASE d.track = k
      BY <3>5, <3>6, <3>8
    <3> QED BY <3>1, <3>2, <3>7, <3>8 DEF Conflicts
  <2> QED BY <2>5, <2>8 DEF StableStep
<1>2. ASSUME HistoryInv, HistoryIsSeq, TracksInv, [Next]_vars PROVE [StableStep]_vars
  <2>1. ASSUME history' = history PROVE StableStep
    BY <2>1 DEF StableStep
  <2>2. ASSUME NEW f \in Seq(Detection), NEW badCrops, NEW badMasks,
               ProcessFrame(f, badCrops, badMasks)
        PROVE  StableStep
    <3>1. TrackFrame(f)
      BY <2>2 DEF ProcessFrame
    <3>2. CASE f = <<>>
      BY <2>1, <3>1, <3>2 DEF TrackFrame
    <3>3. CASE f # <<>>
      BY <1>1, <1>2, <3>1, <3>3
    <3> QED BY <3>2, <3>3
  <2>3. ASSUME Quiet PROVE StableStep
    BY <2>1, <2>3 DEF Quiet
  <2>4. ASSUME NEW stuck, Aggregate(stuck) PROVE StableStep
    BY <2>1, <2>4 DEF Aggregate
  <2>5. ASSUME Finish PROVE StableStep
    BY <2>1, <2>5 DEF Finish, scanned
  <2>6. ASSUME Next PROVE StableStep
    BY <2>2, <2>3, <2>4, <2>5, <2>6, QuietSteps, Zenon
  <2> QED BY <1>2, <2>6
<1>3. BestInv => HistoryInv
  BY DEF BestInv
<1> QED BY <1>2, <1>3, TracksInvariance, PTL DEF Spec, MatchingIsStable
----------------------------------------------------------------------------
(* The severities of a frame.                                              *)
Seriousness(f) == {Rank(f[i].smoke) : i \in {j \in DOMAIN f : f[j].smoke # None}}

(* What the tracks measured grows by them.                                 *)
LEMMA MeasuredGrows ==
  ASSUME HistoryInv, HistoryIsSeq, TracksInv, TracksInv', NEW f \in Seq(Detection), TrackFrame(f)
  PROVE  Measured' = Measured \union Seriousness(f)
<1>1. CASE f = <<>>
  <2>1. history' = history /\ tracks' = tracks /\ DOMAIN f = {}
    BY <1>1 DEF TrackFrame
  <2>2. \A k : Firing(k)' = Firing(k)
    BY <2>1, TracksFrame
  <2>3. Measured' = Measured /\ Seriousness(f) = {}
    BY <2>1, <2>2 DEF Measured, Seriousness
  <2> QED BY <2>3
<1>2. CASE f # <<>>
  <2> DEFINE n == Len(history)  ids == TrackIds(tracks, step + 1, f)
             Fires(k) == {<<n + 1, i>> : i \in {j \in 1..Len(f) : ids[j] = k /\ f[j].smoke # None}}
  <2>1. /\ n \in Nat /\ step + 1 = n /\ DOMAIN history = 1..n
        /\ \A s \in 1..n : history'[s] = history[s]
        /\ history'[n + 1].dets = f /\ tracks' = Update(tracks, n, f, Fired(f), ids)
    BY <1>2, HistoryGrows
  <2>2. tracks \in Seq(Tracked) /\ \A s \in DOMAIN history : Assigns(history[s])
    BY DEF TracksInv
  <2>3. DOMAIN f = 1..Len(f) /\ Len(f) \in Nat /\ n \in Int
    BY <2>1
  <2>4. /\ ids \in [1..Len(f) -> 1..(Len(tracks) + Len(f))]
        /\ \A i, j \in 1..Len(f) : ids[i] = ids[j] => i = j
    BY <2>1, <2>2, <2>3, TrackIdsAre
  <2>5. ASSUME NEW k PROVE Firing(k)' = Firing(k) \union Fires(k)
    <3>1. DOMAIN ids = 1..Len(f)
      BY <2>4
    <3> HIDE DEF ids
    <3>2. ids = TrackIds(tracks, step + 1, f)
      BY DEF ids
    <3> QED BY <1>2, <2>2, <3>1, <3>2, SightingsGrow
  <2> HIDE DEF ids, n
  <2>6. /\ tracks' \in Seq(Tracked) /\ Len(tracks) <= Len(tracks')
        /\ \A i \in 1..Len(f) : ids[i] \in 1..Len(tracks')
    <3> DEFINE new == tracks'
    <3>1. new = Update(tracks, n, f, Fired(f), ids)
      BY <2>1
    <3> HIDE DEF new, Fires
    <3>2. /\ new \in Seq(Tracked) /\ Len(tracks) <= Len(new)
          /\ \A i \in 1..Len(f) : ids[i] \in 1..Len(new)
      <4>1. Follows(new, tracks, n, f, ids)
        BY <2>2, <2>3, <2>4, <3>1, UpdateIs
      <4> QED BY <4>1 DEF Follows
    <3> QED BY <3>2 DEF new
  <2>7. /\ DOMAIN tracks \subseteq DOMAIN tracks'
        /\ \A i \in 1..Len(f) : ids[i] \in DOMAIN tracks'
    BY <2>2, <2>6
  <2>8. \A k : \A p \in Firing(k) :
          k \in DOMAIN tracks /\ history'[p[1]] = history[p[1]]
    <3>1. SUFFICES ASSUME NEW k, NEW p \in Firing(k)
                   PROVE  k \in DOMAIN tracks /\ history'[p[1]] = history[p[1]]
      OBVIOUS
    <3>2. k \in DOMAIN tracks
      BY <2>2, StrangersAreUnseen
    <3>3. p[1] \in DOMAIN history
      BY SightingsSay
    <3> QED BY <2>1, <3>2, <3>3
  <2>9. Measured = {Rank(history[p[1]].dets[p[2]].smoke) : p \in UNION {Firing(k) : k \in DOMAIN tracks}}
        /\ Measured' = {Rank(history'[p[1]].dets[p[2]].smoke) : p \in UNION {Firing(k)' : k \in DOMAIN tracks'}}
    BY DEF Measured
  <2>10. ASSUME NEW x \in Measured' PROVE x \in Measured \union Seriousness(f)
    <3>1. PICK k \in DOMAIN tracks' :
                 \E p \in Firing(k)' : x = Rank(history'[p[1]].dets[p[2]].smoke)
      BY <2>9
    <3>2. PICK p \in Firing(k) \union Fires(k) : x = Rank(history'[p[1]].dets[p[2]].smoke)
      BY <2>5, <3>1
    <3>3. CASE p \in Firing(k)
      BY <2>8, <2>9, <3>2, <3>3
    <3>4. CASE p \in Fires(k)
      <4>1. PICK i \in 1..Len(f) : f[i].smoke # None /\ p = <<n + 1, i>>
        BY <3>4
      <4>2. x = Rank(f[i].smoke)
        BY <2>1, <3>2, <4>1
      <4> QED BY <2>3, <4>1, <4>2 DEF Seriousness
    <3> QED BY <3>2, <3>3, <3>4
  <2>11. ASSUME NEW x \in Measured PROVE x \in Measured'
    <3>1. PICK k \in DOMAIN tracks :
                 \E p \in Firing(k) : x = Rank(history[p[1]].dets[p[2]].smoke)
      BY <2>9
    <3>2. PICK p \in Firing(k) : x = Rank(history[p[1]].dets[p[2]].smoke)
      BY <3>1
    <3>3. p \in Firing(k)' /\ x = Rank(history'[p[1]].dets[p[2]].smoke) /\ k \in DOMAIN tracks'
      BY <2>5, <2>7, <2>8, <3>2
    <3> QED BY <2>9, <3>3
  <2>12. ASSUME NEW x \in Seriousness(f) PROVE x \in Measured'
    <3>1. PICK i \in 1..Len(f) : f[i].smoke # None /\ x = Rank(f[i].smoke)
      BY <2>3 DEF Seriousness
    <3> DEFINE p == <<n + 1, i>>
    <3>0. PICK k : k = ids[i]
      OBVIOUS
    <3>2. k \in DOMAIN tracks' /\ p \in Fires(k)
      BY <2>7, <3>0, <3>1
    <3> HIDE DEF Fires
    <3>3. p \in Firing(k)'
      BY <2>5, <3>2, Zenon
    <3>4. x = Rank(history'[p[1]].dets[p[2]].smoke)
      BY <2>1, <3>1
    <3> HIDE DEF p
    <3>5. p \in UNION {Firing(j)' : j \in DOMAIN tracks'}
      BY <3>2, <3>3
    <3> QED BY <2>9, <3>4, <3>5, Zenon
  <2> QED BY <2>10, <2>11, <2>12
<1> QED BY <1>1, <1>2

(* The severities of the records.                                          *)
Recorded == {Rank(records[k].smoke) : k \in Smoking}

(* They grow by those of the frame as well.                                *)
LEMMA RecordedGrows ==
  ASSUME RecordsInv, MasksInv, reader.index \in Nat, NEW f \in Seq(Detection),
         NEW badCrops \in SUBSET DOMAIN f, NEW badMasks \in SUBSET DOMAIN f,
         AddVehicles(f, badCrops, badMasks)
  PROVE  Recorded' = Recorded \union Seriousness(f)
<1> DEFINE n == Len(records)  m == Len(f)
<1>1. /\ n \in Nat /\ m \in Nat /\ DOMAIN f = 1..m
      /\ DOMAIN records = 1..n /\ DOMAIN records' = 1..(n + m)
      /\ \A k \in 1..n : records'[k] = records[k]
      /\ \A i \in 1..m : records'[n + i].smoke = f[i].smoke
  BY VehiclesAdded DEF MasksInv
<1> HIDE DEF n, m
<1>2. \A k \in 1..(n + m) : k \in 1..n \/ (k - n \in 1..m /\ k = n + (k - n))
  BY <1>1
<1>3. \A k \in 1..n : k \in 1..(n + m)
  BY <1>1
<1>4. \A i \in 1..m : n + i \in 1..(n + m)
  BY <1>1
<1>5. Recorded' = {Rank(records'[k].smoke) : k \in {j \in 1..(n + m) : records'[j].smoke # None}}
  BY <1>1 DEF Recorded, Smoking
<1>6. Recorded = {Rank(records[k].smoke) : k \in {j \in 1..n : records[j].smoke # None}}
  BY <1>1 DEF Recorded, Smoking
<1>7. Seriousness(f) = {Rank(f[i].smoke) : i \in {j \in 1..m : f[j].smoke # None}}
  BY <1>1 DEF Seriousness
<1>8. ASSUME NEW x \in Recorded' PROVE x \in Recorded \union Seriousness(f)
  <2>1. PICK k \in 1..(n + m) : records'[k].smoke # None /\ x = Rank(records'[k].smoke)
    BY <1>5
  <2>2. CASE k \in 1..n
    BY <1>1, <1>6, <2>1, <2>2
  <2>3. CASE k - n \in 1..m /\ k = n + (k - n)
    <3>1. records'[k].smoke = f[k - n].smoke
      BY <1>1, <2>3
    <3> QED BY <1>7, <2>1, <2>3, <3>1
  <2> QED BY <1>2, <2>2, <2>3
<1>9. ASSUME NEW x \in Recorded PROVE x \in Recorded'
  BY <1>1, <1>3, <1>5, <1>6
<1>10. ASSUME NEW x \in Seriousness(f) PROVE x \in Recorded'
  <2>1. PICK i \in 1..m : f[i].smoke # None /\ x = Rank(f[i].smoke)
    BY <1>7
  <2>2. n + i \in 1..(n + m) /\ records'[n + i].smoke = f[i].smoke
    BY <1>1, <1>4
  <2> QED BY <1>5, <2>1, <2>2
<1> QED BY <1>8, <1>9, <1>10
(* A track is persistent when its vehicle's smoke is to be believed.       *)
LEMMA PersistenceIsBelief ==
  ASSUME HistoryInv, HistoryIsSeq, TracksInv, NEW k \in DOMAIN tracks
  PROVE  Persistent(tracks[k]) <=> Believed(k)
<1>1. /\ tracks[k].observations = Cardinality(Sightings(k))
      /\ tracks[k].hits = Cardinality(Firing(k))
      /\ tracks[k].longest_run = LongestStretch(Steps(Firing(k)))
  BY DEF TracksInv, Remembers
<1>2. /\ IsFiniteSet(Sightings(k)) /\ Firing(k) \subseteq Sightings(k)
  BY SightingsAre DEF TracksInv
<1>3. /\ Cardinality(Firing(k)) <= Cardinality(Sightings(k))
      /\ Cardinality(Firing(k)) \in Nat /\ Cardinality(Sightings(k)) \in Nat
  <2>1. Firing(k) \in SUBSET Sightings(k)
    BY <1>2
  <2>2. IsFiniteSet(Firing(k)) /\ Cardinality(Firing(k)) <= Cardinality(Sightings(k))
    BY <1>2, <2>1, FS_Subset
  <2> QED BY <1>2, <2>2, FS_CardinalityType
<1>4. MinHits \in Nat \ {0}
  BY TrackerAssumption
<1>5. Cardinality(Firing(k)) >= MinHits => Cardinality(Sightings(k)) > 0
  BY <1>3, <1>4
<1> QED BY <1>1, <1>5 DEF Persistent, Believed

(* So the verdict of the tracker is that of the evidence.                  *)
LEMMA TransienceIs ==
  ASSUME HistoryInv, HistoryIsSeq, TracksInv, RegionsInv, Measured = Recorded
  PROVE  IsTransient <=> (Measured # {} /\ processed > 1 /\ \A k \in DOMAIN tracks : ~Believed(k))
<1>1. (regions # {}) <=> (Measured # {})
  <2>1. regions # {} <=> Smoking # {}
    BY DEF RegionsInv
  <2>2. Recorded # {} <=> Smoking # {}
    BY DEF Recorded
  <2> QED BY <2>1, <2>2
<1>2. (PersistentTracks(tracks) = {}) <=> \A k \in DOMAIN tracks : ~Believed(k)
  <2>1. \A k \in DOMAIN tracks : (Persistent(tracks[k])) <=> Believed(k)
    BY PersistenceIsBelief
  <2> QED BY <2>1 DEF PersistentTracks
<1> QED BY <1>1, <1>2 DEF IsTransient

(* What is believed, measured and recorded depends on these alone.         *)
LEMMA EvidenceFrame ==
  /\ UNCHANGED <<tracks, history>> =>
       Measured' = Measured /\ \A k : Believed(k)' <=> Believed(k)
  /\ UNCHANGED records => Smoking' = Smoking /\ Recorded' = Recorded
<1>1. ASSUME UNCHANGED <<tracks, history>>
      PROVE  Measured' = Measured /\ \A k : Believed(k)' <=> Believed(k)
  <2>1. \A k : Sightings(k)' = Sightings(k) /\ Firing(k)' = Firing(k)
    BY <1>1, TracksFrame
  <2>2. Measured' = Measured
    BY <1>1, <2>1 DEF Measured
  <2>3. \A k : Believed(k)' <=> Believed(k)
    BY <2>1 DEF Believed
  <2> QED BY <2>2, <2>3
<1>2. UNCHANGED records => Smoking' = Smoking /\ Recorded' = Recorded
  BY DEF Smoking, Recorded
<1> QED BY <1>1, <1>2

(* The parts of EvidenceInv.                                               *)
Verdict ==
  transient = (Measured # {} /\ processed > 1 /\ \A k \in DOMAIN tracks : ~Believed(k))

Reported ==
  /\ result.total_smoke = Cardinality(regions)
  /\ result.overall_severity = Worst(SeverityCounts)
  /\ result.severity_counts = SeverityCounts

(* EvidenceInv by its parts.                                               *)
LEMMA EvidenceIs ==
  /\ EvidenceInv <=> /\ ~transient => Measured = Recorded
                     /\ transient => Smoking = {}
                     /\ pc \in Decided => Verdict
                     /\ pc = "done" => Reported
  /\ EvidenceInv' <=> /\ ~transient' => Measured' = Recorded'
                      /\ transient' => Smoking' = {}
                      /\ pc' \in Decided => Verdict'
                      /\ pc' = "done" => Reported'
BY DEF EvidenceInv, Recorded, Decided, Verdict, Reported

(* Every step keeps the verdict true to the evidence.                      *)
LEMMA EvidenceStep ==
  ASSUME ScanInv, ScanInv', BestInv, HistoryIsSeq, TracksInv, TracksInv', EvidenceInv, [Next]_vars
  PROVE  EvidenceInv'
<1>1. /\ CountsInv /\ RecordsInv /\ RegionsInv /\ MasksInv /\ AnswerInv /\ HistoryInv
      /\ reader.index \in Nat
  BY Sizes DEF ScanInv, BestInv, CountsInv
<1>2. /\ ~transient => Measured = Recorded
      /\ transient => Smoking = {}
      /\ pc \in Decided => Verdict
      /\ pc = "done" => Reported
  BY EvidenceIs
<1>3. ASSUME UNCHANGED <<tracks, history, records, regions, transient, processed>>,
             pc' \in Decided => pc \in Decided, pc' = "done" => Reported'
      PROVE  EvidenceInv'
  <2>1. /\ Measured' = Measured /\ Smoking' = Smoking /\ Recorded' = Recorded
        /\ \A k : Believed(k)' <=> Believed(k)
    BY <1>3, EvidenceFrame
  <2>2. Verdict => Verdict'
    BY <1>3, <2>1 DEF Verdict
  <2>3. transient' = transient
    BY <1>3
  <2> QED BY <1>2, <1>3, <2>1, <2>2, <2>3, EvidenceIs
<1>4. ASSUME Quiet PROVE EvidenceInv'
  BY <1>3, <1>4 DEF Quiet
<1>5. ASSUME NEW f \in Seq(Detection), NEW badCrops \in SUBSET DOMAIN f,
             NEW badMasks \in SUBSET DOMAIN f, ProcessFrame(f, badCrops, badMasks)
      PROVE  EvidenceInv'
  <2>1. /\ TrackFrame(f) /\ AddVehicles(f, badCrops, badMasks)
        /\ pc = "detecting" /\ pc' = pc /\ transient' = transient
    BY <1>5 DEF ProcessFrame, Sampled, Reading, outcome
  <2>2. ~transient
    BY <1>1, <2>1 DEF MasksInv, Scanning
  <2>3. Measured' = Measured \union Seriousness(f)
    BY <1>1, <2>1, MeasuredGrows
  <2>4. Recorded' = Recorded \union Seriousness(f)
    BY <1>1, <2>1, RecordedGrows
  <2>5. pc' \notin Decided /\ pc' # "done"
    BY <2>1 DEF Decided
  <2> QED BY <1>2, <2>1, <2>2, <2>3, <2>4, <2>5, EvidenceIs
<1>6. ASSUME NEW stuck \in SUBSET masks, Aggregate(stuck) PROVE EvidenceInv'
  <2>1. /\ pc = "scanned" /\ pc' = "aggregated" /\ transient' = IsTransient
        /\ UNCHANGED <<tracks, history, processed>>
        /\ ~IsTransient => UNCHANGED records
    BY <1>6 DEF Aggregate
  <2>2. ~transient
    BY <1>1, <2>1 DEF MasksInv, Scanning
  <2>3. Measured = Recorded
    BY <1>2, <2>2
  <2>4. IsTransient <=> (Measured # {} /\ processed > 1 /\ \A k \in DOMAIN tracks : ~Believed(k))
    BY <1>1, <2>3, TransienceIs
  <2>5. Measured' = Measured /\ \A k : Believed(k)' <=> Believed(k)
    BY <2>1, EvidenceFrame
  <2>6. Verdict'
    <3>1. IsTransient \in BOOLEAN
      BY DEF IsTransient
    <3>2. IsTransient
            = (Measured' # {} /\ processed' > 1 /\ \A k \in DOMAIN tracks' : ~(Believed(k)'))
      BY <2>1, <2>4, <2>5, <3>1
    <3> QED BY <2>1, <3>2 DEF Verdict
  <2>7. CASE IsTransient
    <3>1. records' = [k \in DOMAIN records |-> [records[k] EXCEPT !.smoke = None, !.mask = FALSE]]
      BY <1>6, <2>7 DEF Aggregate, Discard
    <3>2. \A k \in DOMAIN records : records[k] \in Vehicle
      BY <1>1 DEF RecordsInv
    <3>3. \A v \in Vehicle : [v EXCEPT !.smoke = None, !.mask = FALSE].smoke = None
      BY DEF Vehicle
    <3>4. Smoking' = {}
      BY <3>1, <3>2, <3>3 DEF Smoking
    <3> QED BY <2>1, <2>6, <2>7, <3>4, EvidenceIs
  <2>8. CASE ~IsTransient
    <3>1. Recorded' = Recorded
      BY <2>1, <2>8, EvidenceFrame
    <3> QED BY <2>1, <2>3, <2>5, <2>6, <2>8, <3>1, EvidenceIs
  <2> QED BY <2>7, <2>8
<1>7. ASSUME Finish PROVE EvidenceInv'
  <2>1. /\ UNCHANGED <<tracks, history, records, regions, transient, processed>>
        /\ pc = "writing" /\ pc' = "done"
        /\ result' = [total_vehicles   |-> Len(records),
                      total_smoke      |-> Cardinality(regions),
                      overall_severity |-> Worst(SeverityCounts),
                      severity_counts  |-> SeverityCounts]
    BY <1>7 DEF Finish, scanned
  <2>2. SeverityCounts' = SeverityCounts
    BY <2>1 DEF SeverityCounts
  <2>3. Reported'
    BY <2>1, <2>2 DEF Reported
  <2>4. pc \in Decided
    BY <2>1 DEF Decided
  <2> QED BY <1>3, <2>1, <2>3, <2>4
<1>8. ASSUME UNCHANGED vars PROVE EvidenceInv'
  <2>1. /\ UNCHANGED <<tracks, history, records, regions, transient, processed, pc, result>>
    BY <1>8 DEF vars
  <2>2. SeverityCounts' = SeverityCounts
    BY <2>1 DEF SeverityCounts
  <2>3. pc' = "done" => Reported'
    BY <1>2, <2>1, <2>2 DEF Reported
  <2> QED BY <1>3, <2>1, <2>3
<1> HIDE DEF EvidenceInv
<1>9. ASSUME Next PROVE EvidenceInv'
  BY <1>4, <1>5, <1>6, <1>7, <1>9, QuietSteps, Zenon
<1> QED BY <1>8, <1>9

(* No evidence at first.                                                   *)
LEMMA EvidenceAtFirst == Init => EvidenceInv
<1> SUFFICES ASSUME Init PROVE EvidenceInv
  OBVIOUS
<1>1. /\ tracks = <<>> /\ history = <<>> /\ records = <<>> /\ ~transient /\ pc = "start"
  BY DEF Init
<1>2. DOMAIN records = {} /\ DOMAIN tracks = {}
  BY <1>1
<1>3. Measured = {} /\ Recorded = {}
  BY <1>2 DEF Measured, Recorded, Smoking
<1>4. pc \notin Decided /\ pc # "done"
  BY <1>1 DEF Decided
<1> QED BY <1>1, <1>3, <1>4, EvidenceIs
(* Evidence and verdict agree, always.                                     *)
LEMMA EvidenceInvariance == Spec => [](ScanInv /\ TracksInv /\ EvidenceInv)
<1>1. Init => EvidenceInv
  BY EvidenceAtFirst
<1>2. (ScanInv /\ BestInv /\ HistoryIsSeq /\ TracksInv) /\ EvidenceInv
        /\ [Next]_vars /\ ScanInv' /\ TracksInv' => EvidenceInv'
  BY EvidenceStep
<1> QED BY <1>1, <1>2, TracksInvariance, PTL DEF Spec

(* The records with smoke are as many as the regions, of every severity.   *)
LEMMA RegionsAreCounted ==
  ASSUME RecordsInv, RegionsInv
  PROVE  /\ Cardinality(regions) = Cardinality(Smoking)
         /\ \A n : Cardinality({g \in regions : g.severity = n})
                     = Cardinality({k \in Smoking : Rank(records[k].smoke) = n})
<1> DEFINE h == [k \in Smoking |-> [vehicle |-> k, severity |-> Rank(records[k].smoke)]]
<1>1. /\ regions = {h[k] : k \in Smoking} /\ DOMAIN h = Smoking
      /\ \A k \in Smoking : h[k].vehicle = k /\ h[k].severity = Rank(records[k].smoke)
  BY DEF RegionsInv
<1>2. IsFiniteSet(Smoking)
  <2>1. Smoking \subseteq 1..Len(records) /\ Len(records) \in Nat
    BY DEF Smoking, RecordsInv
  <2> QED BY <2>1, PartsAreFinite
<1> HIDE DEF h
<1>3. ASSUME NEW S \in SUBSET Smoking
      PROVE  Cardinality({h[k] : k \in S}) = Cardinality(S)
  <2> DEFINE g == [k \in S |-> h[k]]  T == {h[k] : k \in S}
  <2>1. g \in Bijection(S, T)
    <3>1. g \in [S -> T] /\ \A t \in T : \E k \in S : g[k] = t
      OBVIOUS
    <3>2. \A j, k \in S : g[j] = g[k] => j = k
      BY <1>1
    <3> HIDE DEF g, T
    <3> QED BY <3>1, <3>2 DEF Bijection, Injection, Surjection, IsInjective
  <2>2. ExistsBijection(S, T)
    BY <2>1 DEF ExistsBijection
  <2>3. IsFiniteSet(S)
    BY <1>2, FS_Subset
  <2> HIDE DEF T
  <2>4. Cardinality(T) = Cardinality(S)
    BY <2>2, <2>3, FS_Bijection
  <2> QED BY <2>4 DEF T
<1>4. Cardinality(regions) = Cardinality(Smoking)
  BY <1>1, <1>3
<1>5. ASSUME NEW n
      PROVE  Cardinality({g \in regions : g.severity = n})
               = Cardinality({k \in Smoking : Rank(records[k].smoke) = n})
  <2> DEFINE S == {k \in Smoking : Rank(records[k].smoke) = n}
  <2>1. {g \in regions : g.severity = n} = {h[k] : k \in S}
    BY <1>1
  <2>2. S \in SUBSET Smoking
    OBVIOUS
  <2> HIDE DEF S
  <2>3. Cardinality({h[k] : k \in S}) = Cardinality(S)
    BY <1>3, <2>2
  <2> QED BY <2>1, <2>3 DEF S
<1> QED BY <1>4, <1>5

(* The worst of the counted severities is the worst recorded.              *)
LEMMA WorstIsTheWorst ==
  ASSUME RecordsInv, RegionsInv
  PROVE  Worst(SeverityCounts) = IF Recorded # {} THEN Max(Recorded) ELSE None
<1> DEFINE Of(n) == {k \in Smoking : Rank(records[k].smoke) = n}
           Found == {n \in Names : SeverityCounts[n] > 0}
<1>1. \A n \in Names : SeverityCounts[n] = Cardinality(Of(n))
  BY RegionsAreCounted DEF SeverityCounts
<1>2. \A k \in Smoking : Rank(records[k].smoke) \in Names
  <2>1. \A k \in Smoking : records[k] \in Vehicle /\ records[k].smoke # None
    BY DEF Smoking, RecordsInv
  <2>2. \A v \in Vehicle : v.smoke \in Nat
    BY DEF Vehicle
  <2> QED BY <2>1, <2>2, RankIs
<1>3. Smoking \subseteq 1..Len(records) /\ Len(records) \in Nat
  BY DEF Smoking, RecordsInv
<1>4. ASSUME NEW n \in Names PROVE (Cardinality(Of(n)) > 0) <=> n \in Recorded
  <2>1. Of(n) \subseteq 1..Len(records)
    BY <1>3
  <2>2. (Of(n) # {}) <=> n \in Recorded
    BY DEF Recorded
  <2> HIDE DEF Of
  <2>3. IsFiniteSet(Of(n)) /\ Cardinality(Of(n)) \in 0..Len(records)
    BY <1>3, <2>1, PartsAreFinite
  <2>4. (Cardinality(Of(n)) = 0) <=> Of(n) = {}
    BY <2>3, FS_EmptySet
  <2> QED BY <1>3, <2>2, <2>3, <2>4
<1> HIDE DEF Of
<1>5. Recorded \subseteq Names
  BY <1>2 DEF Recorded
<1>6. Found = Recorded
  BY <1>1, <1>4, <1>5
<1>7. Worst(SeverityCounts) = Max({None} \union Recorded)
  BY <1>6 DEF Worst
<1>8. CASE Recorded = {}
  <2>1. {None} \union Recorded = {0} /\ \A y \in {0} : 0 >= y
    BY <1>8 DEF None
  <2>2. Max({0}) = 0
    BY <2>1, MaxIs
  <2> QED BY <1>7, <1>8, <2>1, <2>2 DEF None
<1>9. CASE Recorded # {}
  <2>1. Recorded \subseteq 0..3 /\ Recorded \subseteq Int
    BY <1>5 DEF Names
  <2>2. PICK m \in Recorded : \A y \in Recorded : m >= y
    BY <1>9, <2>1, HasLargest
  <2>3. Max(Recorded) = m
    BY <2>1, <2>2, MaxIs
  <2> DEFINE T == {None} \union Recorded
  <2>4. T \subseteq Int /\ m \in T /\ \A y \in T : m >= y
    BY <2>1, <2>2 DEF None
  <2> HIDE DEF T
  <2>5. Max(T) = m
    BY <2>4, MaxIs
  <2> QED BY <1>7, <1>9, <2>3, <2>5 DEF T
<1> QED BY <1>8, <1>9

(***************************************************************************)
(* Smoke is reported exactly when it was seen and, in a scan of more than  *)
(* one frame, one vehicle's smoke persisted; severity, totals and counts   *)
(* are those of what was measured, for any frames, thresholds and bands    *)
(* (VehicleTracker, _discard_transient_smoke, aggregate).                  *)
(***************************************************************************)
THEOREM VerdictsAreTrue == Spec => []VerdictMatchesEvidence
<1>1. ScanInv /\ TracksInv /\ EvidenceInv => VerdictMatchesEvidence
  <2> SUFFICES ASSUME ScanInv, EvidenceInv, pc = "done" PROVE VerdictMatchesEvidence
    BY DEF VerdictMatchesEvidence
  <2> DEFINE belief == \E k \in DOMAIN tracks : Believed(k)
             smoke  == Measured # {} /\ (processed <= 1 \/ belief)
  <2>1. RecordsInv /\ RegionsInv /\ processed \in Nat
    BY Sizes DEF ScanInv, CountsInv
  <2>2. /\ ~transient => Measured = Recorded
        /\ transient => Smoking = {}
        /\ Verdict /\ Reported
    BY EvidenceIs DEF Decided
  <2>3. (transient <=> (Measured # {} /\ processed > 1 /\ ~belief))
    BY <2>2 DEF Verdict
  <2> HIDE DEF belief
  <2>4. Recorded = IF smoke THEN Measured ELSE {}
    <3>1. transient => Recorded = {}
      BY <2>2 DEF Recorded
    <3> QED BY <2>1, <2>2, <2>3, <3>1
  <2>5. result.overall_severity = IF smoke THEN Max(Measured) ELSE None
    <3>1. result.overall_severity = IF Recorded # {} THEN Max(Recorded) ELSE None
      BY <2>1, <2>2, WorstIsTheWorst DEF Reported
    <3> QED BY <2>4, <3>1
  <2>6. result.total_smoke = Cardinality(Smoking)
    BY <2>1, <2>2, RegionsAreCounted DEF Reported
  <2>7. ASSUME NEW n \in Names
        PROVE  result.severity_counts[n] = Cardinality({k \in Smoking : Rank(records[k].smoke) = n})
    <3>1. result.severity_counts = SeverityCounts
      BY <2>2 DEF Reported
    <3>2. SeverityCounts[n] = Cardinality({g \in regions : g.severity = n})
      BY DEF SeverityCounts
    <3>3. Cardinality({g \in regions : g.severity = n})
            = Cardinality({k \in Smoking : Rank(records[k].smoke) = n})
      BY <2>1, RegionsAreCounted
    <3> QED BY <3>1, <3>2, <3>3, Zenon
  <2>8. (Smoking = {}) = ~smoke
    BY <2>4 DEF Recorded
  <2> HIDE DEF smoke
  <2>9. Smoking = {k \in DOMAIN records : records[k].smoke # None}
    BY DEF Smoking
  <2> QED BY <2>5, <2>6, <2>7, <2>8, <2>9 DEF VerdictMatchesEvidence, smoke, belief
<1> QED BY <1>1, EvidenceInvariance, PTL
=============================================================================
