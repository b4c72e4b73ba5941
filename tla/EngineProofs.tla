---------------------------- MODULE EngineProofs ----------------------------
(***************************************************************************)
(* Theorems about MatchEngine, for any number of prices, orders, levels,   *)
(* structs and bins.  First the skip list: what find_place finds, and that *)
(* add_to_list and remove_from_list (match/engine.c) keep every level      *)
(* sorted, linked in both directions and a part of the level below, and    *)
(* best_bid and best_ask the best prices.  Then the inductive invariant of *)
(* the five structures, every safety property the runs check, and that the *)
(* engine implements OrderBook while no two resting orders share a bin.    *)
(***************************************************************************)
EXTENDS MatchEngine, FiniteSetTheorems, FunctionTheorems, NaturalsInduction,
        WellFoundedInduction, TLAPS

-----------------------------------------------------------------------------
(* Numbers.                                                                *)

(* What well-founded induction says without a second-order theorem.        *)
LEMMA LeastNatural ==
  ASSUME NEW T \in SUBSET Nat, T # {}
  PROVE  \E x \in T : \A y \in T : x <= y
<1>1. \E R : /\ \A x, y \in Nat : y < x => <<y, x>> \in R
             /\ IsWellFoundedOn(R, Nat)
  <2> DEFINE R == OpToRel(<, Nat)
  <2>1. \A x, y \in Nat : y < x => <<y, x>> \in R
    BY DEF OpToRel
  <2>2. IsWellFoundedOn(R, Nat)
    BY NatLessThanWellFounded
  <2> HIDE DEF R
  <2> WITNESS R
  <2> QED
    BY <2>1, <2>2
<1>2. PICK R : /\ \A x, y \in Nat : y < x => <<y, x>> \in R
               /\ IsWellFoundedOn(R, Nat)
  BY <1>1
<1>3. \E x \in T : \A y \in T : ~ (<<y, x>> \in R)
  BY <1>2, WFMin
<1>4. PICK x \in T : \A y \in T : ~ (<<y, x>> \in R)
  BY <1>3
<1>5. \A y \in T : x \in Nat /\ y \in Nat /\ ~ (y < x)
  BY <1>2, <1>4
<1> QED
  BY <1>4, <1>5

LEMMA GreatestNumber ==
  ASSUME NEW n \in Nat, NEW T \in SUBSET (0 .. n), T # {}
  PROVE  \E x \in T : \A y \in T : y <= x
<1> DEFINE D == {k \in Nat : n - k \in T}
<1>1. PICK x \in T : TRUE
  OBVIOUS
<1>2. n - x \in D
  BY <1>1
<1>3. PICK k \in D : \A j \in D : k <= j
  BY <1>2, LeastNatural
<1>4. \A y \in T : n - y \in D
  OBVIOUS
<1>5. \A y \in T : y <= n - k
  BY <1>3, <1>4
<1> QED
  BY <1>3, <1>5

-----------------------------------------------------------------------------
(* One level: next and prev link the nodes of O between the ends.          *)

Level(nx, pv, O) ==
  /\ nx \in [Nodes -> Nodes \cup {NULL}] /\ pv \in [Nodes -> Nodes \cup {NULL}]
  /\ O \subseteq 1 .. MaxPrice
  /\ \A p \in O \cup {Bottom} :
       /\ nx[p] \in O \cup {Top} /\ p < nx[p]
       /\ \A r \in O : r <= p \/ nx[p] <= r
       /\ O # {} => pv[nx[p]] = p
  /\ \A p \in O : pv[p] \in O \cup {Bottom} /\ nx[pv[p]] = p
  /\ \A n \in Nodes \ {Top} : nx[n] # NULL => nx[n] > n

(* v is where p belongs.                                                   *)
Place(O, p, v) ==
  /\ v \in O \cup {Bottom} /\ v <= p
  /\ \A r \in O : r <= v \/ p < r

LEMMA Ends ==
  /\ MaxPrice \in Nat /\ Top = MaxPrice + 1 /\ Bottom = 0
  /\ Top \in Nodes /\ Bottom \in Nodes /\ NULL \notin Nodes /\ NULL \notin Slots
  /\ Nodes = 0 .. MaxPrice + 1 /\ \A p \in 1 .. MaxPrice : p \in Nodes
  BY EngineBounds, NullAssumption DEF Top, Bottom, Nodes

(* add_to_list on one level.                                               *)
LEMMA LevelInsert ==
  ASSUME NEW nx, NEW pv, NEW O, Level(nx, pv, O),
         NEW p \in 1 .. MaxPrice, p \notin O, NEW v, Place(O, p, v)
  PROVE  Level([nx EXCEPT ![p] = nx[v], ![v] = p],
               [pv EXCEPT ![p] = v, ![nx[v]] = p], O \cup {p})
<1> DEFINE mx == [nx EXCEPT ![p] = nx[v], ![v] = p]
           qv == [pv EXCEPT ![p] = v, ![nx[v]] = p]
           P == O \cup {p}
<1>0. /\ O \subseteq 1 .. MaxPrice /\ v \in O \cup {Bottom}
      /\ nx \in [Nodes -> Nodes \cup {NULL}] /\ pv \in [Nodes -> Nodes \cup {NULL}]
      /\ v \in Nodes /\ p \in Nodes /\ v \in Nat /\ p \in Nat /\ v <= p /\ v # p
      /\ nx[v] \in O \cup {Top} /\ v < nx[v]
  BY Ends DEF Level, Place
<1>1a. nx[v] \in Nodes /\ nx[v] \in Nat /\ p < nx[v]
  <2>1. CASE nx[v] = Top
    BY <2>1, Ends
  <2>2. CASE nx[v] \in O
    <3>1. nx[v] <= v \/ p < nx[v]
      BY <2>2 DEF Place
    <3>2. nx[v] \in 1 .. MaxPrice
      BY <2>2, <1>0
    <3>3. nx[v] \in Nodes /\ nx[v] \in Nat
      BY <3>2, Ends
    <3> QED
      BY <3>1, <3>3, <1>0
  <2> QED
    BY <1>0, <2>1, <2>2
<1>1. /\ v \in Nodes /\ p \in Nodes /\ v < p /\ nx[v] \in O \cup {Top} /\ nx[v] \in Nodes
      /\ p < nx[v] /\ v # p /\ nx[v] # p /\ v # nx[v]
      /\ O \subseteq 1 .. MaxPrice /\ v \in O \cup {Bottom}
      /\ nx \in [Nodes -> Nodes \cup {NULL}] /\ pv \in [Nodes -> Nodes \cup {NULL}]
      /\ v \in Nat /\ p \in Nat /\ nx[v] \in Nat
  BY <1>0, <1>1a
<1>2. /\ mx \in [Nodes -> Nodes \cup {NULL}] /\ qv \in [Nodes -> Nodes \cup {NULL}]
      /\ mx[p] = nx[v] /\ mx[v] = p /\ qv[p] = v /\ qv[nx[v]] = p
      /\ \A n \in Nodes : n # p /\ n # v => mx[n] = nx[n]
      /\ \A n \in Nodes : n # p /\ n # nx[v] => qv[n] = pv[n]
  BY <1>1
<1> HIDE DEF mx, qv
<1>3. ASSUME NEW q \in P \cup {Bottom}
      PROVE  /\ mx[q] \in P \cup {Top} /\ q < mx[q]
             /\ \A r \in P : r <= q \/ mx[q] <= r
             /\ qv[mx[q]] = q
  <2>0. q \in Nodes
    BY <1>1, Ends
  <2>1. CASE q = p
    BY <2>1, <1>1, <1>2, Ends DEF Level, Place
  <2>2. CASE q = v
    BY <2>2, <1>1, <1>2, Ends DEF Level, Place
  <2>3. CASE q # p /\ q # v
    <3>1. q \in O \cup {Bottom} /\ mx[q] = nx[q] /\ nx[q] \in O \cup {Top} /\ q < nx[q]
          /\ \A r \in O : r <= q \/ nx[q] <= r
      BY <2>3, <2>0, <1>2 DEF Level
    <3>2. O # {} /\ pv[nx[q]] = q
      BY <3>1, <2>3, <1>1 DEF Level
    <3>3. nx[q] # p /\ nx[q] # nx[v]
      <4>1. pv[nx[v]] = v
        BY <3>2, <1>1 DEF Level
      <4> QED
        BY <4>1, <3>1, <3>2, <2>3, Ends
    <3>4. qv[nx[q]] = q
      BY <3>1, <3>2, <3>3, <1>2, <1>1, Ends
    <3>5. p <= q \/ nx[q] <= p
      <4>0. nx[q] \in Nodes
        BY <3>1, <1>1, Ends
      <4>1. nx[q] \in Nat /\ q \in Nat /\ v \in Nat /\ p \in Nat /\ nx[v] \in Nat
        BY <4>0, <2>0, <1>1, Ends
      <4>2. CASE q \in O
        <5>1. q <= v \/ p < q
          BY <4>2 DEF Place
        <5>2. CASE q <= v
          <6>1. v \in O /\ q < v
            BY <5>2, <2>3, <4>1, <4>2, <1>1, Ends
          <6>2. v <= q \/ nx[q] <= v
            BY <6>1, <3>1
          <6> QED
            BY <6>1, <6>2, <4>1, <1>1
        <5> QED
          BY <5>1, <5>2, <4>1
      <4>3. CASE q = Bottom
        <5>1. v \in O /\ q < v
          BY <4>3, <2>3, <4>1, <1>1, Ends
        <5>2. v <= q \/ nx[q] <= v
          BY <5>1, <3>1
        <5> QED
          BY <5>1, <5>2, <4>1, <1>1
      <4> QED
        BY <4>2, <4>3, <3>1
    <3> QED
      BY <3>1, <3>4, <3>5
  <2> QED
    BY <2>1, <2>2, <2>3
<1>4. ASSUME NEW q \in P
      PROVE  qv[q] \in P \cup {Bottom} /\ mx[qv[q]] = q
  <2>1. CASE q = p
    BY <2>1, <1>1, <1>2
  <2>2. CASE q = nx[v]
    BY <2>2, <1>1, <1>2
  <2>3. CASE q # p /\ q # nx[v]
    <3>1. q \in O /\ q \in Nodes /\ qv[q] = pv[q] /\ pv[q] \in O \cup {Bottom} /\ nx[pv[q]] = q
      BY <2>3, <1>1, <1>2, Ends DEF Level
    <3>2. pv[q] # v /\ pv[q] # p
      BY <3>1, <2>3, <1>1, Ends
    <3>2a. pv[q] \in Nodes
      BY <3>1, <1>1, Ends
    <3> QED
      BY <3>1, <3>2, <3>2a, <1>2
  <2> QED
    BY <2>1, <2>2, <2>3
<1>5. ASSUME NEW n \in Nodes \ {Top}, mx[n] # NULL
      PROVE  mx[n] > n
  <2>1. CASE n = p
    BY <2>1, <1>1, <1>2
  <2>2. CASE n = v
    BY <2>2, <1>1, <1>2
  <2>3. CASE n # p /\ n # v
    BY <2>3, <1>2, <1>5 DEF Level
  <2> QED
    BY <2>1, <2>2, <2>3
<1>6. P \subseteq 1 .. MaxPrice
  BY <1>1
<1> QED
  BY <1>2, <1>3, <1>4, <1>5, <1>6 DEF Level, mx, qv

(* remove_from_list on one level.                                          *)
LEMMA LevelRemove ==
  ASSUME NEW nx, NEW pv, NEW O, Level(nx, pv, O), NEW p \in O
  PROVE  Level([nx EXCEPT ![pv[p]] = nx[p]], [pv EXCEPT ![nx[p]] = pv[p]], O \ {p})
<1> DEFINE mx == [nx EXCEPT ![pv[p]] = nx[p]]
           qv == [pv EXCEPT ![nx[p]] = pv[p]]
           P == O \ {p}
           v == pv[p]
<1>0. /\ O \subseteq 1 .. MaxPrice /\ v \in O \cup {Bottom} /\ p \in 1 .. MaxPrice
      /\ nx \in [Nodes -> Nodes \cup {NULL}] /\ pv \in [Nodes -> Nodes \cup {NULL}]
      /\ nx[v] = p /\ nx[p] \in O \cup {Top} /\ p < nx[p]
  BY DEF Level
<1>0a. v < p
  BY <1>0 DEF Level
<1>0b. v \in Nodes /\ p \in Nodes /\ nx[p] \in Nodes
  BY <1>0, Ends
<1>1. /\ v \in Nodes /\ p \in Nodes /\ v < p /\ nx[v] = p /\ nx[p] \in Nodes
      /\ p < nx[p] /\ nx[p] \in O \cup {Top} /\ v \in O \cup {Bottom}
      /\ O \subseteq 1 .. MaxPrice
      /\ nx \in [Nodes -> Nodes \cup {NULL}] /\ pv \in [Nodes -> Nodes \cup {NULL}]
      /\ v \in Nat /\ p \in Nat /\ nx[p] \in Nat
  BY <1>0, <1>0a, <1>0b, Ends
<1>2. /\ mx \in [Nodes -> Nodes \cup {NULL}] /\ qv \in [Nodes -> Nodes \cup {NULL}]
      /\ mx[v] = nx[p] /\ qv[nx[p]] = v
      /\ \A n \in Nodes : n # v => mx[n] = nx[n]
      /\ \A n \in Nodes : n # nx[p] => qv[n] = pv[n]
  BY <1>1
<1> HIDE DEF mx, qv, v
<1>3. ASSUME NEW q \in P \cup {Bottom}
      PROVE  /\ mx[q] \in P \cup {Top} /\ q < mx[q]
             /\ \A r \in P : r <= q \/ mx[q] <= r
             /\ P # {} => qv[mx[q]] = q
  <2>0. q \in Nodes /\ q # p
    BY <1>1, Ends
  <2>1. CASE q = v
    <3>1. v < nx[p] /\ nx[p] \in P \cup {Top}
      BY <1>1
    <3>2. \A r \in P : r <= v \/ nx[p] <= r
      <4>1. \A r \in O : r <= v \/ p <= r
        BY <1>1 DEF Level
      <4>2. \A r \in O : r <= p \/ nx[p] <= r
        BY DEF Level
      <4> QED
        BY <4>1, <4>2, <1>1
    <3> QED
      BY <3>1, <3>2, <2>1, <1>2
  <2>2. CASE q # v
    <3>1. q \in O \cup {Bottom} /\ mx[q] = nx[q] /\ nx[q] \in O \cup {Top} /\ q < nx[q]
          /\ (\A r \in O : r <= q \/ nx[q] <= r) /\ pv[nx[q]] = q
      BY <2>2, <2>0, <1>2 DEF Level
    <3>2. nx[q] # p /\ nx[q] # nx[p]
      <4>1. pv[nx[p]] = p /\ pv[p] = v
        BY DEF Level, v
      <4> QED
        BY <4>1, <3>1, <2>2, <2>0
    <3>3. nx[q] \in Nodes
      BY <3>1, <1>1, Ends
    <3> QED
      BY <3>1, <3>2, <3>3, <1>2
  <2> QED
    BY <2>1, <2>2
<1>4. ASSUME NEW q \in P
      PROVE  qv[q] \in P \cup {Bottom} /\ mx[qv[q]] = q
  <2>0. q \in Nodes /\ q # p
    BY <1>1, Ends
  <2>1. CASE q = nx[p]
    BY <2>1, <1>1, <1>2
  <2>2. CASE q # nx[p]
    <3>1. qv[q] = pv[q] /\ pv[q] \in O \cup {Bottom} /\ nx[pv[q]] = q
      BY <2>2, <2>0, <1>2 DEF Level
    <3>2. pv[q] # p /\ pv[q] # v /\ pv[q] \in Nodes
      BY <3>1, <2>0, <2>2, <1>1, Ends
    <3> QED
      BY <3>1, <3>2, <1>2
  <2> QED
    BY <2>1, <2>2
<1>5. ASSUME NEW n \in Nodes \ {Top}, mx[n] # NULL
      PROVE  mx[n] > n
  <2>1. CASE n = v
    BY <2>1, <1>1, <1>2
  <2>2. CASE n # v
    BY <2>2, <1>2, <1>5 DEF Level
  <2> QED
    BY <2>1, <2>2
<1>6. P \subseteq 1 .. MaxPrice
  BY <1>1
<1> QED
  BY <1>2, <1>3, <1>4, <1>5, <1>6 DEF Level, mx, qv, v

-----------------------------------------------------------------------------
(* find_place.                                                             *)

GoesOn(e, price, i, n) ==
  /\ e.nexts[i][n] \notin {NULL, Top}
  /\ e.nodes[e.nexts[i][n]].price <= price

WalkStep(w, e, price, i, n) ==
  w[n] = IF GoesOn(e, price, i, n) THEN w[e.nexts[i][n]] ELSE n

WalksFrom(w, e, price, i, k) ==
  w \in [Nodes -> Nodes] /\ \A n \in k .. MaxPrice : WalkStep(w, e, price, i, n)

LEMMA WalkBack ==
  ASSUME NEW e, NEW price, NEW i, NEW pv, NEW O, Level(e.nexts[i], pv, O),
         NEW k \in 1 .. MaxPrice + 1, NEW w, WalksFrom(w, e, price, i, k)
  PROVE  \E u : WalksFrom(u, e, price, i, k - 1)
<1> DEFINE nx == e.nexts[i]
           j == k - 1
           u == [w EXCEPT ![j] = IF GoesOn(e, price, i, j) THEN w[nx[j]] ELSE j]
<1>0. /\ j \in Nodes /\ j \in 0 .. MaxPrice /\ j # Top /\ w \in [Nodes -> Nodes]
      /\ nx \in [Nodes -> Nodes \cup {NULL}]
  BY Ends DEF Level, WalksFrom
<1>1. GoesOn(e, price, i, j) => nx[j] \in Nodes /\ nx[j] # j
  <2>1. nx[j] \in Nodes => nx[j] > j
    BY <1>0, Ends DEF Level
  <2> QED
    BY <1>0, <2>1, Ends DEF GoesOn
<1>2. /\ u \in [Nodes -> Nodes]
      /\ u[j] = IF GoesOn(e, price, i, j) THEN w[nx[j]] ELSE j
      /\ \A n \in Nodes : n # j => u[n] = w[n]
  BY <1>0, <1>1
<1> HIDE DEF u
<1>3. ASSUME NEW n \in j .. MaxPrice
      PROVE  WalkStep(u, e, price, i, n)
  <2>1. CASE n = j
    BY <2>1, <1>1, <1>2 DEF WalkStep
  <2>2. CASE n # j
    <3>1. n \in k .. MaxPrice /\ n \in Nodes /\ n # Top /\ j < n
      BY <2>2, <1>0, Ends
    <3>2. w[n] = IF GoesOn(e, price, i, n) THEN w[nx[n]] ELSE n
      BY <3>1 DEF WalksFrom, WalkStep
    <3>3. GoesOn(e, price, i, n) => nx[n] \in Nodes /\ nx[n] > n
      BY <3>1, <1>0 DEF Level, GoesOn
    <3>4. GoesOn(e, price, i, n) => nx[n] \in Nodes /\ nx[n] # j
      <4>1. j \in Nat /\ n \in Nat /\ \A q \in Nodes : q \in Nat
        BY <3>1, <1>0, Ends
      <4> QED
        BY <4>1, <3>1, <3>3
    <3> QED
      BY <3>1, <3>2, <3>4, <1>2, <2>2 DEF WalkStep
  <2> QED
    BY <2>1, <2>2
<1> QED
  BY <1>2, <1>3 DEF WalksFrom

LEMMA WalkExists ==
  ASSUME NEW e, NEW price, NEW i, NEW pv, NEW O, Level(e.nexts[i], pv, O)
  PROVE  \E w : w = [n \in Nodes |-> IF GoesOn(e, price, i, n) THEN w[e.nexts[i][n]] ELSE n]
<1> DEFINE nx == e.nexts[i]
           T == {k \in 0 .. MaxPrice + 1 : \E w : WalksFrom(w, e, price, i, k)}
<1>1. MaxPrice + 1 \in T
  <2>1. WalksFrom([n \in Nodes |-> n], e, price, i, MaxPrice + 1)
    BY Ends DEF WalksFrom
  <2> QED
    BY <2>1, Ends
<1>2. PICK k \in T : \A j \in T : k <= j
  <2>1. T \in SUBSET Nat
    OBVIOUS
  <2> HIDE DEF T
  <2> QED
    BY <2>1, <1>1, LeastNatural
<1>3. k = 0
  <2>1. SUFFICES ASSUME k # 0
                 PROVE  FALSE
    OBVIOUS
  <2>2. k \in 1 .. MaxPrice + 1
    BY <2>1, Ends
  <2>3. PICK w : WalksFrom(w, e, price, i, k)
    OBVIOUS
  <2>4. \E u : WalksFrom(u, e, price, i, k - 1)
    BY <2>2, <2>3, WalkBack
  <2>5. k - 1 \in T
    BY <2>2, <2>4, Ends
  <2> QED
    BY <2>5, <2>2, <1>2, Ends
<1>4. PICK w : WalksFrom(w, e, price, i, 0)
  BY <1>3
<1> DEFINE u == [w EXCEPT ![Top] = IF GoesOn(e, price, i, Top) THEN w[nx[Top]] ELSE Top]
<1>5. /\ u \in [Nodes -> Nodes] /\ w \in [Nodes -> Nodes]
      /\ u[Top] = IF GoesOn(e, price, i, Top) THEN w[nx[Top]] ELSE Top
      /\ \A n \in Nodes : n # Top => u[n] = w[n]
  <2>1. GoesOn(e, price, i, Top) => nx[Top] \in Nodes
    BY Ends DEF Level, GoesOn
  <2>2. w \in [Nodes -> Nodes]
    BY <1>4 DEF WalksFrom
  <2> QED
    BY <2>1, <2>2, Ends
<1> HIDE DEF u
<1>6. ASSUME NEW n \in Nodes
      PROVE  u[n] = IF GoesOn(e, price, i, n) THEN u[nx[n]] ELSE n
  <2>1. GoesOn(e, price, i, n) => nx[n] \in Nodes /\ nx[n] # Top
    BY DEF GoesOn, Level
  <2>2. CASE n = Top
    BY <2>1, <2>2, <1>5
  <2>3. CASE n # Top
    <3>1. n \in 0 .. MaxPrice
      BY <2>3, Ends
    <3>2. w[n] = IF GoesOn(e, price, i, n) THEN w[nx[n]] ELSE n
      BY <1>4, <3>1 DEF WalksFrom, WalkStep
    <3> QED
      BY <2>1, <2>3, <3>2, <1>5
  <2> QED
    BY <2>2, <2>3
<1>7. u = [n \in Nodes |-> IF GoesOn(e, price, i, n) THEN u[nx[n]] ELSE n]
  BY <1>5, <1>6
<1> QED
  BY <1>7

LEMMA WalkUnfolds ==
  ASSUME NEW e, NEW price, NEW i, NEW pv, NEW O, Level(e.nexts[i], pv, O),
         NEW n \in Nodes
  PROVE  WalkStep(Walk(e, price, i), e, price, i, n)
<1> DEFINE Rec(w) == [m \in Nodes |-> IF GoesOn(e, price, i, m) THEN w[e.nexts[i][m]] ELSE m]
<1>1. \E w : w = Rec(w)
  BY WalkExists
<1>2. Walk(e, price, i) = CHOOSE w : w = Rec(w)
  BY DEF Walk, GoesOn
<1>3. Walk(e, price, i) = Rec(Walk(e, price, i))
  <2> HIDE DEF Rec
  <2> QED
    BY <1>1, <1>2
<1> QED
  BY <1>3 DEF WalkStep

(* Where a walk along a sorted level stops.                                *)
LEMMA WalkStops ==
  ASSUME NEW e, NEW price \in 1 .. MaxPrice, NEW i, NEW pv, NEW O,
         Level(e.nexts[i], pv, O), \A q \in O : e.nodes[q].price = q,
         NEW n \in O \cup {Bottom}, n <= price
  PROVE  Place(O, price, Walk(e, price, i)[n])
<1> DEFINE nx == e.nexts[i]
           w == Walk(e, price, i)
           Bad == {m \in O \cup {Bottom} : m <= price /\ ~ Place(O, price, w[m])}
<1> SUFFICES ASSUME n \in Bad
             PROVE  FALSE
  OBVIOUS
<1>0. O \subseteq 1 .. MaxPrice
  BY DEF Level
<1>1. O \subseteq 1 .. MaxPrice /\ Bad \in SUBSET (0 .. MaxPrice)
  BY <1>0, Ends
<1>2. PICK m \in Bad : \A k \in Bad : k <= m
  <2> HIDE DEF Bad
  <2> QED
    BY <1>1, Ends, GreatestNumber
<1>3. /\ m \in O \cup {Bottom} /\ m <= price /\ ~ Place(O, price, w[m]) /\ m \in Nodes /\ m \in Nat
      /\ nx[m] \in O \cup {Top} /\ m < nx[m] /\ \A r \in O : r <= m \/ nx[m] <= r
  <2>1. m \in O \cup {Bottom} /\ m <= price /\ ~ Place(O, price, w[m])
    OBVIOUS
  <2> QED
    BY <2>1, <1>1, Ends DEF Level
<1>4. w[m] = IF GoesOn(e, price, i, m) THEN w[nx[m]] ELSE m
  <2>1. WalkStep(Walk(e, price, i), e, price, i, m)
    BY <1>3, WalkUnfolds
  <2> QED
    BY <2>1 DEF WalkStep
<1> HIDE DEF w
<1>5. nx[m] \in Nat /\ nx[m] # NULL
  <2>1. \A r \in O \cup {Top} : r \in Nodes
    BY <1>1, Ends
  <2>2. nx[m] \in Nodes
    BY <2>1, <1>3
  <2> QED
    BY <2>2, Ends
<1>6. CASE GoesOn(e, price, i, m)
  <2>1. nx[m] \in O /\ nx[m] <= price
    BY <1>6, <1>3 DEF GoesOn
  <2>2. Place(O, price, w[nx[m]])
    <3>1. nx[m] \notin Bad
      BY <1>2, <1>3, <1>5
    <3> QED
      BY <3>1, <2>1
  <2> QED
    BY <2>2, <1>3, <1>4, <1>6
<1>7. CASE ~ GoesOn(e, price, i, m)
  <2>1. nx[m] = Top \/ price < nx[m]
    BY <1>7, <1>3, <1>5 DEF GoesOn
  <2>2. price < nx[m]
    BY <2>1, Ends
  <2>3. Place(O, price, m)
    <3>1. ASSUME NEW r \in O
          PROVE  r <= m \/ price < r
      <4>1. r <= m \/ nx[m] <= r
        BY <1>3
      <4>2. r \in Nat
        BY <1>1
      <4> QED
        BY <4>1, <4>2, <2>2, <1>5
    <3> QED
      BY <3>1, <1>3 DEF Place
  <2> QED
    BY <2>3, <1>3, <1>4, <1>7
<1> QED
  BY <1>6, <1>7

LEMMA PlaceUnique ==
  ASSUME NEW O, O \subseteq 1 .. MaxPrice, NEW p \in Nat, NEW u, NEW v,
         Place(O, p, u), Place(O, p, v)
  PROVE  u = v
<1>1. u \in Nat /\ v \in Nat /\ u \in O \cup {Bottom} /\ v \in O \cup {Bottom}
  BY Ends DEF Place
<1>2. u <= v
  <2>1. CASE u \in O
    BY <1>1, <2>1 DEF Place
  <2>2. CASE u = Bottom
    BY <1>1, <2>2, Ends
  <2> QED
    BY <1>1, <2>1, <2>2
<1>3. v <= u
  <2>1. CASE v \in O
    BY <1>1, <2>1 DEF Place
  <2>2. CASE v = Bottom
    BY <1>1, <2>2, Ends
  <2> QED
    BY <1>1, <2>1, <2>2
<1> QED
  BY <1>1, <1>2, <1>3

(* The nodes O[i] of every level, each a part of the one below.            *)
Levelled(e, O) ==
  /\ \A i \in Levels : Level(e.nexts[i], e.prevs[i], O[i])
  /\ \A i \in Levels \ {0} : O[i] \subseteq O[i - 1]
  /\ \A i \in Levels : \A q \in O[i] : e.nodes[q].price = q

LEMMA LevelNumbers ==
  /\ ListHeight \in Nat /\ ListHeight - 1 \in Levels /\ 0 \in Levels
  /\ Levels = 0 .. ListHeight - 1
  /\ \A i \in Levels : i # ListHeight - 1 => i + 1 \in Levels \ {0} /\ i + 1 - 1 = i
  BY EngineBounds DEF Levels

(* The pass of a level stops in the right place if that of the level above *)
(* did.                                                                    *)
LEMMA NextStop ==
  ASSUME NEW e, NEW O, Levelled(e, O), NEW price \in 1 .. MaxPrice, NEW i \in Levels,
         NEW v, i # ListHeight - 1 => Place(O[i + 1], price, v)
  PROVE  Place(O[i], price, Walk(e, price, i)[IF i = ListHeight - 1 THEN Bottom ELSE v])
<1> DEFINE n == IF i = ListHeight - 1 THEN Bottom ELSE v
<1>1. n \in O[i] \cup {Bottom} /\ n <= price
  <2>1. CASE i = ListHeight - 1
    BY <2>1, Ends
  <2>2. CASE i # ListHeight - 1
    <3>1. O[i + 1] \subseteq O[i]
      BY <2>2, LevelNumbers DEF Levelled
    <3> QED
      BY <2>2, <3>1 DEF Place
  <2> QED
    BY <2>1, <2>2
<1>2. Level(e.nexts[i], e.prevs[i], O[i]) /\ \A q \in O[i] : e.nodes[q].price = q
  BY DEF Levelled
<1> HIDE DEF n
<1>3. Place(O[i], price, Walk(e, price, i)[n])
  BY <1>1, <1>2, WalkStops
<1> QED
  BY <1>3 DEF n

LEMMA VectorExists ==
  ASSUME NEW e, NEW O, Levelled(e, O), NEW price \in 1 .. MaxPrice
  PROVE  \E v : v = [i \in Levels |->
                       Walk(e, price, i)[IF i = ListHeight - 1 THEN Bottom ELSE v[i + 1]]]
<1> DEFINE v == [i \in Levels |-> CHOOSE x : Place(O[i], price, x)]
<1>1. ASSUME NEW i \in Levels
      PROVE  Place(O[i], price, v[i])
  <2>1. Level(e.nexts[i], e.prevs[i], O[i]) /\ \A q \in O[i] : e.nodes[q].price = q
    BY DEF Levelled
  <2>2. Bottom \in O[i] \cup {Bottom} /\ Bottom <= price
    BY Ends
  <2>3. Place(O[i], price, Walk(e, price, i)[Bottom])
    BY <2>1, <2>2, WalkStops
  <2>4. Place(O[i], price, CHOOSE x : Place(O[i], price, x))
    BY <2>3
  <2> QED
    BY <2>4
<1>2. v = [i \in Levels |-> v[i]]
  OBVIOUS
<1> HIDE DEF v
<1>3. ASSUME NEW i \in Levels
      PROVE  v[i] = Walk(e, price, i)[IF i = ListHeight - 1 THEN Bottom ELSE v[i + 1]]
  <2>1. i # ListHeight - 1 => Place(O[i + 1], price, v[i + 1])
    BY <1>1, LevelNumbers
  <2>2. Place(O[i], price, Walk(e, price, i)[IF i = ListHeight - 1 THEN Bottom ELSE v[i + 1]])
    BY <2>1, NextStop
  <2>3. O[i] \subseteq 1 .. MaxPrice
    BY DEF Levelled, Level
  <2> QED
    BY <1>1, <2>2, <2>3, PlaceUnique
<1>4. v = [i \in Levels |->
             Walk(e, price, i)[IF i = ListHeight - 1 THEN Bottom ELSE v[i + 1]]]
  BY <1>2, <1>3
<1> QED
  BY <1>4

(* find_place finds the place of a price on every level.                   *)
LEMMA FindPlaceFinds ==
  ASSUME NEW e, NEW O, Levelled(e, O), NEW price \in 1 .. MaxPrice, NEW i \in Levels
  PROVE  Place(O[i], price, FindPlace(e, price)[i])
<1> DEFINE Rec(v) == [j \in Levels |->
                Walk(e, price, j)[IF j = ListHeight - 1 THEN Bottom ELSE v[j + 1]]]
           f == FindPlace(e, price)
           Bad == {j \in Levels : ~ Place(O[j], price, f[j])}
<1>1. f = Rec(f)
  <2>1. \E v : v = Rec(v)
    BY VectorExists
  <2>2. f = CHOOSE v : v = Rec(v)
    BY DEF FindPlace
  <2> HIDE DEF Rec, f
  <2> QED
    BY <2>1, <2>2
<1>2. \A j \in Levels :
        f[j] = Walk(e, price, j)[IF j = ListHeight - 1 THEN Bottom ELSE f[j + 1]]
  <2> HIDE DEF f
  <2> QED
    BY <1>1
<1> SUFFICES ASSUME i \in Bad
             PROVE  FALSE
  OBVIOUS
<1>3. PICK j \in Bad : \A k \in Bad : k <= j
  <2>1. Bad \in SUBSET (0 .. ListHeight - 1) /\ ListHeight - 1 \in Nat
    BY LevelNumbers
  <2> HIDE DEF Bad
  <2> QED
    BY <2>1, GreatestNumber
<1>4. j \in Levels /\ ~ Place(O[j], price, f[j])
  OBVIOUS
<1>5. j # ListHeight - 1 => Place(O[j + 1], price, f[j + 1])
  <2>1. j # ListHeight - 1 => j + 1 \in Levels /\ ~ (j + 1 <= j)
    BY <1>4, LevelNumbers
  <2> QED
    BY <2>1, <1>3
<1> HIDE DEF f, Bad
<1>6. Place(O[j], price, Walk(e, price, j)[IF j = ListHeight - 1 THEN Bottom ELSE f[j + 1]])
  BY <1>4, <1>5, NextStop
<1> QED
  BY <1>2, <1>4, <1>6

-----------------------------------------------------------------------------
(* The list as a whole.                                                    *)

OrNull(S) == S \cup {NULL}
NodeType == [side : Sides, price : 0 .. MaxPrice, first : OrNull(Slots), last : OrNull(Slots)]
OrderType == [id : 0 .. MaxId, data : Order, nextInBin : OrNull(Slots),
              next : OrNull(Slots), prev : OrNull(Slots)]
BinType == [first : OrNull(Slots), last : OrNull(Slots)]
LinksType == [Levels -> [Nodes -> OrNull(Nodes)]]

EngType ==
  [nodes : [Nodes -> NodeType], nexts : LinksType, prevs : LinksType,
   bestBid : Nodes, bestAsk : Nodes, orders : [Slots -> OrderType], free : BinType,
   idMap : [Bins -> BinType], nextId : 1 .. MaxId + 1, fault : BOOLEAN]

Used(e) == {p \in 1 .. MaxPrice : e.nodes[p].price # 0}
On(e, i) == {p \in Used(e) : e.nexts[i][p] # NULL}

(* The skip list, its unused nodes included.                               *)
Listed(e) ==
  /\ \A n \in Nodes : e.nodes[n].price \in {0, n}
  /\ e.nodes[Top].price = 0
  /\ On(e, 0) = Used(e)
  /\ \A i \in Levels \ {0} : On(e, i) \subseteq On(e, i - 1)
  /\ \A i \in Levels : Level(e.nexts[i], e.prevs[i], On(e, i))
  /\ \A i \in Levels : \A p \in Used(e) \ On(e, i) : e.prevs[i][p] = NULL

(* The pointers to the best nodes.                                         *)
Sided(e) ==
  /\ e.bestBid = Bottom \/ (e.bestBid \in Used(e) /\ e.nodes[e.bestBid].side = "bid")
  /\ e.bestAsk = Top \/ (e.bestAsk \in Used(e) /\ e.nodes[e.bestAsk].side = "ask")
  /\ \A p \in Used(e) : IF e.nodes[p].side = "bid" THEN p <= e.bestBid ELSE p >= e.bestAsk
  /\ e.bestBid < e.bestAsk

(* An order of a side at a price crosses nothing.                          *)
Uncrossed(e, side, p) == IF side = "bid" THEN p < e.bestAsk ELSE e.bestBid < p

SameBut(e, g) ==
  /\ g.orders = e.orders /\ g.free = e.free /\ g.idMap = e.idMap /\ g.nextId = e.nextId

LEMMA LevelBlank ==
  ASSUME NEW nx, NEW pv, NEW O, Level(nx, pv, O), NEW p \in 1 .. MaxPrice, p \notin O
  PROVE  Level([nx EXCEPT ![p] = NULL], [pv EXCEPT ![p] = NULL], O)
<1> DEFINE mx == [nx EXCEPT ![p] = NULL]
           qv == [pv EXCEPT ![p] = NULL]
<1>1. /\ p \in Nodes /\ p # Top /\ p # Bottom
      /\ O \subseteq 1 .. MaxPrice /\ \A q \in O \cup {Bottom, Top} : q \in Nodes
      /\ nx \in [Nodes -> Nodes \cup {NULL}] /\ pv \in [Nodes -> Nodes \cup {NULL}]
  <2>1. O \subseteq 1 .. MaxPrice
    BY DEF Level
  <2> QED
    BY <2>1, Ends DEF Level
<1>2. /\ mx \in [Nodes -> Nodes \cup {NULL}] /\ qv \in [Nodes -> Nodes \cup {NULL}]
      /\ mx[p] = NULL
      /\ \A n \in Nodes : n # p => mx[n] = nx[n] /\ qv[n] = pv[n]
  BY <1>1
<1> HIDE DEF mx, qv
<1>3. ASSUME NEW q \in O \cup {Bottom}
      PROVE  /\ mx[q] \in O \cup {Top} /\ q < mx[q]
             /\ \A r \in O : r <= q \/ mx[q] <= r
             /\ O # {} => qv[mx[q]] = q
  <2>1. q # p /\ q \in Nodes /\ mx[q] = nx[q]
    BY <1>1, <1>2
  <2>2. nx[q] \in O \cup {Top}
    BY DEF Level
  <2>3. nx[q] \in Nodes /\ nx[q] # p
    BY <2>2, <1>1
  <2>4. qv[nx[q]] = pv[nx[q]]
    BY <2>3, <1>2
  <2> QED
    BY <2>1, <2>4 DEF Level
<1>4. ASSUME NEW q \in O
      PROVE  qv[q] \in O \cup {Bottom} /\ mx[qv[q]] = q
  <2>1. q # p /\ q \in Nodes /\ qv[q] = pv[q] /\ pv[q] \in O \cup {Bottom} /\ nx[pv[q]] = q
    BY <1>1, <1>2 DEF Level
  <2>2. pv[q] # p /\ pv[q] \in Nodes
    BY <2>1, <1>1
  <2> QED
    BY <2>1, <2>2, <1>2
<1>5. ASSUME NEW n \in Nodes \ {Top}, mx[n] # NULL
      PROVE  mx[n] > n
  BY <1>2, <1>5 DEF Level
<1> QED
  BY <1>1, <1>2, <1>3, <1>4, <1>5 DEF Level, mx, qv

(* What add_to_list does to one level.                                     *)
AddedOn(e, g, O, p, height, i) ==
  /\ Level(g.nexts[i], g.prevs[i], IF i < height THEN O[i] \cup {p} ELSE O[i])
  /\ \A q \in Nodes : q # p => (g.nexts[i][q] = NULL <=> e.nexts[i][q] = NULL)
  /\ ~ (i < height) => g.prevs[i][p] = NULL
  /\ g.nexts[i][p] = NULL <=> ~ (i < height)
  /\ \A q \in Nodes : q \notin O[i] \cup {p, Top} => g.prevs[i][q] = e.prevs[i][q]

LEMMA AddLevel ==
  ASSUME NEW e \in EngType, NEW O, Levelled(e, O), NEW p \in 1 .. MaxPrice,
         NEW height \in 1 .. ListHeight, NEW i \in Levels, p \notin O[i]
  PROVE  AddedOn(e, AddToList(e, p, height), O, p, height, i)
<1> DEFINE v == FindPlace(e, p)
           g == AddToList(e, p, height)
           nx == e.nexts[i]
           pv == e.prevs[i]
<1>1. Place(O[i], p, v[i])
  BY FindPlaceFinds
<1>2. /\ g.nexts[i] = IF i < height THEN [nx EXCEPT ![p] = nx[v[i]], ![v[i]] = p]
                                    ELSE [nx EXCEPT ![p] = NULL]
      /\ g.prevs[i] = IF i < height THEN [pv EXCEPT ![p] = v[i], ![nx[v[i]]] = p]
                                    ELSE [pv EXCEPT ![p] = NULL]
  BY DEF AddToList, EngType
<1> SUFFICES AddedOn(e, g, O, p, height, i)
  OBVIOUS
<1> HIDE DEF g
<1>3. /\ Level(nx, pv, O[i]) /\ nx \in [Nodes -> Nodes \cup {NULL}]
      /\ pv \in [Nodes -> Nodes \cup {NULL}]
  BY DEF Levelled, Level
<1>4. p \in Nodes
  BY Ends
<1> HIDE DEF v, nx, pv
<1>5. CASE i < height
  <2>1. Level([nx EXCEPT ![p] = nx[v[i]], ![v[i]] = p],
              [pv EXCEPT ![p] = v[i], ![nx[v[i]]] = p], O[i] \cup {p})
    BY <1>1, <1>3, LevelInsert
  <2>2. Level(g.nexts[i], g.prevs[i], O[i] \cup {p})
    BY <1>2, <1>5, <2>1
  <2>3. v[i] \in O[i] \cup {Bottom} /\ v[i] \in Nodes /\ v[i] # p
    <3>1. v[i] \in O[i] \cup {Bottom} /\ O[i] \subseteq 1 .. MaxPrice
      BY <1>1, <1>3 DEF Place, Level
    <3> QED
      BY <3>1, Ends
  <2>4. nx[v[i]] \in O[i] \cup {Top}
    BY <1>3, <2>3 DEF Level
  <2>5. nx[v[i]] # NULL
    <3>1. O[i] \subseteq 1 .. MaxPrice
      BY <1>3 DEF Level
    <3> QED
      BY <2>4, <3>1, Ends
  <2>6. \A q \in Nodes : q # p => (g.nexts[i][q] = NULL <=> e.nexts[i][q] = NULL)
    <3>1. \A q \in Nodes : q # p => g.nexts[i][q] = IF q = v[i] THEN p ELSE nx[q]
      BY <1>2, <1>3, <1>5, <2>3
    <3> QED
      BY <3>1, <2>5, <1>4, Ends DEF nx
  <2>7. g.nexts[i][p] = nx[v[i]]
    BY <1>2, <1>3, <1>5, <2>3, <1>4
  <2>8. \A q \in Nodes : q \notin O[i] \cup {p, Top} => g.prevs[i][q] = e.prevs[i][q]
    BY <1>2, <1>3, <1>5, <2>4 DEF pv
  <2> QED
    BY <2>2, <2>5, <2>6, <2>7, <2>8, <1>5 DEF AddedOn
<1>6. CASE ~ (i < height)
  <2>1. Level([nx EXCEPT ![p] = NULL], [pv EXCEPT ![p] = NULL], O[i])
    BY <1>3, LevelBlank
  <2>2. Level(g.nexts[i], g.prevs[i], O[i])
    BY <1>2, <1>6, <2>1
  <2>3. \A q \in Nodes : q # p => g.nexts[i][q] = e.nexts[i][q]
    BY <1>2, <1>3, <1>6 DEF nx
  <2>4. g.nexts[i][p] = NULL /\ g.prevs[i][p] = NULL
    BY <1>2, <1>3, <1>6, <1>4
  <2>5. \A q \in Nodes : q # p => g.prevs[i][q] = e.prevs[i][q]
    BY <1>2, <1>3, <1>6 DEF pv
  <2> QED
    BY <2>2, <2>3, <2>4, <2>5, <1>6 DEF AddedOn
<1> QED
  BY <1>5, <1>6

AddedTo(e, g, p) ==
  /\ g.nodes = e.nodes /\ SameBut(e, g) /\ g.fault = e.fault
  /\ g.bestAsk = IF e.nodes[p].side = "ask"
                    /\ (e.bestAsk = Top \/ p < e.nodes[e.bestAsk].price)
                 THEN p ELSE e.bestAsk
  /\ g.bestBid = IF e.nodes[p].side = "bid"
                    /\ (e.bestBid = Bottom \/ p > e.nodes[e.bestBid].price)
                 THEN p ELSE e.bestBid
  /\ DOMAIN g.nexts = Levels /\ DOMAIN g.prevs = Levels
  /\ g = [e EXCEPT !.nexts = g.nexts, !.prevs = g.prevs,
                   !.bestAsk = g.bestAsk, !.bestBid = g.bestBid]

LEMMA AddFields ==
  ASSUME NEW e \in EngType, NEW p \in 1 .. MaxPrice, NEW height
  PROVE  AddedTo(e, AddToList(e, p, height), p)
<1> DEFINE g == AddToList(e, p, height)
<1>1. /\ g.nodes = e.nodes /\ SameBut(e, g) /\ g.fault = e.fault
      /\ DOMAIN g.nexts = Levels /\ DOMAIN g.prevs = Levels
  BY DEF AddToList, EngType, SameBut
<1>2. g.bestAsk = IF e.nodes[p].side = "ask"
                     /\ (e.bestAsk = Top \/ p < e.nodes[e.bestAsk].price)
                  THEN p ELSE e.bestAsk
  BY DEF AddToList, EngType
<1>3. g.bestBid = IF e.nodes[p].side = "bid"
                     /\ (e.bestBid = Bottom \/ p > e.nodes[e.bestBid].price)
                  THEN p ELSE e.bestBid
  BY DEF AddToList, EngType
<1>4. g = [e EXCEPT !.nexts = g.nexts, !.prevs = g.prevs,
                    !.bestAsk = g.bestAsk, !.bestBid = g.bestBid]
  <2>1. \E nx, pv, a, b : g = [e EXCEPT !.nexts = nx, !.prevs = pv,
                                        !.bestAsk = a, !.bestBid = b]
    BY DEF AddToList
  <2>2. PICK nx, pv, a, b : g = [e EXCEPT !.nexts = nx, !.prevs = pv,
                                          !.bestAsk = a, !.bestBid = b]
    BY <2>1
  <2> HIDE DEF g
  <2>3. g.nexts = nx /\ g.prevs = pv /\ g.bestAsk = a /\ g.bestBid = b
    BY <2>2 DEF EngType
  <2> QED
    BY <2>2, <2>3
<1> HIDE DEF g
<1>5. AddedTo(e, g, p)
  BY <1>1, <1>2, <1>3, <1>4 DEF AddedTo
<1> QED
  BY <1>5 DEF g

(* g is e with a node that add_to_list has entered at a price.             *)
NodeAdded(e, g, p, node, height) ==
  g = AddToList([e EXCEPT !.nodes = [@ EXCEPT ![p] = node]], p, height)

(* add_to_list enters a node that is not in the list and crosses nothing.  *)
LEMMA ListInsert ==
  ASSUME NEW e \in EngType, Listed(e), Sided(e),
         NEW p \in 1 .. MaxPrice, p \notin Used(e), NEW height \in 1 .. ListHeight,
         NEW node \in NodeType, node.price = p, Uncrossed(e, node.side, p), NEW g,
         NodeAdded(e, g, p, node, height)
  PROVE  /\ g \in EngType /\ Listed(g) /\ Sided(g) /\ SameBut(e, g) /\ g.fault = e.fault
         /\ g.nodes = [e.nodes EXCEPT ![p] = node] /\ Used(g) = Used(e) \cup {p}
<1> DEFINE d == [e EXCEPT !.nodes = [@ EXCEPT ![p] = node]]
           O == [i \in Levels |-> On(e, i)]
<1>0. g = AddToList(d, p, height)
  BY DEF NodeAdded
<1>1. /\ d \in EngType /\ d.nodes = [e.nodes EXCEPT ![p] = node]
      /\ d.nexts = e.nexts /\ d.prevs = e.prevs /\ SameBut(e, d) /\ d.fault = e.fault
      /\ d.bestBid = e.bestBid /\ d.bestAsk = e.bestAsk
  BY Ends DEF EngType, SameBut
<1> HIDE DEF d
<1>2. /\ p \in Nodes /\ p # Top /\ p # Bottom
      /\ d.nodes[p] = node /\ \A n \in Nodes : n # p => d.nodes[n] = e.nodes[n]
  BY <1>1, Ends DEF EngType
<1>3. Levelled(d, O)
  <2>1. \A i \in Levels : O[i] = On(e, i)
    OBVIOUS
  <2>2. \A i \in Levels \ {0} : i - 1 \in Levels
    BY LevelNumbers
  <2>3. \A i \in Levels : \A q \in On(e, i) : q # p /\ q \in Nodes /\ e.nodes[q].price = q
    <3>1. \A q \in Used(e) : q # p /\ q \in Nodes /\ e.nodes[q].price = q
      BY Ends DEF Listed, Used
    <3> QED
      BY <3>1 DEF On
  <2> QED
    BY <2>1, <2>2, <2>3, <1>1, <1>2 DEF Levelled, Listed
<1>4. ASSUME NEW i \in Levels
      PROVE  /\ Level(g.nexts[i], g.prevs[i], IF i < height THEN On(e, i) \cup {p} ELSE On(e, i))
             /\ \A q \in Nodes : q # p => (g.nexts[i][q] = NULL <=> e.nexts[i][q] = NULL)
             /\ ~ (i < height) => g.prevs[i][p] = NULL
             /\ g.nexts[i][p] = NULL <=> ~ (i < height)
             /\ \A q \in Nodes : q \notin On(e, i) \cup {p, Top} => g.prevs[i][q] = e.prevs[i][q]
  <2>1. O[i] = On(e, i) /\ p \notin O[i]
    BY DEF On
  <2> HIDE DEF O
  <2>2. AddedOn(d, AddToList(d, p, height), O, p, height, i)
    BY <2>1, <1>1, <1>3, AddLevel
  <2> QED
    BY <2>1, <2>2, <1>0, <1>1 DEF AddedOn
<1>5a. AddedTo(d, g, p)
  BY <1>0, <1>1, AddFields
<1>5. /\ g.nodes = d.nodes /\ SameBut(d, g) /\ g.fault = d.fault
      /\ g.bestAsk = IF node.side = "ask"
                        /\ (d.bestAsk = Top \/ p < d.nodes[d.bestAsk].price)
                     THEN p ELSE d.bestAsk
      /\ g.bestBid = IF node.side = "bid"
                        /\ (d.bestBid = Bottom \/ p > d.nodes[d.bestBid].price)
                     THEN p ELSE d.bestBid
  BY <1>2, <1>5a DEF AddedTo
<1>6. Used(g) = Used(e) \cup {p}
  <2>1. \A q \in 1 .. MaxPrice : q \in Nodes /\ g.nodes[q] = IF q = p THEN node ELSE e.nodes[q]
    BY <1>2, <1>5, Ends
  <2>2. node.price # 0
    BY Ends
  <2> QED
    BY <2>1, <2>2 DEF Used
<1>7. ASSUME NEW i \in Levels
      PROVE  On(g, i) = IF i < height THEN On(e, i) \cup {p} ELSE On(e, i)
  <2>1. \A q \in Used(e) : q # p /\ q \in Nodes
    BY Ends DEF Used
  <2> QED
    BY <2>1, <1>4, <1>6 DEF On
<1>8. g \in EngType
  <2>1. g.nexts \in LinksType /\ g.prevs \in LinksType
    <3>1. \A i \in Levels : g.nexts[i] \in [Nodes -> OrNull(Nodes)]
                            /\ g.prevs[i] \in [Nodes -> OrNull(Nodes)]
      BY <1>4 DEF Level, OrNull
    <3>2. g.nexts = [i \in Levels |-> g.nexts[i]] /\ g.prevs = [i \in Levels |-> g.prevs[i]]
      BY <1>0 DEF AddToList, EngType
    <3> QED
      BY <3>1, <3>2 DEF LinksType
  <2>2. g.bestBid \in Nodes /\ g.bestAsk \in Nodes
    BY <1>1, <1>2, <1>5 DEF EngType
  <2>3. g = [d EXCEPT !.nexts = g.nexts, !.prevs = g.prevs,
                      !.bestAsk = g.bestAsk, !.bestBid = g.bestBid]
    BY <1>5a DEF AddedTo
  <2> QED
    BY <2>1, <2>2, <2>3, <1>1 DEF EngType
<1>9. Listed(g)
  <2>1. \A n \in Nodes : g.nodes[n].price \in {0, n}
    BY <1>1, <1>2, <1>5 DEF Listed
  <2>2. g.nodes[Top].price = 0
    BY <1>1, <1>2, <1>5, Ends DEF Listed
  <2>3. On(g, 0) = Used(g)
    <3>1. On(e, 0) = Used(e) /\ 0 \in Levels /\ 0 < height
      BY LevelNumbers DEF Listed
    <3>2. On(g, 0) = IF 0 < height THEN On(e, 0) \cup {p} ELSE On(e, 0)
      BY <3>1, <1>7
    <3> QED
      BY <3>1, <3>2, <1>6
  <2>4. ASSUME NEW i \in Levels \ {0}
        PROVE  On(g, i) \subseteq On(g, i - 1)
    <3>1. i - 1 \in Levels /\ (i < height => i - 1 < height)
      BY LevelNumbers
    <3>2. On(e, i) \subseteq On(e, i - 1)
      BY DEF Listed
    <3> QED
      BY <3>1, <3>2, <1>7
  <2>5. \A i \in Levels : Level(g.nexts[i], g.prevs[i], On(g, i))
    BY <1>4, <1>7
  <2>6. ASSUME NEW i \in Levels, NEW q \in Used(g) \ On(g, i)
        PROVE  g.prevs[i][q] = NULL
    <3>1. CASE q = p
      BY <3>1, <1>4, <1>7
    <3>2. CASE q # p
      <4>0. q \in 1 .. MaxPrice /\ q \in Used(e)
        BY <3>2, <1>6 DEF Used
      <4>0a. On(g, i) = IF i < height THEN On(e, i) \cup {p} ELSE On(e, i)
        BY <1>7
      <4>1. q \in Used(e) \ On(e, i) /\ q \in Nodes /\ q # Top
        BY <4>0, <4>0a, Ends
      <4>2. e.prevs[i][q] = NULL
        BY <4>1 DEF Listed
      <4>3. g.prevs[i][q] = NULL
        BY <4>1, <4>2, <3>2, <1>4
      <4> QED
        BY <4>3
    <3> QED
      BY <3>1, <3>2
  <2> QED
    BY <2>1, <2>2, <2>3, <2>4, <2>5, <2>6 DEF Listed
<1>10. Sided(g)
  <2>1. /\ e.bestBid \in Used(e) \/ e.bestBid = Bottom
        /\ e.bestAsk \in Used(e) \/ e.bestAsk = Top
        /\ \A q \in Used(e) : q # p /\ q \in Nodes /\ e.nodes[q].price = q /\ q \in Nat
    BY Ends DEF Sided, Listed, Used
  <2>2. /\ e.bestBid \in Nat /\ e.bestAsk \in Nat /\ e.bestBid < e.bestAsk /\ p \in Nat
        /\ p < Top /\ Bottom < p
    BY Ends DEF Sided, EngType
  <2>3. /\ e.bestBid # Bottom => g.nodes[e.bestBid] = e.nodes[e.bestBid]
                                /\ g.nodes[e.bestBid].price = e.bestBid
        /\ e.bestAsk # Top => g.nodes[e.bestAsk] = e.nodes[e.bestAsk]
                                /\ g.nodes[e.bestAsk].price = e.bestAsk
        /\ \A q \in Used(e) : g.nodes[q] = e.nodes[q]
        /\ g.nodes[p] = node
    <3>1. \A q \in Nodes : q # p => g.nodes[q] = e.nodes[q]
      BY <1>2, <1>5
    <3>2. g.nodes[p] = node
      BY <1>2, <1>5
    <3> QED
      BY <2>1, <3>1, <3>2
  <2>4. node.side \in {"bid", "ask"}
    BY DEF NodeType, Sides
  <2>5. CASE node.side = "bid"
    <3>1. /\ g.bestAsk = e.bestAsk
          /\ g.bestBid = IF e.bestBid = Bottom \/ p > e.bestBid THEN p ELSE e.bestBid
      BY <2>3, <2>5, <1>1, <1>5
    <3>2. p < e.bestAsk
      BY <2>5 DEF Uncrossed
    <3>3. \A q \in Used(e) : IF g.nodes[q].side = "bid" THEN q <= g.bestBid ELSE q >= g.bestAsk
      <4>1. \A q \in Used(e) : IF e.nodes[q].side = "bid" THEN q <= e.bestBid ELSE q >= e.bestAsk
        BY DEF Sided
      <4> QED
        BY <4>1, <3>1, <2>1, <2>2, <2>3, Ends
    <3>4. g.bestBid = Bottom \/ (g.bestBid \in Used(g) /\ g.nodes[g.bestBid].side = "bid")
      BY <3>1, <2>3, <2>5, <1>6 DEF Sided
    <3>5. g.bestAsk = Top \/ (g.bestAsk \in Used(g) /\ g.nodes[g.bestAsk].side = "ask")
      <4>1. e.bestAsk = Top \/ (e.bestAsk \in Used(e) /\ e.nodes[e.bestAsk].side = "ask")
        BY DEF Sided
      <4>2. g.bestAsk = e.bestAsk
        BY <3>1
      <4>3. CASE e.bestAsk # Top
        <5>1. e.bestAsk \in Used(g)
          BY <4>1, <4>3, <1>6
        <5>2. g.nodes[e.bestAsk].side = "ask"
          BY <4>1, <4>3, <2>3
        <5> QED
          BY <4>2, <5>1, <5>2
      <4>4. CASE e.bestAsk = Top
        BY <4>2, <4>4
      <4> QED
        BY <4>3, <4>4
    <3>6. g.bestBid < g.bestAsk /\ p <= g.bestBid
      BY <3>1, <3>2, <2>2, Ends
    <3> QED
      BY <3>3, <3>4, <3>5, <3>6, <2>3, <2>5, <1>6 DEF Sided
  <2>6. CASE node.side = "ask"
    <3>1. /\ g.bestBid = e.bestBid
          /\ g.bestAsk = IF e.bestAsk = Top \/ p < e.bestAsk THEN p ELSE e.bestAsk
      BY <2>3, <2>6, <1>1, <1>5
    <3>2. e.bestBid < p
      BY <2>6 DEF Uncrossed
    <3>3. \A q \in Used(e) : IF g.nodes[q].side = "bid" THEN q <= g.bestBid ELSE q >= g.bestAsk
      <4>1. \A q \in Used(e) : IF e.nodes[q].side = "bid" THEN q <= e.bestBid ELSE q >= e.bestAsk
        BY DEF Sided
      <4> QED
        BY <4>1, <3>1, <2>1, <2>2, <2>3, Ends
    <3>4. g.bestBid = Bottom \/ (g.bestBid \in Used(g) /\ g.nodes[g.bestBid].side = "bid")
      <4>1. e.bestBid = Bottom \/ (e.bestBid \in Used(e) /\ e.nodes[e.bestBid].side = "bid")
        BY DEF Sided
      <4>2. g.bestBid = e.bestBid
        BY <3>1
      <4>3. CASE e.bestBid # Bottom
        <5>1. e.bestBid \in Used(g)
          BY <4>1, <4>3, <1>6
        <5>2. g.nodes[e.bestBid].side = "bid"
          BY <4>1, <4>3, <2>3
        <5> QED
          BY <4>2, <5>1, <5>2
      <4>4. CASE e.bestBid = Bottom
        BY <4>2, <4>4
      <4> QED
        BY <4>3, <4>4
    <3>5. g.bestAsk = Top \/ (g.bestAsk \in Used(g) /\ g.nodes[g.bestAsk].side = "ask")
      BY <3>1, <2>3, <2>6, <1>6 DEF Sided
    <3>6. g.bestBid < g.bestAsk /\ p >= g.bestAsk
      BY <3>1, <3>2, <2>2, Ends
    <3> QED
      BY <3>3, <3>4, <3>5, <3>6, <2>3, <2>6, <1>6 DEF Sided
  <2> QED
    BY <2>4, <2>5, <2>6
<1>11. SameBut(e, g)
  BY <1>1, <1>5 DEF SameBut
<1> QED
  BY <1>1, <1>5, <1>6, <1>8, <1>9, <1>10, <1>11

(* What remove_from_list does to one level.                                *)
RemovedOn(e, g, p, i) ==
  /\ Level(g.nexts[i], g.prevs[i], On(e, i) \ {p})
  /\ \A q \in Nodes : q # p => (g.nexts[i][q] = NULL <=> e.nexts[i][q] = NULL)
  /\ \A q \in Nodes : q \notin On(e, i) \cup {Top} => g.prevs[i][q] = e.prevs[i][q]

LEMMA LevelNodes ==
  ASSUME NEW nx, NEW pv, NEW O, Level(nx, pv, O)
  PROVE  /\ \A q \in O \cup {Bottom} : q \in Nodes /\ nx[q] \in O \cup {Top} /\ nx[q] \in Nodes
                                       /\ nx[q] # NULL
         /\ \A q \in O : pv[q] \in O \cup {Bottom} /\ pv[q] \in Nodes /\ pv[q] # NULL
<1>1. O \subseteq 1 .. MaxPrice
  BY DEF Level
<1>2. \A q \in O \cup {Bottom, Top} : q \in Nodes /\ q # NULL
  BY <1>1, Ends
<1> QED
  BY <1>2 DEF Level

LEMMA RemoveLevel ==
  ASSUME NEW e \in EngType, Listed(e), NEW p \in Used(e), NEW i \in Levels
  PROVE  RemovedOn(e, RemoveFromList(e, p), p, i)
<1> DEFINE g == RemoveFromList(e, p)
           nx == e.nexts[i]
           pv == e.prevs[i]
<1>1. /\ g.nexts[i] = IF pv[p] = NULL THEN nx ELSE [nx EXCEPT ![pv[p]] = nx[p]]
      /\ g.prevs[i] = IF nx[p] = NULL THEN pv ELSE [pv EXCEPT ![nx[p]] = pv[p]]
  BY DEF RemoveFromList, EngType
<1> SUFFICES RemovedOn(e, g, p, i)
  OBVIOUS
<1> HIDE DEF g
<1>2. /\ Level(nx, pv, On(e, i))
      /\ nx \in [Nodes -> Nodes \cup {NULL}] /\ pv \in [Nodes -> Nodes \cup {NULL}]
  BY DEF Listed, Level
<1>3. CASE p \in On(e, i)
  <2>1. /\ p \in Nodes /\ nx[p] \in On(e, i) \cup {Top} /\ nx[p] \in Nodes /\ nx[p] # NULL
        /\ pv[p] \in On(e, i) \cup {Bottom} /\ pv[p] \in Nodes /\ pv[p] # NULL
        /\ nx[pv[p]] # NULL
    BY <1>2, <1>3, LevelNodes
  <2> HIDE DEF nx, pv
  <2>2. Level([nx EXCEPT ![pv[p]] = nx[p]], [pv EXCEPT ![nx[p]] = pv[p]], On(e, i) \ {p})
    BY <1>2, <1>3, LevelRemove
  <2>3. /\ g.nexts[i] = [nx EXCEPT ![pv[p]] = nx[p]]
        /\ g.prevs[i] = [pv EXCEPT ![nx[p]] = pv[p]]
    BY <1>1, <2>1
  <2>4. \A q \in Nodes : q # p => (g.nexts[i][q] = NULL <=> nx[q] = NULL)
    BY <2>1, <2>3, <1>2
  <2>5. \A q \in Nodes : q \notin On(e, i) \cup {Top} => g.prevs[i][q] = pv[q]
    BY <2>1, <2>3, <1>2
  <2>6. Level(g.nexts[i], g.prevs[i], On(e, i) \ {p})
    BY <2>2, <2>3
  <2> QED
    BY <2>4, <2>5, <2>6 DEF RemovedOn, nx, pv
<1>4. CASE p \notin On(e, i)
  <2>1. nx[p] = NULL /\ pv[p] = NULL
    BY <1>4 DEF On, Listed
  <2>2. g.nexts[i] = nx /\ g.prevs[i] = pv
    BY <1>1, <2>1
  <2>3. On(e, i) \ {p} = On(e, i)
    BY <1>4
  <2> QED
    BY <2>2, <2>3, <1>2 DEF RemovedOn
<1> QED
  BY <1>3, <1>4

RemovedFrom(e, g, p, bid, ask) ==
  /\ g.nodes = [e.nodes EXCEPT ![p].price = 0] /\ SameBut(e, g)
  /\ bid = IF p = e.bestBid THEN e.prevs[0][p] ELSE e.bestBid
  /\ ask = IF p = e.bestAsk THEN e.nexts[0][p] ELSE e.bestAsk
  /\ g.bestBid = bid /\ g.bestAsk = ask
  /\ g.fault = \/ e.fault
               \/ p = e.bestBid /\ (bid # Bottom) = (g.nodes[bid].price = 0)
               \/ p = e.bestAsk /\ (ask # Top) = (g.nodes[ask].price = 0)
  /\ DOMAIN g.nexts = Levels /\ DOMAIN g.prevs = Levels
  /\ g = [e EXCEPT !.nodes = g.nodes, !.nexts = g.nexts, !.prevs = g.prevs,
                   !.bestBid = g.bestBid, !.bestAsk = g.bestAsk, !.fault = g.fault]

LEMMA RemoveFields ==
  ASSUME NEW e \in EngType, NEW p \in 1 .. MaxPrice
  PROVE  \E bid, ask : RemovedFrom(e, RemoveFromList(e, p), p, bid, ask)
<1> DEFINE g == RemoveFromList(e, p)
           bid == IF p = e.bestBid THEN e.prevs[0][p] ELSE e.bestBid
           ask == IF p = e.bestAsk THEN e.nexts[0][p] ELSE e.bestAsk
<1>1. /\ g.nodes = [e.nodes EXCEPT ![p].price = 0] /\ SameBut(e, g)
      /\ g.bestBid = bid /\ g.bestAsk = ask
      /\ DOMAIN g.nexts = Levels /\ DOMAIN g.prevs = Levels
  BY DEF RemoveFromList, EngType, SameBut
<1>2. g.fault = \/ e.fault
                \/ p = e.bestBid /\ (bid # Bottom) = (g.nodes[bid].price = 0)
                \/ p = e.bestAsk /\ (ask # Top) = (g.nodes[ask].price = 0)
  BY DEF RemoveFromList, EngType
<1>3. g = [e EXCEPT !.nodes = g.nodes, !.nexts = g.nexts, !.prevs = g.prevs,
                    !.bestBid = g.bestBid, !.bestAsk = g.bestAsk, !.fault = g.fault]
  <2>1. \E n, nx, pv, a, b, f : g = [e EXCEPT !.nodes = n, !.nexts = nx, !.prevs = pv,
                                              !.bestBid = b, !.bestAsk = a, !.fault = f]
    BY DEF RemoveFromList
  <2>2. PICK n, nx, pv, a, b, f : g = [e EXCEPT !.nodes = n, !.nexts = nx, !.prevs = pv,
                                                !.bestBid = b, !.bestAsk = a, !.fault = f]
    BY <2>1
  <2> HIDE DEF g
  <2>3. g.nodes = n /\ g.nexts = nx /\ g.prevs = pv /\ g.bestAsk = a /\ g.bestBid = b /\ g.fault = f
    BY <2>2 DEF EngType
  <2> QED
    BY <2>2, <2>3
<1>4. /\ bid = IF p = e.bestBid THEN e.prevs[0][p] ELSE e.bestBid
      /\ ask = IF p = e.bestAsk THEN e.nexts[0][p] ELSE e.bestAsk
  OBVIOUS
<1> HIDE DEF g, bid, ask
<1>5. RemovedFrom(e, g, p, bid, ask)
  BY <1>1, <1>2, <1>3, <1>4 DEF RemovedFrom
<1> QED
  BY <1>5 DEF g

(* The neighbours on the lowest level, which links all nodes in use.       *)
LEMMA Neighbours ==
  ASSUME NEW e \in EngType, Listed(e), NEW p \in Used(e)
  PROVE  /\ e.prevs[0][p] \in Used(e) \cup {Bottom} /\ e.prevs[0][p] < p
         /\ e.nexts[0][p] \in Used(e) \cup {Top} /\ p < e.nexts[0][p]
         /\ \A q \in Used(e) : q <= p \/ e.nexts[0][p] <= q
         /\ \A q \in Used(e) : q <= e.prevs[0][p] \/ p <= q
<1>1. Level(e.nexts[0], e.prevs[0], Used(e))
  BY LevelNumbers DEF Listed
<1>2. /\ e.prevs[0][p] \in Used(e) \cup {Bottom} /\ e.nexts[0][e.prevs[0][p]] = p
      /\ e.nexts[0][p] \in Used(e) \cup {Top} /\ p < e.nexts[0][p]
      /\ \A q \in Used(e) : q <= p \/ e.nexts[0][p] <= q
  BY <1>1 DEF Level
<1>3. /\ e.prevs[0][p] < e.nexts[0][e.prevs[0][p]]
      /\ \A q \in Used(e) : q <= e.prevs[0][p] \/ e.nexts[0][e.prevs[0][p]] <= q
  BY <1>1, <1>2 DEF Level
<1> QED
  BY <1>2, <1>3

(* remove_from_list takes out a node that is in use.                       *)
LEMMA ListRemove ==
  ASSUME NEW e \in EngType, Listed(e), Sided(e), NEW p \in Used(e), NEW g,
         g = RemoveFromList(e, p)
  PROVE  /\ g \in EngType /\ Listed(g) /\ Sided(g) /\ SameBut(e, g) /\ g.fault = e.fault
         /\ g.nodes = [e.nodes EXCEPT ![p].price = 0] /\ Used(g) = Used(e) \ {p}
<1>1. p \in 1 .. MaxPrice /\ p \in Nodes /\ p # Top /\ p # Bottom /\ p \in Nat
  BY Ends DEF Used
<1>2. PICK bid, ask : RemovedFrom(e, g, p, bid, ask)
  BY <1>1, RemoveFields
<1>3. /\ g.nodes = [e.nodes EXCEPT ![p].price = 0] /\ SameBut(e, g)
      /\ bid = IF p = e.bestBid THEN e.prevs[0][p] ELSE e.bestBid
      /\ ask = IF p = e.bestAsk THEN e.nexts[0][p] ELSE e.bestAsk
      /\ g.bestBid = bid /\ g.bestAsk = ask
      /\ g.fault = \/ e.fault
                   \/ p = e.bestBid /\ (bid # Bottom) = (g.nodes[bid].price = 0)
                   \/ p = e.bestAsk /\ (ask # Top) = (g.nodes[ask].price = 0)
      /\ DOMAIN g.nexts = Levels /\ DOMAIN g.prevs = Levels
      /\ g = [e EXCEPT !.nodes = g.nodes, !.nexts = g.nexts, !.prevs = g.prevs,
                       !.bestBid = g.bestBid, !.bestAsk = g.bestAsk, !.fault = g.fault]
  BY <1>2 DEF RemovedFrom
<1>4. ASSUME NEW i \in Levels
      PROVE  /\ Level(g.nexts[i], g.prevs[i], On(e, i) \ {p})
             /\ \A q \in Nodes : q # p => (g.nexts[i][q] = NULL <=> e.nexts[i][q] = NULL)
             /\ \A q \in Nodes : q \notin On(e, i) \cup {Top} => g.prevs[i][q] = e.prevs[i][q]
  <2>1. RemovedOn(e, RemoveFromList(e, p), p, i)
    BY RemoveLevel
  <2> QED
    BY <2>1 DEF RemovedOn
<1>5. /\ g.nodes \in [Nodes -> NodeType]
      /\ g.nodes[p].price = 0 /\ g.nodes[p].side = e.nodes[p].side
      /\ \A n \in Nodes : n # p => g.nodes[n] = e.nodes[n]
  <2>1. e.nodes \in [Nodes -> NodeType]
    BY DEF EngType
  <2>2. e.nodes[p] \in NodeType
    BY <2>1, <1>1
  <2>3. 0 \in 0 .. MaxPrice
    BY Ends
  <2>4. /\ [e.nodes[p] EXCEPT !.price = 0] \in NodeType
        /\ [e.nodes[p] EXCEPT !.price = 0].price = 0
        /\ [e.nodes[p] EXCEPT !.price = 0].side = e.nodes[p].side
    BY <2>2, <2>3 DEF NodeType
  <2>5. g.nodes = [e.nodes EXCEPT ![p] = [e.nodes[p] EXCEPT !.price = 0]]
    BY <1>3
  <2> QED
    BY <2>1, <2>4, <2>5, <1>1
<1>6. Used(g) = Used(e) \ {p}
  <2>1. \A q \in 1 .. MaxPrice : q \in Nodes
    BY Ends
  <2> QED
    BY <2>1, <1>5 DEF Used
<1>7. ASSUME NEW i \in Levels
      PROVE  On(g, i) = On(e, i) \ {p}
  <2>1. \A q \in Used(e) : q \in Nodes
    BY Ends DEF Used
  <2> QED
    BY <2>1, <1>4, <1>6 DEF On
<1>8. /\ e.bestBid \in Used(e) \cup {Bottom} /\ e.bestAsk \in Used(e) \cup {Top}
      /\ e.bestBid \in Nat /\ e.bestAsk \in Nat /\ e.bestBid < e.bestAsk
      /\ \A q \in Used(e) \cup {Bottom, Top} : q \in Nat /\ q \in Nodes
      /\ \A q \in Used(e) : IF e.nodes[q].side = "bid" THEN q <= e.bestBid ELSE q >= e.bestAsk
  BY Ends DEF Sided, EngType, Used
<1>9. /\ bid \in (Used(e) \ {p}) \cup {Bottom} /\ bid <= e.bestBid
      /\ bid # Bottom => e.nodes[bid].side = "bid"
      /\ \A q \in Used(e) \ {p} : e.nodes[q].side = "bid" => q <= bid
  <2>1. CASE p # e.bestBid
    BY <2>1, <1>3, <1>8 DEF Sided
  <2>2. CASE p = e.bestBid
    <3>1. /\ bid \in Used(e) \cup {Bottom} /\ bid < p
          /\ \A q \in Used(e) : q <= bid \/ p <= q
      BY <2>2, <1>3, Neighbours
    <3>2. bid \in Nat
      BY <3>1, <1>8
    <3>3. bid # Bottom => e.nodes[bid].side = "bid"
      <4>1. ASSUME bid # Bottom, e.nodes[bid].side # "bid"
            PROVE  FALSE
        <5>1. bid >= e.bestAsk
          BY <4>1, <3>1, <1>8
        <5> QED
          BY <5>1, <3>1, <3>2, <2>2, <1>1, <1>8
      <4> QED
        BY <4>1
    <3>4. ASSUME NEW q \in Used(e) \ {p}, e.nodes[q].side = "bid"
          PROVE  q <= bid
      <4>1. q <= p /\ q # p /\ q \in Nat
        BY <3>4, <2>2, <1>8
      <4> QED
        BY <4>1, <3>1, <1>1
    <3> QED
      BY <3>1, <3>2, <3>3, <3>4, <2>2, <1>1
  <2> QED
    BY <2>1, <2>2
<1>10. /\ ask \in (Used(e) \ {p}) \cup {Top} /\ ask >= e.bestAsk
       /\ ask # Top => e.nodes[ask].side = "ask"
       /\ \A q \in Used(e) \ {p} : e.nodes[q].side # "bid" => q >= ask
  <2>1. CASE p # e.bestAsk
    BY <2>1, <1>3, <1>8 DEF Sided
  <2>2. CASE p = e.bestAsk
    <3>1. /\ ask \in Used(e) \cup {Top} /\ p < ask
          /\ \A q \in Used(e) : q <= p \/ ask <= q
      BY <2>2, <1>3, Neighbours
    <3>2. ask \in Nat
      BY <3>1, <1>8
    <3>3. ask # Top => e.nodes[ask].side = "ask"
      <4>1. ASSUME ask # Top, e.nodes[ask].side = "bid"
            PROVE  FALSE
        <5>1. ask <= e.bestBid
          BY <4>1, <3>1, <1>8
        <5> QED
          BY <5>1, <3>1, <3>2, <2>2, <1>1, <1>8
      <4>2. ask # Top => e.nodes[ask].side \in {"bid", "ask"}
        BY <3>1, <1>8 DEF EngType, NodeType, Sides
      <4> QED
        BY <4>1, <4>2
    <3>4. ASSUME NEW q \in Used(e) \ {p}, e.nodes[q].side # "bid"
          PROVE  q >= ask
      <4>1. q >= p /\ q # p /\ q \in Nat
        BY <3>4, <2>2, <1>8
      <4> QED
        BY <4>1, <3>1, <1>1
    <3> QED
      BY <3>1, <3>2, <3>3, <3>4, <2>2, <1>1
  <2> QED
    BY <2>1, <2>2
<1>11. /\ bid \in Nat /\ ask \in Nat /\ bid \in Nodes /\ ask \in Nodes /\ bid # p /\ ask # p
       /\ bid < ask
  BY <1>1, <1>8, <1>9, <1>10
<1>12. g.fault = e.fault
  <2>1. \A q \in Used(e) \ {p} : g.nodes[q].price # 0 /\ q # 0
    BY <1>6 DEF Used
  <2>2. g.nodes[Bottom].price = 0 /\ g.nodes[Top].price = 0
    <3>1. e.nodes[Bottom].price = 0 /\ e.nodes[Top].price = 0
      BY Ends DEF Listed
    <3> QED
      BY <3>1, <1>1, <1>5, Ends
  <2>3. (bid # Bottom) # (g.nodes[bid].price = 0)
    BY <2>1, <2>2, <1>9, Ends
  <2>4. (ask # Top) # (g.nodes[ask].price = 0)
    BY <2>1, <2>2, <1>10, Ends DEF Used
  <2>5. e.fault \in BOOLEAN
    BY DEF EngType
  <2> QED
    BY <2>3, <2>4, <2>5, <1>3, Zenon
<1>13. g \in EngType
  <2>1. g.nexts \in LinksType /\ g.prevs \in LinksType
    <3>1. \A i \in Levels : g.nexts[i] \in [Nodes -> OrNull(Nodes)]
                            /\ g.prevs[i] \in [Nodes -> OrNull(Nodes)]
      BY <1>4 DEF Level, OrNull
    <3>2. g.nexts = [i \in Levels |-> g.nexts[i]] /\ g.prevs = [i \in Levels |-> g.prevs[i]]
      BY DEF RemoveFromList, EngType
    <3> QED
      BY <3>1, <3>2 DEF LinksType
  <2> QED
    BY <2>1, <1>3, <1>5, <1>11, <1>12 DEF EngType
<1>14. Listed(g)
  <2>1. \A n \in Nodes : g.nodes[n].price \in {0, n}
    BY <1>5 DEF Listed
  <2>2. g.nodes[Top].price = 0
    BY <1>1, <1>5, Ends DEF Listed
  <2>3. On(g, 0) = Used(g)
    <3>1. On(e, 0) = Used(e) /\ 0 \in Levels
      BY LevelNumbers DEF Listed
    <3> QED
      BY <3>1, <1>6, <1>7
  <2>4. ASSUME NEW i \in Levels \ {0}
        PROVE  On(g, i) \subseteq On(g, i - 1)
    <3>1. i - 1 \in Levels /\ On(e, i) \subseteq On(e, i - 1)
      BY LevelNumbers DEF Listed
    <3> QED
      BY <3>1, <1>7
  <2>5. \A i \in Levels : Level(g.nexts[i], g.prevs[i], On(g, i))
    BY <1>4, <1>7
  <2>6. ASSUME NEW i \in Levels, NEW q \in Used(g) \ On(g, i)
        PROVE  g.prevs[i][q] = NULL
    <3>1. q \in Used(e) \ On(e, i) /\ q \in Nodes /\ q # Top
      <4>1. q \in Used(e) \ {p} /\ q \notin On(e, i) \ {p}
        BY <1>6, <1>7
      <4> QED
        BY <4>1, Ends DEF Used
    <3>2. e.prevs[i][q] = NULL
      BY <3>1 DEF Listed
    <3> QED
      BY <3>1, <3>2, <1>4
  <2> QED
    BY <2>1, <2>2, <2>3, <2>4, <2>5, <2>6 DEF Listed
<1>15. Sided(g)
  <2>1. \A q \in Used(e) \ {p} : g.nodes[q] = e.nodes[q]
    BY <1>5, <1>8
  <2>2. \A q \in Used(g) : IF g.nodes[q].side = "bid" THEN q <= bid ELSE q >= ask
    BY <2>1, <1>6, <1>9, <1>10
  <2>3. bid = Bottom \/ (bid \in Used(g) /\ g.nodes[bid].side = "bid")
    BY <2>1, <1>6, <1>9
  <2>4. ask = Top \/ (ask \in Used(g) /\ g.nodes[ask].side = "ask")
    BY <2>1, <1>6, <1>10
  <2> QED
    BY <2>2, <2>3, <2>4, <1>3, <1>11 DEF Sided
<1> QED
  BY <1>3, <1>6, <1>12, <1>13, <1>14, <1>15

(* What a change of the queues, the orders and the pool leaves alone.      *)
SameList(e, g) ==
  /\ g.nexts = e.nexts /\ g.prevs = e.prevs
  /\ g.bestBid = e.bestBid /\ g.bestAsk = e.bestAsk
  /\ \A n \in Nodes : g.nodes[n].price = e.nodes[n].price /\ g.nodes[n].side = e.nodes[n].side

LEMMA ListKept ==
  ASSUME NEW e \in EngType, NEW g, Listed(e), Sided(e), SameList(e, g)
  PROVE  Listed(g) /\ Sided(g) /\ Used(g) = Used(e)
<1>1. Used(g) = Used(e)
  BY Ends DEF Used, SameList
<1>2. \A i : On(g, i) = On(e, i)
  BY <1>1 DEF On, SameList
<1>3. \A p \in Used(e) : p \in Nodes
  BY Ends DEF Used
<1>4. Listed(g)
  BY <1>1, <1>2, Ends DEF Listed, SameList
<1>5. Sided(g)
  <2>1. \A p \in Used(e) : g.nodes[p].side = e.nodes[p].side
    BY <1>3 DEF SameList
  <2> QED
    BY <2>1, <1>1 DEF Sided, SameList
<1> QED
  BY <1>1, <1>4, <1>5

-----------------------------------------------------------------------------
(* The queue of a price: orders linked by next and prev, oldest first.     *)

AtPrice(os, p) == {s \in Slots : os[s].id # 0 /\ os[s].data.price = p}

Queue(os, A, first, last) ==
  /\ A # {} => first \in A /\ last \in A
  /\ \A s \in A :
       /\ os[s].next = NULL <=> s = last
       /\ os[s].prev = NULL <=> s = first
       /\ os[s].next # NULL =>
            /\ os[s].next \in A /\ os[os[s].next].prev = s
            /\ os[s].id < os[os[s].next].id
            /\ \A r \in A : os[r].id <= os[s].id \/ os[os[s].next].id <= os[r].id
       /\ os[s].prev # NULL => os[s].prev \in A /\ os[os[s].prev].next = s
       /\ os[first].id <= os[s].id /\ os[s].id <= os[last].id

OwnIds(os, A) ==
  /\ \A s \in A : os[s].id \in Nat
  /\ \A r, s \in A : os[r].id = os[s].id => r = s

(* Only what a queue does not use has changed.                             *)
SameQueue(os, qs, A) ==
  \A s \in A : qs[s].id = os[s].id /\ qs[s].next = os[s].next /\ qs[s].prev = os[s].prev

LEMMA QueueKept ==
  ASSUME NEW os, NEW qs, NEW A, NEW first, NEW last, Queue(os, A, first, last),
         SameQueue(os, qs, A)
  PROVE  Queue(qs, A, first, last)
  BY DEF Queue, SameQueue

(* Order s leaves the queue between its neighbours.                        *)
Unlinked(os, qs, A, s) ==
  \A r \in A \ {s} :
    /\ qs[r].id = os[r].id
    /\ qs[r].next = IF r = os[s].prev THEN os[s].next ELSE os[r].next
    /\ qs[r].prev = IF r = os[s].next THEN os[s].prev ELSE os[r].prev

NewEnds(os, s, first, last, f, l) ==
  /\ f = IF os[s].prev = NULL THEN os[s].next ELSE first
  /\ l = IF os[s].next = NULL THEN os[s].prev ELSE last

QueueLeft(os, qs, A, first, last, s, f, l) ==
  /\ Queue(os, A, first, last) /\ OwnIds(os, A) /\ NULL \notin A /\ s \in A
  /\ Unlinked(os, qs, A, s) /\ NewEnds(os, s, first, last, f, l)

LEMMA QueueRemove ==
  ASSUME NEW os, NEW qs, NEW A, NEW first, NEW last, NEW s, NEW f, NEW l,
         QueueLeft(os, qs, A, first, last, s, f, l)
  PROVE  Queue(qs, A \ {s}, f, l) /\ (f = NULL <=> A \ {s} = {})
<1>0. /\ Queue(os, A, first, last) /\ OwnIds(os, A) /\ NULL \notin A /\ s \in A
      /\ Unlinked(os, qs, A, s) /\ NewEnds(os, s, first, last, f, l)
  BY DEF QueueLeft
<1> USE <1>0
<1> DEFINE n == os[s].next
           p == os[s].prev
<1>1. /\ first \in A /\ last \in A
      /\ n = NULL <=> s = last
      /\ p = NULL <=> s = first
  BY DEF Queue
<1>2. /\ n # NULL => n \in A \ {s} /\ os[n].prev = s /\ os[s].id < os[n].id
      /\ p # NULL => p \in A \ {s} /\ os[p].next = s /\ os[p].id < os[s].id
  BY DEF Queue, OwnIds
<1>3. p # NULL /\ n # NULL => p # n
  BY <1>2 DEF OwnIds
<1>4. ASSUME NEW r \in A \ {s}
      PROVE  /\ r # p => os[r].next # s
             /\ r # n => os[r].prev # s
  BY DEF Queue
<1>5. ASSUME NEW r \in A
      PROVE  /\ os[r].id \in Nat /\ os[first].id <= os[r].id /\ os[r].id <= os[last].id
             /\ os[r].next = NULL <=> r = last
             /\ os[r].prev = NULL <=> r = first
             /\ os[r].next # NULL =>
                  /\ os[r].next \in A /\ os[os[r].next].prev = r
                  /\ os[r].id < os[os[r].next].id
                  /\ \A q \in A : os[q].id <= os[r].id \/ os[os[r].next].id <= os[q].id
             /\ os[r].prev # NULL => os[r].prev \in A /\ os[os[r].prev].next = r
  BY DEF Queue, OwnIds
<1>6. ASSUME NEW r \in A \ {s}
      PROVE  /\ qs[r].id = os[r].id
             /\ qs[r].next = IF r = p THEN n ELSE os[r].next
             /\ qs[r].prev = IF r = n THEN p ELSE os[r].prev
  BY DEF Unlinked
<1>9. /\ f = IF p = NULL THEN n ELSE first
      /\ l = IF n = NULL THEN p ELSE last
  BY DEF n, p, NewEnds
<1> HIDE DEF n, p
<1>7. ASSUME A \ {s} # {}
      PROVE  f \in A \ {s} /\ l \in A \ {s}
  <2>1. PICK r \in A \ {s} : TRUE
    BY <1>7
  <2>2. ~ (p = NULL /\ n = NULL)
    <3>1. os[first].id <= os[r].id /\ os[r].id <= os[last].id /\ os[r].id \in Nat
          /\ os[s].id \in Nat /\ os[r].id # os[s].id
      BY <2>1, <1>5 DEF OwnIds
    <3>2. p = NULL /\ n = NULL => s = first /\ s = last
      BY <1>1
    <3> QED
      BY <3>1, <3>2
  <2>3. p = NULL => n \in A \ {s}
    BY <2>2, <1>2
  <2>4. n = NULL => p \in A \ {s}
    BY <2>2, <1>2
  <2>5. p # NULL => f \in A \ {s}
    BY <1>1, <1>9
  <2>6. n # NULL => l \in A \ {s}
    BY <1>1, <1>9
  <2> QED
    BY <2>3, <2>4, <2>5, <2>6, <1>9
<1>8. A \ {s} = {} => f = NULL
  <2>1. A \ {s} = {} => p = NULL /\ n = NULL
    BY <1>2
  <2> QED
    BY <2>1, <1>9
<1>10. ASSUME NEW r \in A \ {s}
       PROVE  /\ qs[r].next = NULL <=> r = l
              /\ qs[r].prev = NULL <=> r = f
  <2>1. qs[r].next = NULL <=> r = l
    <3>1. CASE r = p
      <4>1. p # NULL /\ os[p].next = s /\ s # NULL /\ p # last
        BY <3>1, <1>2, <1>5
      <4> QED
        BY <4>1, <3>1, <1>6, <1>9
    <3>2. CASE r # p
      BY <3>2, <1>1, <1>5, <1>6, <1>9
    <3> QED
      BY <3>1, <3>2
  <2>2. qs[r].prev = NULL <=> r = f
    <3>1. CASE r = n
      <4>1. n # NULL /\ os[n].prev = s /\ s # NULL /\ n # first
        BY <3>1, <1>2, <1>5
      <4> QED
        BY <4>1, <3>1, <1>6, <1>9
    <3>2. CASE r # n
      BY <3>2, <1>1, <1>5, <1>6, <1>9
    <3> QED
      BY <3>1, <3>2
  <2> QED
    BY <2>1, <2>2
<1>11. ASSUME NEW r \in A \ {s}, qs[r].next # NULL
       PROVE  /\ qs[r].next \in A \ {s} /\ qs[qs[r].next].prev = r
              /\ qs[r].id < qs[qs[r].next].id
              /\ \A q \in A \ {s} : qs[q].id <= qs[r].id \/ qs[qs[r].next].id <= qs[q].id
  <2>1. CASE r = p
    <3>1. qs[r].next = n /\ n # NULL /\ p # NULL
      BY <2>1, <1>11, <1>6
    <3>2. n \in A \ {s} /\ qs[n].prev = r /\ os[p].id < os[s].id /\ os[s].id < os[n].id
      BY <3>1, <2>1, <1>2, <1>6
    <3>3. qs[r].id = os[p].id /\ qs[n].id = os[n].id /\ os[p].id \in Nat /\ os[s].id \in Nat
          /\ os[n].id \in Nat
      BY <3>2, <2>1, <1>5, <1>6
    <3>4. ASSUME NEW q \in A \ {s}
          PROVE  qs[q].id <= os[p].id \/ os[n].id <= qs[q].id
      <4>1. qs[q].id = os[q].id /\ os[q].id \in Nat /\ os[q].id # os[s].id
        BY <1>5, <1>6 DEF OwnIds
      <4>2. os[q].id <= os[p].id \/ os[s].id <= os[q].id
        BY <3>1, <1>2, <1>5
      <4>3. os[q].id <= os[s].id \/ os[n].id <= os[q].id
        BY <3>1, <1>5 DEF n
      <4> QED
        BY <4>1, <4>2, <4>3, <3>3
    <3> QED
      BY <3>1, <3>2, <3>3, <3>4
  <2>2. CASE r # p
    <3>1. qs[r].next = os[r].next /\ os[r].next \in A \ {s} /\ os[os[r].next].prev = r
      BY <2>2, <1>11, <1>4, <1>5, <1>6
    <3>2. os[r].next # n
      BY <3>1, <1>2
    <3>3. qs[os[r].next].prev = r /\ qs[os[r].next].id = os[os[r].next].id
      BY <3>1, <3>2, <1>6
    <3> QED
      BY <3>1, <3>3, <2>2, <1>11, <1>5, <1>6
  <2> QED
    BY <2>1, <2>2
<1>12. ASSUME NEW r \in A \ {s}, qs[r].prev # NULL
       PROVE  qs[r].prev \in A \ {s} /\ qs[qs[r].prev].next = r
  <2>1. CASE r = n
    <3>1. qs[r].prev = p /\ n # NULL /\ p # NULL
      BY <2>1, <1>12, <1>6
    <3> QED
      BY <3>1, <2>1, <1>2, <1>6
  <2>2. CASE r # n
    <3>1. qs[r].prev = os[r].prev /\ os[r].prev \in A \ {s} /\ os[os[r].prev].next = r
      BY <2>2, <1>12, <1>4, <1>5, <1>6
    <3>2. os[r].prev # p
      BY <3>1, <1>2
    <3> QED
      BY <3>1, <3>2, <1>6
  <2> QED
    BY <2>1, <2>2
<1>13. ASSUME NEW r \in A \ {s}
       PROVE  qs[f].id <= qs[r].id /\ qs[r].id <= qs[l].id
  <2>1. f \in A \ {s} /\ l \in A \ {s}
    BY <1>7
  <2>2. qs[f].id = os[f].id /\ qs[l].id = os[l].id /\ qs[r].id = os[r].id
        /\ os[f].id \in Nat /\ os[l].id \in Nat /\ os[r].id \in Nat /\ os[s].id \in Nat
    BY <2>1, <1>5, <1>6
  <2>3. os[f].id <= os[r].id
    <3>1. CASE p = NULL
      <4>1. f = n /\ n # NULL /\ s = first
        BY <3>1, <2>1, <1>1, <1>9
      <4>2. os[s].id <= os[r].id /\ os[r].id # os[s].id
        BY <4>1, <1>5 DEF OwnIds
      <4>3. os[r].id <= os[s].id \/ os[n].id <= os[r].id
        BY <4>1, <1>5 DEF n
      <4> QED
        BY <4>1, <4>2, <4>3, <2>2
    <3>2. CASE p # NULL
      BY <3>2, <1>5, <1>9
    <3> QED
      BY <3>1, <3>2
  <2>4. os[r].id <= os[l].id
    <3>1. CASE n = NULL
      <4>0. l = p /\ s = last
        BY <3>1, <1>1, <1>9
      <4>1. l = p /\ p # NULL /\ s = last
        BY <4>0, <2>1
      <4>2. os[r].id <= os[s].id /\ os[r].id # os[s].id
        BY <4>1, <1>5 DEF OwnIds
      <4>3. os[r].id <= os[p].id \/ os[s].id <= os[r].id
        BY <4>1, <1>2, <1>5
      <4> QED
        BY <4>1, <4>2, <4>3, <2>2
    <3>2. CASE n # NULL
      BY <3>2, <1>5, <1>9
    <3> QED
      BY <3>1, <3>2
  <2> QED
    BY <2>2, <2>3, <2>4
<1>14. Queue(qs, A \ {s}, f, l)
  BY <1>7, <1>10, <1>11, <1>12, <1>13 DEF Queue
<1> QED
  BY <1>7, <1>8, <1>14

(* Order s is appended to the queue.                                       *)
Appended(os, qs, A, last, s) ==
  /\ \A r \in A : /\ qs[r].id = os[r].id /\ qs[r].prev = os[r].prev
                  /\ qs[r].next = IF r = last THEN s ELSE os[r].next
                  /\ os[r].id < qs[s].id
  /\ qs[s].next = NULL /\ qs[s].prev = IF A = {} THEN NULL ELSE last

QueueJoined(os, qs, A, first, last, s) ==
  /\ Queue(os, A, first, last) /\ NULL \notin A /\ s # NULL /\ s \notin A
  /\ Appended(os, qs, A, last, s) /\ qs[s].id \in Nat /\ \A r \in A : os[r].id \in Nat

LEMMA QueueAppend ==
  ASSUME NEW os, NEW qs, NEW A, NEW first, NEW last, NEW s,
         QueueJoined(os, qs, A, first, last, s)
  PROVE  Queue(qs, A \cup {s}, IF A = {} THEN s ELSE first, s)
<1> DEFINE f == IF A = {} THEN s ELSE first
<1>0. /\ Queue(os, A, first, last) /\ NULL \notin A /\ s # NULL /\ s \notin A
      /\ Appended(os, qs, A, last, s) /\ qs[s].id \in Nat /\ \A r \in A : os[r].id \in Nat
  BY DEF QueueJoined
<1> USE <1>0
<1>1. ASSUME NEW r \in A
      PROVE  /\ os[r].id \in Nat /\ os[first].id <= os[r].id /\ os[r].id <= os[last].id
             /\ first \in A /\ last \in A
             /\ os[r].next = NULL <=> r = last
             /\ os[r].prev = NULL <=> r = first
             /\ os[r].next # NULL =>
                  /\ os[r].next \in A /\ os[os[r].next].prev = r
                  /\ os[r].id < os[os[r].next].id
                  /\ \A q \in A : os[q].id <= os[r].id \/ os[os[r].next].id <= os[q].id
             /\ os[r].prev # NULL => os[r].prev \in A /\ os[os[r].prev].next = r
  BY DEF Queue
<1>2. ASSUME NEW r \in A
      PROVE  /\ qs[r].id = os[r].id /\ qs[r].prev = os[r].prev
             /\ qs[r].next = IF r = last THEN s ELSE os[r].next
             /\ os[r].id < qs[s].id
  BY DEF Appended
<1>3. qs[s].next = NULL /\ qs[s].prev = IF A = {} THEN NULL ELSE last
  BY DEF Appended
<1>4. f \in A \cup {s} /\ (A # {} => f = first /\ f \in A /\ last \in A)
  BY DEF Queue
<1> HIDE DEF f
<1>5. ASSUME NEW r \in A \cup {s}
      PROVE  /\ qs[r].next = NULL <=> r = s
             /\ qs[r].prev = NULL <=> r = f
  <2>1. CASE r = s
    <3>1. s = f <=> A = {}
      BY <1>4 DEF f
    <3> QED
      BY <2>1, <3>1, <1>3, <1>4
  <2>2. CASE r \in A
    BY <2>2, <1>1, <1>2, <1>4
  <2> QED
    BY <2>1, <2>2
<1>6. ASSUME NEW r \in A \cup {s}, qs[r].next # NULL
      PROVE  /\ qs[r].next \in A \cup {s} /\ qs[qs[r].next].prev = r
             /\ qs[r].id < qs[qs[r].next].id
             /\ \A q \in A \cup {s} : qs[q].id <= qs[r].id \/ qs[qs[r].next].id <= qs[q].id
  <2>1. r \in A
    BY <1>6, <1>3
  <2>2. CASE r = last
    <3>1. qs[r].next = s /\ qs[s].prev = r /\ qs[r].id < qs[s].id
      BY <2>1, <2>2, <1>2, <1>3
    <3>2. \A q \in A : qs[q].id <= qs[r].id
      BY <2>1, <2>2, <1>1, <1>2
    <3> QED
      BY <3>1, <3>2
  <2>3. CASE r # last
    <3>1. qs[r].next = os[r].next /\ os[r].next \in A /\ os[os[r].next].prev = r
      BY <2>1, <2>3, <1>1, <1>2
    <3>2. qs[os[r].next].id = os[os[r].next].id /\ qs[os[r].next].prev = r
          /\ os[os[r].next].id < qs[s].id /\ os[os[r].next].id \in Nat
      BY <3>1, <1>1, <1>2
    <3>3. /\ os[r].id < os[os[r].next].id /\ qs[r].id = os[r].id
          /\ \A q \in A : os[q].id <= os[r].id \/ os[os[r].next].id <= os[q].id
      BY <2>1, <2>3, <1>1, <1>2
    <3>4. \A q \in A \cup {s} : qs[q].id <= qs[r].id \/ os[os[r].next].id <= qs[q].id
      BY <3>2, <3>3, <1>2
    <3> QED
      BY <3>1, <3>2, <3>3, <3>4
  <2> QED
    BY <2>2, <2>3
<1>7. ASSUME NEW r \in A \cup {s}, qs[r].prev # NULL
      PROVE  qs[r].prev \in A \cup {s} /\ qs[qs[r].prev].next = r
  <2>1. CASE r = s
    BY <2>1, <1>7, <1>2, <1>3, <1>4
  <2>2. CASE r \in A
    <3>1. qs[r].prev = os[r].prev /\ os[r].prev \in A /\ os[os[r].prev].next = r
      BY <2>2, <1>7, <1>1, <1>2
    <3>2. os[r].prev # last
      <4>1. os[last].next = NULL
        BY <2>2, <1>1
      <4> QED
        BY <4>1, <3>1, <2>2
    <3> QED
      BY <3>1, <3>2, <1>2
  <2> QED
    BY <2>1, <2>2
<1>8. ASSUME NEW r \in A \cup {s}
      PROVE  qs[f].id <= qs[r].id /\ qs[r].id <= qs[s].id
  <2>1. CASE A = {}
    BY <2>1 DEF f
  <2>2. CASE A # {}
    <3>1. f = first /\ f \in A /\ qs[f].id = os[f].id /\ os[f].id < qs[s].id /\ os[f].id \in Nat
      BY <2>2, <1>1, <1>2, <1>4
    <3>2. CASE r = s
      BY <3>1, <3>2
    <3>3. CASE r \in A
      BY <3>1, <3>3, <1>1, <1>2
    <3> QED
      BY <3>2, <3>3
  <2> QED
    BY <2>1, <2>2
<1>9. Queue(qs, A \cup {s}, f, s)
  BY <1>4, <1>5, <1>6, <1>7, <1>8 DEF Queue
<1> QED
  BY <1>9 DEF f

-----------------------------------------------------------------------------
(* Links through next_in_bin.                                              *)

ChainStep(e, first, c, n) ==
  c[n] = IF n = 0 THEN first
         ELSE IF c[n - 1] = NULL THEN NULL ELSE e.orders[c[n - 1]].nextInBin

LEMMA ChainValues ==
  ASSUME NEW e, NEW first, NEW c,
         \A n \in 0 .. MaxLive : ChainStep(e, first, c, n)
  PROVE  \A n \in 0 .. MaxLive : Chain(e, first)[n] = c[n]
<1> DEFINE Rec(d) == [n \in 0 .. MaxLive |->
             IF n = 0 THEN first
             ELSE IF d[n - 1] = NULL THEN NULL ELSE e.orders[d[n - 1]].nextInBin]
           b == [n \in 0 .. MaxLive |-> c[n]]
           w == CHOOSE d : d = Rec(d)
           Bad == {n \in 0 .. MaxLive : w[n] # c[n]}
<1>1. MaxLive \in Nat
  BY EngineBounds
<1>2. b = Rec(b)
  <2>1. ASSUME NEW n \in 0 .. MaxLive
        PROVE  b[n] = IF n = 0 THEN first
                      ELSE IF b[n - 1] = NULL THEN NULL ELSE e.orders[b[n - 1]].nextInBin
    <3>1. b[n] = c[n] /\ (n # 0 => b[n - 1] = c[n - 1])
      BY <1>1
    <3> QED
      BY <3>1 DEF ChainStep
  <2>2. b = [n \in 0 .. MaxLive |-> b[n]]
    OBVIOUS
  <2> HIDE DEF b
  <2> QED
    BY <2>1, <2>2
<1>3. w = Rec(w)
  <2> HIDE DEF b, Rec
  <2> QED
    BY <1>2
<1>4. Chain(e, first) = [n \in 0 .. MaxLive |-> w[n]]
  BY DEF Chain
<1> HIDE DEF w
<1>5. ASSUME NEW n \in 0 .. MaxLive
      PROVE  ChainStep(e, first, w, n)
  BY <1>3 DEF ChainStep
<1>6. Bad = {}
  <2> SUFFICES ASSUME Bad # {}
               PROVE  FALSE
    OBVIOUS
  <2>1. PICK n \in Bad : \A m \in Bad : n <= m
    <3>1. Bad \in SUBSET Nat
      OBVIOUS
    <3> HIDE DEF Bad
    <3> QED
      BY <3>1, LeastNatural
  <2>2. n \in 0 .. MaxLive /\ w[n] # c[n]
    OBVIOUS
  <2>3. n # 0
    BY <2>2, <1>5 DEF ChainStep
  <2>4. n - 1 \in 0 .. MaxLive /\ ~ (n <= n - 1)
    BY <2>2, <2>3, <1>1
  <2>5. w[n - 1] = c[n - 1]
    BY <2>1, <2>4
  <2> QED
    BY <2>2, <2>3, <2>5, <1>5 DEF ChainStep
<1> QED
  BY <1>4, <1>6

LEMMA ModBins ==
  ASSUME NEW id \in Nat
  PROVE  id % MapSize \in Bins
  BY EngineBounds DEF Bins

-----------------------------------------------------------------------------
(* The map of ids.                                                         *)

Rest(e) == {s \in Slots : e.orders[s].id # 0}

BinOf(e, s) == e.orders[s].id % MapSize

(* A bin holds the one order that hashes to it, or nothing.                *)
BinHolds(e, h) ==
  IF e.idMap[h].first = NULL
  THEN e.idMap[h].last = NULL /\ \A s \in Rest(e) : BinOf(e, s) # h
  ELSE /\ e.idMap[h].first \in Rest(e) /\ e.idMap[h].last = e.idMap[h].first
       /\ e.orders[e.idMap[h].first].nextInBin = NULL
       /\ \A s \in Rest(e) : BinOf(e, s) = h <=> s = e.idMap[h].first

Mapped(e) == \A h \in Bins : BinHolds(e, h)

LEMMA SlotFacts ==
  /\ MaxLive \in Nat /\ MaxLive >= 1 /\ NULL \notin Slots /\ Slots = 0 .. MaxLive - 1
  /\ 0 \in 0 .. MaxLive /\ 0 \in Slots /\ MaxLive - 1 \in Slots
  BY EngineBounds, NullAssumption DEF Slots

(* What following a bin's links gives.                                     *)
LEMMA BinChain ==
  ASSUME NEW e \in EngType, Mapped(e), NEW h \in Bins
  PROVE  \A n \in 0 .. MaxLive :
           Chain(e, e.idMap[h].first)[n] = IF n = 0 THEN e.idMap[h].first ELSE NULL
<1> DEFINE first == e.idMap[h].first
           c == [n \in 0 .. MaxLive |-> IF n = 0 THEN first ELSE NULL]
<1>1. first # NULL => e.orders[first].nextInBin = NULL
  BY DEF Mapped, BinHolds
<1>2. \A n \in 0 .. MaxLive : n # 0 => n - 1 \in 0 .. MaxLive
  BY SlotFacts
<1>3. \A n \in 0 .. MaxLive : c[n] = IF n = 0 THEN first ELSE NULL
  OBVIOUS
<1> HIDE DEF c, first
<1>4. \A n \in 0 .. MaxLive : ChainStep(e, first, c, n)
  BY <1>1, <1>2, <1>3 DEF ChainStep
<1>5. \A n \in 0 .. MaxLive : Chain(e, first)[n] = c[n]
  BY <1>4, ChainValues
<1> QED
  BY <1>3, <1>5 DEF first

(* What free_order changes when it finds s, and the free list has a last.  *)
Freed(e, f, s) ==
  /\ f \in EngType
  /\ f.nodes = e.nodes /\ f.nexts = e.nexts /\ f.prevs = e.prevs
  /\ f.bestBid = e.bestBid /\ f.bestAsk = e.bestAsk
  /\ f.nextId = e.nextId /\ f.fault = e.fault
  /\ \A r \in Slots :
       /\ f.orders[r].id = e.orders[r].id /\ f.orders[r].data = e.orders[r].data
       /\ f.orders[r].next = e.orders[r].next /\ f.orders[r].prev = e.orders[r].prev
       /\ f.orders[r].nextInBin = IF r = e.free.last THEN s
                                  ELSE IF r = s THEN NULL ELSE e.orders[r].nextInBin
  /\ f.free.first = e.free.first /\ f.free.last = s
  /\ f.idMap[BinOf(e, s)].first = NULL /\ f.idMap[BinOf(e, s)].last = NULL
  /\ \A h \in Bins : h # BinOf(e, s) => f.idMap[h] = e.idMap[h]

LEMMA FreeOrderFinds ==
  ASSUME NEW e \in EngType, Mapped(e), NEW s \in Rest(e)
  PROVE  /\ FreeOrder(e, e.orders[s].id).slot = s
         /\ e.free.last = NULL => FreeOrder(e, e.orders[s].id).eng = [e EXCEPT !.fault = TRUE]
         /\ e.free.last # NULL => Freed(e, FreeOrder(e, e.orders[s].id).eng, s)
<1> DEFINE id == e.orders[s].id
           h == id % MapSize
           chain == Chain(e, e.idMap[h].first)
           Found == {n \in 0 .. MaxLive : chain[n] # NULL /\ e.orders[chain[n]].id = id}
           k == CHOOSE n \in Found : \A m \in Found : n <= m
<1>1. s \in Slots /\ s # NULL /\ id \in Nat /\ h \in Bins
  BY ModBins, SlotFacts DEF EngType, OrderType, Rest
<1>2. e.idMap[h].first = s /\ e.idMap[h].last = s /\ e.orders[s].nextInBin = NULL
  <2>1. BinHolds(e, h)
    BY <1>1 DEF Mapped
  <2> QED
    BY <2>1 DEF BinHolds, BinOf
<1>3. \A n \in 0 .. MaxLive : chain[n] = IF n = 0 THEN s ELSE NULL
  BY <1>1, <1>2, BinChain
<1> HIDE DEF chain
<1>4. Found = {0}
  BY <1>1, <1>3, SlotFacts
<1> HIDE DEF Found
<1>5. k = 0
  BY <1>4
<1>6. chain[0] = s
  BY <1>3, SlotFacts
<1> HIDE DEF k, h
<1> DEFINE t == chain[k]
           rest == e.orders[t].nextInBin
           empty == [first |-> rest, last |-> IF rest = NULL THEN NULL ELSE e.idMap[h].last]
           bins == [e.idMap EXCEPT ![h] = empty]
           released == [e.orders EXCEPT ![t].nextInBin = NULL]
           os == [released EXCEPT ![e.free.last].nextInBin = t]
           g == [e EXCEPT !.idMap = bins, !.orders = os, !.free.last = t]
<1>8. FreeOrder(e, id) =
        IF e.free.last = NULL THEN [slot |-> t, eng |-> [e EXCEPT !.fault = TRUE]]
                              ELSE [slot |-> t, eng |-> g]
  <2> DEFINE unlinked == IF k = 0 THEN e.orders
                         ELSE [e.orders EXCEPT ![chain[k - 1]].nextInBin = rest]
             bin == IF k > 0 THEN e.idMap[h] ELSE empty
             was == [unlinked EXCEPT ![t].nextInBin = NULL]
             gen == [e EXCEPT !.idMap = [@ EXCEPT ![h] = bin],
                              !.orders = [was EXCEPT ![e.free.last].nextInBin = t],
                              !.free.last = t]
  <2>1. FreeOrder(e, id) =
          IF Found = {} THEN [slot |-> NULL, eng |-> e]
          ELSE IF e.free.last = NULL
          THEN [slot |-> t, eng |-> [e EXCEPT !.fault = TRUE]]
          ELSE [slot |-> t, eng |-> gen]
    BY DEF FreeOrder, h, chain, Found, k
  <2>2. k = 0 /\ Found # {} /\ ~ (k > 0)
    BY <1>4, <1>5
  <2>3. unlinked = e.orders /\ bin = empty
    BY <2>2
  <2> HIDE DEF unlinked, bin, empty, t
  <2>4. gen = g
    BY <2>3
  <2> HIDE DEF gen, g, t
  <2> QED
    BY <2>1, <2>2, <2>4
<1>9. t = s /\ rest = NULL
  BY <1>2, <1>5, <1>6
<1> HIDE DEF t, rest
<1>10. bins \in [Bins -> BinType] /\ bins[h].first = NULL /\ bins[h].last = NULL
       /\ \A j \in Bins : j # h => bins[j] = e.idMap[j]
  BY <1>1, <1>9 DEF EngType, BinType, OrNull
<1>11. ASSUME e.free.last # NULL
       PROVE  /\ os \in [Slots -> OrderType]
              /\ \A r \in Slots :
                   /\ os[r].id = e.orders[r].id /\ os[r].data = e.orders[r].data
                   /\ os[r].next = e.orders[r].next /\ os[r].prev = e.orders[r].prev
                   /\ os[r].nextInBin = IF r = e.free.last THEN s
                                        ELSE IF r = s THEN NULL ELSE e.orders[r].nextInBin
  <2>1. e.free.last \in Slots /\ e.orders \in [Slots -> OrderType]
    BY <1>11 DEF EngType, BinType, OrNull
  <2>2. /\ released \in [Slots -> OrderType]
        /\ \A r \in Slots :
             /\ released[r].id = e.orders[r].id /\ released[r].data = e.orders[r].data
             /\ released[r].next = e.orders[r].next /\ released[r].prev = e.orders[r].prev
             /\ released[r].nextInBin = IF r = s THEN NULL ELSE e.orders[r].nextInBin
    BY <2>1, <1>1, <1>9 DEF OrderType, OrNull
  <2> HIDE DEF released
  <2> QED
    BY <2>1, <2>2, <1>1, <1>9 DEF OrderType, OrNull
<1> HIDE DEF bins, os
<1>12. ASSUME e.free.last # NULL
       PROVE  Freed(e, g, s)
  <2>1. /\ g.idMap = bins /\ g.orders = os /\ g.free.last = s /\ g.free.first = e.free.first
        /\ g.nodes = e.nodes /\ g.nexts = e.nexts /\ g.prevs = e.prevs
        /\ g.bestBid = e.bestBid /\ g.bestAsk = e.bestAsk
        /\ g.nextId = e.nextId /\ g.fault = e.fault
    BY <1>9 DEF EngType, BinType
  <2>2. g \in EngType
    BY <1>1, <1>9, <1>10, <1>11, <1>12 DEF EngType, BinType, OrNull
  <2>3. BinOf(e, s) = h
    BY DEF BinOf, h
  <2> HIDE DEF g
  <2> QED
    BY <2>1, <2>2, <2>3, <1>10, <1>11, <1>12 DEF Freed
<1> HIDE DEF g
<1> QED
  BY <1>8, <1>9, <1>12

LEMMA FreeOrderMisses ==
  ASSUME NEW e \in EngType, Mapped(e), NEW id \in Nat, id # 0,
         \A s \in Rest(e) : e.orders[s].id # id
  PROVE  FreeOrder(e, id) = [slot |-> NULL, eng |-> e]
<1> DEFINE h == id % MapSize
           chain == Chain(e, e.idMap[h].first)
           Found == {n \in 0 .. MaxLive : chain[n] # NULL /\ e.orders[chain[n]].id = id}
<1>1. h \in Bins
  BY ModBins
<1>2. \A n \in 0 .. MaxLive : chain[n] = IF n = 0 THEN e.idMap[h].first ELSE NULL
  BY <1>1, BinChain
<1>3. e.idMap[h].first = NULL \/ e.idMap[h].first \in Rest(e)
  BY <1>1 DEF Mapped, BinHolds
<1> HIDE DEF chain
<1>4. Found = {}
  BY <1>2, <1>3
<1> QED
  BY <1>4 DEF FreeOrder, h, chain, Found

-----------------------------------------------------------------------------
(* An order leaves its queue.                                              *)

(* What the first half of remove_order changes.                            *)
Unqueued(e, u, s) ==
  /\ u \in EngType
  /\ u.nexts = e.nexts /\ u.prevs = e.prevs
  /\ u.bestBid = e.bestBid /\ u.bestAsk = e.bestAsk
  /\ u.nextId = e.nextId /\ u.free = e.free /\ u.idMap = e.idMap
  /\ u.fault = (e.fault \/ e.nodes[e.orders[s].data.price].price # e.orders[s].data.price)
  /\ \A r \in Slots :
       /\ u.orders[r].id = IF r = s THEN 0 ELSE e.orders[r].id
       /\ u.orders[r].data = e.orders[r].data
       /\ u.orders[r].nextInBin = e.orders[r].nextInBin
       /\ u.orders[r].next = IF r = e.orders[s].prev THEN e.orders[s].next
                                                     ELSE e.orders[r].next
       /\ u.orders[r].prev = IF r = e.orders[s].next THEN e.orders[s].prev
                                                     ELSE e.orders[r].prev
  /\ \A n \in Nodes :
       /\ u.nodes[n].price = e.nodes[n].price /\ u.nodes[n].side = e.nodes[n].side
       /\ n # e.orders[s].data.price => u.nodes[n] = e.nodes[n]
       /\ n = e.orders[s].data.price =>
            /\ u.nodes[n].first = IF e.orders[s].prev = NULL THEN e.orders[s].next
                                                            ELSE e.nodes[n].first
            /\ u.nodes[n].last = IF e.orders[s].next = NULL THEN e.orders[s].prev
                                                           ELSE e.nodes[n].last

LEMMA UnqueueFields ==
  ASSUME NEW e \in EngType, NEW s \in Slots
  PROVE  Unqueued(e, Unqueue(e, s), s)
<1> DEFINE o == e.orders[s]
           p == o.data.price
           named == [e.orders EXCEPT ![s].id = 0]
           forward == IF o.next = NULL THEN named
                      ELSE [named EXCEPT ![o.next].prev = o.prev]
           both == IF o.prev = NULL THEN forward
                   ELSE [forward EXCEPT ![o.prev].next = o.next]
           node == [e.nodes[p] EXCEPT !.last = IF o.next = NULL THEN o.prev ELSE @,
                                      !.first = IF o.prev = NULL THEN o.next ELSE @]
           u == [e EXCEPT !.orders = both, !.nodes = [@ EXCEPT ![p] = node],
                          !.fault = @ \/ e.nodes[p].price # p]
<1>1. Unqueue(e, s) = u
  BY DEF Unqueue
<1>2. /\ e.orders \in [Slots -> OrderType] /\ o \in OrderType
      /\ o.next \in Slots \cup {NULL} /\ o.prev \in Slots \cup {NULL}
      /\ o.data \in Order /\ p \in 1 .. MaxPrice /\ p \in Nodes
      /\ e.nodes \in [Nodes -> NodeType] /\ e.nodes[p] \in NodeType
  <2>1. e.orders \in [Slots -> OrderType] /\ o \in OrderType /\ e.nodes \in [Nodes -> NodeType]
    BY DEF EngType
  <2>2. o.next \in Slots \cup {NULL} /\ o.prev \in Slots \cup {NULL} /\ o.data \in Order
    BY <2>1 DEF OrderType, OrNull
  <2>3. p \in 1 .. MaxPrice
    BY <2>2 DEF Order
  <2> QED
    BY <2>1, <2>2, <2>3, Ends
<1>3. 0 \in 0 .. MaxId
  BY EngineBounds
<1> HIDE DEF o, p
<1>4. /\ named \in [Slots -> OrderType]
      /\ \A r \in Slots :
           /\ named[r].id = IF r = s THEN 0 ELSE e.orders[r].id
           /\ named[r].data = e.orders[r].data /\ named[r].nextInBin = e.orders[r].nextInBin
           /\ named[r].next = e.orders[r].next /\ named[r].prev = e.orders[r].prev
  BY <1>2, <1>3 DEF OrderType
<1> HIDE DEF named
<1>5. /\ forward \in [Slots -> OrderType]
      /\ \A r \in Slots :
           /\ forward[r].id = named[r].id
           /\ forward[r].data = e.orders[r].data /\ forward[r].nextInBin = e.orders[r].nextInBin
           /\ forward[r].next = e.orders[r].next
           /\ forward[r].prev = IF r = o.next THEN o.prev ELSE e.orders[r].prev
  <2>1. CASE o.next = NULL
    BY <2>1, <1>4, SlotFacts
  <2>2. CASE o.next # NULL
    <3>1. /\ o.next \in Slots /\ o.prev \in OrNull(Slots)
          /\ forward = [named EXCEPT ![o.next].prev = o.prev]
      BY <2>2, <1>2 DEF OrNull
    <3> HIDE DEF forward
    <3> QED
      BY <3>1, <1>4 DEF OrderType
  <2> QED
    BY <2>1, <2>2
<1> HIDE DEF forward
<1>6. /\ both \in [Slots -> OrderType]
      /\ \A r \in Slots :
           /\ both[r].id = named[r].id
           /\ both[r].data = e.orders[r].data /\ both[r].nextInBin = e.orders[r].nextInBin
           /\ both[r].next = IF r = o.prev THEN o.next ELSE e.orders[r].next
           /\ both[r].prev = forward[r].prev
  <2>1. CASE o.prev = NULL
    BY <2>1, <1>5, SlotFacts
  <2>2. CASE o.prev # NULL
    <3>1. /\ o.prev \in Slots /\ o.next \in OrNull(Slots)
          /\ both = [forward EXCEPT ![o.prev].next = o.next]
      BY <2>2, <1>2 DEF OrNull
    <3> HIDE DEF both
    <3> QED
      BY <3>1, <1>5 DEF OrderType
  <2> QED
    BY <2>1, <2>2
<1>7. /\ node \in NodeType /\ node.price = e.nodes[p].price /\ node.side = e.nodes[p].side
      /\ node.first = IF o.prev = NULL THEN o.next ELSE e.nodes[p].first
      /\ node.last = IF o.next = NULL THEN o.prev ELSE e.nodes[p].last
  BY <1>2 DEF NodeType, OrNull
<1> HIDE DEF both, node
<1>8. /\ u \in EngType
      /\ u.nexts = e.nexts /\ u.prevs = e.prevs
      /\ u.bestBid = e.bestBid /\ u.bestAsk = e.bestAsk
      /\ u.nextId = e.nextId /\ u.free = e.free /\ u.idMap = e.idMap
      /\ u.fault = (e.fault \/ e.nodes[p].price # p)
      /\ u.orders = both /\ u.nodes = [e.nodes EXCEPT ![p] = node]
  BY <1>2, <1>6, <1>7 DEF EngType
<1> HIDE DEF u
<1>9. \A n \in Nodes :
        /\ u.nodes[n].price = e.nodes[n].price /\ u.nodes[n].side = e.nodes[n].side
        /\ n # p => u.nodes[n] = e.nodes[n]
        /\ n = p => u.nodes[n] = node
  BY <1>2, <1>7, <1>8
<1>10. ASSUME NEW r \in Slots
       PROVE  /\ u.orders[r].id = IF r = s THEN 0 ELSE e.orders[r].id
              /\ u.orders[r].data = e.orders[r].data
              /\ u.orders[r].nextInBin = e.orders[r].nextInBin
              /\ u.orders[r].next = IF r = o.prev THEN o.next ELSE e.orders[r].next
              /\ u.orders[r].prev = IF r = o.next THEN o.prev ELSE e.orders[r].prev
  BY <1>4, <1>5, <1>6, <1>8
<1>11. ASSUME NEW n \in Nodes
       PROVE  /\ u.nodes[n].price = e.nodes[n].price /\ u.nodes[n].side = e.nodes[n].side
              /\ n # p => u.nodes[n] = e.nodes[n]
              /\ n = p => /\ u.nodes[n].first = IF o.prev = NULL THEN o.next ELSE e.nodes[n].first
                          /\ u.nodes[n].last = IF o.next = NULL THEN o.prev ELSE e.nodes[n].last
  BY <1>7, <1>9
<1>12. Unqueued(e, u, s)
  BY <1>8, <1>10, <1>11 DEF Unqueued, o, p
<1> QED
  BY <1>1, <1>12

(* Every price's queue, in the node of the price.                          *)
QueuedAt(e, p) ==
  /\ e.nodes[p].price = IF AtPrice(e.orders, p) = {} THEN 0 ELSE p
  /\ \A s \in AtPrice(e.orders, p) :
       e.orders[s].data.side = e.nodes[p].side /\ e.orders[s].data.size > 0
  /\ Queue(e.orders, AtPrice(e.orders, p), e.nodes[p].first, e.nodes[p].last)

Queued(e) == \A p \in 1 .. MaxPrice : QueuedAt(e, p)

(* Ids are given in sequence.                                              *)
Sequenced(e) ==
  /\ \A s \in Slots : e.orders[s].id < e.nextId
  /\ \A r, s \in Rest(e) : e.orders[r].id = e.orders[s].id => r = s

LEMMA RestFacts ==
  ASSUME NEW e \in EngType, NEW s \in Slots
  PROVE  /\ e.orders[s] \in OrderType /\ e.orders[s].id \in Nat /\ e.orders[s].data \in Order
         /\ e.orders[s].data.price \in 1 .. MaxPrice /\ e.orders[s].data.price \in Nodes
         /\ e.orders[s].data.size \in Nat /\ e.orders[s].data.side \in {"bid", "ask"}
         /\ s # NULL /\ e.nextId \in Nat
<1>1. e.orders[s] \in OrderType /\ e.nextId \in 1 .. MaxId + 1
  BY DEF EngType
<1>2. e.orders[s].id \in 0 .. MaxId /\ e.orders[s].data \in Order
  BY <1>1 DEF OrderType
<1>3. /\ e.orders[s].data.price \in 1 .. MaxPrice /\ e.orders[s].data.side \in {"bid", "ask"}
      /\ e.orders[s].data.size \in 0 .. MaxSize
  BY <1>2 DEF Order, Sides
<1>4. \A n \in 0 .. MaxId : n \in Nat
  BY EngineBounds
<1>5. \A n \in 0 .. MaxSize : n \in Nat
  BY EngineBounds
<1>6. \A n \in 1 .. MaxId + 1 : n \in Nat
  BY EngineBounds
<1>7. s # NULL /\ e.orders[s].data.price \in Nodes
  BY <1>3, Ends, SlotFacts
<1> QED
  BY <1>1, <1>2, <1>3, <1>4, <1>5, <1>6, <1>7

LEMMA OwnIdsAt ==
  ASSUME NEW e \in EngType, Sequenced(e), NEW p
  PROVE  OwnIds(e.orders, AtPrice(e.orders, p)) /\ NULL \notin AtPrice(e.orders, p)
  BY RestFacts, SlotFacts DEF OwnIds, AtPrice, Sequenced, Rest

(* Everything about a state but the pool and the bins.                     *)
Ordered(e) == e \in EngType /\ Listed(e) /\ Sided(e) /\ Queued(e) /\ Sequenced(e)

(* Order s has left the book.                                              *)
Departed(e, g, s) ==
  /\ Ordered(g) /\ g.fault = e.fault
  /\ g.free = e.free /\ g.idMap = e.idMap /\ g.nextId = e.nextId
  /\ \A r \in Slots : /\ g.orders[r].id = IF r = s THEN 0 ELSE e.orders[r].id
                      /\ g.orders[r].data = e.orders[r].data
                      /\ g.orders[r].nextInBin = e.orders[r].nextInBin

(* The queue of the order's price when its links are taken out.            *)
LEMMA UnqueuedQueue ==
  ASSUME NEW e \in EngType, Queued(e), Sequenced(e), NEW s \in Rest(e), NEW u, Unqueued(e, u, s),
         NEW p, p = e.orders[s].data.price
  PROVE  /\ AtPrice(u.orders, p) = AtPrice(e.orders, p) \ {s}
         /\ Queue(u.orders, AtPrice(u.orders, p), u.nodes[p].first, u.nodes[p].last)
         /\ u.nodes[p].first = NULL <=> AtPrice(u.orders, p) = {}
         /\ e.nodes[p].price = p
<1> DEFINE A == AtPrice(e.orders, p)
<1>1. s \in Slots /\ s \in A /\ p \in 1 .. MaxPrice /\ p \in Nodes
  BY RestFacts DEF Rest, AtPrice
<1>2. QueuedAt(e, p)
  BY <1>1 DEF Queued
<1>3. Queue(e.orders, A, e.nodes[p].first, e.nodes[p].last)
  BY <1>2 DEF QueuedAt
<1>4. OwnIds(e.orders, A) /\ NULL \notin A
  BY OwnIdsAt
<1>5. Unlinked(e.orders, u.orders, A, s)
  <2>1. \A r \in A : r \in Slots
    BY DEF AtPrice
  <2> QED
    BY <2>1 DEF Unlinked, Unqueued
<1>6. NewEnds(e.orders, s, e.nodes[p].first, e.nodes[p].last, u.nodes[p].first, u.nodes[p].last)
  BY <1>1 DEF Unqueued, NewEnds
<1>7. AtPrice(u.orders, p) = A \ {s}
  BY <1>1 DEF AtPrice, Unqueued
<1> HIDE DEF A
<1>8. /\ Queue(u.orders, A \ {s}, u.nodes[p].first, u.nodes[p].last)
      /\ u.nodes[p].first = NULL <=> A \ {s} = {}
  <2> DEFINE os == e.orders
             qs == u.orders
             first == e.nodes[p].first
             last == e.nodes[p].last
             f == u.nodes[p].first
             l == u.nodes[p].last
  <2>1. QueueLeft(os, qs, A, first, last, s, f, l)
    BY <1>1, <1>3, <1>4, <1>5, <1>6 DEF QueueLeft
  <2> HIDE DEF os, qs, first, last, f, l
  <2>2. Queue(qs, A \ {s}, f, l) /\ (f = NULL <=> A \ {s} = {})
    BY <2>1, QueueRemove
  <2> QED
    BY <2>2 DEF qs, f, l
<1>9. e.nodes[p].price = p
  BY <1>1, <1>2 DEF QueuedAt, A
<1> QED
  BY <1>7, <1>8, <1>9 DEF A

LEMMA RemoveOrderDeparts ==
  ASSUME NEW e, Ordered(e), NEW s \in Rest(e)
  PROVE  Departed(e, RemoveOrder(e, s), s)
<1> DEFINE p == e.orders[s].data.price
           u == Unqueue(e, s)
           g == RemoveOrder(e, s)
           A == AtPrice(e.orders, p)
<1>0. e \in EngType /\ Listed(e) /\ Sided(e) /\ Queued(e) /\ Sequenced(e) /\ s \in Slots
  BY DEF Ordered, Rest
<1>1. g = IF u.nodes[p].first = NULL THEN RemoveFromList(u, p) ELSE u
  BY DEF RemoveOrder
<1>2. p \in 1 .. MaxPrice /\ p \in Nodes /\ s \in A
  BY <1>0, RestFacts DEF AtPrice, Rest
<1>3. Unqueued(e, u, s)
  BY <1>0, UnqueueFields
<1> HIDE DEF u, g
<1>4. /\ AtPrice(u.orders, p) = A \ {s}
      /\ Queue(u.orders, AtPrice(u.orders, p), u.nodes[p].first, u.nodes[p].last)
      /\ u.nodes[p].first = NULL <=> AtPrice(u.orders, p) = {}
      /\ e.nodes[p].price = p
  BY <1>0, <1>3, UnqueuedQueue
<1>5. /\ u \in EngType /\ SameList(e, u) /\ u.fault = e.fault
      /\ u.free = e.free /\ u.idMap = e.idMap /\ u.nextId = e.nextId
  <2>1. u.fault = (e.fault \/ e.nodes[p].price # p)
    BY <1>3 DEF Unqueued
  <2>2. e.fault \in BOOLEAN
    BY <1>0 DEF EngType
  <2> QED
    BY <2>1, <2>2, <1>3, <1>4 DEF Unqueued, SameList
<1>6. Listed(u) /\ Sided(u) /\ Used(u) = Used(e) /\ p \in Used(u)
  <2>1. p # 0
    BY <1>2
  <2>2. p \in Used(e)
    BY <2>1, <1>2, <1>4 DEF Used
  <2> QED
    BY <2>2, <1>0, <1>5, ListKept
<1>7. \A r \in Slots : /\ u.orders[r].id = IF r = s THEN 0 ELSE e.orders[r].id
                       /\ u.orders[r].data = e.orders[r].data
                       /\ u.orders[r].nextInBin = e.orders[r].nextInBin
  BY <1>3 DEF Unqueued
<1>8. /\ g \in EngType /\ Listed(g) /\ Sided(g) /\ g.orders = u.orders
      /\ g.free = e.free /\ g.idMap = e.idMap /\ g.nextId = e.nextId /\ g.fault = e.fault
      /\ \A n \in Nodes : n # p => g.nodes[n] = u.nodes[n]
      /\ g.nodes[p].first = u.nodes[p].first /\ g.nodes[p].last = u.nodes[p].last
      /\ g.nodes[p].side = u.nodes[p].side
      /\ g.nodes[p].price = IF A \ {s} = {} THEN 0 ELSE p
  <2>1. CASE u.nodes[p].first = NULL
    <3>1. /\ g \in EngType /\ Listed(g) /\ Sided(g) /\ SameBut(u, g) /\ g.fault = u.fault
          /\ g.nodes = [u.nodes EXCEPT ![p].price = 0]
      <4>1. g = RemoveFromList(u, p)
        BY <2>1, <1>1
      <4> QED
        BY <4>1, <1>5, <1>6, ListRemove
    <3>2. /\ \A n \in Nodes : n # p => g.nodes[n] = u.nodes[n]
          /\ g.nodes[p].first = u.nodes[p].first /\ g.nodes[p].last = u.nodes[p].last
          /\ g.nodes[p].side = u.nodes[p].side /\ g.nodes[p].price = 0
      <4>1. u.nodes \in [Nodes -> NodeType] /\ u.nodes[p] \in NodeType
        BY <1>2, <1>5 DEF EngType
      <4> QED
        BY <4>1, <3>1, <1>2 DEF NodeType
    <3> QED
      BY <2>1, <3>1, <3>2, <1>4, <1>5 DEF SameBut
  <2>2. CASE u.nodes[p].first # NULL
    <3>1. g = u
      BY <2>2, <1>1
    <3>2. u.nodes[p].price = p
      BY <1>2, <1>4, <1>5 DEF SameList
    <3> QED
      BY <2>2, <3>1, <3>2, <1>4, <1>5, <1>6
  <2> QED
    BY <2>1, <2>2
<1>9. ASSUME NEW q \in 1 .. MaxPrice
      PROVE  QueuedAt(g, q)
  <2>1. CASE q = p
    <3>1. /\ AtPrice(g.orders, p) = A \ {s}
          /\ Queue(g.orders, AtPrice(g.orders, p), g.nodes[p].first, g.nodes[p].last)
      BY <1>4, <1>8
    <3>2. ASSUME NEW r \in A \ {s}
          PROVE  g.orders[r].data.side = g.nodes[p].side /\ g.orders[r].data.size > 0
      <4>1. r \in Slots
        BY DEF AtPrice
      <4>2. e.orders[r].data.side = e.nodes[p].side /\ e.orders[r].data.size > 0
        BY <1>0, <1>2 DEF Queued, QueuedAt
      <4>3. g.nodes[p].side = e.nodes[p].side
        BY <1>2, <1>5, <1>8 DEF SameList
      <4> QED
        BY <4>1, <4>2, <4>3, <1>7, <1>8
    <3> QED
      BY <2>1, <3>1, <3>2, <1>8 DEF QueuedAt
  <2>2. CASE q # p
    <3>1. AtPrice(g.orders, q) = AtPrice(e.orders, q)
      <4>1. e.orders[s].data.price = p
        BY <1>2 DEF AtPrice
      <4>2. \A r \in Slots : /\ g.orders[r].id = IF r = s THEN 0 ELSE e.orders[r].id
                            /\ g.orders[r].data = e.orders[r].data
        BY <1>7, <1>8
      <4>3. \A r \in Slots : r = s => e.orders[r].data.price # q
        BY <4>1, <2>2
      <4> QED
        BY <4>2, <4>3 DEF AtPrice
    <3>2. g.nodes[q] = e.nodes[q]
      <4>1. q \in Nodes
        BY Ends
      <4> QED
        BY <4>1, <2>2, <1>3, <1>8 DEF Unqueued
    <3>3. QueuedAt(e, q)
      BY <1>0 DEF Queued
    <3>4. SameQueue(e.orders, g.orders, AtPrice(e.orders, q))
      <4> SUFFICES ASSUME NEW r \in AtPrice(e.orders, q)
                   PROVE  /\ g.orders[r].id = e.orders[r].id
                          /\ g.orders[r].next = e.orders[r].next
                          /\ g.orders[r].prev = e.orders[r].prev
        BY DEF SameQueue
      <4>1. r \in Slots /\ r # s /\ r \notin A
        BY <2>2, <1>2 DEF AtPrice
      <4>2. r # e.orders[s].next /\ r # e.orders[s].prev
        <5>1. /\ e.orders[s].next # NULL => e.orders[s].next \in A
              /\ e.orders[s].prev # NULL => e.orders[s].prev \in A
          BY <1>0, <1>2 DEF Queued, QueuedAt, Queue
        <5> QED
          BY <5>1, <4>1, SlotFacts
      <4>3. /\ u.orders[r].id = e.orders[r].id /\ u.orders[r].next = e.orders[r].next
            /\ u.orders[r].prev = e.orders[r].prev
        BY <4>1, <4>2, <1>3 DEF Unqueued
      <4> QED
        BY <4>3, <1>8
    <3>5. Queue(g.orders, AtPrice(g.orders, q), g.nodes[q].first, g.nodes[q].last)
      BY <3>1, <3>2, <3>3, <3>4, QueueKept DEF QueuedAt
    <3>6. \A r \in AtPrice(e.orders, q) : r \in Slots /\ g.orders[r].data = e.orders[r].data
      BY <1>7, <1>8 DEF AtPrice
    <3> QED
      BY <3>1, <3>2, <3>3, <3>5, <3>6 DEF QueuedAt
  <2> QED
    BY <2>1, <2>2
<1>10. Sequenced(g)
  <2>1. e.nextId \in Nat /\ 0 < e.nextId
    BY <1>0 DEF EngType
  <2>2. \A r \in Slots : g.orders[r].id < g.nextId
    BY <2>1, <1>0, <1>7, <1>8 DEF Sequenced
  <2>3. \A r \in Rest(g) : r \in Rest(e) /\ g.orders[r].id = e.orders[r].id
    BY <1>7, <1>8 DEF Rest
  <2> QED
    BY <2>2, <2>3, <1>0 DEF Sequenced
<1>11. Departed(e, g, s)
  BY <1>7, <1>8, <1>9, <1>10 DEF Departed, Ordered, Queued
<1> QED
  BY <1>11 DEF g

(* What keeps the list and the queues as they are, up to sizes.            *)
SameBook(e, g) ==
  /\ SameList(e, g) /\ e.nextId <= g.nextId
  /\ \A n \in Nodes : g.nodes[n].first = e.nodes[n].first /\ g.nodes[n].last = e.nodes[n].last
  /\ \A r \in Slots :
       /\ g.orders[r].id = e.orders[r].id
       /\ g.orders[r].next = e.orders[r].next /\ g.orders[r].prev = e.orders[r].prev
       /\ g.orders[r].data.price = e.orders[r].data.price
       /\ g.orders[r].data.side = e.orders[r].data.side
       /\ e.orders[r].data.size > 0 => g.orders[r].data.size > 0

LEMMA OrderedKept ==
  ASSUME NEW e, Ordered(e), NEW g \in EngType, SameBook(e, g)
  PROVE  Ordered(g) /\ Rest(g) = Rest(e)
<1>1. e \in EngType /\ Listed(e) /\ Sided(e) /\ Queued(e) /\ Sequenced(e)
  BY DEF Ordered
<1>2. Listed(g) /\ Sided(g)
  BY <1>1, ListKept DEF SameBook
<1>3. ASSUME NEW p \in 1 .. MaxPrice
      PROVE  QueuedAt(g, p)
  <2>1. QueuedAt(e, p) /\ p \in Nodes
    BY <1>1, Ends DEF Queued
  <2>2. AtPrice(g.orders, p) = AtPrice(e.orders, p)
    BY DEF AtPrice, SameBook
  <2>3. \A r \in AtPrice(e.orders, p) : r \in Slots
    BY DEF AtPrice
  <2>4. SameQueue(e.orders, g.orders, AtPrice(e.orders, p))
    BY <2>3 DEF SameBook, SameQueue
  <2>5. /\ g.nodes[p].first = e.nodes[p].first /\ g.nodes[p].last = e.nodes[p].last
        /\ g.nodes[p].price = e.nodes[p].price /\ g.nodes[p].side = e.nodes[p].side
    BY <2>1 DEF SameBook, SameList
  <2>6. Queue(e.orders, AtPrice(e.orders, p), e.nodes[p].first, e.nodes[p].last)
    BY <2>1 DEF QueuedAt
  <2>7. Queue(g.orders, AtPrice(g.orders, p), g.nodes[p].first, g.nodes[p].last)
    BY <2>2, <2>4, <2>5, <2>6, QueueKept
  <2>8. ASSUME NEW r \in AtPrice(g.orders, p)
        PROVE  g.orders[r].data.side = g.nodes[p].side /\ g.orders[r].data.size > 0
    <3>1. e.orders[r].data.side = e.nodes[p].side /\ e.orders[r].data.size > 0 /\ r \in Slots
      BY <2>1, <2>2, <2>3 DEF QueuedAt
    <3> QED
      BY <3>1, <2>5 DEF SameBook
  <2> QED
    BY <2>1, <2>2, <2>5, <2>7, <2>8 DEF QueuedAt
<1>4. Rest(g) = Rest(e)
  BY DEF Rest, SameBook
<1>5. Sequenced(g)
  <2>1. \A r \in Slots : e.orders[r].id \in Nat /\ e.nextId \in Nat
    BY <1>1, RestFacts
  <2>2. g.nextId \in Nat
    BY SlotFacts, RestFacts
  <2>3. ASSUME NEW r \in Slots
        PROVE  g.orders[r].id < g.nextId
    BY <2>1, <2>2, <1>1 DEF Sequenced, SameBook
  <2>4. \A r \in Rest(e) : r \in Slots
    BY DEF Rest
  <2> QED
    BY <2>3, <2>4, <1>1, <1>4 DEF Sequenced, SameBook
<1> QED
  BY <1>2, <1>3, <1>4, <1>5 DEF Ordered, Queued

LEMMA FreedOrdered ==
  ASSUME NEW e, Ordered(e), NEW f, NEW s, Freed(e, f, s)
  PROVE  Ordered(f) /\ Rest(f) = Rest(e)
<1>1. e \in EngType /\ f \in EngType /\ e.nextId \in Nat
  BY RestFacts, SlotFacts DEF Ordered, Freed
<1>2. SameBook(e, f)
  BY <1>1 DEF Freed, SameBook, SameList
<1> QED
  BY <1>1, <1>2, OrderedKept

-----------------------------------------------------------------------------
(* The free list links F structs in the order fl.                          *)

Pool(e, F, fl) ==
  /\ F \in Nat /\ fl \in [1 .. F -> Slots]
  /\ \A i, j \in 1 .. F : fl[i] = fl[j] => i = j
  /\ \A s \in Slots : e.orders[s].id = 0 <=> \E i \in 1 .. F : fl[i] = s
  /\ \A i \in 1 .. F : e.orders[fl[i]].nextInBin = IF i = F THEN NULL ELSE fl[i + 1]
  /\ e.free.first = IF F = 0 THEN NULL ELSE fl[1]
  /\ e.free.last = IF F = 0 THEN NULL ELSE fl[F]

(* An order has left the book and its bin, and its struct is free.         *)
LEMMA PoolGrows ==
  ASSUME NEW e, NEW F, NEW fl, Pool(e, F, fl), F > 0, NEW s \in Rest(e),
         NEW f, Freed(e, f, s), NEW g, Departed(f, g, s)
  PROVE  \E gl : Pool(g, F + 1, gl)
<1> DEFINE gl == [i \in 1 .. F + 1 |-> IF i = F + 1 THEN s ELSE fl[i]]
<1>1. /\ F \in Nat /\ fl \in [1 .. F -> Slots]
      /\ \A i, j \in 1 .. F : fl[i] = fl[j] => i = j
      /\ \A i \in 1 .. F : e.orders[fl[i]].nextInBin = IF i = F THEN NULL ELSE fl[i + 1]
      /\ \A r \in Slots : e.orders[r].id = 0 <=> \E i \in 1 .. F : fl[i] = r
      /\ e.free.first = fl[1] /\ e.free.last = fl[F]
  BY DEF Pool
<1>2. s \in Slots /\ e.orders[s].id # 0 /\ \A i \in 1 .. F : fl[i] # s /\ fl[i] \in Slots
  BY <1>1 DEF Rest
<1>3. /\ F + 1 \in Nat /\ gl \in [1 .. F + 1 -> Slots]
      /\ gl[F + 1] = s /\ \A i \in 1 .. F : gl[i] = fl[i] /\ i \in 1 .. F + 1 /\ i # F + 1
      /\ \A i \in 1 .. F + 1 : i # F + 1 => i \in 1 .. F
      /\ \A i \in 1 .. F : i # F => i + 1 \in 1 .. F
      /\ 1 \in 1 .. F /\ F \in 1 .. F /\ F + 1 \in 1 .. F + 1 /\ F + 1 # 0
  BY <1>1, <1>2
<1> HIDE DEF gl
<1>4. \A i, j \in 1 .. F + 1 : gl[i] = gl[j] => i = j
  BY <1>1, <1>2, <1>3
<1>5. ASSUME NEW r \in Slots
      PROVE  /\ g.orders[r].id = IF r = s THEN 0 ELSE e.orders[r].id
             /\ g.orders[r].nextInBin = IF r = fl[F] THEN s
                                        ELSE IF r = s THEN NULL ELSE e.orders[r].nextInBin
  BY <1>1 DEF Freed, Departed
<1>6. ASSUME NEW r \in Slots
      PROVE  g.orders[r].id = 0 <=> \E i \in 1 .. F + 1 : gl[i] = r
  <2>1. CASE r = s
    BY <2>1, <1>3, <1>5
  <2>2. CASE r # s
    <3>1. g.orders[r].id = e.orders[r].id
      BY <2>2, <1>5
    <3>2. (\E i \in 1 .. F + 1 : gl[i] = r) <=> \E i \in 1 .. F : fl[i] = r
      BY <2>2, <1>3
    <3> QED
      BY <3>1, <3>2, <1>1
  <2> QED
    BY <2>1, <2>2
<1>7. ASSUME NEW i \in 1 .. F + 1
      PROVE  g.orders[gl[i]].nextInBin = IF i = F + 1 THEN NULL ELSE gl[i + 1]
  <2>1. CASE i = F + 1
    BY <2>1, <1>2, <1>3, <1>5
  <2>2. CASE i = F
    BY <2>2, <1>2, <1>3, <1>5
  <2>3. CASE i # F /\ i # F + 1
    <3>1. /\ i \in 1 .. F /\ i + 1 \in 1 .. F /\ gl[i] = fl[i] /\ gl[i + 1] = fl[i + 1]
          /\ fl[i] # fl[F] /\ fl[i] # s /\ fl[i] \in Slots
      BY <2>3, <1>1, <1>2, <1>3
    <3>2. g.orders[fl[i]].nextInBin = e.orders[fl[i]].nextInBin
      BY <3>1, <1>5
    <3> QED
      BY <2>3, <3>1, <3>2, <1>1
  <2> QED
    BY <2>1, <2>2, <2>3
<1>8. g.free.first = gl[1] /\ g.free.last = gl[F + 1]
  BY <1>1, <1>3 DEF Freed, Departed
<1> QED
  BY <1>3, <1>4, <1>6, <1>7, <1>8 DEF Pool

LEMMA MapShrinks ==
  ASSUME NEW e \in EngType, Mapped(e), NEW F, NEW fl, Pool(e, F, fl), F > 0, NEW s \in Rest(e),
         NEW f, Freed(e, f, s), NEW g, Departed(f, g, s)
  PROVE  Mapped(g)
<1> SUFFICES ASSUME NEW h \in Bins
             PROVE  BinHolds(g, h)
  BY DEF Mapped
<1>1. s \in Slots /\ s # NULL /\ e.orders[s].id # 0 /\ e.orders[s].id \in Nat
      /\ BinOf(e, s) \in Bins
  BY RestFacts, ModBins DEF Rest, BinOf
<1>2. e.free.last \in Slots /\ e.orders[e.free.last].id = 0
  <2>1. F \in Nat /\ F \in 1 .. F /\ e.free.last = fl[F] /\ fl[F] \in Slots
    BY DEF Pool
  <2> QED
    BY <2>1 DEF Pool
<1>3. ASSUME NEW r \in Slots
      PROVE  /\ g.orders[r].id = IF r = s THEN 0 ELSE e.orders[r].id
             /\ g.orders[r].nextInBin = IF r = e.free.last THEN s
                                        ELSE IF r = s THEN NULL ELSE e.orders[r].nextInBin
  BY DEF Freed, Departed
<1>4. \A r : r \in Rest(g) <=> r \in Rest(e) /\ r # s
  BY <1>3 DEF Rest
<1>5. \A r \in Rest(g) : BinOf(g, r) = BinOf(e, r) /\ r \in Slots
  BY <1>3, <1>4 DEF Rest, BinOf
<1>6. BinHolds(e, h) /\ BinHolds(e, BinOf(e, s))
  BY <1>1 DEF Mapped
<1>7. CASE h = BinOf(e, s)
  <2>1. g.idMap[h].first = NULL /\ g.idMap[h].last = NULL
    BY <1>7 DEF Freed, Departed
  <2>2. \A r \in Rest(e) : BinOf(e, r) = h => r = s
    BY <1>6, <1>7 DEF BinHolds
  <2> QED
    BY <2>1, <2>2, <1>4, <1>5 DEF BinHolds
<1>8. CASE h # BinOf(e, s)
  <2>1. g.idMap[h] = e.idMap[h]
    BY <1>8 DEF Freed, Departed
  <2>2. CASE e.idMap[h].first = NULL
    BY <2>1, <2>2, <1>4, <1>5, <1>6 DEF BinHolds
  <2>3. CASE e.idMap[h].first # NULL
    <3> DEFINE t == e.idMap[h].first
    <3>1. t \in Rest(e) /\ BinOf(e, t) = h /\ e.orders[t].nextInBin = NULL
          /\ e.idMap[h].last = t /\ \A r \in Rest(e) : BinOf(e, r) = h <=> r = t
      BY <2>3, <1>6 DEF BinHolds
    <3>2. t # s /\ t \in Slots /\ t # e.free.last
      BY <3>1, <1>2, <1>8 DEF Rest
    <3>3. g.orders[t].nextInBin = NULL /\ t \in Rest(g)
      BY <3>1, <3>2, <1>3, <1>4
    <3> QED
      BY <2>1, <2>3, <3>1, <3>3, <1>4, <1>5 DEF BinHolds
  <2> QED
    BY <2>2, <2>3
<1> QED
  BY <1>7, <1>8

(* The inductive invariant of a state in which no assertion has failed.    *)
Whole(e, F, fl) == Ordered(e) /\ Mapped(e) /\ Pool(e, F, fl)

LeftBook(e, g, s) ==
  /\ g.fault = e.fault /\ g.nextId = e.nextId
  /\ \A r \in Slots : /\ g.orders[r].id = IF r = s THEN 0 ELSE e.orders[r].id
                      /\ g.orders[r].data = e.orders[r].data

(* free_order and remove_order together take an order out of the book.     *)
LEMMA OrderLeaves ==
  ASSUME NEW e, NEW F, NEW fl, Whole(e, F, fl), F > 0, NEW s \in Rest(e), NEW f, NEW g,
         f = FreeOrder(e, e.orders[s].id).eng, g = RemoveOrder(f, s)
  PROVE  /\ FreeOrder(e, e.orders[s].id).slot = s /\ f.fault = e.fault
         /\ LeftBook(e, g, s) /\ \E gl : Whole(g, F + 1, gl)
<1>1. Ordered(e) /\ e \in EngType /\ Mapped(e) /\ Pool(e, F, fl)
  BY DEF Whole, Ordered
<1>2. e.free.last # NULL
  <2>1. F \in 1 .. F /\ e.free.last = fl[F] /\ fl[F] \in Slots
    BY <1>1 DEF Pool
  <2> QED
    BY <2>1, SlotFacts
<1>3. FreeOrder(e, e.orders[s].id).slot = s /\ Freed(e, f, s)
  BY <1>1, <1>2, FreeOrderFinds
<1>4. Ordered(f) /\ s \in Rest(f)
  BY <1>1, <1>3, FreedOrdered
<1>5. Departed(f, g, s)
  BY <1>4, RemoveOrderDeparts
<1>6. \E gl : Pool(g, F + 1, gl)
  BY <1>1, <1>3, <1>5, PoolGrows
<1>7. Mapped(g)
  BY <1>1, <1>3, <1>5, MapShrinks
<1>8. Ordered(g) /\ LeftBook(e, g, s) /\ f.fault = e.fault
  <2>1. /\ f.fault = e.fault /\ f.nextId = e.nextId
        /\ \A r \in Slots : f.orders[r].id = e.orders[r].id /\ f.orders[r].data = e.orders[r].data
    BY <1>3 DEF Freed
  <2>2. /\ Ordered(g) /\ g.fault = f.fault /\ g.nextId = f.nextId
        /\ \A r \in Slots : /\ g.orders[r].id = IF r = s THEN 0 ELSE f.orders[r].id
                            /\ g.orders[r].data = f.orders[r].data
    BY <1>5 DEF Departed
  <2> QED
    BY <2>1, <2>2 DEF LeftBook
<1> QED
  BY <1>3, <1>6, <1>7, <1>8 DEF Whole

-----------------------------------------------------------------------------
(* An order enters the book.                                               *)

(* The node of the price is in the list, with its queue as it was.         *)
NodeReady(e, g, data, p) ==
  /\ g \in EngType /\ Listed(g) /\ Sided(g) /\ SameBut(e, g) /\ g.fault = e.fault
  /\ \A q \in Nodes : q # p => g.nodes[q] = e.nodes[q]
  /\ g.nodes[p].price = p /\ g.nodes[p].side = data.side
  /\ Queue(e.orders, AtPrice(e.orders, p), g.nodes[p].first, g.nodes[p].last)
  /\ IF AtPrice(e.orders, p) = {} THEN g.nodes[p].first = NULL /\ g.nodes[p].last = NULL
     ELSE g.nodes[p].first \in AtPrice(e.orders, p) /\ g.nodes[p].last \in AtPrice(e.orders, p)
  /\ \A s \in AtPrice(e.orders, p) :
       e.orders[s].data.side = data.side /\ e.orders[s].data.size > 0

FreshNode(data) ==
  [side |-> data.side, price |-> data.price, first |-> NULL, last |-> NULL]

(* The first half of what limit does with an order that it queues.         *)
Listing(e, data, height) ==
  IF e.nodes[data.price].price = 0
  THEN AddToList([e EXCEPT !.nodes = [@ EXCEPT ![data.price] = FreshNode(data)]],
                 data.price, height)
  ELSE [e EXCEPT !.fault = @ \/ e.nodes[data.price].side # data.side
                             \/ e.nodes[data.price].price # data.price]

LEMMA NodeEnters ==
  ASSUME NEW e, Ordered(e), NEW data \in Order, Uncrossed(e, data.side, data.price),
         NEW height \in 1 .. ListHeight
  PROVE  NodeReady(e, Listing(e, data, height), data, data.price)
<1> DEFINE p == data.price
           A == AtPrice(e.orders, p)
           node == FreshNode(data)
           g == Listing(e, data, height)
<1>0. /\ e.nodes[p].price = 0 => NodeAdded(e, g, p, node, height)
      /\ e.nodes[p].price # 0 => g = [e EXCEPT !.fault = e.fault \/ e.nodes[p].side # data.side
                                                               \/ e.nodes[p].price # p]
  BY DEF Listing, NodeAdded
<1>7. /\ node = [side |-> data.side, price |-> p, first |-> NULL, last |-> NULL]
      /\ Uncrossed(e, data.side, p)
  BY DEF FreshNode
<1> SUFFICES NodeReady(e, g, data, p)
  OBVIOUS
<1> HIDE DEF g, node
<1>1. /\ e \in EngType /\ Listed(e) /\ Sided(e) /\ Queued(e) /\ Sequenced(e)
      /\ p \in 1 .. MaxPrice /\ p \in Nodes /\ p # 0 /\ data.side \in Sides
  BY Ends DEF Ordered, Order
<1> HIDE DEF p
<1>2. QueuedAt(e, p)
  BY <1>1 DEF Queued
<1>3. e.nodes[p].price = 0 <=> A = {}
  BY <1>1, <1>2 DEF QueuedAt
<1>4. /\ Queue(e.orders, A, e.nodes[p].first, e.nodes[p].last)
      /\ \A s \in A : e.orders[s].data.side = e.nodes[p].side /\ e.orders[s].data.size > 0
  BY <1>2 DEF QueuedAt
<1>5. CASE e.nodes[p].price = 0
  <2>1. node \in NodeType /\ node.price = p /\ node.side = data.side
        /\ node.first = NULL /\ node.last = NULL
    BY <1>1, <1>7 DEF NodeType, OrNull
  <2>2. p \notin Used(e)
    BY <1>5 DEF Used
  <2>3. NodeAdded(e, g, p, node, height)
    BY <1>0, <1>5
  <2>4. /\ g \in EngType /\ Listed(g) /\ Sided(g) /\ SameBut(e, g) /\ g.fault = e.fault
        /\ g.nodes = [e.nodes EXCEPT ![p] = node]
    <3>1. Uncrossed(e, node.side, p)
      BY <2>1, <1>7
    <3> HIDE DEF A
    <3> QED
      BY <2>1, <2>2, <2>3, <3>1, <1>1, ListInsert
  <2>5. /\ \A q \in Nodes : q # p => g.nodes[q] = e.nodes[q]
        /\ g.nodes[p] = node
    <3>1. e.nodes \in [Nodes -> NodeType]
      BY <1>1 DEF EngType
    <3> QED
      BY <3>1, <2>4, <1>1
  <2>6. A = {}
    BY <1>3, <1>5
  <2>7. Queue(e.orders, A, g.nodes[p].first, g.nodes[p].last)
    BY <2>6 DEF Queue
  <2> HIDE DEF A
  <2> QED
    BY <2>1, <2>4, <2>5, <2>6, <2>7 DEF NodeReady, A
<1>6. CASE e.nodes[p].price # 0
  <2>1. A # {} /\ e.nodes[p].price = p
    BY <1>2, <1>3, <1>6 DEF QueuedAt
  <2>2. p \in Used(e)
    BY <1>1, <1>6 DEF Used
  <2>3. e.nodes[p].side = data.side
    <3>1. IF e.nodes[p].side = "bid" THEN p <= e.bestBid ELSE p >= e.bestAsk
      BY <1>1, <2>2 DEF Sided
    <3>2. e.bestBid \in Nat /\ e.bestAsk \in Nat /\ p \in Nat /\ e.bestBid < e.bestAsk
      BY <1>1, Ends DEF EngType, Sided
    <3>3. e.nodes[p].side \in {"bid", "ask"} /\ data.side \in {"bid", "ask"}
      BY <1>1 DEF EngType, NodeType, Sides
    <3> QED
      BY <3>1, <3>2, <3>3, <1>7 DEF Uncrossed
  <2>4. /\ g \in EngType /\ g.nodes = e.nodes /\ SameBut(e, g) /\ g.fault = e.fault
        /\ SameList(e, g)
    <3>1. g = [e EXCEPT !.fault = e.fault \/ e.nodes[p].side # data.side
                                          \/ e.nodes[p].price # p]
      BY <1>0, <1>6
    <3>2. e.fault \in BOOLEAN
      BY <1>1 DEF EngType
    <3>3. (e.fault \/ e.nodes[p].side # data.side \/ e.nodes[p].price # p) = e.fault
      BY <2>1, <2>3, <3>2
    <3>4. g = [e EXCEPT !.fault = e.fault]
      BY <3>1, <3>3
    <3>5. g = e
      BY <3>4, <1>1 DEF EngType
    <3> QED
      BY <3>5, <1>1 DEF SameBut, SameList
  <2>5. Listed(g) /\ Sided(g)
    BY <2>4, <1>1, ListKept
  <2>6. g.nodes[p].first \in A /\ g.nodes[p].last \in A
    BY <2>1, <2>4, <1>4 DEF Queue
  <2> HIDE DEF A
  <2> QED
    BY <2>1, <2>3, <2>4, <2>5, <2>6, <1>4 DEF NodeReady, A
<1> QED
  BY <1>5, <1>6

(* What allocate_order changes when a struct s is free and the bin empty.  *)
Allocated(e, a, s) ==
  /\ a \in EngType
  /\ a.nodes = e.nodes /\ a.nexts = e.nexts /\ a.prevs = e.prevs
  /\ a.bestBid = e.bestBid /\ a.bestAsk = e.bestAsk
  /\ a.nextId = e.nextId /\ a.fault = e.fault
  /\ \A r \in Slots :
       /\ a.orders[r].id = IF r = s THEN e.nextId ELSE e.orders[r].id
       /\ a.orders[r].data = e.orders[r].data
       /\ a.orders[r].next = e.orders[r].next /\ a.orders[r].prev = e.orders[r].prev
       /\ a.orders[r].nextInBin = IF r = s THEN NULL ELSE e.orders[r].nextInBin
  /\ a.free.first = e.orders[s].nextInBin
  /\ a.free.last = IF e.orders[s].nextInBin = NULL THEN NULL ELSE e.free.last
  /\ a.idMap[e.nextId % MapSize].first = s /\ a.idMap[e.nextId % MapSize].last = s
  /\ \A h \in Bins : h # e.nextId % MapSize => a.idMap[h] = e.idMap[h]

LEMMA AllocateOrderTakes ==
  ASSUME NEW e \in EngType, e.nextId <= MaxId, e.free.first \in Slots,
         e.idMap[e.nextId % MapSize].first = NULL
  PROVE  /\ AllocateOrder(e).slot = e.free.first
         /\ Allocated(e, AllocateOrder(e).eng, e.free.first)
<1> DEFINE s == e.free.first
           rest == e.orders[s].nextInBin
           h == e.nextId % MapSize
           bin == e.idMap[h]
           taken == [e.orders EXCEPT ![s].id = e.nextId, ![s].nextInBin = NULL]
           free == [first |-> rest, last |-> IF rest = NULL THEN NULL ELSE e.free.last]
           full == [first |-> IF bin.first = NULL THEN s ELSE bin.first, last |-> s]
           os == IF bin.first = NULL THEN taken ELSE [taken EXCEPT ![bin.last].nextInBin = s]
           bins == [e.idMap EXCEPT ![h] = full]
           a == [e EXCEPT !.free = free, !.orders = os, !.idMap = bins]
<1>1. /\ e.orders \in [Slots -> OrderType] /\ e.nextId \in 1 .. MaxId + 1 /\ e.free \in BinType
      /\ e.idMap \in [Bins -> BinType]
  BY DEF EngType
<1>2. /\ s \in Slots /\ s # NULL /\ e.nextId \in 0 .. MaxId /\ h \in Bins /\ bin.first = NULL
      /\ rest \in OrNull(Slots) /\ e.free.last \in OrNull(Slots)
  <2>1. e.nextId \in Nat /\ e.nextId \in 0 .. MaxId
    BY <1>1, EngineBounds
  <2>2. rest \in OrNull(Slots) /\ e.free.last \in OrNull(Slots)
    BY <1>1 DEF OrderType, BinType
  <2> QED
    BY <2>1, <2>2, SlotFacts, ModBins
<1>3. AllocateOrder(e) = [slot |-> s, eng |-> a]
  BY <1>2 DEF AllocateOrder
<1> HIDE DEF s, rest, h
<1>4. /\ taken \in [Slots -> OrderType]
      /\ \A r \in Slots :
           /\ taken[r].id = IF r = s THEN e.nextId ELSE e.orders[r].id
           /\ taken[r].data = e.orders[r].data
           /\ taken[r].next = e.orders[r].next /\ taken[r].prev = e.orders[r].prev
           /\ taken[r].nextInBin = IF r = s THEN NULL ELSE e.orders[r].nextInBin
  BY <1>1, <1>2 DEF OrderType, OrNull
<1>5. os = taken /\ full.first = s /\ full.last = s /\ full \in BinType
  BY <1>2 DEF BinType, OrNull
<1>6. free \in BinType /\ free.first = rest
      /\ free.last = IF rest = NULL THEN NULL ELSE e.free.last
  BY <1>2 DEF BinType, OrNull
<1> HIDE DEF taken, os, full, free
<1>7. bins \in [Bins -> BinType] /\ bins[h].first = s /\ bins[h].last = s
      /\ \A j \in Bins : j # h => bins[j] = e.idMap[j]
  BY <1>1, <1>2, <1>5
<1> HIDE DEF bins
<1>8. /\ a.nodes = e.nodes /\ a.nexts = e.nexts /\ a.prevs = e.prevs
      /\ a.bestBid = e.bestBid /\ a.bestAsk = e.bestAsk
      /\ a.nextId = e.nextId /\ a.fault = e.fault
      /\ a.free = free /\ a.orders = os /\ a.idMap = bins /\ a \in EngType
  BY <1>4, <1>5, <1>6, <1>7 DEF EngType
<1> HIDE DEF a
<1>9. Allocated(e, a, s)
  BY <1>4, <1>5, <1>6, <1>7, <1>8 DEF Allocated, h, rest
<1> QED
  BY <1>3, <1>9 DEF s

(* What limit changes after it has listed the node of the price.           *)
Placed(g, d, data, s, p) ==
  /\ d \in EngType /\ SameList(g, d) /\ d.nextId = g.nextId /\ d.fault = g.fault
  /\ \A n \in Nodes :
       /\ n # p => d.nodes[n].first = g.nodes[n].first /\ d.nodes[n].last = g.nodes[n].last
       /\ n = p => /\ d.nodes[n].first = IF g.nodes[n].first = NULL THEN s ELSE g.nodes[n].first
                   /\ d.nodes[n].last = s
  /\ \A r \in Slots :
       /\ d.orders[r].id = IF r = s THEN g.nextId ELSE g.orders[r].id
       /\ d.orders[r].data = IF r = s THEN data ELSE g.orders[r].data
       /\ d.orders[r].prev = IF r = s THEN g.nodes[p].last ELSE g.orders[r].prev
       /\ d.orders[r].next = IF r = s THEN NULL
                             ELSE IF r = g.nodes[p].last THEN s ELSE g.orders[r].next
       /\ d.orders[r].nextInBin = IF r = s THEN NULL ELSE g.orders[r].nextInBin
  /\ d.free.first = g.orders[s].nextInBin
  /\ d.free.last = IF g.orders[s].nextInBin = NULL THEN NULL ELSE g.free.last
  /\ d.idMap[g.nextId % MapSize].first = s /\ d.idMap[g.nextId % MapSize].last = s
  /\ \A h \in Bins : h # g.nextId % MapSize => d.idMap[h] = g.idMap[h]

LEMMA EnqueuePlaces ==
  ASSUME NEW e, NEW data \in Order, NEW height, NEW g \in EngType, g = Listing(e, data, height),
         g.nextId <= MaxId, g.free.first \in Slots, g.idMap[g.nextId % MapSize].first = NULL,
         g.nodes[data.price].last # g.free.first
  PROVE  Placed(g, Enqueue(e, data, height), data, g.free.first, data.price)
<1> DEFINE p == data.price
           s == g.free.first
           a == AllocateOrder(g).eng
           last == g.nodes[p].last
           placed == [a.orders EXCEPT ![s].data = data, ![s].prev = last, ![s].next = NULL]
           os == IF last = NULL THEN placed ELSE [placed EXCEPT ![last].next = s]
           node == [g.nodes[p] EXCEPT !.last = s,
                      !.first = IF g.nodes[p].first = NULL THEN s ELSE g.nodes[p].first]
           d == [a EXCEPT !.orders = os, !.nodes[p] = node]
<1>1. AllocateOrder(g).slot = s /\ Allocated(g, a, s)
  BY AllocateOrderTakes
<1>2. s \in Slots /\ s # NULL /\ p \in 1 .. MaxPrice /\ p \in Nodes
  BY SlotFacts, Ends DEF Order
<1>3. Enqueue(e, data, height) = d
  <2>1. Enqueue(e, data, height) =
          IF AllocateOrder(g).slot = NULL THEN a
          ELSE LET t == AllocateOrder(g).slot
                   was == [a.orders EXCEPT ![t].data = data, ![t].prev = last, ![t].next = NULL]
               IN [a EXCEPT !.orders = IF last = NULL THEN was ELSE [was EXCEPT ![last].next = t],
                            !.nodes[p] = [g.nodes[p] EXCEPT !.last = t,
                               !.first = IF g.nodes[p].first = NULL THEN t
                                         ELSE g.nodes[p].first]]
    BY DEF Enqueue, Listing, FreshNode
  <2> HIDE DEF a, s, last
  <2> QED
    BY <2>1, <1>1, <1>2
<1> HIDE DEF p, s, a
<1>4. /\ a \in EngType /\ a.orders \in [Slots -> OrderType] /\ a.nodes \in [Nodes -> NodeType]
      /\ a.nodes = g.nodes /\ g.nodes[p] \in NodeType /\ last \in OrNull(Slots)
  <2>1. a \in EngType /\ a.nodes = g.nodes
    BY <1>1 DEF Allocated
  <2>2. a.nodes \in [Nodes -> NodeType] /\ a.orders \in [Slots -> OrderType]
    BY <2>1 DEF EngType
  <2> QED
    BY <2>1, <2>2, <1>2 DEF NodeType
<1>5. last # s
  BY DEF s, p
<1> HIDE DEF last
<1>6. /\ placed \in [Slots -> OrderType]
      /\ \A r \in Slots :
           /\ placed[r].id = a.orders[r].id /\ placed[r].nextInBin = a.orders[r].nextInBin
           /\ placed[r].data = IF r = s THEN data ELSE a.orders[r].data
           /\ placed[r].prev = IF r = s THEN last ELSE a.orders[r].prev
           /\ placed[r].next = IF r = s THEN NULL ELSE a.orders[r].next
  BY <1>2, <1>4 DEF OrderType, OrNull
<1> HIDE DEF placed
<1>7. /\ os \in [Slots -> OrderType]
      /\ \A r \in Slots :
           /\ os[r].id = a.orders[r].id /\ os[r].nextInBin = a.orders[r].nextInBin
           /\ os[r].data = IF r = s THEN data ELSE a.orders[r].data
           /\ os[r].prev = IF r = s THEN last ELSE a.orders[r].prev
           /\ os[r].next = IF r = s THEN NULL ELSE IF r = last THEN s ELSE a.orders[r].next
  <2>1. CASE last = NULL
    BY <2>1, <1>6, SlotFacts
  <2>2. CASE last # NULL
    <3>1. last \in Slots /\ os = [placed EXCEPT ![last].next = s]
      BY <2>2, <1>4 DEF OrNull
    <3> HIDE DEF os
    <3> QED
      BY <3>1, <1>2, <1>5, <1>6 DEF OrderType, OrNull
  <2> QED
    BY <2>1, <2>2
<1>8. /\ node \in NodeType /\ node.price = g.nodes[p].price /\ node.side = g.nodes[p].side
      /\ node.last = s /\ node.first = IF g.nodes[p].first = NULL THEN s ELSE g.nodes[p].first
  BY <1>2, <1>4 DEF NodeType, OrNull
<1> HIDE DEF os, node
<1>9. /\ d \in EngType /\ d.orders = os /\ d.nodes = [a.nodes EXCEPT ![p] = node]
      /\ d.nexts = a.nexts /\ d.prevs = a.prevs
      /\ d.bestBid = a.bestBid /\ d.bestAsk = a.bestAsk
      /\ d.nextId = a.nextId /\ d.fault = a.fault /\ d.free = a.free /\ d.idMap = a.idMap
  BY <1>2, <1>4, <1>7, <1>8 DEF EngType
<1> HIDE DEF d
<1>10. ASSUME NEW n \in Nodes
       PROVE  /\ d.nodes[n].price = g.nodes[n].price /\ d.nodes[n].side = g.nodes[n].side
              /\ n # p => d.nodes[n].first = g.nodes[n].first /\ d.nodes[n].last = g.nodes[n].last
              /\ n = p =>
                   /\ d.nodes[n].first = IF g.nodes[n].first = NULL THEN s ELSE g.nodes[n].first
                   /\ d.nodes[n].last = s
  <2>1. d.nodes[n] = IF n = p THEN node ELSE g.nodes[n]
    BY <1>4, <1>9
  <2> QED
    BY <2>1, <1>8
<1>11. ASSUME NEW r \in Slots
       PROVE  /\ d.orders[r].id = IF r = s THEN g.nextId ELSE g.orders[r].id
              /\ d.orders[r].data = IF r = s THEN data ELSE g.orders[r].data
              /\ d.orders[r].prev = IF r = s THEN last ELSE g.orders[r].prev
              /\ d.orders[r].next = IF r = s THEN NULL
                                    ELSE IF r = last THEN s ELSE g.orders[r].next
              /\ d.orders[r].nextInBin = IF r = s THEN NULL ELSE g.orders[r].nextInBin
  BY <1>1, <1>7, <1>9 DEF Allocated
<1>12. SameList(g, d) /\ d.nextId = g.nextId /\ d.fault = g.fault
  BY <1>1, <1>9, <1>10 DEF Allocated, SameList
<1>13. /\ d.free.first = g.orders[s].nextInBin
       /\ d.free.last = IF g.orders[s].nextInBin = NULL THEN NULL ELSE g.free.last
       /\ d.idMap[g.nextId % MapSize].first = s /\ d.idMap[g.nextId % MapSize].last = s
       /\ \A h \in Bins : h # g.nextId % MapSize => d.idMap[h] = g.idMap[h]
  BY <1>1, <1>9 DEF Allocated
<1>14. Placed(g, d, data, s, p)
  BY <1>9, <1>10, <1>11, <1>12, <1>13 DEF Placed, last
<1> QED
  BY <1>3, <1>14 DEF s, p

EnteredBook(e, d, data, s) ==
  /\ d.fault = e.fault /\ d.nextId = e.nextId + 1
  /\ \A r \in Slots : /\ d.orders[r].id = IF r = s THEN e.nextId ELSE e.orders[r].id
                      /\ d.orders[r].data = IF r = s THEN data ELSE e.orders[r].data

(* What limit changes altogether when it queues an order in the struct s.  *)
Entered(e, d, data, s) ==
  /\ EnteredBook(e, d, data, s) /\ Ordered(d)
  /\ \A r \in Slots : d.orders[r].nextInBin = IF r = s THEN NULL ELSE e.orders[r].nextInBin
  /\ d.free.first = e.orders[s].nextInBin
  /\ d.free.last = IF e.orders[s].nextInBin = NULL THEN NULL ELSE e.free.last
  /\ d.idMap[e.nextId % MapSize].first = s /\ d.idMap[e.nextId % MapSize].last = s
  /\ \A h \in Bins : h # e.nextId % MapSize => d.idMap[h] = e.idMap[h]

(* The next of the ids.                                                    *)
Numbered(c, d) == d = [c EXCEPT !.nextId = c.nextId + 1]

LEMMA EnqueueEnters ==
  ASSUME NEW e, Ordered(e), e.nextId <= MaxId, NEW data \in Order, data.size > 0,
         Uncrossed(e, data.side, data.price), NEW height \in 1 .. ListHeight,
         e.free.first \in Slots \ Rest(e), e.idMap[e.nextId % MapSize].first = NULL,
         NEW d, Numbered(Enqueue(e, data, height), d)
  PROVE  Entered(e, d, data, e.free.first)
<1> DEFINE g == Listing(e, data, height)
           c == Enqueue(e, data, height)
           p == data.price
           s == e.free.first
           A == AtPrice(e.orders, p)
<1>1. NodeReady(e, g, data, p)
  BY NodeEnters
<1>2. /\ g \in EngType /\ Listed(g) /\ Sided(g) /\ g.fault = e.fault
      /\ g.orders = e.orders /\ g.free = e.free /\ g.idMap = e.idMap /\ g.nextId = e.nextId
      /\ \A q \in Nodes : q # p => g.nodes[q] = e.nodes[q]
      /\ g.nodes[p].price = p /\ g.nodes[p].side = data.side
      /\ Queue(e.orders, A, g.nodes[p].first, g.nodes[p].last)
      /\ IF A = {} THEN g.nodes[p].first = NULL /\ g.nodes[p].last = NULL
         ELSE g.nodes[p].first \in A /\ g.nodes[p].last \in A
      /\ \A r \in A : e.orders[r].data.side = data.side /\ e.orders[r].data.size > 0
  BY <1>1 DEF NodeReady, SameBut
<1>3. /\ e \in EngType /\ Queued(e) /\ Sequenced(e) /\ p \in 1 .. MaxPrice /\ p \in Nodes
      /\ s \in Slots /\ s # NULL /\ e.orders[s].id = 0 /\ s \notin A
      /\ e.nextId \in Nat /\ e.nextId # 0
  <2>1. e \in EngType /\ Queued(e) /\ Sequenced(e)
    BY DEF Ordered
  <2>2. e.nextId \in Nat /\ e.nextId # 0
    BY <2>1, EngineBounds DEF EngType
  <2>3. s \in Slots /\ s # NULL /\ e.orders[s].id = 0 /\ s \notin A
    BY SlotFacts DEF Rest, AtPrice
  <2> QED
    BY <2>1, <2>2, <2>3, Ends DEF Order
<1>4. Placed(g, c, data, s, p)
  <2>1. g.nodes[p].last # s
    BY <1>2, <1>3
  <2>2. /\ g.nextId <= MaxId /\ g.free.first = s /\ s \in Slots
        /\ g.idMap[g.nextId % MapSize].first = NULL
    BY <1>2
  <2> QED
    BY <2>1, <2>2, <1>2, EnqueuePlaces
<1>5. /\ d \in EngType /\ d.nodes = c.nodes /\ d.nexts = c.nexts /\ d.prevs = c.prevs
      /\ d.bestBid = c.bestBid /\ d.bestAsk = c.bestAsk /\ d.orders = c.orders
      /\ d.free = c.free /\ d.idMap = c.idMap /\ d.fault = c.fault
      /\ d.nextId = e.nextId + 1
  <2>1. c \in EngType /\ c.nextId = e.nextId
    BY <1>2, <1>4 DEF Placed
  <2>2. e.nextId + 1 \in 1 .. MaxId + 1
    BY <1>3, EngineBounds
  <2>3. d = [c EXCEPT !.nextId = e.nextId + 1]
    BY <2>1 DEF Numbered
  <2> HIDE DEF c
  <2> QED
    BY <2>1, <2>2, <2>3 DEF EngType
<1> HIDE DEF g, c, s
<1>6. ASSUME NEW r \in Slots
      PROVE  /\ d.orders[r].id = IF r = s THEN e.nextId ELSE e.orders[r].id
             /\ d.orders[r].data = IF r = s THEN data ELSE e.orders[r].data
             /\ d.orders[r].prev = IF r = s THEN g.nodes[p].last ELSE e.orders[r].prev
             /\ d.orders[r].next = IF r = s THEN NULL
                                   ELSE IF r = g.nodes[p].last THEN s ELSE e.orders[r].next
             /\ d.orders[r].nextInBin = IF r = s THEN NULL ELSE e.orders[r].nextInBin
  BY <1>2, <1>4, <1>5 DEF Placed
<1>7. /\ d.fault = e.fault
      /\ d.free.first = e.orders[s].nextInBin
      /\ d.free.last = IF e.orders[s].nextInBin = NULL THEN NULL ELSE e.free.last
      /\ d.idMap[e.nextId % MapSize].first = s /\ d.idMap[e.nextId % MapSize].last = s
      /\ \A h \in Bins : h # e.nextId % MapSize => d.idMap[h] = e.idMap[h]
  BY <1>2, <1>4, <1>5 DEF Placed
<1>8. /\ SameList(g, d)
      /\ \A n \in Nodes :
           /\ n # p => d.nodes[n].first = g.nodes[n].first /\ d.nodes[n].last = g.nodes[n].last
           /\ n = p => /\ d.nodes[n].first = IF g.nodes[n].first = NULL THEN s
                                             ELSE g.nodes[n].first
                       /\ d.nodes[n].last = s
  BY <1>4, <1>5 DEF Placed, SameList
<1>9. Listed(d) /\ Sided(d)
  BY <1>2, <1>5, <1>8, ListKept
<1>10. \A r \in Slots : e.orders[r].id \in Nat /\ e.orders[r].id < e.nextId
  BY <1>3, RestFacts DEF Sequenced
<1>11. QueuedAt(d, p)
  <2>1. AtPrice(d.orders, p) = A \cup {s}
    BY <1>3, <1>6 DEF AtPrice
  <2>2. d.nodes[p].price = p /\ d.nodes[p].side = data.side
        /\ d.nodes[p].first = (IF A = {} THEN s ELSE g.nodes[p].first) /\ d.nodes[p].last = s
    <3>1. A # {} => g.nodes[p].first # NULL
      BY <1>2, SlotFacts DEF AtPrice
    <3> QED
      BY <3>1, <1>2, <1>3, <1>8 DEF SameList
  <2>3. ASSUME NEW r \in A \cup {s}
        PROVE  d.orders[r].data.side = data.side /\ d.orders[r].data.size > 0
    <3>1. CASE r = s
      BY <3>1, <1>3, <1>6
    <3>2. CASE r \in A
      <4>1. r \in Slots /\ r # s
        BY <3>2, <1>3 DEF AtPrice
      <4> QED
        BY <4>1, <3>2, <1>2, <1>6
    <3> QED
      BY <3>1, <3>2
  <2>4. Queue(d.orders, A \cup {s}, IF A = {} THEN s ELSE g.nodes[p].first, s)
    <3> DEFINE os == e.orders
               qs == d.orders
               first == g.nodes[p].first
               last == g.nodes[p].last
    <3>1. \A r \in A : r \in Slots /\ r # s
      BY <1>3 DEF AtPrice
    <3>2. Appended(os, qs, A, last, s)
      BY <3>1, <1>2, <1>3, <1>6, <1>10 DEF Appended
    <3>3. Queue(os, A, first, last) /\ NULL \notin A /\ (\A r \in A : os[r].id \in Nat)
          /\ qs[s].id \in Nat
      BY <3>1, <1>2, <1>3, <1>6, <1>10, SlotFacts
    <3>4. QueueJoined(os, qs, A, first, last, s)
      BY <3>2, <3>3, <1>3 DEF QueueJoined
    <3> HIDE DEF os, qs, first, last, A
    <3>5. Queue(qs, A \cup {s}, IF A = {} THEN s ELSE first, s)
      BY <3>4, QueueAppend
    <3> QED
      BY <3>5 DEF qs, first
  <2> HIDE DEF A
  <2> QED
    BY <2>1, <2>2, <2>3, <2>4 DEF QueuedAt
<1>12. ASSUME NEW q \in 1 .. MaxPrice, q # p
       PROVE  QueuedAt(d, q)
  <2>1. QueuedAt(e, q) /\ q \in Nodes
    BY <1>3, Ends DEF Queued
  <2>2. AtPrice(d.orders, q) = AtPrice(e.orders, q)
    BY <1>3, <1>6, <1>12 DEF AtPrice
  <2>3. /\ d.nodes[q].first = e.nodes[q].first /\ d.nodes[q].last = e.nodes[q].last
        /\ d.nodes[q].price = e.nodes[q].price /\ d.nodes[q].side = e.nodes[q].side
    BY <2>1, <1>2, <1>8, <1>12 DEF SameList
  <2>4. ASSUME NEW r \in AtPrice(e.orders, q)
        PROVE  r \in Slots /\ r # s /\ r # g.nodes[p].last
    <3>1. r \in Slots /\ r # s /\ r \notin A /\ r # NULL
      BY <1>3, <1>12, SlotFacts DEF AtPrice
    <3> QED
      BY <3>1, <1>2
  <2>5. SameQueue(e.orders, d.orders, AtPrice(e.orders, q))
    BY <2>4, <1>6 DEF SameQueue
  <2>6. Queue(e.orders, AtPrice(e.orders, q), e.nodes[q].first, e.nodes[q].last)
    BY <2>1 DEF QueuedAt
  <2>7. Queue(d.orders, AtPrice(d.orders, q), d.nodes[q].first, d.nodes[q].last)
    BY <2>2, <2>3, <2>5, <2>6, QueueKept
  <2>8. \A r \in AtPrice(e.orders, q) : d.orders[r].data = e.orders[r].data
    BY <2>4, <1>6
  <2> QED
    BY <2>1, <2>2, <2>3, <2>7, <2>8 DEF QueuedAt
<1>13. Sequenced(d)
  <2>1. \A r \in Slots : d.orders[r].id < d.nextId
    BY <1>3, <1>5, <1>6, <1>10
  <2>2. ASSUME NEW r \in Rest(d), NEW t \in Rest(d), d.orders[r].id = d.orders[t].id
        PROVE  r = t
    <3>1. r \in Slots /\ t \in Slots /\ d.orders[r].id # 0 /\ d.orders[t].id # 0
      BY DEF Rest
    <3>2. r # s /\ t # s => r \in Rest(e) /\ t \in Rest(e) /\ e.orders[r].id = e.orders[t].id
      BY <3>1, <2>2, <1>6 DEF Rest
    <3>3. r # s /\ t # s => r = t
      BY <3>2, <1>3 DEF Sequenced
    <3>4. ~ (r = s /\ t # s) /\ ~ (r # s /\ t = s)
      BY <3>1, <2>2, <1>3, <1>6, <1>10
    <3> QED
      BY <3>3, <3>4
  <2> QED
    BY <2>1, <2>2 DEF Sequenced
<1>14. Ordered(d)
  BY <1>5, <1>9, <1>11, <1>12, <1>13 DEF Ordered, Queued
<1>15. EnteredBook(e, d, data, s)
  BY <1>5, <1>6, <1>7 DEF EnteredBook
<1>16. Entered(e, d, data, s)
  BY <1>6, <1>7, <1>14, <1>15 DEF Entered
<1> QED
  BY <1>16 DEF s

LEMMA PoolShrinks ==
  ASSUME NEW e, e.nextId # 0, NEW F, NEW fl, Pool(e, F, fl), F > 0, NEW d, NEW data,
         Entered(e, d, data, e.free.first)
  PROVE  \E gl : Pool(d, F - 1, gl)
<1> DEFINE s == e.free.first
           gl == [i \in 1 .. F - 1 |-> fl[i + 1]]
<1>1. /\ F \in Nat /\ fl \in [1 .. F -> Slots]
      /\ \A i, j \in 1 .. F : fl[i] = fl[j] => i = j
      /\ \A i \in 1 .. F : e.orders[fl[i]].nextInBin = IF i = F THEN NULL ELSE fl[i + 1]
      /\ \A r \in Slots : e.orders[r].id = 0 <=> \E i \in 1 .. F : fl[i] = r
      /\ s = fl[1] /\ e.free.last = fl[F]
  BY DEF Pool
<1>2. /\ \A r \in Slots : /\ d.orders[r].id = IF r = s THEN e.nextId ELSE e.orders[r].id
                          /\ d.orders[r].nextInBin = IF r = s THEN NULL
                                                     ELSE e.orders[r].nextInBin
      /\ d.free.first = e.orders[s].nextInBin
      /\ d.free.last = IF e.orders[s].nextInBin = NULL THEN NULL ELSE e.free.last
  BY DEF Entered, EnteredBook
<1> HIDE DEF s
<1>3. /\ F - 1 \in Nat /\ gl \in [1 .. F - 1 -> Slots]
      /\ \A i \in 1 .. F - 1 : gl[i] = fl[i + 1] /\ i \in 1 .. F /\ i + 1 \in 1 .. F /\ i + 1 # 1
      /\ \A i \in 1 .. F : i # 1 => i - 1 \in 1 .. F - 1 /\ i - 1 + 1 = i
      /\ 1 \in 1 .. F /\ F \in 1 .. F
  BY <1>1
<1>4. s \in Slots /\ e.orders[s].nextInBin = IF F = 1 THEN NULL ELSE fl[2]
  BY <1>1, <1>3
<1>5. \A i, j \in 1 .. F - 1 : gl[i] = gl[j] => i = j
  <2> SUFFICES ASSUME NEW i \in 1 .. F - 1, NEW j \in 1 .. F - 1, gl[i] = gl[j]
               PROVE  i = j
    OBVIOUS
  <2>1. fl[i + 1] = fl[j + 1] /\ i + 1 \in 1 .. F /\ j + 1 \in 1 .. F
    BY <1>3
  <2>2. i + 1 = j + 1
    BY <2>1, <1>1
  <2> QED
    BY <2>2
<1>6. ASSUME NEW i \in 1 .. F, i # 1
      PROVE  fl[i] # s /\ fl[i] \in Slots
  BY <1>1, <1>3, <1>6
<1> HIDE DEF gl
<1>7. ASSUME NEW r \in Slots
      PROVE  d.orders[r].id = 0 <=> \E i \in 1 .. F - 1 : gl[i] = r
  <2>1. CASE r = s
    <3>1. d.orders[r].id # 0
      BY <2>1, <1>2
    <3>2. \A i \in 1 .. F - 1 : gl[i] # s
      BY <1>3, <1>6
    <3> QED
      BY <2>1, <3>1, <3>2
  <2>2. CASE r # s
    <3>1. d.orders[r].id = e.orders[r].id
      BY <2>2, <1>2
    <3>2. ASSUME NEW i \in 1 .. F, fl[i] = r
          PROVE  \E j \in 1 .. F - 1 : gl[j] = r
      <4>1. i # 1
        BY <2>2, <3>2, <1>1
      <4>2. i - 1 \in 1 .. F - 1 /\ i - 1 + 1 = i
        BY <4>1, <1>3
      <4>3. gl[i - 1] = fl[i - 1 + 1]
        BY <4>2, <1>3
      <4> QED
        BY <4>2, <4>3, <3>2
    <3>3. ASSUME NEW i \in 1 .. F - 1, gl[i] = r
          PROVE  \E j \in 1 .. F : fl[j] = r
      BY <3>3, <1>3
    <3> QED
      BY <3>1, <3>2, <3>3, <1>1
  <2> QED
    BY <2>1, <2>2
<1>8. ASSUME NEW i \in 1 .. F - 1
      PROVE  d.orders[gl[i]].nextInBin = IF i = F - 1 THEN NULL ELSE gl[i + 1]
  <2>1. /\ gl[i] = fl[i + 1] /\ i + 1 \in 1 .. F /\ i + 1 # 1
        /\ i = F - 1 <=> i + 1 = F
    BY <1>1, <1>3
  <2>2. d.orders[gl[i]].nextInBin = e.orders[fl[i + 1]].nextInBin
    BY <2>1, <1>2, <1>6
  <2>3. i # F - 1 => i + 1 \in 1 .. F - 1
    BY <1>1
  <2> QED
    BY <2>1, <2>2, <2>3, <1>1, <1>3
<1>9. /\ d.free.first = IF F - 1 = 0 THEN NULL ELSE gl[1]
      /\ d.free.last = IF F - 1 = 0 THEN NULL ELSE gl[F - 1]
  <2>1. F - 1 = 0 <=> F = 1
    BY <1>1
  <2>2. CASE F = 1
    BY <2>1, <2>2, <1>2, <1>4
  <2>3. CASE F # 1
    <3>1. 1 \in 1 .. F - 1 /\ F - 1 \in 1 .. F - 1 /\ 1 + 1 = 2 /\ F - 1 + 1 = F /\ 2 \in 1 .. F
      BY <2>3, <1>1
    <3>2. gl[1] = fl[2] /\ gl[F - 1] = fl[F] /\ fl[2] \in Slots
      BY <3>1, <1>1, <1>3
    <3>3. fl[2] # NULL
      BY <3>2, SlotFacts
    <3> QED
      BY <2>1, <2>3, <3>2, <3>3, <1>1, <1>2, <1>4
  <2> QED
    BY <2>2, <2>3
<1> QED
  BY <1>3, <1>5, <1>7, <1>8, <1>9 DEF Pool

LEMMA MapGrows ==
  ASSUME NEW e \in EngType, Mapped(e), NEW s \in Slots, s \notin Rest(e), NEW d, NEW data,
         \A r \in Rest(e) : BinOf(e, r) # e.nextId % MapSize, Entered(e, d, data, s)
  PROVE  Mapped(d)
<1> SUFFICES ASSUME NEW h \in Bins
             PROVE  BinHolds(d, h)
  BY DEF Mapped
<1>1. e.nextId # 0 /\ s # NULL
  <2>1. e.nextId \in 1 .. MaxId + 1
    BY DEF EngType
  <2> QED
    BY <2>1, EngineBounds, SlotFacts
<1>2. /\ \A r \in Slots : /\ d.orders[r].id = IF r = s THEN e.nextId ELSE e.orders[r].id
                          /\ d.orders[r].nextInBin = IF r = s THEN NULL
                                                     ELSE e.orders[r].nextInBin
      /\ d.idMap[e.nextId % MapSize].first = s /\ d.idMap[e.nextId % MapSize].last = s
      /\ \A j \in Bins : j # e.nextId % MapSize => d.idMap[j] = e.idMap[j]
  BY DEF Entered, EnteredBook
<1>3. \A r : r \in Rest(d) <=> r \in Rest(e) \/ r = s
  BY <1>1, <1>2 DEF Rest
<1>4. BinOf(d, s) = e.nextId % MapSize
  BY <1>2 DEF BinOf
<1>5. \A r \in Rest(e) : r # s /\ r \in Slots /\ BinOf(d, r) = BinOf(e, r)
  BY <1>2 DEF Rest, BinOf
<1>6. CASE h = e.nextId % MapSize
  <2>1. d.orders[s].nextInBin = NULL
    BY <1>2
  <2>2. \A r \in Rest(d) : BinOf(d, r) = h <=> r = s
    BY <1>3, <1>4, <1>5, <1>6
  <2>3. s \in Rest(d) /\ d.idMap[h].first = s /\ d.idMap[h].last = s
    BY <1>2, <1>3, <1>6
  <2> QED
    BY <2>1, <2>2, <2>3, <1>1 DEF BinHolds
<1>7. CASE h # e.nextId % MapSize
  <2>1. d.idMap[h] = e.idMap[h] /\ BinHolds(e, h)
    BY <1>2, <1>7 DEF Mapped
  <2>2. CASE e.idMap[h].first = NULL
    BY <2>1, <2>2, <1>3, <1>4, <1>5, <1>7 DEF BinHolds
  <2>3. CASE e.idMap[h].first # NULL
    <3> DEFINE t == e.idMap[h].first
    <3>1. /\ t \in Rest(e) /\ e.orders[t].nextInBin = NULL /\ e.idMap[h].last = t
          /\ \A r \in Rest(e) : BinOf(e, r) = h <=> r = t
      BY <2>1, <2>3 DEF BinHolds
    <3>2. t # s /\ t \in Slots /\ t \in Rest(d)
      BY <3>1, <1>3, <1>5
    <3>3. d.orders[t].nextInBin = NULL
      BY <3>1, <3>2, <1>2
    <3>4. \A r \in Rest(d) : BinOf(d, r) = h <=> r = t
      BY <3>1, <3>2, <1>3, <1>4, <1>5, <1>7
    <3> QED
      BY <2>1, <2>3, <3>1, <3>2, <3>3, <3>4 DEF BinHolds
  <2> QED
    BY <2>2, <2>3
<1> QED
  BY <1>6, <1>7

(* limit queues an order that is alone in its bin.                         *)
LEMMA OrderEnters ==
  ASSUME NEW e, NEW F, NEW fl, Whole(e, F, fl), F > 0, e.nextId <= MaxId,
         NEW data \in Order, data.size > 0, Uncrossed(e, data.side, data.price),
         NEW height \in 1 .. ListHeight,
         \A r \in Rest(e) : BinOf(e, r) # e.nextId % MapSize,
         NEW d, Numbered(Enqueue(e, data, height), d)
  PROVE  /\ \E s \in Slots \ Rest(e) : EnteredBook(e, d, data, s)
         /\ \E gl : Whole(d, F - 1, gl)
<1> DEFINE s == e.free.first
<1>1. Ordered(e) /\ e \in EngType /\ Mapped(e) /\ Pool(e, F, fl)
  BY DEF Whole, Ordered
<1>2. s \in Slots \ Rest(e)
  <2>1. F \in Nat /\ 1 \in 1 .. F /\ s = fl[1] /\ fl[1] \in Slots
    BY <1>1 DEF Pool
  <2> QED
    BY <2>1, <1>1 DEF Pool, Rest
<1>3. e.nextId \in Nat /\ e.nextId # 0
  <2>1. e.nextId \in 1 .. MaxId + 1
    BY <1>1 DEF EngType
  <2> QED
    BY <2>1, EngineBounds
<1>4. e.idMap[e.nextId % MapSize].first = NULL
  <2>1. BinHolds(e, e.nextId % MapSize)
    BY <1>1, <1>3, ModBins DEF Mapped
  <2> QED
    BY <2>1 DEF BinHolds
<1>5. Entered(e, d, data, s)
  BY <1>1, <1>2, <1>4, EnqueueEnters
<1>6. \E gl : Pool(d, F - 1, gl)
  BY <1>1, <1>3, <1>5, PoolShrinks
<1>7. Mapped(d)
  BY <1>1, <1>2, <1>5, MapGrows
<1>8. Ordered(d) /\ EnteredBook(e, d, data, s)
  BY <1>5 DEF Entered
<1> QED
  BY <1>2, <1>6, <1>7, <1>8 DEF Whole

-----------------------------------------------------------------------------
(* How many structs are free.                                              *)

LEMMA PoolCount ==
  ASSUME NEW e, NEW F, NEW fl, Pool(e, F, fl)
  PROVE  /\ F <= MaxLive
         /\ \A n \in 0 .. MaxLive :
              Chain(e, e.free.first)[n] = IF n < F THEN fl[n + 1] ELSE NULL
         /\ Linked(e, e.free.first) = Slots \ Rest(e)
         /\ Cardinality(Linked(e, e.free.first)) = F
<1> DEFINE Free == Slots \ Rest(e)
           c == [n \in 0 .. MaxLive |-> IF n < F THEN fl[n + 1] ELSE NULL]
<1>1. /\ F \in Nat /\ fl \in [1 .. F -> Slots]
      /\ \A i, j \in 1 .. F : fl[i] = fl[j] => i = j
      /\ \A i \in 1 .. F : e.orders[fl[i]].nextInBin = IF i = F THEN NULL ELSE fl[i + 1]
      /\ \A r \in Slots : e.orders[r].id = 0 <=> \E i \in 1 .. F : fl[i] = r
      /\ e.free.first = IF F = 0 THEN NULL ELSE fl[1]
  BY DEF Pool
<1>2. \A i \in 1 .. F : fl[i] \in Slots /\ fl[i] # NULL /\ fl[i] \in Free
  BY <1>1, SlotFacts DEF Rest
<1>3. F <= MaxLive
  <2>1. fl \in Injection(1 .. F, Slots)
    BY <1>1, Fun_IsInj
  <2>2. IsFiniteSet(Slots) /\ Cardinality(Slots) = MaxLive
    BY SlotFacts, FS_Interval
  <2>3. Cardinality(1 .. F) = F
    BY <1>1, FS_Interval
  <2> QED
    BY <2>1, <2>2, <2>3, FS_Injection
<1>4. ASSUME NEW n \in 0 .. MaxLive
      PROVE  /\ c[n] = IF n < F THEN fl[n + 1] ELSE NULL
             /\ n < F => n + 1 \in 1 .. F
             /\ n # 0 => n - 1 \in 0 .. MaxLive /\ n - 1 + 1 = n /\ (n - 1 < F <=> n <= F)
             /\ n \in Nat
  BY <1>1, SlotFacts
<1> HIDE DEF c, Free
<1>5. ASSUME NEW n \in 0 .. MaxLive
      PROVE  ChainStep(e, e.free.first, c, n)
  <2>1. CASE n = 0
    BY <2>1, <1>1, <1>4 DEF ChainStep
  <2>2. CASE n # 0
    <3>1. c[n - 1] = IF n <= F THEN fl[n] ELSE NULL
      BY <2>2, <1>4
    <3>2. CASE n <= F
      <4>1. n \in 1 .. F /\ fl[n] # NULL /\ c[n - 1] = fl[n]
        BY <2>2, <3>1, <3>2, <1>2, <1>4
      <4>2. e.orders[fl[n]].nextInBin = c[n]
        BY <4>1, <3>2, <1>1, <1>4
      <4> QED
        BY <4>1, <4>2, <2>2 DEF ChainStep
    <3>3. CASE ~ (n <= F)
      <4>1. c[n - 1] = NULL /\ c[n] = NULL
        BY <3>1, <3>3, <1>1, <1>4
      <4> QED
        BY <4>1, <2>2 DEF ChainStep
    <3> QED
      BY <3>2, <3>3
  <2> QED
    BY <2>1, <2>2
<1>6. \A n \in 0 .. MaxLive : Chain(e, e.free.first)[n] = c[n]
  BY <1>5, ChainValues
<1>7. Linked(e, e.free.first) = Free
  <2>1. ASSUME NEW n \in 0 .. MaxLive, c[n] # NULL
        PROVE  c[n] \in Free
    BY <2>1, <1>2, <1>4
  <2>2. ASSUME NEW r \in Free
        PROVE  r # NULL /\ \E n \in 0 .. MaxLive : c[n] = r
    <3>1. r \in Slots /\ e.orders[r].id = 0
      BY DEF Free, Rest
    <3>2. PICK i \in 1 .. F : fl[i] = r
      BY <3>1, <1>1
    <3>3. i - 1 \in 0 .. MaxLive /\ i - 1 < F /\ i - 1 + 1 = i
      BY <1>1, <1>3, SlotFacts
    <3>4. c[i - 1] = r
      BY <3>2, <3>3, <1>4
    <3> QED
      BY <3>1, <3>3, <3>4, SlotFacts
  <2>3. Linked(e, e.free.first) = {c[n] : n \in 0 .. MaxLive} \ {NULL}
    BY <1>6 DEF Linked
  <2> QED
    BY <2>1, <2>2, <2>3
<1>8. Cardinality(Free) = F
  <2>1. fl \in [1 .. F -> Free]
    BY <1>1, <1>2
  <2>2. \A r \in Free : \E i \in 1 .. F : fl[i] = r
    BY <1>1 DEF Free, Rest
  <2>3. fl \in Bijection(1 .. F, Free)
    BY <2>1, <2>2, <1>1, Fun_IsBij
  <2>4. ExistsBijection(1 .. F, Free)
    BY <2>3 DEF ExistsBijection
  <2> QED
    BY <2>4, <1>1, FS_CountingElements
<1> QED
  BY <1>3, <1>4, <1>6, <1>7, <1>8 DEF Free

-----------------------------------------------------------------------------
(* An order trades and stays.                                              *)

TradedBook(e, d, s, q) ==
  /\ d.fault = e.fault /\ d.nextId = e.nextId
  /\ \A r \in Slots :
       /\ d.orders[r].id = e.orders[r].id
       /\ d.orders[r].data = IF r = s THEN [e.orders[r].data EXCEPT !.size = @ - q]
                             ELSE e.orders[r].data

Reduced(e, d, s, q) == d = [e EXCEPT !.orders[s].data.size = @ - q]

LEMMA OrderTrades ==
  ASSUME NEW e, NEW F, NEW fl, Whole(e, F, fl), NEW s \in Slots,
         NEW q \in Nat, q < e.orders[s].data.size, NEW d, Reduced(e, d, s, q)
  PROVE  TradedBook(e, d, s, q) /\ Whole(d, F, fl)
<1> DEFINE o == e.orders[s]
           data == [o.data EXCEPT !.size = o.data.size - q]
           order == [o EXCEPT !.data = data]
<1>1. /\ Ordered(e) /\ e \in EngType /\ Mapped(e) /\ Pool(e, F, fl)
      /\ e.orders \in [Slots -> OrderType] /\ o \in OrderType /\ o.data \in Order
      /\ o.data.size \in 0 .. MaxSize
  <2>1. Ordered(e) /\ e \in EngType /\ Mapped(e) /\ Pool(e, F, fl)
    BY DEF Whole, Ordered
  <2>2. e.orders \in [Slots -> OrderType] /\ o \in OrderType
    BY <2>1 DEF EngType
  <2>3. o.data \in Order
    BY <2>2 DEF OrderType
  <2>4. o.data.size \in 0 .. MaxSize
    BY <2>3 DEF Order
  <2> QED
    BY <2>1, <2>2, <2>3, <2>4
<1>2. d = [e EXCEPT !.orders = [e.orders EXCEPT ![s] = order]]
  BY DEF Reduced
<1>3. o.data.size - q \in 0 .. MaxSize /\ o.data.size - q > 0
  BY <1>1, EngineBounds
<1> HIDE DEF o
<1>4. /\ data \in Order /\ data.price = o.data.price /\ data.side = o.data.side
      /\ data.size = o.data.size - q /\ data = [o.data EXCEPT !.size = o.data.size - q]
  BY <1>1, <1>3 DEF Order
<1> HIDE DEF data
<1>5. /\ order \in OrderType /\ order.data = data /\ order.id = o.id /\ order.next = o.next
      /\ order.prev = o.prev /\ order.nextInBin = o.nextInBin
  BY <1>1, <1>4 DEF OrderType
<1> HIDE DEF order
<1>6. /\ d \in EngType /\ d.orders = [e.orders EXCEPT ![s] = order]
      /\ d.nodes = e.nodes /\ d.nexts = e.nexts /\ d.prevs = e.prevs
      /\ d.bestBid = e.bestBid /\ d.bestAsk = e.bestAsk
      /\ d.nextId = e.nextId /\ d.fault = e.fault /\ d.free = e.free /\ d.idMap = e.idMap
  BY <1>1, <1>2, <1>5 DEF EngType
<1>7. ASSUME NEW r \in Slots
      PROVE  /\ d.orders[r].id = e.orders[r].id
             /\ d.orders[r].next = e.orders[r].next /\ d.orders[r].prev = e.orders[r].prev
             /\ d.orders[r].nextInBin = e.orders[r].nextInBin
             /\ d.orders[r].data = IF r = s THEN data ELSE e.orders[r].data
  BY <1>1, <1>5, <1>6 DEF o
<1>8. SameBook(e, d)
  <2>1. SameList(e, d) /\ e.nextId <= d.nextId
    BY <1>1, <1>6, RestFacts, SlotFacts DEF SameList
  <2>2. ASSUME NEW r \in Slots
        PROVE  /\ d.orders[r].data.price = e.orders[r].data.price
               /\ d.orders[r].data.side = e.orders[r].data.side
               /\ e.orders[r].data.size > 0 => d.orders[r].data.size > 0
    BY <1>3, <1>4, <1>7 DEF o
  <2> QED
    BY <2>1, <2>2, <1>6, <1>7 DEF SameBook
<1>9. Ordered(d) /\ Rest(d) = Rest(e)
  BY <1>1, <1>6, <1>8, OrderedKept
<1>10. Mapped(d)
  <2> SUFFICES ASSUME NEW h \in Bins
               PROVE  BinHolds(d, h)
    BY DEF Mapped
  <2>1. BinHolds(e, h) /\ d.idMap[h] = e.idMap[h]
    BY <1>1, <1>6 DEF Mapped
  <2>2. \A r \in Rest(e) : BinOf(d, r) = BinOf(e, r)
                           /\ d.orders[r].nextInBin = e.orders[r].nextInBin
    BY <1>7 DEF Rest, BinOf
  <2> QED
    BY <2>1, <2>2, <1>9 DEF BinHolds
<1>11. Pool(d, F, fl)
  <2>1. /\ F \in Nat /\ fl \in [1 .. F -> Slots]
        /\ \A i, j \in 1 .. F : fl[i] = fl[j] => i = j
        /\ \A i \in 1 .. F : e.orders[fl[i]].nextInBin = IF i = F THEN NULL ELSE fl[i + 1]
        /\ \A r \in Slots : e.orders[r].id = 0 <=> \E i \in 1 .. F : fl[i] = r
        /\ e.free.first = IF F = 0 THEN NULL ELSE fl[1]
        /\ e.free.last = IF F = 0 THEN NULL ELSE fl[F]
    BY <1>1 DEF Pool
  <2>2. \A i \in 1 .. F : fl[i] \in Slots
    BY <2>1
  <2> QED
    BY <2>1, <2>2, <1>6, <1>7 DEF Pool
<1>12. TradedBook(e, d, s, q)
  <2>1. data = [e.orders[s].data EXCEPT !.size = e.orders[s].data.size - q]
    BY <1>4 DEF o
  <2> QED
    BY <2>1, <1>6, <1>7 DEF TradedBook
<1> QED
  BY <1>9, <1>10, <1>11, <1>12 DEF Whole

(* The id of an order that leaves nothing to queue is used up.             *)
LEMMA IdUsed ==
  ASSUME NEW e, NEW F, NEW fl, Whole(e, F, fl), e.nextId <= MaxId, NEW d, Numbered(e, d)
  PROVE  Whole(d, F, fl) /\ d.fault = e.fault /\ d.orders = e.orders /\ d.nextId = e.nextId + 1
<1>1. Ordered(e) /\ e \in EngType /\ Mapped(e) /\ Pool(e, F, fl)
  BY DEF Whole, Ordered
<1>2. e.nextId \in Nat /\ e.nextId + 1 \in 1 .. MaxId + 1
  <2>1. e.nextId \in 1 .. MaxId + 1
    BY <1>1 DEF EngType
  <2> QED
    BY <2>1, EngineBounds
<1>3. /\ d \in EngType /\ d.orders = e.orders
      /\ d.nodes = e.nodes /\ d.nexts = e.nexts /\ d.prevs = e.prevs
      /\ d.bestBid = e.bestBid /\ d.bestAsk = e.bestAsk
      /\ d.nextId = e.nextId + 1 /\ d.fault = e.fault /\ d.free = e.free /\ d.idMap = e.idMap
  BY <1>1, <1>2 DEF EngType, Numbered
<1>4. SameBook(e, d)
  BY <1>2, <1>3 DEF SameBook, SameList
<1>5. Ordered(d)
  BY <1>1, <1>3, <1>4, OrderedKept
<1>6. Rest(d) = Rest(e) /\ \A r : BinOf(d, r) = BinOf(e, r)
  BY <1>3 DEF Rest, BinOf
<1>7. Mapped(d)
  <2> SUFFICES ASSUME NEW h \in Bins
               PROVE  BinHolds(d, h)
    BY DEF Mapped
  <2>1. BinHolds(e, h)
    BY <1>1 DEF Mapped
  <2> QED
    BY <2>1, <1>3, <1>6 DEF BinHolds
<1>8. Pool(d, F, fl)
  BY <1>1, <1>3 DEF Pool
<1> QED
  BY <1>3, <1>5, <1>7, <1>8 DEF Whole

Faulty(e, d) == d = [e EXCEPT !.fault = TRUE]

LEMMA FaultKeeps ==
  ASSUME NEW e, NEW F, NEW fl, Whole(e, F, fl), NEW d, Faulty(e, d)
  PROVE  Whole(d, F, fl) /\ d.orders = e.orders /\ d.nextId = e.nextId /\ d.fault
<1>1. Ordered(e) /\ e \in EngType /\ Mapped(e) /\ Pool(e, F, fl)
  BY DEF Whole, Ordered
<1>2. /\ d \in EngType /\ d.orders = e.orders
      /\ d.nodes = e.nodes /\ d.nexts = e.nexts /\ d.prevs = e.prevs
      /\ d.bestBid = e.bestBid /\ d.bestAsk = e.bestAsk
      /\ d.nextId = e.nextId /\ d.fault /\ d.free = e.free /\ d.idMap = e.idMap
  BY <1>1 DEF EngType, Faulty
<1>3. SameBook(e, d)
  BY <1>1, <1>2, RestFacts, SlotFacts DEF SameBook, SameList
<1>4. Ordered(d)
  BY <1>1, <1>2, <1>3, OrderedKept
<1>5. Rest(d) = Rest(e) /\ \A r : BinOf(d, r) = BinOf(e, r)
  BY <1>2 DEF Rest, BinOf
<1>6. Mapped(d)
  <2> SUFFICES ASSUME NEW h \in Bins
               PROVE  BinHolds(d, h)
    BY DEF Mapped
  <2>1. BinHolds(e, h)
    BY <1>1 DEF Mapped
  <2> QED
    BY <2>1, <1>2, <1>5 DEF BinHolds
<1>7. Pool(d, F, fl)
  BY <1>1, <1>2 DEF Pool
<1> QED
  BY <1>2, <1>4, <1>6, <1>7 DEF Whole

-----------------------------------------------------------------------------
(* The best order.                                                         *)

LEMMA RestListed ==
  ASSUME NEW e, Ordered(e), NEW r \in Rest(e)
  PROVE  /\ e.orders[r].data.price \in Used(e) /\ r \in AtPrice(e.orders, e.orders[r].data.price)
         /\ e.nodes[e.orders[r].data.price].price = e.orders[r].data.price
         /\ e.nodes[e.orders[r].data.price].side = e.orders[r].data.side
         /\ e.orders[r].data.size > 0
<1> DEFINE p == e.orders[r].data.price
<1>1. e \in EngType /\ Queued(e) /\ r \in Slots
  BY DEF Ordered, Rest
<1>2. p \in 1 .. MaxPrice /\ r \in AtPrice(e.orders, p)
  BY <1>1, RestFacts DEF AtPrice, Rest
<1>3. QueuedAt(e, p)
  BY <1>1, <1>2 DEF Queued
<1> HIDE DEF p
<1>4. e.nodes[p].price = p /\ e.orders[r].data.side = e.nodes[p].side /\ e.orders[r].data.size > 0
  BY <1>2, <1>3 DEF QueuedAt
<1>5. p \in Used(e)
  BY <1>2, <1>4 DEF Used
<1> QED
  BY <1>2, <1>4, <1>5 DEF p

(* The order that consume_node trades with: s rests at b.                  *)
FirstAtBest(e, o, b, s) ==
  /\ s \in Rest(e) /\ s \in AtPrice(e.orders, b) /\ e.orders[s].data.price = b /\ b \in Nat
  /\ e.orders[s].data.side # o.side /\ e.orders[s].data.size > 0
  /\ IF o.side = "bid" THEN b <= o.price ELSE b >= o.price
  /\ \A r \in AtPrice(e.orders, b) : e.orders[s].id <= e.orders[r].id
  /\ \A r \in Rest(e) : e.orders[r].data.side # o.side =>
       IF o.side = "bid" THEN b <= e.orders[r].data.price ELSE b >= e.orders[r].data.price

LEMMA BestOrder ==
  ASSUME Ordered(eng), NEW o \in Order, CrossesBest(o)
  PROVE  FirstAtBest(eng, o, Best(o), eng.nodes[Best(o)].first)
<1> DEFINE b == Best(o)
           s == eng.nodes[b].first
<1>1. /\ eng \in EngType /\ Listed(eng) /\ Sided(eng) /\ Queued(eng)
      /\ o.side \in {"bid", "ask"} /\ o.price \in Nat
  BY DEF Ordered, Order, Sides
<1>2. /\ b \in Used(eng) /\ eng.nodes[b].side # o.side
      /\ IF o.side = "bid" THEN eng.nodes[b].price <= o.price ELSE eng.nodes[b].price >= o.price
  BY <1>1 DEF Best, CrossesBest, Sided
<1>3. b \in 1 .. MaxPrice /\ b \in Nat /\ eng.nodes[b].price # 0 /\ b # 0
  BY <1>2, EngineBounds DEF Used
<1> HIDE DEF b
<1>4. QueuedAt(eng, b)
  BY <1>1, <1>3 DEF Queued
<1>5. /\ AtPrice(eng.orders, b) # {} /\ eng.nodes[b].price = b
      /\ Queue(eng.orders, AtPrice(eng.orders, b), eng.nodes[b].first, eng.nodes[b].last)
      /\ \A r \in AtPrice(eng.orders, b) : /\ eng.orders[r].data.side = eng.nodes[b].side
                                           /\ eng.orders[r].data.size > 0
  BY <1>3, <1>4 DEF QueuedAt
<1>6. /\ s \in AtPrice(eng.orders, b)
      /\ \A r \in AtPrice(eng.orders, b) : eng.orders[s].id <= eng.orders[r].id
  BY <1>5 DEF Queue
<1> HIDE DEF s
<1>7. s \in Rest(eng) /\ eng.orders[s].data.price = b
  BY <1>6 DEF AtPrice, Rest
<1>8. ASSUME NEW r \in Rest(eng), eng.orders[r].data.side # o.side
      PROVE  IF o.side = "bid" THEN b <= eng.orders[r].data.price
                               ELSE b >= eng.orders[r].data.price
  <2> DEFINE p == eng.orders[r].data.price
  <2>1. p \in Used(eng) /\ eng.nodes[p].side # o.side
    BY <1>8, RestListed
  <2>2. eng.nodes[p].side \in {"bid", "ask"}
    BY <2>1, <1>1, Ends DEF EngType, NodeType, Sides, Used
  <2> HIDE DEF p
  <2>3. IF o.side = "bid" THEN p >= eng.bestAsk ELSE p <= eng.bestBid
    BY <2>1, <2>2, <1>1 DEF Sided
  <2>4. b = IF o.side = "bid" THEN eng.bestAsk ELSE eng.bestBid
    BY <1>1 DEF b, Best
  <2>5. p \in Nat
    BY <2>1 DEF Used
  <2>6. IF o.side = "bid" THEN b <= p ELSE b >= p
    BY <2>3, <2>4, <2>5, <1>3
  <2> QED
    BY <2>6 DEF p
<1>9. FirstAtBest(eng, o, b, s)
  BY <1>2, <1>3, <1>5, <1>6, <1>7, <1>8 DEF FirstAtBest
<1> QED
  BY <1>9 DEF b, s

(* An order that crosses no best node crosses no order.                    *)
LEMMA NoBestOrder ==
  ASSUME Ordered(eng), NEW o \in Order, ~ CrossesBest(o)
  PROVE  /\ Uncrossed(eng, o.side, o.price)
         /\ \A r \in Rest(eng) : eng.orders[r].data.side # o.side =>
              IF o.side = "bid" THEN o.price < eng.orders[r].data.price
                                ELSE eng.orders[r].data.price < o.price
<1>1. /\ eng \in EngType /\ Listed(eng) /\ Sided(eng)
      /\ o.side \in {"bid", "ask"} /\ o.price \in 1 .. MaxPrice
  BY DEF Ordered, Order, Sides
<1>2. /\ eng.bestBid \in Nat /\ eng.bestAsk \in Nat /\ MaxPrice \in Nat
      /\ eng.bestAsk # Top => eng.bestAsk \in Used(eng)
      /\ eng.bestBid # Bottom => eng.bestBid \in Used(eng)
  BY <1>1, Ends DEF EngType, Sided
<1>3. \A p \in Used(eng) : eng.nodes[p].price = p
  BY <1>1, Ends DEF Listed, Used
<1>4. IF o.side = "bid" THEN o.price < eng.bestAsk ELSE eng.bestBid < o.price
  <2>1. CASE o.side = "bid"
    <3>1. eng.bestAsk # Top => ~ (eng.nodes[eng.bestAsk].price <= o.price)
      BY <2>1 DEF CrossesBest
    <3>2. eng.bestAsk # Top => ~ (eng.bestAsk <= o.price)
      BY <3>1, <1>2, <1>3
    <3>3. o.price < Top
      BY <1>1, <1>2, Ends
    <3> QED
      BY <2>1, <3>2, <3>3, <1>1, <1>2
  <2>2. CASE o.side = "ask"
    <3>1. eng.bestBid # Bottom => ~ (eng.nodes[eng.bestBid].price >= o.price)
      BY <2>2 DEF CrossesBest
    <3>2. eng.bestBid # Bottom => ~ (eng.bestBid >= o.price)
      BY <3>1, <1>2, <1>3
    <3>3. Bottom < o.price
      BY <1>1, <1>2, Ends
    <3> QED
      BY <2>2, <3>2, <3>3, <1>1, <1>2
  <2> QED
    BY <2>1, <2>2, <1>1
<1>5. ASSUME NEW r \in Rest(eng), eng.orders[r].data.side # o.side
      PROVE  IF o.side = "bid" THEN o.price < eng.orders[r].data.price
                               ELSE eng.orders[r].data.price < o.price
  <2> DEFINE p == eng.orders[r].data.price
  <2>1. p \in Used(eng) /\ eng.nodes[p].side # o.side
    BY <1>5, RestListed
  <2>2. eng.nodes[p].side \in {"bid", "ask"}
    BY <2>1, <1>1, Ends DEF EngType, NodeType, Sides, Used
  <2> HIDE DEF p
  <2>3. IF o.side = "bid" THEN p >= eng.bestAsk ELSE p <= eng.bestBid
    BY <2>1, <2>2, <1>1 DEF Sided
  <2>4. p \in Nat
    BY <2>1 DEF Used
  <2>5. IF o.side = "bid" THEN o.price < p ELSE p < o.price
    BY <2>3, <2>4, <1>1, <1>2, <1>4
  <2> QED
    BY <2>5 DEF p
<1> QED
  BY <1>4, <1>5 DEF Uncrossed

-----------------------------------------------------------------------------
(* The inductive invariant.                                                *)

(* More structs than Reserve are free during a call of limit, and as many  *)
(* as Reserve while an order rests.                                        *)
Spare(e, F, fl, in) ==
  /\ Whole(e, F, fl)
  /\ in # NoOrder => F > Reserve
  /\ Rest(e) # {} => F >= Reserve

Sound(e, in) == \E F, fl : Spare(e, F, fl, in)

EInv ==
  /\ incoming \in Order \cup {NoOrder}
  /\ incoming # NoOrder => eng.nextId <= MaxId
  /\ incoming = NoOrder => report = NoOrder
  /\ Reserve >= 1 => ~ eng.fault
  /\ Sound(eng, incoming)

(* While limit runs, no resting order is in the bin that the new order's   *)
(* id hashes to: the id MapSize orders before it has left the book.        *)
OwnBin ==
  incoming # NoOrder =>
    \A s \in Resting : eng.orders[s].id % MapSize # eng.nextId % MapSize

LEMMA InitSound ==
  ASSUME Init
  PROVE  EInv
<1> DEFINE fl == [i \in 1 .. MaxLive |-> i - 1]
<1>1. /\ eng.nodes = [n \in Nodes |-> [side |-> "bid", price |-> 0, first |-> NULL, last |-> NULL]]
      /\ eng.nexts = [i \in Levels |-> [n \in Nodes |->
                        CASE n = Bottom -> Top [] n = Top -> Bottom [] OTHER -> NULL]]
      /\ eng.prevs = [i \in Levels |-> [n \in Nodes |-> NULL]]
      /\ eng.bestBid = Bottom /\ eng.bestAsk = Top
      /\ eng.orders = [s \in Slots |->
                          [id |-> 0, next |-> NULL, prev |-> NULL,
                           data |-> [side |-> "bid", price |-> 1, size |-> 0],
                           nextInBin |-> IF s = MaxLive - 1 THEN NULL ELSE s + 1]]
      /\ eng.free = [first |-> 0, last |-> MaxLive - 1]
      /\ eng.idMap = [h \in Bins |-> [first |-> NULL, last |-> NULL]]
      /\ eng.nextId = 1 /\ eng.fault = FALSE
      /\ incoming = NoOrder /\ report = NoOrder
  BY DEF Init, NullLinks
<1>2. /\ MaxLive \in Nat /\ MaxLive >= 1 /\ 1 \in 1 .. MaxPrice /\ 0 \in 0 .. MaxSize
      /\ 0 \in 0 .. MaxId /\ 1 \in 1 .. MaxId + 1 /\ 0 \in 0 .. MaxPrice
  BY EngineBounds
<1>3. ASSUME NEW s \in Slots
      PROVE  /\ eng.orders[s] \in OrderType /\ eng.orders[s].id = 0
             /\ eng.orders[s].nextInBin = IF s = MaxLive - 1 THEN NULL ELSE s + 1
  <2>1. [side |-> "bid", price |-> 1, size |-> 0] \in Order
    BY <1>2 DEF Order, Sides
  <2>2. s # MaxLive - 1 => s + 1 \in Slots
    BY <1>2 DEF Slots
  <2> QED
    BY <2>1, <2>2, <1>1, <1>2 DEF OrderType, OrNull
<1>4. eng \in EngType
  <2>1. eng.nodes \in [Nodes -> NodeType]
    BY <1>1, <1>2 DEF NodeType, OrNull, Sides
  <2>2. eng.orders \in [Slots -> OrderType]
    BY <1>1, <1>3
  <2>3. eng.nexts \in LinksType /\ eng.prevs \in LinksType
    BY <1>1, Ends DEF LinksType, OrNull
  <2>4. eng.free \in BinType /\ eng.idMap \in [Bins -> BinType]
    BY <1>1, SlotFacts DEF BinType, OrNull
  <2>5. eng.bestBid \in Nodes /\ eng.bestAsk \in Nodes /\ eng.nextId \in 1 .. MaxId + 1
        /\ eng.fault \in BOOLEAN
    BY <1>1, <1>2, Ends
  <2>6. eng = [nodes |-> eng.nodes, nexts |-> eng.nexts, prevs |-> eng.prevs,
               bestBid |-> eng.bestBid, bestAsk |-> eng.bestAsk, orders |-> eng.orders,
               free |-> eng.free, idMap |-> eng.idMap, nextId |-> eng.nextId,
               fault |-> eng.fault]
    BY DEF Init
  <2> QED
    BY <2>1, <2>2, <2>3, <2>4, <2>5, <2>6 DEF EngType
<1>5. Rest(eng) = {} /\ \A p : AtPrice(eng.orders, p) = {}
  BY <1>3 DEF Rest, AtPrice
<1>6. Used(eng) = {} /\ \A n \in Nodes : eng.nodes[n].price = 0
  <2>1. \A n \in Nodes : eng.nodes[n].price = 0
    BY <1>1
  <2> QED
    BY <2>1, Ends DEF Used
<1>7. Listed(eng)
  <2>1. ASSUME NEW i \in Levels
        PROVE  On(eng, i) = {} /\ Level(eng.nexts[i], eng.prevs[i], {})
    <3>1. On(eng, i) = {}
      BY <1>6 DEF On
    <3>2. /\ eng.nexts[i] = [n \in Nodes |->
                 CASE n = Bottom -> Top [] n = Top -> Bottom [] OTHER -> NULL]
          /\ eng.prevs[i] = [n \in Nodes |-> NULL]
      BY <1>1
    <3>3. /\ \A n \in Nodes : n # Bottom /\ n # Top => eng.nexts[i][n] = NULL
          /\ eng.nexts[i][Bottom] = Top /\ eng.nexts[i][Top] = Bottom /\ Bottom # Top
          /\ eng.nexts[i] \in [Nodes -> Nodes \cup {NULL}]
          /\ eng.prevs[i] \in [Nodes -> Nodes \cup {NULL}]
      BY <3>2, Ends
    <3> QED
      BY <3>1, <3>3, Ends DEF Level
  <2>2. 0 \in Levels /\ \A i \in Levels \ {0} : i - 1 \in Levels
    BY LevelNumbers
  <2> QED
    BY <2>1, <2>2, <1>6, Ends DEF Listed
<1>8. Sided(eng)
  BY <1>1, <1>6, Ends DEF Sided
<1>9. Queued(eng)
  <2> SUFFICES ASSUME NEW p \in 1 .. MaxPrice
               PROVE  QueuedAt(eng, p)
    BY DEF Queued
  <2>1. Queue(eng.orders, {}, eng.nodes[p].first, eng.nodes[p].last)
    BY DEF Queue
  <2> QED
    BY <2>1, <1>5, <1>6, Ends DEF QueuedAt
<1>10. Sequenced(eng)
  BY <1>1, <1>3, <1>5 DEF Sequenced
<1>11. Mapped(eng)
  <2>1. \A h \in Bins : eng.idMap[h].first = NULL /\ eng.idMap[h].last = NULL
    BY <1>1
  <2> QED
    BY <2>1, <1>5 DEF Mapped, BinHolds
<1>12. Pool(eng, MaxLive, fl)
  <2>1. fl \in [1 .. MaxLive -> Slots] /\ \A i \in 1 .. MaxLive : fl[i] = i - 1
    BY <1>2 DEF Slots
  <2>2. \A s \in Slots : s + 1 \in 1 .. MaxLive /\ fl[s + 1] = s
    BY <1>2, <2>1 DEF Slots
  <2>3. \A i \in 1 .. MaxLive : i # MaxLive => i + 1 \in 1 .. MaxLive /\ fl[i + 1] = i
    BY <1>2, <2>1
  <2>4. 1 \in 1 .. MaxLive /\ MaxLive \in 1 .. MaxLive /\ fl[1] = 0 /\ fl[MaxLive] = MaxLive - 1
    BY <1>2, <2>1
  <2> HIDE DEF fl
  <2>5. \A i, j \in 1 .. MaxLive : fl[i] = fl[j] => i = j
    BY <2>1
  <2>6. \A s \in Slots : eng.orders[s].id = 0 <=> \E i \in 1 .. MaxLive : fl[i] = s
    BY <2>2, <1>3
  <2>7. ASSUME NEW i \in 1 .. MaxLive
        PROVE  eng.orders[fl[i]].nextInBin = IF i = MaxLive THEN NULL ELSE fl[i + 1]
    <3>1. fl[i] \in Slots /\ (fl[i] = MaxLive - 1 <=> i = MaxLive) /\ fl[i] + 1 = i
      BY <2>1, <1>2
    <3> QED
      BY <3>1, <2>3, <1>3
  <2>8. eng.free.first = fl[1] /\ eng.free.last = fl[MaxLive] /\ MaxLive # 0
    BY <2>4, <1>1, <1>2
  <2> QED
    BY <2>1, <2>5, <2>6, <2>7, <2>8, <1>2 DEF Pool
<1>13. Spare(eng, MaxLive, fl, incoming)
  BY <1>1, <1>4, <1>5, <1>7, <1>8, <1>9, <1>10, <1>11, <1>12 DEF Spare, Whole, Ordered
<1> HIDE DEF fl
<1> QED
  BY <1>1, <1>2, <1>13 DEF EInv, Sound

-----------------------------------------------------------------------------
(* What each step does to the book.                                        *)

LEMMA InvFacts ==
  ASSUME EInv
  PROVE  /\ Ordered(eng) /\ eng \in EngType
         /\ incoming # NoOrder => incoming \in Order /\ eng.nextId <= MaxId
         /\ incoming = NoOrder => report = NoOrder
         /\ eng.nextId \in Nat /\ eng.nextId >= 1
         /\ Resting = Rest(eng)
<1>1. PICK F, fl : Spare(eng, F, fl, incoming)
  BY DEF EInv, Sound
<1>2. Ordered(eng) /\ eng \in EngType
  BY <1>1 DEF Spare, Whole, Ordered
<1>3. eng.nextId \in Nat /\ eng.nextId >= 1
  <2>1. eng.nextId \in 1 .. MaxId + 1
    BY <1>2 DEF EngType
  <2> QED
    BY <2>1, EngineBounds
<1> QED
  BY <1>2, <1>3 DEF EInv, Resting, Rest

LEMMA LimitStep ==
  ASSUME EInv, NEW o \in Order, Limit(o)
  PROVE  EInv'
<1>1. PICK F, fl : Spare(eng, F, fl, incoming)
  BY DEF EInv, Sound
<1>2. Whole(eng, F, fl) /\ Pool(eng, F, fl) /\ (Rest(eng) # {} => F >= Reserve)
  BY <1>1 DEF Spare, Whole
<1>3. F > Reserve
  BY <1>2, PoolCount DEF Limit
<1>4. eng' = eng /\ incoming' = o /\ eng.nextId <= MaxId /\ ~ eng.fault /\ o # NoOrder
  BY NullAssumption DEF Limit, Idle
<1>5. Spare(eng', F, fl, incoming')
  BY <1>2, <1>3, <1>4 DEF Spare
<1> QED
  BY <1>4, <1>5 DEF EInv, Sound

(* A trade takes its size off the resting order or takes the order out.    *)
TradeDone(e, d, o, s) ==
  IF o.size < e.orders[s].data.size THEN TradedBook(e, d, s, o.size) ELSE LeftBook(e, d, s)

LEMMA ConsumeStep ==
  ASSUME EInv, Consume
  PROVE  /\ EInv'
         /\ FirstAtBest(eng, incoming, Best(incoming), eng.nodes[Best(incoming)].first)
         /\ TradeDone(eng, eng', incoming, eng.nodes[Best(incoming)].first)
         /\ report' = Report(incoming, eng.orders[eng.nodes[Best(incoming)].first].id,
                             Least(incoming.size,
                                   eng.orders[eng.nodes[Best(incoming)].first].data.size))
         /\ incoming' = [incoming EXCEPT
              !.size = incoming.size
                       - Least(incoming.size,
                               eng.orders[eng.nodes[Best(incoming)].first].data.size)]
<1> DEFINE s == eng.nodes[Best(incoming)].first
           old == eng.orders[s].data
           q == Least(incoming.size, old.size)
<1>1. /\ incoming # NoOrder /\ ~ eng.fault /\ incoming.size > 0 /\ CrossesBest(incoming)
      /\ incoming' = [incoming EXCEPT !.size = incoming.size - q]
      /\ report' = Report(incoming, eng.orders[s].id, q)
      /\ eng' = IF incoming.size < old.size
                THEN [eng EXCEPT !.orders[s].data.size = @ - q]
                ELSE RemoveOrder(FreeOrder(eng, eng.orders[s].id).eng, s)
  BY DEF Consume, ConsumeTurn, Busy
<1>2. Ordered(eng) /\ eng \in EngType /\ incoming \in Order /\ eng.nextId <= MaxId
  BY <1>1, InvFacts
<1>3. FirstAtBest(eng, incoming, Best(incoming), s)
  BY <1>1, <1>2, BestOrder
<1>4. s \in Rest(eng) /\ s \in Slots /\ old.size \in Nat /\ incoming.size \in 0 .. MaxSize
      /\ incoming.size \in Nat /\ old.size > 0
  <2>1. s \in Rest(eng) /\ s \in Slots /\ old.size > 0
    BY <1>3 DEF FirstAtBest, Rest
  <2>2. incoming.size \in 0 .. MaxSize
    BY <1>2 DEF Order
  <2> QED
    BY <2>1, <2>2, <1>2, RestFacts, EngineBounds
<1>5. PICK F, fl : Spare(eng, F, fl, incoming)
  BY DEF EInv, Sound
<1>6. Whole(eng, F, fl) /\ F > Reserve /\ F \in Nat /\ F > 0 /\ Reserve \in Nat
  <2>1. Whole(eng, F, fl) /\ F > Reserve /\ F \in Nat /\ Reserve \in Nat
    BY <1>1, <1>5, EngineBounds DEF Spare, Whole, Pool
  <2> QED
    BY <2>1
<1> HIDE DEF s, old
<1>7. incoming' \in Order /\ incoming' # NoOrder
  <2>1. incoming.size - q \in 0 .. MaxSize
    BY <1>4, EngineBounds DEF Least
  <2> HIDE DEF q
  <2>2. incoming' \in Order
    BY <2>1, <1>1, <1>2 DEF Order
  <2> QED
    BY <2>2, NullAssumption
<1>8. CASE incoming.size < old.size
  <2>1. q = incoming.size /\ q \in Nat /\ q < old.size
    BY <1>4, <1>8 DEF Least
  <2> HIDE DEF q
  <2>2. Reduced(eng, eng', s, q)
    BY <1>1, <1>8 DEF Reduced
  <2>3. TradedBook(eng, eng', s, q) /\ Whole(eng', F, fl)
    BY <2>1, <2>2, <1>4, <1>6, OrderTrades DEF old
  <2>4. /\ eng'.nextId = eng.nextId /\ eng'.fault = eng.fault
        /\ \A r \in Slots : eng'.orders[r].id = eng.orders[r].id
    BY <2>3 DEF TradedBook
  <2>5. Spare(eng', F, fl, incoming')
    BY <2>3, <1>6 DEF Spare
  <2>6. EInv'
    BY <2>4, <2>5, <1>1, <1>2, <1>7 DEF EInv, Sound
  <2>7. TradeDone(eng, eng', incoming, s)
    BY <2>1, <2>3, <1>8 DEF TradeDone, old
  <2> QED
    BY <2>6, <2>7, <1>1, <1>3 DEF q, s, old
<1>9. CASE ~ (incoming.size < old.size)
  <2> DEFINE f == FreeOrder(eng, eng.orders[s].id).eng
  <2>1. eng' = RemoveOrder(f, s)
    BY <1>1, <1>9
  <2>2. f = FreeOrder(eng, eng.orders[s].id).eng
    OBVIOUS
  <2> HIDE DEF f
  <2>3. LeftBook(eng, eng', s) /\ \E gl : Whole(eng', F + 1, gl)
    BY <2>1, <2>2, <1>4, <1>6, OrderLeaves
  <2>4. PICK gl : Whole(eng', F + 1, gl)
    BY <2>3
  <2>5. eng'.nextId = eng.nextId /\ eng'.fault = eng.fault
    BY <2>3 DEF LeftBook
  <2>6. Spare(eng', F + 1, gl, incoming')
    BY <2>4, <1>6 DEF Spare
  <2>7. EInv'
    BY <2>5, <2>6, <1>1, <1>2, <1>7 DEF EInv, Sound
  <2>8. TradeDone(eng, eng', incoming, s)
    BY <2>3, <1>9 DEF TradeDone, old
  <2> QED
    BY <2>7, <2>8, <1>1, <1>3 DEF s, old
<1> QED
  BY <1>8, <1>9

(* What is left of the order is queued.                                    *)
RestDone(e, d, o) ==
  IF o.size = 0 THEN d.orders = e.orders /\ d.nextId = e.nextId + 1
  ELSE \E s \in Slots \ Rest(e) : EnteredBook(e, d, o, s)

LEMMA FinishStep ==
  ASSUME EInv, OwnBin, Finish
  PROVE  /\ EInv' /\ RestDone(eng, eng', incoming)
         /\ incoming' = NoOrder /\ report' = NoOrder /\ incoming # NoOrder
         /\ incoming.size = 0 \/ ~ CrossesBest(incoming)
<1>1. /\ incoming # NoOrder /\ ~ eng.fault /\ incoming' = NoOrder /\ report' = NoOrder
      /\ incoming.size = 0 \/ ~ CrossesBest(incoming)
  BY DEF Finish, FinishTurn, Busy
<1>2. Ordered(eng) /\ eng \in EngType /\ incoming \in Order /\ eng.nextId <= MaxId
      /\ Resting = Rest(eng)
  BY <1>1, InvFacts
<1>3. PICK F, fl : Spare(eng, F, fl, incoming)
  BY DEF EInv, Sound
<1>4. Whole(eng, F, fl) /\ F > Reserve /\ F \in Nat /\ F > 0 /\ Reserve \in Nat
  <2>1. Whole(eng, F, fl) /\ F > Reserve /\ F \in Nat /\ Reserve \in Nat
    BY <1>1, <1>3, EngineBounds DEF Spare, Whole, Pool
  <2> QED
    BY <2>1
<1>5. CASE incoming.size = 0
  <2>1. Numbered(eng, eng')
    BY <1>5 DEF Finish, Numbered
  <2>2. /\ Whole(eng', F, fl) /\ eng'.fault = eng.fault /\ eng'.orders = eng.orders
        /\ eng'.nextId = eng.nextId + 1
    BY <2>1, <1>2, <1>4, IdUsed
  <2>3. Spare(eng', F, fl, incoming')
    BY <2>2, <1>1, <1>4 DEF Spare
  <2>4. EInv'
    BY <2>2, <2>3, <1>1 DEF EInv, Sound
  <2> QED
    BY <2>2, <2>4, <1>1, <1>5 DEF RestDone
<1>6. CASE incoming.size # 0
  <2>1. PICK height \in 1 .. ListHeight : Numbered(Enqueue(eng, incoming, height), eng')
    BY <1>6 DEF Finish, Numbered
  <2>2. Uncrossed(eng, incoming.side, incoming.price)
    BY <1>1, <1>2, <1>6, NoBestOrder
  <2>3. incoming.size > 0
    <3>1. incoming.size \in 0 .. MaxSize
      BY <1>2 DEF Order
    <3> QED
      BY <3>1, <1>6
  <2>4. \A r \in Rest(eng) : BinOf(eng, r) # eng.nextId % MapSize
    BY <1>1, <1>2 DEF OwnBin, BinOf
  <2>5. /\ \E s \in Slots \ Rest(eng) : EnteredBook(eng, eng', incoming, s)
        /\ \E gl : Whole(eng', F - 1, gl)
    <3> DEFINE o == incoming
               d == eng'
    <3>1. /\ Whole(eng, F, fl) /\ F > 0 /\ eng.nextId <= MaxId /\ o \in Order /\ o.size > 0
          /\ Uncrossed(eng, o.side, o.price) /\ Numbered(Enqueue(eng, o, height), d)
          /\ \A r \in Rest(eng) : BinOf(eng, r) # eng.nextId % MapSize
      BY <2>1, <2>2, <2>3, <2>4, <1>2, <1>4
    <3> HIDE DEF o, d
    <3>2. /\ \E s \in Slots \ Rest(eng) : EnteredBook(eng, d, o, s)
          /\ \E gl : Whole(d, F - 1, gl)
      BY <3>1, OrderEnters
    <3> QED
      BY <3>2 DEF o, d
  <2>6. PICK gl : Whole(eng', F - 1, gl)
    BY <2>5
  <2>7. Spare(eng', F - 1, gl, incoming')
    BY <2>6, <1>1, <1>4 DEF Spare
  <2>8. eng'.fault = eng.fault
    BY <2>5 DEF EnteredBook
  <2>9. EInv'
    BY <2>7, <2>8, <1>1 DEF EInv, Sound
  <2> QED
    BY <2>5, <2>9, <1>1, <1>6 DEF RestDone
<1> QED
  BY <1>5, <1>6

(* The order of an id leaves the book, or nothing changes in the book.     *)
CancelDone(e, d, id) ==
  \/ \E s \in Rest(e) : e.orders[s].id = id /\ LeftBook(e, d, s)
  \/ d = e /\ \A s \in Rest(e) : e.orders[s].id # id
  \/ Faulty(e, d)

LEMMA CancelStep ==
  ASSUME EInv, NEW id \in 1 .. MaxId, Cancel(id)
  PROVE  /\ EInv' /\ CancelDone(eng, eng', id)
         /\ incoming = NoOrder /\ incoming' = NoOrder /\ report' = NoOrder /\ report = NoOrder
<1> DEFINE r == FreeOrder(eng, id)
<1>1. /\ incoming = NoOrder /\ ~ eng.fault /\ incoming' = NoOrder /\ report' = NoOrder
      /\ eng' = IF r.slot = NULL \/ r.eng.fault THEN r.eng ELSE RemoveOrder(r.eng, r.slot)
  BY DEF Cancel, Idle
<1>2. Ordered(eng) /\ eng \in EngType /\ report = NoOrder
  BY <1>1, InvFacts
<1>3. PICK F, fl : Spare(eng, F, fl, incoming)
  BY DEF EInv, Sound
<1>4. /\ Whole(eng, F, fl) /\ Mapped(eng) /\ Pool(eng, F, fl)
      /\ F \in Nat /\ Reserve \in Nat /\ id \in Nat /\ id # 0
      /\ Rest(eng) # {} => F >= Reserve
  BY <1>3, EngineBounds DEF Spare, Whole, Pool
<1>5. CASE \A s \in Rest(eng) : eng.orders[s].id # id
  <2>1. r = [slot |-> NULL, eng |-> eng]
    BY <1>2, <1>4, <1>5, FreeOrderMisses
  <2>2. eng' = eng
    BY <2>1, <1>1
  <2>3. EInv'
    BY <2>2, <1>1, <1>2 DEF EInv, Sound
  <2> QED
    BY <2>2, <2>3, <1>1, <1>2, <1>5 DEF CancelDone
<1>6. CASE \E s \in Rest(eng) : eng.orders[s].id = id
  <2>1. PICK s \in Rest(eng) : eng.orders[s].id = id
    BY <1>6
  <2>2. s # NULL
    BY SlotFacts DEF Rest
  <2> DEFINE f == FreeOrder(eng, eng.orders[s].id).eng
  <2>3. CASE F > 0
    <3> DEFINE g == RemoveOrder(f, s)
    <3>1. f = FreeOrder(eng, eng.orders[s].id).eng /\ g = RemoveOrder(f, s)
      OBVIOUS
    <3> HIDE DEF f, g
    <3>2. /\ FreeOrder(eng, eng.orders[s].id).slot = s /\ f.fault = eng.fault
          /\ LeftBook(eng, g, s) /\ \E gl : Whole(g, F + 1, gl)
      BY <3>1, <2>3, <1>4, OrderLeaves
    <3>3. eng' = g
      BY <3>1, <3>2, <2>1, <2>2, <1>1
    <3>4. PICK gl : Whole(g, F + 1, gl)
      BY <3>2
    <3>5. Spare(eng', F + 1, gl, incoming')
      BY <3>3, <3>4, <1>1, <1>4 DEF Spare
    <3>6. eng'.fault = eng.fault
      BY <3>2, <3>3 DEF LeftBook
    <3>7. EInv'
      BY <3>5, <3>6, <1>1 DEF EInv, Sound
    <3> QED
      BY <3>2, <3>3, <3>7, <2>1, <1>1, <1>2 DEF CancelDone
  <2>4. CASE ~ (F > 0)
    <3>1. F = 0 /\ eng.free.last = NULL
      BY <2>4, <1>4 DEF Pool
    <3>2. r.slot = s /\ r.eng = [eng EXCEPT !.fault = TRUE]
      BY <3>1, <2>1, <1>2, <1>4, FreeOrderFinds
    <3>3. Faulty(eng, r.eng)
      BY <3>2 DEF Faulty
    <3> HIDE DEF r
    <3>4. Whole(r.eng, F, fl) /\ r.eng.orders = eng.orders /\ r.eng.fault
      BY <3>3, <1>4, FaultKeeps
    <3>5. eng' = r.eng
      BY <3>4, <1>1
    <3>6. Spare(eng', F, fl, incoming') /\ ~ (Reserve >= 1)
      BY <3>1, <3>4, <3>5, <2>1, <1>1, <1>4 DEF Spare, Rest
    <3>7. EInv'
      BY <3>6, <1>1 DEF EInv, Sound
    <3> QED
      BY <3>3, <3>5, <3>7, <1>1, <1>2 DEF CancelDone
  <2> QED
    BY <2>3, <2>4
<1> QED
  BY <1>5, <1>6

(* Every step keeps the invariant, as long as no two orders share a bin.   *)
LEMMA NextSound ==
  ASSUME EInv, OwnBin, [Next]_vars
  PROVE  EInv'
<1>1. CASE Consume
  BY <1>1, ConsumeStep
<1>2. CASE Finish
  BY <1>2, FinishStep
<1>3. ASSUME NEW o \in Order, Limit(o)
      PROVE  EInv'
  BY <1>3, LimitStep
<1>4. ASSUME NEW id \in 1 .. MaxId, Cancel(id)
      PROVE  EInv'
  BY <1>4, CancelStep
<1>5. CASE UNCHANGED vars
  <2>1. eng' = eng /\ incoming' = incoming /\ report' = report
    BY <1>5 DEF vars
  <2> QED
    BY <2>1 DEF EInv, Sound
<1> QED
  BY <1>1, <1>2, <1>3, <1>4, <1>5 DEF Next

(* Between any two calls of engine.c, and between the executions of one,   *)
(* its list, queues, bins and pool agree with each other (EInv).           *)
THEOREM EngineInvariant == Spec /\ []OwnBin => []EInv
<1>1. Init => EInv
  BY InitSound
<1>2. EInv /\ OwnBin /\ [Next]_vars => EInv'
  BY NextSound
<1> QED
  BY <1>1, <1>2, PTL DEF Spec

(* Until limit has given MapSize ids, no two orders share a bin of id_map. *)
THEOREM SmallIdsShareNoBin ==
  ASSUME MaxId < MapSize
  PROVE  Spec => []OwnBin
<1>1. EInv => OwnBin
  <2> SUFFICES ASSUME EInv, incoming # NoOrder, NEW s \in Resting
               PROVE  eng.orders[s].id % MapSize # eng.nextId % MapSize
    BY DEF OwnBin
  <2>1. Ordered(eng) /\ eng \in EngType /\ s \in Rest(eng) /\ eng.nextId <= MaxId
        /\ eng.nextId \in Nat
    BY InvFacts
  <2>2. s \in Slots /\ eng.orders[s].id \in Nat /\ eng.orders[s].id < eng.nextId
    BY <2>1, RestFacts DEF Rest, Ordered, Sequenced
  <2>3. \A n \in 0 .. MaxId : n % MapSize = n
    BY EngineBounds
  <2> QED
    BY <2>1, <2>2, <2>3, EngineBounds
<1>2. Init => EInv
  BY InitSound
<1>3. EInv /\ [Next]_vars => EInv'
  BY <1>1, NextSound
<1> QED
  BY <1>1, <1>2, <1>3, PTL DEF Spec

-----------------------------------------------------------------------------
(* The properties of the runs.                                             *)

LEMMA TypesHold ==
  ASSUME EInv
  PROVE  TypeOK
<1>1. eng \in EngType
  BY InvFacts
<1> QED
  BY <1>1 DEF TypeOK, EInv, EngType, LinksType, NodeType, OrderType, BinType, OrNull

LEMMA ListHolds ==
  ASSUME EInv
  PROVE  SkipListSound /\ BestPrices
<1>1. Listed(eng) /\ Sided(eng) /\ eng \in EngType
  BY InvFacts DEF Ordered
<1>2. /\ InUse = Used(eng) /\ \A i : OnLevel(i) = On(eng, i)
      /\ \A side : OfSide(side) = {p \in Used(eng) : eng.nodes[p].side = side}
  BY DEF InUse, Prices, Used, OnLevel, On, OfSide
<1>3. SkipListSound
  <2>1. OnLevel(0) = InUse /\ \A i \in Levels \ {0} : OnLevel(i) \subseteq OnLevel(i - 1)
    BY <1>1, <1>2 DEF Listed
  <2>2. \A i \in Levels : Level(eng.nexts[i], eng.prevs[i], OnLevel(i))
    BY <1>1, <1>2 DEF Listed
  <2> QED
    BY <2>1, <2>2 DEF SkipListSound, Level
<1>4. BestPrices
  <2>1. \A p \in Used(eng) : eng.nodes[p].side \in {"bid", "ask"}
    BY <1>1, Ends DEF EngType, NodeType, Sides, Used
  <2> QED
    BY <2>1, <1>1, <1>2 DEF BestPrices, Sided
<1> QED
  BY <1>3, <1>4

LEMMA QueuesHold ==
  ASSUME EInv
  PROVE  QueuesInOrder
<1>1. Queued(eng) /\ Sequenced(eng) /\ eng \in EngType
  BY InvFacts DEF Ordered
<1> SUFFICES ASSUME NEW p \in Prices
             PROVE  LET node == eng.nodes[p]
                    IN /\ node.price = IF At(p) = {} THEN 0 ELSE p
                       /\ At(p) # {} => node.first \in At(p) /\ node.last \in At(p)
                       /\ \A s \in At(p) :
                            LET o == eng.orders[s]
                            IN /\ o.data.side = node.side /\ o.data.size > 0
                               /\ o.next = NULL <=> s = node.last
                               /\ o.prev = NULL <=> s = node.first
                               /\ o.next # NULL =>
                                    /\ o.next \in At(p) /\ eng.orders[o.next].prev = s
                                    /\ Older(s, o.next)
                                    /\ \A r \in At(p) : ~(Older(s, r) /\ Older(r, o.next))
  BY DEF QueuesInOrder
<1>2. QueuedAt(eng, p)
  BY <1>1 DEF Queued, Prices
<1>3. At(p) = AtPrice(eng.orders, p)
  BY DEF At, AtPrice, Resting
<1>4. \A s \in At(p) : s \in Slots /\ eng.orders[s].id \in Nat
  BY <1>1, RestFacts DEF At, Resting
<1>5. Queue(eng.orders, At(p), eng.nodes[p].first, eng.nodes[p].last)
  BY <1>2, <1>3 DEF QueuedAt
<1>6. ASSUME NEW s \in At(p), eng.orders[s].next # NULL
      PROVE  /\ eng.orders[s].next \in At(p) /\ eng.orders[eng.orders[s].next].prev = s
             /\ Older(s, eng.orders[s].next)
             /\ \A r \in At(p) : ~(Older(s, r) /\ Older(r, eng.orders[s].next))
  BY <1>4, <1>5, <1>6 DEF Queue, Older
<1>7. ASSUME NEW s \in At(p)
      PROVE  /\ eng.orders[s].data.side = eng.nodes[p].side /\ eng.orders[s].data.size > 0
             /\ eng.orders[s].next = NULL <=> s = eng.nodes[p].last
             /\ eng.orders[s].prev = NULL <=> s = eng.nodes[p].first
  BY <1>2, <1>3, <1>5 DEF Queue, QueuedAt
<1>8. /\ eng.nodes[p].price = IF At(p) = {} THEN 0 ELSE p
      /\ At(p) # {} => eng.nodes[p].first \in At(p) /\ eng.nodes[p].last \in At(p)
  BY <1>2, <1>3, <1>5 DEF Queue, QueuedAt
<1> QED
  BY <1>6, <1>7, <1>8

LEMMA PoolHolds ==
  ASSUME EInv
  PROVE  PoolConserved
<1> DEFINE chain == Chain(eng, eng.free.first)
           LastOf == {n \in 0 .. MaxLive : chain[n] = NULL}
           k == CHOOSE n \in LastOf : \A m \in LastOf : n <= m
<1>1. PICK F, fl : Spare(eng, F, fl, incoming)
  BY DEF EInv, Sound
<1>2. Pool(eng, F, fl)
  BY <1>1 DEF Spare, Whole
<1>3. /\ F <= MaxLive
      /\ \A n \in 0 .. MaxLive : chain[n] = IF n < F THEN fl[n + 1] ELSE NULL
      /\ Linked(eng, eng.free.first) = Slots \ Rest(eng)
  BY <1>2, PoolCount
<1>4. /\ F \in Nat /\ fl \in [1 .. F -> Slots]
      /\ \A i, j \in 1 .. F : fl[i] = fl[j] => i = j
      /\ eng.free.first = IF F = 0 THEN NULL ELSE fl[1]
      /\ eng.free.last = IF F = 0 THEN NULL ELSE fl[F]
  BY <1>2 DEF Pool
<1> HIDE DEF chain
<1>5. Linked(eng, eng.free.first) = Slots \ Resting
  BY <1>3 DEF Resting, Rest
<1>6. \A n \in 0 .. MaxLive : n < F => n + 1 \in 1 .. F /\ chain[n] \in Slots /\ chain[n] # NULL
                                      /\ chain[n] = fl[n + 1]
  BY <1>3, <1>4, SlotFacts
<1>7. ASSUME NEW m \in 0 .. MaxLive, NEW n \in 0 .. MaxLive, chain[m] = chain[n], chain[m] # NULL
      PROVE  m = n
  <2>1. m < F /\ n < F
    BY <1>3, <1>7
  <2>2. m + 1 = n + 1
    BY <2>1, <1>4, <1>6, <1>7
  <2> QED
    BY <2>2
<1>8. F \in LastOf /\ \A n \in LastOf : n \in Nat /\ F <= n
  BY <1>3, <1>4, <1>6, SlotFacts
<1> HIDE DEF LastOf
<1>9. k = F
  <2>1. k \in LastOf /\ \A m \in LastOf : k <= m
    BY <1>8
  <2> HIDE DEF k
  <2>2. k \in Nat /\ F <= k /\ k <= F
    BY <2>1, <1>8
  <2>3. F \in Nat
    BY <1>4
  <2> QED
    BY <2>2, <2>3
<1>10. eng.free.last = IF eng.free.first = NULL THEN NULL ELSE chain[k - 1]
  <2>1. CASE F = 0
    BY <2>1, <1>4
  <2>2. CASE F # 0
    <3>1. F - 1 \in 0 .. MaxLive /\ F - 1 < F /\ F - 1 + 1 = F /\ 1 \in 1 .. F
      BY <2>2, <1>3, <1>4, SlotFacts
    <3>2. chain[F - 1] = fl[F] /\ fl[1] \in Slots
      BY <3>1, <1>4, <1>6
    <3> QED
      BY <2>2, <3>2, <1>4, <1>9, SlotFacts
  <2> QED
    BY <2>1, <2>2
<1> QED
  BY <1>5, <1>7, <1>8, <1>10 DEF PoolConserved, LastOf, k, chain

LEMMA CancelHolds ==
  ASSUME EInv
  PROVE  Cancellable
<1>1. PICK F, fl : Spare(eng, F, fl, incoming)
  BY DEF EInv, Sound
<1>2. Mapped(eng) /\ eng \in EngType
  BY <1>1 DEF Spare, Whole, Ordered
<1> SUFFICES ASSUME NEW id \in 1 .. MaxId
             PROVE  {s \in Linked(eng, eng.idMap[id % MapSize].first) : eng.orders[s].id = id}
                    = {s \in Slots : eng.orders[s].id = id}
  BY DEF Cancellable
<1> DEFINE h == id % MapSize
           first == eng.idMap[h].first
<1>3. id \in Nat /\ id # 0 /\ h \in Bins
  BY ModBins
<1>4. \A n \in 0 .. MaxLive : Chain(eng, first)[n] = IF n = 0 THEN first ELSE NULL
  BY <1>2, <1>3, BinChain
<1>5. BinHolds(eng, h)
  BY <1>2, <1>3 DEF Mapped
<1>6. \A s \in Slots : eng.orders[s].id = id => s \in Rest(eng) /\ BinOf(eng, s) = h
  BY <1>3 DEF Rest, BinOf
<1> HIDE DEF h
<1>7. IF first = NULL THEN \A s \in Rest(eng) : BinOf(eng, s) # h
      ELSE first \in Rest(eng) /\ \A s \in Rest(eng) : BinOf(eng, s) = h <=> s = first
  BY <1>5 DEF BinHolds
<1> HIDE DEF first
<1>8. Linked(eng, first) = {first} \ {NULL}
  <2>1. Linked(eng, first) = {IF n = 0 THEN first ELSE NULL : n \in 0 .. MaxLive} \ {NULL}
    BY <1>4 DEF Linked
  <2> QED
    BY <2>1, SlotFacts
<1>9. {s \in Linked(eng, first) : eng.orders[s].id = id} = {s \in Slots : eng.orders[s].id = id}
  <2>1. \A s \in Rest(eng) : s \in Slots
    BY DEF Rest
  <2> QED
    BY <2>1, <1>6, <1>7, <1>8, SlotFacts
<1> QED
  BY <1>9 DEF first, h

(* No two resting orders share a bin in every theorem that follows: what   *)
(* happens when they do is the code's own fault in free_order, and a run   *)
(* shows it.                                                               *)

(* Every static variable of engine.c keeps its type.                       *)
THEOREM TypeCorrect == Spec /\ []OwnBin => []TypeOK
  BY EngineInvariant, TypesHold, PTL

(* add_to_list and remove_from_list keep a sound skip list.                *)
THEOREM ListSound == Spec /\ []OwnBin => []SkipListSound
<1>1. EInv => SkipListSound
  BY ListHolds
<1> QED
  BY <1>1, EngineInvariant, PTL

(* best_bid and best_ask are the best prices, and the book is not crossed. *)
THEOREM BestSound == Spec /\ []OwnBin => []BestPrices
<1>1. EInv => BestPrices
  BY ListHolds
<1> QED
  BY <1>1, EngineInvariant, PTL

(* The queue of each price links its orders from the oldest to the newest. *)
THEOREM QueuesSound == Spec /\ []OwnBin => []QueuesInOrder
  BY EngineInvariant, QueuesHold, PTL

(* The free list links exactly the structs that hold no order.             *)
THEOREM PoolSound == Spec /\ []OwnBin => []PoolConserved
  BY EngineInvariant, PoolHolds, PTL

(* cancel finds each resting order by its id, and no other.                *)
THEOREM CancelSound == Spec /\ []OwnBin => []Cancellable
  BY EngineInvariant, CancelHolds, PTL

(* While a struct stays free, no assertion fails.                          *)
THEOREM NeverFaults ==
  ASSUME Reserve >= 1
  PROVE  Spec /\ []OwnBin => []NoFault
<1>1. EInv => NoFault
  BY DEF EInv, NoFault
<1> QED
  BY <1>1, EngineInvariant, PTL

-----------------------------------------------------------------------------
(* The engine implements the book.                                         *)

BookOf(e) ==
  [id \in {e.orders[s].id : s \in Rest(e)} |->
     e.orders[CHOOSE s \in Rest(e) : e.orders[s].id = id].data]

Describes(f, e) ==
  /\ f = [i \in DOMAIN f |-> f[i]]
  /\ \A i : i \in DOMAIN f <=> \E s \in Rest(e) : e.orders[s].id = i
  /\ \A s \in Rest(e) : f[e.orders[s].id] = e.orders[s].data

LEMMA BookDescribes ==
  ASSUME NEW e, Ordered(e)
  PROVE  Describes(BookOf(e), e)
<1>1. \A s \in Rest(e) : (CHOOSE r \in Rest(e) : e.orders[r].id = e.orders[s].id) = s
  BY DEF Ordered, Sequenced
<1>2. \A s \in Rest(e) : BookOf(e)[e.orders[s].id] = e.orders[s].data
  BY <1>1 DEF BookOf
<1>3. /\ BookOf(e) = [i \in DOMAIN BookOf(e) |-> BookOf(e)[i]]
      /\ DOMAIN BookOf(e) = {e.orders[s].id : s \in Rest(e)}
  BY DEF BookOf
<1> QED
  BY <1>2, <1>3 DEF Describes

LEMMA OneBook ==
  ASSUME NEW e, NEW f, NEW g, Describes(f, e), Describes(g, e)
  PROVE  f = g
<1>1. DOMAIN f = DOMAIN g
  BY DEF Describes
<1>2. \A i \in DOMAIN f : f[i] = g[i]
  BY DEF Describes
<1>3. f = [i \in DOMAIN f |-> f[i]] /\ g = [i \in DOMAIN g |-> g[i]]
  BY DEF Describes
<1> QED
  BY <1>1, <1>2, <1>3

AfterTrade(b, i, q) ==
  [j \in {k \in DOMAIN b : k # i \/ q < b[i].size} |->
     IF j = i THEN [b[i] EXCEPT !.size = @ - q] ELSE b[j]]

AfterRest(b, n, o) == [i \in DOMAIN b \cup {n} |-> IF i = n THEN o ELSE b[i]]

AfterCancel(b, id) == [i \in DOMAIN b \ {id} |-> b[i]]

LEMMA TradeBook ==
  ASSUME NEW e, Ordered(e), NEW d, Ordered(d), NEW s \in Rest(e), NEW o, o.size \in Nat,
         TradeDone(e, d, o, s)
  PROVE  BookOf(d) = AfterTrade(BookOf(e), e.orders[s].id, Least(o.size, e.orders[s].data.size))
<1> DEFINE b == BookOf(e)
           i == e.orders[s].id
           q == Least(o.size, e.orders[s].data.size)
           f == AfterTrade(b, i, q)
<1>1. Describes(b, e) /\ b[i] = e.orders[s].data
  BY BookDescribes DEF Describes
<1>2. /\ \A r \in Rest(e) : r \in Slots /\ e.orders[r].id # 0
      /\ \A r, t \in Rest(e) : e.orders[r].id = e.orders[t].id => r = t
      /\ e.orders[s].data.size \in Nat
  BY RestFacts DEF Rest, Ordered, Sequenced
<1>3. /\ f = [j \in DOMAIN f |-> f[j]]
      /\ \A j : j \in DOMAIN f <=> j \in DOMAIN b /\ (j # i \/ q < b[i].size)
      /\ \A j \in DOMAIN f : f[j] = IF j = i THEN [b[i] EXCEPT !.size = @ - q] ELSE b[j]
  BY DEF AfterTrade
<1> HIDE DEF f, b, i
<1>4. CASE o.size < e.orders[s].data.size
  <2>1. q = o.size /\ q < b[i].size
    BY <1>1, <1>2, <1>4 DEF Least
  <2> HIDE DEF q
  <2>2. \A r \in Slots :
          /\ d.orders[r].id = e.orders[r].id
          /\ d.orders[r].data = IF r = s THEN [e.orders[r].data EXCEPT !.size = @ - q]
                                ELSE e.orders[r].data
    BY <2>1, <1>4 DEF TradeDone, TradedBook
  <2>3. Rest(d) = Rest(e)
    BY <2>2 DEF Rest
  <2>4. \A j : j \in DOMAIN f <=> \E r \in Rest(d) : d.orders[r].id = j
    <3>1. \A j : j \in DOMAIN f <=> \E r \in Rest(e) : e.orders[r].id = j
      BY <2>1, <1>1, <1>3 DEF Describes
    <3>2. \A r \in Rest(e) : d.orders[r].id = e.orders[r].id
      BY <2>2, <1>2
    <3> QED
      BY <3>1, <3>2, <2>3
  <2>5. ASSUME NEW r \in Rest(d)
        PROVE  f[d.orders[r].id] = d.orders[r].data
    <3>1. /\ r \in Rest(e) /\ r \in Slots /\ d.orders[r].id = e.orders[r].id
          /\ e.orders[r].id \in DOMAIN f /\ b[e.orders[r].id] = e.orders[r].data
      BY <2>2, <2>3, <2>4, <1>1, <1>2 DEF Describes
    <3>2. e.orders[r].id = i <=> r = s
      BY <3>1, <1>2 DEF i
    <3>3. f[d.orders[r].id] = IF r = s THEN [b[i] EXCEPT !.size = @ - q]
                                       ELSE e.orders[r].data
      BY <3>1, <3>2, <1>3
    <3> QED
      BY <3>1, <3>3, <2>2, <1>1
  <2>6. Describes(f, d)
    BY <2>4, <2>5, <1>3 DEF Describes
  <2> QED
    BY <2>6, BookDescribes, OneBook DEF f, b, i, q
<1>5. CASE ~ (o.size < e.orders[s].data.size)
  <2>1. ~ (q < b[i].size)
    BY <1>1, <1>2, <1>5 DEF Least
  <2>2. \A r \in Slots : /\ d.orders[r].id = IF r = s THEN 0 ELSE e.orders[r].id
                         /\ d.orders[r].data = e.orders[r].data
    BY <1>5 DEF TradeDone, LeftBook
  <2>3. \A r : r \in Rest(d) <=> r \in Rest(e) /\ r # s
    BY <2>2 DEF Rest
  <2>4. \A r \in Rest(d) : /\ r \in Rest(e) /\ d.orders[r].id = e.orders[r].id
                           /\ e.orders[r].id # i /\ d.orders[r].data = e.orders[r].data
    BY <2>2, <2>3, <1>2 DEF i
  <2>5. \A j : j \in DOMAIN f <=> \E r \in Rest(d) : d.orders[r].id = j
    <3>1. \A j : j \in DOMAIN f <=> j # i /\ \E r \in Rest(e) : e.orders[r].id = j
      BY <2>1, <1>1, <1>3 DEF Describes
    <3> QED
      BY <3>1, <2>3, <2>4 DEF i
  <2>6. ASSUME NEW r \in Rest(d)
        PROVE  f[d.orders[r].id] = d.orders[r].data
    <3>1. d.orders[r].id \in DOMAIN f
      BY <2>5
    <3> QED
      BY <3>1, <2>4, <1>1, <1>3 DEF Describes
  <2>7. Describes(f, d)
    BY <2>5, <2>6, <1>3 DEF Describes
  <2> QED
    BY <2>7, BookDescribes, OneBook DEF f, b, i
<1> QED
  BY <1>4, <1>5

LEMMA RestBook ==
  ASSUME NEW e, Ordered(e), NEW d, Ordered(d), NEW s \in Slots \ Rest(e), NEW o,
         e.nextId # 0, EnteredBook(e, d, o, s)
  PROVE  BookOf(d) = AfterRest(BookOf(e), e.nextId, o)
<1> DEFINE b == BookOf(e)
           n == e.nextId
           f == AfterRest(b, n, o)
<1>1. Describes(b, e)
  BY BookDescribes
<1>2. \A r \in Rest(e) : r \in Slots /\ r # s /\ e.orders[r].id # n
  <2>1. \A r \in Slots : e.orders[r].id \in Nat /\ e.nextId \in Nat /\ e.orders[r].id < e.nextId
    BY RestFacts DEF Ordered, Sequenced
  <2> QED
    BY <2>1 DEF Rest
<1>3. /\ f = [j \in DOMAIN f |-> f[j]]
      /\ \A j : j \in DOMAIN f <=> j \in DOMAIN b \/ j = n
      /\ \A j \in DOMAIN f : f[j] = IF j = n THEN o ELSE b[j]
  BY DEF AfterRest
<1>4. \A r \in Slots : /\ d.orders[r].id = IF r = s THEN n ELSE e.orders[r].id
                       /\ d.orders[r].data = IF r = s THEN o ELSE e.orders[r].data
  BY DEF EnteredBook
<1>5. \A r : r \in Rest(d) <=> r \in Rest(e) \/ r = s
  BY <1>4 DEF Rest
<1> HIDE DEF f, b, n
<1>6. \A r \in Rest(e) : d.orders[r].id = e.orders[r].id /\ d.orders[r].data = e.orders[r].data
  BY <1>2, <1>4
<1>7. d.orders[s].id = n /\ d.orders[s].data = o
  BY <1>4
<1>8. \A j : j \in DOMAIN f <=> \E r \in Rest(d) : d.orders[r].id = j
  BY <1>1, <1>3, <1>5, <1>6, <1>7 DEF Describes
<1>9. \A r \in Rest(d) : f[d.orders[r].id] = d.orders[r].data
  BY <1>1, <1>2, <1>3, <1>5, <1>6, <1>7, <1>8 DEF Describes
<1>10. Describes(f, d)
  BY <1>3, <1>8, <1>9 DEF Describes
<1> QED
  BY <1>10, BookDescribes, OneBook DEF f, b, n

LEMMA CancelBook ==
  ASSUME NEW e, Ordered(e), NEW d, Ordered(d), NEW s \in Rest(e), LeftBook(e, d, s)
  PROVE  BookOf(d) = AfterCancel(BookOf(e), e.orders[s].id)
<1> DEFINE b == BookOf(e)
           i == e.orders[s].id
           f == AfterCancel(b, i)
<1>1. Describes(b, e)
  BY BookDescribes
<1>2. /\ f = [j \in DOMAIN f |-> f[j]]
      /\ \A j : j \in DOMAIN f <=> j \in DOMAIN b /\ j # i
      /\ \A j \in DOMAIN f : f[j] = b[j]
  BY DEF AfterCancel
<1>3. \A r \in Slots : /\ d.orders[r].id = IF r = s THEN 0 ELSE e.orders[r].id
                       /\ d.orders[r].data = e.orders[r].data
  BY DEF LeftBook
<1>4. \A r : r \in Rest(d) <=> r \in Rest(e) /\ r # s
  BY <1>3 DEF Rest
<1>5. \A r \in Rest(d) : /\ d.orders[r].id = e.orders[r].id /\ e.orders[r].id # i
                         /\ d.orders[r].data = e.orders[r].data
  <2>1. \A r \in Rest(d) : r \in Slots /\ r # s /\ r \in Rest(e)
    BY <1>4 DEF Rest
  <2>2. \A r, t \in Rest(e) : e.orders[r].id = e.orders[t].id => r = t
    BY DEF Ordered, Sequenced
  <2> QED
    BY <2>1, <2>2, <1>3
<1> HIDE DEF f, b
<1>6. \A j : j \in DOMAIN f <=> \E r \in Rest(d) : d.orders[r].id = j
  <2>1. \A j : j \in DOMAIN f <=> j # i /\ \E r \in Rest(e) : e.orders[r].id = j
    BY <1>1, <1>2 DEF Describes
  <2> QED
    BY <2>1, <1>4, <1>5
<1> HIDE DEF i
<1>7. ASSUME NEW r \in Rest(d)
      PROVE  f[d.orders[r].id] = d.orders[r].data
  <2>1. r \in Rest(e) /\ d.orders[r].id \in DOMAIN f
    BY <1>4, <1>6
  <2> QED
    BY <2>1, <1>1, <1>2, <1>5 DEF Describes
<1>8. Describes(f, d)
  BY <1>2, <1>6, <1>7 DEF Describes
<1> QED
  BY <1>8, BookDescribes, OneBook DEF f, b, i

(* The book of the refinement mapping.                                     *)
BookNow == [id \in {eng.orders[s].id : s \in Resting} |-> eng.orders[SlotOf(id)].data]

CrossedIn(b, o) == {i \in DOMAIN b : Book!Crosses(o, b[i])}

BeforeIn(b, i, j) ==
  \/ b[i].price = b[j].price /\ i < j
  \/ IF b[i].side = "ask" THEN b[i].price < b[j].price ELSE b[i].price > b[j].price

TradeStep(b, c) ==
  /\ incoming # NoOrder /\ incoming.size > 0
  /\ \E i \in CrossedIn(b, incoming) :
       /\ \A j \in CrossedIn(b, incoming) \ {i} : BeforeIn(b, i, j)
       /\ report' = [taker |-> eng.nextId, maker |-> i,
                     size |-> Least(incoming.size, b[i].size),
                     side |-> incoming.side, price |-> incoming.price]
       /\ incoming' = [incoming EXCEPT !.size = @ - Least(incoming.size, b[i].size)]
       /\ c = AfterTrade(b, i, Least(incoming.size, b[i].size))
  /\ eng'.nextId = eng.nextId

LEMMA TradeStepMaps ==
  ASSUME TradeStep(BookNow, BookNow')
  PROVE  Book!BookTrade
<1>1. Book!Crossed(incoming) = CrossedIn(BookNow, incoming)
  BY DEF Book!Crossed, CrossedIn, BookNow
<1>2. \A i, j : Book!Before(i, j) = BeforeIn(BookNow, i, j)
  BY DEF Book!Before, BeforeIn, BookNow
<1>3. \A m, n : Book!Least(m, n) = Least(m, n)
  BY DEF Book!Least, Least
<1>4. PICK i \in CrossedIn(BookNow, incoming) :
        /\ \A j \in CrossedIn(BookNow, incoming) \ {i} : BeforeIn(BookNow, i, j)
        /\ report' = [taker |-> eng.nextId, maker |-> i,
                      size |-> Least(incoming.size, BookNow[i].size),
                      side |-> incoming.side, price |-> incoming.price]
        /\ incoming' = [incoming EXCEPT !.size = @ - Least(incoming.size, BookNow[i].size)]
        /\ BookNow' = AfterTrade(BookNow, i, Least(incoming.size, BookNow[i].size))
  BY DEF TradeStep
<1>5. (/\ incoming # NoOrder /\ incoming.size > 0
       /\ \E k \in Book!Crossed(incoming) :
            LET q == Book!Least(incoming.size, BookNow[k].size)
            IN /\ \A j \in Book!Crossed(incoming) \ {k} : Book!Before(k, j)
               /\ report' = [taker |-> eng.nextId, maker |-> k, size |-> q,
                             side |-> incoming.side, price |-> incoming.price]
               /\ incoming' = [incoming EXCEPT !.size = @ - q]
               /\ BookNow' = [j \in {l \in DOMAIN BookNow : l # k \/ q < BookNow[k].size} |->
                              IF j = k THEN [BookNow[k] EXCEPT !.size = @ - q] ELSE BookNow[j]]
       /\ UNCHANGED eng.nextId)
      => Book!BookTrade
  BY DEF Book!BookTrade, BookNow
<1>6. incoming # NoOrder /\ incoming.size > 0 /\ UNCHANGED eng.nextId
  BY DEF TradeStep
<1>7. LET q == Book!Least(incoming.size, BookNow[i].size)
      IN /\ i \in Book!Crossed(incoming)
         /\ \A j \in Book!Crossed(incoming) \ {i} : Book!Before(i, j)
         /\ report' = [taker |-> eng.nextId, maker |-> i, size |-> q,
                       side |-> incoming.side, price |-> incoming.price]
         /\ incoming' = [incoming EXCEPT !.size = @ - q]
         /\ BookNow' = [j \in {l \in DOMAIN BookNow : l # i \/ q < BookNow[i].size} |->
                        IF j = i THEN [BookNow[i] EXCEPT !.size = @ - q] ELSE BookNow[j]]
  BY <1>1, <1>2, <1>3, <1>4 DEF AfterTrade
<1> QED
  BY <1>5, <1>6, <1>7

LEMMA BookNowIs ==
  BookNow = BookOf(eng)
  BY DEF BookNow, BookOf, SlotOf, Resting, Rest

LEMMA RestStepMaps ==
  ASSUME incoming # NoOrder, incoming.size = 0 \/ CrossedIn(BookNow, incoming) = {},
         BookNow' = (IF incoming.size = 0 THEN BookNow
                     ELSE AfterRest(BookNow, eng.nextId, incoming)),
         incoming' = NoOrder, eng'.nextId = eng.nextId + 1, report' = NoOrder
  PROVE  Book!BookRest
<1>1. Book!Crossed(incoming) = CrossedIn(BookNow, incoming)
  BY DEF Book!Crossed, CrossedIn, BookNow
<1>2. (/\ incoming # NoOrder /\ (incoming.size = 0 \/ Book!Crossed(incoming) = {})
       /\ BookNow' = IF incoming.size = 0 THEN BookNow
                     ELSE [i \in DOMAIN BookNow \cup {eng.nextId} |->
                             IF i = eng.nextId THEN incoming ELSE BookNow[i]]
       /\ incoming' = NoOrder /\ eng'.nextId = eng.nextId + 1 /\ report' = NoOrder)
      => Book!BookRest
  BY DEF Book!BookRest, BookNow
<1> QED
  BY <1>1, <1>2 DEF AfterRest

LEMMA CancelStepMaps ==
  ASSUME NEW id \in 1 .. MaxId, incoming = NoOrder, BookNow' = AfterCancel(BookNow, id),
         report' = NoOrder, incoming' = incoming, eng'.nextId = eng.nextId
  PROVE  \E i \in Book!Ids : Book!BookCancel(i)
<1>1. (/\ incoming = NoOrder /\ BookNow' = [i \in DOMAIN BookNow \ {id} |-> BookNow[i]]
       /\ report' = NoOrder /\ incoming' = incoming /\ eng'.nextId = eng.nextId)
      => Book!BookCancel(id)
  BY DEF Book!BookCancel, BookNow
<1>2. id \in Book!Ids
  BY DEF Book!Ids
<1> QED
  BY <1>1, <1>2 DEF AfterCancel

LEMMA StutterMaps ==
  ASSUME BookNow' = BookNow, eng'.nextId = eng.nextId, incoming' = incoming, report' = report
  PROVE  UNCHANGED Book!bookVars
  BY DEF Book!bookVars, BookNow

LEMMA LimitMaps ==
  ASSUME EInv, NEW o \in Order, Limit(o)
  PROVE  \E i \in Book!Order : Book!BookLimit(i)
<1>1. /\ incoming = NoOrder /\ eng.nextId <= MaxId /\ incoming' = o /\ report' = NoOrder
      /\ eng' = eng
  BY DEF Limit, Idle
<1>2. eng.nextId \in Book!Ids
  BY <1>1, InvFacts DEF Book!Ids
<1>3. BookNow' = BookNow /\ eng'.nextId = eng.nextId
  BY <1>1 DEF BookNow, Resting, SlotOf
<1>4. (/\ incoming = NoOrder /\ eng.nextId \in Book!Ids /\ incoming' = o /\ report' = NoOrder
       /\ BookNow' = BookNow /\ eng'.nextId = eng.nextId)
      => Book!BookLimit(o)
  BY DEF Book!BookLimit, BookNow
<1>5. o \in Book!Order
  BY DEF Book!Order, Book!Sides, Order, Sides
<1> QED
  BY <1>1, <1>2, <1>3, <1>4, <1>5

LEMMA ConsumeMaps ==
  ASSUME EInv, Consume, EInv'
  PROVE  Book!BookTrade
<1> DEFINE b == BookOf(eng)
           c == BookOf(eng')
           s == eng.nodes[Best(incoming)].first
           i == eng.orders[s].id
           at == Best(incoming)
           q == Least(incoming.size, eng.orders[s].data.size)
<1>1. /\ FirstAtBest(eng, incoming, at, s) /\ TradeDone(eng, eng', incoming, s)
      /\ report' = Report(incoming, i, q)
      /\ incoming' = [incoming EXCEPT !.size = incoming.size - q]
      /\ incoming # NoOrder /\ incoming.size > 0
  BY ConsumeStep DEF Consume, ConsumeTurn, Busy
<1>2. /\ Ordered(eng) /\ Ordered(eng') /\ eng \in EngType
      /\ incoming \in Order /\ incoming.size \in Nat
      /\ incoming.side \in {"bid", "ask"} /\ incoming.price \in Nat
  <2>1. Ordered(eng) /\ eng \in EngType /\ incoming \in Order
    BY <1>1, InvFacts
  <2>2. Ordered(eng')
    <3>1. PICK F, fl : Spare(eng', F, fl, incoming')
      BY DEF EInv, Sound
    <3> QED
      BY <3>1 DEF Spare, Whole
  <2> QED
    BY <2>1, <2>2, EngineBounds DEF Order, Sides
<1> HIDE DEF s, at
<1>3. /\ s \in Rest(eng) /\ eng.orders[s].data.price = at /\ at \in Nat
      /\ eng.orders[s].data.side # incoming.side
      /\ IF incoming.side = "bid" THEN at <= incoming.price ELSE at >= incoming.price
      /\ \A r \in AtPrice(eng.orders, at) : eng.orders[s].id <= eng.orders[r].id
      /\ \A r \in Rest(eng) : eng.orders[r].data.side # incoming.side =>
           IF incoming.side = "bid" THEN at <= eng.orders[r].data.price
                                    ELSE at >= eng.orders[r].data.price
  BY <1>1 DEF FirstAtBest
<1>4. Describes(b, eng) /\ b[i] = eng.orders[s].data /\ i \in DOMAIN b
  BY <1>2, <1>3, BookDescribes DEF Describes
<1>5. c = AfterTrade(b, i, q)
  BY <1>1, <1>2, <1>3, TradeBook
<1> HIDE DEF b, c
<1>6. i \in CrossedIn(b, incoming)
  BY <1>3, <1>4 DEF CrossedIn, Book!Crosses
<1>7. ASSUME NEW j \in CrossedIn(b, incoming) \ {i}
      PROVE  BeforeIn(b, i, j)
  <2>1. j \in DOMAIN b /\ b[j].side # incoming.side
    BY DEF CrossedIn, Book!Crosses
  <2>2. PICK r \in Rest(eng) : eng.orders[r].id = j
    BY <2>1, <1>4 DEF Describes
  <2>3. b[j] = eng.orders[r].data /\ r \in Slots /\ s \in Slots
    BY <2>2, <1>3, <1>4 DEF Describes, Rest
  <2>4. /\ eng.orders[r].data.price \in Nat /\ j \in Nat /\ i \in Nat /\ i # j
        /\ eng.orders[s].data.side \in {"bid", "ask"}
    BY <2>2, <2>3, <1>2, RestFacts
  <2>5. CASE eng.orders[r].data.price = at
    <3>1. r \in AtPrice(eng.orders, at)
      BY <2>2, <2>3, <2>5 DEF AtPrice, Rest
    <3>2. i < j
      BY <3>1, <2>2, <2>4, <1>3
    <3> QED
      BY <3>2, <2>3, <2>5, <1>3, <1>4 DEF BeforeIn
  <2>6. CASE eng.orders[r].data.price # at
    <3>1. IF incoming.side = "bid" THEN at <= eng.orders[r].data.price
                                   ELSE at >= eng.orders[r].data.price
      BY <2>1, <2>3, <1>3
    <3>2. eng.orders[s].data.side = "ask" <=> incoming.side = "bid"
      BY <2>4, <1>2, <1>3
    <3>3. IF b[i].side = "ask" THEN b[i].price < b[j].price ELSE b[i].price > b[j].price
      BY <3>1, <3>2, <2>3, <2>4, <2>6, <1>3, <1>4
    <3> QED
      BY <3>3 DEF BeforeIn
  <2> QED
    BY <2>5, <2>6
<1>8. eng'.nextId = eng.nextId
  BY <1>1 DEF TradeDone, TradedBook, LeftBook
<1>9. TradeStep(b, c)
  <2>1. /\ report' = [taker |-> eng.nextId, maker |-> i,
                      size |-> Least(incoming.size, b[i].size),
                      side |-> incoming.side, price |-> incoming.price]
        /\ incoming' = [incoming EXCEPT !.size = @ - Least(incoming.size, b[i].size)]
        /\ c = AfterTrade(b, i, Least(incoming.size, b[i].size))
    BY <1>1, <1>4, <1>5 DEF Report
  <2> HIDE DEF i
  <2> QED
    BY <2>1, <1>1, <1>6, <1>7, <1>8 DEF TradeStep
<1>10. BookNow = b /\ BookNow' = c
  BY BookNowIs DEF BookNow, b, c, BookOf, SlotOf, Resting, Rest
<1> QED
  BY <1>9, <1>10, TradeStepMaps

LEMMA FinishMaps ==
  ASSUME EInv, OwnBin, Finish, EInv'
  PROVE  Book!BookRest
<1> DEFINE b == BookOf(eng)
           c == BookOf(eng')
<1>1. /\ RestDone(eng, eng', incoming) /\ incoming' = NoOrder /\ report' = NoOrder
      /\ incoming # NoOrder /\ (incoming.size = 0 \/ ~ CrossesBest(incoming))
  BY FinishStep
<1>2. /\ Ordered(eng) /\ Ordered(eng') /\ eng \in EngType /\ incoming \in Order
      /\ eng.nextId # 0
  <2>1. Ordered(eng) /\ eng \in EngType /\ incoming \in Order /\ eng.nextId # 0
    BY <1>1, InvFacts
  <2>2. PICK F, fl : Spare(eng', F, fl, incoming')
    BY DEF EInv, Sound
  <2> QED
    BY <2>1, <2>2 DEF Spare, Whole
<1>3. Describes(b, eng)
  BY <1>2, BookDescribes
<1>4. c = IF incoming.size = 0 THEN b ELSE AfterRest(b, eng.nextId, incoming)
  <2>1. CASE incoming.size = 0
    <3>1. eng'.orders = eng.orders
      BY <2>1, <1>1 DEF RestDone
    <3> QED
      BY <3>1, <2>1 DEF BookOf, Rest
  <2>2. CASE incoming.size # 0
    <3>1. PICK s \in Slots \ Rest(eng) : EnteredBook(eng, eng', incoming, s)
      BY <2>2, <1>1 DEF RestDone
    <3> QED
      BY <3>1, <2>2, <1>2, RestBook
  <2> QED
    BY <2>1, <2>2
<1>5. eng'.nextId = eng.nextId + 1
  BY <1>1 DEF RestDone, EnteredBook
<1> HIDE DEF b, c
<1>6. incoming.size = 0 \/ CrossedIn(b, incoming) = {}
  <2> SUFFICES ASSUME incoming.size # 0, NEW i \in CrossedIn(b, incoming)
               PROVE  FALSE
    OBVIOUS
  <2>1. /\ i \in DOMAIN b /\ b[i].side # incoming.side
        /\ IF incoming.side = "bid" THEN b[i].price <= incoming.price
                                    ELSE b[i].price >= incoming.price
    BY DEF CrossedIn, Book!Crosses
  <2>2. PICK r \in Rest(eng) : eng.orders[r].id = i
    BY <2>1, <1>3 DEF Describes
  <2>3. b[i] = eng.orders[r].data /\ r \in Slots
    BY <2>2, <1>3 DEF Describes, Rest
  <2>4. IF incoming.side = "bid" THEN incoming.price < eng.orders[r].data.price
                                 ELSE eng.orders[r].data.price < incoming.price
    BY <2>1, <2>3, <1>1, <1>2, NoBestOrder
  <2>5. eng.orders[r].data.price \in Nat /\ incoming.price \in Nat
    BY <2>3, <1>2, RestFacts, EngineBounds DEF Order
  <2> QED
    BY <2>1, <2>3, <2>4, <2>5
<1>7. BookNow = b /\ BookNow' = c
  BY BookNowIs DEF BookNow, b, c, BookOf, SlotOf, Resting, Rest
<1> QED
  BY <1>1, <1>4, <1>5, <1>6, <1>7, RestStepMaps

LEMMA CancelMaps ==
  ASSUME EInv, NEW id \in 1 .. MaxId, Cancel(id), EInv'
  PROVE  (\E i \in Book!Ids : Book!BookCancel(i)) \/ UNCHANGED Book!bookVars
<1> DEFINE b == BookOf(eng)
           c == BookOf(eng')
<1>1. /\ CancelDone(eng, eng', id) /\ incoming = NoOrder /\ incoming' = NoOrder
      /\ report' = NoOrder /\ report = NoOrder
  BY CancelStep
<1>2. Ordered(eng) /\ Ordered(eng')
  <2>1. Ordered(eng)
    BY InvFacts
  <2>2. PICK F, fl : Spare(eng', F, fl, incoming')
    BY DEF EInv, Sound
  <2> QED
    BY <2>1, <2>2 DEF Spare, Whole
<1>3. Describes(b, eng)
  BY <1>2, BookDescribes
<1>4. BookNow = b /\ BookNow' = c
  BY BookNowIs DEF BookNow, b, c, BookOf, SlotOf, Resting, Rest
<1>5. CASE \E s \in Rest(eng) : eng.orders[s].id = id /\ LeftBook(eng, eng', s)
  <2>1. PICK s \in Rest(eng) : eng.orders[s].id = id /\ LeftBook(eng, eng', s)
    BY <1>5
  <2>2. c = AfterCancel(b, id)
    BY <2>1, <1>2, CancelBook
  <2>3. eng'.nextId = eng.nextId
    BY <2>1 DEF LeftBook
  <2> HIDE DEF b, c
  <2> QED
    BY <2>2, <2>3, <1>1, <1>4, CancelStepMaps
<1>6. CASE eng' = eng /\ \A s \in Rest(eng) : eng.orders[s].id # id
  <2>1. BookNow' = BookNow
    BY <1>4, <1>6
  <2> QED
    BY <2>1, <1>1, <1>6, StutterMaps
<1>7. CASE Faulty(eng, eng')
  <2>1. eng'.orders = eng.orders /\ eng'.nextId = eng.nextId
    BY <1>7, <1>2 DEF Faulty, Ordered, EngType
  <2>2. c = b
    BY <2>1 DEF BookOf, Rest
  <2> QED
    BY <2>1, <2>2, <1>1, <1>4, StutterMaps
<1> QED
  BY <1>1, <1>5, <1>6, <1>7 DEF CancelDone

LEMMA InitMaps ==
  ASSUME Init
  PROVE  Book!BookInit
<1>1. /\ \A s \in Slots : eng.orders[s].id = 0
      /\ incoming = NoOrder /\ report = NoOrder /\ eng.nextId = 1
  BY DEF Init
<1>2. Resting = {}
  BY <1>1 DEF Resting
<1>3. BookNow = [i \in {} |-> NoOrder]
  BY <1>2 DEF BookNow
<1>4. (BookNow = [i \in {} |-> NoOrder] /\ incoming = NoOrder /\ eng.nextId = 1
       /\ report = NoOrder)
      => Book!BookInit
  BY DEF Book!BookInit, BookNow
<1> QED
  BY <1>1, <1>3, <1>4

LEMMA NextMaps ==
  ASSUME EInv, OwnBin, [Next]_vars, EInv'
  PROVE  [Book!BookNext]_(Book!bookVars)
<1>1. CASE Consume
  BY <1>1, ConsumeMaps DEF Book!BookNext
<1>2. CASE Finish
  BY <1>2, FinishMaps DEF Book!BookNext
<1>3. ASSUME NEW o \in Order, Limit(o)
      PROVE  Book!BookNext
  BY <1>3, LimitMaps DEF Book!BookNext
<1>4. ASSUME NEW id \in 1 .. MaxId, Cancel(id)
      PROVE  [Book!BookNext]_(Book!bookVars)
  BY <1>4, CancelMaps DEF Book!BookNext
<1>5. CASE UNCHANGED vars
  <2>1. eng' = eng /\ incoming' = incoming /\ report' = report
    BY <1>5 DEF vars
  <2>2. BookNow' = BookNow
    BY <2>1 DEF BookNow, Resting, SlotOf
  <2> QED
    BY <2>1, <2>2, StutterMaps
<1> QED
  BY <1>1, <1>2, <1>3, <1>4, <1>5 DEF Next

(* Each step of the engine is a step of the book or changes nothing there: *)
(* an order trades by price and then by age, rests with what is left, and  *)
(* leaves when it is cancelled.                                            *)
THEOREM EngineImplementsBook == Spec /\ []OwnBin => BookSpec
<1>1. Init => Book!BookInit
  BY InitMaps
<1>2. EInv /\ OwnBin /\ [Next]_vars /\ EInv' => [Book!BookNext]_(Book!bookVars)
  BY NextMaps
<1> QED
  BY <1>1, <1>2, EngineInvariant, PTL DEF Spec, BookSpec, Book!BookSpec
(* Until limit has given MapSize ids, and while a struct stays free, all   *)
(* of this holds of engine.c without any other condition.                  *)
THEOREM SoundBeforeWrap ==
  ASSUME MaxId < MapSize, Reserve >= 1
  PROVE  Spec => /\ [](SkipListSound /\ BestPrices /\ QueuesInOrder)
                 /\ [](PoolConserved /\ Cancellable /\ NoFault)
                 /\ BookSpec
<1>1. EInv => SkipListSound /\ BestPrices
  BY ListHolds
<1>2. EInv => QueuesInOrder /\ PoolConserved /\ Cancellable
  BY QueuesHold, PoolHolds, CancelHolds
<1>3. EInv => NoFault
  BY DEF EInv, NoFault
<1>4. Spec => []OwnBin
  BY SmallIdsShareNoBin
<1> QED
  BY <1>1, <1>2, <1>3, <1>4, EngineInvariant, EngineImplementsBook, PTL
=============================================================================
