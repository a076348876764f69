----------------------------- MODULE DeskProofs -----------------------------
(* What is done at the desks of the staff, for every value of the          *)
(* constants: the choice of a room, the bill, the forms of the front desk, *)
(* the drawer of a technician, and the accounts.  The five share no state: *)
(* each theorem is about the specification of one of them.                 *)
EXTENDS RoomAssignment, Billing, FrontDesk, ResolveDrawer, Accounts,
        SequenceTheorems, FiniteSetTheorems, FunctionTheorems, TLAPS

-----------------------------------------------------------------------------
(* The order of the sorts is a strict total order on the positions.        *)
LEMMA AheadOrders ==
  ASSUME NEW K \in SUBSET Nat, NEW w \in [K -> Nat]
  PROVE  /\ \A i \in K : ~Ahead(w, i, i)
         /\ \A i, j \in K : i # j => Ahead(w, i, j) \/ Ahead(w, j, i)
         /\ \A i, j, k \in K : Ahead(w, i, j) /\ Ahead(w, j, k) => Ahead(w, i, k)
  BY DEF Ahead

(* Some sequence of the positions is in that order: the rank of a position *)
(* is a bijection, and its inverse the sequence.                           *)
LEMMA InOrderExists ==
  ASSUME NEW K \in SUBSET Nat, IsFiniteSet(K), NEW w \in [K -> Nat]
  PROVE  \E p \in SetToSeqs(K) : \A i, j \in DOMAIN p : i < j => Ahead(w, p[i], p[j])
<1> DEFINE N == Cardinality(K)
           upTo(i) == {j \in K : j = i \/ Ahead(w, j, i)}
           rank == [i \in K |-> Cardinality(upTo(i))]
<1>1. N \in Nat
  BY FS_CardinalityType
<1>2. \A i \in K : IsFiniteSet(upTo(i)) /\ Cardinality(upTo(i)) \in 1..N
  <2> TAKE i \in K
  <2>1. upTo(i) \in SUBSET K /\ i \in upTo(i)
    OBVIOUS
  <2>2. IsFiniteSet(upTo(i)) /\ Cardinality(upTo(i)) <= N
    BY <2>1, FS_Subset
  <2>3. Cardinality(upTo(i)) \in Nat
    BY <2>2, FS_CardinalityType
  <2>4. Cardinality(upTo(i)) # 0
    BY <2>1, <2>2, FS_EmptySet
  <2> QED
    BY <1>1, <2>2, <2>3, <2>4
<1>3. \A i, j \in K : Ahead(w, i, j) => rank[i] < rank[j]
  <2> SUFFICES ASSUME NEW i \in K, NEW j \in K, Ahead(w, i, j) PROVE rank[i] < rank[j]
    OBVIOUS
  <2>1. upTo(i) \in SUBSET upTo(j)
    BY AheadOrders
  <2>2. j \in upTo(j) /\ j \notin upTo(i)
    BY AheadOrders
  <2>3. Cardinality(upTo(i)) <= Cardinality(upTo(j)) /\ Cardinality(upTo(i)) # Cardinality(upTo(j))
    BY <1>2, <2>1, <2>2, FS_Subset
  <2>4. Cardinality(upTo(i)) \in Nat /\ Cardinality(upTo(j)) \in Nat
    BY <1>2
  <2> QED
    BY <2>3, <2>4
<1>4. rank \in [K -> 1..N] /\ \A i, j \in K : rank[i] = rank[j] => i = j
  <2>1. rank \in [K -> 1..N]
    BY <1>2
  <2>2. \A i, j \in K : i # j => rank[i] # rank[j]
    <3> HIDE DEF rank, N
    <3>1. \A i \in K : rank[i] \in Int
      BY <2>1
    <3> QED
      BY <1>3, <3>1, AheadOrders
  <2> QED
    BY <2>1, <2>2
<1> HIDE DEF rank
<1>5. rank \in Bijection(K, 1..N)
  <2>1. rank \in Injection(K, 1..N)
    BY <1>4, Fun_IsInj
  <2>2. IsFiniteSet(1..N) /\ Cardinality(1..N) = N
    <3> HIDE DEF N
    <3> QED
      BY <1>1, FS_Interval
  <2>3. rank \in Surjection(K, 1..N)
    BY <2>1, <2>2, FS_Injection
  <2> QED
    BY <2>1, <2>3 DEF Bijection
<1> DEFINE p == Inverse(rank, K, 1..N)
<1>6. p \in Bijection(1..N, K) /\ \A i \in K : p[rank[i]] = i
  <2> HIDE DEF N
  <2> QED
    BY <1>5, Fun_BijInverse
<1> HIDE DEF p
<1>7. /\ p \in [1..N -> K]
      /\ \A a, b \in 1..N : p[a] = p[b] => a = b
      /\ \A a \in 1..N : rank[p[a]] = a
  <2> HIDE DEF N
  <2>1. p \in [1..N -> K] /\ \A a, b \in 1..N : p[a] = p[b] => a = b
    BY <1>6 DEF Bijection, Injection, IsInjective
  <2>2. \A a \in 1..N : p[rank[p[a]]] = p[a]
    BY <1>6, <2>1
  <2> QED
    BY <1>4, <2>1, <2>2
<1> HIDE DEF N
<1>8. p \in SetToSeqs(K)
  BY <1>7 DEF SetToSeqs, N
<1>9. ASSUME NEW a \in DOMAIN p, NEW b \in DOMAIN p, a < b PROVE Ahead(w, p[a], p[b])
  <2>1. a \in 1..N /\ b \in 1..N /\ p[a] \in K /\ p[b] \in K /\ rank[p[a]] = a /\ rank[p[b]] = b
    BY <1>7
  <2>2. Ahead(w, p[b], p[a]) => b < a
    BY <1>3, <2>1
  <2>3. p[a] # p[b] /\ ~(b < a)
    BY <1>1, <1>9, <2>1
  <2> QED
    BY <2>1, <2>2, <2>3, AheadOrders
<1> QED
  BY <1>8, <1>9

(* So what the sorts go through is every position, once, in order.         *)
LEMMA InOrderSorts ==
  ASSUME NEW K \in SUBSET Nat, IsFiniteSet(K), NEW w \in [K -> Nat]
  PROVE  LET p == InOrder(K, w)
         IN  /\ p \in [1..Cardinality(K) -> K]
             /\ \A i \in K : \E k \in DOMAIN p : p[k] = i
             /\ \A i, j \in DOMAIN p : i < j => Ahead(w, p[i], p[j])
<1> DEFINE p == InOrder(K, w)
<1>1. p \in SetToSeqs(K) /\ \A i, j \in DOMAIN p : i < j => Ahead(w, p[i], p[j])
  BY InOrderExists DEF InOrder
<1> HIDE DEF p
<1>2. p \in [1..Cardinality(K) -> K] /\ \A i, j \in DOMAIN p : p[i] = p[j] => i = j
  BY <1>1 DEF SetToSeqs
<1>3. p \in Injection(1..Cardinality(K), K)
  BY <1>2, Fun_IsInj
<1>4. Cardinality(1..Cardinality(K)) = Cardinality(K)
  BY FS_CardinalityType, FS_Interval
<1>5. p \in Surjection(1..Cardinality(K), K)
  BY <1>3, <1>4, FS_Injection
<1>6. \A i \in K : \E k \in 1..Cardinality(K) : p[k] = i
  BY <1>5 DEF Surjection
<1> QED
  BY <1>1, <1>2, <1>6 DEF p

(* r is the list s of n elements of S sorted by the key, stably: every     *)
(* element is there, a smaller key comes first, and equal keys keep their  *)
(* order.  And r is the list s without the elements that are not in P.     *)
Sorted(r, s, n, S, key) ==
  /\ r \in [1..n -> S]
  /\ \A i \in 1..n : \E k \in 1..n : r[k] = s[i]
  /\ \A k, m \in 1..n : k < m =>
       \/ key[r[k]] < key[r[m]]
       \/ /\ key[r[k]] = key[r[m]]
          /\ \E i, j \in 1..n : i < j /\ s[i] = r[k] /\ s[j] = r[m]

Filtered(r, s, n, S, P) ==
  \E l \in Nat :
    /\ r \in [1..l -> S \cap P]
    /\ \A i \in 1..n : s[i] \in P => \E k \in 1..l : r[k] = s[i]
    /\ \A k, m \in 1..l : k < m =>
         \E i, j \in 1..n : i < j /\ s[i] = r[k] /\ s[j] = r[m]

(* OrderBy sorts, whatever the list and the key.                           *)
LEMMA OrderBySorts ==
  ASSUME NEW S, NEW n \in Nat, NEW s \in [1..n -> S], NEW key,
         \A x \in S : key[x] \in Nat
  PROVE  Sorted(OrderBy(s, key), s, n, S, key)
<1> DEFINE w == [i \in DOMAIN s |-> key[s[i]]]
           p == InOrder(DOMAIN s, w)
           r == OrderBy(s, key)
<1>1. DOMAIN s = 1..n /\ DOMAIN s \in SUBSET Nat /\ IsFiniteSet(DOMAIN s) /\ Cardinality(DOMAIN s) = n
  BY FS_Interval
<1>2. w \in [DOMAIN s -> Nat] /\ \A i \in 1..n : w[i] = key[s[i]]
  BY <1>1
<1> HIDE DEF w
<1>3. /\ p \in [1..n -> 1..n]
      /\ \A i \in 1..n : \E k \in 1..n : p[k] = i
      /\ \A i, j \in 1..n : i < j => Ahead(w, p[i], p[j])
  <2>1. LET q == InOrder(DOMAIN s, w)
        IN  /\ q \in [1..Cardinality(DOMAIN s) -> DOMAIN s]
            /\ \A i \in DOMAIN s : \E k \in DOMAIN q : q[k] = i
            /\ \A i, j \in DOMAIN q : i < j => Ahead(w, q[i], q[j])
    BY <1>1, <1>2, InOrderSorts
  <2> HIDE DEF p
  <2>2. DOMAIN p = 1..n
    BY <1>1, <2>1 DEF p
  <2> QED
    BY <1>1, <2>1, <2>2 DEF p
<1>4. r = [k \in DOMAIN p |-> s[p[k]]]
  BY DEF OrderBy, w
<1> HIDE DEF p, r
<1>5. r \in [1..n -> S] /\ \A k \in 1..n : r[k] = s[p[k]]
  BY <1>3, <1>4
<1>6. \A i \in 1..n : \E k \in 1..n : r[k] = s[i]
  BY <1>3, <1>5
<1>7. ASSUME NEW k \in 1..n, NEW m \in 1..n, k < m
      PROVE  \/ key[r[k]] < key[r[m]]
             \/ /\ key[r[k]] = key[r[m]]
                /\ \E i, j \in 1..n : i < j /\ s[i] = r[k] /\ s[j] = r[m]
  <2>1. p[k] \in 1..n /\ p[m] \in 1..n /\ r[k] = s[p[k]] /\ r[m] = s[p[m]]
    BY <1>3, <1>5
  <2>2. w[p[k]] < w[p[m]] \/ (w[p[k]] = w[p[m]] /\ p[k] < p[m])
    BY <1>3, <1>7 DEF Ahead
  <2>3. w[p[k]] = key[r[k]] /\ w[p[m]] = key[r[m]]
    BY <1>2, <2>1
  <2> QED
    BY <2>1, <2>2, <2>3
<1> QED
  BY <1>5, <1>6, <1>7 DEF Sorted, r

(* Where filters, whatever the list and the set.                           *)
LEMMA WhereFilters ==
  ASSUME NEW S, NEW n \in Nat, NEW s \in [1..n -> S], NEW P
  PROVE  Filtered(Where(s, P), s, n, S, P)
<1> DEFINE K == {i \in DOMAIN s : s[i] \in P}
           p == InOrder(K, [i \in K |-> 0])
           r == Where(s, P)
           l == Cardinality(K)
<1>1. K \in SUBSET (1..n) /\ K \in SUBSET Nat /\ IsFiniteSet(K) /\ l \in Nat
  <2>1. K \in SUBSET (1..n) /\ IsFiniteSet(1..n)
    BY FS_Interval
  <2> QED
    BY <2>1, FS_Subset, FS_CardinalityType
<1>2. r = [k \in DOMAIN p |-> s[p[k]]]
  BY DEF Where
<1>3. \A i \in 1..n : i \in K <=> s[i] \in P
  OBVIOUS
<1> HIDE DEF K
<1>4. /\ p \in [1..l -> K]
      /\ \A i \in K : \E k \in 1..l : p[k] = i
      /\ \A i, j \in 1..l : i < j => Ahead([a \in K |-> 0], p[i], p[j])
  <2> DEFINE w == [i \in K |-> 0]
  <2>1. w \in [K -> Nat]
    OBVIOUS
  <2> HIDE DEF w
  <2>2. LET q == InOrder(K, w)
        IN  /\ q \in [1..l -> K]
            /\ \A i \in K : \E k \in 1..l : q[k] = i
            /\ \A i, j \in 1..l : i < j => Ahead(w, q[i], q[j])
    BY <1>1, <2>1, InOrderSorts
  <2> QED
    BY <2>2 DEF w
<1> HIDE DEF p, r, l
<1>5. \A i, j \in 1..l : i < j => p[i] < p[j]
  BY <1>4 DEF Ahead
<1>6. r \in [1..l -> S \cap P] /\ \A k \in 1..l : r[k] = s[p[k]] /\ p[k] \in 1..n
  BY <1>1, <1>2, <1>3, <1>4
<1>7. \A i \in 1..n : s[i] \in P => \E k \in 1..l : r[k] = s[i]
  BY <1>3, <1>4, <1>6
<1>8. \A k, m \in 1..l : k < m => \E i, j \in 1..n : i < j /\ s[i] = r[k] /\ s[j] = r[m]
  BY <1>5, <1>6
<1> QED
  BY <1>1, <1>6, <1>7, <1>8 DEF Filtered, r

(* The choice of a room, for any rooms and any preferences.                *)
RaTypes == hotel \in [Candidates -> RoomData] /\ request \in Requests

(* The filters and sorts of check-in select the best room, whatever the    *)
(* rooms and the request.                                                  *)
LEMMA SelectedIsBest ==
  ASSUME RaTypes PROVE SelectsBest
<1> DEFINE since == [r \in Candidates |-> hotel[r].cleanSince]
           near == ProximityKey(hotel, request.near)
           pool == Pool(hotel, request)
           Older(r, s) == since[r] < since[s] \/ (since[r] = since[s] /\ r <= s)
           table == [i \in Candidates |-> i]
           bySince == OrderBy(table, since)
           byFloor == OnFloor(hotel, bySince, request.floor)
           byNear == OrderBy(byFloor, near)
<1>1. NumRooms \in Nat /\ NumRooms # 0 /\ MaxSince \in Nat
  BY AssignmentAssumption
<1>2. \A r \in Candidates : since[r] \in Nat
  BY <1>1 DEF RaTypes, RoomData
<1>3. \A r \in Candidates : near[r] \in Nat
  BY DEF ProximityKey
<1>4. table \in [1..NumRooms -> Candidates] /\ \A i \in Candidates : i \in 1..NumRooms /\ table[i] = i
  BY DEF Candidates
<1>5. pool \in SUBSET Candidates
  BY DEF Pool
<1>6. Selected(hotel, request) = Head(byNear)
  BY DEF Selected
<1>7. \A r, s \in Candidates :
         Precedes(hotel, request, r, s) <=> near[r] < near[s] \/ (near[r] = near[s] /\ Older(r, s))
  BY DEF Precedes
<1> HIDE DEF since, near, table, pool
<1>8. /\ bySince \in [1..NumRooms -> Candidates]
      /\ \A i \in Candidates : \E k \in 1..NumRooms : bySince[k] = i
      /\ \A k, m \in 1..NumRooms : k < m => Older(bySince[k], bySince[m])
  <2>1. Sorted(bySince, table, NumRooms, Candidates, since)
    BY <1>1, <1>2, <1>4, OrderBySorts
  <2> HIDE DEF bySince
  <2> QED
    BY <1>4, <2>1 DEF Sorted, Candidates
<1> HIDE DEF bySince
<1>9. PICK l \in Nat \ {0} :
        /\ byFloor \in [1..l -> pool]
        /\ \A i \in pool : \E k \in 1..l : byFloor[k] = i
        /\ \A k, m \in 1..l : k < m => Older(byFloor[k], byFloor[m])
  <2> DEFINE onIt == {r \in Candidates : hotel[r].floor = request.floor}
             there == Where(bySince, onIt)
  <2>1. pool = IF onIt = {} THEN Candidates ELSE onIt
    BY DEF pool, Pool
  <2>2. byFloor = IF request.floor = NoFloor \/ there = <<>> THEN bySince ELSE there
    BY DEF OnFloor
  <2>3. request.floor = NoFloor => onIt = {}
    BY DEF RaTypes, RoomData, NoFloor, Floors
  <2>4. onIt \in SUBSET Candidates
    OBVIOUS
  <2> HIDE DEF onIt
  <2>5. Filtered(there, bySince, NumRooms, Candidates, onIt)
    BY <1>1, <1>8, WhereFilters
  <2>6. PICK n \in Nat :
          /\ there \in [1..n -> Candidates \cap onIt]
          /\ \A i \in 1..NumRooms : bySince[i] \in onIt => \E k \in 1..n : there[k] = bySince[i]
          /\ \A k, m \in 1..n : k < m =>
               \E i, j \in 1..NumRooms : i < j /\ bySince[i] = there[k] /\ bySince[j] = there[m]
    BY <2>5 DEF Filtered
  <2> HIDE DEF there, byFloor
  <2>7. there = <<>> <=> n = 0
    BY <2>6
  <2>8. onIt = {} <=> n = 0
    BY <1>8, <2>4, <2>6
  <2>9. CASE n = 0
    BY <1>1, <1>8, <2>1, <2>2, <2>7, <2>8, <2>9
  <2>10. CASE n # 0
    <3>1. byFloor = there /\ pool = onIt
      BY <2>1, <2>2, <2>3, <2>7, <2>8, <2>10
    <3>2. \A i \in onIt : \E k \in 1..n : there[k] = i
      BY <1>8, <2>4, <2>6
    <3>3. there \in [1..n -> onIt]
      BY <2>6
    <3>4. \A k, m \in 1..n : k < m => Older(there[k], there[m])
      BY <1>8, <2>6
    <3> HIDE DEF Older
    <3>5. /\ byFloor \in [1..n -> pool]
          /\ \A i \in pool : \E k \in 1..n : byFloor[k] = i
          /\ \A k, m \in 1..n : k < m => Older(byFloor[k], byFloor[m])
      BY <3>1, <3>2, <3>3, <3>4
    <3> QED
      BY <2>10, <3>5
  <2> QED
    BY <2>9, <2>10
<1> HIDE DEF byFloor
<1>10. /\ byNear \in [1..l -> pool]
       /\ \A i \in pool : \E k \in 1..l : byNear[k] = i
       /\ \A k, m \in 1..l : k < m =>
            near[byNear[k]] < near[byNear[m]]
            \/ (near[byNear[k]] = near[byNear[m]] /\ Older(byNear[k], byNear[m]))
  <2>1. \A r \in pool : near[r] \in Nat
    BY <1>3, <1>5
  <2>2. Sorted(byNear, byFloor, l, pool, near)
    BY <1>9, <2>1, OrderBySorts
  <2> HIDE DEF Older, byNear
  <2>3. byNear \in [1..l -> pool] /\ \A i \in 1..l : \E k \in 1..l : byNear[k] = byFloor[i]
    BY <2>2 DEF Sorted
  <2>4. \A i \in pool : \E k \in 1..l : byNear[k] = i
    BY <1>9, <2>3
  <2>5. ASSUME NEW k \in 1..l, NEW m \in 1..l, k < m
        PROVE  \/ near[byNear[k]] < near[byNear[m]]
               \/ near[byNear[k]] = near[byNear[m]] /\ Older(byNear[k], byNear[m])
    <3>1. \/ near[byNear[k]] < near[byNear[m]]
          \/ /\ near[byNear[k]] = near[byNear[m]]
             /\ \E i, j \in 1..l : i < j /\ byFloor[i] = byNear[k] /\ byFloor[j] = byNear[m]
      <4>1. \A a, b \in 1..l : a < b =>
              \/ near[byNear[a]] < near[byNear[b]]
              \/ /\ near[byNear[a]] = near[byNear[b]]
                 /\ \E i, j \in 1..l : i < j /\ byFloor[i] = byNear[a] /\ byFloor[j] = byNear[b]
        BY <2>2, Zenon DEF Sorted
      <4> QED
        BY <2>5, <4>1
    <3>2. ASSUME NEW i \in 1..l, NEW j \in 1..l, i < j, byFloor[i] = byNear[k], byFloor[j] = byNear[m]
          PROVE  Older(byNear[k], byNear[m])
      <4>1. Older(byFloor[i], byFloor[j])
        BY <1>9, <3>2
      <4> QED
        BY <3>2, <4>1
    <3> QED
      BY <3>1, <3>2
  <2> QED
    BY <2>3, <2>4, <2>5
<1> HIDE DEF byNear
<1>11. Head(byNear) = byNear[1] /\ 1 \in 1..l /\ byNear[1] \in pool
  BY <1>10
<1>12. ASSUME NEW s \in pool PROVE Precedes(hotel, request, byNear[1], s)
  <2>1. PICK m \in 1..l : byNear[m] = s
    BY <1>10
  <2>2. byNear[1] \in Candidates /\ s \in Candidates
    BY <1>5, <1>11
  <2>3. CASE m = 1
    <3>1. near[s] = near[s] /\ Older(s, s)
      BY <2>2 DEF Candidates
    <3> QED
      BY <1>7, <2>1, <2>2, <2>3, <3>1
  <2>4. CASE m # 1
    <3>1. 1 < m
      BY <2>4
    <3> HIDE DEF Older
    <3> QED
      BY <1>7, <1>10, <1>11, <2>1, <2>2, <3>1
  <2> QED
    BY <2>3, <2>4
<1> QED
  BY <1>6, <1>11, <1>12 DEF SelectsBest, pool

(* The rooms and the request have their types.                             *)
LEMMA RaTypesInvariance == RaSpec => []RaTypes
<1>1. RaInit => RaTypes
  BY DEF RaInit, RaTypes
<1>2. RaTypes /\ [AskForRoom]_raVars => RaTypes'
  BY DEF RaTypes, AskForRoom, raVars
<1> QED
  BY <1>1, <1>2, PTL DEF RaSpec

(* A check-in gives the best room: on the preferred floor if one is free   *)
(* there, by proximity, then the longest clean, then in table order.       *)
THEOREM BestRoom == RaSpec => []SelectsBest
<1>1. RaTypes => SelectsBest
  BY SelectedIsBest
<1> QED
  BY <1>1, RaTypesInvariance, PTL

-----------------------------------------------------------------------------
(* The bill of a stay, for any rates, prices, nights and discounts.        *)
Stays  == [rate : Nat, nights : Nat \ {0}, days : Nat]
Extras == [orders : Nat, minibar : Nat, hours : Nat, type : DiscountTypes, value : Nat]

BillTypes == stay \in Stays /\ extras \in Extras

(* All amounts of a bill are natural numbers, and a stay has a night.      *)
LEMMA BillTypesInvariance == BillSpec => []BillTypes
<1>1. BillInit => BillTypes
  <2> SUFFICES ASSUME BillInit PROVE BillTypes
    OBVIOUS
  <2>1. Rates \subseteq Nat /\ DiscountValues \subseteq Nat /\ 1..MaxNights \subseteq Nat \ {0}
    BY BillingAssumption
  <2>2. stay \in [rate : Rates, nights : 1..MaxNights, days : {0}]
    BY DEF BillInit
  <2>3. stay \in [rate : Nat, nights : Nat \ {0}, days : Nat]
    <3>1. /\ stay = [rate |-> stay.rate, nights |-> stay.nights, days |-> stay.days]
          /\ stay.rate \in Rates /\ stay.nights \in 1..MaxNights /\ stay.days = 0
      BY <2>2
    <3> QED
      BY <2>1, <3>1
  <2>4. extras \in [orders : {0}, minibar : {0}, hours : {0},
                   type : DiscountTypes, value : DiscountValues]
    BY DEF BillInit
  <2>5. extras \in [orders : Nat, minibar : Nat, hours : Nat, type : DiscountTypes, value : Nat]
    <3>1. /\ extras = [orders |-> extras.orders, minibar |-> extras.minibar, hours |-> extras.hours,
                       type |-> extras.type, value |-> extras.value]
          /\ extras.orders = 0 /\ extras.minibar = 0 /\ extras.hours = 0
          /\ extras.type \in DiscountTypes /\ extras.value \in DiscountValues
      BY <2>4
    <3> QED
      BY <2>1, <3>1
  <2> QED
    BY <2>3, <2>5 DEF BillTypes, Stays, Extras
<1>2. BillTypes /\ [BillNext]_billVars => BillTypes'
  <2> SUFFICES ASSUME BillTypes, [BillNext]_billVars PROVE BillTypes'
    OBVIOUS
  <2> USE BillingAssumption DEF BillTypes, Stays, Extras
  <2>1. CASE DayPasses
    BY <2>1 DEF DayPasses
  <2>2. CASE HourLate
    BY <2>2 DEF HourLate
  <2>3. ASSUME NEW a \in Amounts, OrderServed(a) PROVE BillTypes'
    BY <2>3 DEF OrderServed
  <2>4. ASSUME NEW a \in Amounts, MinibarUsed(a) PROVE BillTypes'
    BY <2>4 DEF MinibarUsed
  <2>5. CASE UNCHANGED billVars
    BY <2>5 DEF billVars
  <2> QED
    BY <2>1, <2>2, <2>3, <2>4, <2>5 DEF BillNext
<1> QED
  BY <1>1, <1>2, PTL DEF BillSpec

(* The subtotal in dollars.                                                *)
Dollars(s, x) == s.rate * NightsCharged(s) + x.orders + x.minibar + x.hours * 20

(* What is left to pay of d dollars, in tenths of a cent: nothing when the *)
(* discount exceeds them.                                                  *)
Positive(n) == IF n > 0 THEN n ELSE 0
Due(d, x) ==
  CASE x.type = "percentage" -> Positive(d * 1000 - (d * x.value) * 10)
    [] x.type = "fixed" -> Positive(d * 1000 - x.value * 1000)
    [] OTHER -> d * 1000

(* Nights and amounts are whole dollars, the subtotal is in tenths of a    *)
(* cent.                                                                   *)
LEMMA Whole ==
  ASSUME NEW s \in Stays, NEW x \in Extras
  PROVE  Dollars(s, x) \in Nat /\ NightsCharged(s) \in Nat /\ Subtotal(s, x) = Dollars(s, x) * 1000
<1>1. NightsCharged(s) \in Nat
  BY DEF NightsCharged, AtLeast, AtMost, Stays
<1>2. s.rate * NightsCharged(s) \in Nat
  BY <1>1 DEF Stays
<1> QED
  BY <1>1, <1>2 DEF Dollars, Subtotal, Dollar, Extras

(* A percentage of whole dollars is exact, and so is the tax on the rest.  *)
LEMMA Exact ==
  ASSUME NEW s \in Stays, NEW x \in Extras
  PROVE  /\ Due(Dollars(s, x), x) \in Nat
         /\ Discount(s, x) = Subtotal(s, x) - Due(Dollars(s, x), x)
         /\ Discount(s, x) \in Nat
         /\ Taxable(s, x) = Due(Dollars(s, x), x)
         /\ Tax(s, x) * 10 = Taxable(s, x) /\ Tax(s, x) \in Nat
<1> DEFINE d == Dollars(s, x)
           p == d * x.value
<1>1. d \in Nat /\ x.value \in Nat /\ Subtotal(s, x) = d * 1000 /\ x.type \in DiscountTypes
  BY Whole DEF Extras
<1>2. p \in Nat /\ (d * 1000) * x.value = p * 1000
  BY <1>1
<1> HIDE DEF d
<1>3. CASE x.type = "percentage"
  <2>1. (Subtotal(s, x) * x.value) \div 100 = p * 10
    <3>1. \A n \in Nat : (n * 1000) \div 100 = n * 10
      OBVIOUS
    <3>2. Subtotal(s, x) * x.value = p * 1000
      BY <1>1, <1>2
    <3> HIDE DEF p
    <3> QED
      BY <1>2, <3>1, <3>2
  <2>2. Due(d, x) = Positive(d * 1000 - p * 10)
    BY <1>3 DEF Due
  <2> HIDE DEF p
  <2>3. Discount(s, x) = AtMost(p * 10, d * 1000)
    BY <1>1, <1>3, <2>1 DEF Discount
  <2>4. Due(d, x) \in Nat /\ Discount(s, x) = Subtotal(s, x) - Due(d, x) /\ Discount(s, x) \in Nat
    BY <1>1, <1>2, <2>2, <2>3 DEF AtMost, Positive
  <2>5. Taxable(s, x) = Due(d, x)
    BY <1>1, <2>4 DEF Taxable, AtLeast
  <2>6. \E n \in Nat : Due(d, x) = n * 10
    <3>1. CASE d * 1000 - p * 10 > 0
      <4>1. d * 100 - p \in Nat /\ Due(d, x) = (d * 100 - p) * 10
        BY <1>1, <1>2, <2>2, <3>1 DEF Positive
      <4> QED
        BY <4>1
    <3>2. CASE ~(d * 1000 - p * 10 > 0)
      BY <2>2, <3>2 DEF Positive
    <3> QED
      BY <3>1, <3>2
  <2>7. Tax(s, x) * 10 = Due(d, x) /\ Tax(s, x) \in Nat
    BY <2>5, <2>6 DEF Tax
  <2> QED
    BY <2>4, <2>5, <2>7 DEF d
<1>4. CASE x.type = "fixed"
  <2> HIDE DEF p
  <2>1. Due(d, x) = Positive(d * 1000 - x.value * 1000)
    BY <1>4 DEF Due
  <2>2. Discount(s, x) = AtMost(x.value * 1000, d * 1000)
    BY <1>1, <1>4 DEF Discount, Dollar
  <2>3. Due(d, x) \in Nat /\ Discount(s, x) = Subtotal(s, x) - Due(d, x) /\ Discount(s, x) \in Nat
    BY <1>1, <2>1, <2>2 DEF AtMost, Positive
  <2>4. Taxable(s, x) = Due(d, x)
    BY <1>1, <2>3 DEF Taxable, AtLeast
  <2>5. Tax(s, x) * 10 = Due(d, x) /\ Tax(s, x) \in Nat
    BY <1>1, <2>1, <2>4 DEF Tax, Positive
  <2> QED
    BY <2>3, <2>4, <2>5 DEF d
<1>5. CASE x.type = "none"
  <2> HIDE DEF p
  <2>1. Due(d, x) = d * 1000
    BY <1>5 DEF Due
  <2>2. Discount(s, x) = AtMost(0, d * 1000)
    BY <1>1, <1>5 DEF Discount
  <2>3. Due(d, x) \in Nat /\ Discount(s, x) = Subtotal(s, x) - Due(d, x) /\ Discount(s, x) \in Nat
    BY <1>1, <2>1, <2>2 DEF AtMost
  <2>4. Taxable(s, x) = Due(d, x)
    BY <1>1, <2>3 DEF Taxable, AtLeast
  <2>5. Tax(s, x) * 10 = Due(d, x) /\ Tax(s, x) \in Nat
    BY <1>1, <2>1, <2>4 DEF Tax
  <2> QED
    BY <2>3, <2>4, <2>5 DEF d
<1> QED
  BY <1>1, <1>3, <1>4, <1>5 DEF DiscountTypes

(* The documented formula holds to the tenth of a cent.                    *)
THEOREM TotalMatchesFormula == BillSpec => []MatchesFormula
<1>1. BillTypes => MatchesFormula
  <2> SUFFICES ASSUME BillTypes PROVE MatchesFormula
    OBVIOUS
  <2> DEFINE d == Dollars(stay, extras)
             p == d * extras.value
             total == GrandTotal(stay, extras)
  <2>1. stay \in Stays /\ extras \in Extras
    BY DEF BillTypes
  <2>2. /\ d \in Nat /\ extras.value \in Nat /\ extras.type \in DiscountTypes
        /\ Subtotal(stay, extras) = d * 1000
    BY <2>1, Whole DEF Extras
  <2>3. total * 10 = Due(d, extras) * 11
    <3>1. /\ Taxable(stay, extras) = Due(d, extras) /\ Due(d, extras) \in Nat
          /\ Tax(stay, extras) * 10 = Taxable(stay, extras) /\ Tax(stay, extras) \in Nat
      BY <2>1, Exact
    <3> HIDE DEF d
    <3> QED
      BY <3>1 DEF GrandTotal
  <2>4. total \in Int
    BY <2>1, Exact DEF GrandTotal
  <2>5. p \in Nat /\ (d * 1000) * extras.value = p * 1000
    BY <2>2
  <2> HIDE DEF d, p, total
  <2>6. CASE extras.type = "percentage"
    <3>1. Due(d, extras) = Positive(d * 1000 - p * 10)
      BY <2>6 DEF Due, p
    <3>2. MatchesFormula <=> total * 1000 =
            IF d * 1000 * 100 - p * 1000 > 0 THEN (d * 1000 * 100 - p * 1000) * 11 ELSE 0
      BY <2>2, <2>5, <2>6 DEF MatchesFormula, total
    <3>3. p \in Nat
      BY <2>5
    <3> QED
      BY <2>2, <2>3, <2>4, <3>1, <3>2, <3>3 DEF Positive
  <2>7. CASE extras.type = "fixed"
    <3>1. Due(d, extras) = Positive(d * 1000 - extras.value * 1000)
      BY <2>7 DEF Due
    <3>2. MatchesFormula <=> total * 1000 =
            IF d * 1000 * 100 - extras.value * 1000 * 100 > 0
              THEN (d * 1000 * 100 - extras.value * 1000 * 100) * 11 ELSE 0
      BY <2>2, <2>7 DEF MatchesFormula, Dollar, total
    <3>3. extras.value \in Nat
      BY <2>2
    <3> DEFINE v == extras.value
    <3> HIDE DEF v
    <3>4. /\ v \in Nat /\ total * 10 = Positive(d * 1000 - v * 1000) * 11
          /\ MatchesFormula <=> total * 1000 =
               IF d * 1000 * 100 - v * 1000 * 100 > 0 THEN (d * 1000 * 100 - v * 1000 * 100) * 11 ELSE 0
      BY <2>3, <3>1, <3>2, <3>3 DEF v
    <3> QED
      BY <2>2, <2>4, <3>4 DEF Positive
  <2>8. CASE extras.type = "none"
    <3>1. Due(d, extras) = d * 1000
      BY <2>8 DEF Due
    <3>2. MatchesFormula <=> total * 1000 =
            IF d * 1000 * 100 - 0 > 0 THEN (d * 1000 * 100 - 0) * 11 ELSE 0
      BY <2>2, <2>8 DEF MatchesFormula, total
    <3> QED
      BY <2>2, <2>3, <2>4, <3>1, <3>2
  <2> QED
    BY <2>2, <2>6, <2>7, <2>8 DEF DiscountTypes
<1> QED
  BY <1>1, BillTypesInvariance, PTL

(* What is charged and what is taken off add up to the subtotal.           *)
THEOREM ReceiptsAddUp == BillSpec => []ReceiptAddsUp
<1>1. BillTypes => ReceiptAddsUp
  <2> SUFFICES ASSUME BillTypes PROVE ReceiptAddsUp
    OBVIOUS
  <2>1. stay \in Stays /\ extras \in Extras
    BY DEF BillTypes
  <2>2. /\ Dollars(stay, extras) \in Nat /\ Subtotal(stay, extras) = Dollars(stay, extras) * 1000
        /\ Due(Dollars(stay, extras), extras) \in Nat
        /\ Discount(stay, extras) = Subtotal(stay, extras) - Due(Dollars(stay, extras), extras)
        /\ Discount(stay, extras) \in Nat
        /\ Taxable(stay, extras) = Due(Dollars(stay, extras), extras)
        /\ Tax(stay, extras) \in Nat
    BY <2>1, Whole, Exact
  <2> QED
    BY <2>2 DEF ReceiptAddsUp, GrandTotal
<1> QED
  BY <1>1, BillTypesInvariance, PTL

(* Multiplication keeps the order.                                         *)
LEMMA Times == \A a, b, c \in Nat : b <= c => a * b <= a * c
  OBVIOUS

(* More dollars leave no less to pay, whatever the discount.               *)
LEMMA DueGrows ==
  ASSUME NEW d \in Nat, NEW e \in Nat, d <= e, NEW x \in Extras
  PROVE  Due(d, x) <= Due(e, x)
<1>1. x.value \in Nat /\ x.type \in DiscountTypes
  BY DEF Extras
<1>2. CASE x.type = "percentage"
  <2>1. /\ Due(d, x) = Positive(d * 1000 - (d * x.value) * 10)
        /\ Due(e, x) = Positive(e * 1000 - (e * x.value) * 10)
    BY <1>2 DEF Due
  <2>2. CASE x.value >= 100
    <3>1. 100 * d <= x.value * d /\ 100 * e <= x.value * e
      BY <1>1, <2>2
    <3> QED
      BY <1>1, <2>1, <3>1 DEF Positive
  <2>3. CASE x.value < 100
    <3>1. PICK w \in Nat : x.value = 100 - w
      BY <1>1, <2>3
    <3>2. /\ d * 1000 - (d * x.value) * 10 = (w * d) * 10 /\ w * d \in Nat
          /\ e * 1000 - (e * x.value) * 10 = (w * e) * 10 /\ w * e \in Nat
      BY <3>1
    <3>3. w * d <= w * e
      BY Times
    <3> QED
      BY <2>1, <3>2, <3>3 DEF Positive
  <2> QED
    BY <1>1, <2>2, <2>3
<1>3. CASE x.type = "fixed"
  BY <1>1, <1>3 DEF Due, Positive
<1>4. CASE x.type = "none"
  BY <1>4 DEF Due
<1> QED
  BY <1>1, <1>2, <1>3, <1>4 DEF DiscountTypes

(* A later departure is not charged for fewer nights.                      *)
LEMMA NightsGrow ==
  ASSUME NEW s \in Stays, NEW t \in Stays, t.nights = s.nights, s.days <= t.days
  PROVE  NightsCharged(s) <= NightsCharged(t)
  BY DEF NightsCharged, AtLeast, AtMost, Stays

(* Nothing that happens in a stay makes its bill smaller.                  *)
THEOREM BillsNeverShrink == BillSpec => BillNeverShrinks
<1> DEFINE d == Dollars(stay, extras)
           e == Dollars(stay', extras')
           Grows == GrandTotal(stay, extras) <= GrandTotal(stay', extras')
<1>1. ASSUME BillTypes, BillTypes', [BillNext]_billVars PROVE Grows
  <2>1. /\ stay \in Stays /\ extras \in Extras /\ stay' \in Stays /\ extras' \in Extras
    BY <1>1 DEF BillTypes
  <2>2. /\ d \in Nat /\ e \in Nat /\ NightsCharged(stay) \in Nat /\ NightsCharged(stay') \in Nat
    BY <2>1, Whole
  <2>3. /\ stay'.rate = stay.rate /\ stay'.nights = stay.nights /\ stay.days <= stay'.days
        /\ extras.orders <= extras'.orders /\ extras.minibar <= extras'.minibar
        /\ extras.hours <= extras'.hours
        /\ extras'.type = extras.type /\ extras'.value = extras.value
    <3> USE <2>1 DEF Stays, Extras
    <3>1. CASE DayPasses
      BY <3>1 DEF DayPasses
    <3>2. CASE HourLate
      BY <3>2 DEF HourLate
    <3>3. ASSUME NEW a \in Amounts, OrderServed(a) \/ MinibarUsed(a)
          PROVE  /\ extras.orders <= extras'.orders /\ extras.minibar <= extras'.minibar
                 /\ extras.hours = extras'.hours
                 /\ extras'.type = extras.type /\ extras'.value = extras.value /\ stay' = stay
      BY <3>3, BillingAssumption DEF OrderServed, MinibarUsed
    <3>4. CASE UNCHANGED billVars
      BY <3>4 DEF billVars
    <3> QED
      BY <1>1, <3>1, <3>2, <3>3, <3>4 DEF BillNext
  <2>4. d <= e
    <3>1. NightsCharged(stay) <= NightsCharged(stay')
      BY <2>1, <2>3, NightsGrow
    <3>2. stay.rate * NightsCharged(stay) <= stay'.rate * NightsCharged(stay')
      BY <2>1, <2>2, <2>3, <3>1, Times DEF Stays
    <3>3. /\ stay.rate * NightsCharged(stay) \in Nat
          /\ stay'.rate * NightsCharged(stay') \in Nat
      BY <2>1, <2>2 DEF Stays
    <3> QED
      BY <2>1, <2>3, <3>2, <3>3 DEF Dollars, Extras
  <2>5. /\ Due(d, extras) \in Nat /\ Due(e, extras') \in Nat
        /\ Taxable(stay, extras) = Due(d, extras) /\ Taxable(stay', extras') = Due(e, extras')
        /\ Tax(stay, extras) * 10 = Taxable(stay, extras)
        /\ Tax(stay', extras') * 10 = Taxable(stay', extras')
        /\ Tax(stay, extras) \in Nat /\ Tax(stay', extras') \in Nat
    BY <2>1, Exact
  <2>6. Due(e, extras') = Due(e, extras)
    BY <2>3 DEF Due
  <2> HIDE DEF d, e
  <2>7. Due(d, extras) <= Due(e, extras)
    BY <2>1, <2>2, <2>4, DueGrows
  <2> QED
    BY <2>5, <2>6, <2>7 DEF GrandTotal
<1> HIDE DEF Grows
<1>2. BillTypes /\ BillTypes' /\ [BillNext]_billVars => [Grows]_billVars
  BY <1>1
<1>3. [][Grows]_billVars => BillNeverShrinks
  BY PTL DEF BillNeverShrinks, Grows
<1> QED
  BY <1>2, <1>3, BillTypesInvariance, PTL DEF BillSpec

-----------------------------------------------------------------------------
(* The check-in and check-out forms, for any set of rooms and any number   *)
(* of guests, previews and requests.                                       *)
FdBill    == [guest : Nat, form : Forms]
FdPreview == [form : Forms, bill : FdBill, pc : {"asked", "computed"}]
FdRequest == [op : {"in", "out"}, form : Forms, saw : Nat]

FdTypes ==
  /\ desk \in {"receptionist", "operations"} /\ quiet \in BOOLEAN
  /\ tenant \in [Rooms -> Nat] /\ guests \in Nat
  /\ dirty \subseteq Rooms /\ offered \subseteq Rooms
  /\ form \in Forms /\ fresh \subseteq Fields
  /\ preview \in FdBill
  /\ previews \in Seq(FdPreview)
  /\ sent \in Seq(FdRequest)
  /\ answers \in Nat
  /\ \A i \in DOMAIN sent : sent[i].op = "out" => sent[i].form.room \in Rooms

(* A guest who has just left a room: nobody is let into it before it has   *)
(* been cleaned.                                                           *)
JustLeft(r) == tenant[r] = NoGuest /\ r \in dirty

(* A bill a clerk may act on: that of the form, for the guest who is in    *)
(* the room, or has left it by a check-out whose answer is under way and   *)
(* will empty the form.                                                    *)
IsFor(b, f) ==
  b # NoBill => /\ b.form = f /\ b.guest # NoGuest
                /\ \/ b.guest = tenant[f.room]
                   \/ JustLeft(f.room) /\ answers > 0

(* The bill of the form is the one shown, or the last one asked for.       *)
ShownInv == quiet /\ form.room # NoRoom =>
  IF previews = <<>>
    THEN IsFor(preview, form)
    ELSE LET last == previews[Len(previews)] IN
           last.form = form /\ (last.pc = "computed" => IsFor(last.bill, form))

(* A check-out under way is for the guest the clerk saw, if not too late.  *)
SentInv == quiet => \A i \in DOMAIN sent :
  sent[i].op = "out" /\ sent[i].saw # NoGuest =>
    \/ sent[i].saw = tenant[sent[i].form.room]
    \/ JustLeft(sent[i].form.room)

FdInv == FdTypes /\ ShownInv /\ SentInv

(* What is left of a sequence when an element is taken out of it.          *)
LEMMA Removed ==
  ASSUME NEW S, NEW s \in Seq(S), NEW i \in DOMAIN s
  PROVE  /\ RemoveAt(s, i) \in Seq(S)
         /\ Len(RemoveAt(s, i)) = Len(s) - 1
         /\ \A j \in 1..(Len(s) - 1) : RemoveAt(s, i)[j] = s[IF j < i THEN j ELSE j + 1]
<1>1. Len(s) \in Nat /\ i \in 1..Len(s) /\ \A j \in 1..Len(s) : s[j] \in S
  BY LenProperties, ElementOfSeq
<1> DEFINE front == SubSeq(s, 1, i - 1)
           back  == SubSeq(s, i + 1, Len(s))
<1>2. /\ front \in Seq(S) /\ Len(front) = i - 1
      /\ \A j \in 1..(i - 1) : front[j] = s[j]
  <2>1. \A j \in 1..(i - 1) : s[j] \in S
    BY <1>1
  <2>2. /\ front \in Seq(S)
        /\ Len(front) = IF 1 <= i - 1 THEN (i - 1) - 1 + 1 ELSE 0
        /\ \A j \in 1..((i - 1) - 1 + 1) : front[j] = s[1 + j - 1]
    BY <1>1, <2>1, SubSeqProperties
  <2> QED
    BY <1>1, <2>2
<1>3. /\ back \in Seq(S) /\ Len(back) = Len(s) - i
      /\ \A j \in 1..(Len(s) - i) : back[j] = s[i + j]
  <2>1. \A j \in (i + 1)..Len(s) : s[j] \in S
    BY <1>1
  <2>2. /\ back \in Seq(S)
        /\ Len(back) = IF i + 1 <= Len(s) THEN Len(s) - (i + 1) + 1 ELSE 0
        /\ \A j \in 1..(Len(s) - (i + 1) + 1) : back[j] = s[(i + 1) + j - 1]
    BY <1>1, <2>1, SubSeqProperties
  <2> QED
    BY <1>1, <2>2
<1> HIDE DEF front, back
<1>4. /\ front \o back \in Seq(S) /\ Len(front \o back) = Len(s) - 1
      /\ \A j \in 1..(Len(s) - 1) :
           (front \o back)[j] = IF j <= i - 1 THEN front[j] ELSE back[j - (i - 1)]
  BY <1>1, <1>2, <1>3, ConcatProperties
<1>5. ASSUME NEW j \in 1..(Len(s) - 1)
      PROVE  (front \o back)[j] = s[IF j < i THEN j ELSE j + 1]
  <2>1. CASE j < i
    BY <1>1, <1>2, <1>4, <2>1
  <2>2. CASE ~(j < i)
    <3>1. j - (i - 1) \in 1..(Len(s) - i) /\ i + (j - (i - 1)) = j + 1 /\ ~(j <= i - 1)
      BY <1>1, <2>2
    <3> QED
      BY <1>3, <1>4, <2>2, <3>1
  <2> QED
    BY <2>1, <2>2
<1> QED
  BY <1>4, <1>5 DEF RemoveAt, front, back

(* What is left was there before.                                          *)
LEMMA RemovedFrom ==
  ASSUME NEW S, NEW s \in Seq(S), NEW i \in DOMAIN s, NEW j \in DOMAIN RemoveAt(s, i)
  PROVE  \E k \in DOMAIN s : RemoveAt(s, i)[j] = s[k]
<1>1. /\ RemoveAt(s, i) \in Seq(S) /\ Len(RemoveAt(s, i)) = Len(s) - 1
      /\ \A l \in 1..(Len(s) - 1) : RemoveAt(s, i)[l] = s[IF l < i THEN l ELSE l + 1]
  BY Removed
<1>2. /\ Len(s) \in Nat /\ DOMAIN s = 1..Len(s)
      /\ DOMAIN RemoveAt(s, i) = 1..(Len(s) - 1)
  BY <1>1, LenProperties
<1>3. (IF j < i THEN j ELSE j + 1) \in DOMAIN s
  BY <1>2
<1> QED
  BY <1>1, <1>2, <1>3

(* What is appended comes last, and the rest stays where it is.            *)
LEMMA Appended ==
  ASSUME NEW S, NEW s \in Seq(S), NEW e \in S
  PROVE  /\ Append(s, e) \in Seq(S) /\ Append(s, e) # <<>>
         /\ Len(s) \in Nat /\ Len(Append(s, e)) = Len(s) + 1
         /\ Append(s, e)[Len(Append(s, e))] = e
         /\ \A j \in DOMAIN Append(s, e) :
              \/ j \in DOMAIN s /\ Append(s, e)[j] = s[j]
              \/ Append(s, e)[j] = e
  OBVIOUS

-----------------------------------------------------------------------------
(* The values of the form, the bills and the requests differ from each     *)
(* other.                                                                  *)
LEMMA FdValues ==
  /\ Rooms \subseteq Nat /\ NoRoom \notin Rooms
  /\ EmptyForm \in Forms /\ EmptyForm.room = NoRoom
  /\ NoBill \in FdBill /\ NoBill.guest = NoGuest
  BY FrontDeskAssumption DEF NoRoom, NoGuest, EmptyForm, Forms, Fields, NoBill, FdBill

(* The desk opens with an empty form.                                      *)
LEMMA FdInitInv == FdInit => FdInv
<1> SUFFICES ASSUME FdInit PROVE FdInv
  OBVIOUS
<1>1. FdTypes
  BY FdValues DEF FdInit, FdTypes, NoGuest
<1>2. ShownInv /\ SentInv
  BY FdValues DEF FdInit, ShownInv, SentInv
<1> QED
  BY <1>1, <1>2 DEF FdInv

(* A change of the form asks for the bill of the form it becomes.          *)
LEMMA FormAsked ==
  ASSUME FdTypes, NEW f \in Forms, FormBecomes(f)
  PROVE  /\ form' = f
         /\ preview' \in FdBill /\ previews' \in Seq(FdPreview)
         /\ f.room # NoRoom => /\ previews' # <<>>
                               /\ previews'[Len(previews')].form = f
                               /\ previews'[Len(previews')].pc = "asked"
<1>1. CASE f.room = NoRoom
  BY <1>1, FdValues DEF FormBecomes, FdTypes
<1>2. CASE f.room # NoRoom
  <2> DEFINE new == [form |-> f, bill |-> NoBill, pc |-> "asked"]
  <2>1. new \in FdPreview /\ new.form = f /\ new.pc = "asked"
    BY FdValues DEF FdPreview
  <2> HIDE DEF new
  <2>2. form' = f /\ previews' = Append(previews, new) /\ preview' = preview
    BY <1>2 DEF FormBecomes, new
  <2>3. previews \in Seq(FdPreview) /\ preview \in FdBill
    BY DEF FdTypes
  <2>4. previews' \in Seq(FdPreview) /\ previews' # <<>> /\ previews'[Len(previews')] = new
    BY <2>1, <2>2, <2>3, Appended
  <2> QED
    BY <2>1, <2>2, <2>3, <2>4
<1> QED
  BY <1>1, <1>2

(* So the form may change in any way while the rooms stay as they are.     *)
LEMMA FormChanges ==
  ASSUME FdInv, NEW f \in Forms, FormBecomes(f), fresh' \subseteq Fields,
         UNCHANGED <<tenant, guests, dirty, offered, sent, answers>>, UNCHANGED Setting
  PROVE  FdInv'
<1>1. /\ form' = f
      /\ preview' \in FdBill /\ previews' \in Seq(FdPreview)
      /\ f.room # NoRoom => /\ previews' # <<>>
                            /\ previews'[Len(previews')].form = f
                            /\ previews'[Len(previews')].pc = "asked"
  BY FormAsked DEF FdInv
<1>2. FdTypes'
  BY <1>1 DEF FdInv, FdTypes, Setting
<1>3. ShownInv'
  BY <1>1 DEF ShownInv
<1>4. SentInv'
  BY DEF FdInv, SentInv, JustLeft, Setting
<1> QED
  BY <1>2, <1>3, <1>4 DEF FdInv

(* What is sent holds the form, and the guest of the bill if there is one. *)
LEMMA FormSends ==
  ASSUME FdInv, NEW m \in FdRequest, sent' = Append(sent, m),
         m.op = "out" => m.form.room \in Rooms,
         quiet /\ m.op = "out" /\ m.saw # NoGuest =>
           m.saw = tenant[m.form.room] \/ JustLeft(m.form.room),
         UNCHANGED <<tenant, guests, dirty, offered, form, fresh, preview, previews, answers>>,
         UNCHANGED Setting
  PROVE  FdInv'
<1>1. /\ sent' \in Seq(FdRequest)
      /\ \A j \in DOMAIN sent' : (j \in DOMAIN sent /\ sent'[j] = sent[j]) \/ sent'[j] = m
  BY Appended DEF FdInv, FdTypes
<1>2. FdTypes'
  BY <1>1 DEF FdInv, FdTypes, Setting
<1>3. ShownInv'
  BY DEF FdInv, ShownInv, IsFor, JustLeft, Setting
<1>4. SentInv'
  BY <1>1 DEF FdInv, SentInv, JustLeft, Setting
<1> QED
  BY <1>2, <1>3, <1>4 DEF FdInv

(* At a desk that works alone a room goes on: its guest stays or has just  *)
(* left it, and a room left is not let.                                    *)
RoomsGoOn == \A r \in Rooms :
  /\ tenant[r] # NoGuest => \/ tenant'[r] = tenant[r]
                            \/ JustLeft(r)' /\ answers' > 0
  /\ JustLeft(r) => JustLeft(r)'

(* A request is served, or is lost.                                        *)
LEMMA FormServed ==
  ASSUME FdInv, NEW i \in DOMAIN sent, sent' = RemoveAt(sent, i),
         tenant' \in [Rooms -> Nat], guests' \in Nat, dirty' \subseteq Rooms, answers' \in Nat,
         quiet => RoomsGoOn /\ answers' >= answers,
         UNCHANGED <<offered, form, fresh, preview, previews>>, UNCHANGED Setting
  PROVE  FdInv'
<1>1. sent' \in Seq(FdRequest) /\ \A j \in DOMAIN sent' : \E k \in DOMAIN sent : sent'[j] = sent[k]
  BY Removed, RemovedFrom DEF FdInv, FdTypes
<1>2. FdTypes'
  <2>1. \A j \in DOMAIN sent' : sent'[j].op = "out" => sent'[j].form.room \in Rooms
    BY <1>1 DEF FdInv, FdTypes
  <2> QED
    BY <1>1, <2>1 DEF FdInv, FdTypes, Setting
<1>3. ASSUME quiet, form.room # NoRoom PROVE ShownInv'
  <2>1. form.room \in Rooms
    BY <1>3 DEF FdInv, FdTypes, Forms
  <2>2. \/ previews = <<>> /\ IsFor(preview, form)
        \/ /\ previews # <<>> /\ previews[Len(previews)].form = form
           /\ previews[Len(previews)].pc = "computed" => IsFor(previews[Len(previews)].bill, form)
    BY <1>3 DEF FdInv, ShownInv
  <2>3. /\ tenant[form.room] # NoGuest => \/ tenant'[form.room] = tenant[form.room]
                                          \/ JustLeft(form.room)' /\ answers' > 0
        /\ JustLeft(form.room) => JustLeft(form.room)'
    BY <1>3, <2>1 DEF RoomsGoOn
  <2>4. answers \in Nat /\ answers' \in Nat /\ answers' >= answers
    BY <1>3 DEF FdInv, FdTypes
  <2>5. CASE previews = <<>>
    BY <2>2, <2>3, <2>4, <2>5 DEF ShownInv, IsFor, JustLeft
  <2>6. CASE previews # <<>>
    BY <2>2, <2>3, <2>4, <2>6 DEF ShownInv, IsFor, JustLeft
  <2> QED
    BY <2>5, <2>6
<1>4. ShownInv'
  BY <1>3 DEF ShownInv, Setting
<1>5. SentInv'
  <2> SUFFICES ASSUME quiet, NEW j \in DOMAIN sent', sent'[j].op = "out", sent'[j].saw # NoGuest
               PROVE  \/ sent'[j].saw = tenant'[sent'[j].form.room]
                      \/ tenant'[sent'[j].form.room] = NoGuest /\ sent'[j].form.room \in dirty'
    BY DEF SentInv, Setting, JustLeft
  <2>1. PICK k \in DOMAIN sent : sent'[j] = sent[k]
    BY <1>1
  <2>2. sent[k].form.room \in Rooms
    BY <2>1 DEF FdInv, FdTypes
  <2>3. \/ sent[k].saw = tenant[sent[k].form.room]
        \/ JustLeft(sent[k].form.room)
    BY <2>1 DEF FdInv, SentInv
  <2> QED
    BY <2>1, <2>2, <2>3 DEF RoomsGoOn, JustLeft
<1> QED
  BY <1>2, <1>4, <1>5 DEF FdInv

(* The clerk picks a room, and its preview is asked for.                   *)
LEMMA SelectStep ==
  ASSUME FdInv, NEW r \in Rooms \cup {NoRoom}, SelectRoom(r) PROVE FdInv'
<1> DEFINE f == [form EXCEPT !.room = r]
<1>1. f \in Forms
  BY DEF FdInv, FdTypes, Forms
<1>2. FormBecomes(f) /\ fresh' \subseteq Fields
  BY DEF SelectRoom, FdInv, FdTypes
<1> HIDE DEF f
<1> QED
  BY <1>1, <1>2, FormChanges DEF SelectRoom

(* The clerk types, and the preview of the new form is asked for.          *)
LEMMA TypeStep ==
  ASSUME FdInv, NEW k \in Fields, TypeField(k) \/ ClearField(k) PROVE FdInv'
<1> DEFINE f == [form EXCEPT !.typed = @ \cup {k}]
           g == [form EXCEPT !.typed = @ \ {k}]
<1>1. f \in Forms /\ g \in Forms
  BY DEF FdInv, FdTypes, Forms
<1>2. /\ TypeField(k) => FormBecomes(f)
      /\ ClearField(k) => FormBecomes(g)
  BY DEF TypeField, ClearField
<1> HIDE DEF f, g
<1>3. fresh' \subseteq Fields
  BY DEF TypeField, ClearField, FdInv, FdTypes
<1>4. CASE TypeField(k)
  BY <1>1, <1>2, <1>3, <1>4, FormChanges DEF TypeField
<1>5. CASE ClearField(k)
  BY <1>1, <1>2, <1>3, <1>5, FormChanges DEF ClearField
<1> QED
  BY <1>4, <1>5

(* A button sends the form as it is, and the guest of the bill beside it.  *)
LEMMA PressStep ==
  ASSUME FdInv, PressCheckIn \/ PressCheckOut PROVE FdInv'
<1>1. CASE PressCheckIn
  <2> DEFINE m == [op |-> "in", form |-> EmptyForm, saw |-> NoGuest]
  <2>1. m \in FdRequest /\ m.op = "in"
    BY FdValues DEF FdRequest, NoGuest
  <2>2. sent' = Append(sent, m)
    BY <1>1 DEF PressCheckIn, Send
  <2> HIDE DEF m
  <2> QED
    BY <1>1, <2>1, <2>2, FormSends DEF PressCheckIn
<1>2. CASE PressCheckOut
  <2> DEFINE m == [op |-> "out", form |-> form,
                   saw |-> IF previews = <<>> THEN preview.guest ELSE NoGuest]
  <2>1. m \in FdRequest /\ m.op = "out" /\ m.form = form /\ form.room \in Rooms
    BY <1>2 DEF PressCheckOut, FdInv, FdTypes, FdRequest, FdBill, Forms, NoGuest
  <2>2. m.saw = IF previews = <<>> THEN preview.guest ELSE NoGuest
    OBVIOUS
  <2>3. sent' = Append(sent, m)
    BY <1>2 DEF PressCheckOut, Send
  <2> HIDE DEF m
  <2>4. ASSUME quiet, m.saw # NoGuest PROVE m.saw = tenant[form.room] \/ JustLeft(form.room)
    BY <1>2, <2>2, <2>4, FdValues DEF PressCheckOut, FdInv, ShownInv, IsFor
  <2> QED
    BY <1>2, <2>1, <2>3, <2>4, FormSends DEF PressCheckOut
<1> QED
  BY <1>1, <1>2

(* A check-in is served.                                                   *)
LEMMA CheckInStep ==
  ASSUME FdInv, NEW i, ServeCheckIn(i) PROVE FdInv'
<1>1. i \in DOMAIN sent /\ sent' = RemoveAt(sent, i)
  BY DEF ServeCheckIn
<1>2. tenant' \in [Rooms -> Nat] /\ guests' \in Nat /\ dirty' \subseteq Rooms /\ answers' \in Nat
  BY DEF ServeCheckIn, Vacant, FdInv, FdTypes
<1>3. RoomsGoOn /\ answers' >= answers
  <2>1. answers' = answers /\ answers \in Nat /\ dirty' = dirty
    BY DEF ServeCheckIn, FdInv, FdTypes
  <2>2. \/ tenant' = tenant
        \/ \E r \in Rooms : /\ tenant[r] = NoGuest /\ r \notin dirty
                            /\ tenant' = [tenant EXCEPT ![r] = guests + 1]
    BY DEF ServeCheckIn, Vacant
  <2> QED
    BY <2>1, <2>2 DEF RoomsGoOn, JustLeft, FdInv, FdTypes
<1> QED
  BY <1>1, <1>2, <1>3, FormServed DEF ServeCheckIn

(* A check-out is served: the guest has just left the room.                *)
LEMMA CheckOutStep ==
  ASSUME FdInv, NEW i, ServeCheckOut(i) PROVE FdInv'
<1> DEFINE r == sent[i].form.room
<1>1. i \in DOMAIN sent /\ sent' = RemoveAt(sent, i) /\ r \in Rooms
  BY DEF ServeCheckOut, FdInv, FdTypes
<1>2. \/ UNCHANGED <<tenant, dirty, answers>>
      \/ /\ tenant' = [tenant EXCEPT ![r] = NoGuest]
         /\ dirty' = dirty \cup {r} /\ answers' = answers + 1
  BY DEF ServeCheckOut
<1> HIDE DEF r
<1>3. /\ tenant' \in [Rooms -> Nat] /\ guests' \in Nat /\ dirty' \subseteq Rooms /\ answers' \in Nat
      /\ answers' >= answers
  BY <1>1, <1>2 DEF ServeCheckOut, FdInv, FdTypes, NoGuest
<1>4. RoomsGoOn
  BY <1>1, <1>2 DEF RoomsGoOn, JustLeft, FdInv, FdTypes
<1> QED
  BY <1>1, <1>3, <1>4, FormServed DEF ServeCheckOut

(* A request fails: not on a quiet day.                                    *)
LEMMA FailStep ==
  ASSUME FdInv, NEW i, RequestFails(i) PROVE FdInv'
<1>1. i \in DOMAIN sent /\ sent' = RemoveAt(sent, i) /\ ~quiet
  BY DEF RequestFails
<1>2. tenant' \in [Rooms -> Nat] /\ guests' \in Nat /\ dirty' \subseteq Rooms /\ answers' \in Nat
  BY DEF RequestFails, FdInv, FdTypes
<1> QED
  BY <1>1, <1>2, FormServed DEF RequestFails

(* A room that was left has been cleaned.                                  *)
LEMMA CleanedStep ==
  ASSUME FdInv, NEW r \in Rooms, Cleaned(r) PROVE FdInv'
<1>1. FdTypes'
  BY DEF Cleaned, FdInv, FdTypes, Setting
<1>2. ASSUME quiet PROVE sent' = <<>> /\ answers = 0
  BY <1>2 DEF Cleaned
<1>3. ShownInv' /\ SentInv'
  BY <1>2 DEF Cleaned, FdInv, ShownInv, SentInv, IsFor, JustLeft, Setting
<1> QED
  BY <1>1, <1>3 DEF FdInv

(* The answer to a check-out empties the form.                             *)
LEMMA CheckedOutStep ==
  ASSUME FdInv, CheckedOut PROVE FdInv'
<1>1. Emptied(form) \in Forms /\ Emptied(form).room = NoRoom
  BY DEF Emptied, Forms, FdInv, FdTypes
<1>2. FdTypes'
  BY <1>1, FdValues DEF CheckedOut, FdInv, FdTypes, Setting
<1>3. ShownInv' /\ SentInv'
  BY <1>1 DEF CheckedOut, FdInv, ShownInv, SentInv, JustLeft, Setting
<1> QED
  BY <1>2, <1>3 DEF FdInv

(* The lists are fetched again.                                            *)
LEMMA RefreshStep ==
  ASSUME FdInv, Refresh PROVE FdInv'
<1>1. FdTypes'
  BY DEF Refresh, FdInv, FdTypes, Setting
<1>2. ShownInv' /\ SentInv'
  BY DEF Refresh, FdInv, ShownInv, SentInv, IsFor, JustLeft, Setting
<1> QED
  BY <1>1, <1>2 DEF FdInv

(* Another desk is at work: not on a quiet day.                            *)
LEMMA OtherDeskStep ==
  ASSUME FdInv, NEW r \in Rooms, OtherDesk(r) PROVE FdInv'
<1>1. FdTypes'
  <2>1. tenant' \in [Rooms -> Nat] /\ guests' \in Nat /\ dirty' \subseteq Rooms
    BY DEF OtherDesk, FdInv, FdTypes, NoGuest
  <2> QED
    BY <2>1 DEF OtherDesk, FdInv, FdTypes, Setting
<1>2. ~quiet'
  BY DEF OtherDesk, Setting
<1> QED
  BY <1>1, <1>2 DEF FdInv, ShownInv, SentInv

(* A preview is computed in the order of the questions, so that of the     *)
(* form comes last.                                                        *)
LEMMA ComputeStep ==
  ASSUME FdInv, NEW i, ComputePreview(i) PROVE FdInv'
<1> DEFINE new == [previews[i] EXCEPT !.pc = "computed", !.bill = BillOf(previews[i].form)]
<1>1. /\ previews \in Seq(FdPreview) /\ i \in 1..Len(previews)
      /\ previews[i] \in FdPreview
  BY LenProperties, ElementOfSeq DEF ComputePreview, FdInv, FdTypes
<1>2. BillOf(previews[i].form) \in FdBill
  BY <1>1, FdValues DEF BillOf, FdPreview, FdBill, Forms, FdInv, FdTypes
<1>3. new \in FdPreview /\ new.form = previews[i].form /\ new.bill = BillOf(previews[i].form)
  BY <1>1, <1>2 DEF FdPreview
<1>4. previews' = [previews EXCEPT ![i] = new]
  BY DEF ComputePreview
<1> HIDE DEF new
<1>5. /\ previews' \in Seq(FdPreview) /\ Len(previews') = Len(previews)
      /\ \A j \in 1..Len(previews) : previews'[j] = IF j = i THEN new ELSE previews[j]
      /\ previews # <<>> /\ previews' # <<>> /\ Len(previews) \in 1..Len(previews)
  <2>1. /\ previews' \in Seq(FdPreview) /\ Len(previews') = Len(previews)
        /\ \A j \in 1..Len(previews) : previews'[j] = IF j = i THEN new ELSE previews[j]
    BY <1>1, <1>3, <1>4, ExceptSeq
  <2>2. Len(previews) \in Nat /\ Len(previews) # 0 /\ Len(<<>>) = 0
    BY <1>1, LenProperties, EmptySeq
  <2> QED
    BY <2>1, <2>2
<1>6. FdTypes'
  BY <1>5 DEF ComputePreview, FdInv, FdTypes, Setting
<1>7. SentInv'
  BY DEF ComputePreview, FdInv, SentInv, JustLeft, Setting
<1>8. ASSUME quiet, form.room # NoRoom PROVE ShownInv'
  <2> DEFINE l == Len(previews)
  <2>1. /\ previews[l].form = form
        /\ previews[l].pc = "computed" => IsFor(previews[l].bill, form)
    BY <1>5, <1>8 DEF FdInv, ShownInv
  <2>2. /\ previews'[Len(previews')].form = form
        /\ previews'[Len(previews')].pc = "computed" => IsFor(previews'[Len(previews')].bill, form)
    <3>1. CASE l = i
      <4>1. previews'[Len(previews')] = new /\ new.form = form /\ new.bill = BillOf(form)
        BY <1>3, <1>5, <2>1, <3>1
      <4>2. IsFor(BillOf(form), form)
        BY DEF IsFor, BillOf, NoBill
      <4> QED
        BY <4>1, <4>2
    <3>2. CASE l # i
      BY <1>5, <2>1, <3>2
    <3> QED
      BY <3>1, <3>2
  <2> QED
    BY <1>5, <2>2 DEF ComputePreview, ShownInv, IsFor, JustLeft
<1> QED
  BY <1>6, <1>7, <1>8 DEF FdInv, ShownInv, ComputePreview, Setting

(* And it is shown last.                                                   *)
LEMMA ShowStep ==
  ASSUME FdInv, NEW i, ShowPreview(i) PROVE FdInv'
<1>1. /\ previews \in Seq(FdPreview) /\ i \in 1..Len(previews) /\ i \in DOMAIN previews
      /\ previews[i] \in FdPreview /\ Len(previews) \in Nat
  BY LenProperties, ElementOfSeq DEF ShowPreview, FdInv, FdTypes
<1>2. /\ previews' \in Seq(FdPreview) /\ Len(previews') = Len(previews) - 1
      /\ \A j \in 1..(Len(previews) - 1) : previews'[j] = previews[IF j < i THEN j ELSE j + 1]
  BY <1>1, Removed DEF ShowPreview
<1>3. FdTypes'
  BY <1>1, <1>2 DEF ShowPreview, FdInv, FdTypes, FdPreview, Setting
<1>4. SentInv'
  BY DEF ShowPreview, FdInv, SentInv, JustLeft, Setting
<1>5. ASSUME quiet, form.room # NoRoom PROVE ShownInv'
  <2> DEFINE l == Len(previews)
  <2>1. i = 1 /\ previews # <<>> /\ preview' = previews[1].bill
    BY <1>1, <1>5, EmptySeq DEF ShowPreview
  <2>2. /\ previews[l].form = form
        /\ previews[l].pc = "computed" => IsFor(previews[l].bill, form)
    BY <1>5, <2>1 DEF FdInv, ShownInv
  <2>3. CASE l = 1
    <3>1. Len(previews') = 0
      BY <1>2, <2>3
    <3>2. previews' = <<>>
      BY <1>2, <3>1, EmptySeq
    <3>3. IsFor(preview', form)
      BY <2>1, <2>2, <2>3 DEF ShowPreview
    <3> QED
      BY <3>2, <3>3 DEF ShowPreview, ShownInv, IsFor, JustLeft
  <2>4. CASE l # 1
    <3>1. l - 1 \in 1..(l - 1) /\ ~(l - 1 < i) /\ (l - 1) + 1 = l
      <4>1. l \in Nat /\ l >= 1 /\ l # 1 /\ i = 1
        BY <1>1, <2>1, <2>4
      <4> HIDE DEF l
      <4> QED
        BY <4>1
    <3>2. previews'[Len(previews')] = previews[l] /\ previews' # <<>>
      BY <1>2, <3>1, EmptySeq
    <3> QED
      BY <2>2, <3>2 DEF ShowPreview, ShownInv, IsFor, JustLeft
  <2> QED
    BY <2>3, <2>4
<1> QED
  BY <1>3, <1>4, <1>5 DEF FdInv, ShownInv, ShowPreview, Setting

(* A preview fails: not on a quiet day.                                    *)
LEMMA PreviewFailsStep ==
  ASSUME FdInv, NEW i, PreviewFails(i) PROVE FdInv'
<1>1. previews' \in Seq(FdPreview) /\ preview' \in FdBill
  BY Removed, FdValues DEF PreviewFails, FdInv, FdTypes
<1>2. FdTypes'
  BY <1>1 DEF PreviewFails, FdInv, FdTypes, Setting
<1>3. ~quiet'
  BY DEF PreviewFails, Setting
<1> QED
  BY <1>2, <1>3 DEF FdInv, ShownInv, SentInv

(* Every step at the desk keeps the invariant.                             *)
LEMMA FdStepInv == FdInv /\ [FdNext]_fdVars => FdInv'
<1>1. ASSUME FdInv, UNCHANGED fdVars PROVE FdInv'
  BY <1>1 DEF fdVars, FdInv, FdTypes, ShownInv, SentInv, IsFor, JustLeft
<1> QED
  BY <1>1, SelectStep, TypeStep, ComputeStep, ShowStep, PreviewFailsStep, PressStep, CheckInStep,
     CheckOutStep, FailStep, CheckedOutStep, RefreshStep, CleanedStep, OtherDeskStep DEF FdNext

(* On a quiet day the bill shown, or the last preview asked for, is that   *)
(* of the form, and a check-out under way is for the guest whose bill was  *)
(* seen or for one who has just left.                                      *)
THEOREM FormsInvariance == FdSpec => []FdInv
  BY FdInitInv, FdStepInv, PTL DEF FdSpec

(* The bill a clerk who waits sees is the bill of the form.                *)
THEOREM PreviewsOfForm == FdSpec => []PreviewOfForm
<1>1. FdInv => PreviewOfForm
  BY DEF FdInv, ShownInv, IsFor, PreviewOfForm
<1> QED
  BY FormsInvariance, <1>1, PTL

(* Nobody is checked out in the place of the guest whose bill the clerk    *)
(* saw.                                                                    *)
THEOREM RightGuestsLeave == FdSpec => RightGuestLeaves
<1>1. FdInv => \A i \in Many :
        ServeCheckOut(i) /\ quiet /\ tenant' # tenant /\ sent[i].saw # NoGuest
          => sent[i].saw = tenant[sent[i].form.room]
  BY DEF FdInv, SentInv, JustLeft, ServeCheckOut
<1> QED
  BY FormsInvariance, <1>1, PTL DEF RightGuestLeaves

(* The form is empty for the next guest.                                   *)
THEOREM NothingStays == FdSpec => []NothingLeftOver
<1>1. FdInit => NothingLeftOver
  BY DEF FdInit, NothingLeftOver, EmptyForm
<1>2. FdInv /\ NothingLeftOver /\ [FdNext]_fdVars => NothingLeftOver'
  <2> SUFFICES ASSUME FdInv, NothingLeftOver, [FdNext]_fdVars PROVE NothingLeftOver'
    OBVIOUS
  <2> USE DEF NothingLeftOver
  <2>1. ASSUME NEW r \in Rooms \cup {NoRoom}, SelectRoom(r) PROVE NothingLeftOver'
    BY <2>1 DEF SelectRoom, FormBecomes, Setting, FdInv, FdTypes, Forms
  <2>2. ASSUME NEW k \in Fields, TypeField(k) PROVE NothingLeftOver'
    BY <2>2 DEF TypeField, FormBecomes, Setting, FdInv, FdTypes, Forms
  <2>3. ASSUME NEW k \in Fields, ClearField(k) PROVE NothingLeftOver'
    BY <2>3 DEF ClearField, FormBecomes, Setting, FdInv, FdTypes, Forms
  <2>4. CASE CheckedOut
    BY <2>4 DEF CheckedOut, Emptied, Setting
  <2>5. CASE UNCHANGED <<form, fresh, desk>>
    BY <2>5
  <2>6. \/ \E r \in Rooms \cup {NoRoom} : SelectRoom(r)
        \/ \E k \in Fields : TypeField(k) \/ ClearField(k)
        \/ CheckedOut
        \/ UNCHANGED <<form, fresh, desk>>
    BY DEF FdNext, fdVars, Setting, ComputePreview, ShowPreview, PreviewFails,
           PressCheckIn, PressCheckOut, ServeCheckIn, ServeCheckOut, RequestFails, Refresh, Cleaned, OtherDesk
  <2> QED
    BY <2>1, <2>2, <2>3, <2>4, <2>5, <2>6
<1> QED
  BY FormsInvariance, <1>1, <1>2, PTL DEF FdSpec

-----------------------------------------------------------------------------
(* What the drawer, the chosen photo and the requests of it hold at any    *)
(* time; PhotosOwn is what OwnPhoto rests on.                              *)
RdInv == RdTypeOK /\ PhotosOwn /\ OwnPhoto

(* The photos: none, the preset one and the file of a ticket.              *)
LEMMA PhotoTypes ==
  /\ NoPhoto \in Photos /\ Preset \in Photos /\ Preset # NoPhoto
  /\ \A t \in Tickets : File(t) \in Photos /\ File(t) # NoPhoto
  /\ NoTicket \notin Tickets
  BY TicketsAssumption DEF NoPhoto, Preset, Photos, File, NoTicket

(* At first no drawer is open and no photo chosen.                         *)
LEMMA RdInitInv == RdInit => RdInv
  BY PhotoTypes DEF RdInit, RdInv, RdTypeOK, PhotosOwn, OwnPhoto, IsOwn

(* Every step at the drawer keeps the invariant.                           *)
LEMMA RdStepInv == RdInv /\ [RdNext]_rdVars => RdInv'
<1> SUFFICES ASSUME RdInv, [RdNext]_rdVars PROVE RdInv'
  OBVIOUS
<1> USE PhotoTypes DEF RdInv, RdTypeOK, PhotosOwn, OwnPhoto, IsOwn
<1>1. ASSUME NEW t \in Tickets, OpenDrawer(t) PROVE RdInv'
  BY <1>1 DEF OpenDrawer
<1>2. ASSUME NEW t \in Tickets, FileRead(t) PROVE RdInv'
  BY <1>2 DEF FileRead
<1>3. CASE CancelDrawer
  BY <1>3 DEF CancelDrawer
<1>4. CASE ChooseFile
  BY <1>4 DEF ChooseFile, FormShown
<1>5. CASE UsePreset
  BY <1>5 DEF UsePreset, FormShown
<1>6. CASE Submit
  <2> DEFINE m == [of |-> drawer, pc |-> "sent", photo |-> IF photo = NoPhoto THEN Preset ELSE photo]
  <2>1. m \in [of : Tickets, pc : {"sent", "done"}, photo : Photos \ {NoPhoto}]
    BY <1>6 DEF Submit, FormShown
  <2>2. ~slow => IsOwn(m.photo, m.of)
    BY <1>6 DEF Submit, FormShown
  <2> QED
    BY <1>6, <2>1, <2>2 DEF Submit
<1>7. ASSUME NEW m \in resolves, Resolve(m) PROVE RdInv'
  <2>1. m.of \in Tickets /\ m.photo \in Photos /\ (~slow => IsOwn(m.photo, m.of))
    OBVIOUS
  <2>2. [m EXCEPT !.pc = "done"] \in [of : Tickets, pc : {"sent", "done"}, photo : Photos \ {NoPhoto}]
    OBVIOUS
  <2>3. resolves' \subseteq resolves \cup {[m EXCEPT !.pc = "done"]}
    BY <1>7 DEF Resolve
  <2>4. PhotosOwn' /\ (slow \in BOOLEAN /\ drawer \in Tickets \cup {NoTicket} /\ photo \in Photos)'
    BY <1>7, <2>1, <2>3 DEF Resolve
  <2>5. after' \in [Tickets -> Photos] /\ OwnPhoto'
    BY <1>7, <2>1 DEF Resolve
  <2> QED
    BY <1>7, <2>2, <2>3, <2>4, <2>5 DEF Resolve
<1>8. ASSUME NEW m \in resolves, Resolved(m) PROVE RdInv'
  BY <1>8 DEF Resolved
<1>9. CASE Listed
  BY <1>9 DEF Listed
<1>10. CASE UNCHANGED rdVars
  BY <1>10 DEF rdVars
<1> QED
  BY <1>1, <1>2, <1>3, <1>4, <1>5, <1>6, <1>7, <1>8, <1>9, <1>10 DEF RdNext

(* The photo chosen, and those in requests under way, belong to their      *)
(* ticket.                                                                 *)
THEOREM DrawerInvariance == RdSpec => []RdInv
  BY RdInitInv, RdStepInv, PTL DEF RdSpec

(* Type correctness of the drawer.                                         *)
THEOREM DrawerTypeCorrect == RdSpec => []RdTypeOK
<1>1. RdInv => RdTypeOK
  BY DEF RdInv
<1> QED
  BY DrawerInvariance, <1>1, PTL

(* No repair is stored with a photo chosen in the drawer of another issue, *)
(* as long as files are read at once.                                      *)
THEOREM OwnPhotos == RdSpec => []OwnPhoto
<1>1. RdInv => OwnPhoto
  BY DEF RdInv
<1> QED
  BY DrawerInvariance, <1>1, PTL

-----------------------------------------------------------------------------
(* The staff accounts, for any portals, members, tokens and requests.      *)
(* No member is without a name and a role.                                 *)
LEMMA MembersNamed ==
  /\ \A m \in Members : m.name # "" /\ m.role # ""
  /\ NoMember \notin Members
  /\ Len(Seeded) \in 0..MaxIds
  /\ \A i \in DOMAIN Seeded : i \in Ids /\ i <= Len(Seeded) /\ Seeded[i] \in Members
<1>1. Seeded \in Seq([name : STRING, role : STRING]) /\ Len(Seeded) <= MaxIds
  BY AccountsAssumption
<1>2. DOMAIN Seeded = 1..Len(Seeded) /\ Len(Seeded) \in Nat
  BY <1>1
<1>3. \A i \in DOMAIN Seeded : Seeded[i].name # "" /\ Seeded[i].role # ""
  BY AccountsAssumption
<1>4. "" \notin Names /\ "" \notin Roles
  BY AccountsAssumption
<1>5. ASSUME NEW m \in Members PROVE m.name # "" /\ m.role # ""
  BY <1>3, <1>4, <1>5 DEF Members
<1>6. NoMember \notin Members
  BY <1>5 DEF NoMember
<1>7. \A i \in DOMAIN Seeded : Seeded[i] \in Members
  BY DEF Members
<1>8. MaxIds \in Nat
  BY AccountsAssumption
<1>9. Len(Seeded) \in 0..MaxIds /\ \A i \in DOMAIN Seeded : i \in Ids /\ i <= Len(Seeded)
  BY <1>1, <1>2, <1>8 DEF Ids
<1> QED
  BY <1>5, <1>6, <1>7, <1>9

-----------------------------------------------------------------------------
(* An old list is right about whom it lists: the member is still there, or *)
(* gone for good, since no id above those given can have been listed.      *)
Knows(list) == \A i \in Ids : list[i] # NoMember => i <= lastId /\ staff[i] \in {NoMember, list[i]}

ListsInv ==
  /\ \A i \in Ids : staff[i] # NoMember => i <= lastId
  /\ Knows(shown)
  /\ \A c \in calls : Knows(c.list)
  /\ \A c \in calls : c.what = "delete" =>
       c.id \in Ids /\ c.id <= lastId /\ staff[c.id] \in {NoMember, c.member}

(* A portal holds a token of a role it admits, and what was refused had    *)
(* expired or was not for the role.                                        *)
TokensInv ==
  /\ \A p \in Portals : session[p] # NoToken => Admits(p, tokens[session[p]])
  /\ \A c \in calls : c.what = "lists" /\ c.pc = "denied" => ~Allowed(c.token, FetchesAsAdmin(c.portal))

AcInv == AcTypeOK /\ ListsInv /\ TokensInv

(* At first nobody is logged in.                                           *)
LEMMA AcInitInv == AcInit => AcInv
  BY MembersNamed, AccountsAssumption
  DEF AcInit, AcInv, AcTypeOK, ListsInv, TokensInv, Knows, StaffLists, EmptyList, Ids, Given, NoRole, NoToken

-----------------------------------------------------------------------------
(* What a new request holds.                                               *)
LEMMA AcBounds == MaxIds \in Nat /\ 0 \in 0..MaxIds /\ Ids \subseteq 0..MaxIds /\ MaxTokens \in Nat
<1>1. MaxIds \in Nat /\ MaxTokens \in Nat
  BY AccountsAssumption
<1> QED
  BY <1>1 DEF Ids

(* A new request carries the token of its portal.                          *)
LEMMA NewCall ==
  ASSUME AcInv, NEW p \in Portals, session[p] # NoToken, NEW what \in {"lists", "register", "delete"}
  PROVE  /\ Call(what, p) \in [what : {"lists", "register", "delete"}, portal : Portals, token : Given,
                      id : 0..MaxIds, member : Members \cup {NoMember},
                      pc : {"sent", "insert", "ok", "denied"}, list : StaffLists]
         /\ Knows(Call(what, p).list)
<1>1. session[p] \in Given
  BY DEF AcInv, AcTypeOK
<1>2. EmptyList \in StaffLists /\ Knows(EmptyList)
  BY DEF EmptyList, StaffLists, Knows
<1> QED
  BY <1>1, <1>2, AcBounds DEF Call

(* A request that was made.                                                *)
LEMMA AskedCall ==
  ASSUME AcInv, NEW c, calls' = calls \cup {c},
         UNCHANGED <<staff, lastId, tokens, expired, session, shown>>,
         c \in [what : {"lists", "register", "delete"}, portal : Portals, token : Given,
                id : 0..MaxIds, member : Members \cup {NoMember},
                pc : {"sent", "insert", "ok", "denied"}, list : StaffLists],
         Knows(c.list), c.pc = "sent",
         c.what = "delete" => c.id \in Ids /\ c.id <= lastId /\ staff[c.id] \in {NoMember, c.member}
  PROVE  AcInv'
<1> USE DEF AcInv, AcTypeOK, Given
<1>1. AcTypeOK'
  OBVIOUS
<1>2. ListsInv'
  BY DEF ListsInv, Knows
<1>3. TokensInv'
  BY DEF TokensInv, Allowed
<1> QED
  BY <1>1, <1>2, <1>3

(* One that goes on, with what it knows.                                   *)
LEMMA CallGoesOn ==
  ASSUME AcInv, NEW c \in calls, NEW pc \in {"insert", "ok", "denied"}, NEW list \in StaffLists,
         calls' = (calls \ {c}) \cup {[c EXCEPT !.pc = pc, !.list = list]},
         UNCHANGED <<staff, lastId, tokens, expired, session, shown>>,
         Knows(list),
         c.what = "lists" /\ pc = "denied" => ~Allowed(c.token, FetchesAsAdmin(c.portal))
  PROVE  AcInv'
<1> USE DEF AcInv, AcTypeOK, Given
<1> DEFINE d == [c EXCEPT !.pc = pc, !.list = list]
<1>1. /\ d.what = c.what /\ d.portal = c.portal /\ d.token = c.token /\ d.id = c.id
      /\ d.member = c.member /\ d.pc = pc /\ d.list = list
  OBVIOUS
<1>2. AcTypeOK'
  OBVIOUS
<1>3. \A e \in calls' : e \in calls \/ e = d
  OBVIOUS
<1> HIDE DEF d
<1>4. ListsInv'
  BY <1>1, <1>3 DEF ListsInv, Knows
<1>5. TokensInv'
  BY <1>1, <1>3 DEF TokensInv, Allowed
<1> QED
  BY <1>2, <1>4, <1>5

(* Every step of the portals and of Reception keeps the invariant.         *)
LEMMA AcStepInv == AcInv /\ [AcNext]_acVars => AcInv'
<1> SUFFICES ASSUME AcInv, [AcNext]_acVars PROVE AcInv'
  OBVIOUS
<1> USE MembersNamed, AccountsAssumption DEF AcInv, AcTypeOK, Given
<1>1. ASSUME NEW p \in Portals, NEW i \in Ids, StaffLogin(p, i) PROVE AcInv'
  <2>1. PICK t \in 1..MaxTokens :
          /\ tokens[t] = NoRole
          /\ tokens' = [tokens EXCEPT ![t] = staff[i].role]
          /\ session' = [session EXCEPT ![p] = t]
    BY <1>1 DEF StaffLogin, IsFirst
  <2>2. staff[i] \in Members /\ staff[i].role # NoRole /\ Admits(p, staff[i].role)
    BY <1>1 DEF StaffLogin, StaffLists, NoRole
  <2>3. Given' = Given \cup {t}
    BY <2>1, <2>2
  <2>4. AcTypeOK'
    <3>1. /\ tokens' \in [1..MaxTokens -> {m.role : m \in Members} \cup {NoRole}]
          /\ session' \in [Portals -> Given' \cup {NoToken}]
      BY <2>1, <2>2, <2>3
    <3>2. Given \subseteq Given' /\ UNCHANGED <<staff, lastId, expired, shown, calls>>
      BY <1>1, <2>3 DEF StaffLogin
    <3> QED
      BY <3>1, <3>2
  <2>5. ListsInv'
    BY <1>1 DEF StaffLogin, ListsInv, Knows
  <2>6. \A s \in Given : tokens'[s] = tokens[s]
    BY <2>1
  <2>7. TokensInv'
    BY <1>1, <2>1, <2>2, <2>6 DEF StaffLogin, TokensInv, Allowed, NoToken
  <2> QED
    BY <2>4, <2>5, <2>7
<1>2. ASSUME NEW p \in Portals, StaffLogout(p) PROVE AcInv'
  BY <1>2 DEF StaffLogout, ListsInv, TokensInv, Knows, Allowed
<1>3. ASSUME NEW t \in 1..MaxTokens, Expire(t) PROVE AcInv'
  BY <1>3 DEF Expire, ListsInv, TokensInv, Knows, Allowed
<1>4. ASSUME NEW p \in Portals, AskLists(p) PROVE AcInv'
  <2>1. session[p] # NoToken
    BY <1>4 DEF AskLists
  <2>2. Call("lists", p).pc = "sent" /\ Call("lists", p).what = "lists"
    BY DEF Call
  <2> QED
    BY <1>4, <2>1, <2>2, NewCall, AskedCall DEF AskLists, Ask
<1>5. ASSUME NEW m \in [name : Names, role : Roles], PressRegister(m) PROVE AcInv'
  <2> DEFINE c == Call("register", "operations")
             d == [c EXCEPT !.member = m]
  <2>1. "operations" \in Portals /\ session["operations"] # NoToken
    BY <1>5 DEF PressRegister
  <2>2. c \in [what : {"lists", "register", "delete"}, portal : Portals, token : Given,
                id : 0..MaxIds, member : Members \cup {NoMember},
                pc : {"sent", "insert", "ok", "denied"}, list : StaffLists] /\ Knows(c.list)
    BY <2>1, NewCall
  <2>3. c.pc = "sent" /\ c.what = "register" /\ m \in Members
    BY DEF Call, Members
  <2>4. calls' = calls \cup {d} /\ UNCHANGED <<staff, lastId, tokens, expired, session, shown>>
    BY <1>5 DEF PressRegister, Ask
  <2> HIDE DEF c
  <2>5. /\ d \in [what : {"lists", "register", "delete"}, portal : Portals, token : Given,
                id : 0..MaxIds, member : Members \cup {NoMember},
                pc : {"sent", "insert", "ok", "denied"}, list : StaffLists]
        /\ d.list = c.list /\ d.pc = "sent" /\ d.what = "register"
    BY <2>2, <2>3
  <2> HIDE DEF d
  <2> QED
    BY <2>2, <2>4, <2>5, AskedCall
<1>6. ASSUME NEW i \in Ids, PressDelete(i) PROVE AcInv'
  <2> DEFINE c == Call("delete", "operations")
             d == [c EXCEPT !.id = i, !.member = shown[i]]
  <2>1. "operations" \in Portals /\ session["operations"] # NoToken /\ shown[i] # NoMember
    BY <1>6 DEF PressDelete, Present
  <2>2. c \in [what : {"lists", "register", "delete"}, portal : Portals, token : Given,
                id : 0..MaxIds, member : Members \cup {NoMember},
                pc : {"sent", "insert", "ok", "denied"}, list : StaffLists] /\ Knows(c.list)
    BY <2>1, NewCall
  <2>3. c.pc = "sent" /\ shown[i] \in Members
    BY <2>1 DEF Call, StaffLists
  <2>4. calls' = calls \cup {d} /\ UNCHANGED <<staff, lastId, tokens, expired, session, shown>>
    BY <1>6 DEF PressDelete, Ask
  <2>5. i <= lastId /\ staff[i] \in {NoMember, shown[i]} /\ i \in 0..MaxIds
    BY <2>1, AcBounds DEF ListsInv, Knows
  <2> HIDE DEF c
  <2>6. /\ d \in [what : {"lists", "register", "delete"}, portal : Portals, token : Given,
                id : 0..MaxIds, member : Members \cup {NoMember},
                pc : {"sent", "insert", "ok", "denied"}, list : StaffLists]
        /\ d.list = c.list /\ d.pc = "sent" /\ d.id = i /\ d.member = shown[i]
    BY <2>2, <2>3, <2>5
  <2> HIDE DEF d
  <2> QED
    BY <2>2, <2>4, <2>5, <2>6, AskedCall
<1>7. ASSUME NEW c \in calls, ReadLists(c) PROVE AcInv'
  <2>1. CASE Allowed(c.token, FetchesAsAdmin(c.portal))
    <3> DEFINE list == IF FetchesAsAdmin(c.portal) THEN staff ELSE c.list
    <3>1. list \in StaffLists /\ Knows(list)
      BY DEF ListsInv, Knows
    <3>2. /\ calls' = (calls \ {c}) \cup {[c EXCEPT !.pc = "ok", !.list = list]}
          /\ UNCHANGED <<staff, lastId, tokens, expired, session, shown>>
      BY <1>7, <2>1 DEF ReadLists, Goes
    <3> HIDE DEF list
    <3> QED
      BY <3>1, <3>2, CallGoesOn
  <2>2. CASE ~Allowed(c.token, FetchesAsAdmin(c.portal))
    <3>1. [c EXCEPT !.pc = "denied"] = [c EXCEPT !.pc = "denied", !.list = c.list]
      OBVIOUS
    <3>2. /\ calls' = (calls \ {c}) \cup {[c EXCEPT !.pc = "denied", !.list = c.list]}
          /\ UNCHANGED <<staff, lastId, tokens, expired, session, shown>>
      BY <1>7, <2>2, <3>1 DEF ReadLists, Goes
    <3>3. c.list \in StaffLists /\ Knows(c.list)
      BY DEF ListsInv
    <3> QED
      BY <2>2, <3>2, <3>3, CallGoesOn
  <2> QED
    BY <2>1, <2>2
<1>8. ASSUME NEW c \in calls, ShowLists(c) PROVE AcInv'
  BY <1>8 DEF ShowLists, Ends, ListsInv, TokensInv, Knows, Allowed
<1>9. ASSUME NEW c \in calls, ListsDenied(c) PROVE AcInv'
  BY <1>9 DEF ListsDenied, Ends, ListsInv, TokensInv, Knows, Allowed
<1>10. ASSUME NEW c \in calls, RegisterCheck(c) PROVE AcInv'
  <2>1. CASE calls' = calls \ {c}
    BY <1>10, <2>1 DEF RegisterCheck, ListsInv, TokensInv, Knows, Allowed
  <2>2. CASE calls' = (calls \ {c}) \cup {[c EXCEPT !.pc = "insert"]}
    <3>1. [c EXCEPT !.pc = "insert"] = [c EXCEPT !.pc = "insert", !.list = c.list]
      OBVIOUS
    <3>2. c.list \in StaffLists /\ Knows(c.list)
      BY DEF ListsInv
    <3>3. UNCHANGED <<staff, lastId, tokens, expired, session, shown>>
      BY <1>10 DEF RegisterCheck
    <3> QED
      BY <2>2, <3>1, <3>2, <3>3, CallGoesOn
  <2> QED
    BY <1>10, <2>1, <2>2 DEF RegisterCheck, Goes, Ends
<1>11. ASSUME NEW c \in calls, RegisterInsert(c) PROVE AcInv'
  <2>1. /\ lastId \in 0..MaxIds /\ lastId < MaxIds /\ lastId' = lastId + 1
        /\ staff' = [staff EXCEPT ![lastId + 1] = c.member] /\ calls' = calls \ {c}
        /\ UNCHANGED <<tokens, expired, session, shown>>
    BY <1>11 DEF RegisterInsert, Ends
  <2>2. /\ lastId \in Nat /\ lastId' \in Ids /\ lastId' \in 0..MaxIds /\ ~(lastId' <= lastId)
        /\ \A i \in Ids : (i <= lastId => i <= lastId' /\ i # lastId')
    BY ONLY <2>1, AcBounds DEF Ids
  <2>3. staff' = [staff EXCEPT ![lastId'] = c.member] /\ c.member \in Members \cup {NoMember}
    BY <2>1
  <2>10. staff \in [Ids -> Members \cup {NoMember}] /\ \A i \in Ids : staff[i] # NoMember => i <= lastId
    BY DEF StaffLists, ListsInv
  <2>11. staff' \in StaffLists
    BY ONLY <2>2, <2>3, <2>10 DEF StaffLists
  <2>4. AcTypeOK'
    BY <2>1, <2>2, <2>11
  <2>5. \A i \in Ids : i <= lastId => i <= lastId' /\ staff'[i] = staff[i]
    BY ONLY <2>2, <2>3, <2>10
  <2>12. \A i \in Ids : i # lastId' => staff'[i] = staff[i]
    BY ONLY <2>2, <2>3, <2>10
  <2>6. \A i \in Ids : staff'[i] # NoMember => i <= lastId'
    BY ONLY <2>2, <2>10, <2>12
  <2>7. ASSUME NEW list, Knows(list) PROVE Knows(list)'
    BY <2>5, <2>7 DEF Knows
  <2>8. ListsInv'
    BY <2>1, <2>5, <2>6, <2>7 DEF ListsInv
  <2>9. TokensInv'
    BY <2>1 DEF TokensInv, Allowed
  <2> QED
    BY <2>4, <2>8, <2>9
<1>12. ASSUME NEW c \in calls, ServeDelete(c) PROVE AcInv'
  <2>1. c.id \in Ids
    BY <1>12 DEF ServeDelete, IsCall, ListsInv
  <2>2. /\ calls' = calls \ {c} /\ staff' \in {staff, [staff EXCEPT ![c.id] = NoMember]}
        /\ UNCHANGED <<lastId, tokens, expired, session, shown>>
    BY <1>12 DEF ServeDelete, Ends
  <2>3. staff' \in StaffLists /\ \A i \in Ids : staff'[i] \in {NoMember, staff[i]}
    BY <2>1, <2>2 DEF StaffLists
  <2>4. AcTypeOK'
    BY <2>2, <2>3
  <2>5. ListsInv'
    BY <2>2, <2>3 DEF ListsInv, Knows
  <2>6. TokensInv'
    BY <2>2 DEF TokensInv, Allowed
  <2> QED
    BY <2>4, <2>5, <2>6
<1>13. CASE UNCHANGED acVars
  BY <1>13 DEF acVars, ListsInv, TokensInv, Knows, Allowed
<1> QED
  BY <1>1, <1>2, <1>3, <1>4, <1>5, <1>6, <1>7, <1>8, <1>9, <1>10, <1>11, <1>12, <1>13 DEF AcNext

(* An old list is right about whom it lists, and a portal holds the token  *)
(* of a role it admits, whatever is registered, deleted and refused        *)
(* meanwhile.                                                              *)
THEOREM AccountsInvariance == AcSpec => []AcInv
  BY AcInitInv, AcStepInv, PTL DEF AcSpec

-----------------------------------------------------------------------------
(* The tables, tokens, sessions and requests stay within their types.      *)
THEOREM AccountsTypeCorrect == AcSpec => []AcTypeOK
  BY AccountsInvariance, PTL DEF AcInv

(* Whatever the portals, the members, the tokens and the requests under    *)
(* way: a delete removes the member the question named, or nobody, since   *)
(* an id listed once is never another member's.                            *)
THEOREM DeletesTheOneShown == AcSpec => DeletesWhoItShows
<1>1. AcInv /\ [AcNext]_acVars => [\A c \in calls, i \in Ids :
         ServeDelete(c) /\ staff[i] # NoMember /\ staff'[i] = NoMember
           => i = c.id /\ staff[i] = c.member]_acVars
  <2> SUFFICES ASSUME AcInv, NEW c \in calls, NEW i \in Ids,
                      ServeDelete(c), staff[i] # NoMember, staff'[i] = NoMember
               PROVE  i = c.id /\ staff[i] = c.member
    OBVIOUS
  <2>1. c.what = "delete" /\ staff' \in {staff, [staff EXCEPT ![c.id] = NoMember]}
    BY DEF ServeDelete, IsCall
  <2>2. i = c.id
    BY <2>1 DEF AcInv, AcTypeOK, StaffLists
  <2> QED
    BY <2>1, <2>2 DEF AcInv, ListsInv
<1> QED
  BY <1>1, AccountsInvariance, PTL DEF AcSpec, DeletesWhoItShows

(* A portal that admitted a member is refused the lists only once the      *)
(* token has expired: each screen admits no role an endpoint it fetches    *)
(* from turns away.                                                        *)
THEOREM ThrownOutOnlyExpired == AcSpec => NobodyThrownOut
<1>1. AcInv /\ [AcNext]_acVars => [\A c \in calls :
         ListsDenied(c) /\ session[c.portal] = c.token => c.token \in expired]_acVars
  <2> SUFFICES ASSUME AcInv, NEW c \in calls, ListsDenied(c), session[c.portal] = c.token
               PROVE  c.token \in expired
    OBVIOUS
  <2>1. c.what = "lists" /\ c.pc = "denied" /\ c.portal \in Portals /\ c.token \in Given
    BY DEF ListsDenied, IsCall, AcInv, AcTypeOK
  <2>2. ~Allowed(c.token, FetchesAsAdmin(c.portal))
    BY <2>1 DEF AcInv, TokensInv
  <2>3. c.token # NoToken
    <3>1. DOMAIN tokens = 1..MaxTokens
      BY DEF AcInv, AcTypeOK
    <3> QED
      BY <2>1, <3>1, AcBounds DEF NoToken, Given
  <2>4. Admits(c.portal, tokens[c.token])
    BY <2>1, <2>3 DEF AcInv, TokensInv
  <2>5. FetchesAsAdmin(c.portal) => tokens[c.token] = "super_admin"
    BY <2>4 DEF FetchesAsAdmin, Admits, OperationsAdmits
  <2> QED
    BY <2>2, <2>5 DEF Allowed
<1> QED
  BY <1>1, AccountsInvariance, PTL DEF AcSpec, NobodyThrownOut
=============================================================================
