-------------------------- MODULE RoomServiceProofs -------------------------
(* The list of active orders beside the table, for any number of orders    *)
(* and requests.                                                           *)
EXTENDS RoomService, SequenceTheorems, FiniteSetTheorems, FunctionTheorems, TLAPS

Entries == [id : OrderIds, status : Active]

OnceQueued == \A k, m \in DOMAIN kitchen : kitchen[k].id = kitchen[m].id => k = m

(* What a request knows of its order: it is stored; one about to be put on *)
(* the list is not on it and in no other request's hands; one that has     *)
(* been touched does not go back to Received.                              *)
StageInv ==
  /\ \A h \in Callers : ord[h].pc \in {"plGuest", "plSave"} => ord[h].guest \in Guests
  /\ \A h \in Callers : ord[h].pc \in {"plEnqueue", "upSave", "upSync"} =>
       ord[h].order \in OrderIds /\ orders[ord[h].order].status # "Absent"
  /\ \A h \in Callers : ord[h].pc = "plEnqueue" => ord[h].order \notin Queued
  /\ \A h, d \in Callers :
       ord[h].pc = "plEnqueue" /\ ord[d].pc = "plEnqueue" /\ ord[h].order = ord[d].order => h = d
  /\ \A h \in Callers : ord[h].pc = "upSave" =>
       /\ ord[h].seen \in OrderStatus /\ ord[h].to \in OrderStatus \ {"Received"}
       /\ ord[h].seen # "Received" => orders[ord[h].order].status # "Received"
  /\ \A h \in Callers : ord[h].pc = "upSync" =>
       ord[h].to \in OrderStatus \ {"Received"} /\ orders[ord[h].order].status # "Received"

RsInv == RsTypeOK /\ QueuedOnce /\ StageInv

-----------------------------------------------------------------------------
(* The four statuses, and the three of an active order.                    *)
LEMMA Statuses ==
  /\ OrderStatus = {"Received", "Preparing", "Out For Delivery", "Delivered"}
  /\ Active = {"Received", "Preparing", "Out For Delivery"}
<1>1. 1..4 = {1, 2, 3, 4}
  OBVIOUS
<1>2. OrderStatus = {Stages[1], Stages[2], Stages[3], Stages[4]}
  BY <1>1 DEF OrderStatus
<1> QED
  BY <1>2 DEF Active, Stages

(* What is left of a sequence when an element is taken out of it.          *)
LEMMA Removed ==
  ASSUME NEW S, NEW s \in Seq(S), NEW i \in DOMAIN s
  PROVE  /\ RemoveAt(s, i) \in Seq(S)
         /\ Len(RemoveAt(s, i)) = Len(s) - 1
         /\ \A j \in 1..(Len(s) - 1) : RemoveAt(s, i)[j] = s[IF j < i THEN j ELSE j + 1]
<1>1. Len(s) \in Nat /\ i \in 1..Len(s) /\ \A j \in 1..Len(s) : s[j] \in S
  BY LenProperties, ElementOfSeq
<1> DEFINE front == SubSeq(s, 1, i - 1)
           back  == SubSeq(s, i + 1, Len(s))
<1>2. /\ front \in Seq(S) /\ Len(front) = i - 1
      /\ \A j \in 1..(i - 1) : front[j] = s[j]
  <2>1. \A j \in 1..(i - 1) : s[j] \in S
    BY <1>1
  <2>2. /\ front \in Seq(S)
        /\ Len(front) = IF 1 <= i - 1 THEN (i - 1) - 1 + 1 ELSE 0
        /\ \A j \in 1..((i - 1) - 1 + 1) : front[j] = s[1 + j - 1]
    BY <1>1, <2>1, SubSeqProperties
  <2> QED
    BY <1>1, <2>2
<1>3. /\ back \in Seq(S) /\ Len(back) = Len(s) - i
      /\ \A j \in 1..(Len(s) - i) : back[j] = s[i + j]
  <2>1. \A j \in (i + 1)..Len(s) : s[j] \in S
    BY <1>1
  <2>2. /\ back \in Seq(S)
        /\ Len(back) = IF i + 1 <= Len(s) THEN Len(s) - (i + 1) + 1 ELSE 0
        /\ \A j \in 1..(Len(s) - (i + 1) + 1) : back[j] = s[(i + 1) + j - 1]
    BY <1>1, <2>1, SubSeqProperties
  <2> QED
    BY <1>1, <2>2
<1> HIDE DEF front, back
<1>4. /\ front \o back \in Seq(S) /\ Len(front \o back) = Len(s) - 1
      /\ \A j \in 1..(Len(s) - 1) :
           (front \o back)[j] = IF j <= i - 1 THEN front[j] ELSE back[j - (i - 1)]
  BY <1>1, <1>2, <1>3, ConcatProperties
<1>5. ASSUME NEW j \in 1..(Len(s) - 1)
      PROVE  (front \o back)[j] = s[IF j < i THEN j ELSE j + 1]
  <2>1. CASE j < i
    BY <1>1, <1>2, <1>4, <2>1
  <2>2. CASE ~(j < i)
    <3>1. j - (i - 1) \in 1..(Len(s) - i) /\ i + (j - (i - 1)) = j + 1 /\ ~(j <= i - 1)
      BY <1>1, <2>2
    <3> QED
      BY <1>3, <1>4, <2>2, <3>1
  <2> QED
    BY <2>1, <2>2
<1> QED
  BY <1>4, <1>5 DEF RemoveAt, front, back

-----------------------------------------------------------------------------
(* Removing an order keeps the other entries, in their order.              *)
LEMMA Removing ==
  ASSUME kitchen \in Seq(Entries), OnceQueued, NEW o, QueueRemove(o)
  PROVE  /\ kitchen' \in Seq(Entries) /\ OnceQueued'
         /\ Queued' = Queued \ {o}
         /\ \A e, d \in DOMAIN kitchen' : e < d =>
              \E k, m \in DOMAIN kitchen : k < m /\ kitchen'[e] = kitchen[k] /\ kitchen'[d] = kitchen[m]
         /\ \A e \in DOMAIN kitchen' :
              kitchen'[e].id # o /\ \E k \in DOMAIN kitchen : kitchen'[e] = kitchen[k]
<1>1. CASE At(o) = {} /\ UNCHANGED kitchen
  BY <1>1 DEF At, Queued, OnceQueued
<1>2. CASE \E k \in At(o) : IsFirst(k, At(o)) /\ kitchen' = RemoveAt(kitchen, k)
  <2>1. PICK i \in At(o) : kitchen' = RemoveAt(kitchen, i)
    BY <1>2
  <2> DEFINE old(j) == IF j < i THEN j ELSE j + 1
  <2>2. i \in DOMAIN kitchen /\ kitchen[i].id = o
    BY <2>1 DEF At
  <2>3. /\ kitchen' \in Seq(Entries) /\ Len(kitchen') = Len(kitchen) - 1
        /\ \A j \in 1..(Len(kitchen) - 1) : kitchen'[j] = kitchen[old(j)]
    BY <2>1, <2>2, Removed
  <2>4. /\ Len(kitchen) \in Nat /\ DOMAIN kitchen = 1..Len(kitchen)
        /\ DOMAIN kitchen' = 1..(Len(kitchen) - 1)
    BY <2>3, LenProperties
  <2>5. \A j \in DOMAIN kitchen' : /\ old(j) \in DOMAIN kitchen /\ old(j) # i
                                   /\ kitchen'[j] = kitchen[old(j)]
    BY <2>2, <2>3, <2>4
  <2>6. \A e, d \in DOMAIN kitchen' : (e < d => old(e) < old(d)) /\ (old(e) = old(d) => e = d)
    BY <2>2, <2>4
  <2>7. \A k \in DOMAIN kitchen : k # i => \E j \in DOMAIN kitchen' : old(j) = k
    <3> SUFFICES ASSUME NEW k \in DOMAIN kitchen, k # i
                 PROVE  \E j \in DOMAIN kitchen' : old(j) = k
      OBVIOUS
    <3>1. CASE k < i
      BY <2>2, <2>4, <3>1
    <3>2. CASE ~(k < i)
      <4>1. k - 1 \in DOMAIN kitchen' /\ old(k - 1) = k
        BY <2>2, <2>4, <3>2
      <4> QED
        BY <4>1
    <3> QED
      BY <3>1, <3>2
  <2> HIDE DEF old
  <2>8. OnceQueued'
    BY <2>5, <2>6 DEF OnceQueued
  <2>9. \A e \in DOMAIN kitchen' : kitchen'[e].id # o
    BY <2>2, <2>5 DEF OnceQueued
  <2>10. Queued' = Queued \ {o}
    <3>1. Queued' \subseteq Queued \ {o}
      BY <2>5, <2>9 DEF Queued
    <3>2. ASSUME NEW k \in DOMAIN kitchen, kitchen[k].id # o PROVE kitchen[k].id \in Queued'
      <4>1. PICK j \in DOMAIN kitchen' : old(j) = k
        BY <2>2, <2>7, <3>2
      <4> QED
        BY <2>5, <4>1 DEF Queued
    <3> QED
      BY <3>1, <3>2 DEF Queued
  <2> QED
    BY <2>3, <2>5, <2>6, <2>8, <2>9, <2>10
<1> QED
  BY <1>1, <1>2 DEF QueueRemove

(* Updating an order changes the status of its entry and nothing else.     *)
LEMMA Updating ==
  ASSUME kitchen \in Seq(Entries), OnceQueued, NEW o, NEW s \in Active, QueueUpdateStatus(o, s)
  PROVE  /\ kitchen' \in Seq(Entries) /\ DOMAIN kitchen' = DOMAIN kitchen
         /\ \A k \in DOMAIN kitchen : kitchen'[k].id = kitchen[k].id
         /\ \A k \in DOMAIN kitchen :
              kitchen'[k].status = IF kitchen[k].id = o THEN s ELSE kitchen[k].status
<1>1. CASE At(o) = {} /\ UNCHANGED kitchen
  BY <1>1 DEF At
<1>2. CASE \E k \in At(o) : IsFirst(k, At(o)) /\ kitchen' = [kitchen EXCEPT ![k].status = s]
  <2>1. PICK i \in At(o) : kitchen' = [kitchen EXCEPT ![i].status = s]
    BY <1>2
  <2>2. i \in DOMAIN kitchen /\ kitchen[i].id = o /\ \A k \in DOMAIN kitchen : kitchen[k].id = o => k = i
    BY <2>1 DEF At, OnceQueued
  <2>3. kitchen[i] \in Entries
    BY <2>2, ElementOfSeq, LenProperties
  <2>4. [kitchen[i] EXCEPT !.status = s] \in Entries
    BY <2>3 DEF Entries
  <2>5. kitchen' = [kitchen EXCEPT ![i] = [kitchen[i] EXCEPT !.status = s]]
    BY <2>1
  <2>6. kitchen' \in Seq(Entries) /\ DOMAIN kitchen' = DOMAIN kitchen
    BY <2>2, <2>4, <2>5, ExceptSeq
  <2>7. \A k \in DOMAIN kitchen :
          kitchen'[k] = IF k = i THEN [kitchen[i] EXCEPT !.status = s] ELSE kitchen[k]
    BY <2>5
  <2>8. /\ [kitchen[i] EXCEPT !.status = s].id = kitchen[i].id
        /\ [kitchen[i] EXCEPT !.status = s].status = s
    BY <2>3 DEF Entries
  <2> QED
    BY <2>2, <2>6, <2>7, <2>8
<1> QED
  BY <1>1, <1>2 DEF QueueUpdateStatus

(* A finite set of ids has a listing in growing order, and only one: the   *)
(* k-th id of a listing is the one with k ids up to it.                    *)
Listings(K) == {f \in [1..Cardinality(K) -> K] :
                  /\ \A k, m \in DOMAIN f : k < m => f[k] < f[m]
                  /\ \A o \in K : \E k \in DOMAIN f : f[k] = o}

(* How many ids of K there are up to i.                                    *)
UpTo(K, i) == Cardinality({j \in K : j <= i})

(* Ranks are from 1 to the number of ids, and grow with the id.            *)
LEMMA RankGrows ==
  ASSUME NEW K \in SUBSET Nat, IsFiniteSet(K)
  PROVE  /\ \A i \in K : UpTo(K, i) \in 1..Cardinality(K)
         /\ \A i, j \in K : i < j => UpTo(K, i) < UpTo(K, j)
<1> DEFINE upTo(i) == {j \in K : j <= i}
<1>1. Cardinality(K) \in Nat
  BY FS_CardinalityType
<1>2. \A i \in K : /\ IsFiniteSet(upTo(i)) /\ Cardinality(upTo(i)) \in 1..Cardinality(K)
  <2> TAKE i \in K
  <2>1. upTo(i) \in SUBSET K /\ i \in upTo(i)
    OBVIOUS
  <2>2. IsFiniteSet(upTo(i)) /\ Cardinality(upTo(i)) <= Cardinality(K)
    BY <2>1, FS_Subset
  <2>3. Cardinality(upTo(i)) \in Nat
    BY <2>2, FS_CardinalityType
  <2>4. Cardinality(upTo(i)) # 0
    BY <2>1, <2>2, FS_EmptySet
  <2> QED
    BY <1>1, <2>2, <2>3, <2>4
<1>3. \A i, j \in K : i < j => Cardinality(upTo(i)) < Cardinality(upTo(j))
  <2> SUFFICES ASSUME NEW i \in K, NEW j \in K, i < j
               PROVE  Cardinality(upTo(i)) < Cardinality(upTo(j))
    OBVIOUS
  <2>0. i \in Nat /\ j \in Nat /\ \A k \in K : k \in Nat
    OBVIOUS
  <2>1. upTo(i) \in SUBSET upTo(j) /\ j \in upTo(j) /\ j \notin upTo(i)
    <3>1. \A k \in K : k <= i => k <= j
      BY <2>0
    <3>2. j <= j /\ ~(j <= i)
      BY <2>0
    <3> QED
      BY <3>1, <3>2
  <2>2. /\ Cardinality(upTo(i)) <= Cardinality(upTo(j))
        /\ Cardinality(upTo(i)) # Cardinality(upTo(j))
    BY <1>2, <2>1, FS_Subset
  <2>3. Cardinality(upTo(i)) \in Nat /\ Cardinality(upTo(j)) \in Nat
    BY <1>2
  <2> QED
    BY <2>2, <2>3
<1> QED
  BY <1>2, <1>3 DEF UpTo

(* The rank of the k-th id of a listing is k.                              *)
LEMMA ListingRanks ==
  ASSUME NEW K \in SUBSET Nat, IsFiniteSet(K), NEW f \in Listings(K), NEW k \in DOMAIN f
  PROVE  f[k] \in K /\ UpTo(K, f[k]) = k
<1> DEFINE N == Cardinality(K)
           upTo == {j \in K : j <= f[k]}
<1>1. N \in Nat
  BY FS_CardinalityType
<1> HIDE DEF N
<1>2. /\ f \in [1..N -> K] /\ k \in 1..N
      /\ \A a, b \in 1..N : a < b => f[a] < f[b]
      /\ \A o \in K : \E a \in 1..N : f[a] = o
  BY DEF Listings, N
<1>3. \A a \in 1..N : f[a] \in Nat /\ f[a] \in K
  BY <1>2
<1>4. \A a \in 1..N : f[a] <= f[k] <=> a <= k
  BY <1>1, <1>2, <1>3
<1> DEFINE g == [a \in 1..k |-> f[a]]
<1>5. g \in [1..k -> upTo] /\ \A a, b \in 1..k : g[a] = g[b] => a = b
  <2>1. \A a \in 1..k : a \in 1..N
    BY <1>1, <1>2
  <2>2. \A a \in 1..k : f[a] \in upTo
    BY <1>2, <1>3, <1>4, <2>1
  <2>3. \A a, b \in 1..k : f[a] = f[b] => a = b
    <3> SUFFICES ASSUME NEW a \in 1..k, NEW b \in 1..k, f[a] = f[b] PROVE a = b
      OBVIOUS
    <3>1. a \in 1..N /\ b \in 1..N /\ ~(f[a] < f[b]) /\ ~(f[b] < f[a])
      BY <1>3, <2>1
    <3> QED
      BY <1>1, <1>2, <3>1
  <2> QED
    BY <2>2, <2>3
<1>6. \A o \in upTo : \E a \in 1..k : g[a] = o
  <2> SUFFICES ASSUME NEW o \in K, o <= f[k] PROVE \E a \in 1..k : f[a] = o
    OBVIOUS
  <2>1. PICK a \in 1..N : f[a] = o
    BY <1>2
  <2>2. a <= k
    BY <1>4, <2>1
  <2> QED
    BY <1>1, <2>1, <2>2
<1> HIDE DEF g, upTo
<1>7. g \in Bijection(1..k, upTo)
  BY <1>5, <1>6 DEF Bijection, Injection, Surjection, IsInjective
<1>8. IsFiniteSet(1..k) /\ Cardinality(1..k) = k
  BY <1>1, <1>2, FS_Interval
<1>9. Cardinality(upTo) = k
  BY <1>7, <1>8, FS_Bijection DEF ExistsBijection
<1> QED
  BY <1>2, <1>3, <1>9 DEF UpTo, upTo

(* So there is one listing: the rank is a bijection, and its inverse lists *)
(* the ids.                                                                *)
LEMMA OneListing ==
  ASSUME NEW K \in SUBSET Nat, IsFiniteSet(K)
  PROVE  \E f : Listings(K) = {f}
<1> DEFINE N == Cardinality(K)
           rank == [i \in K |-> UpTo(K, i)]
<1>1. N \in Nat
  BY FS_CardinalityType
<1>2. /\ rank \in [K -> 1..N]
      /\ \A i, j \in K : i < j => rank[i] < rank[j]
  BY RankGrows
<1> HIDE DEF rank
<1>3. \A i, j \in K : rank[i] = rank[j] => i = j
  <2> SUFFICES ASSUME NEW i \in K, NEW j \in K, rank[i] = rank[j] PROVE i = j
    OBVIOUS
  <2>1. rank[i] \in Int /\ rank[j] \in Int
    BY <1>2
  <2> QED
    BY <1>2, <2>1
<1>4. rank \in Bijection(K, 1..N)
  <2>1. rank \in Injection(K, 1..N)
    BY <1>2, <1>3, Fun_IsInj
  <2>2. IsFiniteSet(1..N) /\ Cardinality(1..N) = N
    <3> HIDE DEF N
    <3> QED
      BY <1>1, FS_Interval
  <2>3. rank \in Surjection(K, 1..N)
    BY <2>1, <2>2, FS_Injection
  <2> QED
    BY <2>1, <2>3 DEF Bijection
<1> DEFINE p == Inverse(rank, K, 1..N)
<1>5. p \in Bijection(1..N, K) /\ \A i \in K : p[rank[i]] = i
  <2> HIDE DEF N
  <2> QED
    BY <1>4, Fun_BijInverse
<1> HIDE DEF p
<1>6. p \in [1..N -> K] /\ \A a \in 1..N : rank[p[a]] = a
  <2> HIDE DEF N
  <2>1. p \in [1..N -> K] /\ \A a, b \in 1..N : p[a] = p[b] => a = b
    BY <1>5 DEF Bijection, Injection, IsInjective
  <2>2. \A a \in 1..N : p[rank[p[a]]] = p[a]
    BY <1>5, <2>1
  <2> QED
    BY <1>2, <2>1, <2>2
<1>7. \A a, b \in 1..N : a < b => p[a] < p[b]
  <2> HIDE DEF N
  <2> SUFFICES ASSUME NEW a \in 1..N, NEW b \in 1..N, a < b PROVE p[a] < p[b]
    OBVIOUS
  <2>1. p[a] \in K /\ p[b] \in K /\ rank[p[a]] = a /\ rank[p[b]] = b
    BY <1>6
  <2>2. p[b] < p[a] => b < a
    BY <1>2, <2>1
  <2>3. a \in Int /\ b \in Int /\ a # b /\ ~(b < a)
    BY <1>1
  <2>4. p[a] \in Nat /\ p[b] \in Nat
    BY <2>1
  <2>5. p[a] # p[b]
    BY <2>1, <2>3
  <2> QED
    BY <2>2, <2>3, <2>4, <2>5
<1>8. p \in Listings(K)
  BY <1>2, <1>5, <1>6, <1>7 DEF Listings
<1>9. ASSUME NEW f \in Listings(K) PROVE f = p
  <2>1. f \in [1..N -> K]
    BY DEF Listings
  <2>2. \A a \in 1..N : f[a] = p[a]
    <3> TAKE a \in 1..N
    <3>1. f[a] \in K /\ UpTo(K, f[a]) = a
      BY <2>1, ListingRanks
    <3>2. p[a] \in K /\ UpTo(K, p[a]) = a
      BY <1>6 DEF rank
    <3> QED
      BY <1>3, <3>1, <3>2 DEF rank
  <2> HIDE DEF N
  <2>3. p \in [1..N -> K]
    BY <1>6
  <2>4. f = [a \in 1..N |-> f[a]] /\ p = [a \in 1..N |-> p[a]]
    BY <2>1, <2>3
  <2>5. [a \in 1..N |-> f[a]] = [a \in 1..N |-> p[a]]
    BY ONLY <2>2
  <2> QED
    BY ONLY <2>4, <2>5
<1> QED
  BY <1>8, <1>9

(* Whatever the table holds, the service that starts finds one list to     *)
(* load, oldest first: a restart is never stuck, and never a choice.       *)
THEOREM LoadsOneList == \E f : OldestFirst = {f}
<1>1. OldestFirst = Listings(ActiveOrders)
  BY DEF OldestFirst, Listings
<1>2. ActiveOrders \in SUBSET Nat /\ IsFiniteSet(ActiveOrders)
  <2>1. ActiveOrders \in SUBSET OrderIds
    BY DEF ActiveOrders
  <2>2. IsFiniteSet(OrderIds) /\ OrderIds \in SUBSET Nat
    BY RoomServiceAssumption, FS_Interval DEF OrderIds
  <2> QED
    BY <2>1, <2>2, FS_Subset
<1> QED
  BY <1>1, <1>2, OneListing

(* What is loaded at a restart: each active order, once, by age, with the  *)
(* status that is stored.                                                  *)
LEMMA Loading ==
  ASSUME NEW f \in OldestFirst, kitchen' = Loaded(f)
  PROVE  /\ kitchen' \in Seq(Entries)
         /\ Queued' = ActiveOrders
         /\ \A k, m \in DOMAIN kitchen' : k < m => kitchen'[k].id < kitchen'[m].id
         /\ \A k \in DOMAIN kitchen' : kitchen'[k].status = orders[kitchen'[k].id].status
<1>1. Cardinality(ActiveOrders) \in Nat
  <2>1. OrderIds = 1..MaxOrders /\ MaxOrders \in Nat
    BY RoomServiceAssumption DEF OrderIds
  <2>2. IsFiniteSet(OrderIds)
    BY <2>1, FS_Interval
  <2> QED
    BY <2>2, FS_Subset, FS_CardinalityType DEF ActiveOrders
<1> DEFINE n == Cardinality(ActiveOrders)
<1>2. /\ f \in [1..n -> ActiveOrders]
      /\ \A k, m \in DOMAIN f : k < m => f[k] < f[m]
      /\ \A o \in ActiveOrders : \E k \in DOMAIN f : f[k] = o
  BY DEF OldestFirst
<1>3. DOMAIN kitchen' = 1..n /\ DOMAIN f = 1..n
  BY <1>2 DEF Loaded
<1>4. \A k \in 1..n : kitchen'[k] = Entry(f[k], orders[f[k]].status) /\ f[k] \in ActiveOrders
  BY <1>2, <1>3 DEF Loaded
<1>5. \A k \in 1..n : /\ kitchen'[k] \in Entries
                      /\ kitchen'[k].id = f[k] /\ kitchen'[k].status = orders[f[k]].status
  <2> SUFFICES ASSUME NEW k \in 1..n
               PROVE  /\ kitchen'[k] \in Entries
                      /\ kitchen'[k].id = f[k] /\ kitchen'[k].status = orders[f[k]].status
    OBVIOUS
  <2>1. /\ kitchen'[k] = [id |-> f[k], status |-> orders[f[k]].status]
        /\ f[k] \in OrderIds /\ orders[f[k]].status \in Active
    BY <1>4 DEF Entry, ActiveOrders
  <2> QED
    BY <2>1 DEF Entries
<1>6. kitchen' \in Seq(Entries)
  <2>1. kitchen' \in [1..n -> Entries]
    BY <1>2, <1>3, <1>5 DEF Loaded
  <2> QED
    BY <1>1, <2>1, SeqDef
<1>7. Queued' = ActiveOrders
  BY <1>2, <1>3, <1>4, <1>5 DEF Queued
<1> QED
  BY <1>2, <1>3, <1>5, <1>6, <1>7

-----------------------------------------------------------------------------
(* At first nothing is ordered.                                            *)
LEMMA InitInv == RsInit => RsInv
<1> SUFFICES ASSUME RsInit PROVE RsInv
  OBVIOUS
<1>1. RsTypeOK
  <2>1. kitchen \in Seq([id : OrderIds, status : Active])
    BY EmptySeq DEF RsInit
  <2>2. orders \in [OrderIds -> [status : OrderStatus \cup {"Absent"}, guest : Guests \cup {0}]]
    BY DEF RsInit
  <2>3. ord \in [Callers -> RsRequests]
    BY DEF RsInit, RsIdle, RsRequests
  <2> QED
    BY <2>1, <2>2, <2>3 DEF RsInit, RsTypeOK
<1>2. Queued = {} /\ DOMAIN kitchen = {} /\ \A o \in OrderIds : orders[o].status = "Absent"
  BY DEF RsInit, Queued
<1>3. \A h \in Callers : ord[h].pc = "idle"
  BY DEF RsInit, RsIdle
<1> QED
  BY <1>1, <1>2, <1>3 DEF RsInv, QueuedOnce, StageInv

(* A request that becomes idle knows nothing that has to be kept.          *)
LEMMA BecomesIdle ==
  ASSUME ord \in [Callers -> RsRequests], NEW h \in Callers, ord' = [ord EXCEPT ![h] = RsIdle]
  PROVE  /\ ord' \in [Callers -> RsRequests] /\ ord'[h].pc = "idle"
         /\ \A d \in Callers : d # h => ord'[d] = ord[d]
         /\ \A d \in Callers : ord'[d].pc # "idle" => d # h /\ ord'[d] = ord[d]
  BY DEF RsIdle, RsRequests

(* What a request knows when it has arrived to place an order,             *)
LEMMA PlaceRoomRequest ==
  ASSUME ord \in [Callers -> RsRequests], NEW h \in Callers, NEW g \in Guests, PlaceRoom(h, g)
  PROVE  /\ ord' \in [Callers -> RsRequests]
         /\ ord'[h].pc = "plGuest" /\ ord'[h].guest = g
         /\ \A d \in Callers : d # h => ord'[d] = ord[d]
<1> DEFINE r == [ord[h] EXCEPT !.pc = "plGuest", !.guest = g]
<1>1. ord' = [ord EXCEPT ![h] = r] /\ ord[h] \in RsRequests
  BY DEF PlaceRoom
<1>2. r \in RsRequests /\ r.pc = "plGuest" /\ r.guest = g
  BY <1>1 DEF RsRequests
<1> HIDE DEF r
<1> QED
  BY <1>1, <1>2

(* when the order is stored,                                               *)
LEMMA PlaceSaveRequest ==
  ASSUME ord \in [Callers -> RsRequests], NEW h \in Callers, NEW o \in OrderIds,
         ord' = [ord EXCEPT ![h].pc = "plEnqueue", ![h].order = o]
  PROVE  /\ ord' \in [Callers -> RsRequests]
         /\ ord'[h].pc = "plEnqueue" /\ ord'[h].order = o
         /\ \A d \in Callers : d # h => ord'[d] = ord[d]
<1> DEFINE r == [ord[h] EXCEPT !.pc = "plEnqueue", !.order = o]
<1>1. ord' = [ord EXCEPT ![h] = r] /\ ord[h] \in RsRequests
  OBVIOUS
<1>2. r \in RsRequests /\ r.pc = "plEnqueue" /\ r.order = o
  BY <1>1 DEF RsRequests
<1> HIDE DEF r
<1> QED
  BY <1>1, <1>2

(* when it has arrived to change a status,                                 *)
LEMMA UpdateRequest ==
  ASSUME RsTypeOK, NEW h \in Callers, NEW o \in OrderIds, NEW s \in OrderStatus, Update(h, o, s)
  PROVE  /\ ord' \in [Callers -> RsRequests]
         /\ ord'[h].pc = "upSave" /\ ord'[h].order = o /\ ord'[h].seen = orders[o].status
         /\ ord'[h].to = s
         /\ \A d \in Callers : d # h => ord'[d] = ord[d]
<1> DEFINE r == [ord[h] EXCEPT !.pc = "upSave", !.order = o, !.seen = orders[o].status, !.to = s]
<1>1. /\ ord \in [Callers -> RsRequests] /\ ord[h] \in RsRequests
      /\ orders[o].status \in OrderStatus \cup {"Absent"}
  BY DEF RsTypeOK
<1>2. ord' = [ord EXCEPT ![h] = r]
  BY DEF Update
<1>3. /\ r \in RsRequests /\ r.pc = "upSave" /\ r.order = o
      /\ r.seen = orders[o].status /\ r.to = s
  BY <1>1 DEF RsRequests
<1> HIDE DEF r
<1> QED
  BY <1>1, <1>2, <1>3

(* and when that is saved.                                                 *)
LEMMA UpdateSaveRequest ==
  ASSUME ord \in [Callers -> RsRequests], NEW h \in Callers,
         ord' = [ord EXCEPT ![h].pc = "upSync"]
  PROVE  /\ ord' \in [Callers -> RsRequests]
         /\ ord'[h].pc = "upSync" /\ ord'[h].order = ord[h].order /\ ord'[h].to = ord[h].to
         /\ \A d \in Callers : d # h => ord'[d] = ord[d]
<1> DEFINE r == [ord[h] EXCEPT !.pc = "upSync"]
<1>1. ord' = [ord EXCEPT ![h] = r] /\ ord[h] \in RsRequests
  OBVIOUS
<1>2. r \in RsRequests /\ r.pc = "upSync" /\ r.order = ord[h].order /\ r.to = ord[h].to
  BY <1>1 DEF RsRequests
<1> HIDE DEF r
<1> QED
  BY <1>1, <1>2

(* Two orders differ in age.                                               *)
LEMMA IdsCompare == \A p, q \in OrderIds : p = q \/ p < q \/ q < p
  BY RoomServiceAssumption DEF OrderIds

(* Arriving, and the reads of a request.                                   *)
LEMMA PlaceRoomStep ==
  ASSUME RsInv, NEW h \in Callers, NEW g \in Guests, PlaceRoom(h, g)
  PROVE  RsInv'
<1>1. /\ ord' \in [Callers -> RsRequests]
      /\ ord'[h].pc = "plGuest" /\ ord'[h].guest = g
      /\ \A d \in Callers : d # h => ord'[d] = ord[d]
  BY PlaceRoomRequest DEF RsInv, RsTypeOK
<1>2. UNCHANGED <<present, occupied, orders, kitchen, serial, Queued>> /\ ord[h].pc = "idle"
  BY DEF PlaceRoom, Queued
<1>3. RsTypeOK'
  BY <1>1, <1>2 DEF RsInv, RsTypeOK
<1>4. QueuedOnce'
  BY <1>1, <1>2 DEF RsInv, QueuedOnce
<1>5. StageInv'
  BY <1>1, <1>2 DEF RsInv, StageInv
<1> QED
  BY <1>3, <1>4, <1>5 DEF RsInv

(* The guest is looked up.                                                 *)
LEMMA PlaceGuestStep ==
  ASSUME RsInv, NEW h \in Callers, PlaceGuest(h)
  PROVE  RsInv'
<1>1. UNCHANGED <<present, occupied, orders, kitchen, serial, Queued>> /\ ord[h].pc = "plGuest"
  BY DEF PlaceGuest, Queued
<1>2. /\ ord' \in [Callers -> RsRequests]
      /\ (ord'[h].pc = "plSave" /\ ord'[h].guest = ord[h].guest) \/ ord'[h].pc = "idle"
      /\ \A d \in Callers : d # h => ord'[d] = ord[d]
  <2>1. CASE ord' = [ord EXCEPT ![h].pc = "plSave"]
    BY <2>1 DEF RsInv, RsTypeOK, RsRequests
  <2>2. CASE ord' = [ord EXCEPT ![h] = RsIdle]
    BY <2>2, BecomesIdle DEF RsInv, RsTypeOK
  <2> QED
    BY <2>1, <2>2 DEF PlaceGuest
<1>3. RsTypeOK'
  BY <1>1, <1>2 DEF RsInv, RsTypeOK
<1>4. QueuedOnce'
  BY <1>1, <1>2 DEF RsInv, QueuedOnce
<1>5. StageInv'
  BY <1>1, <1>2 DEF RsInv, StageInv
<1> QED
  BY <1>3, <1>4, <1>5 DEF RsInv

(* The order is stored; the request that stored it has it in hand.         *)
LEMMA PlaceSaveStep ==
  ASSUME RsInv, NEW h \in Callers, PlaceSave(h)
  PROVE  RsInv'
<1>1. PICK o \in OrderIds :
        /\ orders[o].status = "Absent"
        /\ orders' = [orders EXCEPT ![o] = [status |-> "Received", guest |-> ord[h].guest]]
        /\ ord' = [ord EXCEPT ![h].pc = "plEnqueue", ![h].order = o]
  BY DEF PlaceSave, IsFirst
<1>2. UNCHANGED <<present, occupied, kitchen, serial, Queued>> /\ ord[h].pc = "plSave"
  BY DEF PlaceSave, Queued
<1>3. /\ ord' \in [Callers -> RsRequests]
      /\ ord'[h].pc = "plEnqueue" /\ ord'[h].order = o
      /\ \A d \in Callers : d # h => ord'[d] = ord[d]
  BY <1>1, PlaceSaveRequest DEF RsInv, RsTypeOK
<1>4. ord[h].guest \in Guests
  BY <1>2 DEF RsInv, StageInv
<1>5. /\ orders' \in [OrderIds -> [status : OrderStatus \cup {"Absent"}, guest : Guests \cup {0}]]
      /\ orders'[o].status = "Received"
      /\ \A p \in OrderIds : p # o => orders'[p] = orders[p]
  BY <1>1, <1>4, Statuses DEF RsInv, RsTypeOK
<1>6. RsTypeOK'
  BY <1>2, <1>3, <1>5 DEF RsInv, RsTypeOK
<1>7. o \notin Queued /\ \A p \in Queued : p \in OrderIds
  <2>1. \A k \in DOMAIN kitchen : kitchen[k] \in [id : OrderIds, status : Active]
    BY ElementOfSeq, LenProperties DEF RsInv, RsTypeOK
  <2> QED
    BY <1>1, <2>1 DEF RsInv, QueuedOnce, Queued
<1>8. QueuedOnce'
  <2>1. \A k, m \in DOMAIN kitchen' : kitchen'[k].id = kitchen'[m].id => k = m
    BY <1>2 DEF RsInv, QueuedOnce
  <2>2. \A p \in Queued' : orders'[p].status # "Absent"
    BY <1>2, <1>5, <1>7 DEF RsInv, QueuedOnce
  <2>3. \A p \in OrderIds : orders'[p].status = "Received" =>
          p \in Queued' \/ \E d \in Callers : ord'[d].pc = "plEnqueue" /\ ord'[d].order = p
    BY <1>2, <1>3, <1>5 DEF RsInv, QueuedOnce
  <2> QED
    BY <2>1, <2>2, <2>3 DEF QueuedOnce
<1>9. StageInv'
  <2>1. \A d \in Callers : d # h /\ ord[d].pc \in {"plEnqueue", "upSave", "upSync"} =>
          /\ ord[d].order \in OrderIds \ {o}
          /\ orders'[ord[d].order] = orders[ord[d].order]
    BY <1>1, <1>5 DEF RsInv, StageInv
  <2> QED
    BY <1>2, <1>3, <1>5, <1>7, <2>1 DEF RsInv, StageInv
<1> QED
  BY <1>6, <1>8, <1>9 DEF RsInv

(* The order goes to the end of the list.                                  *)
LEMMA PlaceEnqueueStep ==
  ASSUME RsInv, NEW h \in Callers, PlaceEnqueue(h)
  PROVE  RsInv'
<1> DEFINE o == ord[h].order
           e == Entry(o, "Received")
<1>1. /\ ord[h].pc = "plEnqueue" /\ UNCHANGED <<present, occupied, orders, serial>>
      /\ kitchen' = Append(kitchen, e) /\ ord' = [ord EXCEPT ![h] = RsIdle]
  BY DEF PlaceEnqueue
<1>2. /\ ord' \in [Callers -> RsRequests] /\ ord'[h].pc = "idle"
      /\ \A d \in Callers : d # h => ord'[d] = ord[d]
  BY <1>1, BecomesIdle DEF RsInv, RsTypeOK
<1>3. o \in OrderIds /\ orders[o].status # "Absent" /\ o \notin Queued
  BY <1>1 DEF RsInv, StageInv
<1>4. e \in [id : OrderIds, status : Active] /\ e.id = o
  BY <1>3, Statuses DEF Entry
<1>5. /\ kitchen' \in Seq([id : OrderIds, status : Active])
      /\ Len(kitchen) \in Nat /\ DOMAIN kitchen = 1..Len(kitchen)
      /\ DOMAIN kitchen' = 1..(Len(kitchen) + 1)
      /\ \A k \in DOMAIN kitchen : kitchen'[k] = kitchen[k]
      /\ kitchen'[Len(kitchen) + 1] = e
  <2>1. kitchen \in Seq([id : OrderIds, status : Active])
    BY DEF RsInv, RsTypeOK
  <2> QED
    BY <1>1, <1>4, <2>1, AppendProperties, LenProperties
<1> HIDE DEF e
<1>6. Queued' = Queued \cup {o}
  BY <1>4, <1>5 DEF Queued
<1>7. RsTypeOK'
  BY <1>1, <1>2, <1>5 DEF RsInv, RsTypeOK
<1>8. OnceQueued'
  <2>1. OnceQueued /\ \A k \in DOMAIN kitchen : kitchen[k].id # o
    BY <1>3 DEF RsInv, QueuedOnce, OnceQueued, Queued
  <2> QED
    BY <1>4, <1>5, <2>1 DEF OnceQueued
<1>9. QueuedOnce'
  BY <1>1, <1>2, <1>3, <1>6, <1>8 DEF RsInv, QueuedOnce, OnceQueued
<1>10. StageInv'
  <2>1. \A d \in Callers : d # h /\ ord[d].pc = "plEnqueue" => ord[d].order # o
    BY <1>1 DEF RsInv, StageInv
  <2> QED
    BY <1>1, <1>2, <1>6, <2>1 DEF RsInv, StageInv
<1> QED
  BY <1>7, <1>9, <1>10 DEF RsInv

(* A change of status is asked for an order that is stored.                *)
LEMMA UpdateStep ==
  ASSUME RsInv, NEW h \in Callers, NEW o \in OrderIds, NEW s \in OrderStatus \ {"Received"},
         Update(h, o, s)
  PROVE  RsInv'
<1>1. UNCHANGED <<present, occupied, orders, kitchen, serial, Queued>>
      /\ ord[h].pc = "idle" /\ orders[o].status # "Absent"
  BY DEF Update, Queued
<1>2. orders[o].status \in OrderStatus
  BY <1>1 DEF RsInv, RsTypeOK
<1>3. /\ ord' \in [Callers -> RsRequests]
      /\ ord'[h].pc = "upSave" /\ ord'[h].order = o /\ ord'[h].seen = orders[o].status
      /\ ord'[h].to = s
      /\ \A d \in Callers : d # h => ord'[d] = ord[d]
  BY UpdateRequest DEF RsInv
<1>4. RsTypeOK'
  BY <1>1, <1>3 DEF RsInv, RsTypeOK
<1>5. QueuedOnce'
  BY <1>1, <1>3 DEF RsInv, QueuedOnce
<1>6. StageInv'
  BY <1>1, <1>2, <1>3 DEF RsInv, StageInv
<1> QED
  BY <1>4, <1>5, <1>6 DEF RsInv

(* The status is saved, unless it is the one that was read.                *)
LEMMA UpdateSaveStep ==
  ASSUME RsInv, NEW h \in Callers, UpdateSave(h)
  PROVE  RsInv'
<1> DEFINE o == ord[h].order
<1>1. /\ ord[h].pc = "upSave" /\ UNCHANGED <<present, occupied, kitchen, serial, Queued>>
      /\ orders' = [orders EXCEPT ![o].status = Saved(ord[h].seen, ord[h].to, @)]
      /\ ord' = [ord EXCEPT ![h].pc = "upSync"]
  BY DEF UpdateSave, Queued
<1>2. /\ o \in OrderIds /\ orders[o].status # "Absent"
      /\ ord[h].to \in OrderStatus \ {"Received"}
      /\ ord[h].seen # "Received" => orders[o].status # "Received"
  BY <1>1 DEF RsInv, StageInv
<1>3. /\ ord' \in [Callers -> RsRequests]
      /\ ord'[h].pc = "upSync" /\ ord'[h].order = o /\ ord'[h].to = ord[h].to
      /\ \A d \in Callers : d # h => ord'[d] = ord[d]
  BY <1>1, UpdateSaveRequest DEF RsInv, RsTypeOK
<1>4. /\ orders' \in [OrderIds -> [status : OrderStatus \cup {"Absent"}, guest : Guests \cup {0}]]
      /\ orders'[o].status \in OrderStatus \ {"Received"}
      /\ \A p \in OrderIds : p # o => orders'[p] = orders[p]
  BY <1>1, <1>2 DEF Saved, RsInv, RsTypeOK
<1>5. \A p \in OrderIds : /\ orders[p].status # "Absent" => orders'[p].status # "Absent"
                          /\ orders[p].status # "Received" => orders'[p].status # "Received"
                          /\ orders'[p].status = "Received" => orders[p].status = "Received"
  BY <1>4, Statuses
<1>6. RsTypeOK'
  BY <1>1, <1>3, <1>4 DEF RsInv, RsTypeOK
<1>7. Queued \subseteq OrderIds
  <2>1. \A k \in DOMAIN kitchen : kitchen[k] \in [id : OrderIds, status : Active]
    BY ElementOfSeq, LenProperties DEF RsInv, RsTypeOK
  <2> QED
    BY <2>1 DEF Queued
<1>8. QueuedOnce'
  <2>1. \A k, m \in DOMAIN kitchen' : kitchen'[k].id = kitchen'[m].id => k = m
    BY <1>1 DEF RsInv, QueuedOnce
  <2>2. \A p \in Queued' : orders'[p].status # "Absent"
    BY <1>1, <1>5, <1>7 DEF RsInv, QueuedOnce
  <2>3. \A p \in OrderIds : orders'[p].status = "Received" =>
          p \in Queued' \/ \E d \in Callers : ord'[d].pc = "plEnqueue" /\ ord'[d].order = p
    BY <1>1, <1>3, <1>5 DEF RsInv, QueuedOnce
  <2> QED
    BY <2>1, <2>2, <2>3 DEF QueuedOnce
<1>9. StageInv'
  <2>1. \A d \in Callers : ord'[d].pc \in {"plGuest", "plSave"} => ord'[d].guest \in Guests
    BY <1>3 DEF RsInv, StageInv
  <2>2. \A d \in Callers : ord'[d].pc \in {"plEnqueue", "upSave", "upSync"} =>
          ord'[d].order \in OrderIds /\ orders'[ord'[d].order].status # "Absent"
    <3>1. \A d \in Callers : d # h /\ ord[d].pc \in {"plEnqueue", "upSave", "upSync"} =>
            ord[d].order \in OrderIds /\ orders[ord[d].order].status # "Absent"
      BY DEF RsInv, StageInv
    <3>2. \A d \in Callers : d # h /\ ord[d].pc \in {"plEnqueue", "upSave", "upSync"} =>
            orders'[ord[d].order].status # "Absent"
      BY <1>5, <3>1
    <3> QED
      BY <1>2, <1>3, <1>5, <3>1, <3>2
  <2>3. /\ \A d \in Callers : ord'[d].pc = "plEnqueue" => ord'[d].order \notin Queued'
        /\ \A d, e \in Callers :
             ord'[d].pc = "plEnqueue" /\ ord'[e].pc = "plEnqueue" /\ ord'[d].order = ord'[e].order
             => d = e
    BY <1>1, <1>3 DEF RsInv, StageInv
  <2>4. \A d \in Callers : ord'[d].pc = "upSave" =>
          /\ ord'[d].seen \in OrderStatus /\ ord'[d].to \in OrderStatus \ {"Received"}
          /\ ord'[d].seen # "Received" => orders'[ord'[d].order].status # "Received"
    <3>1. \A d \in Callers : ord[d].pc = "upSave" =>
            /\ ord[d].seen \in OrderStatus /\ ord[d].to \in OrderStatus \ {"Received"}
            /\ ord[d].order \in OrderIds
            /\ ord[d].seen # "Received" => orders[ord[d].order].status # "Received"
      BY DEF RsInv, StageInv
    <3>2. \A d \in Callers : ord'[d].pc = "upSave" => d # h /\ ord'[d] = ord[d]
      BY <1>3
    <3> QED
      BY <1>5, <3>1, <3>2
  <2>5. \A d \in Callers : ord'[d].pc = "upSync" =>
          /\ ord'[d].to \in OrderStatus \ {"Received"}
          /\ orders'[ord'[d].order].status # "Received"
    <3>1. \A d \in Callers : ord[d].pc = "upSync" =>
            /\ ord[d].to \in OrderStatus \ {"Received"} /\ ord[d].order \in OrderIds
            /\ orders[ord[d].order].status # "Received"
      BY DEF RsInv, StageInv
    <3>2. \A d \in Callers : d # h /\ ord'[d].pc = "upSync" => ord[d].pc = "upSync" /\ ord'[d] = ord[d]
      BY <1>3
    <3>3. orders'[ord'[h].order].status # "Received" /\ ord'[h].to \in OrderStatus \ {"Received"}
      BY <1>2, <1>3, <1>4
    <3> QED
      BY <1>5, <3>1, <3>2, <3>3
  <2> QED
    BY <2>1, <2>2, <2>3, <2>4, <2>5 DEF StageInv
<1> QED
  BY <1>6, <1>8, <1>9 DEF RsInv

(* The list follows: an order that has been touched leaves it or stays.    *)
LEMMA UpdateSyncStep ==
  ASSUME RsInv, NEW h \in Callers, UpdateSync(h)
  PROVE  RsInv'
<1> DEFINE o == ord[h].order
<1>1. /\ ord[h].pc = "upSync" /\ UNCHANGED <<present, occupied, orders, serial>>
      /\ ord' = [ord EXCEPT ![h] = RsIdle]
  BY DEF UpdateSync
<1>2. /\ ord' \in [Callers -> RsRequests] /\ ord'[h].pc = "idle"
      /\ \A d \in Callers : d # h => ord'[d] = ord[d]
  BY <1>1, BecomesIdle DEF RsInv, RsTypeOK
<1>3. o \in OrderIds /\ orders[o].status # "Received" /\ ord[h].to \in OrderStatus
  BY <1>1 DEF RsInv, StageInv
<1>4. kitchen \in Seq(Entries) /\ OnceQueued
  BY DEF RsInv, RsTypeOK, Entries, QueuedOnce, OnceQueued
<1>5. /\ kitchen' \in Seq(Entries) /\ OnceQueued'
      /\ Queued' \subseteq Queued /\ Queued \ {o} \subseteq Queued'
  <2>1. CASE ord[h].to = "Delivered"
    <3>1. QueueRemove(o)
      BY <2>1 DEF UpdateSync
    <3> QED
      BY <1>4, <3>1, Removing
  <2>2. CASE ord[h].to # "Delivered"
    <3>1. QueueUpdateStatus(o, ord[h].to) /\ ord[h].to \in Active
      BY <1>3, <2>2 DEF UpdateSync, Active
    <3>2. /\ kitchen' \in Seq(Entries) /\ DOMAIN kitchen' = DOMAIN kitchen
          /\ \A k \in DOMAIN kitchen : kitchen'[k].id = kitchen[k].id
      BY <1>4, <3>1, Updating
    <3> QED
      BY <1>4, <3>2 DEF OnceQueued, Queued
  <2> QED
    BY <2>1, <2>2
<1>6. RsTypeOK'
  BY <1>1, <1>2, <1>5 DEF RsInv, RsTypeOK, Entries
<1>7. QueuedOnce'
  BY <1>1, <1>2, <1>3, <1>5 DEF RsInv, QueuedOnce, OnceQueued
<1>8. StageInv'
  BY <1>1, <1>2, <1>5 DEF RsInv, StageInv
<1> QED
  BY <1>6, <1>7, <1>8 DEF RsInv

(* A save that fails changes no table.                                     *)
LEMMA SaveFailsStep ==
  ASSUME RsInv, NEW h \in Callers, RsSaveFails(h)
  PROVE  RsInv'
<1>1. /\ ord[h].pc \in {"plSave", "upSave"} /\ ord' = [ord EXCEPT ![h] = RsIdle]
      /\ UNCHANGED <<present, occupied, orders, kitchen, serial, Queued>>
  BY DEF RsSaveFails, Queued
<1>2. /\ ord' \in [Callers -> RsRequests] /\ ord'[h].pc = "idle"
      /\ \A d \in Callers : d # h => ord'[d] = ord[d]
  BY <1>1, BecomesIdle DEF RsInv, RsTypeOK
<1>3. RsTypeOK'
  BY <1>1, <1>2 DEF RsInv, RsTypeOK
<1>4. QueuedOnce'
  BY <1>1, <1>2 DEF RsInv, QueuedOnce
<1>5. StageInv'
  BY <1>1, <1>2 DEF RsInv, StageInv
<1> QED
  BY <1>3, <1>4, <1>5 DEF RsInv

(* A restart loads every active order, those that were in a request's      *)
(* hands too.                                                              *)
LEMMA RestartStep ==
  ASSUME RsInv, RsRestart
  PROVE  RsInv'
<1>1. PICK f \in OldestFirst : kitchen' = Loaded(f)
  BY DEF RsRestart
<1>2. UNCHANGED <<present, occupied, orders, serial>> /\ ord' = [h \in Callers |-> RsIdle]
  BY DEF RsRestart
<1>3. /\ kitchen' \in Seq(Entries)
      /\ Queued' = ActiveOrders
      /\ \A k, m \in DOMAIN kitchen' : k < m => kitchen'[k].id < kitchen'[m].id
  BY <1>1, Loading
<1>4. ord' \in [Callers -> RsRequests] /\ \A h \in Callers : ord'[h].pc = "idle"
  BY <1>2 DEF RsIdle, RsRequests
<1>5. RsTypeOK'
  BY <1>2, <1>3, <1>4 DEF RsInv, RsTypeOK, Entries
<1>6. OnceQueued'
  <2>1. \A k \in DOMAIN kitchen' : k \in Nat /\ kitchen'[k].id \in Nat
    <3>1. DOMAIN kitchen' = 1..Len(kitchen') /\ Len(kitchen') \in Nat
      BY <1>3, LenProperties
    <3>2. \A k \in DOMAIN kitchen' : kitchen'[k] \in Entries
      BY <1>3, <3>1, ElementOfSeq
    <3>3. OrderIds \subseteq Nat
      BY RoomServiceAssumption DEF OrderIds
    <3>4. \A k \in DOMAIN kitchen' : k \in Nat
      BY <3>1
    <3>5. \A k \in DOMAIN kitchen' : kitchen'[k].id \in OrderIds
      BY <3>2 DEF Entries
    <3> QED
      BY <3>3, <3>4, <3>5
  <2>2. \A k, m \in DOMAIN kitchen' : k # m => k < m \/ m < k
    BY <2>1
  <2> QED
    BY <1>3, <2>1, <2>2 DEF OnceQueued
<1>7. QueuedOnce'
  BY <1>2, <1>3, <1>6, Statuses DEF QueuedOnce, OnceQueued, ActiveOrders
<1>8. StageInv'
  BY <1>4 DEF StageInv
<1> QED
  BY <1>5, <1>7, <1>8 DEF RsInv

(* Every step keeps the invariant.                                         *)
LEMMA StepInv == RsInv /\ [RsNext]_rsVars => RsInv'
<1> SUFFICES ASSUME RsInv, [RsNext]_rsVars PROVE RsInv'
  OBVIOUS
<1>1. CASE \E h \in Callers : RsStep(h)
  BY <1>1, PlaceRoomStep, UpdateStep, PlaceGuestStep, PlaceSaveStep, PlaceEnqueueStep,
     UpdateSaveStep, UpdateSyncStep, SaveFailsStep DEF RsStep, RsProceed
<1>2. CASE RsRestart
  BY <1>2, RestartStep
<1>3. CASE \E g \in Guests : Leave(g) \/ RoomDirtied(g) \/ RoomReady(g)
  <2>1. UNCHANGED <<orders, kitchen, ord, serial, Queued>>
        /\ present' \in SUBSET Guests /\ occupied' \in SUBSET Guests
    BY <1>3 DEF Leave, RoomDirtied, RoomReady, RsInv, RsTypeOK, Queued
  <2> QED
    BY <2>1 DEF RsInv, RsTypeOK, QueuedOnce, StageInv
<1>4. CASE UNCHANGED rsVars
  BY <1>4 DEF rsVars, RsInv, RsTypeOK, QueuedOnce, StageInv, Queued
<1> QED
  BY <1>1, <1>2, <1>3, <1>4 DEF RsNext

(* The invariant, for any number of requests, with failed saves and        *)
(* restarts.                                                               *)
THEOREM Invariance == RsSafe => []RsInv
  BY InitInv, StepInv, PTL DEF RsSafe

(* The table, the list and the requests keep their types.                  *)
THEOREM TypeCorrect == RsSafe => []RsTypeOK
<1>1. RsInv => RsTypeOK
  BY DEF RsInv
<1> QED
  BY <1>1, Invariance, PTL

(* No order is on the list twice, none that is not stored, and one nobody  *)
(* has touched is on it or about to be.                                    *)
THEOREM OrdersQueuedOnce == RsSafe => []QueuedOnce
<1>1. RsInv => QueuedOnce
  BY DEF RsInv
<1> QED
  BY <1>1, Invariance, PTL

-----------------------------------------------------------------------------
(* Rows are inserted in the order of their ids.                            *)
RowsInOrder == \A p, q \in OrderIds :
  q < p /\ orders[p].status # "Absent" => orders[q].status # "Absent"

(* An entry shows what is stored, unless the request that has just stored  *)
(* a status is about to show it.                                           *)
EntriesRight == \A k \in DOMAIN kitchen :
  \/ kitchen[k].status = orders[kitchen[k].id].status
  \/ \E h \in Callers : ord[h].pc = "upSync" /\ ord[h].order = kitchen[k].id

(* Nobody changes the table behind the back of the request that is served. *)
ServedInv ==
  /\ \A h, d \in Callers : ord[h].pc # "idle" /\ ord[d].pc # "idle" => h = d
  /\ \A h \in Callers : ord[h].pc = "plEnqueue" =>
       /\ orders[ord[h].order].status = "Received"
       /\ \A p \in OrderIds : ord[h].order < p => orders[p].status = "Absent"
  /\ \A h \in Callers : ord[h].pc = "upSave" => ord[h].seen = orders[ord[h].order].status
  /\ \A h \in Callers : ord[h].pc = "upSync" => ord[h].to = orders[ord[h].order].status

SerialInv == /\ RsInv /\ RowsInOrder
             /\ serial => ServedInv /\ FifoOrder /\ EntriesRight

(* The entries of the list are of orders that are stored.                  *)
LEMMA EntriesStored ==
  ASSUME RsInv
  PROVE  /\ kitchen \in Seq(Entries) /\ OnceQueued
         /\ \A k \in DOMAIN kitchen : /\ kitchen[k].id \in OrderIds /\ kitchen[k].id \in Queued
                                      /\ orders[kitchen[k].id].status # "Absent"
<1>1. kitchen \in Seq(Entries) /\ OnceQueued
  BY DEF RsInv, RsTypeOK, Entries, QueuedOnce, OnceQueued
<1>2. \A k \in DOMAIN kitchen : kitchen[k] \in Entries
  BY <1>1, ElementOfSeq, LenProperties
<1> QED
  BY <1>1, <1>2 DEF Entries, Queued, RsInv, QueuedOnce

(* A step that leaves table and list alone keeps them in line, if the      *)
(* request that arrives or goes on knows what is stored.                   *)
LEMMA TableUntouched ==
  ASSUME SerialInv, NEW h \in Callers, UNCHANGED <<orders, kitchen, serial>>,
         ord[h].pc \notin {"upSync", "plEnqueue"}, ord'[h].pc \notin {"upSync", "plEnqueue"},
         \A d \in Callers : d # h => ord'[d] = ord[d],
         ord[h].pc = "idle" => (serial => RsQuiet),
         ord'[h].pc = "upSave" => ord'[h].seen = orders[ord'[h].order].status
  PROVE  RowsInOrder' /\ (serial' => ServedInv' /\ FifoOrder' /\ EntriesRight')
<1>1. RowsInOrder'
  BY DEF SerialInv, RowsInOrder
<1>2. ASSUME serial PROVE ServedInv' /\ FifoOrder' /\ EntriesRight'
  <2>1. ServedInv /\ FifoOrder /\ EntriesRight
    BY <1>2 DEF SerialInv
  <2>2. FifoOrder' /\ EntriesRight'
    BY <2>1 DEF FifoOrder, EntriesRight
  <2>3. \A d, e \in Callers : ord'[d].pc # "idle" /\ ord'[e].pc # "idle" => d = e
    BY <1>2, <2>1 DEF ServedInv, RsQuiet
  <2>4. ServedInv'
    BY <2>1, <2>3 DEF ServedInv
  <2> QED
    BY <2>2, <2>4
<1> QED
  BY <1>1, <1>2

(* The row stored is the last one.                                         *)
LEMMA PlaceSaveSerial ==
  ASSUME SerialInv, NEW h \in Callers, PlaceSave(h)
  PROVE  RowsInOrder' /\ (serial' => ServedInv' /\ FifoOrder' /\ EntriesRight')
<1>1. PICK o \in OrderIds :
        /\ IsFirst(o, {p \in OrderIds : orders[p].status = "Absent"})
        /\ orders' = [orders EXCEPT ![o] = [status |-> "Received", guest |-> ord[h].guest]]
        /\ ord' = [ord EXCEPT ![h].pc = "plEnqueue", ![h].order = o]
  BY DEF PlaceSave
<1>2. UNCHANGED <<kitchen, serial>> /\ ord[h].pc = "plSave"
  BY DEF PlaceSave
<1>3. /\ ord'[h].pc = "plEnqueue" /\ ord'[h].order = o
      /\ \A d \in Callers : d # h => ord'[d] = ord[d]
  BY <1>1, PlaceSaveRequest DEF SerialInv, RsInv, RsTypeOK
<1>4. /\ orders'[o].status = "Received"
      /\ \A p \in OrderIds : p # o => orders'[p] = orders[p]
  BY <1>1 DEF SerialInv, RsInv, RsTypeOK
<1>5. OrderIds \subseteq Nat
  BY RoomServiceAssumption DEF OrderIds
<1>6. \A p \in OrderIds : (p < o => orders[p].status # "Absent")
                          /\ (o < p => orders[p].status = "Absent")
  BY <1>1, <1>5 DEF IsFirst, SerialInv, RowsInOrder
<1>7. RowsInOrder'
  BY <1>4, <1>5, <1>6 DEF SerialInv, RowsInOrder
<1>8. ASSUME serial PROVE ServedInv' /\ FifoOrder' /\ EntriesRight'
  <2>1. ServedInv /\ FifoOrder /\ EntriesRight
    BY <1>8 DEF SerialInv
  <2>2. FifoOrder'
    BY <1>2, <2>1 DEF FifoOrder
  <2>3. \A d \in Callers : d # h => ord[d].pc = "idle"
    BY <1>2, <2>1 DEF ServedInv
  <2>4. \A p \in OrderIds : o < p => orders'[p].status = "Absent"
    BY <1>4, <1>5, <1>6
  <2>5. ServedInv'
    BY <1>3, <1>4, <2>3, <2>4 DEF ServedInv
  <2>6. EntriesRight'
    <3>1. \A k \in DOMAIN kitchen : kitchen[k].id \in OrderIds /\ kitchen[k].id # o
      BY <1>1, EntriesStored DEF SerialInv, IsFirst
    <3>2. \A k \in DOMAIN kitchen : kitchen[k].status = orders[kitchen[k].id].status
      BY <1>2, <2>1, <2>3 DEF EntriesRight
    <3> QED
      BY <1>2, <1>4, <3>1, <3>2 DEF EntriesRight
  <2> QED
    BY <2>2, <2>5, <2>6
<1> QED
  BY <1>2, <1>7, <1>8

(* So it goes behind all others.                                           *)
LEMMA PlaceEnqueueSerial ==
  ASSUME SerialInv, NEW h \in Callers, PlaceEnqueue(h)
  PROVE  RowsInOrder' /\ (serial' => ServedInv' /\ FifoOrder' /\ EntriesRight')
<1> DEFINE o == ord[h].order
           e == Entry(o, "Received")
<1>1. /\ ord[h].pc = "plEnqueue" /\ UNCHANGED <<orders, serial>>
      /\ kitchen' = Append(kitchen, e) /\ ord' = [ord EXCEPT ![h] = RsIdle]
  BY DEF PlaceEnqueue
<1>2. ord'[h].pc = "idle" /\ \A d \in Callers : d # h => ord'[d] = ord[d]
  BY <1>1, BecomesIdle DEF SerialInv, RsInv, RsTypeOK
<1>3. o \in OrderIds /\ o \notin Queued
  BY <1>1 DEF SerialInv, RsInv, StageInv
<1>4. e \in Entries /\ e.id = o /\ e.status = "Received"
  BY <1>3, Statuses DEF Entry, Entries
<1>5. /\ Len(kitchen) \in Nat /\ DOMAIN kitchen = 1..Len(kitchen)
      /\ DOMAIN kitchen' = 1..(Len(kitchen) + 1)
      /\ \A k \in DOMAIN kitchen : kitchen'[k] = kitchen[k]
      /\ kitchen'[Len(kitchen) + 1] = e
  <2>1. kitchen \in Seq(Entries)
    BY EntriesStored DEF SerialInv
  <2> QED
    BY <1>1, <1>4, <2>1, AppendProperties, LenProperties
<1> HIDE DEF e
<1>6. RowsInOrder'
  BY <1>1 DEF SerialInv, RowsInOrder
<1>7. ASSUME serial PROVE ServedInv' /\ FifoOrder' /\ EntriesRight'
  <2>1. ServedInv /\ FifoOrder /\ EntriesRight
    BY <1>7 DEF SerialInv
  <2>2. \A k \in DOMAIN kitchen : kitchen[k].id < o
    <3>1. \A k \in DOMAIN kitchen : /\ kitchen[k].id \in OrderIds /\ kitchen[k].id # o
                                    /\ orders[kitchen[k].id].status # "Absent"
      BY <1>3, EntriesStored DEF SerialInv
    <3>2. \A p \in OrderIds : o < p => orders[p].status = "Absent"
      BY <1>1, <2>1 DEF ServedInv
    <3> QED
      BY <1>3, <3>1, <3>2, IdsCompare
  <2>3. FifoOrder'
    <3>1. \A k, m \in DOMAIN kitchen' : k < m => k \in DOMAIN kitchen
      BY <1>5
    <3>2. \A m \in DOMAIN kitchen' : m \in DOMAIN kitchen \/ m = Len(kitchen) + 1
      BY <1>5
    <3> QED
      BY <1>4, <1>5, <2>1, <2>2, <3>1, <3>2 DEF FifoOrder
  <2>4. \A d \in Callers : ord[d].pc # "upSync" /\ ord'[d].pc = "idle"
    BY <1>1, <1>2, <2>1 DEF ServedInv
  <2>5. ServedInv'
    BY <2>4 DEF ServedInv
  <2>6. EntriesRight'
    <3>1. \A k \in DOMAIN kitchen : kitchen[k].status = orders[kitchen[k].id].status
      BY <2>1, <2>4 DEF EntriesRight
    <3>2. orders[o].status = "Received"
      BY <1>1, <2>1 DEF ServedInv
    <3>3. \A m \in DOMAIN kitchen' : m \in DOMAIN kitchen \/ m = Len(kitchen) + 1
      BY <1>5
    <3> QED
      BY <1>1, <1>4, <1>5, <3>1, <3>2, <3>3 DEF EntriesRight
  <2> QED
    BY <2>3, <2>5, <2>6
<1> QED
  BY <1>1, <1>6, <1>7

(* What is saved is what was asked for: nobody has changed the row since.  *)
LEMMA UpdateSaveSerial ==
  ASSUME SerialInv, NEW h \in Callers, UpdateSave(h)
  PROVE  RowsInOrder' /\ (serial' => ServedInv' /\ FifoOrder' /\ EntriesRight')
<1> DEFINE o == ord[h].order
<1>1. /\ ord[h].pc = "upSave" /\ UNCHANGED <<kitchen, serial>>
      /\ orders' = [orders EXCEPT ![o].status = Saved(ord[h].seen, ord[h].to, @)]
      /\ ord' = [ord EXCEPT ![h].pc = "upSync"]
  BY DEF UpdateSave
<1>2. o \in OrderIds /\ orders[o].status # "Absent" /\ ord[h].to \in OrderStatus
  BY <1>1 DEF SerialInv, RsInv, StageInv
<1>3. /\ ord'[h].pc = "upSync" /\ ord'[h].order = o /\ ord'[h].to = ord[h].to
      /\ \A d \in Callers : d # h => ord'[d] = ord[d]
  BY <1>1, UpdateSaveRequest DEF SerialInv, RsInv, RsTypeOK
<1>4. /\ orders'[o].status = Saved(ord[h].seen, ord[h].to, orders[o].status)
      /\ \A p \in OrderIds : p # o => orders'[p] = orders[p]
  BY <1>1, <1>2 DEF SerialInv, RsInv, RsTypeOK
<1>5. RowsInOrder'
  <2>1. orders'[o].status # "Absent"
    BY <1>2, <1>4, Statuses DEF Saved
  <2> QED
    BY <1>2, <1>4, <2>1 DEF SerialInv, RowsInOrder
<1>6. ASSUME serial PROVE ServedInv' /\ FifoOrder' /\ EntriesRight'
  <2>1. ServedInv /\ FifoOrder /\ EntriesRight
    BY <1>6 DEF SerialInv
  <2>2. FifoOrder'
    BY <1>1, <2>1 DEF FifoOrder
  <2>3. orders'[o].status = ord[h].to
    BY <1>1, <1>4, <2>1 DEF ServedInv, Saved
  <2>4. \A d \in Callers : d # h => ord[d].pc = "idle"
    BY <1>1, <2>1 DEF ServedInv
  <2>5. ServedInv'
    BY <1>3, <2>3, <2>4 DEF ServedInv
  <2>6. EntriesRight'
    <3>1. \A k \in DOMAIN kitchen : kitchen[k].id \in OrderIds
      BY EntriesStored DEF SerialInv
    <3>2. \A k \in DOMAIN kitchen : kitchen[k].status = orders[kitchen[k].id].status
      BY <1>1, <2>1, <2>4 DEF EntriesRight
    <3> QED
      BY <1>1, <1>3, <1>4, <3>1, <3>2 DEF EntriesRight
  <2> QED
    BY <2>2, <2>5, <2>6
<1> QED
  BY <1>1, <1>5, <1>6

(* Then the list shows it, or no longer has the order.                     *)
LEMMA UpdateSyncSerial ==
  ASSUME SerialInv, NEW h \in Callers, UpdateSync(h)
  PROVE  RowsInOrder' /\ (serial' => ServedInv' /\ FifoOrder' /\ EntriesRight')
<1> DEFINE o == ord[h].order
<1>1. /\ ord[h].pc = "upSync" /\ UNCHANGED <<orders, serial>>
      /\ ord' = [ord EXCEPT ![h] = RsIdle]
  BY DEF UpdateSync
<1>2. ord'[h].pc = "idle" /\ \A d \in Callers : d # h => ord'[d] = ord[d]
  BY <1>1, BecomesIdle DEF SerialInv, RsInv, RsTypeOK
<1>3. kitchen \in Seq(Entries) /\ OnceQueued /\ ord[h].to \in OrderStatus
  BY <1>1, EntriesStored DEF SerialInv, RsInv, StageInv
<1>4. RowsInOrder'
  BY <1>1 DEF SerialInv, RowsInOrder
<1>5. ASSUME serial PROVE ServedInv' /\ FifoOrder' /\ EntriesRight'
  <2>1. ServedInv /\ FifoOrder /\ EntriesRight
    BY <1>5 DEF SerialInv
  <2>2. \A d \in Callers : ord'[d].pc = "idle" /\ (d # h => ord[d].pc = "idle")
    BY <1>1, <1>2, <2>1 DEF ServedInv
  <2>3. ServedInv'
    BY <2>2 DEF ServedInv
  <2>4. \A k \in DOMAIN kitchen :
          kitchen[k].id # o => kitchen[k].status = orders[kitchen[k].id].status
    BY <2>1, <2>2 DEF EntriesRight
  <2>5. orders[o].status = ord[h].to
    BY <1>1, <2>1 DEF ServedInv
  <2>6. CASE ord[h].to = "Delivered"
    <3>1. QueueRemove(o)
      BY <2>6 DEF UpdateSync
    <3>2. /\ \A e, d \in DOMAIN kitchen' : e < d => \E k, m \in DOMAIN kitchen :
               k < m /\ kitchen'[e] = kitchen[k] /\ kitchen'[d] = kitchen[m]
          /\ \A e \in DOMAIN kitchen' :
               kitchen'[e].id # o /\ \E k \in DOMAIN kitchen : kitchen'[e] = kitchen[k]
      BY <1>3, <3>1, Removing
    <3>3. FifoOrder'
      BY <2>1, <3>2 DEF FifoOrder
    <3>4. EntriesRight'
      BY <1>1, <2>4, <3>2 DEF EntriesRight
    <3> QED
      BY <2>3, <3>3, <3>4
  <2>7. CASE ord[h].to # "Delivered"
    <3>1. QueueUpdateStatus(o, ord[h].to) /\ ord[h].to \in Active
      BY <1>3, <2>7 DEF UpdateSync, Active
    <3>2. /\ DOMAIN kitchen' = DOMAIN kitchen
          /\ \A k \in DOMAIN kitchen : kitchen'[k].id = kitchen[k].id
          /\ \A k \in DOMAIN kitchen :
               kitchen'[k].status = IF kitchen[k].id = o THEN ord[h].to ELSE kitchen[k].status
      BY <1>3, <3>1, Updating
    <3>3. FifoOrder'
      BY <2>1, <3>2 DEF FifoOrder
    <3>4. EntriesRight'
      BY <1>1, <2>4, <2>5, <3>2 DEF EntriesRight
    <3> QED
      BY <2>3, <3>3, <3>4
  <2> QED
    BY <2>6, <2>7
<1> QED
  BY <1>1, <1>4, <1>5

(* Every step of a request, a restart and the guests keep list and table   *)
(* in line.                                                                *)
LEMMA StepSerial == SerialInv /\ [RsNext]_rsVars => SerialInv'
<1> SUFFICES ASSUME SerialInv, [RsNext]_rsVars
             PROVE  RowsInOrder' /\ (serial' => ServedInv' /\ FifoOrder' /\ EntriesRight')
  BY StepInv DEF SerialInv
<1>1. ASSUME NEW h \in Callers, NEW g \in Guests, PlaceRoom(h, g)
      PROVE  RowsInOrder' /\ (serial' => ServedInv' /\ FifoOrder' /\ EntriesRight')
  <2>1. /\ ord[h].pc = "idle" /\ (serial => RsQuiet) /\ UNCHANGED <<orders, kitchen, serial>>
        /\ ord'[h].pc = "plGuest"
        /\ \A d \in Callers : d # h => ord'[d] = ord[d]
    BY <1>1, PlaceRoomRequest DEF PlaceRoom, SerialInv, RsInv, RsTypeOK
  <2> QED
    BY <2>1, TableUntouched
<1>2. ASSUME NEW h \in Callers, NEW o \in OrderIds, NEW s \in OrderStatus, Update(h, o, s)
      PROVE  RowsInOrder' /\ (serial' => ServedInv' /\ FifoOrder' /\ EntriesRight')
  <2>1. /\ ord[h].pc = "idle" /\ (serial => RsQuiet) /\ UNCHANGED <<orders, kitchen, serial>>
        /\ ord'[h].pc = "upSave" /\ ord'[h].order = o /\ ord'[h].seen = orders[o].status
        /\ \A d \in Callers : d # h => ord'[d] = ord[d]
    BY <1>2, UpdateRequest DEF Update, SerialInv, RsInv
  <2> QED
    BY <2>1, TableUntouched
<1>3. ASSUME NEW h \in Callers, PlaceGuest(h)
      PROVE  RowsInOrder' /\ (serial' => ServedInv' /\ FifoOrder' /\ EntriesRight')
  <2>1. /\ ord[h].pc = "plGuest" /\ UNCHANGED <<orders, kitchen, serial>>
        /\ ord'[h].pc \in {"plSave", "idle"}
        /\ \A d \in Callers : d # h => ord'[d] = ord[d]
    BY <1>3 DEF PlaceGuest, RsIdle, SerialInv, RsInv, RsTypeOK, RsRequests
  <2> QED
    BY <2>1, TableUntouched
<1>4. ASSUME NEW h \in Callers, RsSaveFails(h)
      PROVE  RowsInOrder' /\ (serial' => ServedInv' /\ FifoOrder' /\ EntriesRight')
  <2>1. /\ ord[h].pc \in {"plSave", "upSave"} /\ UNCHANGED <<orders, kitchen, serial>>
        /\ ord'[h].pc = "idle"
        /\ \A d \in Callers : d # h => ord'[d] = ord[d]
    BY <1>4 DEF RsSaveFails, RsIdle, SerialInv, RsInv, RsTypeOK, RsRequests
  <2> QED
    BY <2>1, TableUntouched
<1>5. CASE RsRestart
  <2>1. PICK f \in OldestFirst : kitchen' = Loaded(f)
    BY <1>5 DEF RsRestart
  <2>2. UNCHANGED <<orders, serial>> /\ \A h \in Callers : ord'[h].pc = "idle"
    BY <1>5 DEF RsRestart, RsIdle
  <2>3. FifoOrder' /\ EntriesRight'
    BY <2>1, <2>2, Loading DEF FifoOrder, EntriesRight
  <2> QED
    BY <2>2, <2>3 DEF SerialInv, RowsInOrder, ServedInv
<1>6. CASE UNCHANGED <<orders, kitchen, ord, serial>>
  BY <1>6 DEF SerialInv, RowsInOrder, ServedInv, FifoOrder, EntriesRight
<1>7. CASE \E h \in Callers : RsStep(h)
  BY <1>1, <1>2, <1>3, <1>4, <1>7, PlaceSaveSerial, PlaceEnqueueSerial, UpdateSaveSerial,
     UpdateSyncSerial DEF RsStep, RsProceed
<1> QED
  BY <1>5, <1>6, <1>7 DEF RsNext, rsVars, Leave, RoomDirtied, RoomReady

(* The list against the table, when requests come one at a time.           *)
THEOREM SerialInvariance == RsSafe => []SerialInv
<1>1. RsInit => SerialInv
  <2> SUFFICES ASSUME RsInit PROVE SerialInv
    OBVIOUS
  <2>1. DOMAIN kitchen = {} /\ \A o \in OrderIds : orders[o].status = "Absent"
    BY DEF RsInit
  <2>2. \A h \in Callers : ord[h].pc = "idle"
    BY DEF RsInit, RsIdle
  <2> QED
    BY <2>1, <2>2, InitInv DEF SerialInv, RowsInOrder, ServedInv, FifoOrder, EntriesRight
<1> QED
  BY <1>1, StepSerial, PTL DEF RsSafe

(* One request at a time, through failed saves and restarts, the list is   *)
(* oldest first and between requests shows what is stored.                 *)
THEOREM ListIsExact == RsSafe => []SerialListExact
<1>1. SerialInv => SerialListExact
  BY DEF SerialInv, SerialListExact, EntriesRight, NoGhosts, RsQuiet
<1> QED
  BY <1>1, SerialInvariance, PTL
=============================================================================
