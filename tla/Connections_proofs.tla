------------------------- MODULE Connections_proofs -------------------------
(***************************************************************************)
(* Proofs about Connections and about the queue of Scheduler that it       *)
(* contains, for any requests, raw priorities, sessions and depth; the     *)
(* theorems about the queue speak of QueueSpec alone.                      *)
(*                                                                         *)
(* The queue: no request is lost or told twice, and the deque keeps the    *)
(* promise of SchedulerSpec.  The deque is reasoned about as the set of    *)
(* its items: sorting keeps it, the erase loops take what they are told    *)
(* out of it, and both leave the items in dispatch order, each id and each *)
(* number once (Distinct, Ordered).  What relates the set to fate is       *)
(* QueueInv; Numbered counts the requests that asked, which is what the    *)
(* numbers are drawn from.                                                 *)
(*                                                                         *)
(* The host: it uses the queue as Scheduler lets its callers (SchedRefines *)
(* and HostUsesScheduler).  EpochInv adds to EpochsAreCurrent who shares a *)
(* slot or a handle, and when a request's epoch is behind its slot's.      *)
(* OnceInv says in which one place a request is - unread, in a queue, in a *)
(* dispatcher's hand, owed by one thread, answered - so that no two of the *)
(* paths that end a request end the same one.                              *)
(***************************************************************************)
EXTENDS Connections, FiniteSetTheorems, SequenceTheorems, TLAPS

-----------------------------------------------------------------------------
(* Positions in an order                                                   *)

StrictTotal(K, R) ==
    /\ \A a \in K : <<a, a>> \notin R
    /\ \A a, b \in K : a = b \/ <<a, b>> \in R \/ <<b, a>> \in R
    /\ \A a, b, c \in K : <<a, b>> \in R /\ <<b, c>> \in R => <<a, c>> \in R

\* What InOrder is written for: it lists all of K, each once, in the order R.
LEMMA InOrderLists ==
    ASSUME NEW K, IsFiniteSet(K), NEW R, StrictTotal(K, R)
    PROVE  LET at == InOrder(K, R)
               N == Cardinality(K)
           IN  /\ N \in Nat /\ at \in [1 .. N -> K]
               /\ \A m, n \in 1 .. N : m < n => <<at[m], at[n]>> \in R
               /\ \A k \in K : \E n \in 1 .. N : at[n] = k
<1> DEFINE at == InOrder(K, R)
           N == Cardinality(K)
           Below(k) == {l \in K : <<l, k>> \in R}
           Rank == [k \in K |-> Cardinality(Below(k)) + 1]
<1>0. N \in Nat BY FS_CardinalityType
<1> HIDE DEF at, N
<1>1. \A k \in K : /\ IsFiniteSet(Below(k)) /\ Cardinality(Below(k)) \in Nat
                   /\ Cardinality(Below(k)) < N
  <2> TAKE k \in K
  <2>1. Below(k) \in SUBSET K /\ k \notin Below(k) BY DEF StrictTotal
  <2>2. Below(k) # K BY <2>1
  <2> HIDE DEF Below
  <2>3. IsFiniteSet(Below(k)) /\ Cardinality(Below(k)) <= N /\ Cardinality(Below(k)) # N
    BY <2>1, <2>2, FS_Subset DEF N
  <2> QED BY <2>3, <1>0, FS_CardinalityType
<1>2. Rank \in [K -> 1 .. N] BY <1>0, <1>1
<1>3. \A a, b \in K : <<a, b>> \in R => Rank[a] < Rank[b]
  <2> SUFFICES ASSUME NEW a \in K, NEW b \in K, <<a, b>> \in R PROVE Rank[a] < Rank[b]
    OBVIOUS
  <2>1. Below(a) \in SUBSET Below(b) BY DEF StrictTotal
  <2>2. a \in Below(b) /\ a \notin Below(a) BY DEF StrictTotal
  <2> HIDE DEF Below
  <2>3. Cardinality(Below(a)) <= Cardinality(Below(b)) /\ Cardinality(Below(a)) # Cardinality(Below(b))
    BY <2>1, <2>2, <1>1, FS_Subset
  <2> QED BY <2>3, <1>1
<1>4. \A a, b \in K : Rank[a] = Rank[b] => a = b
  <2> SUFFICES ASSUME NEW a \in K, NEW b \in K, Rank[a] = Rank[b] PROVE a = b OBVIOUS
  <2> HIDE DEF Rank
  <2>1. ~(Rank[a] < Rank[b]) /\ ~(Rank[b] < Rank[a]) BY <1>2
  <2>2. <<a, b>> \notin R /\ <<b, a>> \notin R BY <2>1, <1>3
  <2> QED BY <2>2 DEF StrictTotal
<1> HIDE DEF Rank
<1>5. \A n \in 1 .. N : \E k \in K : Rank[k] = n
  <2> SUFFICES ASSUME NEW n \in 1 .. N, \A k \in K : Rank[k] # n PROVE FALSE OBVIOUS
  <2>1. Rank \in [K -> (1 .. N) \ {n}] BY <1>2
  <2>2. IsFiniteSet((1 .. N) \ {n}) /\ Cardinality((1 .. N) \ {n}) = N - 1
    <3>1. IsFiniteSet(1 .. N) /\ Cardinality(1 .. N) = N BY <1>0, FS_Interval
    <3> QED BY <3>1, FS_RemoveElement
  <2>3. Cardinality((1 .. N) \ {n}) < Cardinality(K) BY <2>2, <1>0 DEF N
  <2> QED BY <2>1, <2>2, <2>3, <1>4, FS_PigeonHole
<1>6. \A n \in 1 .. N : at[n] \in K /\ Rank[at[n]] = n
  <2> TAKE n \in 1 .. N
  <2>1. at[n] = CHOOSE k \in K : Cardinality(Below(k)) = n - 1 BY DEF InOrder, at, N
  <2>2. \E k \in K : Cardinality(Below(k)) = n - 1 
    <3>1. PICK k \in K : Rank[k] = n BY <1>5
    <3>2. Cardinality(Below(k)) + 1 = n BY <3>1 DEF Rank
    <3>3. Cardinality(Below(k)) \in Nat BY <1>1
    <3> HIDE DEF Below
    <3> QED BY <3>2, <3>3
  <2> HIDE DEF Below
  <2>3. at[n] \in K /\ Cardinality(Below(at[n])) = n - 1 BY <2>1, <2>2
  <2> QED BY <2>3 DEF Rank
<1>7. at \in [1 .. N -> K] BY <1>6 DEF InOrder, at, N
<1>8. \A m, n \in 1 .. N : m < n => <<at[m], at[n]>> \in R
  <2> SUFFICES ASSUME NEW m \in 1 .. N, NEW n \in 1 .. N, m < n PROVE <<at[m], at[n]>> \in R
    OBVIOUS
  <2>1. at[m] \in K /\ at[n] \in K /\ Rank[at[m]] = m /\ Rank[at[n]] = n BY <1>6
  <2>2. ~(at[m] = at[n]) /\ ~(<<at[n], at[m]>> \in R) BY <2>1, <1>3
  <2> QED BY <2>1, <2>2 DEF StrictTotal
<1>9. \A k \in K : \E n \in 1 .. N : at[n] = k BY <1>2, <1>4, <1>6
<1> QED BY <1>0, <1>7, <1>8, <1>9 DEF at, N

-----------------------------------------------------------------------------
(* The deque                                                               *)

Distinct(s) ==
    \A k, l \in DOMAIN s : s[k].id = s[l].id \/ s[k].enqueue_seq = s[l].enqueue_seq => k = l
Ordered(s) == \A k, l \in DOMAIN s : k < l => OrderBefore(s[k], s[l])

Picked(s, at, N) == [n \in 1 .. N |-> s[at[n]]]

\* A choice of positions of s, no two the same and in dispatch order
LEMMA PickLemma ==
    ASSUME NEW s \in Seq(Item), Distinct(s), NEW N \in Nat, NEW at \in [1 .. N -> DOMAIN s],
           \A m, n \in 1 .. N : m < n => at[m] # at[n] /\ OrderBefore(s[at[m]], s[at[n]])
    PROVE  LET t == Picked(s, at, N)
           IN  t \in Seq(Item) /\ Len(t) = N /\ Distinct(t) /\ Ordered(t)
<1> DEFINE t == Picked(s, at, N)
<1>0. \A n \in 1 .. N : t[n] = s[at[n]] BY DEF Picked
<1>1. t \in [1 .. N -> Item] BY LenProperties DEF Picked
<1> HIDE DEF t
<1>2. t \in Seq(Item) BY <1>1, SMT
<1>3. Len(t) = N /\ DOMAIN t = 1 .. N BY <1>1, <1>2, LenProperties
<1>4. Distinct(t)
  <2> SUFFICES ASSUME NEW m \in 1 .. N, NEW n \in 1 .. N,
                      t[m].id = t[n].id \/ t[m].enqueue_seq = t[n].enqueue_seq
               PROVE  m = n
    BY <1>3 DEF Distinct
  <2>1. at[m] = at[n] BY <1>0 DEF Distinct
  <2> QED BY <2>1
<1>5. Ordered(t) BY <1>0, <1>3 DEF Ordered
<1> QED BY <1>2, <1>3, <1>4, <1>5 DEF t

\* std::sort keeps the items and leaves them in dispatch order.
LEMMA SortedLemma ==
    ASSUME NEW s \in Seq(Item), Distinct(s)
    PROVE  /\ Sorted(s) \in Seq(Item) /\ Len(Sorted(s)) = Len(s) /\ ToSet(Sorted(s)) = ToSet(s)
           /\ Distinct(Sorted(s)) /\ Ordered(Sorted(s))
<1> DEFINE D == DOMAIN s
           N == Len(s)
           R == {p \in D \X D : OrderBefore(s[p[1]], s[p[2]])}
           at == InOrder(D, R)
<1>1. N \in Nat /\ D = 1 .. N /\ IsFiniteSet(D) /\ Cardinality(D) = N
  <2>1. N \in Nat /\ D = 1 .. N BY LenProperties
  <2> QED BY <2>1, FS_Interval
<1>2. \A k \in D : s[k] \in Item BY <1>1, ElementOfSeq
<1>3. \A k, l \in D : <<k, l>> \in R <=> OrderBefore(s[k], s[l]) OBVIOUS
<1>4. StrictTotal(D, R)
  <2>0. \A it \in Item : it.priority \in Int /\ it.enqueue_seq \in Int BY DEF Item
  <2> DEFINE P(k) == s[k].priority
             Q(k) == s[k].enqueue_seq
  <2>a. \A k, l \in D : <<k, l>> \in R <=> P(k) < P(l) \/ (P(k) = P(l) /\ Q(k) < Q(l))
    BY <1>3 DEF OrderBefore
  <2>b. \A k, l \in D : Q(k) = Q(l) => k = l BY DEF Distinct
  <2>c. \A k \in D : P(k) \in Int /\ Q(k) \in Int BY <1>2, <2>0
  <2> HIDE DEF R, P, Q, D, N, at
  <2>1. \A a \in D : <<a, a>> \notin R BY <2>a, <2>c
  <2>2. \A a, b \in D : a = b \/ <<a, b>> \in R \/ <<b, a>> \in R
    <3> TAKE a, b \in D
    <3>1. P(a) < P(b) \/ P(b) < P(a) \/ P(a) = P(b) BY <2>c
    <3>2. Q(a) < Q(b) \/ Q(b) < Q(a) \/ Q(a) = Q(b) BY <2>c
    <3> QED BY <3>1, <3>2, <2>a, <2>b, Zenon
  <2>3. \A a, b, c \in D : <<a, b>> \in R /\ <<b, c>> \in R => <<a, c>> \in R BY <2>a, <2>c
  <2> QED BY <2>1, <2>2, <2>3 DEF StrictTotal
<1> HIDE DEF D, R, N
<1>5. /\ at \in [1 .. N -> D]
      /\ \A m, n \in 1 .. N : m < n => <<at[m], at[n]>> \in R
      /\ \A k \in D : \E n \in 1 .. N : at[n] = k
  <2>1. Cardinality(D) = N BY <1>1
  <2>2. /\ at \in [1 .. Cardinality(D) -> D]
        /\ \A m, n \in 1 .. Cardinality(D) : m < n => <<at[m], at[n]>> \in R
        /\ \A k \in D : \E n \in 1 .. Cardinality(D) : at[n] = k
    <3>1. IsFiniteSet(D) BY <1>1
    <3> QED BY <3>1, <1>4, InOrderLists
  <2> QED BY <2>1, <2>2
<1>6. Sorted(s) = Picked(s, at, N) BY <1>1 DEF Sorted, Picked, R, D
<1> HIDE DEF at
<1>7. \A m, n \in 1 .. N : m < n => at[m] # at[n] /\ OrderBefore(s[at[m]], s[at[n]])
  BY <1>3, <1>4, <1>5 DEF StrictTotal
<1>8. /\ Sorted(s) \in Seq(Item) /\ Len(Sorted(s)) = N
      /\ Distinct(Sorted(s)) /\ Ordered(Sorted(s))
  <2>1. at \in [1 .. N -> DOMAIN s] BY <1>5 DEF D
  <2>2. N \in Nat BY <1>1
  <2> QED BY <2>1, <2>2, <1>6, <1>7, PickLemma
<1>9. ToSet(Sorted(s)) = ToSet(s)
  <2>1. DOMAIN Sorted(s) = 1 .. N BY <1>6 DEF Picked
  <2>2. \A n \in 1 .. N : Sorted(s)[n] = s[at[n]] BY <1>6 DEF Picked
  <2> QED BY <2>1, <2>2, <1>5 DEF ToSet, D
<1> QED BY <1>8, <1>9 DEF N

\* The erase loops leave the other items, in dispatch order as before.
LEMMA WithoutLemma ==
    ASSUME items \in Seq(Item), Distinct(items), Ordered(items), NEW G
    PROVE  /\ Without(G) \in Seq(Item) /\ Len(Without(G)) <= Len(items)
           /\ ToSet(Without(G)) = ToSet(items) \ G
           /\ Distinct(Without(G)) /\ Ordered(Without(G))
<1> DEFINE K == {k \in DOMAIN items : items[k] \notin G}
           R == {p \in K \X K : p[1] < p[2]}
           N == Cardinality(K)
           at == InOrder(K, R)
<1>1. DOMAIN items = 1 .. Len(items) /\ Len(items) \in Nat BY LenProperties
<1>2. IsFiniteSet(K) /\ N \in Nat /\ N <= Len(items)
  <2>1. IsFiniteSet(1 .. Len(items)) /\ Cardinality(1 .. Len(items)) = Len(items)
    BY <1>1, FS_Interval
  <2>2. K \in SUBSET (1 .. Len(items)) BY <1>1
  <2> QED BY <2>1, <2>2, FS_Subset, FS_CardinalityType
<1>3. \A k, l \in K : <<k, l>> \in R <=> k < l OBVIOUS
<1>4. StrictTotal(K, R) /\ K \subseteq DOMAIN items
  <2>1. K \subseteq Int BY <1>1
  <2> HIDE DEF K, R
  <2>2. StrictTotal(K, R) BY <2>1, <1>3 DEF StrictTotal
  <2> QED BY <2>2 DEF K
<1>5. /\ at \in [1 .. N -> K]
      /\ \A m, n \in 1 .. N : m < n => <<at[m], at[n]>> \in R
      /\ \A k \in K : \E n \in 1 .. N : at[n] = k
  <2> HIDE DEF K, R
  <2> QED BY <1>2, <1>4, InOrderLists
<1>6. Without(G) = Picked(items, at, N) BY <1>5 DEF Without, Part, Picked
<1>7. \A m, n \in 1 .. N : m < n => at[m] # at[n] /\ OrderBefore(items[at[m]], items[at[n]])
  <2> SUFFICES ASSUME NEW m \in 1 .. N, NEW n \in 1 .. N, m < n
               PROVE  at[m] # at[n] /\ OrderBefore(items[at[m]], items[at[n]])
    OBVIOUS
  <2>1. at[m] \in DOMAIN items /\ at[n] \in DOMAIN items /\ at[m] < at[n] BY <1>3, <1>4, <1>5
  <2> HIDE DEF at
  <2> QED BY <2>1, <1>1 DEF Ordered
<1>8. at \in [1 .. N -> DOMAIN items] BY <1>4, <1>5
<1>9. /\ Without(G) \in Seq(Item) /\ Len(Without(G)) = N
      /\ Distinct(Without(G)) /\ Ordered(Without(G))
  <2> HIDE DEF at, N, K, R
  <2> QED BY <1>2, <1>6, <1>7, <1>8, PickLemma
<1>10. ToSet(Without(G)) = ToSet(items) \ G
  <2>1. DOMAIN Without(G) = 1 .. N BY <1>6 DEF Picked
  <2>2. \A n \in 1 .. N : Without(G)[n] = items[at[n]] BY <1>6 DEF Picked
  <2>3. \A k \in DOMAIN items : items[k] \notin G <=> k \in K OBVIOUS
  <2> HIDE DEF at, N, K
  <2> QED BY <2>1, <2>2, <2>3, <1>4, <1>5 DEF ToSet
<1> QED BY <1>2, <1>9, <1>10

-----------------------------------------------------------------------------
(* The invariant                                                           *)

Asked == {i \in Ids : fate[i] # "new"}

\* Who is told to wait, waits; the numbers drawn so far are those of the requests
QueueInv ==
    /\ Distinct(items) /\ Ordered(items)
    /\ \A i \in Ids : fate[i] = "queued" <=> \E it \in ToSet(items) : it.id = i
    /\ \A it \in ToSet(items) : it.enqueue_seq < next_seq
Numbered == IsFiniteSet(Asked) /\ next_seq = 1 + Cardinality(Asked)

SchedInv == QueueTypeOK /\ QueueInv /\ Numbered

\* The empty queue satisfies the invariant.
LEMMA SchedInit == QueueInit => SchedInv
<1> SUFFICES ASSUME QueueInit PROVE SchedInv OBVIOUS
<1>1. items = <<>> /\ DOMAIN items = {} /\ ToSet(items) = {} BY DEF QueueInit, ToSet
<1>2. QueueTypeOK BY DepthAssumption, EmptySeq DEF QueueInit, QueueTypeOK, Fates
<1>3. QueueInv BY <1>1 DEF QueueInv, Distinct, Ordered, QueueInit
<1>4. Asked = {} BY DEF QueueInit, Asked
<1>5. Numbered BY <1>4, FS_EmptySet DEF Numbered, QueueInit
<1> QED BY <1>2, <1>3, <1>5 DEF SchedInv

\* A sequence and the set of its elements
LEMMA ToSetLemma ==
    ASSUME NEW S, NEW s \in Seq(S)
    PROVE  /\ ToSet(s) \subseteq S /\ DOMAIN s = 1 .. Len(s) /\ Len(s) \in Nat
           /\ \A k \in DOMAIN s : s[k] \in ToSet(s) /\ s[k] \in S
           /\ \A x \in ToSet(s) : \E k \in DOMAIN s : s[k] = x
BY ElementOfSeq, LenProperties DEF ToSet

\* The count of the requests that asked, when one more asks
LEMMA AskLemma ==
    ASSUME SchedInv, NEW i \in Ids, fate[i] = "new", fate'[i] # "new",
           \A j \in Ids \ {i} : fate[j] = "new" <=> fate'[j] = "new",
           next_seq' = next_seq + 1
    PROVE  Numbered' /\ next_seq' \in Nat \ {0}
<1>1. Asked' = Asked \cup {i} /\ i \notin Asked BY DEF Asked
<1>2. IsFiniteSet(Asked) /\ next_seq = 1 + Cardinality(Asked) /\ next_seq \in Nat
  BY DEF Numbered, SchedInv, QueueTypeOK
<1>3. IsFiniteSet(Asked') /\ Cardinality(Asked') = Cardinality(Asked) + 1
  BY <1>1, <1>2, FS_AddElement
<1>4. Cardinality(Asked) \in Nat BY <1>2, FS_CardinalityType
<1> QED BY <1>2, <1>3, <1>4 DEF Numbered

\* ... and when none does
LEMMA KeepLemma ==
    ASSUME SchedInv, \A j \in Ids : fate[j] = "new" <=> fate'[j] = "new", next_seq' = next_seq
    PROVE  Numbered'
<1>1. Asked' = Asked BY DEF Asked
<1> QED BY <1>1 DEF Numbered, SchedInv

\* A newcomer shares neither id nor number with a waiting item.
LEMMA NewcomerLemma ==
    ASSUME SchedInv, NEW i \in Ids, fate[i] = "new", NEW p \in Int, NEW drop \in BOOLEAN,
           NEW sess \in Sessions \cup {0}
    PROVE  /\ Request(i, p, drop, sess) \in Item
           /\ \A it \in ToSet(items) : it.id # i /\ it.enqueue_seq < next_seq
           /\ Request(i, p, drop, sess).id = i /\ Request(i, p, drop, sess).enqueue_seq = next_seq
<1>1. Clamp(p) \in 0 .. 9 BY DEF Clamp
<1> QED BY <1>1 DEF Request, Item, SchedInv, QueueInv, QueueTypeOK

\* TryEnqueue with a free slot adds the newcomer.
LEMMA EnqueueLemma ==
    ASSUME SchedInv, NEW i \in Ids, NEW p \in Priorities, NEW drop \in BOOLEAN,
           NEW sess \in Sessions \cup {0}, Enqueue(i, p, drop, sess)
    PROVE  SchedInv' /\ ToSet(items') = ToSet(items) \cup {Request(i, p, drop, sess)}
<1> DEFINE r == Request(i, p, drop, sess)
           s == Append(items, r)
<1>0. p \in Int /\ fate[i] = "new" BY InputsAssumption DEF Enqueue
<1>1. r \in Item /\ r.id = i /\ r.enqueue_seq = next_seq
      /\ \A it \in ToSet(items) : it.id # i /\ it.enqueue_seq < next_seq
  BY <1>0, NewcomerLemma
<1>2. items \in Seq(Item) /\ Distinct(items) /\ next_seq \in Nat BY DEF SchedInv, QueueInv, QueueTypeOK
<1> HIDE DEF r
<1>3. /\ s \in Seq(Item) /\ Len(s) = Len(items) + 1 /\ DOMAIN s = 1 .. Len(items) + 1
      /\ \A k \in 1 .. Len(items) : s[k] = items[k]
      /\ s[Len(items) + 1] = r /\ Len(items) \in Nat /\ DOMAIN items = 1 .. Len(items)
  BY <1>1, <1>2, AppendProperties, LenProperties
<1> HIDE DEF s
<1>4. ToSet(s) = ToSet(items) \cup {r} BY <1>3 DEF ToSet
<1>5. \A k \in DOMAIN items : items[k].id # i /\ items[k].enqueue_seq < next_seq
  BY <1>1 DEF ToSet
<1>6. Distinct(s)
  <2> SUFFICES ASSUME NEW k \in DOMAIN s, NEW l \in DOMAIN s, k < l,
                      s[k].id = s[l].id \/ s[k].enqueue_seq = s[l].enqueue_seq
               PROVE  FALSE
    BY <1>3 DEF Distinct
  <2>1. k \in DOMAIN items /\ s[k] = items[k] BY <1>3
  <2>2. CASE l \in DOMAIN items BY <2>1, <2>2, <1>2, <1>3 DEF Distinct
  <2>3. CASE l = Len(items) + 1 BY <2>1, <2>3, <1>1, <1>2, <1>3, <1>5
  <2> QED BY <2>2, <2>3, <1>3
<1>7. items' = Sorted(s) /\ next_seq' = next_seq + 1 /\ late' = late
      /\ fate' = [fate EXCEPT ![i] = "queued"] /\ Len(items) < Depth
  BY DEF Enqueue, s, r
<1>8. /\ items' \in Seq(Item) /\ Len(items') = Len(items) + 1
      /\ ToSet(items') = ToSet(items) \cup {r} /\ Distinct(items') /\ Ordered(items')
  BY <1>3, <1>4, <1>6, <1>7, SortedLemma
<1>9. Numbered' /\ next_seq' \in Nat \ {0} BY <1>0, <1>7, AskLemma DEF SchedInv, QueueTypeOK
<1>10. QueueTypeOK' BY <1>3, <1>7, <1>8, <1>9, DepthAssumption DEF SchedInv, QueueTypeOK, Fates
<1>11. \A j \in Ids : fate'[j] = "queued" <=> \E it \in ToSet(items') : it.id = j
  BY <1>1, <1>7, <1>8 DEF SchedInv, QueueInv, QueueTypeOK
<1>12. \A it \in ToSet(items') : it.enqueue_seq < next_seq'
  <2>1. \A it \in ToSet(items) \cup {r} : it.enqueue_seq \in Int /\ it.enqueue_seq <= next_seq
    <3>1. \A it \in Item : it.enqueue_seq \in Int BY DEF Item
    <3>2. ToSet(items) \subseteq Item BY <1>2, ToSetLemma
    <3> QED BY <3>1, <3>2, <1>1, <1>2
  <2> QED BY <2>1, <1>2, <1>7, <1>8
<1> QED BY <1>8, <1>9, <1>10, <1>11, <1>12 DEF SchedInv, QueueInv, r

\* std::find_if finds a droppable resident when there is one.
LEMMA VictimLemma ==
    ASSUME items \in Seq(Item), Eligible # {}
    PROVE  Victim \in DOMAIN items /\ items[Victim].drop_eligible
<1> DEFINE R == {p \in Eligible \X Eligible : p[1] < p[2]}
           N == Cardinality(Eligible)
           at == InOrder(Eligible, R)
<1>1. Eligible \in SUBSET (1 .. Len(items)) /\ Len(items) \in Nat
  BY LenProperties DEF Eligible
<1>2. Eligible \subseteq Int /\ IsFiniteSet(Eligible)
  <2>1. IsFiniteSet(1 .. Len(items)) BY <1>1, FS_Interval
  <2>2. IsFiniteSet(Eligible) BY <1>1, <2>1, FS_Subset
  <2>3. Eligible \subseteq Int BY <1>1
  <2> QED BY <2>2, <2>3
<1>3. \A k, l \in Eligible : <<k, l>> \in R <=> k < l OBVIOUS
<1>4. StrictTotal(Eligible, R)
  <2> HIDE DEF R
  <2> QED BY <1>2, <1>3 DEF StrictTotal
<1>5. /\ N \in Nat /\ at \in [1 .. N -> Eligible]
      /\ \A m, n \in 1 .. N : m < n => <<at[m], at[n]>> \in R
      /\ \A k \in Eligible : \E n \in 1 .. N : at[n] = k
  <2> HIDE DEF R
  <2> QED BY <1>2, <1>4, InOrderLists
<1> HIDE DEF R, N, at
<1>6. 1 \in 1 .. N BY <1>5
<1>7. \A l \in Eligible : at[1] <= l
  <2> TAKE l \in Eligible
  <2>1. PICK n \in 1 .. N : at[n] = l BY <1>5
  <2>2. CASE n = 1 BY <2>1, <2>2, <1>2
  <2>3. CASE 1 < n
    <3>1. <<at[1], l>> \in R /\ at[1] \in Eligible BY <2>1, <2>3, <1>5, <1>6
    <3>2. at[1] < l BY <3>1, <1>3
    <3>3. at[1] \in Int /\ l \in Int BY <3>1, <1>2
    <3> QED BY <3>2, <3>3
  <2> QED BY <2>2, <2>3, <1>5
<1>8. at[1] \in Eligible BY <1>5, <1>6
<1>9. Victim \in Eligible BY <1>7, <1>8 DEF Victim
<1> QED BY <1>9 DEF Eligible

\* BusyDroppedOld: the newcomer stands for the victim, who is told.
LEMMA EvictLemma ==
    ASSUME SchedInv, NEW i \in Ids, NEW p \in Priorities, NEW sess \in Sessions \cup {0},
           EnqueueEvict(i, p, sess)
    PROVE  /\ SchedInv' /\ items[Victim] \in ToSet(items) /\ items[Victim].drop_eligible
           /\ ToSet(items') = (ToSet(items) \ {items[Victim]}) \cup {Request(i, p, TRUE, sess)}
<1> DEFINE r == Request(i, p, TRUE, sess)
           v == Victim
           old == items[v]
           s == [items EXCEPT ![v] = r]
<1>0. p \in Int /\ fate[i] = "new" /\ Eligible # {} BY InputsAssumption DEF EnqueueEvict
<1>1. r \in Item /\ r.id = i /\ r.enqueue_seq = next_seq
      /\ \A it \in ToSet(items) : it.id # i /\ it.enqueue_seq < next_seq
  BY <1>0, NewcomerLemma
<1>2. items \in Seq(Item) /\ Distinct(items) /\ next_seq \in Nat BY DEF SchedInv, QueueInv, QueueTypeOK
<1>3. v \in DOMAIN items /\ old.drop_eligible BY <1>0, <1>2, VictimLemma
<1> HIDE DEF r, v
<1>4. /\ s \in Seq(Item) /\ Len(s) = Len(items) /\ DOMAIN s = DOMAIN items
      /\ DOMAIN items = 1 .. Len(items) /\ Len(items) \in Nat
      /\ \A k \in DOMAIN items : s[k] = IF k = v THEN r ELSE items[k]
  BY <1>1, <1>2, <1>3, ExceptSeq, LenProperties
<1> HIDE DEF s
<1>5. \A k \in DOMAIN items : items[k].id # i /\ items[k].enqueue_seq < next_seq
                              /\ items[k] \in Item
  BY <1>1, <1>2, <1>4, ElementOfSeq DEF ToSet
<1>6. \A k \in DOMAIN items : items[k] = old => k = v BY <1>2, <1>3 DEF Distinct
<1>7. ToSet(s) = (ToSet(items) \ {old}) \cup {r}
  <2>1. r \in ToSet(s) /\ \A x \in ToSet(s) : x \in (ToSet(items) \ {old}) \cup {r}
    BY <1>3, <1>4, <1>6 DEF ToSet
  <2>2. \A x \in ToSet(items) \ {old} : x \in ToSet(s) BY <1>3, <1>4 DEF ToSet
  <2> QED BY <2>1, <2>2
<1>8. Distinct(s)
  <2> SUFFICES ASSUME NEW k \in DOMAIN items, NEW l \in DOMAIN items,
                      s[k].id = s[l].id \/ s[k].enqueue_seq = s[l].enqueue_seq
               PROVE  k = l
    BY <1>4 DEF Distinct
  <2>0. items[k].enqueue_seq # next_seq /\ items[l].enqueue_seq # next_seq BY <1>5, <1>2
  <2>1. CASE k # v /\ l # v BY <2>1, <1>2, <1>4 DEF Distinct
  <2>2. CASE k = v /\ l # v BY <2>0, <2>2, <1>1, <1>4, <1>5
  <2>3. CASE k # v /\ l = v BY <2>0, <2>3, <1>1, <1>4, <1>5
  <2> QED BY <2>1, <2>2, <2>3
<1>9. items' = Sorted(s) /\ next_seq' = next_seq + 1 /\ late' = late
      /\ fate' = [fate EXCEPT ![i] = "queued", ![old.id] = "busy"] /\ Len(items) = Depth
  BY DEF EnqueueEvict, s, r, v
<1>10. /\ items' \in Seq(Item) /\ Len(items') = Len(items)
       /\ ToSet(items') = (ToSet(items) \ {old}) \cup {r} /\ Distinct(items') /\ Ordered(items')
  BY <1>4, <1>7, <1>8, <1>9, SortedLemma
<1>11. old.id \in Ids /\ old.id # i /\ old \in ToSet(items) /\ fate[old.id] = "queued"
  <2>1. old \in ToSet(items) /\ old.id # i BY <1>3, <1>5 DEF ToSet
  <2>2. old.id \in Ids BY <1>3, <1>5 DEF Item
  <2> QED BY <2>1, <2>2 DEF SchedInv, QueueInv
<1>12. fate \in [Ids -> Fates] BY DEF SchedInv, QueueTypeOK
<1>13. Numbered' /\ next_seq' \in Nat \ {0}
  <2>1. fate'[i] # "new" /\ \A j \in Ids \ {i} : fate[j] = "new" <=> fate'[j] = "new"
    BY <1>9, <1>11, <1>12
  <2> QED BY <1>0, <1>9, <2>1, AskLemma
<1>14. QueueTypeOK' BY <1>9, <1>10, <1>12, <1>13, <1>4 DEF SchedInv, QueueTypeOK, Fates
<1>15. \A j \in Ids : fate'[j] = "queued" <=> \E it \in ToSet(items') : it.id = j
  <2>1. \A it \in ToSet(items) : it.id = old.id => it = old
    BY <1>2, <1>3 DEF Distinct, ToSet
  <2>2. \A j \in Ids : fate[j] = "queued" <=> \E it \in ToSet(items) : it.id = j
    BY DEF SchedInv, QueueInv
  <2>3. TAKE j \in Ids
  <2> HIDE DEF old
  <2>4. CASE j = i BY <2>4, <1>1, <1>9, <1>10, <1>11, <1>12
  <2>5. CASE j = old.id
    <3>1. fate'[j] = "busy" BY <2>5, <1>9, <1>11, <1>12
    <3>2. \A it \in ToSet(items') : it.id # j BY <2>1, <2>5, <1>1, <1>10, <1>11
    <3> QED BY <3>1, <3>2
  <2>6. CASE j # i /\ j # old.id
    <3>1. fate'[j] = fate[j] BY <2>6, <1>9, <1>11, <1>12
    <3>2. (\E it \in ToSet(items') : it.id = j) <=> (\E it \in ToSet(items) : it.id = j)
      BY <2>6, <1>1, <1>10
    <3> QED BY <3>1, <3>2, <2>2
  <2> QED BY <2>4, <2>5, <2>6
<1>16. \A it \in ToSet(items') : it.enqueue_seq < next_seq'
  <2>1. \A it \in ToSet(items) \cup {r} : it.enqueue_seq \in Int /\ it.enqueue_seq <= next_seq
    <3>1. \A it \in Item : it.enqueue_seq \in Int BY DEF Item
    <3>2. ToSet(items) \subseteq Item BY <1>2, ToSetLemma
    <3> QED BY <3>1, <3>2, <1>1, <1>2
  <2> QED BY <2>1, <1>2, <1>9, <1>10
<1> QED BY <1>3, <1>10, <1>11, <1>13, <1>14, <1>15, <1>16 DEF SchedInv, QueueInv, r, v

\* BusyOverflow draws a number and changes nothing else in the queue.
LEMMA RefusedLemma ==
    ASSUME SchedInv, NEW i \in Ids, NEW drop \in BOOLEAN, EnqueueRefused(i, drop)
    PROVE  SchedInv'
<1>1. /\ fate[i] = "new" /\ next_seq' = next_seq + 1 /\ fate' = [fate EXCEPT ![i] = "busy"]
      /\ items' = items /\ late' = late
  BY DEF EnqueueRefused
<1>2. fate \in [Ids -> Fates] /\ next_seq \in Nat BY DEF SchedInv, QueueTypeOK
<1>3. Numbered' /\ next_seq' \in Nat \ {0} BY <1>1, <1>2, AskLemma
<1>4. QueueTypeOK' BY <1>1, <1>2, <1>3 DEF SchedInv, QueueTypeOK, Fates
<1>5. \A it \in ToSet(items') : it.enqueue_seq < next_seq'
  <2>1. \A it \in Item : it.enqueue_seq \in Int BY DEF Item
  <2>2. ToSet(items) \subseteq Item BY ToSetLemma DEF SchedInv, QueueTypeOK
  <2>3. \A it \in ToSet(items) : it.enqueue_seq < next_seq BY DEF SchedInv, QueueInv
  <2> QED BY <2>1, <2>2, <2>3, <1>1, <1>2
<1>6. \A j \in Ids : fate'[j] = "queued" <=> fate[j] = "queued" BY <1>1, <1>2
<1>7. QueueInv' BY <1>1, <1>5, <1>6 DEF SchedInv, QueueInv
<1> QED BY <1>3, <1>4, <1>7 DEF SchedInv

\* Items that leave, each told the same
LEMMA RemovalLemma ==
    ASSUME SchedInv, NEW G \in SUBSET ToSet(items), NEW how \in Fates \ {"new", "queued"},
           items' \in Seq(Item), Len(items') <= Len(items), Distinct(items'), Ordered(items'),
           ToSet(items') = ToSet(items) \ G, Told(G, how), UNCHANGED <<next_seq, late>>
    PROVE  SchedInv'
<1>1. fate \in [Ids -> Fates] /\ items \in Seq(Item) /\ Distinct(items) /\ next_seq \in Nat
  BY DEF SchedInv, QueueTypeOK, QueueInv
<1>2. \A j \in Ids : fate[j] = "queued" <=> \E it \in ToSet(items) : it.id = j
  BY DEF SchedInv, QueueInv
<1>3. \A it, other \in ToSet(items) : it.id = other.id => it = other BY <1>1 DEF Distinct, ToSet
<1>4. \A j \in Ids : fate'[j] = IF \E it \in G : it.id = j THEN how ELSE fate[j] BY DEF Told
<1>5. Numbered' BY <1>2, <1>4, KeepLemma
<1>6. \A j \in Ids : fate'[j] = "queued" <=> \E it \in ToSet(items') : it.id = j
  BY <1>2, <1>3, <1>4
<1>7. QueueTypeOK'
  <2>1. fate' \in [Ids -> Fates] BY <1>1 DEF Told
  <2>2. Len(items') \in Int /\ Len(items) \in Int BY <1>1, LenProperties
  <2> QED BY <2>1, <2>2, DepthAssumption DEF SchedInv, QueueTypeOK
<1>8. QueueInv' BY <1>6 DEF SchedInv, QueueInv
<1> QED BY <1>5, <1>7, <1>8 DEF SchedInv

\* Pop takes the head, dispatched or told that it is late.
LEMMA PopLemma ==
    ASSUME SchedInv, Pop
    PROVE  /\ SchedInv' /\ Head(items) = items[1] /\ items[1] \in ToSet(items)
           /\ ToSet(items') = ToSet(items) \ {items[1]} /\ 1 \in DOMAIN items
           /\ Told({items[1]}, IF items[1].id \in late THEN "timeout" ELSE "dispatched")
<1> DEFINE h == items[1]
<1>1. items \in Seq(Item) /\ items # <<>> /\ items' = Tail(items) /\ Distinct(items) /\ Ordered(items)
  BY DEF SchedInv, QueueTypeOK, QueueInv, Pop
<1>2. /\ Head(items) = h /\ items' \in Seq(Item) /\ Len(items') = Len(items) - 1
      /\ DOMAIN items = 1 .. Len(items) /\ DOMAIN items' = 1 .. Len(items')
      /\ Len(items) \in Nat \ {0}
      /\ \A k \in DOMAIN items' : items'[k] = items[k + 1]
  <2>1. Len(items) \in Nat \ {0} BY <1>1, EmptySeq
  <2>2. /\ items' \in Seq(Item) /\ Len(items') = Len(items) - 1
        /\ \A k \in 1 .. Len(items') : items'[k] = items[k + 1]
    BY <1>1, HeadTailProperties
  <2>3. DOMAIN items' = 1 .. Len(items') /\ DOMAIN items = 1 .. Len(items)
    BY <1>1, <2>2, LenProperties
  <2> QED BY <1>1, <2>1, <2>2, <2>3
<1>3. 1 \in DOMAIN items /\ h \in ToSet(items) /\ h \in Item BY <1>1, <1>2, ElementOfSeq DEF ToSet
<1>4. \A k \in DOMAIN items' : k + 1 \in DOMAIN items /\ k + 1 # 1 BY <1>2
<1>5. \A k \in DOMAIN items : k # 1 => k - 1 \in DOMAIN items' /\ items'[k - 1] = items[k]
  <2> TAKE k \in DOMAIN items
  <2> HAVE k # 1
  <2>1. k - 1 \in DOMAIN items' BY <1>2
  <2>2. (k - 1) + 1 = k BY <1>2
  <2> QED BY <2>1, <2>2, <1>2
<1>6. \A k \in DOMAIN items : items[k] = h => k = 1 BY <1>1, <1>3 DEF Distinct
<1>7. ToSet(items') = ToSet(items) \ {h}
  <2>1. \A x \in ToSet(items') : x \in ToSet(items) \ {h} BY <1>2, <1>4, <1>6 DEF ToSet
  <2>2. \A x \in ToSet(items) \ {h} : x \in ToSet(items') BY <1>5 DEF ToSet
  <2> QED BY <2>1, <2>2
<1>8. Distinct(items')
  <2> SUFFICES ASSUME NEW k \in DOMAIN items', NEW l \in DOMAIN items',
                      items'[k].id = items'[l].id \/ items'[k].enqueue_seq = items'[l].enqueue_seq
               PROVE  k = l
    BY DEF Distinct
  <2>1. k + 1 = l + 1 BY <1>1, <1>2, <1>4 DEF Distinct
  <2> QED BY <2>1, <1>2
<1>9. Ordered(items')
  <2> SUFFICES ASSUME NEW k \in DOMAIN items', NEW l \in DOMAIN items', k < l
               PROVE  OrderBefore(items'[k], items'[l])
    BY DEF Ordered
  <2>1. k + 1 < l + 1 BY <1>2
  <2> QED BY <2>1, <1>1, <1>2, <1>4 DEF Ordered
<1> DEFINE how == IF h.id \in late THEN "timeout" ELSE "dispatched"
<1>10. Told({h}, how)
  <2>1. fate' = [fate EXCEPT ![h.id] = how] BY <1>2 DEF Pop
  <2>2. fate \in [Ids -> Fates] BY DEF SchedInv, QueueTypeOK
  <2> QED BY <2>1, <2>2 DEF Told
<1>11. how \in Fates \ {"new", "queued"} BY DEF Fates
<1>12. UNCHANGED <<next_seq, late>> BY DEF Pop
<1> HIDE DEF how
<1>13. SchedInv' BY <1>2, <1>3, <1>7, <1>8, <1>9, <1>10, <1>11, <1>12, RemovalLemma
<1> QED BY <1>2, <1>3, <1>7, <1>10, <1>13 DEF how

\* ReaperPass and DropSession take out all they tell.
LEMMA DropLemma ==
    ASSUME SchedInv, NEW G \in SUBSET ToSet(items), NEW how \in Fates \ {"new", "queued"},
           items' = Without(G), Told(G, how), UNCHANGED <<next_seq, late>>
    PROVE  SchedInv' /\ ToSet(items') = ToSet(items) \ G
<1>1. items \in Seq(Item) /\ Distinct(items) /\ Ordered(items) BY DEF SchedInv, QueueTypeOK, QueueInv
<1>2. /\ items' \in Seq(Item) /\ Len(items') <= Len(items) /\ ToSet(items') = ToSet(items) \ G
      /\ Distinct(items') /\ Ordered(items')
  BY <1>1, WithoutLemma
<1> QED BY <1>2, RemovalLemma

\* A deadline that passes touches no item.
LEMMA DeadlineLemma ==
    ASSUME SchedInv, NEW i \in Ids, DeadlinePasses(i)
    PROVE  SchedInv'
BY DEF DeadlinePasses, SchedInv, QueueTypeOK, QueueInv, Numbered, Asked

\* Every step keeps the invariant.
LEMMA SchedNext == SchedInv /\ [QueueNext]_scheduler => SchedInv'
<1> SUFFICES ASSUME SchedInv, [QueueNext]_scheduler PROVE SchedInv' OBVIOUS
<1>1. CASE UNCHANGED scheduler
  BY <1>1 DEF scheduler, SchedInv, QueueTypeOK, QueueInv, Numbered, Asked
<1>2. ASSUME NEW i \in Ids, Arrivals(i) PROVE SchedInv'
  BY <1>2, EvictLemma, EnqueueLemma DEF Arrivals
<1>3. ASSUME NEW i \in Ids, DeadlinePasses(i) PROVE SchedInv'
  BY <1>3, DeadlineLemma
<1>4. ASSUME NEW i \in Ids, NEW drop \in BOOLEAN, EnqueueRefused(i, drop) PROVE SchedInv'
  BY <1>4, RefusedLemma
<1>5. CASE Pop BY <1>5, PopLemma
<1>6. CASE ReaperPass
  BY <1>6, DropLemma DEF ReaperPass, Expired, Fates
<1>7. ASSUME NEW s \in Sessions, DropSession(s) PROVE SchedInv'
  BY <1>7, DropLemma DEF DropSession, OfSession, Fates
<1> QED BY <1>1, <1>2, <1>3, <1>4, <1>5, <1>6, <1>7 DEF QueueNext

\* Who is told to wait is in the deque once, and the deque is sorted, after any
\* history of arrivals, replacements, expiries and teardowns.
THEOREM SchedInvariance == QueueSpec => []SchedInv
<1>1. QueueInit => SchedInv BY SchedInit
<1>2. SchedInv /\ [QueueNext]_scheduler => SchedInv' BY SchedNext
<1> QED BY <1>1, <1>2, PTL DEF QueueSpec

\* One item of an id, or none
LEMMA OnceLemma == SchedInv => NothingLost
<1> SUFFICES ASSUME SchedInv, NEW i \in Ids
             PROVE  Cardinality({k \in DOMAIN items : items[k].id = i}) =
                        IF fate[i] = "queued" THEN 1 ELSE 0
  BY DEF NothingLost, SchedInv
<1>1. Distinct(items) /\ (fate[i] = "queued" <=> \E it \in ToSet(items) : it.id = i)
  BY DEF SchedInv, QueueInv
<1>2. CASE fate[i] = "queued"
  <2>1. PICK k \in DOMAIN items : items[k].id = i BY <1>1, <1>2 DEF ToSet
  <2>2. {l \in DOMAIN items : items[l].id = i} = {k} BY <1>1, <2>1 DEF Distinct
  <2> QED BY <1>2, <2>2, FS_Singleton
<1>3. CASE fate[i] # "queued"
  <2>1. {l \in DOMAIN items : items[l].id = i} = {} BY <1>1, <1>3 DEF ToSet
  <2> QED BY <1>3, <2>1, FS_EmptySet
<1> QED BY <1>2, <1>3

\* No request is lost, and none is left behind that was answered already.
THEOREM NothingLostCorrect == QueueSpec => []NothingLost
BY SchedInvariance, OnceLemma, PTL

-----------------------------------------------------------------------------
(* The refinement                                                          *)

\* The promise's set has as many members as the deque has items.
LEMMA WaitingCount == SchedInv => Cardinality(Waiting) = Len(items)
<1> SUFFICES ASSUME SchedInv PROVE Cardinality(Waiting) = Len(items) OBVIOUS
<1>1. items \in Seq(Item) /\ Distinct(items) BY DEF SchedInv, QueueTypeOK, QueueInv
<1>2. DOMAIN items = 1 .. Len(items) /\ Len(items) \in Nat BY <1>1, LenProperties
<1> DEFINE D == 1 .. Len(items)
           f == [k \in D |-> Brief(items[k])]
<1>3. IsFiniteSet(D) /\ Cardinality(D) = Len(items)
  <2>1. Len(items) \in Nat BY <1>2
  <2> QED BY <2>1, FS_Interval
<1>4. \A k \in D : f[k].id = items[k].id BY DEF Brief
<1>5. \A k, l \in D : f[k] = f[l] => k = l BY <1>1, <1>2, <1>4 DEF Distinct
<1>6. \A w : w \in Waiting <=> \E k \in D : w = f[k] BY <1>2 DEF Waiting, ToSet
<1>7. f \in [D -> Waiting] BY <1>6
<1> HIDE DEF f, D
<1>8. f \in Injection(D, Waiting) /\ f \in Surjection(D, Waiting)
  BY <1>5, <1>6, <1>7 DEF Injection, Surjection, IsInjective
<1>9. f \in Bijection(D, Waiting) BY <1>8 DEF Bijection
<1> QED BY <1>3, <1>9, FS_Bijection DEF ExistsBijection

\* The promise counts as this module does
LEMMA SameCount == \A S : Promise!Cardinality(S) = Cardinality(S)
BY DEF Promise!Cardinality, Cardinality

\* The refinement's first half: initial states map to initial states.
LEMMA PromiseInit == QueueInit => Promise!Init
BY DEF QueueInit, Promise!Init, Waiting, ToSet

\* Items that leave the deque leave the promise's set, for the same reason.
LEMMA LeaveLemma ==
    ASSUME SchedInv, NEW G \in SUBSET ToSet(items), G # {}, NEW how,
           ToSet(items') = ToSet(items) \ G, Told(G, how), UNCHANGED late
    PROVE  Promise!Leave({Brief(it) : it \in G}, how)
<1> DEFINE R == {Brief(it) : it \in G}
<1>1. \A it, other \in ToSet(items) : Brief(it) = Brief(other) => it = other
  <2>1. \A it \in ToSet(items) : Brief(it).id = it.id BY DEF Brief
  <2>2. \A it, other \in ToSet(items) : it.id = other.id => it = other
    BY DEF SchedInv, QueueInv, Distinct, ToSet
  <2> QED BY <2>1, <2>2
<1>2. R # {} /\ R \subseteq Waiting BY DEF Waiting
<1>3. Waiting' = Waiting \ R
  <2>1. Waiting' = {Brief(it) : it \in ToSet(items) \ G} BY DEF Waiting, Brief
  <2>2. \A it \in ToSet(items) : Brief(it) \in R <=> it \in G BY <1>1
  <2>3. \A w : w \in Waiting' <=> \E it \in ToSet(items) \ G : w = Brief(it) BY <2>1
  <2>4. \A w : w \in Waiting <=> \E it \in ToSet(items) : w = Brief(it) BY DEF Waiting
  <2> HIDE DEF R
  <2> QED BY <2>2, <2>3, <2>4
<1>4. \A i : (\E r \in R : r.id = i) <=> (\E it \in G : it.id = i)
  <2>1. \A it : Brief(it).id = it.id BY DEF Brief
  <2> QED BY <2>1
<1>5. fate' = [i \in Ids |-> IF \E r \in R : r.id = i THEN how ELSE fate[i]]
  BY <1>4 DEF Told
<1> QED BY <1>2, <1>3, <1>5 DEF Promise!Leave

\* The newcomer's number is the promise's turn, above those of the waiting ones
LEMMA TurnLemma ==
    SchedInv => Promise!Turn = next_seq
BY SameCount DEF SchedInv, Numbered, Asked, Promise!Turn

\* The newcomer as the promise sees it
LEMMA BriefRequest ==
    ASSUME SchedInv, NEW i \in Ids, NEW p \in Priorities, NEW drop \in BOOLEAN,
           NEW sess \in Sessions \cup {0}
    PROVE  LET w == Brief(Request(i, p, drop, sess))
           IN  /\ w \in [id : Ids, prio : 0 .. 9, at : {Promise!Turn}, drop : BOOLEAN]
               /\ w.id = i /\ w.drop = drop /\ w.at = Promise!Turn
<1> DEFINE w == Brief(Request(i, p, drop, sess))
<1>1. Clamp(p) \in 0 .. 9 BY InputsAssumption DEF Clamp
<1>2. Promise!Turn = next_seq BY TurnLemma
<1>3. w = [id |-> i, prio |-> Clamp(p), at |-> next_seq, drop |-> drop] BY DEF Brief, Request
<1> QED BY <1>1, <1>2, <1>3

\* TryEnqueue with a free slot is an admission.
LEMMA EnqueuePromise ==
    ASSUME SchedInv, NEW i \in Ids, NEW p \in Priorities, NEW drop \in BOOLEAN,
           NEW sess \in Sessions \cup {0}, Enqueue(i, p, drop, sess)
    PROVE  Promise!Next
<1> DEFINE w == Brief(Request(i, p, drop, sess))
<1>1. /\ w \in [id : Ids, prio : 0 .. 9, at : {Promise!Turn}, drop : BOOLEAN]
      /\ w.id = i /\ w.at = Promise!Turn
  BY BriefRequest
<1>2. Waiting' = Waiting \cup {w}
  <2>1. ToSet(items') = ToSet(items) \cup {Request(i, p, drop, sess)} BY EnqueueLemma
  <2>2. Waiting' = {Brief(it) : it \in ToSet(items')} BY DEF Waiting, Brief
  <2> QED BY <2>1, <2>2 DEF Waiting
<1> HIDE DEF w
<1>3. Cardinality(Waiting) < Depth BY WaitingCount DEF Enqueue
<1>4. Promise!Admit(w) BY <1>1, <1>2, <1>3, SameCount DEF Promise!Admit, Enqueue
<1>5. Promise!Arrive(w) BY <1>1, <1>4 DEF Promise!Arrive, Enqueue
<1> QED BY <1>1, <1>5 DEF Promise!Next

\* BusyDroppedOld is a replacement of a droppable resident.
LEMMA EvictPromise ==
    ASSUME SchedInv, NEW i \in Ids, NEW p \in Priorities, NEW sess \in Sessions \cup {0},
           EnqueueEvict(i, p, sess)
    PROVE  Promise!Next
<1> DEFINE w == Brief(Request(i, p, TRUE, sess))
           old == items[Victim]
<1>1. /\ w \in [id : Ids, prio : 0 .. 9, at : {Promise!Turn}, drop : BOOLEAN]
      /\ w.id = i /\ w.at = Promise!Turn /\ w.drop = TRUE
  BY BriefRequest
<1>2. /\ old \in ToSet(items) /\ old.drop_eligible
      /\ ToSet(items') = (ToSet(items) \ {old}) \cup {Request(i, p, TRUE, sess)}
  BY EvictLemma
<1>3. Waiting' = (Waiting \ {Brief(old)}) \cup {w}
  <2>1. Waiting' = {Brief(it) : it \in ToSet(items')} BY DEF Waiting, Brief
  <2>2. \A it \in ToSet(items) : Brief(it) = Brief(old) => it = old
    <3>1. \A it : Brief(it).id = it.id BY DEF Brief
    <3>2. \A it, other \in ToSet(items) : it.id = other.id => it = other
      BY DEF SchedInv, QueueInv, Distinct, ToSet
    <3> HIDE DEF old
    <3> QED BY <1>2, <3>1, <3>2
  <2>3. \A x : x \in Waiting' <=> x = w \/ \E it \in ToSet(items) \ {old} : x = Brief(it)
    BY <1>2, <2>1
  <2>4. \A x : x \in Waiting <=> \E it \in ToSet(items) : x = Brief(it) BY DEF Waiting
  <2> HIDE DEF w, old
  <2> QED BY <1>2, <2>2, <2>3, <2>4
<1>4. Brief(old) \in Waiting /\ Brief(old).drop /\ Brief(old).id = old.id
  <2>1. Brief(old) \in Waiting BY <1>2 DEF Waiting
  <2> QED BY <1>2, <2>1 DEF Brief
<1>5. fate' = [fate EXCEPT ![w.id] = "queued", ![Brief(old).id] = "busy"]
      /\ fate[w.id] = "new" /\ UNCHANGED late /\ Len(items) = Depth
  BY <1>1, <1>4 DEF EnqueueEvict
<1> HIDE DEF w, old
<1>6. Promise!Replace(w) BY <1>1, <1>3, <1>4, <1>5, WaitingCount, SameCount DEF Promise!Replace
<1>7. Promise!Arrive(w) BY <1>1, <1>5, <1>6 DEF Promise!Arrive
<1> QED BY <1>1, <1>7 DEF Promise!Next

\* BusyOverflow is a refusal, with no droppable resident to discard.
LEMMA RefusePromise ==
    ASSUME SchedInv, NEW i \in Ids, NEW drop \in BOOLEAN, EnqueueRefused(i, drop)
    PROVE  Promise!Next
<1> DEFINE w == [id |-> i, prio |-> 0, at |-> Promise!Turn, drop |-> drop]
<1>1. w \in [id : Ids, prio : 0 .. 9, at : {Promise!Turn}, drop : BOOLEAN] OBVIOUS
<1>2. /\ fate[i] = "new" /\ Len(items) = Depth /\ (drop => Eligible = {})
      /\ fate' = [fate EXCEPT ![i] = "busy"] /\ items' = items /\ late' = late
  BY DEF EnqueueRefused
<1>3. drop => \A old \in Waiting : ~old.drop
  BY <1>2 DEF Eligible, Waiting, Brief, ToSet
<1>4. Waiting' = Waiting BY <1>2 DEF Waiting, Brief
<1>5. Promise!Refuse(w) BY <1>2, <1>3, <1>4, WaitingCount, SameCount DEF Promise!Refuse
<1>6. Promise!Arrive(w) BY <1>2, <1>5 DEF Promise!Arrive
<1> QED BY <1>1, <1>6 DEF Promise!Next

\* A late head expires; any other is the best of the waiting ones
LEMMA PopPromise ==
    ASSUME SchedInv, Pop
    PROVE  Promise!Next
<1> DEFINE h == items[1]
           how == IF h.id \in late THEN "timeout" ELSE "dispatched"
<1>1. /\ h \in ToSet(items) /\ ToSet(items') = ToSet(items) \ {h} /\ 1 \in DOMAIN items
      /\ Told({h}, how)
  BY PopLemma
<1>2. UNCHANGED late BY DEF Pop
<1> HIDE DEF how
<1>3. Promise!Leave({Brief(it) : it \in {h}}, how) BY <1>1, <1>2, LeaveLemma
<1>4. {Brief(it) : it \in {h}} = {Brief(h)} /\ Brief(h).id = h.id /\ Brief(h) \in Waiting
  <2>1. Brief(h).id = h.id BY DEF Brief
  <2> QED BY <1>1, <2>1 DEF Waiting
<1>5. CASE h.id \in late
  <2>1. how = "timeout" BY <1>5 DEF how
  <2>2. {Brief(h)} \in SUBSET {r \in Waiting : r.id \in late} BY <1>4, <1>5
  <2>3. Promise!Expire BY <1>3, <1>4, <2>1, <2>2 DEF Promise!Expire
  <2> QED BY <2>3 DEF Promise!Next
<1>6. CASE h.id \notin late
  <2>1. how = "dispatched" BY <1>6 DEF how
  <2>2. \A s \in Waiting \ {Brief(h)} : Promise!Before(Brief(h), s)
    <3> TAKE s \in Waiting \ {Brief(h)}
    <3>1. PICK k \in DOMAIN items : s = Brief(items[k]) BY DEF Waiting, ToSet
    <3>2. k # 1 /\ k > 1
      <4>1. DOMAIN items = 1 .. Len(items) /\ Len(items) \in Nat
        BY LenProperties DEF SchedInv, QueueTypeOK
      <4> QED BY <3>1, <4>1
    <3>3. OrderBefore(h, items[k]) BY <1>1, <3>1, <3>2 DEF SchedInv, QueueInv, Ordered
    <3> QED BY <3>1, <3>3 DEF Promise!Before, OrderBefore, Brief
  <2>3. Promise!Dispatch(Brief(h)) BY <1>3, <1>4, <1>6, <2>1, <2>2 DEF Promise!Dispatch
  <2> QED BY <1>4, <2>3 DEF Promise!Next
<1> QED BY <1>5, <1>6

\* The refinement's second half: every step maps to a step or a stutter.
LEMMA StepPromise == SchedInv /\ [QueueNext]_scheduler => [Promise!Next]_(Promise!vars)
<1> SUFFICES ASSUME SchedInv, [QueueNext]_scheduler PROVE [Promise!Next]_(Promise!vars) OBVIOUS
<1>1. CASE UNCHANGED scheduler BY <1>1 DEF scheduler, Promise!vars, Waiting, Brief
<1>2. ASSUME NEW i \in Ids, Arrivals(i) PROVE Promise!Next
  BY <1>2, EnqueuePromise, EvictPromise DEF Arrivals
<1>3. ASSUME NEW i \in Ids, DeadlinePasses(i) PROVE Promise!Next
  <2>1. Promise!DeadlinePasses(i) BY <1>3 DEF DeadlinePasses, Promise!DeadlinePasses, Waiting, Brief
  <2> QED BY <2>1 DEF Promise!Next
<1>4. ASSUME NEW i \in Ids, NEW drop \in BOOLEAN, EnqueueRefused(i, drop) PROVE Promise!Next
  BY <1>4, RefusePromise
<1>5. CASE Pop BY <1>5, PopPromise
<1>6. CASE ReaperPass
  <2>1. Expired \in SUBSET ToSet(items) /\ Expired # {} /\ Told(Expired, "timeout")
        /\ items' = Without(Expired) /\ UNCHANGED <<next_seq, late>>
    BY <1>6 DEF ReaperPass, Expired
  <2>2. ToSet(items') = ToSet(items) \ Expired BY <2>1, DropLemma DEF Fates
  <2>3. Promise!Leave({Brief(it) : it \in Expired}, "timeout") BY <2>1, <2>2, LeaveLemma
  <2>4. {Brief(it) : it \in Expired} \in SUBSET {r \in Waiting : r.id \in late}
    BY DEF Expired, Waiting, Brief
  <2>5. Promise!Expire BY <2>3, <2>4 DEF Promise!Expire
  <2> QED BY <2>5 DEF Promise!Next
<1>7. ASSUME NEW s \in Sessions, DropSession(s) PROVE Promise!Next
  <2>1. /\ OfSession(s) \in SUBSET ToSet(items) /\ OfSession(s) # {}
        /\ Told(OfSession(s), "dropped")
        /\ items' = Without(OfSession(s)) /\ UNCHANGED <<next_seq, late>>
    BY <1>7 DEF DropSession, OfSession
  <2>2. ToSet(items') = ToSet(items) \ OfSession(s) BY <2>1, DropLemma DEF Fates
  <2>3. Promise!Leave({Brief(it) : it \in OfSession(s)}, "dropped") BY <2>1, <2>2, LeaveLemma
  <2>4. {Brief(it) : it \in OfSession(s)} \in SUBSET Waiting BY <2>1 DEF Waiting
  <2>5. Promise!Drop BY <2>3, <2>4 DEF Promise!Drop
  <2> QED BY <2>5 DEF Promise!Next
<1> QED BY <1>1, <1>2, <1>3, <1>4, <1>5, <1>6, <1>7 DEF QueueNext

\* The deque implements SchedulerSpec: no class is overtaken by a worse one,
\* arrival order holds within a class, a late request is never dispatched, and
\* only a droppable request is discarded for a newer one.
THEOREM PromiseKept == QueueSpec => KeepsPromise
<1>1. QueueInit => Promise!Init BY PromiseInit
<1>2. SchedInv /\ [QueueNext]_scheduler => [Promise!Next]_(Promise!vars) BY StepPromise
<1> QED BY <1>1, <1>2, SchedInvariance, PTL DEF QueueSpec, KeepsPromise, Promise!Spec
-----------------------------------------------------------------------------
(* Slots and their clients                                                 *)

\* A client is at one slot's pipe, a handle names one slot, the epoch of a
\* request is at most its slot's, and less once the session's end advanced it.
SlotInv ==
    /\ \A p, q \in Slots : client[p] = client[q] /\ client[p] # NoClient => p = q
    /\ \A p, q \in Slots : wpipe[p] = wpipe[q] /\ wpipe[p] # 0 => p = q
    /\ \A r \in Requests : tag[r] # NoTag =>
         /\ tag[r].epoch <= epoch[tag[r].slot]
         /\ phase[tag[r].slot] \notin {"serve", "bump"} => tag[r].epoch < epoch[tag[r].slot]

EpochInv == TypeOK /\ SlotInv /\ EpochNamesClient /\ QueueIsOfTheLiving

-----------------------------------------------------------------------------
(* Where a request is                                                      *)

Owes(t, r) == \E k \in DOMAIN due[t] : due[t][k].req = r
Unanswered(r) == (\A t \in Threads : ~Owes(t, r)) /\ \A c \in Clients : got[c][r] = 0
Untouched(r) == Unanswered(r) /\ \A d \in Dispatchers : hand[d] # r

\* One place at a time: not yet read, in a queue, in a dispatcher's hand, owed
\* to a slot, answered.
UnreadInv ==
    \A r \in Requests : tag[r] = NoTag =>
        Untouched(r) /\ r \notin ToSet(queue) /\ (r \in Ids => fate[r] = "new")
WaitInv ==
    /\ \A r \in Ids : fate[r] = "queued" => Untouched(r)
    /\ \A k \in DOMAIN queue : queue[k] \notin Ids /\ Untouched(queue[k])
    /\ \A k, l \in DOMAIN queue : queue[k] = queue[l] => k = l
HandInv ==
    /\ hand[V1] \notin Ids /\ hand[V2] \in Ids \cup {NoReq}
    /\ \A d \in Dispatchers : hand[d] # NoReq => Unanswered(hand[d])
DueInv ==
    /\ \A t, u \in Threads : \A k \in DOMAIN due[t], l \in DOMAIN due[u] :
         due[t][k].req = due[u][l].req => t = u /\ k = l
    /\ \A t \in Threads : \A k \in DOMAIN due[t], c \in Clients : got[c][due[t][k].req] = 0

\* Who holds a slot's write_mu writes the first of the answers it owes.
WriteInv ==
    \A s \in Slots : write[s] # NoWrite =>
        due[write[s].by] # <<>> /\ Current(write[s].by).slot = s

OnceInv == UnreadInv /\ WaitInv /\ HandInv /\ DueInv /\ WriteInv /\ AnsweredOnce
-----------------------------------------------------------------------------
(* The host around the queue                                               *)

\* What the connection threads and the v2 dispatcher do to the queue is what
\* Scheduler lets its callers do.
LEMMA SchedRefines == [Next]_vars => [QueueNext]_scheduler
<1> SUFFICES ASSUME [Next]_vars PROVE [QueueNext]_scheduler
  OBVIOUS
<1>1. CASE UNCHANGED vars
  BY <1>1 DEF vars, scheduler
<1>2. ASSUME NEW s \in Slots, Closing(s) PROVE UNCHANGED scheduler
  BY <1>2 DEF Closing, SessionEnds, Bump, Purge, ClosePipe, Disconnect, scheduler
<1>3. ASSUME NEW s \in Slots, NEW c \in Clients, Accept(s, c) PROVE UNCHANGED scheduler
  BY <1>3 DEF Accept, scheduler
<1>4. ASSUME NEW c \in Clients, Leave(c) PROVE UNCHANGED scheduler
  BY <1>4 DEF Leave, scheduler
<1>5. ASSUME NEW s \in Slots, NEW x \in Sessions, Teardown(s, x) \/ OpenSession(s, x) \/ CloseSession(s, x)
      PROVE  DropSession(x) \/ UNCHANGED scheduler
  BY <1>5 DEF Teardown, OpenSession, CloseSession, scheduler
<1>6. ASSUME NEW s \in Slots, NEW r \in Requests, Push(s, r) \/ PushRefused(s, r) PROVE UNCHANGED scheduler
  BY <1>6 DEF Push, PushRefused, scheduler
<1>7. ASSUME NEW s \in Slots, NEW r \in Ids, EnqueueV2(s, r) \/ Replace(s, r) \/ Overflow(s, r)
      PROVE  QueueNext
  <2>1. Named(s) \subseteq Sessions \cup {0}
    BY DEF Named
  <2>2. EnqueueV2(s, r) \/ Replace(s, r) => Arrivals(r)
    BY <2>1 DEF EnqueueV2, Replace, Arrivals
  <2>3. Overflow(s, r) => \E drop \in BOOLEAN : EnqueueRefused(r, drop)
    BY DEF Overflow
  <2> QED
    BY <1>7, <2>2, <2>3 DEF QueueNext
<1>8. ASSUME NEW r \in Ids, Expires(r) PROVE DeadlinePasses(r)
  BY <1>8 DEF Expires
<1>9. ASSUME NEW d \in Dispatchers, Dispatching(d) PROVE Pop \/ UNCHANGED scheduler
  BY <1>9 DEF Dispatching, PopV1, PopV2, Finish, scheduler
<1>10. ASSUME NEW t \in Threads, Writing(t) PROVE UNCHANGED scheduler
  BY <1>10 DEF Writing, DropStale, BeginWrite, EndWrite, scheduler
<1> QED
  BY <1>1, <1>2, <1>3, <1>4, <1>5, <1>6, <1>7, <1>8, <1>9, <1>10 DEF Next, QueueNext

\* The host uses the queue as Scheduler says, so what holds of any use of it
\* holds in the host (RunSessionV2 and DispatcherV2Loop of host_main.cpp).
THEOREM HostUsesScheduler == Spec => QueueSpec
<1>1. Init => QueueInit
  BY DEF Init
<1> QED
  BY <1>1, SchedRefines, PTL DEF Spec, QueueSpec

-----------------------------------------------------------------------------
(* Types                                                                   *)

\* The entries at some positions, each position once
LEMMA PartLemma ==
    ASSUME NEW S, NEW s \in Seq(S), NEW K \in SUBSET (DOMAIN s)
    PROVE  /\ Part(s, K) \in Seq(S) /\ Len(Part(s, K)) <= Len(s)
           /\ \E at \in [DOMAIN Part(s, K) -> K] :
                /\ \A n \in DOMAIN Part(s, K) : Part(s, K)[n] = s[at[n]]
                /\ \A m, n \in DOMAIN Part(s, K) : at[m] = at[n] => m = n
<1> DEFINE R == {p \in K \X K : p[1] < p[2]}
           N == Cardinality(K)
           at == InOrder(K, R)
<1>1. DOMAIN s = 1 .. Len(s) /\ Len(s) \in Nat
  BY LenProperties
<1>2. IsFiniteSet(K) /\ N \in Nat /\ N <= Len(s)
  <2>1. IsFiniteSet(1 .. Len(s)) /\ Cardinality(1 .. Len(s)) = Len(s)
    <3>1. Len(s) \in Nat
      BY <1>1
    <3> QED
      BY <3>1, FS_Interval
  <2>2. K \in SUBSET (1 .. Len(s))
    BY <1>1
  <2> QED
    BY <2>1, <2>2, FS_Subset, FS_CardinalityType
<1>3. \A k, l \in K : <<k, l>> \in R <=> k < l
  OBVIOUS
<1>4. StrictTotal(K, R)
  <2>1. K \subseteq Int
    BY <1>1
  <2> HIDE DEF R
  <2> QED
    BY <2>1, <1>3 DEF StrictTotal
<1>5. at \in [1 .. N -> K] /\ \A m, n \in 1 .. N : m < n => <<at[m], at[n]>> \in R
  <2> HIDE DEF R
  <2> QED
    BY <1>2, <1>4, InOrderLists
<1>6. Part(s, K) = [n \in 1 .. N |-> s[at[n]]]
  BY <1>5 DEF Part
<1>7. \A m, n \in 1 .. N : at[m] = at[n] => m = n
  <2> HIDE DEF at, N, R
  <2>1. \A m, n \in 1 .. N : m < n => at[m] # at[n]
    BY <1>4, <1>5 DEF StrictTotal
  <2> QED
    BY <2>1, <1>2
<1> HIDE DEF at, N
<1>8. \A k \in K : s[k] \in S
  BY <1>1, ElementOfSeq
<1>9. Part(s, K) \in [1 .. N -> S]
  BY <1>5, <1>6, <1>8
<1>10. Part(s, K) \in Seq(S)
  BY <1>2, <1>9, SMT
<1>11. Len(Part(s, K)) = N /\ DOMAIN Part(s, K) = 1 .. N
  BY <1>2, <1>9, <1>10, LenProperties
<1> QED
  BY <1>2, <1>5, <1>6, <1>7, <1>10, <1>11

LEMMA PostTypes ==
    ASSUME TypeOK, NEW t \in Threads, NEW A \in Seq(Answer), due[t] = <<>>, Post(t, A)
    PROVE  /\ due' = [due EXCEPT ![t] = A] /\ due' \in [Threads -> Seq(Answer)]
           /\ due'[t] = A /\ \A u \in Threads \ {t} : due'[u] = due[u]
<1>1. <<>> \o A = A
  OBVIOUS
<1> QED
  BY <1>1 DEF TypeOK, Post

\* The answers of CloseSession, one to each request it drops
Busied(x) ==
    LET dropped == Part(items, {k \in DOMAIN items : items[k].session = x})
    IN  [k \in DOMAIN dropped |-> Ungated(dropped[k].id)]

LEMMA DroppedLemma ==
    ASSUME SchedInv, NEW x, NEW A, A = Busied(x)
    PROVE  /\ A \in Seq(Answer)
           /\ \A k \in DOMAIN A : A[k].req \in Ids /\ fate[A[k].req] = "queued"
                                  /\ \E it \in OfSession(x) : it.id = A[k].req
           /\ \A k, l \in DOMAIN A : A[k].req = A[l].req => k = l
<1> DEFINE K == {k \in DOMAIN items : items[k].session = x}
           dropped == Part(items, K)
<1>1. items \in Seq(Item) /\ Distinct(items)
  BY DEF SchedInv, QueueTypeOK, QueueInv
<1>2. \A k \in DOMAIN items : items[k] \in ToSet(items) /\ items[k] \in Item
  BY <1>1, ToSetLemma
<1>3. K \in SUBSET (DOMAIN items)
  OBVIOUS
<1> HIDE DEF K
<1>4. /\ dropped \in Seq(Item)
      /\ \E at \in [DOMAIN dropped -> K] :
           /\ \A n \in DOMAIN dropped : dropped[n] = items[at[n]]
           /\ \A m, n \in DOMAIN dropped : at[m] = at[n] => m = n
  BY <1>1, <1>3, PartLemma
<1>5. PICK at \in [DOMAIN dropped -> K] :
           /\ \A n \in DOMAIN dropped : dropped[n] = items[at[n]]
           /\ \A m, n \in DOMAIN dropped : at[m] = at[n] => m = n
  BY <1>4
<1>6. A = [k \in DOMAIN dropped |-> Ungated(dropped[k].id)]
  BY DEF K, Busied
<1>7. DOMAIN dropped = 1 .. Len(dropped) /\ Len(dropped) \in Nat
  BY <1>4, LenProperties
<1> HIDE DEF dropped
<1>8. DOMAIN A = DOMAIN dropped /\ \A k \in DOMAIN A : at[k] \in DOMAIN items /\ A[k] = Ungated(items[at[k]].id)
  <2>1. DOMAIN A = DOMAIN dropped
    BY <1>6
  <2>2. \A k \in DOMAIN dropped : A[k] = Ungated(dropped[k].id) /\ dropped[k] = items[at[k]] /\ at[k] \in DOMAIN items
    BY <1>3, <1>5, <1>6
  <2> QED
    BY <2>1, <2>2
<1>9. \A k \in DOMAIN A : A[k].req = items[at[k]].id /\ A[k].req \in Ids /\ A[k] \in Answer
  <2>1. \A k \in DOMAIN A : items[at[k]].id \in Ids
    BY <1>2, <1>8 DEF Item
  <2>2. \A k \in DOMAIN A : A[k] = [req |-> items[at[k]].id, gated |-> FALSE]
    BY <1>8 DEF Ungated
  <2>3. Ids \subseteq Requests
    BY IdsAssumption
  <2>4. ASSUME NEW k \in DOMAIN A, NEW q \in Ids, A[k] = [req |-> q, gated |-> FALSE]
        PROVE  A[k].req = q /\ A[k] \in Answer
    <3>1. [req |-> q, gated |-> FALSE].req = q /\ [req |-> q, gated |-> FALSE] \in Answer
      BY <2>3 DEF Answer
    <3> QED
      BY <2>4, <3>1, Zenon
  <2> QED
    BY <2>1, <2>2, <2>4, Zenon
<1>10. A \in Seq(Answer)
  <2>1. A \in [1 .. Len(dropped) -> Answer]
    BY <1>6, <1>7, <1>8, <1>9
  <2> QED
    BY <1>7, <2>1, SeqDef
<1>11. ASSUME NEW k \in DOMAIN A
       PROVE  fate[A[k].req] = "queued" /\ \E it \in OfSession(x) : it.id = A[k].req
  <2>1. items[at[k]] \in ToSet(items) /\ items[at[k]].session = x
    BY <1>2, <1>5, <1>8 DEF K
  <2> QED
    BY <1>9, <2>1 DEF SchedInv, QueueInv, OfSession
<1>12. \A k, l \in DOMAIN A : A[k].req = A[l].req => k = l
  BY <1>1, <1>5, <1>8, <1>9 DEF Distinct
<1> QED
  BY <1>9, <1>10, <1>11, <1>12

\* The resident a droppable newcomer replaces is told so
LEMMA VictimTold ==
    ASSUME SchedInv, NEW r \in Ids, NEW p \in Priorities, NEW x \in Sessions \cup {0},
           EnqueueEvict(r, p, x)
    PROVE  /\ items[Victim].id \in Ids /\ fate[items[Victim].id] = "queued"
           /\ fate' = [fate EXCEPT ![r] = "queued", ![items[Victim].id] = "busy"]
           /\ fate[r] = "new"
<1>1. items[Victim] \in ToSet(items)
  BY EvictLemma
<1>2. items \in Seq(Item)
  BY DEF SchedInv, QueueTypeOK
<1>3. items[Victim] \in Item
  BY <1>1, <1>2, ToSetLemma
<1> QED
  BY <1>1, <1>3 DEF SchedInv, QueueInv, Item, EnqueueEvict

\* What a step of a thread posts, to itself when it owes nothing
Posts(t, A) == t \in Threads /\ A \in Seq(Answer) /\ due[t] = <<>> /\ Post(t, A)

LEMMA OneAnswer ==
    ASSUME NEW r \in Requests, NEW b \in BOOLEAN
    PROVE  /\ <<[req |-> r, gated |-> b]>> \in Seq(Answer) /\ DOMAIN <<[req |-> r, gated |-> b]>> = {1}
           /\ <<[req |-> r, gated |-> b]>>[1].req = r
<1> QED
  BY DEF Answer

\* A writer owes the answer it writes, and holds one slot's write_mu.
LEMMA WriterLemma ==
    ASSUME TypeOK, WriteInv, NEW s \in Slots, NEW t \in Threads, write[s].by = t
    PROVE  due[t] # <<>> /\ Current(t).slot = s /\ write[s] # NoWrite
<1>1. write[s] # NoWrite
  BY ClientsAssumption DEF NoWrite
<1> QED
  BY <1>1 DEF WriteInv

LEMMA PostedTypes ==
    ASSUME TypeOK, SchedInv, Next
    PROVE  \/ due' = due
           \/ \E t \in Threads, A \in Seq(Answer) : Posts(t, A)
           \/ \E t \in Threads : DropStale(t) \/ EndWrite(t)
<1>1. ASSUME NEW s \in Slots, NEW c \in Clients, Accept(s, c) PROVE due' = due
  BY <1>1 DEF Accept
<1>2. ASSUME NEW s \in Slots, Closing(s) PROVE due' = due
  BY <1>2 DEF Closing, SessionEnds, Bump, Purge, ClosePipe, Disconnect
<1>3. ASSUME NEW c \in Clients, Leave(c) PROVE due' = due
  BY <1>3 DEF Leave
<1>4. ASSUME NEW s \in Slots, NEW x \in Sessions, Teardown(s, x) \/ OpenSession(s, x) PROVE due' = due
  BY <1>4 DEF Teardown, OpenSession
<1>5. ASSUME NEW s \in Slots, NEW x \in Sessions, CloseSession(s, x)
      PROVE  \E t \in Threads, A \in Seq(Answer) : Posts(t, A)
  <2>1. Post(s, Busied(x)) /\ due[s] = <<>>
    BY <1>5 DEF CloseSession, Reading, Busied
  <2>2. Busied(x) \in Seq(Answer)
    BY DroppedLemma
  <2> QED
    BY <2>1, <2>2 DEF Posts, Threads
<1>6. ASSUME NEW s \in Slots, NEW r \in Requests, Push(s, r) \/ PushRefused(s, r)
      PROVE  due' = due \/ \E t \in Threads, A \in Seq(Answer) : Posts(t, A)
  <2>1. CASE Push(s, r)
    BY <2>1 DEF Push
  <2>2. CASE PushRefused(s, r)
    BY <2>2, OneAnswer DEF PushRefused, Reads, Reading, Posts, Threads, Ungated
  <2> QED
    BY <1>6, <2>1, <2>2
<1>7. ASSUME NEW s \in Slots, NEW r \in Ids, EnqueueV2(s, r) \/ Replace(s, r) \/ Overflow(s, r)
      PROVE  due' = due \/ \E t \in Threads, A \in Seq(Answer) : Posts(t, A)
  <2>1. CASE EnqueueV2(s, r)
    BY <2>1 DEF EnqueueV2
  <2>2. CASE Replace(s, r)
    <3>1. PICK p \in Priorities, x \in Named(s) : EnqueueEvict(r, p, x)
      BY <2>2 DEF Replace
    <3>2. items[Victim].id \in Requests
      BY <3>1, VictimTold, IdsAssumption DEF Named
    <3> QED
      BY <2>2, <3>2, OneAnswer DEF Replace, Reads, Reading, Posts, Threads, Ungated
  <2>3. CASE Overflow(s, r)
    <3>1. r \in Requests
      BY IdsAssumption
    <3> QED
      BY <2>3, <3>1, OneAnswer DEF Overflow, Reads, Reading, Posts, Threads, Ungated
  <2> QED
    BY <1>7, <2>1, <2>2, <2>3
<1>8. ASSUME NEW r \in Ids, Expires(r) PROVE due' = due
  BY <1>8 DEF Expires
<1>9. ASSUME NEW d \in Dispatchers, Dispatching(d)
      PROVE  due' = due \/ \E t \in Threads, A \in Seq(Answer) : Posts(t, A)
  <2>1. CASE PopV1(d)
    BY <2>1 DEF PopV1
  <2>2. CASE PopV2(d)
    <3>1. Head(items).id \in Requests
      <4>1. Head(items) = items[1] /\ items[1] \in ToSet(items)
        BY <2>2, PopLemma DEF PopV2
      <4>2. items \in Seq(Item)
        BY DEF SchedInv, QueueTypeOK
      <4>3. items[1] \in Item
        BY <4>1, <4>2, ToSetLemma
      <4> QED
        BY <4>1, <4>3, IdsAssumption DEF Item
    <3> QED
      BY <2>2, <3>1, OneAnswer DEF PopV2, Ready, Posts, Threads, Gated
  <2>3. CASE Finish(d)
    <3>1. hand[d] \in Requests
      BY <2>3 DEF TypeOK, Finish
    <3> QED
      BY <2>3, <3>1, OneAnswer DEF Finish, Posts, Threads, Gated
  <2> QED
    BY <1>9, <2>1, <2>2, <2>3 DEF Dispatching
<1>10. ASSUME NEW t \in Threads, Writing(t) PROVE due' = due \/ DropStale(t) \/ EndWrite(t)
  BY <1>10 DEF Writing, BeginWrite
<1> QED
  BY <1>1, <1>2, <1>3, <1>4, <1>5, <1>6, <1>7, <1>8, <1>9, <1>10 DEF Next

LEMMA TypeStep ==
    ASSUME TypeOK, SchedInv, WriteInv, Next
    PROVE  TypeOK'
<1>1. QueueTypeOK'
  <2>1. SchedInv'
    BY SchedRefines, SchedNext
  <2> QED
    BY <2>1 DEF SchedInv
<1>2. phase' \in [Slots -> {"listen", "serve", "bump", "purge", "unpipe", "disconnect"}]
  <2>1. phase' = phase \/ \E s \in Slots, p \in {"listen", "serve", "bump", "purge", "unpipe", "disconnect"} :
                             phase' = [phase EXCEPT ![s] = p]
    BY DEF Next, Closing, SessionEnds, Bump, Purge, ClosePipe, Disconnect, Accept, Leave, Teardown, OpenSession,
           CloseSession, Push, PushRefused, EnqueueV2, Replace, Overflow, Expires, Dispatching, PopV1, PopV2, Finish,
           Writing, DropStale, BeginWrite, EndWrite, slots
  <2> QED
    BY <2>1 DEF TypeOK
<1>3. client' \in [Slots -> Clients \cup {NoClient}]
  <2>1. client' = client \/ \E s \in Slots, c \in Clients \cup {NoClient} : client' = [client EXCEPT ![s] = c]
    BY DEF Next, Closing, SessionEnds, Bump, Purge, ClosePipe, Disconnect, Accept, Leave, Teardown, OpenSession,
           CloseSession, Push, PushRefused, EnqueueV2, Replace, Overflow, Expires, Dispatching, PopV1, PopV2, Finish,
           Writing, DropStale, BeginWrite, EndWrite, slots
  <2> QED
    BY <2>1 DEF TypeOK
<1>4. epoch' \in [Slots -> Nat]
  <2>1. epoch' = epoch \/ \E s \in Slots : epoch' = [epoch EXCEPT ![s] = epoch[s] + 1]
    BY DEF Next, Closing, SessionEnds, Bump, Purge, ClosePipe, Disconnect, Accept, Leave, Teardown, OpenSession,
           CloseSession, Push, PushRefused, EnqueueV2, Replace, Overflow, Expires, Dispatching, PopV1, PopV2, Finish,
           Writing, DropStale, BeginWrite, EndWrite, slots
  <2>2. \A s \in Slots : epoch[s] \in Nat /\ epoch[s] + 1 \in Nat
    BY DEF TypeOK
  <2> QED
    BY <2>1, <2>2 DEF TypeOK
<1>5. wpipe' \in [Slots -> Handles \cup {0}]
  <2>1. wpipe' = wpipe \/ \E s \in Slots, h \in Handles \cup {0} : wpipe' = [wpipe EXCEPT ![s] = h]
    BY DEF Next, Closing, SessionEnds, Bump, Purge, ClosePipe, Disconnect, Accept, Leave, Teardown, OpenSession,
           CloseSession, Push, PushRefused, EnqueueV2, Replace, Overflow, Expires, Dispatching, PopV1, PopV2, Finish,
           Writing, DropStale, BeginWrite, EndWrite, slots
  <2> QED
    BY <2>1 DEF TypeOK
<1>6. session' \in [Sessions -> Slots \cup {NoSlot}] /\ gone' \subseteq Clients /\ stalled' \subseteq Clients
  <2>1. session' = session \/ \E x \in Sessions, s \in Slots \cup {NoSlot} : session' = [session EXCEPT ![x] = s]
    BY DEF Next, Closing, SessionEnds, Bump, Purge, ClosePipe, Disconnect, Accept, Leave, Teardown, OpenSession,
           CloseSession, Push, PushRefused, EnqueueV2, Replace, Overflow, Expires, Dispatching, PopV1, PopV2, Finish,
           Writing, DropStale, BeginWrite, EndWrite, slots
  <2>2. gone' = gone \/ \E c \in Clients : gone' = gone \cup {c}
    BY DEF Next, Closing, SessionEnds, Bump, Purge, ClosePipe, Disconnect, Accept, Leave, Teardown, OpenSession,
           CloseSession, Push, PushRefused, EnqueueV2, Replace, Overflow, Expires, Dispatching, PopV1, PopV2, Finish,
           Writing, DropStale, BeginWrite, EndWrite, slots
  <2>3. stalled' \subseteq Clients
    <3>1. ASSUME NEW t \in Threads, EndWrite(t) PROVE stalled' \subseteq Clients
      <4>1. PICK s \in Slots :
               \E R : stalled' = stalled \cup (({client[o] : o \in Target(s)} \ ({NoClient} \cup gone)) \ R)
        BY <3>1 DEF EndWrite
      <4>2. {client[o] : o \in Target(s)} \subseteq Clients \cup {NoClient}
        BY DEF Target, TypeOK
      <4> QED
        BY <4>1, <4>2 DEF TypeOK
    <3>2. stalled' \subseteq stalled \/ \E t \in Threads : EndWrite(t)
      BY DEF Next, Closing, SessionEnds, Bump, Purge, ClosePipe, Disconnect, Accept, Leave, Teardown, OpenSession,
             CloseSession, Push, PushRefused, EnqueueV2, Replace, Overflow, Expires, Dispatching, PopV1, PopV2,
             Finish, Writing, DropStale, BeginWrite
    <3> QED
      BY <3>1, <3>2 DEF TypeOK
  <2> QED
    BY <2>1, <2>2, <2>3 DEF TypeOK
<1>7. tag' \in [Requests -> [slot : Slots, epoch : Nat] \cup {NoTag}]
  <2>1. tag' = tag \/ \E s \in Slots, r \in Requests : tag' = [tag EXCEPT ![r] = [slot |-> s, epoch |-> epoch[s]]]
    BY IdsAssumption
       DEF Next, Closing, SessionEnds, Bump, Purge, ClosePipe, Disconnect, Accept, Leave, Teardown, OpenSession,
           CloseSession, Push, PushRefused, EnqueueV2, Replace, Overflow, Expires, Dispatching, PopV1, PopV2, Finish,
           Writing, DropStale, BeginWrite, EndWrite, slots, Reads
  <2>2. \A s \in Slots : [slot |-> s, epoch |-> epoch[s]] \in [slot : Slots, epoch : Nat]
    BY DEF TypeOK
  <2> QED
    BY <2>1, <2>2 DEF TypeOK
<1>8. write' \in [Slots -> [by : Threads, to : Handles \cup {0}] \cup {NoWrite}]
  <2>1. \/ write' = write
        \/ \E s \in Slots : write' = [write EXCEPT ![s] = NoWrite]
        \/ \E t \in Threads : BeginWrite(t)
    BY DEF Next, Closing, SessionEnds, Bump, Purge, ClosePipe, Disconnect, Accept, Leave, Teardown, OpenSession,
           CloseSession, Push, PushRefused, EnqueueV2, Replace, Overflow, Expires, Dispatching, PopV1, PopV2, Finish,
           Writing, DropStale, EndWrite
  <2>2. ASSUME NEW t \in Threads, BeginWrite(t)
        PROVE  write' \in [Slots -> [by : Threads, to : Handles \cup {0}] \cup {NoWrite}]
    <3> DEFINE s == Current(t).slot
    <3>1. write' = [write EXCEPT ![s] = [by |-> t, to |-> wpipe[s]]]
      BY <2>2 DEF BeginWrite
    <3>2. s \in Slots => wpipe[s] \in Handles \cup {0}
      BY DEF TypeOK
    <3> HIDE DEF s
    <3> QED
      BY <3>1, <3>2 DEF TypeOK
  <2> QED
    BY <2>1, <2>2 DEF TypeOK
<1>9. queue' \in Seq(Requests) /\ Len(queue') <= MaxQueue + 1
  <2>0. queue \in Seq(Requests) /\ Len(queue) <= MaxQueue + 1 /\ Len(queue) \in Nat
    BY LenProperties DEF TypeOK
  <2>1. \/ queue' = queue
        \/ \E r \in Requests : queue' = Append(queue, r) /\ Len(queue) <= MaxQueue
        \/ \E s \in Slots : queue' = Part(queue, {k \in DOMAIN queue : tag[queue[k]].slot # s})
        \/ queue # <<>> /\ queue' = Tail(queue)
    BY DEF Next, Closing, SessionEnds, Bump, Purge, ClosePipe, Disconnect, Accept, Leave, Teardown, OpenSession,
           CloseSession, Push, PushRefused, EnqueueV2, Replace, Overflow, Expires, Dispatching, PopV1, PopV2, Finish,
           Writing, DropStale, BeginWrite, EndWrite
  <2>2. ASSUME NEW r \in Requests, queue' = Append(queue, r), Len(queue) <= MaxQueue
        PROVE  queue' \in Seq(Requests) /\ Len(queue') <= MaxQueue + 1
    BY <2>0, <2>2, AppendProperties, LimitsAssumption
  <2>3. ASSUME NEW s \in Slots, queue' = Part(queue, {k \in DOMAIN queue : tag[queue[k]].slot # s})
        PROVE  queue' \in Seq(Requests) /\ Len(queue') <= MaxQueue + 1
    <3> DEFINE K == {k \in DOMAIN queue : tag[queue[k]].slot # s}
    <3>1. K \in SUBSET (DOMAIN queue)
      OBVIOUS
    <3>2. queue' = Part(queue, K)
      BY <2>3
    <3> HIDE DEF K
    <3>3. queue' \in Seq(Requests) /\ Len(queue') <= Len(queue)
      BY <2>0, <3>1, <3>2, PartLemma
    <3>4. Len(queue') \in Nat
      BY <3>3, LenProperties
    <3> QED
      BY <2>0, <3>3, <3>4, LimitsAssumption
  <2>4. ASSUME queue # <<>>, queue' = Tail(queue)
        PROVE  queue' \in Seq(Requests) /\ Len(queue') <= MaxQueue + 1
    BY <2>0, <2>4, HeadTailProperties, LimitsAssumption
  <2> QED
    BY <2>0, <2>1, <2>2, <2>3, <2>4
<1>10. hand' \in [Dispatchers -> Requests \cup {NoReq}]
  <2>1. ASSUME queue # <<>> PROVE Head(queue) \in Requests
    BY <2>1, HeadTailProperties DEF TypeOK
  <2>2. ASSUME Pop PROVE Head(items).id \in Requests
    <3>1. Head(items) = items[1] /\ items[1] \in ToSet(items)
      BY <2>2, PopLemma
    <3>2. items \in Seq(Item)
      BY DEF SchedInv, QueueTypeOK
    <3>3. items[1] \in Item
      BY <3>1, <3>2, ToSetLemma
    <3> QED
      BY <3>1, <3>3, IdsAssumption DEF Item
  <2>3. hand' = hand \/ \E d \in Dispatchers, r \in Requests \cup {NoReq} : hand' = [hand EXCEPT ![d] = r]
    <3>1. hand' = hand \/ \E d \in Dispatchers : Dispatching(d)
      BY DEF Next, Closing, SessionEnds, Bump, Purge, ClosePipe, Disconnect, Accept, Leave, Teardown, OpenSession,
           CloseSession, Push, PushRefused, EnqueueV2, Replace, Overflow, Expires, Writing, DropStale, BeginWrite, EndWrite
    <3>2. ASSUME NEW d \in Dispatchers, Dispatching(d)
          PROVE  hand' = hand \/ \E r \in Requests \cup {NoReq} : hand' = [hand EXCEPT ![d] = r]
      BY <2>1, <2>2, <3>2 DEF Dispatching, PopV1, PopV2, Finish
    <3> QED
      BY <3>1, <3>2
  <2> QED
    BY <2>3 DEF TypeOK
<1>11. due' \in [Threads -> Seq(Answer)]
  <2>1. ASSUME NEW t \in Threads, DropStale(t) \/ EndWrite(t) PROVE due' \in [Threads -> Seq(Answer)]
    <3>1. due[t] # <<>> /\ due' = [due EXCEPT ![t] = Tail(due[t])] /\ due[t] \in Seq(Answer)
      BY <2>1, WriterLemma DEF DropStale, EndWrite, TypeOK
    <3>2. Tail(due[t]) \in Seq(Answer)
      BY <3>1, HeadTailProperties
    <3> QED
      BY <3>1, <3>2 DEF TypeOK
  <2> QED
    BY <2>1, PostedTypes, PostTypes DEF Posts, TypeOK
<1>12. got' \in [Clients -> [Requests -> Nat]]
  <2>1. got' = got \/ \E t \in Threads : EndWrite(t)
    BY DEF Next, Closing, SessionEnds, Bump, Purge, ClosePipe, Disconnect, Accept, Leave, Teardown, OpenSession,
           CloseSession, Push, PushRefused, EnqueueV2, Replace, Overflow, Expires, Dispatching, PopV1, PopV2, Finish,
           Writing, DropStale, BeginWrite
  <2>2. ASSUME NEW t \in Threads, EndWrite(t) PROVE got' \in [Clients -> [Requests -> Nat]]
    <3>1. PICK R : got' = [c \in Clients |-> [got[c] EXCEPT ![Head(due[t]).req] = IF c \in R THEN @ + 1 ELSE @]]
      BY <2>2 DEF EndWrite
    <3>2. ASSUME NEW c \in Clients
          PROVE  [got[c] EXCEPT ![Head(due[t]).req] = IF c \in R THEN @ + 1 ELSE @] \in [Requests -> Nat]
      <4> DEFINE f == got[c]
                 q == Head(due[t]).req
      <4>1. f \in [Requests -> Nat]
        BY DEF TypeOK
      <4> HIDE DEF f, q
      <4>2. ASSUME NEW n \in Nat PROVE [f EXCEPT ![q] = n] \in [Requests -> Nat]
        BY <4>1
      <4>3. q \in Requests => f[q] \in Nat /\ f[q] + 1 \in Nat
        BY <4>1
      <4>4. [f EXCEPT ![q] = IF c \in R THEN f[q] + 1 ELSE f[q]] \in [Requests -> Nat]
        BY <4>1, <4>2, <4>3
      <4> QED
        BY <4>4 DEF f, q
    <3> QED
      BY <3>1, <3>2
  <2> QED
    BY <2>1, <2>2 DEF TypeOK
<1> QED
  BY <1>1, <1>2, <1>3, <1>4, <1>5, <1>6, <1>7, <1>8, <1>9, <1>10, <1>11, <1>12 DEF TypeOK

-----------------------------------------------------------------------------
(* The epoch                                                               *)

\* What Purge leaves in the queue: jobs of other slots, each as often as before
LEMMA PurgeLemma ==
    ASSUME TypeOK, NEW s \in Slots, Purge(s)
    PROVE  /\ \A r \in ToSet(queue') : r \in ToSet(queue) /\ tag[r].slot # s
           /\ (\A k, l \in DOMAIN queue : queue[k] = queue[l] => k = l) =>
                  \A k, l \in DOMAIN queue' : queue'[k] = queue'[l] => k = l
<1> DEFINE K == {k \in DOMAIN queue : tag[queue[k]].slot # s}
<1>1. K \in SUBSET (DOMAIN queue) /\ queue \in Seq(Requests)
  BY DEF TypeOK
<1>2. queue' = Part(queue, K)
  BY DEF Purge
<1>3. \A k \in K : tag[queue[k]].slot # s
  OBVIOUS
<1> HIDE DEF K
<1>4. PICK at \in [DOMAIN queue' -> K] :
           /\ \A n \in DOMAIN queue' : queue'[n] = queue[at[n]]
           /\ \A m, n \in DOMAIN queue' : at[m] = at[n] => m = n
  BY <1>1, <1>2, PartLemma
<1>5. \A n \in DOMAIN queue' : at[n] \in DOMAIN queue /\ tag[queue[at[n]]].slot # s
  BY <1>1, <1>3, <1>4
<1> QED
  BY <1>4, <1>5 DEF ToSet

\* What PopV1 leaves
LEMMA PopQueue ==
    ASSUME TypeOK, queue # <<>>, queue' = Tail(queue)
    PROVE  /\ Head(queue) = queue[1] /\ 1 \in DOMAIN queue
           /\ \A n \in DOMAIN queue' : n + 1 \in DOMAIN queue /\ n + 1 # 1 /\ queue'[n] = queue[n + 1]
           /\ ToSet(queue') \subseteq ToSet(queue)
<1>1. queue \in Seq(Requests) /\ Len(queue) \in Nat /\ Len(queue) # 0 /\ DOMAIN queue = 1 .. Len(queue)
  BY LenProperties, EmptySeq DEF TypeOK
<1>2. Len(queue') = Len(queue) - 1 /\ queue' \in Seq(Requests) /\ \A n \in 1 .. Len(queue') : queue'[n] = queue[n + 1]
  BY <1>1, HeadTailProperties
<1>3. DOMAIN queue' = 1 .. Len(queue')
  BY <1>2, LenProperties
<1>4. \A n \in DOMAIN queue' : n + 1 \in DOMAIN queue /\ n + 1 # 1 /\ queue'[n] = queue[n + 1]
  BY <1>1, <1>2, <1>3
<1> QED
  BY <1>1, <1>4 DEF ToSet

\* What a step does to the slots: a client comes or a session ends, step by
\* step, or a request is read.
SlotFrame == <<phase, client, epoch, wpipe, tag>>

LEMMA SlotEffects ==
    ASSUME TypeOK, Next
    PROVE  \/ UNCHANGED SlotFrame /\ ToSet(queue') \subseteq ToSet(queue)
           \/ \E s \in Slots : Closing(s) \/ \E c \in Clients : Accept(s, c)
           \/ \E s \in Slots, r \in Requests :
                 /\ Reading(s) /\ client[s] = Owner[r] /\ tag[r] = NoTag
                 /\ tag' = [tag EXCEPT ![r] = [slot |-> s, epoch |-> epoch[s]]]
                 /\ UNCHANGED <<phase, client, epoch, wpipe>>
                 /\ ToSet(queue') \subseteq ToSet(queue) \cup {r}
<1>1. ASSUME NEW s \in Slots, NEW x \in Sessions, Teardown(s, x) \/ OpenSession(s, x) \/ CloseSession(s, x)
      PROVE  UNCHANGED SlotFrame /\ UNCHANGED queue
  BY <1>1 DEF Teardown, OpenSession, CloseSession, SlotFrame, slots
<1>2. ASSUME NEW c \in Clients, Leave(c) PROVE UNCHANGED SlotFrame /\ UNCHANGED queue
  BY <1>2 DEF Leave, SlotFrame, slots
<1>3. ASSUME NEW r \in Ids, Expires(r) PROVE UNCHANGED SlotFrame /\ UNCHANGED queue
  BY <1>3 DEF Expires, SlotFrame, slots
<1>4. ASSUME NEW d \in Dispatchers, Dispatching(d)
      PROVE  UNCHANGED SlotFrame /\ ToSet(queue') \subseteq ToSet(queue)
  BY <1>4, PopQueue DEF Dispatching, PopV1, PopV2, Finish, SlotFrame, slots
<1>5. ASSUME NEW t \in Threads, Writing(t) PROVE UNCHANGED SlotFrame /\ UNCHANGED queue
  BY <1>5 DEF Writing, DropStale, BeginWrite, EndWrite, SlotFrame, slots
<1>6. ASSUME NEW s \in Slots, NEW r \in Ids, EnqueueV2(s, r) \/ Replace(s, r) \/ Overflow(s, r)
      PROVE  Reads(s, r, "v2") /\ UNCHANGED slots /\ UNCHANGED queue /\ r \in Requests
  BY <1>6, IdsAssumption DEF EnqueueV2, Replace, Overflow
<1>7. ASSUME NEW s \in Slots, NEW r \in Requests, PushRefused(s, r)
      PROVE  Reads(s, r, "v1") /\ UNCHANGED slots /\ UNCHANGED queue
  BY <1>7 DEF PushRefused
<1>8. ASSUME NEW s \in Slots, NEW r \in Requests, Push(s, r)
      PROVE  Reads(s, r, "v1") /\ UNCHANGED slots /\ ToSet(queue') \subseteq ToSet(queue) \cup {r}
  <2>1. queue' = Append(queue, r) /\ queue \in Seq(Requests)
    BY <1>8 DEF Push, TypeOK
  <2>2. /\ Append(queue, r) \in Seq(Requests) /\ Len(Append(queue, r)) = Len(queue) + 1
        /\ \A k \in 1 .. Len(queue) : Append(queue, r)[k] = queue[k]
        /\ Append(queue, r)[Len(queue) + 1] = r
    BY <2>1, AppendProperties
  <2>3. DOMAIN queue' = 1 .. Len(queue) + 1 /\ DOMAIN queue = 1 .. Len(queue) /\ Len(queue) \in Nat
    BY <2>1, <2>2, LenProperties
  <2>4. ToSet(queue') \subseteq ToSet(queue) \cup {r}
    <3>1. \A k \in DOMAIN queue' : k \in DOMAIN queue \/ k = Len(queue) + 1
      BY <2>3
    <3> QED
      BY <2>1, <2>2, <2>3, <3>1 DEF ToSet
  <2> QED
    BY <1>8, <2>4 DEF Push
<1> QED
  BY <1>1, <1>2, <1>3, <1>4, <1>5, <1>6, <1>7, <1>8 DEF Next, Reads, slots

LEMMA SlotStep ==
    ASSUME TypeOK, SlotInv, EpochNamesClient, QueueIsOfTheLiving, UnreadInv, Next
    PROVE  SlotInv' /\ EpochNamesClient' /\ QueueIsOfTheLiving'
<1>0. /\ \A r \in Requests : tag[r] # NoTag => tag[r].slot \in Slots /\ tag[r].epoch \in Nat
      /\ \A r \in ToSet(queue) : r \in Requests /\ tag[r] # NoTag
  <2>1. \A r \in Requests : tag[r] # NoTag => tag[r].slot \in Slots /\ tag[r].epoch \in Nat
    BY DEF TypeOK
  <2>2. \A r \in ToSet(queue) : r \in Requests
    BY ElementOfSeq, LenProperties DEF ToSet, TypeOK
  <2> QED
    BY <2>1, <2>2 DEF UnreadInv
<1>1. CASE UNCHANGED SlotFrame /\ ToSet(queue') \subseteq ToSet(queue)
  BY <1>1 DEF SlotFrame, SlotInv, EpochNamesClient, QueueIsOfTheLiving
<1>2. ASSUME NEW s \in Slots, NEW c \in Clients, Accept(s, c)
      PROVE  SlotInv' /\ EpochNamesClient' /\ QueueIsOfTheLiving'
  <2>1. PICK h \in {0} \cup (Handles \ Range(wpipe)) :
           /\ phase[s] = "listen" /\ (\A o \in Slots : client[o] # c)
           /\ phase' = [phase EXCEPT ![s] = "serve"] /\ client' = [client EXCEPT ![s] = c]
           /\ wpipe' = [wpipe EXCEPT ![s] = h] /\ epoch' = epoch /\ tag' = tag /\ queue' = queue
    BY <1>2 DEF Accept
  <2>2. h = 0 \/ \A o \in Slots : wpipe[o] # h
    BY <2>1 DEF Range, TypeOK
  <2>3. /\ phase'[s] = "serve" /\ client'[s] = c /\ wpipe'[s] = h
        /\ \A o \in Slots \ {s} : phase'[o] = phase[o] /\ client'[o] = client[o] /\ wpipe'[o] = wpipe[o]
    BY <2>1 DEF TypeOK
  <2>4. SlotInv'
    BY <1>0, <2>1, <2>2, <2>3 DEF SlotInv
  <2>5. EpochNamesClient' /\ QueueIsOfTheLiving'
    BY <1>0, <2>1, <2>3 DEF SlotInv, EpochNamesClient, QueueIsOfTheLiving
  <2> QED
    BY <2>4, <2>5
<1>3. ASSUME NEW s \in Slots, SessionEnds(s)
      PROVE  SlotInv' /\ EpochNamesClient' /\ QueueIsOfTheLiving'
  BY <1>0, <1>3 DEF SessionEnds, Ending, Reading, SlotInv, EpochNamesClient, QueueIsOfTheLiving, TypeOK
<1>4. ASSUME NEW s \in Slots, Bump(s)
      PROVE  SlotInv' /\ EpochNamesClient' /\ QueueIsOfTheLiving'
  BY <1>0, <1>4 DEF Bump, SlotInv, EpochNamesClient, QueueIsOfTheLiving, TypeOK
<1>5. ASSUME NEW s \in Slots, Purge(s)
      PROVE  SlotInv' /\ EpochNamesClient' /\ QueueIsOfTheLiving'
  <2>1. \A r \in ToSet(queue') : r \in ToSet(queue) /\ tag[r].slot # s
    BY <1>5, PurgeLemma
  <2>2. /\ phase[s] = "purge" /\ phase' = [phase EXCEPT ![s] = "unpipe"]
        /\ UNCHANGED <<client, epoch, wpipe, tag>>
    BY <1>5 DEF Purge
  <2> QED
    BY <1>0, <2>1, <2>2 DEF SlotInv, EpochNamesClient, QueueIsOfTheLiving, TypeOK
<1>6. ASSUME NEW s \in Slots, ClosePipe(s) \/ Disconnect(s)
      PROVE  SlotInv' /\ EpochNamesClient' /\ QueueIsOfTheLiving'
  <2>1. /\ phase[s] \in {"unpipe", "disconnect"} /\ phase'[s] \in {"disconnect", "listen"}
        /\ client'[s] \in {client[s], NoClient} /\ wpipe'[s] \in {wpipe[s], 0}
        /\ \A o \in Slots \ {s} : phase'[o] = phase[o] /\ client'[o] = client[o] /\ wpipe'[o] = wpipe[o]
        /\ UNCHANGED <<epoch, tag, queue>>
    BY <1>6 DEF ClosePipe, Disconnect, TypeOK
  <2>2. SlotInv'
    BY <1>0, <2>1 DEF SlotInv
  <2>3. EpochNamesClient' /\ QueueIsOfTheLiving'
    BY <1>0, <2>1 DEF SlotInv, EpochNamesClient, QueueIsOfTheLiving
  <2> QED
    BY <2>2, <2>3
<1>7. ASSUME NEW s \in Slots, NEW r \in Requests, Reading(s), client[s] = Owner[r], tag[r] = NoTag,
             tag' = [tag EXCEPT ![r] = [slot |-> s, epoch |-> epoch[s]]],
             UNCHANGED <<phase, client, epoch, wpipe>>, ToSet(queue') \subseteq ToSet(queue) \cup {r}
      PROVE  SlotInv' /\ EpochNamesClient' /\ QueueIsOfTheLiving'
  <2>1. /\ tag'[r] = [slot |-> s, epoch |-> epoch[s]] /\ \A q \in Requests \ {r} : tag'[q] = tag[q]
        /\ tag'[r].slot = s /\ tag'[r].epoch = epoch[s] /\ epoch[s] \in Nat
    BY <1>7 DEF TypeOK
  <2> QED
    BY <1>0, <1>7, <2>1 DEF Reading, SlotInv, EpochNamesClient, QueueIsOfTheLiving
<1> QED
  BY <1>1, <1>2, <1>3, <1>4, <1>5, <1>6, <1>7, SlotEffects DEF Closing

-----------------------------------------------------------------------------
(* One answer                                                              *)

\* A step that answers P, and moves other requests only from unread to a queue
\* and from a queue to a hand
LEMMA PlacesKept ==
    ASSUME TypeOK, UnreadInv, WaitInv, HandInv, NEW P,
           \A r \in Requests \ P : Unanswered(r) => Unanswered(r)',
           \A r \in Requests : tag'[r] = NoTag =>
               tag[r] = NoTag /\ r \notin P /\ r \notin ToSet(queue') /\ (r \in Ids => fate'[r] = "new"),
           \A r \in Ids : fate'[r] = "queued" => r \notin P /\ (fate[r] = "queued" \/ tag[r] = NoTag),
           \A k \in DOMAIN queue' :
               /\ queue'[k] \in Requests \ (P \cup Ids)
               /\ queue'[k] \in ToSet(queue) \/ tag[queue'[k]] = NoTag,
           \A k, l \in DOMAIN queue' : queue'[k] = queue'[l] => k = l,
           hand'[V1] \notin Ids, hand'[V2] \in Ids \cup {NoReq},
           \A d \in Dispatchers : hand'[d] # NoReq =>
               /\ hand'[d] \in Requests \ P
               /\ hand'[d] # hand[d] =>
                    /\ Untouched(hand'[d]) /\ tag'[hand'[d]] # NoTag /\ hand'[d] \notin ToSet(queue')
                    /\ hand'[d] \in Ids => fate'[hand'[d]] # "queued"
    PROVE  UnreadInv' /\ WaitInv' /\ HandInv'
<1>1. \A r \in Ids : r \in Requests
  BY IdsAssumption
<1>2. \A r \in ToSet(queue) : Untouched(r)
  BY DEF WaitInv, ToSet
<1>3. ASSUME NEW r \in Requests \ P, Untouched(r),
             \A d \in Dispatchers : hand'[d] = r => hand'[d] = hand[d]
      PROVE  Untouched(r)'
  BY <1>3 DEF Untouched
<1>4. UnreadInv'
  <2> SUFFICES ASSUME NEW r \in Requests, tag'[r] = NoTag
               PROVE  Untouched(r)' /\ r \notin ToSet(queue') /\ (r \in Ids => fate'[r] = "new")
    BY DEF UnreadInv, ToSet
  <2>1. Untouched(r) /\ r \notin P
    BY DEF UnreadInv
  <2>2. \A d \in Dispatchers : hand'[d] = r => hand'[d] = hand[d]
    BY ClientsAssumption
  <2> QED
    BY <1>3, <2>1, <2>2
<1>5. WaitInv'
  <2>1. ASSUME NEW r \in Ids, fate'[r] = "queued" PROVE Untouched(r)'
    <3>1. r \in Requests \ P /\ Untouched(r)
      BY <1>1, <2>1 DEF WaitInv, UnreadInv
    <3>2. \A d \in Dispatchers : hand'[d] = r => hand'[d] = hand[d]
      BY <2>1, <3>1, ClientsAssumption
    <3> QED
      BY <1>3, <3>1, <3>2
  <2>2. ASSUME NEW k \in DOMAIN queue', NEW r, r = queue'[k] PROVE r \notin Ids /\ Untouched(r)'
    <3>1. r \in Requests \ P /\ Untouched(r) /\ r \notin Ids /\ r \in ToSet(queue')
      BY <1>2, <2>2 DEF UnreadInv, ToSet
    <3>2. \A d \in Dispatchers : hand'[d] = r => hand'[d] = hand[d]
      BY <3>1, ClientsAssumption
    <3> QED
      BY <1>3, <3>1, <3>2
  <2> QED
    BY <2>1, <2>2 DEF WaitInv, Untouched, Unanswered, Owes
<1>6. HandInv'
  <2>1. ASSUME NEW d \in Dispatchers, NEW r, r = hand'[d], r # NoReq PROVE Unanswered(r)'
    <3>1. r \in Requests \ P /\ Unanswered(r)
      BY <2>1 DEF Untouched, HandInv
    <3> QED
      BY <3>1
  <2> QED
    BY <2>1 DEF HandInv, Unanswered, Owes
<1> QED
  BY <1>4, <1>5, <1>6

\* Posting answers that nobody owes yet
LEMMA PostKeeps ==
    ASSUME TypeOK, DueInv, AnsweredOnce, NEW t, NEW A, Posts(t, A), got' = got,
           \A k \in DOMAIN A : Unanswered(A[k].req), \A k, l \in DOMAIN A : A[k].req = A[l].req => k = l
    PROVE  /\ DueInv' /\ AnsweredOnce'
           /\ \A r \in Requests : (\A k \in DOMAIN A : A[k].req # r) /\ Unanswered(r) => Unanswered(r)'
<1>1. t \in Threads /\ due'[t] = A /\ \A u \in Threads \ {t} : due'[u] = due[u]
  BY PostTypes DEF Posts
<1>2. \A k \in DOMAIN A, u \in Threads : \A l \in DOMAIN due[u] : due[u][l].req # A[k].req
  BY DEF Unanswered, Owes
<1>3. \A k \in DOMAIN A, c \in Clients : got[c][A[k].req] = 0
  BY DEF Unanswered
<1>4. DueInv'
  <2>1. ASSUME NEW u \in Threads, NEW w \in Threads, NEW k \in DOMAIN due'[u], NEW l \in DOMAIN due'[w],
               due'[u][k].req = due'[w][l].req
        PROVE  u = w /\ k = l
    <3>1. CASE u = t /\ w = t
      BY <1>1, <2>1, <3>1
    <3>2. CASE u = t /\ w # t
      BY <1>1, <1>2, <2>1, <3>2
    <3>3. CASE u # t /\ w = t
      BY <1>1, <1>2, <2>1, <3>3
    <3>4. CASE u # t /\ w # t
      BY <1>1, <2>1, <3>4 DEF DueInv
    <3> QED
      BY <3>1, <3>2, <3>3, <3>4
  <2>2. ASSUME NEW u \in Threads, NEW k \in DOMAIN due'[u], NEW c \in Clients
        PROVE  got'[c][due'[u][k].req] = 0
    BY <1>1, <1>3 DEF DueInv
  <2> QED
    BY <2>1, <2>2 DEF DueInv
<1>5. AnsweredOnce'
  BY DEF AnsweredOnce
<1>6. ASSUME NEW r \in Requests, \A k \in DOMAIN A : A[k].req # r, Unanswered(r)
      PROVE  Unanswered(r)'
  BY <1>1, <1>6 DEF Unanswered, Owes
<1> QED
  BY <1>4, <1>5, <1>6

\* A step that answers, or touches no answer
LEMMA QuietKeeps ==
    ASSUME DueInv, AnsweredOnce, UNCHANGED <<due, got>>
    PROVE  DueInv' /\ AnsweredOnce' /\ \A r \in Requests : Unanswered(r) => Unanswered(r)'
BY DEF DueInv, AnsweredOnce, Unanswered, Owes

\* What is left to write after the first answer
LEMMA TailDue ==
    ASSUME TypeOK, NEW t \in Threads, due[t] # <<>>, due' = [due EXCEPT ![t] = Tail(due[t])]
    PROVE  /\ Head(due[t]) = due[t][1] /\ 1 \in DOMAIN due[t] /\ due[t][1].req \in Requests
           /\ \A u \in Threads : \A k \in DOMAIN due'[u] :
                \E l \in DOMAIN due[u] : /\ due'[u][k] = due[u][l] /\ l = (IF u = t THEN k + 1 ELSE k)
                                         /\ u = t => k \in Nat /\ l # 1
<1>1. due[t] \in Seq(Answer) /\ due'[t] = Tail(due[t]) /\ \A u \in Threads \ {t} : due'[u] = due[u]
  BY DEF TypeOK
<1>2. Len(due[t]) \in Nat /\ Len(due[t]) # 0 /\ DOMAIN due[t] = 1 .. Len(due[t])
  BY <1>1, LenProperties, EmptySeq
<1>3. /\ Tail(due[t]) \in Seq(Answer) /\ Len(Tail(due[t])) = Len(due[t]) - 1 /\ Head(due[t]) = due[t][1]
      /\ \A n \in 1 .. Len(Tail(due[t])) : Tail(due[t])[n] = due[t][n + 1]
  BY <1>1, HeadTailProperties
<1>4. DOMAIN due'[t] = 1 .. Len(due[t]) - 1
  BY <1>1, <1>3, LenProperties
<1>5. 1 \in DOMAIN due[t] /\ due[t][1].req \in Requests
  <2>1. 1 \in 1 .. Len(due[t])
    BY <1>2
  <2>2. due[t][1] \in Answer
    BY <1>1, <2>1, ElementOfSeq
  <2> QED
    BY <1>2, <2>1, <2>2 DEF Answer
<1>6. ASSUME NEW u \in Threads, NEW k \in DOMAIN due'[u]
      PROVE  \E l \in DOMAIN due[u] : /\ due'[u][k] = due[u][l] /\ l = (IF u = t THEN k + 1 ELSE k)
                                      /\ u = t => k \in Nat /\ l # 1
  <2>1. CASE u = t
    <3>1. k \in 1 .. Len(due[t]) - 1 /\ k + 1 \in DOMAIN due[t] /\ k + 1 # 1 /\ due'[t][k] = due[t][k + 1] /\ k \in Nat
      BY <1>1, <1>2, <1>3, <1>4, <1>6, <2>1
    <3> QED
      BY <2>1, <3>1
  <2>2. CASE u # t
    BY <1>1, <1>6, <2>2
  <2> QED
    BY <2>1, <2>2
<1> QED
  BY <1>3, <1>5, <1>6

LEMMA TailKeeps ==
    ASSUME TypeOK, DueInv, AnsweredOnce, SlotInv, WriteInv, NEW t \in Threads, DropStale(t) \/ EndWrite(t)
    PROVE  DueInv' /\ AnsweredOnce' /\ \A r \in Requests : Unanswered(r) => Unanswered(r)'
<1>1. due[t] # <<>> /\ due' = [due EXCEPT ![t] = Tail(due[t])]
  BY WriterLemma DEF DropStale, EndWrite
<1> DEFINE q == due[t][1].req
<1>2. /\ Head(due[t]) = due[t][1] /\ 1 \in DOMAIN due[t] /\ q \in Requests
      /\ \A u \in Threads : \A k \in DOMAIN due'[u] :
                \E l \in DOMAIN due[u] : /\ due'[u][k] = due[u][l] /\ l = (IF u = t THEN k + 1 ELSE k)
                                         /\ u = t => k \in Nat /\ l # 1
  BY <1>1, TailDue
<1>3. \A c \in Clients : got[c][q] = 0
  BY <1>2 DEF DueInv
<1>4. \E c0 : /\ \A c \in Clients, r \in Requests : got'[c][r] # got[c][r] => c = c0 /\ r = q
              /\ c0 \in Clients => got'[c0][q] \in {0, 1}
  <2>1. CASE DropStale(t)
    <3>1. got' = got
      BY <2>1 DEF DropStale
    <3> QED
      BY <1>3, <3>1
  <2>2. CASE EndWrite(t)
    <3>0. PICK s \in Slots : \E R \in SUBSET ({client[o] : o \in Target(s)} \ ({NoClient} \cup gone)) :
             got' = [c \in Clients |-> [got[c] EXCEPT ![Head(due[t]).req] = IF c \in R THEN @ + 1 ELSE @]]
      BY <2>2 DEF EndWrite
    <3>1. PICK R \in SUBSET ({client[o] : o \in Target(s)} \ ({NoClient} \cup gone)) :
             got' = [c \in Clients |-> [got[c] EXCEPT ![Head(due[t]).req] = IF c \in R THEN @ + 1 ELSE @]]
      BY <3>0
    <3>2. \A o, p \in Target(s) : o = p
      BY DEF Target, SlotInv
    <3>3. PICK c0 : R \subseteq {c0}
      BY <3>2
    <3> HIDE DEF q
    <3>4. ASSUME NEW c \in Clients
          PROVE  /\ got[c] \in [Requests -> Nat]
                 /\ got'[c] = [got[c] EXCEPT ![q] = IF c \in R THEN got[c][q] + 1 ELSE got[c][q]]
      BY <1>2, <3>1 DEF TypeOK, q
    <3>5. ASSUME NEW c \in Clients
          PROVE  /\ \A r \in Requests : got'[c][r] # got[c][r] => c = c0 /\ r = q
                 /\ got'[c][q] \in {0, 1}
      <4>1. q \in Requests /\ got[c][q] = 0
        BY <1>2, <1>3
      <4>2. c \in R => c = c0
        BY <3>3
      <4>3. /\ got'[c][q] = (IF c \in R THEN got[c][q] + 1 ELSE got[c][q])
            /\ \A r \in Requests \ {q} : got'[c][r] = got[c][r]
        BY <4>1, <3>4
      <4> QED
        BY <4>1, <4>2, <4>3
    <3> QED
      BY <3>5
  <2> QED
    BY <2>1, <2>2
<1>5. PICK c0 : /\ \A c \in Clients, r \in Requests : got'[c][r] # got[c][r] => c = c0 /\ r = q
                /\ c0 \in Clients => got'[c0][q] \in {0, 1}
  BY <1>4
<1>6. \A u \in Threads : \A k \in DOMAIN due'[u] : due'[u][k].req # q
  <2>1. ASSUME NEW u \in Threads, NEW k \in DOMAIN due'[u] PROVE due'[u][k].req # q
    <3>1. PICK l \in DOMAIN due[u] : due'[u][k] = due[u][l] /\ (u = t => l # 1)
      BY <1>2
    <3> QED
      BY <1>2, <3>1 DEF DueInv
  <2> QED
    BY <2>1
<1>7. DueInv'
  <2>1. ASSUME NEW u \in Threads, NEW w \in Threads, NEW k \in DOMAIN due'[u], NEW l \in DOMAIN due'[w],
               due'[u][k].req = due'[w][l].req
        PROVE  u = w /\ k = l
    <3>1. PICK m \in DOMAIN due[u] : due'[u][k] = due[u][m] /\ m = (IF u = t THEN k + 1 ELSE k) /\ (u = t => k \in Nat)
      BY <1>2
    <3>2. PICK n \in DOMAIN due[w] : due'[w][l] = due[w][n] /\ n = (IF w = t THEN l + 1 ELSE l) /\ (w = t => l \in Nat)
      BY <1>2
    <3>3. u = w /\ m = n
      BY <2>1, <3>1, <3>2 DEF DueInv
    <3> QED
      BY <3>1, <3>2, <3>3
  <2>2. ASSUME NEW u \in Threads, NEW k \in DOMAIN due'[u], NEW c \in Clients
        PROVE  got'[c][due'[u][k].req] = 0
    <3>1. PICK l \in DOMAIN due[u] : due'[u][k] = due[u][l]
      BY <1>2
    <3>2. due[u][l].req \in Requests /\ got[c][due[u][l].req] = 0
      <4>1. due[u] \in Seq(Answer)
        BY DEF TypeOK
      <4>2. due[u][l] \in Answer
        BY <4>1, ElementOfSeq, LenProperties
      <4> QED
        BY <4>2 DEF Answer, DueInv
    <3> QED
      BY <1>5, <1>6, <2>2, <3>1, <3>2
  <2> QED
    BY <2>1, <2>2 DEF DueInv
<1>8. AnsweredOnce'
  <2> SUFFICES ASSUME NEW r \in Requests, NEW c \in Clients, NEW d \in Clients, got'[c][r] > 0, got'[d][r] > 0
               PROVE  got'[c][r] = 1 /\ c = d
    BY DEF AnsweredOnce
  <2>1. CASE r = q
    <3>1. c = c0 /\ d = c0
      BY <1>3, <1>5, <2>1
    <3> QED
      BY <1>5, <2>1, <3>1
  <2>2. CASE r # q
    BY <1>5, <2>2 DEF AnsweredOnce
  <2> QED
    BY <2>1, <2>2
<1>9. ASSUME NEW r \in Requests, Unanswered(r) PROVE Unanswered(r)'
  <2>1. r # q
    BY <1>2, <1>9 DEF Unanswered, Owes
  <2>2. \A u \in Threads : \A k \in DOMAIN due'[u] : due'[u][k].req # r
    BY <1>2, <1>9 DEF Unanswered, Owes
  <2> QED
    BY <1>5, <1>9, <2>1, <2>2 DEF Unanswered, Owes
<1> QED
  BY <1>7, <1>8, <1>9

Alive == UnreadInv /\ WaitInv /\ HandInv /\ DueInv /\ AnsweredOnce

\* Who is anywhere was read.
LEMMA ReadFirst ==
    ASSUME TypeOK, UnreadInv, WaitInv
    PROVE  /\ \A k \in DOMAIN queue : queue[k] \in ToSet(queue)
           /\ \A r \in ToSet(queue) : r \in Requests \ Ids /\ tag[r] # NoTag /\ Untouched(r)
           /\ \A r \in Ids : fate[r] = "queued" => tag[r] # NoTag /\ Untouched(r)
           /\ \A d \in Dispatchers : hand[d] # NoReq => hand[d] \in Requests /\ tag[hand[d]] # NoTag
           /\ \A r \in Requests : ~Unanswered(r) => tag[r] # NoTag
<1>1. \A r \in ToSet(queue) : r \in Requests
  BY ElementOfSeq, LenProperties DEF ToSet, TypeOK
<1>2. \A r \in ToSet(queue) : r \in Requests \ Ids /\ tag[r] # NoTag /\ Untouched(r)
  BY <1>1 DEF ToSet, UnreadInv, WaitInv
<1>3. \A r \in Ids : fate[r] = "queued" => tag[r] # NoTag /\ Untouched(r)
  BY IdsAssumption DEF UnreadInv, WaitInv
<1>4. \A d \in Dispatchers : hand[d] # NoReq => hand[d] \in Requests /\ tag[hand[d]] # NoTag
  BY DEF TypeOK, UnreadInv, Untouched
<1>5. \A r \in Requests : ~Unanswered(r) => tag[r] # NoTag
  BY DEF UnreadInv, Untouched
<1> QED
  BY <1>2, <1>3, <1>4, <1>5 DEF ToSet

\* A step that may answer and reads, takes and hands on nothing
LEMMA AnswerStep ==
    ASSUME TypeOK, UnreadInv, WaitInv, HandInv, NEW P, DueInv', AnsweredOnce',
           \A r \in Requests \ P : Unanswered(r) => Unanswered(r)',
           UNCHANGED <<tag, queue>>, \A r \in ToSet(queue) : r \notin P, \A r \in Requests : tag[r] = NoTag => r \notin P,
           \A r \in Ids : /\ fate[r] = "new" /\ r \notin P => fate'[r] = "new"
                          /\ fate'[r] = "queued" => fate[r] = "queued" /\ r \notin P,
           \A d \in Dispatchers : hand'[d] = NoReq \/ (hand'[d] = hand[d] /\ hand[d] \notin P)
    PROVE  Alive'
<1>1. UnreadInv' /\ WaitInv' /\ HandInv'
  <2>1. \A r \in Requests : tag'[r] = NoTag =>
            tag[r] = NoTag /\ r \notin P /\ r \notin ToSet(queue') /\ (r \in Ids => fate'[r] = "new")
    BY DEF UnreadInv
  <2>2. \A k \in DOMAIN queue' : /\ queue'[k] \in Requests \ (P \cup Ids)
                                 /\ queue'[k] \in ToSet(queue) \/ tag[queue'[k]] = NoTag
    BY ReadFirst
  <2>3. \A k, l \in DOMAIN queue' : queue'[k] = queue'[l] => k = l
    BY DEF WaitInv
  <2>4. hand'[V1] \notin Ids /\ hand'[V2] \in Ids \cup {NoReq}
    BY ClientsAssumption, IdsAssumption DEF HandInv, Dispatchers
  <2>5. \A d \in Dispatchers : hand'[d] # NoReq => hand'[d] \in Requests \ P /\ hand'[d] = hand[d]
    BY ReadFirst
  <2> QED
    BY <2>1, <2>2, <2>3, <2>4, <2>5, PlacesKept
<1> QED
  BY <1>1 DEF Alive

\* The slots' steps, and a teardown, which answers nobody
LEMMA SilentStep ==
    ASSUME TypeOK, Alive, UNCHANGED <<tag, queue, hand, due, got>>,
           \A r \in Ids : /\ fate[r] = "new" => fate'[r] = "new"
                          /\ fate'[r] = "queued" => fate[r] = "queued"
    PROVE  Alive'
<1>1. DueInv' /\ AnsweredOnce' /\ \A r \in Requests : Unanswered(r) => Unanswered(r)'
  BY QuietKeeps DEF Alive
<1> DEFINE P == {}
<1>2. \A r : r \notin P
  OBVIOUS
<1> HIDE DEF P
<1> QED
  BY <1>1, <1>2, AnswerStep DEF Alive

LEMMA PurgeStep ==
    ASSUME TypeOK, Alive, NEW s \in Slots, Purge(s)
    PROVE  Alive'
<1>1. /\ \A r \in ToSet(queue') : r \in ToSet(queue)
      /\ \A k, l \in DOMAIN queue' : queue'[k] = queue'[l] => k = l
  BY PurgeLemma DEF Alive, WaitInv
<1>2. UNCHANGED <<tag, hand, due, got, fate>>
  BY DEF Purge, scheduler
<1>3. DueInv' /\ AnsweredOnce' /\ \A r \in Requests : Unanswered(r) => Unanswered(r)'
  BY <1>2, QuietKeeps DEF Alive
<1>4. \A k \in DOMAIN queue' : queue'[k] \in ToSet(queue) /\ queue'[k] \in Requests \ Ids
  BY <1>1, ReadFirst DEF Alive, ToSet
<1>5. \A r \in Requests : tag'[r] = NoTag => tag[r] = NoTag /\ r \notin ToSet(queue') /\ (r \in Ids => fate'[r] = "new")
  BY <1>1, <1>2 DEF Alive, UnreadInv
<1>6. hand'[V1] \notin Ids /\ hand'[V2] \in Ids \cup {NoReq}
  BY <1>2 DEF Alive, HandInv
<1>7. \A d \in Dispatchers : hand'[d] # NoReq => hand'[d] \in Requests /\ hand'[d] = hand[d]
  BY <1>2, ReadFirst DEF Alive
<1>8. UnreadInv' /\ WaitInv' /\ HandInv'
  <2> DEFINE P == {}
  <2>1. \A r : r \notin P
    OBVIOUS
  <2> HIDE DEF P
  <2> QED
    BY <1>1, <1>2, <1>3, <1>4, <1>5, <1>6, <1>7, <2>1, PlacesKept DEF Alive
<1> QED
  BY <1>3, <1>8 DEF Alive

\* The write of an answer, or its drop
LEMMA WriteStep ==
    ASSUME TypeOK, Alive, SlotInv, WriteInv, NEW t \in Threads, Writing(t)
    PROVE  Alive'
<1>1. UNCHANGED <<tag, queue, hand, fate>>
  BY DEF Writing, DropStale, BeginWrite, EndWrite, scheduler
<1>2. DueInv' /\ AnsweredOnce' /\ \A r \in Requests : Unanswered(r) => Unanswered(r)'
  <2>1. CASE BeginWrite(t)
    BY <2>1, QuietKeeps DEF Alive, BeginWrite
  <2> QED
    BY <2>1, TailKeeps DEF Alive, Writing
<1> DEFINE P == {}
<1>3. \A r : r \notin P
  OBVIOUS
<1> HIDE DEF P
<1> QED
  BY <1>1, <1>2, <1>3, AnswerStep DEF Alive

\* A request is read: it waits from now on or is answered, perhaps at the price
\* of one that waited.
LEMMA ReadStep ==
    ASSUME TypeOK, Alive, NEW s \in Slots, NEW r \in Requests, tag[r] = NoTag,
           tag' = [tag EXCEPT ![r] = [slot |-> s, epoch |-> epoch[s]]], hand' = hand, NEW P, DueInv', AnsweredOnce',
           \A q \in Requests \ P : Unanswered(q) => Unanswered(q)',
           \A q \in P : q = r \/ (q \in Ids /\ fate[q] = "queued"),
           queue' = queue \/ (queue' = Append(queue, r) /\ r \notin P \cup Ids),
           \A q \in Ids : /\ fate'[q] = "queued" => q \notin P /\ (fate[q] = "queued" \/ q = r)
                          /\ q \notin P \cup {r} => fate'[q] = fate[q]
    PROVE  Alive'
<1>1. tag'[r] # NoTag /\ \A q \in Requests \ {r} : tag'[q] = tag[q]
  BY ClientsAssumption DEF TypeOK, NoTag, Threads
<1>2. \A q \in P : q = r \/ (q \in Ids /\ tag[q] # NoTag)
  BY ReadFirst DEF Alive
<1>3. r \notin ToSet(queue)
  BY ReadFirst DEF Alive
<1>4. /\ \A k \in DOMAIN queue' : queue'[k] \in ToSet(queue) \/ (queue'[k] = r /\ r \notin P \cup Ids)
      /\ \A k, l \in DOMAIN queue' : queue'[k] = queue'[l] => k = l
  <2>1. queue \in Seq(Requests) /\ \A k, l \in DOMAIN queue : queue[k] = queue[l] => k = l
    BY DEF TypeOK, Alive, WaitInv
  <2>2. CASE queue' = queue
    BY <2>1, <2>2, ReadFirst DEF Alive
  <2>3. CASE queue' = Append(queue, r) /\ r \notin P \cup Ids
    <3>1. /\ queue' \in Seq(Requests) /\ Len(queue') = Len(queue) + 1
          /\ \A k \in 1 .. Len(queue) : queue'[k] = queue[k]
          /\ queue'[Len(queue) + 1] = r
      BY <2>1, <2>3, AppendProperties
    <3>2. DOMAIN queue' = 1 .. Len(queue) + 1 /\ DOMAIN queue = 1 .. Len(queue) /\ Len(queue) \in Nat
      BY <2>1, <3>1, LenProperties
    <3>3. \A k \in DOMAIN queue' : \/ k \in DOMAIN queue /\ queue'[k] = queue[k] /\ queue[k] \in ToSet(queue)
                                   \/ k = Len(queue) + 1 /\ queue'[k] = r
      BY <3>1, <3>2 DEF ToSet
    <3> QED
      BY <1>3, <2>1, <2>3, <3>3
  <2> QED
    BY <2>2, <2>3
<1>5. \A k \in DOMAIN queue' : /\ queue'[k] \in Requests \ (P \cup Ids)
                               /\ queue'[k] \in ToSet(queue) \/ tag[queue'[k]] = NoTag
  <2>1. \A q \in ToSet(queue) : q \in Requests \ Ids /\ tag[q] # NoTag
    BY ReadFirst DEF Alive
  <2>2. \A q \in ToSet(queue) : q \notin P
    BY <1>2, <1>3, <2>1
  <2> QED
    BY <1>4, <2>1, <2>2
<1>6. \A q \in ToSet(queue') : q \in ToSet(queue) \/ q = r
  BY <1>4 DEF ToSet
<1>7. \A q \in Requests : tag'[q] = NoTag =>
          tag[q] = NoTag /\ q \notin P /\ q \notin ToSet(queue') /\ (q \in Ids => fate'[q] = "new")
  BY <1>1, <1>2, <1>6 DEF Alive, UnreadInv
<1>8. \A d \in Dispatchers : hand'[d] # NoReq => hand'[d] \in Requests \ P
  <2>1. \A d \in Dispatchers : hand[d] # NoReq => hand[d] \in Requests /\ hand[d] # r
    BY ReadFirst DEF Alive
  <2>2. \A q \in Ids : fate[q] = "queued" => \A d \in Dispatchers : hand[d] # q
    BY ReadFirst DEF Alive, Untouched
  <2> QED
    BY <2>1, <2>2
<1>9. \A q \in Ids : fate'[q] = "queued" => q \notin P /\ (fate[q] = "queued" \/ tag[q] = NoTag)
  OBVIOUS
<1>10. hand'[V1] \notin Ids /\ hand'[V2] \in Ids \cup {NoReq}
  BY DEF Alive, HandInv
<1>11. UnreadInv' /\ WaitInv' /\ HandInv'
  BY <1>4, <1>5, <1>7, <1>8, <1>9, <1>10, PlacesKept DEF Alive
<1> QED
  BY <1>11 DEF Alive

\* One answer posted, to a request nobody has answered
LEMMA PostOne ==
    ASSUME TypeOK, DueInv, AnsweredOnce, NEW t \in Threads, NEW r \in Requests, NEW b \in BOOLEAN,
           Unanswered(r), due[t] = <<>>, Post(t, <<[req |-> r, gated |-> b]>>), got' = got
    PROVE  DueInv' /\ AnsweredOnce' /\ \A q \in Requests \ {r} : Unanswered(q) => Unanswered(q)'
<1> DEFINE A == <<[req |-> r, gated |-> b]>>
<1>1. A \in Seq(Answer) /\ DOMAIN A = {1} /\ A[1].req = r
  BY OneAnswer
<1>2. Post(t, A)
  OBVIOUS
<1> HIDE DEF A
<1>3. Posts(t, A)
  BY <1>1, <1>2 DEF Posts
<1>4. (\A k \in DOMAIN A : Unanswered(A[k].req)) /\ \A k, l \in DOMAIN A : A[k].req = A[l].req => k = l
  BY <1>1
<1>5. \A q \in Requests \ {r} : \A k \in DOMAIN A : A[k].req # q
  BY <1>1
<1> QED
  BY <1>3, <1>4, <1>5, PostKeeps

LEMMA RequestStep ==
    ASSUME TypeOK, SchedInv, Alive, NEW s \in Slots, NEW r \in Requests,
           \/ Push(s, r) \/ PushRefused(s, r)
           \/ r \in Ids /\ (EnqueueV2(s, r) \/ Replace(s, r) \/ Overflow(s, r))
    PROVE  Alive'
<1>1. /\ tag[r] = NoTag /\ tag' = [tag EXCEPT ![r] = [slot |-> s, epoch |-> epoch[s]]] /\ due[s] = <<>>
      /\ Profile[Owner[r]] \in {"v1", "v2"} /\ UNCHANGED <<hand, got>> /\ s \in Threads
  BY DEF Push, PushRefused, EnqueueV2, Replace, Overflow, Reads, Reading, Threads
<1>2. Unanswered(r) /\ (r \in Ids => fate[r] = "new")
  BY <1>1 DEF Alive, UnreadInv, Untouched
<1>3. fate \in [Ids -> Fates]
  BY DEF SchedInv, QueueTypeOK
<1>4. CASE Push(s, r)
  <2> DEFINE P == {}
  <2>1. \A q : q \notin P
    OBVIOUS
  <2> HIDE DEF P
  <2>2. queue' = Append(queue, r) /\ UNCHANGED <<due, got, fate>> /\ r \notin Ids
    BY <1>4, IdsAssumption DEF Push, Reads, scheduler
  <2>3. DueInv' /\ AnsweredOnce' /\ \A q \in Requests : Unanswered(q) => Unanswered(q)'
    BY <2>2, QuietKeeps DEF Alive
  <2> QED
    BY <1>1, <2>1, <2>2, <2>3, ReadStep
<1>5. CASE PushRefused(s, r)
  <2>1. Post(s, <<[req |-> r, gated |-> FALSE]>>) /\ UNCHANGED <<queue, fate>> /\ r \notin Ids
    BY <1>5, IdsAssumption DEF PushRefused, Ungated, Reads, scheduler
  <2>2. DueInv' /\ AnsweredOnce' /\ \A q \in Requests \ {r} : Unanswered(q) => Unanswered(q)'
    BY <1>1, <1>2, <2>1, PostOne DEF Alive
  <2> DEFINE P == {r}
  <2>3. \A q : q \in P <=> q = r
    OBVIOUS
  <2> HIDE DEF P
  <2>4. \A q \in Ids : /\ fate'[q] = "queued" => q \notin P /\ (fate[q] = "queued" \/ q = r)
                       /\ q \notin P \cup {r} => fate'[q] = fate[q]
    BY <2>1, <2>3
  <2> QED
    <3>1. hand' = hand /\ queue' = queue /\ tag[r] = NoTag
      BY <1>1, <2>1
    <3>2. \A q \in P : q = r \/ (q \in Ids /\ fate[q] = "queued")
      BY <2>3
    <3>3. \A q \in Requests \ P : Unanswered(q) => Unanswered(q)'
      BY <2>2, <2>3
    <3>4. tag' = [tag EXCEPT ![r] = [slot |-> s, epoch |-> epoch[s]]]
      BY <1>1
    <3> QED
      BY <2>2, <2>4, <3>1, <3>2, <3>3, <3>4, ReadStep
<1>6. CASE r \in Ids /\ EnqueueV2(s, r)
  <2> DEFINE P == {}
  <2>1. \A q : q \notin P
    OBVIOUS
  <2> HIDE DEF P
  <2>2. fate' = [fate EXCEPT ![r] = "queued"] /\ UNCHANGED <<due, got, queue>>
    BY <1>6 DEF EnqueueV2, Enqueue
  <2>3. DueInv' /\ AnsweredOnce' /\ \A q \in Requests : Unanswered(q) => Unanswered(q)'
    BY <2>2, QuietKeeps DEF Alive
  <2>4. \A q \in Ids : /\ fate'[q] = "queued" => q \notin P /\ (fate[q] = "queued" \/ q = r)
                       /\ q \notin P \cup {r} => fate'[q] = fate[q]
    BY <1>3, <2>1, <2>2
  <2> QED
    <3>1. hand' = hand /\ queue' = queue /\ tag[r] = NoTag
      BY <1>1, <2>2
    <3>2. \A q \in P : q = r \/ (q \in Ids /\ fate[q] = "queued")
      BY <2>1
    <3>3. \A q \in Requests \ P : Unanswered(q) => Unanswered(q)'
      BY <2>3
    <3>4. tag' = [tag EXCEPT ![r] = [slot |-> s, epoch |-> epoch[s]]]
      BY <1>1
    <3> QED
      BY <2>3, <2>4, <3>1, <3>2, <3>3, <3>4, ReadStep
<1>7. CASE r \in Ids /\ Replace(s, r)
  <2> DEFINE v == items[Victim].id
  <2>1. PICK p \in Priorities, x \in Named(s) : EnqueueEvict(r, p, x)
    BY <1>7 DEF Replace
  <2>2. /\ v \in Ids /\ fate[v] = "queued" /\ fate' = [fate EXCEPT ![r] = "queued", ![v] = "busy"]
    BY <1>7, <2>1, VictimTold DEF Named
  <2>3. Post(s, <<[req |-> v, gated |-> FALSE]>>) /\ UNCHANGED queue
    BY <1>7 DEF Replace, Ungated
  <2> HIDE DEF v
  <2>4. v \in Requests /\ Unanswered(v) /\ v # r
    BY <1>2, <1>7, <2>2, ReadFirst, IdsAssumption DEF Alive, Untouched
  <2>5. DueInv' /\ AnsweredOnce' /\ \A q \in Requests \ {v} : Unanswered(q) => Unanswered(q)'
    BY <1>1, <2>3, <2>4, PostOne DEF Alive
  <2>6. fate'[v] = "busy" /\ \A q \in Ids : q # r /\ q # v => fate'[q] = fate[q]
    BY <1>3, <2>2, <2>4
  <2> DEFINE P == {v}
  <2>7. \A q : q \in P <=> q = v
    OBVIOUS
  <2> HIDE DEF P
  <2>8. \A q \in Ids : /\ fate'[q] = "queued" => q \notin P /\ (fate[q] = "queued" \/ q = r)
                       /\ q \notin P \cup {r} => fate'[q] = fate[q]
    BY <2>6, <2>7
  <2> QED
    <3>1. hand' = hand /\ queue' = queue /\ tag[r] = NoTag
      BY <1>1, <2>3
    <3>2. \A q \in P : q = r \/ (q \in Ids /\ fate[q] = "queued")
      BY <2>2, <2>7
    <3>3. \A q \in Requests \ P : Unanswered(q) => Unanswered(q)'
      BY <2>5, <2>7
    <3>4. tag' = [tag EXCEPT ![r] = [slot |-> s, epoch |-> epoch[s]]]
      BY <1>1
    <3> QED
      BY <2>5, <2>7, <2>8, <3>1, <3>2, <3>3, <3>4, ReadStep
<1>8. CASE r \in Ids /\ Overflow(s, r)
  <2>1. Post(s, <<[req |-> r, gated |-> FALSE]>>) /\ UNCHANGED queue /\ fate' = [fate EXCEPT ![r] = "busy"]
    BY <1>8 DEF Overflow, Ungated, EnqueueRefused
  <2>2. DueInv' /\ AnsweredOnce' /\ \A q \in Requests \ {r} : Unanswered(q) => Unanswered(q)'
    BY <1>1, <1>2, <2>1, PostOne DEF Alive
  <2>3. fate'[r] = "busy" /\ \A q \in Ids : q # r => fate'[q] = fate[q]
    BY <1>3, <1>8, <2>1
  <2> DEFINE P == {r}
  <2>4. \A q : q \in P <=> q = r
    OBVIOUS
  <2> HIDE DEF P
  <2>5. \A q \in Ids : /\ fate'[q] = "queued" => q \notin P /\ (fate[q] = "queued" \/ q = r)
                       /\ q \notin P \cup {r} => fate'[q] = fate[q]
    BY <2>3, <2>4
  <2> QED
    <3>1. hand' = hand /\ queue' = queue /\ tag[r] = NoTag
      BY <1>1, <2>1
    <3>2. \A q \in P : q = r \/ (q \in Ids /\ fate[q] = "queued")
      BY <2>4
    <3>3. \A q \in Requests \ P : Unanswered(q) => Unanswered(q)'
      BY <2>2, <2>4
    <3>4. tag' = [tag EXCEPT ![r] = [slot |-> s, epoch |-> epoch[s]]]
      BY <1>1
    <3> QED
      BY <2>2, <2>4, <2>5, <3>1, <3>2, <3>3, <3>4, ReadStep
<1> QED
  BY <1>4, <1>5, <1>6, <1>7, <1>8

\* A session is dropped, at the client's wish or with its connection; fate is
\* all the teardown leaves of its requests.
LEMMA SessionStep ==
    ASSUME TypeOK, SchedInv, Alive, NEW s \in Slots, NEW x \in Sessions,
           Teardown(s, x) \/ OpenSession(s, x) \/ CloseSession(s, x)
    PROVE  Alive'
<1>1. UNCHANGED <<tag, queue, hand, got>>
  BY DEF Teardown, OpenSession, CloseSession
<1>2. ASSUME DropSession(x) \/ UNCHANGED scheduler
      PROVE  \A r \in Ids : \/ fate'[r] = fate[r]
                            \/ fate'[r] = "dropped" /\ fate[r] = "queued"
  <2>1. CASE UNCHANGED scheduler
    BY <2>1 DEF scheduler
  <2>2. CASE DropSession(x)
    <3>1. fate' = [i \in Ids |-> IF \E it \in OfSession(x) : it.id = i THEN "dropped" ELSE fate[i]]
      BY <2>2 DEF DropSession, Told
    <3>2. \A it \in OfSession(x) : it \in ToSet(items)
      BY DEF OfSession
    <3> QED
      BY <3>1, <3>2 DEF SchedInv, QueueInv
  <2> QED
    BY <1>2, <2>1, <2>2
<1>3. CASE Teardown(s, x) \/ OpenSession(s, x)
  <2>1. (DropSession(x) \/ UNCHANGED scheduler) /\ UNCHANGED due
    BY <1>3 DEF Teardown, OpenSession
  <2> QED
    BY <1>1, <1>2, <2>1, SilentStep
<1>4. CASE CloseSession(s, x)
  <2> DEFINE dropped == Part(items, {k \in DOMAIN items : items[k].session = x})
             A == Busied(x)
             P == {A[k].req : k \in DOMAIN A}
  <2>1. Post(s, A) /\ due[s] = <<>> /\ (dropped # <<>> => DropSession(x)) /\ (dropped = <<>> => UNCHANGED scheduler)
    BY <1>4 DEF CloseSession, Reading, Busied
  <2>3. \A k \in DOMAIN A : dropped # <<>>
    BY DEF Busied
  <2> HIDE DEF A, dropped, P
  <2>4. /\ A \in Seq(Answer)
        /\ \A k \in DOMAIN A : A[k].req \in Ids /\ fate[A[k].req] = "queued"
                               /\ \E it \in OfSession(x) : it.id = A[k].req
        /\ \A k, l \in DOMAIN A : A[k].req = A[l].req => k = l
    BY DroppedLemma DEF A
  <2>5. \A q \in P : q \in Ids /\ fate[q] = "queued" /\ fate'[q] = "dropped"
    <3>1. ASSUME NEW k \in DOMAIN A PROVE fate'[A[k].req] = "dropped"
      <4>1. fate' = [i \in Ids |-> IF \E it \in OfSession(x) : it.id = i THEN "dropped" ELSE fate[i]]
        BY <2>1, <2>3 DEF DropSession, Told
      <4> QED
        BY <2>4, <4>1
    <3> QED
      BY <2>4, <3>1 DEF P
  <2>6. \A k \in DOMAIN A : Unanswered(A[k].req)
    BY <2>4, ReadFirst DEF Alive, Untouched
  <2>7. Posts(s, A)
    BY <2>1, <2>4 DEF Posts, Threads
  <2>8. DueInv' /\ AnsweredOnce' /\ \A q \in Requests \ P : Unanswered(q) => Unanswered(q)'
    BY <1>1, <2>4, <2>6, <2>7, PostKeeps DEF Alive, P
  <2>9. /\ \A q \in Ids : /\ fate[q] = "new" /\ q \notin P => fate'[q] = "new"
                          /\ fate'[q] = "queued" => fate[q] = "queued" /\ q \notin P
    BY <1>2, <2>1, <2>5
  <2>10. /\ \A q \in ToSet(queue) : q \notin P
         /\ \A q \in Requests : tag[q] = NoTag => q \notin P
         /\ \A d \in Dispatchers : hand[d] # NoReq => hand[d] \notin P
    BY <2>5, ReadFirst DEF Alive, Untouched
  <2> QED
    BY <1>1, <2>8, <2>9, <2>10, AnswerStep DEF Alive
<1> QED
  BY <1>3, <1>4

\* A dispatcher takes a request, tells one that it is late, or answers
LEMMA DispatchStep ==
    ASSUME TypeOK, SchedInv, Alive, NEW d \in Dispatchers, Dispatching(d)
    PROVE  Alive'
<1>1. CASE PopV1(d)
  <2> DEFINE P == {}
  <2>1. \A q : q \notin P
    OBVIOUS
  <2> HIDE DEF P
  <2>2. /\ d = V1 /\ hand[V1] = NoReq /\ queue # <<>> /\ queue' = Tail(queue)
        /\ hand' = [hand EXCEPT ![V1] = Head(queue)] /\ UNCHANGED <<tag, fate, due, got>>
    BY <1>1 DEF PopV1, Ready, scheduler
  <2>3. /\ Head(queue) = queue[1] /\ 1 \in DOMAIN queue /\ ToSet(queue') \subseteq ToSet(queue)
        /\ \A n \in DOMAIN queue' : n + 1 \in DOMAIN queue /\ n + 1 # 1 /\ queue'[n] = queue[n + 1]
    BY <2>2, PopQueue
  <2>4. DueInv' /\ AnsweredOnce' /\ \A q \in Requests : Unanswered(q) => Unanswered(q)'
    BY <2>2, QuietKeeps DEF Alive
  <2>5. \A k \in DOMAIN queue' : queue'[k] \in ToSet(queue) /\ queue'[k] \in Requests \ Ids
    BY <2>3, ReadFirst DEF Alive
  <2>6. \A k, l \in DOMAIN queue : queue[k] = queue[l] => k = l
    BY DEF Alive, WaitInv
  <2>7. /\ \A n \in DOMAIN queue' : n \in Int /\ queue'[n] # queue[1]
        /\ \A k, l \in DOMAIN queue' : queue'[k] = queue'[l] => k = l
    <3>1. \A n \in DOMAIN queue' : n \in Int
      BY <2>2, LenProperties, HeadTailProperties, SMT DEF TypeOK
    <3>2. \A n \in DOMAIN queue' : queue'[n] # queue[1]
      BY <2>3, <2>6
    <3>3. ASSUME NEW k \in DOMAIN queue', NEW l \in DOMAIN queue', queue'[k] = queue'[l] PROVE k = l
      <4>1. k + 1 = l + 1
        BY <2>3, <2>6, <3>3
      <4> QED
        BY <3>1, <4>1
    <3> QED
      BY <3>1, <3>2, <3>3
  <2>8. queue[1] \notin ToSet(queue')
    BY <2>7 DEF ToSet
  <2>9. queue[1] \in Requests \ Ids /\ tag[queue[1]] # NoTag /\ Untouched(queue[1])
    BY <2>3, ReadFirst DEF Alive
  <2>10. /\ hand'[V1] = queue[1] /\ hand'[V2] = hand[V2]
         /\ \A e \in Dispatchers : e = V1 \/ e = V2
    BY <2>2, <2>3, ClientsAssumption DEF TypeOK, Dispatchers
  <2>11. \A q \in Requests : tag'[q] = NoTag =>
             tag[q] = NoTag /\ q \notin P /\ q \notin ToSet(queue') /\ (q \in Ids => fate'[q] = "new")
    BY <2>1, <2>2, <2>3 DEF Alive, UnreadInv
  <2>12. hand'[V1] \notin Ids /\ hand'[V2] \in Ids \cup {NoReq}
    BY <2>9, <2>10 DEF Alive, HandInv
  <2>13. \A e \in Dispatchers : hand'[e] # NoReq =>
             /\ hand'[e] \in Requests \ P
             /\ hand'[e] # hand[e] =>
                  /\ Untouched(hand'[e]) /\ tag'[hand'[e]] # NoTag /\ hand'[e] \notin ToSet(queue')
                  /\ hand'[e] \in Ids => fate'[hand'[e]] # "queued"
    <3>1. hand[V2] # NoReq => hand[V2] \in Requests
      BY <2>12, <2>10, IdsAssumption
    <3> QED
      BY <2>1, <2>2, <2>8, <2>9, <2>10, <3>1
  <2>14. UnreadInv' /\ WaitInv' /\ HandInv'
    BY <2>1, <2>2, <2>4, <2>5, <2>7, <2>11, <2>12, <2>13, PlacesKept DEF Alive
  <2> QED
    BY <2>4, <2>14 DEF Alive
<1>2. CASE PopV2(d)
  <2> DEFINE r == Head(items).id
  <2>1. Head(items) = items[1] /\ items[1] \in ToSet(items)
    BY <1>2, PopLemma DEF PopV2
  <2>2. r \in Ids /\ fate[r] = "queued"
    <3>1. items[1] \in Item
      BY <2>1, ToSetLemma DEF SchedInv, QueueTypeOK
    <3> QED
      BY <2>1, <3>1 DEF SchedInv, QueueInv, Item
  <2>3. /\ d = V2 /\ hand[V2] = NoReq /\ due[V2] = <<>> /\ UNCHANGED <<tag, queue, got>>
        /\ fate' = [fate EXCEPT ![r] = IF r \in late THEN "timeout" ELSE "dispatched"]
    BY <1>2 DEF PopV2, Ready, Pop
  <2>4. IF r \in late THEN Post(V2, <<[req |-> r, gated |-> TRUE]>>) /\ UNCHANGED hand
                      ELSE hand' = [hand EXCEPT ![V2] = r] /\ UNCHANGED due
    BY <1>2, <2>3 DEF PopV2, Gated
  <2> HIDE DEF r
  <2>5. fate'[r] \in {"timeout", "dispatched"} /\ \A q \in Ids : q # r => fate'[q] = fate[q]
    BY <2>2, <2>3 DEF SchedInv, QueueTypeOK
  <2>6. r \in Requests /\ tag[r] # NoTag /\ Untouched(r) /\ Unanswered(r) /\ r \notin ToSet(queue)
    BY <2>2, ReadFirst, IdsAssumption DEF Alive, Untouched
  <2>7. CASE r \in late
    <3> DEFINE P == {r}
    <3>1. \A q : q \in P <=> q = r
      OBVIOUS
    <3> HIDE DEF P
    <3>2. DueInv' /\ AnsweredOnce' /\ \A q \in Requests \ {r} : Unanswered(q) => Unanswered(q)'
      BY <2>3, <2>4, <2>6, <2>7, PostOne DEF Alive, Threads, Dispatchers
    <3>3. \A q \in Requests \ P : Unanswered(q) => Unanswered(q)'
      BY <3>1, <3>2
    <3>4. (\A q \in ToSet(queue) : q \notin P) /\ (\A q \in Requests : tag[q] = NoTag => q \notin P)
      BY <2>6, <3>1
    <3>5. \A q \in Ids : /\ fate[q] = "new" /\ q \notin P => fate'[q] = "new"
                         /\ fate'[q] = "queued" => fate[q] = "queued" /\ q \notin P
      BY <2>5, <3>1
    <3>6. \A e \in Dispatchers : hand'[e] = NoReq \/ (hand'[e] = hand[e] /\ hand[e] \notin P)
      BY <2>4, <2>6, <2>7, <3>1 DEF Untouched
    <3> QED
      BY <2>3, <3>2, <3>3, <3>4, <3>5, <3>6, AnswerStep DEF Alive
  <2>8. CASE r \notin late
    <3> DEFINE P == {}
    <3>1. \A q : q \notin P
      OBVIOUS
    <3> HIDE DEF P
    <3>2. DueInv' /\ AnsweredOnce' /\ \A q \in Requests : Unanswered(q) => Unanswered(q)'
      BY <2>3, <2>4, <2>8, QuietKeeps DEF Alive
    <3>3. /\ hand'[V2] = r /\ hand'[V1] = hand[V1]
          /\ \A e \in Dispatchers : e = V1 \/ e = V2
      BY <2>4, <2>8, ClientsAssumption DEF TypeOK, Dispatchers
    <3>4. \A q \in Requests : tag'[q] = NoTag =>
               tag[q] = NoTag /\ q \notin P /\ q \notin ToSet(queue') /\ (q \in Ids => fate'[q] = "new")
      BY <2>3, <2>5, <2>6, <3>1 DEF Alive, UnreadInv
    <3>5. \A q \in Ids : fate'[q] = "queued" => q \notin P /\ (fate[q] = "queued" \/ tag[q] = NoTag)
      BY <2>5, <3>1
    <3>6. /\ \A k \in DOMAIN queue' : queue'[k] \in Requests \ (P \cup Ids) /\ queue'[k] \in ToSet(queue)
          /\ \A k, l \in DOMAIN queue' : queue'[k] = queue'[l] => k = l
      BY <2>3, <3>1, ReadFirst DEF Alive, WaitInv
    <3>7. hand'[V1] \notin Ids /\ hand'[V2] \in Ids \cup {NoReq}
      BY <2>2, <3>3 DEF Alive, HandInv
    <3>8. \A e \in Dispatchers : hand'[e] # NoReq =>
               /\ hand'[e] \in Requests \ P
               /\ hand'[e] # hand[e] =>
                    /\ Untouched(hand'[e]) /\ tag'[hand'[e]] # NoTag /\ hand'[e] \notin ToSet(queue')
                    /\ hand'[e] \in Ids => fate'[hand'[e]] # "queued"
      <4>1. hand[V1] # NoReq => hand[V1] \in Requests
        BY ReadFirst DEF Alive, Dispatchers
      <4> QED
        BY <2>3, <2>5, <2>6, <3>1, <3>3, <4>1
    <3>9. UnreadInv' /\ WaitInv' /\ HandInv'
      BY <3>1, <3>2, <3>4, <3>5, <3>6, <3>7, <3>8, PlacesKept DEF Alive
    <3> QED
      BY <3>2, <3>9 DEF Alive
  <2> QED
    BY <2>7, <2>8
<1>3. CASE Finish(d)
  <2> DEFINE r == hand[d]
             P == {r}
  <2>1. /\ r # NoReq /\ due[d] = <<>> /\ hand' = [hand EXCEPT ![d] = NoReq]
        /\ Post(d, <<[req |-> r, gated |-> TRUE]>>) /\ UNCHANGED <<tag, queue, fate, got>> /\ d \in Threads
    BY <1>3 DEF Finish, Gated, scheduler, Threads
  <2>2. \A q : q \in P <=> q = r
    OBVIOUS
  <2>3. r \in Requests /\ tag[r] # NoTag /\ Unanswered(r)
    BY <2>1, ReadFirst DEF Alive, HandInv
  <2>4. /\ \A q \in ToSet(queue) : q # r
        /\ \A q \in Ids : fate[q] = "queued" => q # r
    BY ReadFirst DEF Alive, Untouched
  <2>5. \A e \in Dispatchers : hand'[e] = NoReq \/ (hand'[e] = hand[e] /\ hand[e] # r)
    BY <2>1 DEF TypeOK, Alive, HandInv, Dispatchers
  <2> HIDE DEF P, r
  <2>6. DueInv' /\ AnsweredOnce' /\ \A q \in Requests \ {r} : Unanswered(q) => Unanswered(q)'
    BY <2>1, <2>3, PostOne DEF Alive
  <2>7. \A q \in Requests \ P : Unanswered(q) => Unanswered(q)'
    BY <2>2, <2>6
  <2>8. (\A q \in ToSet(queue) : q \notin P) /\ (\A q \in Requests : tag[q] = NoTag => q \notin P)
    BY <2>2, <2>3, <2>4
  <2>9. \A q \in Ids : /\ fate[q] = "new" /\ q \notin P => fate'[q] = "new"
                       /\ fate'[q] = "queued" => fate[q] = "queued" /\ q \notin P
    BY <2>1, <2>2, <2>4
  <2>10. \A e \in Dispatchers : hand'[e] = NoReq \/ (hand'[e] = hand[e] /\ hand[e] \notin P)
    BY <2>2, <2>5
  <2> QED
    BY <2>1, <2>6, <2>7, <2>8, <2>9, <2>10, AnswerStep DEF Alive
<1> QED
  BY <1>1, <1>2, <1>3 DEF Dispatching

-----------------------------------------------------------------------------
(* The write lock                                                          *)

\* Outside WriteFrameImpl no writer, and nothing a writer owes, changes.
LEMMA WriteEffects ==
    ASSUME TypeOK, SchedInv, Next, \A t \in Threads : ~Writing(t)
    PROVE  /\ write' = write
           /\ due' = due \/ \E t \in Threads, A \in Seq(Answer) : Posts(t, A)
           /\ \/ tag' = tag
              \/ \E s \in Slots, r \in Requests :
                   tag[r] = NoTag /\ tag' = [tag EXCEPT ![r] = [slot |-> s, epoch |-> epoch[s]]]
<1>1. due' = due \/ \E t \in Threads, A \in Seq(Answer) : Posts(t, A)
  BY PostedTypes DEF Writing
<1>2. ASSUME NEW s \in Slots, Closing(s) \/ \E c \in Clients : Accept(s, c) PROVE UNCHANGED <<write, tag>>
  BY <1>2 DEF Closing, SessionEnds, Bump, Purge, ClosePipe, Disconnect, Accept
<1>3. write' = write
  BY <1>2 DEF Next, Leave, Teardown, OpenSession, CloseSession, Push, PushRefused, EnqueueV2, Replace, Overflow,
              Expires, Dispatching, PopV1, PopV2, Finish
<1>4. \/ tag' = tag
      \/ \E s \in Slots, r \in Requests :
           tag[r] = NoTag /\ tag' = [tag EXCEPT ![r] = [slot |-> s, epoch |-> epoch[s]]]
  BY <1>2, SlotEffects DEF SlotFrame
<1> QED
  BY <1>1, <1>3, <1>4

\* Who writes has an answer to write, and only the write itself takes it away.
LEMMA WriterStep ==
    ASSUME TypeOK, SchedInv, Alive, WriteInv, Next
    PROVE  WriteInv'
<1>1. ASSUME NEW t \in Threads, due[t] # <<>>
      PROVE  /\ Head(due[t]) = due[t][1] /\ Head(due[t]).req \in Requests /\ tag[Head(due[t]).req] # NoTag
             /\ Current(t).slot \in Slots
  <2>1. due[t] \in Seq(Answer) /\ Len(due[t]) # 0 /\ DOMAIN due[t] = 1 .. Len(due[t]) /\ Len(due[t]) \in Nat
    BY <1>1, LenProperties, EmptySeq DEF TypeOK
  <2>2. Head(due[t]) = due[t][1] /\ 1 \in DOMAIN due[t] /\ due[t][1] \in Answer
    BY <1>1, <2>1, HeadTailProperties, ElementOfSeq
  <2>3. Head(due[t]).req \in Requests /\ ~Unanswered(Head(due[t]).req)
    BY <2>2 DEF Answer, Unanswered, Owes
  <2>4. tag[Head(due[t]).req] # NoTag
    BY <2>3, ReadFirst DEF Alive
  <2> QED
    BY <2>2, <2>3, <2>4 DEF TypeOK, Current
<1>2. ASSUME NEW s \in Slots, write[s] # NoWrite
      PROVE  write[s].by \in Threads /\ due[write[s].by] # <<>> /\ tag[Head(due[write[s].by]).req].slot = s
  <2>1. write[s].by \in Threads
    BY <1>2 DEF TypeOK
  <2> QED
    BY <1>2, <2>1 DEF WriteInv, Current
<1>3. CASE \A t \in Threads : ~Writing(t)
  <2> SUFFICES ASSUME NEW s \in Slots, write'[s] # NoWrite, NEW t, t = write[s].by
               PROVE  due'[t] # <<>> /\ tag'[Head(due'[t]).req].slot = s
    BY <1>3, WriteEffects DEF WriteInv, Current
  <2>1. write[s] # NoWrite /\ t \in Threads /\ due[t] # <<>> /\ tag[Head(due[t]).req].slot = s
    BY <1>2, <1>3, WriteEffects
  <2>2. due'[t] = due[t]
    <3>1. ASSUME NEW u \in Threads, NEW A \in Seq(Answer), Posts(u, A) PROVE due'[t] = due[t]
      BY <2>1, <3>1, PostTypes DEF Posts
    <3> QED
      BY <1>3, <3>1, WriteEffects
  <2>3. tag'[Head(due[t]).req] = tag[Head(due[t]).req]
    <3>1. Head(due[t]).req \in Requests /\ tag[Head(due[t]).req] # NoTag
      BY <1>1, <2>1
    <3> QED
      BY <1>3, <3>1, WriteEffects DEF TypeOK
  <2> QED
    BY <2>1, <2>2, <2>3
<1>4. ASSUME NEW t \in Threads, DropStale(t) PROVE WriteInv'
  <2>1. /\ due[t] # <<>> /\ write[Current(t).slot] = NoWrite
        /\ due' = [due EXCEPT ![t] = Tail(@)] /\ UNCHANGED <<write, tag>>
    BY <1>4 DEF DropStale
  <2> SUFFICES ASSUME NEW s \in Slots, write[s] # NoWrite, NEW u, u = write[s].by
               PROVE  due'[u] # <<>> /\ tag[Head(due'[u]).req].slot = s
    BY <2>1 DEF WriteInv, Current
  <2>2. u \in Threads /\ due[u] # <<>> /\ tag[Head(due[u]).req].slot = s
    BY <1>2
  <2>3. u # t
    BY <2>1, <2>2 DEF Current
  <2>4. due'[u] = due[u]
    BY <2>1, <2>2, <2>3 DEF TypeOK
  <2> QED
    BY <2>2, <2>4
<1>5. ASSUME NEW t \in Threads, BeginWrite(t) PROVE WriteInv'
  <2> DEFINE w == Current(t).slot
  <2>1. /\ due[t] # <<>> /\ write' = [write EXCEPT ![w] = [by |-> t, to |-> wpipe[w]]]
        /\ UNCHANGED <<due, tag>>
    BY <1>5 DEF BeginWrite
  <2>2. w \in Slots
    BY <1>1, <2>1
  <2> SUFFICES ASSUME NEW s \in Slots, write'[s] # NoWrite, NEW u, u = write'[s].by
               PROVE  due[u] # <<>> /\ tag[Head(due[u]).req].slot = s
    BY <2>1 DEF WriteInv, Current
  <2>3. CASE s = w
    <3>1. u = t
      BY <2>1, <2>2, <2>3 DEF TypeOK
    <3> QED
      BY <2>1, <2>3, <3>1 DEF Current
  <2>4. CASE s # w
    <3>1. write'[s] = write[s]
      BY <2>1, <2>4 DEF TypeOK
    <3> QED
      BY <1>2, <3>1
  <2> QED
    BY <2>3, <2>4
<1>6. ASSUME NEW t \in Threads, EndWrite(t) PROVE WriteInv'
  <2>1. PICK w \in Slots : /\ write[w].by = t /\ write' = [write EXCEPT ![w] = NoWrite]
                           /\ due' = [due EXCEPT ![t] = Tail(@)] /\ tag' = tag
    BY <1>6 DEF EndWrite
  <2>2. due[t] # <<>> /\ tag[Head(due[t]).req].slot = w
    BY <2>1, WriterLemma DEF Current
  <2> SUFFICES ASSUME NEW s \in Slots, write'[s] # NoWrite, NEW u, u = write'[s].by
               PROVE  due'[u] # <<>> /\ tag[Head(due'[u]).req].slot = s
    BY <2>1 DEF WriteInv, Current
  <2>3. s # w /\ write'[s] = write[s]
    BY <2>1 DEF TypeOK
  <2>4. u \in Threads /\ due[u] # <<>> /\ tag[Head(due[u]).req].slot = s
    BY <1>2, <2>3
  <2>5. u # t
    BY <2>2, <2>3, <2>4
  <2>6. due'[u] = due[u]
    BY <2>1, <2>4, <2>5 DEF TypeOK
  <2> QED
    BY <2>4, <2>6
<1> QED
  BY <1>3, <1>4, <1>5, <1>6 DEF Writing

-----------------------------------------------------------------------------
(* The invariant                                                           *)

IInv == EpochInv /\ SchedInv /\ OnceInv

LEMMA InitHolds == Init => IInv
<1> SUFFICES ASSUME Init PROVE IInv
  OBVIOUS
<1>1. SchedInv
  BY SchedInit DEF Init
<1>2. TypeOK
  <2>1. QueueTypeOK
    BY <1>1 DEF SchedInv
  <2>2. queue \in Seq(Requests) /\ Len(queue) <= MaxQueue + 1
    BY LimitsAssumption DEF Init
  <2>3. due \in [Threads -> Seq(Answer)] /\ write \in [Slots -> [by : Threads, to : Handles \cup {0}] \cup {NoWrite}]
    BY DEF Init
  <2>4. tag \in [Requests -> [slot : Slots, epoch : Nat] \cup {NoTag}]
    BY DEF Init
  <2> QED
    BY <2>1, <2>2, <2>3, <2>4 DEF TypeOK, Init
<1>3. SlotInv /\ EpochNamesClient /\ WriteInv
  BY DEF Init, SlotInv, EpochNamesClient, WriteInv
<1>4. DOMAIN queue = {} /\ ToSet(queue) = {} /\ \A t \in Threads : DOMAIN due[t] = {}
  BY DEF Init, ToSet
<1>5. \A r \in Requests : Untouched(r)
  BY <1>4, ClientsAssumption DEF Init, Untouched, Unanswered, Owes
<1>6. \A r \in Ids : fate[r] = "new"
  BY DEF Init, QueueInit
<1>7. QueueIsOfTheLiving /\ UnreadInv /\ WaitInv
  BY <1>4, <1>5, <1>6 DEF QueueIsOfTheLiving, UnreadInv, WaitInv
<1>8. HandInv
  BY ClientsAssumption, IdsAssumption DEF Init, HandInv, Dispatchers
<1>9. DueInv /\ AnsweredOnce
  BY <1>4 DEF Init, DueInv, AnsweredOnce
<1> QED
  BY <1>1, <1>2, <1>3, <1>7, <1>8, <1>9 DEF IInv, EpochInv, OnceInv

\* What a step does to the places of the requests
LEMMA PlaceStep ==
    ASSUME IInv, Next
    PROVE  Alive'
<1>1. TypeOK /\ SchedInv /\ SlotInv /\ WriteInv /\ Alive
  BY DEF IInv, EpochInv, OnceInv, Alive
<1>2. ASSUME UNCHANGED <<tag, queue, hand, due, got, fate>> PROVE Alive'
  BY <1>1, <1>2, SilentStep
<1>3. ASSUME NEW s \in Slots, NEW c \in Clients, Accept(s, c) PROVE Alive'
  BY <1>2, <1>3 DEF Accept, scheduler
<1>4. ASSUME NEW s \in Slots, Closing(s) PROVE Alive'
  <2>1. CASE Purge(s)
    BY <1>1, <2>1, PurgeStep
  <2>2. CASE SessionEnds(s) \/ Bump(s) \/ ClosePipe(s) \/ Disconnect(s)
    BY <1>2, <2>2 DEF SessionEnds, Bump, ClosePipe, Disconnect, scheduler
  <2> QED
    BY <1>4, <2>1, <2>2 DEF Closing
<1>5. ASSUME NEW c \in Clients, Leave(c) PROVE Alive'
  BY <1>2, <1>5 DEF Leave, scheduler
<1>6. ASSUME NEW s \in Slots, NEW x \in Sessions, Teardown(s, x) \/ OpenSession(s, x) \/ CloseSession(s, x)
      PROVE  Alive'
  BY <1>1, <1>6, SessionStep
<1>7. ASSUME NEW s \in Slots, NEW r \in Requests, Push(s, r) \/ PushRefused(s, r) PROVE Alive'
  BY <1>1, <1>7, RequestStep
<1>8. ASSUME NEW s \in Slots, NEW r \in Ids, EnqueueV2(s, r) \/ Replace(s, r) \/ Overflow(s, r) PROVE Alive'
  <2>1. r \in Requests
    BY IdsAssumption
  <2> QED
    BY <1>1, <1>8, <2>1, RequestStep
<1>9. ASSUME NEW r \in Ids, Expires(r) PROVE Alive'
  BY <1>2, <1>9 DEF Expires, DeadlinePasses
<1>10. ASSUME NEW d \in Dispatchers, Dispatching(d) PROVE Alive'
  BY <1>1, <1>10, DispatchStep
<1>11. ASSUME NEW t \in Threads, Writing(t) PROVE Alive'
  BY <1>1, <1>11, WriteStep
<1> QED
  BY <1>3, <1>4, <1>5, <1>6, <1>7, <1>8, <1>9, <1>10, <1>11 DEF Next

LEMMA NextHolds == IInv /\ [Next]_vars => IInv'
<1> SUFFICES ASSUME IInv, [Next]_vars PROVE IInv'
  OBVIOUS
<1>1. SchedInv'
  BY SchedRefines, SchedNext DEF IInv
<1>2. CASE UNCHANGED vars
  <2>1. EpochInv'
    BY <1>2 DEF IInv, EpochInv, vars, slots, scheduler, TypeOK, SlotInv, EpochNamesClient, QueueIsOfTheLiving,
                QueueTypeOK
  <2>2. OnceInv'
    BY <1>2 DEF IInv, OnceInv, vars, slots, scheduler, UnreadInv, WaitInv, HandInv, DueInv, WriteInv, AnsweredOnce,
                Untouched, Unanswered, Owes, Current
  <2> QED
    BY <1>1, <2>1, <2>2 DEF IInv
<1>3. CASE Next
  <2>1. TypeOK /\ SchedInv /\ SlotInv /\ EpochNamesClient /\ QueueIsOfTheLiving /\ WriteInv /\ UnreadInv /\ Alive
    BY DEF IInv, EpochInv, OnceInv, Alive
  <2>2. TypeOK' /\ WriteInv' /\ SlotInv' /\ EpochNamesClient' /\ QueueIsOfTheLiving'
    BY <1>3, <2>1, TypeStep, WriterStep, SlotStep
  <2>3. Alive'
    BY <1>3, PlaceStep
  <2> QED
    BY <1>1, <2>2, <2>3 DEF IInv, EpochInv, OnceInv, Alive
<1> QED
  BY <1>2, <1>3

\* Every reachable state of the host satisfies the invariant.
THEOREM Invariance == Spec => []IInv
<1>1. IInv /\ UNCHANGED vars => IInv'
  BY NextHolds
<1> QED
  BY InitHolds, NextHolds, PTL DEF Spec

\* Types; an epoch that still matches a request's names the client that asked;
\* and the v1 queue holds no job of a session that was purged
\* (host_main.cpp:497-501, 2752-2758).
THEOREM EpochsCorrect == Spec => []EpochsAreCurrent
<1>1. IInv => EpochsAreCurrent
  BY DEF IInv, EpochInv, EpochsAreCurrent
<1> QED
  BY <1>1, Invariance, PTL

\* No request is answered twice, nor to two clients, whoever ends it: a
\* dispatcher, an eviction, a closed session, an expired deadline.
THEOREM AnsweredCorrect == Spec => []AnsweredOnce
<1>1. IInv => AnsweredOnce
  BY DEF IInv, OnceInv
<1> QED
  BY <1>1, Invariance, PTL

\* The uses of the queue that Connections makes: nothing is lost in the host.
THEOREM HostLosesNothing == Spec => []NothingLost
BY HostUsesScheduler, NothingLostCorrect, PTL
=============================================================================
