------------------------------ MODULE Scheduler ------------------------------
(***************************************************************************)
(* The host's v2 request queue (host_v2_scheduler.cpp): SchedQueue's deque *)
(* under the facade's mutex, with the enqueue sequence.  The callers are   *)
(* the connection threads (Enqueue, DropSession) and the v2 dispatcher     *)
(* (Pop); one action is one hold of the mutex.  The clock is abstracted to *)
(* the set of requests whose deadline has passed.  fate records what the   *)
(* caller is told to answer for each request.  The queue's whole           *)
(* definitions are named Queue*, as Connections extends this module.       *)
(***************************************************************************)
EXTENDS Integers, FiniteSets, SequencesExt

CONSTANTS Ids,        \* requests
          Priorities, \* raw priorities of the requests, not yet clamped
          Sessions,   \* session ids; 0 is a sessionless request
          Depth       \* kSchedulerQueueDepth

ASSUME DepthAssumption == Depth \in Nat \ {0}
ASSUME InputsAssumption == Priorities \subseteq Int /\ 0 \notin Sessions

VARIABLES items,    \* SchedQueue::items_
          next_seq, \* Scheduler::next_seq_
          late,     \* requests with now_ms >= deadline_ms
          fate

scheduler == <<items, next_seq, late, fate>>

Fates == {"new", "queued", "dispatched", "timeout", "busy", "dropped"}
Item == [id : Ids, enqueue_seq : Nat, priority : 0 .. 9, drop_eligible : BOOLEAN,
         session : Sessions \cup {0}]

QueueTypeOK ==
    /\ items \in Seq(Item) /\ Len(items) <= Depth
    /\ next_seq \in Nat \ {0}
    /\ late \subseteq Ids
    /\ fate \in [Ids -> Fates]

QueueInit ==
    /\ items = <<>> /\ next_seq = 1 /\ late = {}
    /\ fate = [i \in Ids |-> "new"]

-----------------------------------------------------------------------------

OrderBefore(a, b) ==
    \/ a.priority < b.priority
    \/ a.priority = b.priority /\ a.enqueue_seq < b.enqueue_seq

\* The positions K in the order R, a set of pairs: the n-th one has n - 1
\* others before it
InOrder(K, R) ==
    [n \in 1 .. Cardinality(K) |-> CHOOSE k \in K : Cardinality({l \in K : <<l, k>> \in R}) = n - 1]

\* std::sort: enqueue_seq leaves no two items unordered
Sorted(s) ==
    LET D == DOMAIN s
        at == InOrder(D, {p \in D \X D : OrderBefore(s[p[1]], s[p[2]])})
    IN  [n \in D |-> s[at[n]]]

\* The entries of s at the positions K, in the order they stand in
Part(s, K) ==
    LET at == InOrder(K, {p \in K \X K : p[1] < p[2]})
    IN  [n \in DOMAIN at |-> s[at[n]]]

Clamp(p) == IF p < 0 THEN 0 ELSE IF p > 9 THEN 9 ELSE p

Eligible == {k \in DOMAIN items : items[k].drop_eligible}

\* std::find_if: the first eligible resident, in dispatch order
Victim == CHOOSE k \in Eligible : \A l \in Eligible : k <= l

Request(i, p, drop, sess) ==
    [id |-> i, enqueue_seq |-> next_seq, priority |-> Clamp(p), drop_eligible |-> drop,
     session |-> sess]

-----------------------------------------------------------------------------
\* TryEnqueue with a free slot
Enqueue(i, p, drop, sess) ==
    /\ fate[i] = "new" /\ Len(items) < Depth
    /\ items' = Sorted(Append(items, Request(i, p, drop, sess)))
    /\ next_seq' = next_seq + 1
    /\ fate' = [fate EXCEPT ![i] = "queued"]
    /\ UNCHANGED late

\* mutant: the discarded resident is not reported to the caller
EnqueueEvictSilent(i, p, sess) ==
    /\ fate[i] = "new" /\ Len(items) = Depth /\ Eligible # {}
    /\ items' = Sorted([items EXCEPT ![Victim] = Request(i, p, TRUE, sess)])
    /\ next_seq' = next_seq + 1
    /\ fate' = [fate EXCEPT ![i] = "queued"]
    /\ UNCHANGED late

\* TryEnqueue of a droppable request into a full queue: BusyDroppedOld
EnqueueEvict(i, p, sess) ==
    /\ fate[i] = "new" /\ Len(items) = Depth /\ Eligible # {}
    /\ items' = Sorted([items EXCEPT ![Victim] = Request(i, p, TRUE, sess)])
    /\ next_seq' = next_seq + 1
    /\ fate' = [fate EXCEPT ![i] = "queued", ![items[Victim].id] = "busy"]
    /\ UNCHANGED late

\* BusyOverflow
EnqueueRefused(i, drop) ==
    /\ fate[i] = "new" /\ Len(items) = Depth
    /\ drop => Eligible = {}
    /\ next_seq' = next_seq + 1
    /\ fate' = [fate EXCEPT ![i] = "busy"]
    /\ UNCHANGED <<items, late>>

DeadlinePasses(i) ==
    /\ fate[i] = "queued" /\ i \notin late
    /\ late' = late \cup {i}
    /\ UNCHANGED <<items, next_seq, fate>>

\* mutant: the head is dispatched whatever its deadline
PopLate ==
    /\ items # <<>>
    /\ items' = Tail(items)
    /\ fate' = [fate EXCEPT ![Head(items).id] = "dispatched"]
    /\ UNCHANGED <<next_seq, late>>

\* Pop: a late head is reported instead of dispatched, one per call
Pop ==
    /\ items # <<>>
    /\ items' = Tail(items)
    /\ fate' = [fate EXCEPT ![Head(items).id] =
                   IF Head(items).id \in late THEN "timeout" ELSE "dispatched"]
    /\ UNCHANGED <<next_seq, late>>

\* The erase loops: the other items, in the order they stand in
Without(G) == Part(items, {k \in DOMAIN items : items[k] \notin G})
Told(G, how) ==
    fate' = [i \in Ids |-> IF \E it \in G : it.id = i THEN how ELSE fate[i]]

Expired == {it \in ToSet(items) : it.id \in late}
OfSession(s) == {it \in ToSet(items) : it.session = s}

\* ReaperPass (host_main.cpp never calls it: late requests leave through Pop)
ReaperPass ==
    /\ Expired # {}
    /\ items' = Without(Expired)
    /\ Told(Expired, "timeout")
    /\ UNCHANGED <<next_seq, late>>

\* mutant: the drop stops at the first item of the session
DropSessionFirst(s) ==
    LET First == CHOOSE k \in DOMAIN items : items[k].session = s
    IN  /\ OfSession(s) # {}
        /\ items' = RemoveAt(items, First)
        /\ Told(OfSession(s), "dropped")
        /\ UNCHANGED <<next_seq, late>>

\* DropSession: session 0 is never a target
DropSession(s) ==
    /\ OfSession(s) # {}
    /\ items' = Without(OfSession(s))
    /\ Told(OfSession(s), "dropped")
    /\ UNCHANGED <<next_seq, late>>

Arrivals(i) ==
    \E p \in Priorities, sess \in Sessions \cup {0} :
        \/ EnqueueEvict(i, p, sess)
        \/ \E drop \in BOOLEAN : Enqueue(i, p, drop, sess)

QueueNext ==
    \/ \E i \in Ids : Arrivals(i) \/ DeadlinePasses(i)
    \/ \E i \in Ids, drop \in BOOLEAN : EnqueueRefused(i, drop)
    \/ Pop \/ ReaperPass
    \/ \E s \in Sessions : DropSession(s)

QueueSpec == QueueInit /\ [][QueueNext]_scheduler

\* Requests without end, for runs with few Ids: an answered one comes in again
\* as another. Sequence numbers only order what waits, so one that nobody
\* holds is given back and those above it move down.
AskAgain(i) ==
    /\ fate[i] \notin {"new", "queued"}
    /\ LET free == CHOOSE n \in 1 .. next_seq : \A it \in ToSet(items) : it.enqueue_seq # n
           Down(n) == IF n > free THEN n - 1 ELSE n
       IN  items' = [k \in DOMAIN items |-> [items[k] EXCEPT !.enqueue_seq = Down(@)]]
    /\ next_seq' = next_seq - 1
    /\ late' = late \ {i}
    /\ fate' = [fate EXCEPT ![i] = "new"]

StreamNext == QueueNext \/ \E i \in Ids : AskAgain(i)

\* The dispatcher's loop never stops popping
StreamSpec == QueueInit /\ [][StreamNext]_scheduler /\ WF_scheduler(Pop)

-----------------------------------------------------------------------------
(* Properties                                                              *)

\* Every request that is told to wait is in the deque exactly once, and no
\* other is: eviction, expiry and session teardown neither lose a request nor
\* leave one behind that was already answered.
NothingLost ==
    /\ QueueTypeOK
    /\ \A i \in Ids :
        Cardinality({k \in DOMAIN items : items[k].id = i}) = IF fate[i] = "queued" THEN 1 ELSE 0

\* The queue keeps the promise of SchedulerSpec: each step of the deque is one
\* of its admissions, dispatches, expiries or drops. So, whatever mix of
\* arrivals, replacements and removals the deque saw, no class is overtaken by
\* a worse one, arrival order holds within a class, and only a droppable
\* request is ever turned away for a newer one.
Brief(it) ==
    [id |-> it.id, prio |-> it.priority, at |-> it.enqueue_seq, drop |-> it.drop_eligible]
Waiting == {Brief(it) : it \in ToSet(items)}
Promise == INSTANCE SchedulerSpec WITH waiting <- Waiting
KeepsPromise == Promise!Spec

\* Another request is admitted to a place before i's
Overtaken(i) ==
    \E k, l \in DOMAIN items' :
        k < l /\ items'[l].id = i /\ fate[i] = "queued" /\ fate[items'[k].id] = "new"

\* A request that waits gets its answer, in time or late, unless requests of
\* better classes overtake it for ever: nothing else can hold it, whatever mix
\* of arrivals, replacements, expiries and teardowns the deque sees.
HeldByBetterOnly ==
    \A i \in Ids :
        (fate[i] = "queued" ~> fate[i] # "queued") \/ []<><<Overtaken(i)>>_scheduler

\* A request whose deadline passed in the queue is answered
\* (host_v2_scheduler.hpp:18-19, "expired queued items are discarded ... so the
\* deadline reaper answers timeout").
ExpiredAreAnswered == \A i \in Ids : fate[i] = "queued" /\ i \in late ~> fate[i] # "queued"

\* The discarded resident is the oldest droppable one
\* (host_v2_scheduler.hpp:12-15).
EvictsOldest ==
    [][\A it \in ToSet(items) :
          fate[it.id] = "queued" /\ fate'[it.id] = "busy" =>
              \A other \in ToSet(items) :
                  other.drop_eligible => it.enqueue_seq <= other.enqueue_seq]_scheduler
=============================================================================
