---------------------------- MODULE SchedulerSpec ----------------------------
(***************************************************************************)
(* What the v2 queue promises its callers, without the deque: a bounded    *)
(* set of waiting requests, each of which leaves it exactly once and for a *)
(* named reason.  The clauses are those of host_v2_scheduler.hpp:9-26,     *)
(* except that any droppable resident may be the one discarded.            *)
(***************************************************************************)
EXTENDS Naturals, FiniteSets

CONSTANTS Ids, Depth

VARIABLES waiting,  \* set of [id, prio, at, drop]
          late,     \* requests whose deadline has passed
          fate      \* request -> how it left, "new" before, "queued" inside

vars == <<waiting, late, fate>>

Init == waiting = {} /\ late = {} /\ fate = [i \in Ids |-> "new"]

Before(r, s) == r.prio < s.prio \/ (r.prio = s.prio /\ r.at < s.at)

Leave(R, how) ==
    /\ R # {} /\ R \subseteq waiting
    /\ waiting' = waiting \ R
    /\ fate' = [i \in Ids |-> IF \E r \in R : r.id = i THEN how ELSE fate[i]]
    /\ UNCHANGED late

\* Admission: in, refused, or in at the price of one droppable resident
Admit(r) ==
    /\ Cardinality(waiting) < Depth
    /\ waiting' = waiting \cup {r}
    /\ fate' = [fate EXCEPT ![r.id] = "queued"]

Refuse(r) ==
    /\ Cardinality(waiting) = Depth
    /\ r.drop => \A old \in waiting : ~old.drop
    /\ fate' = [fate EXCEPT ![r.id] = "busy"]
    /\ UNCHANGED waiting

Replace(r) ==
    /\ Cardinality(waiting) = Depth /\ r.drop
    /\ \E old \in waiting :
          /\ old.drop
          /\ waiting' = (waiting \ {old}) \cup {r}
          /\ fate' = [fate EXCEPT ![r.id] = "queued", ![old.id] = "busy"]

\* Requests are numbered as they arrive, whatever becomes of them
Turn == 1 + Cardinality({i \in Ids : fate[i] # "new"})

Arrive(r) ==
    /\ fate[r.id] = "new" /\ r.at = Turn
    /\ Admit(r) \/ Refuse(r) \/ Replace(r)
    /\ UNCHANGED late

DeadlinePasses(i) == late' = late \cup {i} /\ UNCHANGED <<waiting, fate>>

\* The best waiting request is dispatched, and a late one never is
Dispatch(r) ==
    /\ r.id \notin late
    /\ \A s \in waiting \ {r} : Before(r, s)
    /\ Leave({r}, "dispatched")

Expire == \E R \in SUBSET {r \in waiting : r.id \in late} : Leave(R, "timeout")
Drop == \E R \in SUBSET waiting : Leave(R, "dropped")

\* The id of a request that left stands for a new one, and a number nobody
\* holds is given back
Renew(i) ==
    /\ fate[i] \notin {"new", "queued"}
    /\ \E n \in 1 .. Turn :
          /\ \A r \in waiting : r.at # n
          /\ waiting' = {[r EXCEPT !.at = IF @ > n THEN @ - 1 ELSE @] : r \in waiting}
    /\ late' = late \ {i}
    /\ fate' = [fate EXCEPT ![i] = "new"]

Next ==
    \/ \E i \in Ids : DeadlinePasses(i) \/ Renew(i)
    \/ \E r \in [id : Ids, prio : 0 .. 9, at : {Turn}, drop : BOOLEAN] : Arrive(r)
    \/ \E r \in waiting : Dispatch(r)
    \/ Expire \/ Drop

Spec == Init /\ [][Next]_vars
=============================================================================
