----------------------------- MODULE SlotWorker -----------------------------
(***************************************************************************)
(* The app's one-slot workers (src/single_slot_worker.hpp): a thread that     *)
(* waits on a condition variable for a job or the stop, takes the newest job   *)
(* and runs its handler.  Submit overwrites what was not taken yet.            *)
(*                                                                         *)
(* cv_.wait looks at its predicate under the mutex and then blocks; "about"    *)
(* is the moment in between, in which the worker still holds the mutex.        *)
(***************************************************************************)
EXTENDS Naturals

CONSTANTS Workers,
          MaxSubmits    \* bound: jobs submitted

VARIABLES slot,         \* pending_job_ by its number, 0 without has_pending_
          loop,         \* where a worker's loop is
          stop,         \* workers whose stop_source was asked
          submitted     \* jobs submitted so far

vars == <<slot, loop, stop, submitted>>

Init ==
    /\ slot = [w \in Workers |-> 0] /\ loop = [w \in Workers |-> "look"]
    /\ stop = {} /\ submitted = 0

\* What a notification does to a worker: it wakes one that is blocked.
Woken(w) == IF loop[w] = "asleep" THEN "look" ELSE loop[w]

Submit(w) ==
    /\ submitted < MaxSubmits /\ loop[w] # "about"
    /\ submitted' = submitted + 1
    /\ slot' = [slot EXCEPT ![w] = submitted']
    /\ loop' = [loop EXCEPT ![w] = Woken(w)]
    /\ UNCHANGED stop

\* The stop is asked and notified without the mutex.
Stop(w) ==
    /\ w \notin stop
    /\ stop' = stop \cup {w}
    /\ loop' = [loop EXCEPT ![w] = Woken(w)]
    /\ UNCHANGED <<slot, submitted>>

\* The predicate: the stop first, a pending job is superseded by it.
Take(w) ==
    /\ loop[w] = "look" /\ w \notin stop /\ slot[w] # 0
    /\ slot' = [slot EXCEPT ![w] = 0]
    /\ loop' = [loop EXCEPT ![w] = "handler"]
    /\ UNCHANGED <<stop, submitted>>

Leave(w) ==
    /\ loop[w] = "look" /\ w \in stop
    /\ loop' = [loop EXCEPT ![w] = "gone"]
    /\ UNCHANGED <<slot, stop, submitted>>

Wait(w) ==
    /\ loop[w] = "look" /\ w \notin stop /\ slot[w] = 0
    /\ loop' = [loop EXCEPT ![w] = "about"]
    /\ UNCHANGED <<slot, stop, submitted>>

Block(w) ==
    /\ loop[w] = "about"
    /\ loop' = [loop EXCEPT ![w] = "asleep"]
    /\ UNCHANGED <<slot, stop, submitted>>

Return(w) ==
    /\ loop[w] = "handler"
    /\ loop' = [loop EXCEPT ![w] = "look"]
    /\ UNCHANGED <<slot, stop, submitted>>

Loop(w) == Take(w) \/ Leave(w) \/ Wait(w) \/ Block(w)

TypeOK ==
    /\ slot \in [Workers -> 0 .. MaxSubmits] /\ stop \subseteq Workers
    /\ loop \in [Workers -> {"look", "about", "asleep", "handler", "gone"}]
    /\ submitted \in 0 .. MaxSubmits

\* The newest job is taken unless the worker is stopped
\* (single_slot_worker.hpp:109-130, "no lost wakeup" at 114-117).
Serves(w) == (slot[w] # 0 /\ w \notin stop) ~> (slot[w] = 0 \/ w \in stop)

\* Claimed of the teardown ("so the object is always safe to destroy"): the stop
\* is notified without the mutex, so it may fall between the look and the block.
StopsAlways(w) == w \in stop ~> loop[w] = "gone"
=============================================================================
