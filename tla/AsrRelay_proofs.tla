--------------------------- MODULE AsrRelay_proofs ---------------------------
(***************************************************************************)
(* Proofs about AsrRelay, for any number of connections, any wire ids       *)
(* (shared ones as well), any prune and any bound.                         *)
(*                                                                         *)
(* The one speech slot of the host is neither leaked nor shared, whatever  *)
(* clients and the worker do.  ClaimInv says whose the claim is in each    *)
(* phase of its life: of the connection that opens, then of the relay      *)
(* thread, whose connection cannot get past its join while it runs.        *)
(*                                                                         *)
(* The session table's open records are those of connections that live,    *)
(* and only a session_close by number takes the record of a waiting open   *)
(* or a live claim.  IdInv says that one id is in the hands of one         *)
(* connection at a time, RecInv whose a record is; Stays is what a step    *)
(* other than that close does to the records in use, which needs both and  *)
(* that the prune keeps what is open (PrunedLemma).                        *)
(***************************************************************************)
EXTENDS AsrRelay, FiniteSetTheorems, SequenceTheorems, TLAPS

Steps == {"free", "loop", "insert", "grace", "nap", "post", "plan", "order", "join",
          "drain", "disown", "owned"} \cup Opening
PastJoin == {"drain", "disown", "owned", "free"}

CoreTypes ==
    /\ pc \in [Conns -> Steps] /\ tid \in [Conns -> Nat] /\ next_id \in Nat
    /\ claim \in [active : BOOLEAN, stop : BOOLEAN, wire : Nat, table : Nat, conn : Conns \cup {NoConn}]
    /\ relay \in [at : {"off", "top", "read", "over"}, conn : Conns \cup {NoConn}]

Running == relay.at \in {"top", "read"}

ClaimInv ==
    /\ \A c \in Conns : pc[c] \in Opening =>
         claim.active /\ claim.conn = c /\ claim.wire = Wire[c] /\ ~Running
    /\ Running => claim.active /\ claim.conn = relay.conn /\ relay.conn \in Conns
                  /\ pc[relay.conn] \notin PastJoin
    /\ claim.active => Running \/ (claim.conn \in Conns /\ pc[claim.conn] \in Opening)

IInv == CoreTypes /\ ClaimInv

-----------------------------------------------------------------------------
LEMMA InitLemma == Init => IInv
BY DEF Init, IInv, CoreTypes, ClaimInv, Steps, Opening, Running, Idle, Table!Init

\* Steps that leave the claim, the relay and the openings alone: a connection
\* moves between steps outside an open, and the relay's not past its join.
LEMMA MoveLemma ==
    ASSUME IInv, NEW c \in Conns, NEW p \in Steps \ Opening, Go(c, p), pc[c] \notin Opening,
           UNCHANGED <<claim, relay>>, tid' \in [Conns -> Nat], next_id' \in Nat,
           Running /\ relay.conn = c => p \notin PastJoin
    PROVE  IInv'
BY DEF IInv, CoreTypes, ClaimInv, Go, Steps, Running

LEMMA StayLemma ==
    ASSUME IInv, UNCHANGED <<pc, claim, relay, tid>>, next_id' = next_id
    PROVE  IInv'
BY DEF IInv, CoreTypes, ClaimInv, Running

\* The claim is taken.
LEMMA TakeLemma ==
    ASSUME IInv, NEW c \in Conns, pc[c] \in {"insert", "nap"}, TakeClaim(c), tid' = tid, next_id' = next_id
    PROVE  IInv'
<1> USE DEF IInv
<1>1. /\ ~claim.active /\ relay' = [at |-> "off", conn |-> NoConn] /\ pc' = [pc EXCEPT ![c] = "spawn"]
      /\ claim' = [active |-> TRUE, stop |-> FALSE, wire |-> Wire[c], table |-> tid[c], conn |-> c]
  BY DEF TakeClaim, Go
<1>2. CoreTypes'
  BY <1>1, WireAssumption DEF CoreTypes, Steps, Opening
<1>3. \A d \in Conns : pc[d] \notin Opening
  BY <1>1 DEF ClaimInv
<1>4. ~Running' /\ \A d \in Conns : pc'[d] \in Opening <=> d = c
  BY <1>1, <1>3 DEF CoreTypes, Running, Opening
<1> QED
  BY <1>1, <1>2, <1>4 DEF ClaimInv

\* A failed open gives the claim back.
LEMMA UnwindLemma ==
    ASSUME IInv, NEW c \in Conns, pc[c] \in Opening, Unwind(c), UNCHANGED <<relay, tid>>
    PROVE  IInv'
<1> USE DEF IInv
<1>1. claim.active /\ claim.conn = c /\ claim.wire = Wire[c] /\ ~Running
  BY DEF ClaimInv
<1>2. claim' = Idle /\ pc' = [pc EXCEPT ![c] = "loop"] /\ next_id' = next_id
  BY <1>1 DEF Unwind, IsLiveFor, Go, Table!Close
<1>3. CoreTypes'
  BY <1>2 DEF CoreTypes, Idle, Steps
<1>4. ~Running' /\ \A d \in Conns : pc'[d] \notin Opening
  BY <1>1, <1>2 DEF ClaimInv, CoreTypes, Running, Opening
<1> QED
  BY <1>2, <1>3, <1>4 DEF ClaimInv, Idle

\* The relay thread.
LEMMA RelayLemma ==
    ASSUME IInv, Relaying
    PROVE  IInv'
<1> USE DEF IInv
<1>1. Running /\ UNCHANGED <<pc, tid>> /\ next_id' = next_id
  BY DEF Relaying, RelayTop, RelayQuiet, RelayForwards, RelayLoses, RelayBreaks, threads, table, Running
<1>2. RelayReleases \/ RelayGoes("top") \/ RelayGoes("read")
  BY DEF Relaying, RelayTop, RelayQuiet, RelayForwards, RelayLoses, RelayBreaks
<1>3. \A d \in Conns : pc[d] \notin Opening
  BY <1>1 DEF ClaimInv
<1>4. CASE RelayReleases
  <2>1. relay' = [relay EXCEPT !.at = "over"] /\ claim' = [claim EXCEPT !.active = FALSE]
    BY <1>4 DEF RelayReleases
  <2>2. ~claim'.active /\ ~Running' /\ CoreTypes'
    BY <1>1, <2>1 DEF CoreTypes, Running
  <2> QED
    BY <1>1, <1>3, <2>2 DEF ClaimInv
<1>5. CASE RelayGoes("top") \/ RelayGoes("read")
  <2>1. claim' = claim /\ Running' /\ relay'.conn = relay.conn /\ CoreTypes'
    BY <1>1, <1>5 DEF RelayGoes, CoreTypes, Running
  <2> QED
    BY <1>1, <1>3, <2>1 DEF ClaimInv
<1> QED
  BY <1>2, <1>4, <1>5

-----------------------------------------------------------------------------
\* The connection threads.

LEMMA OpenLemma ==
    ASSUME IInv, NEW c \in Conns, SessionOpen(c) \/ OpenedOther(c) \/ OpenSteps(c)
    PROVE  IInv'
<1> USE DEF IInv
<1>1. CASE SessionOpen(c)
  <2>1. /\ pc[c] = "loop" /\ Go(c, "insert") /\ UNCHANGED <<claim, relay>>
        /\ next_id' = next_id + 1 /\ tid' = [tid EXCEPT ![c] = next_id]
    BY <1>1 DEF SessionOpen, Reading, Table!DrawId
  <2>2. tid' \in [Conns -> Nat] /\ next_id' \in Nat
    BY <2>1 DEF CoreTypes
  <2> QED
    BY <2>1, <2>2, MoveLemma DEF Steps, Opening, PastJoin
<1>2. ASSUME NEW p \in {"loop", "grace", "nap"}, pc[c] \in {"insert", "grace", "nap"}, Go(c, p),
             UNCHANGED <<claim, relay, tid>>, next_id' = next_id
      PROVE  IInv'
  <2>1. tid' \in [Conns -> Nat] /\ next_id' \in Nat
    BY <1>2 DEF CoreTypes
  <2> QED
    BY <1>2, <2>1, MoveLemma DEF Steps, Opening, PastJoin
<1>3. CASE OpenedOther(c)
  BY <1>2, <1>3 DEF OpenedOther, Table!Insert
<1>4. CASE Claim(c)
  <2>1. pc[c] = "insert" /\ tid' = tid /\ next_id' = next_id
    BY <1>4 DEF Claim, Table!Insert
  <2>2. TakeClaim(c) \/ (Go(c, "grace") /\ UNCHANGED <<claim, relay>>)
    BY <1>4 DEF Claim
  <2> QED
    BY <1>2, <2>1, <2>2, TakeLemma
<1>5. CASE Grace(c)
  BY <1>2, <1>5 DEF Grace, Refused, table, Table!Close
<1>6. CASE Nap(c)
  <2>1. pc[c] = "nap" /\ tid' = tid /\ next_id' = next_id
    BY <1>6 DEF Nap, Refused, table, Table!Close
  <2>2. TakeClaim(c) \/ (\E p \in {"grace", "loop"} : Go(c, p) /\ UNCHANGED <<claim, relay>>)
    BY <1>6 DEF Nap, Refused
  <2> QED
    BY <1>2, <2>1, <2>2, TakeLemma
<1>7. ASSUME NEW p \in {"send", "wait"}, pc[c] \in Opening, Go(c, p), UNCHANGED <<claim, relay, tid>>, next_id' = next_id
      PROVE  IInv'
  BY <1>7 DEF CoreTypes, ClaimInv, Go, Steps, Opening, Running
<1>8. CASE Spawn(c)
  <2>1. pc[c] \in Opening /\ UNCHANGED <<relay, tid>>
    BY <1>8 DEF Spawn, Opening
  <2>2. (Go(c, "send") /\ UNCHANGED <<claim, table>>) \/ Unwind(c)
    BY <1>8 DEF Spawn
  <2> QED
    BY <1>7, <2>1, <2>2, UnwindLemma DEF table
<1>9. CASE Send(c)
  <2>1. pc[c] \in Opening /\ UNCHANGED <<relay, tid>>
    BY <1>9 DEF Send, Opening
  <2>2. (Go(c, "wait") /\ UNCHANGED <<claim, table>>) \/ Unwind(c)
    BY <1>9 DEF Send
  <2> QED
    BY <1>7, <2>1, <2>2, UnwindLemma DEF table
<1>10. CASE WaitSkips(c)
  BY <1>10, StayLemma DEF WaitSkips, threads, table
<1>11. CASE WaitEnds(c)
  BY <1>11, UnwindLemma DEF WaitEnds, Opening
<1>12. CASE WaitOpened(c)
  <2>1. /\ pc[c] = "wait" /\ relay' = [at |-> "top", conn |-> c] /\ pc' = [pc EXCEPT ![c] = "loop"]
        /\ UNCHANGED <<claim, tid, next_id>>
    BY <1>12 DEF WaitOpened, Go, table
  <2>2. claim.active /\ claim.conn = c
    BY <2>1 DEF ClaimInv, Opening
  <2>3. \A d \in Conns : pc'[d] \notin Opening
    BY <2>1, <2>2 DEF ClaimInv, CoreTypes, Opening
  <2>4. CoreTypes' /\ Running' /\ pc'[c] = "loop"
    BY <2>1 DEF CoreTypes, Steps, Running
  <2> QED
    BY <2>1, <2>2, <2>3, <2>4 DEF ClaimInv, PastJoin
<1> QED
  BY <1>1, <1>3, <1>4, <1>5, <1>6, <1>8, <1>9, <1>10, <1>11, <1>12 DEF OpenSteps

LEMMA LoopLemma ==
    ASSUME IInv, NEW c \in Conns,
           \/ Connect(c) \/ Leave(c) \/ Gate(c, "meta") \/ Gate(c, "abort") \/ NoGate(c) \/ Post(c) \/ Audio(c)
           \/ CloseLive(c) \/ LoopEnds(c) \/ \E x \in Ids : CloseOther(c, x)
    PROVE  IInv'
<1> USE DEF IInv
<1>1. UNCHANGED <<relay, tid>> /\ next_id' = next_id
  BY DEF Connect, Leave, Gate, NoGate, Post, Audio, CloseLive, LoopEnds, CloseOther, threads, table, Table!Close
<1>2. tid' \in [Conns -> Nat] /\ next_id' \in Nat
  BY <1>1 DEF CoreTypes
<1>3. CASE Leave(c) \/ \E x \in Ids : CloseOther(c, x)
  BY <1>1, <1>3, StayLemma DEF Leave, CloseOther, threads
<1>4. CASE CloseLive(c)
  <2>1. /\ pc[c] = "loop" /\ claim.active /\ claim.conn = c /\ pc' = [pc EXCEPT ![c] = "order"]
        /\ claim' = [claim EXCEPT !.stop = TRUE]
    BY <1>4 DEF CloseLive, Reading, IsLiveFor, Go
  <2>2. CoreTypes' /\ claim'.active = claim.active /\ claim'.conn = claim.conn /\ claim'.wire = claim.wire
    BY <1>1, <1>2, <2>1 DEF CoreTypes, Steps
  <2>3. Running /\ relay.conn = c /\ \A d \in Conns : pc[d] \notin Opening
    BY <2>1 DEF ClaimInv, Opening
  <2>4. Running' /\ pc'[c] = "order" /\ \A d \in Conns : pc'[d] \notin Opening
    BY <1>1, <2>1, <2>3 DEF Running, CoreTypes, Opening
  <2> QED
    BY <1>1, <2>1, <2>2, <2>3, <2>4 DEF ClaimInv, PastJoin
<1>5. CASE Connect(c) \/ Gate(c, "meta") \/ Gate(c, "abort") \/ NoGate(c) \/ Post(c) \/ Audio(c) \/ LoopEnds(c)
  <2>1. claim' = claim /\ pc[c] \in {"free", "loop", "post"}
    BY <1>5 DEF Connect, Gate, NoGate, Post, Audio, LoopEnds, Reading
  <2>2. pc' = pc \/ \E p \in {"loop", "post", "plan"} : Go(c, p)
    BY <1>5 DEF Connect, Gate, NoGate, Post, Audio, LoopEnds, Breaks
  <2>3. CASE pc' = pc
    BY <1>1, <2>1, <2>3, StayLemma
  <2>4. CASE \E p \in {"loop", "post", "plan"} : Go(c, p)
    BY <1>1, <1>2, <2>1, <2>4, MoveLemma DEF Steps, Opening, PastJoin
  <2> QED
    BY <2>2, <2>3, <2>4
<1> QED
  BY <1>3, <1>4, <1>5

LEMMA EndLemma ==
    ASSUME IInv, NEW c \in Conns, EndSteps(c)
    PROVE  IInv'
<1> USE DEF IInv
<1>1. tid' \in [Conns -> Nat] /\ next_id' = next_id /\ next_id' \in Nat
  BY DEF EndSteps, Plan, Order, Join, Drain, Disown, Owned, table, Table!Close, Table!CloseOwnedByConnection, CoreTypes
<1>2. CASE Plan(c)
  <2>1. CASE claim.conn = c
    <3>1. /\ pc[c] = "plan" /\ relay' = relay /\ claim' = [claim EXCEPT !.stop = claim.stop \/ claim.active]
          /\ pc' = [pc EXCEPT ![c] = IF claim.active THEN "order" ELSE "join"]
      BY <1>2, <2>1 DEF Plan, Go
    <3>2. (claim.stop \/ claim.active) \in BOOLEAN
      BY Zenon DEF CoreTypes
    <3>3. CoreTypes' /\ claim'.active = claim.active /\ claim'.conn = claim.conn /\ claim'.wire = claim.wire
      BY <1>1, <3>1, <3>2 DEF CoreTypes, Steps
    <3>4. /\ \A d \in Conns : pc'[d] \in Opening <=> pc[d] \in Opening
          /\ \A d \in Conns : pc'[d] \in PastJoin => pc[d] \in PastJoin
          /\ Running' = Running
      BY <3>1 DEF CoreTypes, Opening, PastJoin, Running
    <3> QED
      BY <3>1, <3>3, <3>4 DEF ClaimInv
  <2>2. CASE claim.conn # c
    <3>1. pc[c] = "plan" /\ Go(c, "owned") /\ UNCHANGED <<claim, relay>>
      BY <1>2, <2>2 DEF Plan
    <3>2. ~(Running /\ relay.conn = c)
      BY <2>2 DEF ClaimInv
    <3> QED
      BY <1>1, <3>1, <3>2, MoveLemma DEF Steps, Opening
  <2> QED
    BY <2>1, <2>2
<1>3. CASE Join(c)
  <2>1. /\ pc[c] = "join" /\ ~Running /\ relay' = [at |-> "off", conn |-> NoConn] /\ claim' = claim
        /\ \E p \in {"drain", "disown"} : pc' = [pc EXCEPT ![c] = p]
    BY <1>3 DEF Join, Go, Running
  <2>2. CoreTypes' /\ ~Running' /\ \A d \in Conns : pc'[d] \in Opening <=> pc[d] \in Opening
    BY <1>1, <2>1 DEF CoreTypes, Steps, Running, Opening
  <2> QED
    BY <2>1, <2>2 DEF ClaimInv
<1>4. CASE Disown(c)
  <2>1. /\ pc[c] = "disown" /\ relay' = relay /\ DisownIfOwner(c)
        /\ \E p \in {"loop", "plan", "owned"} : pc' = [pc EXCEPT ![c] = p]
    BY <1>4 DEF Disown, Go
  <2>2. claim.conn = c => ~claim.active
    BY <2>1 DEF ClaimInv, PastJoin, Opening
  <2>3. /\ claim'.active = claim.active /\ (claim.active => claim' = claim)
        /\ claim' \in [active : BOOLEAN, stop : BOOLEAN, wire : Nat, table : Nat, conn : Conns \cup {NoConn}]
    BY <2>1, <2>2 DEF DisownIfOwner, CoreTypes
  <2>4. /\ CoreTypes' /\ Running' = Running
        /\ \A d \in Conns : pc'[d] \in Opening <=> pc[d] \in Opening
        /\ \A d \in Conns : pc'[d] \in PastJoin => pc[d] \in PastJoin
    BY <1>1, <2>1, <2>3 DEF CoreTypes, Steps, Running, Opening, PastJoin
  <2>5. CASE claim.active
    BY <2>1, <2>3, <2>4, <2>5 DEF ClaimInv
  <2>6. CASE ~claim.active
    <3>1. ~Running /\ \A d \in Conns : pc[d] \notin Opening
      BY <2>6 DEF ClaimInv
    <3> QED
      BY <2>3, <2>4, <2>6, <3>1 DEF ClaimInv
  <2> QED
    BY <2>5, <2>6 DEF CoreTypes
<1>5. CASE Order(c) \/ Drain(c) \/ Owned(c)
  <2>1. UNCHANGED <<claim, relay>>
    BY <1>5 DEF Order, Drain, Owned
  <2>2. \/ pc[c] = "order" /\ Go(c, "join")
        \/ pc[c] = "drain" /\ Go(c, "disown")
        \/ pc[c] = "owned" /\ Go(c, "free")
    BY <1>5 DEF Order, Drain, Owned
  <2>3. pc[c] \in PastJoin => ~(Running /\ relay.conn = c)
    BY DEF ClaimInv
  <2> QED
    BY <1>1, <2>1, <2>2, <2>3, MoveLemma DEF Steps, Opening, PastJoin
<1> QED
  BY <1>2, <1>3, <1>4, <1>5 DEF EndSteps

LEMMA NextLemma ==
    ASSUME IInv, [Next]_vars
    PROVE  IInv'
<1>1. CASE \E c \in Conns : SessionOpen(c) \/ OpenedOther(c) \/ OpenSteps(c)
  BY <1>1, OpenLemma
<1>2. CASE \E c \in Conns :
             \/ Connect(c) \/ Leave(c) \/ Gate(c, "meta") \/ Gate(c, "abort") \/ NoGate(c) \/ Post(c) \/ Audio(c)
             \/ CloseLive(c) \/ LoopEnds(c) \/ \E x \in Ids : CloseOther(c, x)
  BY <1>2, LoopLemma
<1>3. CASE \E c \in Conns : EndSteps(c)
  BY <1>3, EndLemma
<1>4. CASE Relaying
  BY <1>4, RelayLemma
<1>5. CASE WorkerServes \/ WorkerDies \/ UNCHANGED vars
  BY <1>5, StayLemma DEF WorkerServes, WorkerDies, vars, threads, table
<1> QED
  BY <1>1, <1>2, <1>3, <1>4, <1>5 DEF Next

\* What every step preserves.
THEOREM Invariance == Spec => []IInv
<1>1. IInv /\ [Next]_vars => IInv'
  BY NextLemma
<1> QED
  BY InitLemma, <1>1, PTL DEF Spec

\* One open or one relay holds the claim, and the relay's connection is not
\* given to another client while it runs (host_main.cpp's AsrRelay*, host_v2_asr_relay.hpp).
THEOREM SlotCorrect == Spec => []SlotIsHeld
<1>1. IInv => SlotIsHeld
  <2> SUFFICES ASSUME IInv PROVE SlotIsHeld
    OBVIOUS
  <2>1. NoConn \notin Conns
    BY WireAssumption
  <2>2. RelayHasItsConnection
    BY DEF IInv, ClaimInv, RelayHasItsConnection, Running, PastJoin
  <2>3. claim.active <=> Running \/ \E c \in Conns : pc[c] \in Opening
    BY DEF IInv, ClaimInv
  <2>4. claim.active => (Running /\ relay.conn = claim.conn) # (claim.conn \in Conns /\ pc[claim.conn] \in Opening)
    BY DEF IInv, ClaimInv
  <2>5. ClaimIsHeld
    BY <2>3, <2>4 DEF ClaimIsHeld, Running
  <2> QED
    BY <2>2, <2>5 DEF SlotIsHeld
<1> QED
  BY Invariance, <1>1, PTL

-----------------------------------------------------------------------------
(* The table's records.                                                    *)

Recs == ToSet(sessions)
Asking == {"grace", "nap"}

\* An id is in use by one connection: as the id of its open, in its plan or in
\* its claim; an open never has the id its connection's own claim has.
IdInv ==
    /\ next_id \in Nat \ {0}
    /\ \A c \in Conns : tid[c] < next_id /\ plan[c].tid < next_id
    /\ claim.table < next_id
    /\ \A c, d \in Conns : c # d =>
          /\ tid[c] # 0 => tid[c] # tid[d]
          /\ plan[c].tid # 0 => plan[c].tid # tid[d]
    /\ \A c \in Conns : claim.conn # c =>
          /\ claim.table # 0 => claim.table # tid[c]
          /\ plan[c].tid # 0 => plan[c].tid # claim.table
    /\ \A c \in Conns : pc[c] \in {"insert"} \cup Asking =>
          tid[c] # 0 /\ (claim.conn = c => claim.table # tid[c])

\* A record is its opener's, whose thread has not ended while it is open.
RecInv ==
    /\ \A r \in Recs : r.id < next_id /\ (r.open => pc[r.conn] # "free")
    /\ \A r \in Recs, c \in Conns : r.id = tid[c] => r.conn = c
    /\ \A r \in Recs : r.id = claim.table => r.conn = claim.conn

\* A record in use that was open, or that comes into use, is open after the step.
IsOpen(x) == \E r \in Recs : r.open /\ r.id = x
Stays == \A c \in Conns : \A x \in Used(c)' : IsOpen(x)' \/ (x \in Used(c) /\ ~IsOpen(x))

\* The n-th member of a set of positions has n - 1 others below it.
NthOf(K, n) == CHOOSE i \in K : Cardinality({j \in K : j < i}) = n - 1

LEMMA RankLemma ==
    ASSUME NEW N \in Nat, NEW K \in SUBSET (1 .. N)
    PROVE  /\ Cardinality(K) \in Nat
           /\ \A n \in 1 .. Cardinality(K) : NthOf(K, n) \in K
           /\ \A k \in K : \E n \in 1 .. Cardinality(K) : NthOf(K, n) = k
<1> DEFINE M == Cardinality(K)
           Below(k) == {j \in K : j < k}
           Rank == [k \in K |-> Cardinality(Below(k)) + 1]
<1>1. IsFiniteSet(K) /\ M \in Nat
  <2>1. IsFiniteSet(1 .. N)
    BY FS_Interval
  <2>2. IsFiniteSet(K)
    BY <2>1, FS_Subset
  <2> QED
    BY <2>2, FS_CardinalityType
<1> HIDE DEF M
<1>2. \A k \in K : IsFiniteSet(Below(k)) /\ Cardinality(Below(k)) \in Nat /\ Cardinality(Below(k)) < M
  <2> TAKE k \in K
  <2>1. Below(k) \in SUBSET K /\ Below(k) # K
    OBVIOUS
  <2> HIDE DEF Below
  <2>2. IsFiniteSet(Below(k)) /\ Cardinality(Below(k)) <= M /\ Cardinality(Below(k)) # M
    BY <1>1, <2>1, FS_Subset DEF M
  <2> QED
    BY <1>1, <2>2, FS_CardinalityType
<1>3. Rank \in [K -> 1 .. M]
  BY <1>1, <1>2
<1>4. \A a, b \in K : a < b => Rank[a] < Rank[b]
  <2> SUFFICES ASSUME NEW a \in K, NEW b \in K, a < b PROVE Rank[a] < Rank[b]
    OBVIOUS
  <2>1. Below(a) \in SUBSET Below(b) /\ a \in Below(b) /\ a \notin Below(a)
    <3>1. \A k \in K : k \in Nat
      OBVIOUS
    <3>2. a \in Below(b) /\ a \notin Below(a)
      BY <3>1
    <3>3. \A j \in K : j < a => j < b
      BY <3>1
    <3> QED
      BY <3>2, <3>3
  <2> HIDE DEF Below
  <2>2. Cardinality(Below(a)) <= Cardinality(Below(b)) /\ Cardinality(Below(a)) # Cardinality(Below(b))
    BY <1>2, <2>1, FS_Subset
  <2> QED
    BY <1>2, <2>2
<1> HIDE DEF Rank
<1>5. \A a, b \in K : Rank[a] = Rank[b] => a = b
  <2> SUFFICES ASSUME NEW a \in K, NEW b \in K, Rank[a] = Rank[b] PROVE a = b
    OBVIOUS
  <2>1. ~(Rank[a] < Rank[b]) /\ ~(Rank[b] < Rank[a]) /\ a \in Nat /\ b \in Nat
    BY <1>3
  <2> QED
    BY <1>4, <2>1
<1>6. \A n \in 1 .. M : \E k \in K : Rank[k] = n
  <2> SUFFICES ASSUME NEW n \in 1 .. M, \A k \in K : Rank[k] # n PROVE FALSE
    OBVIOUS
  <2>1. Rank \in [K -> (1 .. M) \ {n}]
    BY <1>3
  <2>2. IsFiniteSet(1 .. M) /\ Cardinality(1 .. M) = M
    BY <1>1, FS_Interval
  <2>3. IsFiniteSet((1 .. M) \ {n}) /\ Cardinality((1 .. M) \ {n}) = M - 1
    BY <2>2, FS_RemoveElement
  <2>4. Cardinality((1 .. M) \ {n}) < Cardinality(K)
    BY <1>1, <2>3 DEF M
  <2> DEFINE T == (1 .. M) \ {n}
  <2> HIDE DEF T
  <2>5. IsFiniteSet(K) /\ IsFiniteSet(T) /\ Cardinality(T) < Cardinality(K) /\ Rank \in [K -> T]
    BY <1>1, <2>1, <2>3, <2>4 DEF T
  <2>6. \E a, b \in K : a # b /\ Rank[a] = Rank[b]
    BY <2>5, FS_PigeonHole
  <2> QED
    BY <1>5, <2>6
<1>7. \A n \in 1 .. M : NthOf(K, n) \in K /\ Rank[NthOf(K, n)] = n
  <2> TAKE n \in 1 .. M
  <2>1. PICK k \in K : Rank[k] = n
    BY <1>6
  <2>2. Cardinality(Below(k)) = n - 1
    BY <1>2, <2>1 DEF Rank
  <2>3. NthOf(K, n) \in K /\ Cardinality(Below(NthOf(K, n))) = n - 1
    BY <2>2 DEF NthOf
  <2> HIDE DEF Below
  <2> QED
    BY <2>3 DEF Rank
<1>8. ASSUME NEW k \in K PROVE \E n \in 1 .. M : NthOf(K, n) = k
  <2>1. Rank[k] \in 1 .. M
    BY <1>3
  <2>2. NthOf(K, Rank[k]) = k
    BY <1>5, <1>7, <2>1
  <2> QED
    BY <2>1, <2>2
<1> QED
  BY <1>1, <1>7, <1>8 DEF M

LEMMA SameCardinality == \A S : Table!Cardinality(S) = Cardinality(S)
BY DEF Table!Cardinality, Cardinality

\* The prune keeps the open records, and what it keeps was there.
LEMMA PrunedLemma ==
    ASSUME NEW S, sessions \in Seq(S)
    PROVE  /\ Table!Pruned \in Seq(S) /\ ToSet(Table!Pruned) \subseteq Recs
           /\ \A r \in Recs : r.open => r \in ToSet(Table!Pruned)
<1> DEFINE M == Cardinality(Table!Kept)
           s == [n \in 1 .. M |-> sessions[Table!KeptAt(n)]]
<1>1. CASE Table!Pruned = sessions
  BY <1>1 DEF Recs
<1>2. CASE Table!Pruned = s
  <2>1. Len(sessions) \in Nat /\ DOMAIN sessions = 1 .. Len(sessions)
    BY LenProperties
  <2>2. Table!Kept \in SUBSET (1 .. Len(sessions))
    BY <2>1 DEF Table!Kept
  <2>3. /\ M \in Nat
        /\ \A n \in 1 .. M : Table!KeptAt(n) \in Table!Kept
        /\ \A k \in Table!Kept : \E n \in 1 .. M : Table!KeptAt(n) = k
    <3>1. \A n : Table!KeptAt(n) = NthOf(Table!Kept, n)
      BY SameCardinality DEF Table!KeptAt, NthOf
    <3> QED
      BY <2>1, <2>2, <3>1, RankLemma
  <2> HIDE DEF M
  <2>4. \A n \in 1 .. M : Table!KeptAt(n) \in DOMAIN sessions
    BY <2>1, <2>2, <2>3
  <2>5. s \in [1 .. M -> S] /\ DOMAIN s = 1 .. M
    BY <2>1, <2>4, ElementOfSeq
  <2>6. s \in Seq(S)
    BY <2>3, <2>5, SeqDef
  <2>7. ToSet(s) \subseteq Recs
    BY <2>4, <2>5 DEF ToSet, Recs
  <2>8. ASSUME NEW r \in Recs, r.open PROVE r \in ToSet(s)
    <3>1. PICK k \in DOMAIN sessions : sessions[k] = r
      BY DEF Recs, ToSet
    <3>2. k \in Table!Kept
      BY <2>8, <3>1 DEF Table!Kept
    <3>3. PICK n \in 1 .. M : Table!KeptAt(n) = k
      BY <2>3, <3>2
    <3>4. s[n] = r
      BY <3>1, <3>3
    <3> QED
      BY <2>5, <3>4 DEF ToSet
  <2> QED
    BY <1>2, <2>6, <2>7, <2>8
<1>3. Table!Pruned = sessions \/ Table!Pruned = s
  BY SameCardinality DEF Table!Pruned
<1> QED
  BY <1>1, <1>2, <1>3

\* What a step does to the records: it closes those of G, it opens one, nothing.
Closes(G) ==
    /\ sessions' \in Seq(Table!Session)
    /\ \A r \in Recs' : \E q \in Recs : r.id = q.id /\ r.conn = q.conn /\ (r.open => q.open /\ q \notin G)
    /\ \A q \in Recs \ G : q.open => q \in Recs'
Opens(x, c) ==
    LET new == [id |-> x, conn |-> c, open |-> TRUE]
    IN  /\ sessions' \in Seq(Table!Session)
        /\ Recs' \subseteq Recs \cup {new} /\ new \in Recs'
        /\ \A q \in Recs : q.open => q \in Recs'

LEMMA RecsLemma ==
    ASSUME sessions \in Seq(Table!Session)
    PROVE  /\ DOMAIN sessions = 1 .. Len(sessions) /\ Len(sessions) \in Nat
           /\ \A i \in DOMAIN sessions : sessions[i] \in Recs /\ sessions[i] \in Table!Session
           /\ \A r \in Recs : r \in Table!Session /\ \E i \in DOMAIN sessions : r = sessions[i]
BY LenProperties, ElementOfSeq DEF Recs, ToSet

LEMMA InsertLemma ==
    ASSUME sessions \in Seq(Table!Session), NEW c \in Conns, NEW x \in Nat \ {0}, Table!Insert(x, c)
    PROVE  Opens(x, c) /\ next_id' = next_id
<1> DEFINE new == [id |-> x, conn |-> c, open |-> TRUE]
           p == Table!Pruned
<1>1. sessions' = Append(p, new) /\ next_id' = next_id
  BY DEF Table!Insert
<1>2. p \in Seq(Table!Session) /\ ToSet(p) \subseteq Recs /\ \A r \in Recs : r.open => r \in ToSet(p)
  BY PrunedLemma
<1>3. new \in Table!Session
  BY DEF Table!Session
<1> HIDE DEF p, new
<1>4. ToSet(Append(p, new)) = ToSet(p) \cup {new} /\ Append(p, new) \in Seq(Table!Session)
  BY <1>2, <1>3, LenProperties, AppendProperties DEF ToSet
<1> QED
  BY <1>1, <1>2, <1>4 DEF Opens, Recs, new

LEMMA ClosingLemma ==
    ASSUME sessions \in Seq(Table!Session), NEW G \in SUBSET Recs,
           NEW b \in [DOMAIN sessions -> BOOLEAN],
           \A i \in DOMAIN sessions : b[i] <=> sessions[i].open /\ sessions[i] \notin G,
           sessions' = [i \in DOMAIN sessions |-> [sessions[i] EXCEPT !.open = b[i]]]
    PROVE  Closes(G)
<1> DEFINE D == DOMAIN sessions
<1>1. /\ D = 1 .. Len(sessions) /\ Len(sessions) \in Nat /\ DOMAIN sessions' = D
      /\ \A i \in D : sessions[i] \in Table!Session /\ sessions[i] \in Recs
      /\ \A r \in Recs : \E i \in D : r = sessions[i]
  BY RecsLemma
<1>2. \A i \in D : sessions'[i] = [sessions[i] EXCEPT !.open = b[i]]
  OBVIOUS
<1> HIDE DEF D
<1>3. ASSUME NEW i \in D
      PROVE  /\ sessions'[i] \in Table!Session
             /\ sessions'[i].id = sessions[i].id /\ sessions'[i].conn = sessions[i].conn
             /\ sessions'[i].open = b[i]
  BY <1>1, <1>2, <1>3 DEF Table!Session, D
<1>4. ASSUME NEW i \in D, sessions[i].open, sessions[i] \notin G
      PROVE  sessions'[i] = sessions[i]
  <2>1. b[i] = TRUE
    BY <1>4, Zenon DEF D
  <2>2. sessions[i].open = TRUE /\ sessions[i] \in Table!Session
    BY <1>1, <1>4 DEF Table!Session
  <2> QED
    BY <1>2, <2>1, <2>2 DEF Table!Session
<1>5. sessions' \in Seq(Table!Session)
  <2>1. sessions' \in [1 .. Len(sessions) -> Table!Session]
    BY <1>1, <1>3 DEF D
  <2> QED
    BY <1>1, <2>1, SeqDef
<1>6. \A r \in Recs' : \E i \in D : r = sessions'[i]
  BY <1>1 DEF Recs, ToSet
<1>7. \A i \in D : sessions'[i] \in Recs'
  BY <1>1 DEF Recs, ToSet
<1>8. ASSUME NEW r \in Recs'
      PROVE  \E q \in Recs : r.id = q.id /\ r.conn = q.conn /\ (r.open => q.open /\ q \notin G)
  <2>1. PICK i \in D : r = sessions'[i]
    BY <1>6
  <2>2. r.open => sessions[i].open /\ sessions[i] \notin G
    BY <1>3, <2>1, Zenon DEF D
  <2> QED
    BY <1>1, <1>3, <2>1, <2>2
<1>9. ASSUME NEW q \in Recs \ G, q.open PROVE q \in Recs'
  BY <1>1, <1>4, <1>7, <1>9
<1> QED
  BY <1>5, <1>8, <1>9 DEF Closes

LEMMA CloseLemma ==
    ASSUME sessions \in Seq(Table!Session), NEW x, Table!Close(x)
    PROVE  Closes({q \in Recs : q.id = x}) /\ next_id' = next_id
<1> DEFINE b == [i \in DOMAIN sessions |-> sessions[i].open /\ sessions[i].id # x]
           G == {q \in Recs : q.id = x}
<1>1. \A i \in DOMAIN sessions : sessions[i] \in Recs
  BY RecsLemma
<1>2. b \in [DOMAIN sessions -> BOOLEAN]
  BY Zenon
<1>3. \A i \in DOMAIN sessions : b[i] <=> sessions[i].open /\ sessions[i] \notin G
  BY <1>1
<1>4. sessions' = [i \in DOMAIN sessions |-> [sessions[i] EXCEPT !.open = b[i]]] /\ next_id' = next_id
  BY Zenon DEF Table!Close
<1>5. G \in SUBSET Recs
  OBVIOUS
<1> HIDE DEF b, G
<1> QED
  BY <1>2, <1>3, <1>4, <1>5, ClosingLemma DEF G

LEMMA CloseOwnedLemma ==
    ASSUME sessions \in Seq(Table!Session), NEW c, Table!CloseOwnedByConnection(c)
    PROVE  Closes({q \in Recs : q.conn = c}) /\ next_id' = next_id
<1> DEFINE b == [i \in DOMAIN sessions |-> sessions[i].open /\ sessions[i].conn # c]
           G == {q \in Recs : q.conn = c}
<1>1. \A i \in DOMAIN sessions : sessions[i] \in Recs
  BY RecsLemma
<1>2. b \in [DOMAIN sessions -> BOOLEAN]
  BY Zenon
<1>3. \A i \in DOMAIN sessions : b[i] <=> sessions[i].open /\ sessions[i] \notin G
  BY <1>1
<1>4. sessions' = [i \in DOMAIN sessions |-> [sessions[i] EXCEPT !.open = b[i]]] /\ next_id' = next_id
  BY Zenon DEF Table!CloseOwnedByConnection
<1>5. G \in SUBSET Recs
  OBVIOUS
<1> HIDE DEF b, G
<1> QED
  BY <1>2, <1>3, <1>4, <1>5, ClosingLemma DEF G

-----------------------------------------------------------------------------
(* What each step does to the ids, the records and their owners.            *)

RecordsInv == IdInv /\ RecInv

LEMMA Numbers ==
    ASSUME TypeOK, IdInv
    PROVE  /\ \A c \in Conns : tid[c] \in Nat /\ plan[c].tid \in Nat
           /\ claim.table \in Nat /\ next_id \in Nat \ {0} /\ sessions \in Seq(Table!Session)
           /\ \A r \in Recs : r \in Table!Session /\ r.id \in Nat \ {0} /\ r.conn \in Conns
<1>1. Ids \subseteq Nat
  BY BoundsAssumption DEF Ids
<1>2. \A c \in Conns : tid[c] \in Nat
  BY <1>1 DEF TypeOK
<1>3. \A c \in Conns : plan[c].tid \in Nat
  BY <1>1 DEF TypeOK
<1>4. claim.table \in Nat
  BY <1>1 DEF TypeOK
<1>5. sessions \in Seq(Table!Session)
  BY DEF TypeOK, Table!TypeOK
<1>6. \A r \in Recs : r \in Table!Session
  BY <1>5, RecsLemma
<1> QED
  BY <1>2, <1>3, <1>4, <1>5, <1>6 DEF IdInv, Table!Session

LEMMA OpenIdsLemma == \A x : x \in Table!OpenIds <=> IsOpen(x)
BY DEF Table!OpenIds, IsOpen, Recs, ToSet

LEMMA OpenIdsNext == \A x : x \in Table!OpenIds' <=> IsOpen(x)'
BY DEF Table!OpenIds, IsOpen, Recs, ToSet

\* The table is left alone, and no open begins to wait or gets the claim.
LEMMA SameStays ==
    ASSUME sessions' = sessions,
           \A c \in Conns : pc'[c] \in Asking => pc[c] \in Asking /\ tid'[c] = tid[c],
           claim'.active => claim.active /\ claim'.table = claim.table /\ claim'.conn = claim.conn
    PROVE  Stays
<1>1. Recs' = Recs
  BY DEF Recs
<1>2. ASSUME NEW c \in Conns, NEW x \in Used(c)' PROVE x \in Used(c)
  BY <1>2 DEF Used, IsLiveFor, Asking
<1> QED
  BY <1>1, <1>2 DEF Stays, IsOpen

\* Nothing of it.
LEMMA FrameStep ==
    ASSUME TypeOK, RecordsInv, UNCHANGED <<tid, plan, next_id, sessions>>,
           claim'.conn = claim.conn, claim'.table = claim.table, claim'.active => claim.active,
           \A c \in Conns : /\ pc'[c] = "insert" => pc[c] = "insert"
                            /\ pc'[c] \in Asking => pc[c] \in Asking
                            /\ pc'[c] = "free" => pc[c] = "free"
    PROVE  RecordsInv' /\ Stays
<1> USE DEF RecordsInv
<1>1. IdInv'
  BY DEF IdInv
<1>2. Recs' = Recs
  BY DEF Recs
<1>3. RecInv'
  BY <1>2, Numbers DEF RecInv
<1>4. Stays
  BY SameStays
<1> QED
  BY <1>1, <1>3, <1>4

\* A thread moves, outside the opens.
LEMMA MoveStep ==
    ASSUME TypeOK, RecordsInv, CoreTypes, UNCHANGED <<tid, plan, next_id, sessions>>,
           claim'.conn = claim.conn, claim'.table = claim.table, claim'.active => claim.active,
           NEW c \in Conns, NEW p, Go(c, p), p \notin {"insert", "free"},
           p \in Asking => pc[c] \in Asking
    PROVE  RecordsInv' /\ Stays
<1>1. pc' = [pc EXCEPT ![c] = p] /\ pc \in [Conns -> Steps]
  BY DEF Go, CoreTypes
<1>2. \A d \in Conns : pc'[d] = IF d = c THEN p ELSE pc[d]
  BY <1>1
<1> QED
  BY <1>2, FrameStep

\* An id is drawn.
LEMMA DrawStep ==
    ASSUME TypeOK, RecordsInv, CoreTypes, NEW c \in Conns, SessionOpen(c)
    PROVE  RecordsInv' /\ Stays
<1> USE DEF RecordsInv
<1>1. /\ pc' = [pc EXCEPT ![c] = "insert"] /\ tid' = [tid EXCEPT ![c] = next_id]
      /\ next_id' = next_id + 1 /\ UNCHANGED <<plan, claim, sessions>>
  BY DEF SessionOpen, Table!DrawId, Go
<1>2. pc \in [Conns -> Steps] /\ tid \in [Conns -> Nat]
  BY DEF CoreTypes
<1>3. /\ \A d \in Conns : tid'[d] = IF d = c THEN next_id ELSE tid[d]
      /\ \A d \in Conns : pc'[d] = IF d = c THEN "insert" ELSE pc[d]
  <2>1. \A d \in Conns : tid'[d] = IF d = c THEN next_id ELSE tid[d]
    BY <1>1, <1>2
  <2>2. \A d \in Conns : pc'[d] = IF d = c THEN "insert" ELSE pc[d]
    BY <1>1, <1>2
  <2> QED
    BY <2>1, <2>2
<1>4. IdInv'
  BY <1>1, <1>3, Numbers DEF IdInv, Asking
<1>5. Recs' = Recs
  BY <1>1 DEF Recs
<1>6. RecInv'
  BY <1>1, <1>3, <1>5, Numbers DEF RecInv
<1>7. Stays
  <2>1. \A d \in Conns : pc'[d] \in Asking => pc[d] \in Asking /\ tid'[d] = tid[d]
    BY <1>3 DEF Asking
  <2> QED
    BY <1>1, <2>1, SameStays
<1> QED
  BY <1>4, <1>6, <1>7

\* A record is appended, under the id that was drawn for it.
LEMMA InsertStep ==
    ASSUME TypeOK, RecordsInv, NEW c \in Conns, pc[c] = "insert", Table!Insert(tid[c], c),
           UNCHANGED <<tid, plan>>,
           \/ Go(c, "loop") /\ claim' = claim
           \/ Go(c, "grace") /\ claim' = claim
           \/ TakeClaim(c)
    PROVE  RecordsInv' /\ Stays
<1> USE DEF RecordsInv
<1> DEFINE new == [id |-> tid[c], conn |-> c, open |-> TRUE]
<1>1. tid[c] \in Nat \ {0} /\ sessions \in Seq(Table!Session)
  BY Numbers DEF IdInv
<1>2. /\ next_id' = next_id /\ Recs' \subseteq Recs \cup {new} /\ new \in Recs'
      /\ \A q \in Recs : q.open => q \in Recs'
  BY <1>1, InsertLemma DEF Opens
<1>3. new.id = tid[c] /\ new.conn = c /\ new.open = TRUE
  OBVIOUS
<1> HIDE DEF new
<1>4. PICK p \in {"loop", "grace", "spawn"} :
        /\ pc' = [pc EXCEPT ![c] = p]
        /\ claim' = claim \/ (p = "spawn" /\ claim'.table = tid[c] /\ claim'.conn = c)
  BY DEF Go, TakeClaim
<1>5. \A d \in Conns : pc'[d] = IF d = c THEN p ELSE pc[d]
  BY <1>4 DEF TypeOK
<1>6. claim' = claim \/ (p = "spawn" /\ claim'.table = tid[c] /\ claim'.conn = c)
  BY <1>4
<1>7. IdInv'
  BY <1>2, <1>5, <1>6, Numbers DEF IdInv, Asking
<1>8. RecInv'
  <2>1. \A r \in Recs' : r \in Recs \/ (r.id = tid[c] /\ r.conn = c)
    BY <1>2, <1>3
  <2>2. \A r \in Recs' : r.id < next_id' /\ (r.open => pc'[r.conn] # "free")
    BY <1>2, <1>5, <2>1, Numbers DEF RecInv, IdInv
  <2>3. \A r \in Recs', d \in Conns : r.id = tid'[d] => r.conn = d
    BY <1>1, <2>1, Numbers DEF RecInv, IdInv
  <2>4. \A r \in Recs' : r.id = claim'.table => r.conn = claim'.conn
    BY <1>1, <1>6, <2>1, Numbers DEF RecInv, IdInv
  <2> QED
    BY <2>2, <2>3, <2>4 DEF RecInv
<1>9. Stays
  <2>1. IsOpen(tid[c])'
    BY <1>2, <1>3 DEF IsOpen
  <2>2. ASSUME NEW x, IsOpen(x) PROVE IsOpen(x)'
    BY <1>2, <2>2 DEF IsOpen
  <2>3. ASSUME NEW d \in Conns, NEW x \in Used(d)' PROVE x = tid[c] \/ x \in Used(d)
    BY <1>5, <1>6, <2>3 DEF Used, IsLiveFor, Asking
  <2> QED
    BY <2>1, <2>2, <2>3 DEF Stays
<1> QED
  BY <1>7, <1>8, <1>9

\* The claim is taken by an open that waited for it.
LEMMA WaitedStep ==
    ASSUME TypeOK, RecordsInv, NEW c \in Conns, pc[c] = "nap", TakeClaim(c),
           UNCHANGED <<tid, plan, next_id, sessions>>
    PROVE  RecordsInv' /\ Stays
<1> USE DEF RecordsInv
<1>1. pc' = [pc EXCEPT ![c] = "spawn"] /\ claim'.table = tid[c] /\ claim'.conn = c
  BY DEF Go, TakeClaim
<1>2. \A d \in Conns : pc'[d] = IF d = c THEN "spawn" ELSE pc[d]
  BY <1>1 DEF TypeOK
<1>3. Recs' = Recs
  BY DEF Recs
<1>4. IdInv'
  BY <1>1, <1>2, Numbers DEF IdInv, Asking
<1>5. RecInv'
  BY <1>1, <1>2, <1>3, Numbers DEF RecInv
<1>6. ASSUME NEW d \in Conns, NEW x \in Used(d)' PROVE x \in Used(d)
  BY <1>1, <1>2, <1>6 DEF Used, IsLiveFor, Asking
<1>7. Stays
  BY <1>3, <1>6 DEF Stays, IsOpen
<1> QED
  BY <1>4, <1>5, <1>7

\* Records of G are closed: what is left of the rest.
LEMMA ClosedRec ==
    ASSUME TypeOK, RecordsInv, NEW G, Closes(G), next_id' = next_id,
           \A c \in Conns : tid'[c] \in {tid[c], 0},
           claim'.table = 0 \/ (claim'.table = claim.table /\ claim'.conn = claim.conn),
           \A c \in Conns : pc'[c] = "free" =>
               pc[c] = "free" \/ \A q \in Recs : q.conn = c => q \in G
    PROVE  RecInv'
<1> USE DEF RecordsInv
<1>1. ASSUME NEW r \in Recs'
      PROVE  /\ r.id < next_id' /\ (r.open => pc'[r.conn] # "free")
             /\ \A c \in Conns : r.id = tid'[c] => r.conn = c
             /\ r.id = claim'.table => r.conn = claim'.conn
  <2>1. PICK q \in Recs : r.id = q.id /\ r.conn = q.conn /\ (r.open => q.open /\ q \notin G)
    BY <1>1 DEF Closes
  <2>2. q.id \in Nat \ {0} /\ q.conn \in Conns
    BY Numbers
  <2>3. r.id < next_id'
    BY <2>1 DEF RecInv
  <2>4. r.open => pc'[r.conn] # "free"
    BY <2>1, <2>2 DEF RecInv
  <2>5. \A c \in Conns : r.id = tid'[c] => r.conn = c
    BY <2>1, <2>2 DEF RecInv
  <2>6. r.id = claim'.table => r.conn = claim'.conn
    BY <2>1, <2>2 DEF RecInv
  <2> QED
    BY <2>3, <2>4, <2>5, <2>6
<1> QED
  BY <1>1 DEF RecInv

LEMMA ClosedStays ==
    ASSUME NEW G, Closes(G),
           \A c \in Conns : pc'[c] \in Asking =>
               pc[c] \in Asking /\ tid'[c] = tid[c] /\ \A q \in G : q.id # tid[c],
           claim'.active => /\ claim.active /\ claim'.table = claim.table /\ claim'.conn = claim.conn
                            /\ \A q \in G : q.id # claim.table
    PROVE  Stays
<1>1. \A q \in Recs : q.open /\ q \notin G => q \in Recs'
  BY DEF Closes
<1>2. ASSUME NEW c \in Conns, NEW x \in Used(c)' PROVE x \in Used(c) /\ \A q \in G : q.id # x
  BY <1>2 DEF Used, IsLiveFor, Asking
<1> QED
  BY <1>1, <1>2 DEF Stays, IsOpen

\* An open is refused, or it fails and lets go of its claim.
LEMMA RefusedStep ==
    ASSUME TypeOK, CoreTypes, RecordsInv, NEW c \in Conns, pc[c] \in Asking, Refused(c), UNCHANGED <<tid, plan>>
    PROVE  RecordsInv' /\ Stays
<1> USE DEF RecordsInv
<1> DEFINE G == {q \in Recs : q.id = tid[c]}
<1>1. pc' = [pc EXCEPT ![c] = "loop"] /\ claim' = claim /\ Table!Close(tid[c])
  BY DEF Refused, Go
<1>2. \A d \in Conns : pc'[d] = IF d = c THEN "loop" ELSE pc[d]
  BY <1>1 DEF CoreTypes
<1>3. Closes(G) /\ next_id' = next_id
  BY <1>1, Numbers, CloseLemma
<1>4. \A q \in G : q.id = tid[c]
  OBVIOUS
<1> HIDE DEF G
<1>5. tid[c] # 0 /\ \A d \in Conns : d # c => tid[d] # tid[c]
  BY DEF IdInv
<1>6. claim.table # tid[c]
  BY <1>5 DEF IdInv
<1>7. IdInv'
  BY <1>1, <1>2, <1>3 DEF IdInv, Asking
<1>8. RecInv'
  BY <1>1, <1>2, <1>3, ClosedRec
<1>9. Stays
  BY <1>1, <1>2, <1>3, <1>4, <1>5, <1>6, ClosedStays DEF Asking
<1> QED
  BY <1>7, <1>8, <1>9

LEMMA UnwindStep ==
    ASSUME TypeOK, IInv, RecordsInv, NEW c \in Conns, pc[c] \in Opening, Unwind(c), UNCHANGED <<tid, plan>>
    PROVE  RecordsInv' /\ Stays
<1> USE DEF RecordsInv
<1> DEFINE G == {q \in Recs : q.id = tid[c]}
<1>1. claim.active /\ claim.conn = c /\ claim.wire = Wire[c]
  BY DEF IInv, ClaimInv
<1>2. pc' = [pc EXCEPT ![c] = "loop"] /\ claim' = Idle /\ Table!Close(tid[c])
  BY <1>1 DEF Unwind, Go, IsLiveFor
<1>3. \A d \in Conns : pc'[d] = IF d = c THEN "loop" ELSE pc[d]
  BY <1>2 DEF IInv, CoreTypes
<1>4. Closes(G) /\ next_id' = next_id
  BY <1>2, Numbers, CloseLemma
<1>5. \A q \in G : q.id = tid[c] /\ q.id # 0
  BY Numbers
<1> HIDE DEF G
<1>6. claim'.table = 0 /\ claim'.active = FALSE
  BY <1>2 DEF Idle
<1>7. IdInv'
  <2>1. \A d \in Conns : pc'[d] \in {"insert"} \cup Asking => pc[d] \in {"insert"} \cup Asking
    BY <1>3 DEF Asking
  <2> QED
    BY <1>4, <1>6, <2>1, Numbers DEF IdInv
<1>8. RecInv'
  BY <1>3, <1>4, <1>6, ClosedRec
<1>9. \A d \in Conns : pc'[d] \in Asking => pc[d] \in Asking /\ \A q \in G : q.id # tid[d]
  BY <1>3, <1>5 DEF IdInv, Asking
<1>10. Stays
  BY <1>4, <1>6, <1>9, ClosedStays
<1> QED
  BY <1>7, <1>8, <1>10

\* A client closes a record by its number, anybody's.
LEMMA CloseOtherStep ==
    ASSUME TypeOK, RecordsInv, NEW c \in Conns, NEW x \in Ids, CloseOther(c, x)
    PROVE  RecordsInv' /\ RecordsStay
<1> USE DEF RecordsInv
<1> DEFINE G == {q \in Recs : q.id = x}
<1>1. UNCHANGED <<pc, tid, plan, claim>> /\ Table!Close(x)
  BY DEF CloseOther, threads
<1>2. Closes(G) /\ next_id' = next_id
  BY <1>1, Numbers, CloseLemma
<1>3. \A q \in G : q.id = x
  OBVIOUS
<1> HIDE DEF G
<1>4. IdInv'
  BY <1>1, <1>2 DEF IdInv
<1>5. RecInv'
  BY <1>1, <1>2, ClosedRec
<1>6. ASSUME NEW d \in Conns, NEW y \in Used(d)', y # x
      PROVE  y \in Table!OpenIds' \/ y \in Used(d) \ Table!OpenIds
  <2>1. y \in Used(d)
    BY <1>1 DEF Used, IsLiveFor
  <2>2. IsOpen(y) => IsOpen(y)'
    BY <1>2, <1>3, <1>6 DEF IsOpen, Closes
  <2> QED
    BY <2>1, <2>2, OpenIdsLemma, OpenIdsNext
<1>7. RecordsStay
  BY <1>6 DEF RecordsStay
<1> QED
  BY <1>4, <1>5, <1>7

\* A teardown notes what it is for.
LEMMA PlanStep ==
    ASSUME TypeOK, CoreTypes, RecordsInv, NEW c \in Conns, claim.conn = c, UNCHANGED <<tid, next_id, sessions>>,
           plan' = [plan EXCEPT ![c] = [wire |-> claim.wire, tid |-> claim.table]],
           claim'.conn = claim.conn, claim'.table = claim.table, claim'.active = claim.active,
           NEW p \in {"order", "join"}, Go(c, p)
    PROVE  RecordsInv' /\ Stays
<1> USE DEF RecordsInv
<1>1. \A d \in Conns : pc'[d] = IF d = c THEN p ELSE pc[d]
  BY DEF CoreTypes, Go
<1>2. plan'[c].tid = claim.table /\ \A d \in Conns : d # c => plan'[d] = plan[d]
  BY DEF TypeOK
<1>3. IdInv'
  BY <1>1, <1>2, Numbers DEF IdInv, Asking
<1>4. Recs' = Recs
  BY DEF Recs
<1>5. RecInv'
  BY <1>1, <1>4, Numbers DEF RecInv
<1>6. Stays
  BY <1>1, SameStays DEF Asking
<1> QED
  BY <1>3, <1>5, <1>6

\* It closes the record it noted, and the claim forgets its owner.
LEMMA DisownStep ==
    ASSUME TypeOK, IInv, RecordsInv, NEW c \in Conns, Disown(c)
    PROVE  RecordsInv' /\ Stays
<1> USE DEF RecordsInv
<1> DEFINE G == {q \in Recs : q.id = plan[c].tid}
<1>1. /\ pc[c] = "disown" /\ DisownIfOwner(c) /\ Table!Close(plan[c].tid)
      /\ plan' = [plan EXCEPT ![c] = Nobody] /\ tid' = tid
  BY DEF Disown
<1>2. PICK p \in {"loop", "plan", "owned"} : pc' = [pc EXCEPT ![c] = p]
  BY DEF Disown, Go
<1>3. \A d \in Conns : pc'[d] = IF d = c THEN p ELSE pc[d]
  BY <1>2 DEF IInv, CoreTypes
<1>4. Closes(G) /\ next_id' = next_id
  BY <1>1, Numbers, CloseLemma
<1>5. \A q \in G : q.id = plan[c].tid /\ q.id # 0
  BY Numbers
<1> HIDE DEF G
<1>6. claim.active => claim.conn # c
  BY <1>1 DEF IInv, ClaimInv, PastJoin, Opening
<1>7. \/ claim.conn # c /\ claim' = claim
      \/ claim.conn = c /\ claim'.table = 0 /\ claim'.conn = NoConn /\ claim'.active = claim.active
  BY <1>1 DEF DisownIfOwner, TypeOK
<1>8. plan'[c].tid = 0 /\ \A d \in Conns : d # c => plan'[d] = plan[d]
  BY <1>1 DEF TypeOK, Nobody
<1>9. \A d \in Conns : pc'[d] \in {"insert"} \cup Asking => pc[d] \in {"insert"} \cup Asking /\ d # c
  BY <1>3 DEF Asking
<1>10. IdInv'
  BY <1>1, <1>4, <1>7, <1>8, <1>9, Numbers DEF IdInv
<1>11. RecInv'
  BY <1>1, <1>3, <1>4, <1>7, ClosedRec
<1>12. \A d \in Conns : pc'[d] \in Asking => pc[d] \in Asking /\ \A q \in G : q.id # tid[d]
  BY <1>3, <1>5 DEF IdInv, Asking
<1>13. claim'.active => /\ claim.active /\ claim'.table = claim.table /\ claim'.conn = claim.conn
                         /\ \A q \in G : q.id # claim.table
  BY <1>5, <1>6, <1>7 DEF IdInv
<1>14. Stays
  BY <1>1, <1>4, <1>12, <1>13, ClosedStays
<1> QED
  BY <1>10, <1>11, <1>14

\* The connection ends, and with it every record of its own.
LEMMA OwnedStep ==
    ASSUME TypeOK, IInv, RecordsInv, NEW c \in Conns, Owned(c)
    PROVE  RecordsInv' /\ Stays
<1> USE DEF RecordsInv
<1> DEFINE G == {q \in Recs : q.conn = c}
<1>1. /\ pc[c] = "owned" /\ Table!CloseOwnedByConnection(c) /\ pc' = [pc EXCEPT ![c] = "free"]
      /\ tid' = [tid EXCEPT ![c] = 0] /\ UNCHANGED <<plan, claim>>
  BY DEF Owned, Go
<1>2. \A d \in Conns : pc'[d] = IF d = c THEN "free" ELSE pc[d]
  BY <1>1 DEF IInv, CoreTypes
<1>3. \A d \in Conns : tid'[d] = IF d = c THEN 0 ELSE tid[d]
  BY <1>1 DEF IInv, CoreTypes
<1>4. Closes(G) /\ next_id' = next_id
  BY <1>1, Numbers, CloseOwnedLemma
<1>5. \A q \in G : q.conn = c /\ q \in Recs
  OBVIOUS
<1>6. \A q \in Recs : q.conn = c => q \in G
  OBVIOUS
<1> HIDE DEF G
<1>7. claim.active => claim.conn # c
  BY <1>1 DEF IInv, ClaimInv, PastJoin, Opening
<1>8. \A d \in Conns : pc'[d] \in {"insert"} \cup Asking => pc[d] \in {"insert"} \cup Asking /\ d # c
  BY <1>2 DEF Asking
<1>9. IdInv'
  BY <1>1, <1>3, <1>4, <1>8, Numbers DEF IdInv
<1>10. RecInv'
  <2>1. \A d \in Conns : tid'[d] \in {tid[d], 0}
    BY <1>3
  <2>2. \A d \in Conns : pc'[d] = "free" => pc[d] = "free" \/ \A q \in Recs : q.conn = d => q \in G
    BY <1>2, <1>6
  <2> QED
    BY <1>1, <1>4, <2>1, <2>2, ClosedRec
<1>11. \A d \in Conns : pc'[d] \in Asking => pc[d] \in Asking /\ tid'[d] = tid[d] /\ \A q \in G : q.id # tid[d]
  BY <1>2, <1>3, <1>5 DEF RecInv, Asking
<1>12. claim'.active => /\ claim.active /\ claim'.table = claim.table /\ claim'.conn = claim.conn
                         /\ \A q \in G : q.id # claim.table
  BY <1>1, <1>5, <1>7 DEF RecInv
<1>13. Stays
  BY <1>4, <1>11, <1>12, ClosedStays
<1> QED
  BY <1>9, <1>10, <1>13

-----------------------------------------------------------------------------
(* The types, group by group: an id is drawn only while next_id <= MaxOpens. *)

ThreadTypes ==
    /\ client \in [Conns -> {"none", "on", "gone"}] /\ armed \in [Conns -> BOOLEAN]
    /\ tid \in [Conns -> Ids] /\ goal \in [Conns -> {"close", "fail", "end"}]
    /\ plan \in [Conns -> [wire : Wires, tid : Ids]] /\ out \in [Conns -> Frames]
    /\ fed \in 0 .. MaxFeeds
ClaimType == claim \in [active : BOOLEAN, stop : BOOLEAN, wire : Wires, table : Ids, conn : Conns \cup {NoConn}]
WorkerTypes ==
    /\ up \in BOOLEAN /\ deaths \in 0 .. MaxDeaths
    /\ serving \in [wire : Wires, tid : Ids] /\ binary \in BOOLEAN
    /\ to_worker \in Seq(Frames) /\ from_worker \in Seq(Frames)

LEMMA TypeParts == TypeOK /\ CoreTypes <=> ThreadTypes /\ ClaimType /\ WorkerTypes /\ Table!TypeOK /\ CoreTypes
<1>1. Ids \subseteq Nat /\ Wires \subseteq Nat
  BY BoundsAssumption, WireAssumption DEF Ids, Wires
<1> QED
  BY <1>1 DEF TypeOK, ThreadTypes, ClaimType, WorkerTypes, CoreTypes, Steps, Opening, Table!TypeOK

LEMMA Values ==
    /\ 0 \in Ids /\ 0 \in Wires /\ NoConn \in Conns \cup {NoConn}
    /\ \A c \in Conns : Wire[c] \in Wires
    /\ <<>> \in Seq(Frames)
    /\ Nobody \in [wire : Wires, tid : Ids] /\ Nothing \in Frames
    /\ \A o \in {"none", "open", "close", "abort", "meta", "audio", "opened", "closed", "event", "error", "failed"},
          b \in Conns \cup {NoConn}, w \in Wires, t \in Ids : Frame(o, b, w, t) \in Frames
<1>1. 0 \in Ids /\ 0 \in Wires
  BY BoundsAssumption DEF Ids, Wires
<1> QED
  BY <1>1 DEF Wires, Nobody, Nothing, Frame, Frames

LEMMA ThreadStep ==
    ASSUME TypeOK, IdInv, Next
    PROVE  ThreadTypes'
<1> USE Values
<1>1. ThreadTypes
  BY DEF TypeOK, ThreadTypes
<1>2. CASE UNCHANGED <<client, armed, tid, goal, plan, out, fed>>
  BY <1>1, <1>2 DEF ThreadTypes
<1>3. CASE Relaying \/ WorkerServes \/ WorkerDies
  <2>1. UNCHANGED <<client, threads, fed>>
    BY <1>3 DEF Relaying, RelayTop, RelayQuiet, RelayForwards, RelayLoses, RelayBreaks, WorkerServes, WorkerDies
  <2> QED
    BY <1>2, <2>1 DEF threads
<1>4. ASSUME NEW c \in Conns, \/ Connect(c) \/ Leave(c) \/ SessionOpen(c) \/ OpenedOther(c) \/ OpenSteps(c)
                            \/ Gate(c, "meta") \/ Gate(c, "abort") \/ NoGate(c) \/ Post(c) \/ Audio(c)
                            \/ CloseLive(c) \/ LoopEnds(c) \/ EndSteps(c)
                            \/ \E x \in Ids : CloseOther(c, x)
      PROVE  ThreadTypes'
  <2>1. CASE Connect(c) \/ Leave(c)
    <3>1. \E v \in {"on", "gone"} : client' = [client EXCEPT ![c] = v]
      BY <2>1 DEF Connect, Leave
    <3>2. UNCHANGED <<armed, tid, goal, plan, out, fed>>
      BY <2>1 DEF Connect, Leave, threads
    <3> QED
      BY <1>1, <3>1, <3>2 DEF ThreadTypes
  <2>2. CASE SessionOpen(c)
    <3>1. next_id \in Ids
      BY <2>2, BoundsAssumption DEF SessionOpen, Ids, IdInv
    <3> QED
      BY <1>1, <2>2, <3>1 DEF SessionOpen, ThreadTypes
  <2>3. CASE OpenedOther(c) \/ OpenSteps(c)
    BY <1>2, <2>3 DEF OpenedOther, OpenSteps, Claim, Grace, Nap, Spawn, Send, WaitSkips, WaitOpened, WaitEnds, threads
  <2>4. CASE Gate(c, "meta") \/ Gate(c, "abort")
    <3>1. PICK o \in {"meta", "abort"} : Gate(c, o)
      BY <2>4
    <3>2. Frame(o, c, Wire[c], tid[c]) \in Frames
      BY <1>1 DEF ThreadTypes
    <3>3. fed' \in 0 .. MaxFeeds
      BY <1>1, <3>1, BoundsAssumption DEF Gate, ThreadTypes
    <3> QED
      BY <1>1, <3>1, <3>2, <3>3 DEF Gate, ThreadTypes
  <2>5. CASE NoGate(c)
    BY <1>1, <2>5 DEF NoGate, ThreadTypes
  <2>6. CASE Post(c)
    <3>1. goal' = goal \/ goal' = [goal EXCEPT ![c] = "fail"]
      BY <2>6 DEF Post, Breaks
    <3>2. armed' = armed \/ armed' = [armed EXCEPT ![c] = out[c].op = "meta"]
      BY <2>6 DEF Post
    <3> QED
      BY <1>1, <2>6, <3>1, <3>2 DEF Post, ThreadTypes
  <2>7. CASE Audio(c)
    <3>1. goal' = goal \/ goal' = [goal EXCEPT ![c] = "fail"]
      BY <2>7 DEF Audio, Breaks
    <3> QED
      BY <1>1, <2>7, <3>1 DEF Audio, ThreadTypes
  <2>8. CASE CloseLive(c)
    <3>1. [wire |-> claim.wire, tid |-> claim.table] \in [wire : Wires, tid : Ids]
      BY DEF TypeOK
    <3> QED
      BY <1>1, <2>8, <3>1 DEF CloseLive, ThreadTypes
  <2>9. CASE LoopEnds(c)
    BY <1>1, <2>9 DEF LoopEnds, ThreadTypes
  <2>10. CASE Plan(c)
    <3>1. [wire |-> claim.wire, tid |-> claim.table] \in [wire : Wires, tid : Ids]
      BY DEF TypeOK
    <3> QED
      BY <1>1, <2>10, <3>1 DEF Plan, ThreadTypes
  <2>11. CASE Order(c) \/ Join(c) \/ Drain(c) \/ \E x \in Ids : CloseOther(c, x)
    BY <1>2, <2>11 DEF Order, Join, Drain, CloseOther, threads
  <2>12. CASE Disown(c)
    BY <1>1, <2>12 DEF Disown, ThreadTypes
  <2>13. CASE Owned(c)
    BY <1>1, <2>13 DEF Owned, ThreadTypes
  <2> QED
    BY <1>4, <2>1, <2>2, <2>3, <2>4, <2>5, <2>6, <2>7, <2>8, <2>9, <2>10, <2>11, <2>12, <2>13 DEF EndSteps
<1> QED
  BY <1>3, <1>4 DEF Next

LEMMA ClaimStep ==
    ASSUME TypeOK, Next
    PROVE  ClaimType'
<1> USE Values
<1>1. ClaimType
  BY DEF TypeOK, ClaimType
<1>2. CASE claim' = claim
  BY <1>1, <1>2 DEF ClaimType
<1>3. CASE Relaying
  <2>1. claim' = claim \/ claim' = [claim EXCEPT !.active = FALSE]
    BY <1>3 DEF Relaying, RelayTop, RelayQuiet, RelayForwards, RelayLoses, RelayBreaks, RelayReleases, RelayGoes
  <2> QED
    BY <1>1, <2>1 DEF ClaimType
<1>4. CASE WorkerServes \/ WorkerDies
  BY <1>2, <1>4 DEF WorkerServes, WorkerDies
<1>5. ASSUME NEW c \in Conns, TakeClaim(c) PROVE ClaimType'
  BY <1>5 DEF TakeClaim, TypeOK, ClaimType
<1>6. ASSUME NEW c \in Conns, Unwind(c) PROVE ClaimType'
  BY <1>1, <1>6 DEF Unwind, ClaimType, Idle
<1>7. ASSUME NEW c \in Conns, OpenSteps(c) PROVE ClaimType'
  <2>1. claim' = claim \/ TakeClaim(c) \/ Unwind(c)
    BY <1>7 DEF OpenSteps, Claim, Grace, Nap, Refused, Spawn, Send, WaitSkips, WaitOpened, WaitEnds
  <2> QED
    BY <1>2, <1>5, <1>6, <2>1
<1>8. ASSUME NEW c \in Conns, CloseLive(c) PROVE ClaimType'
  BY <1>1, <1>8 DEF CloseLive, ClaimType
<1>9. ASSUME NEW c \in Conns, EndSteps(c) PROVE ClaimType'
  <2>1. (claim.stop \/ claim.active) \in BOOLEAN
    BY Zenon
  <2>2. \/ claim' = claim \/ claim' = [claim EXCEPT !.stop = claim.stop \/ claim.active]
        \/ claim' = [claim EXCEPT !.conn = NoConn, !.wire = 0, !.table = 0]
    BY <1>9 DEF EndSteps, Plan, Order, Join, Drain, Disown, DisownIfOwner, Owned
  <2> QED
    BY <1>1, <2>1, <2>2 DEF ClaimType
<1>10. ASSUME NEW c \in Conns,
              \/ Connect(c) \/ Leave(c) \/ SessionOpen(c) \/ OpenedOther(c)
              \/ Gate(c, "meta") \/ Gate(c, "abort") \/ NoGate(c) \/ Post(c) \/ Audio(c)
              \/ LoopEnds(c) \/ \E x \in Ids : CloseOther(c, x)
       PROVE  ClaimType'
  BY <1>2, <1>10 DEF Connect, Leave, SessionOpen, OpenedOther, Gate, NoGate, Post, Audio, LoopEnds, CloseOther
<1> QED
  BY <1>3, <1>4, <1>7, <1>8, <1>9, <1>10 DEF Next

LEMMA WorkerStep ==
    ASSUME TypeOK, Next
    PROVE  WorkerTypes'
<1> USE Values
<1>1. WorkerTypes
  BY DEF TypeOK, WorkerTypes
<1>2. CASE UNCHANGED worker
  BY <1>1, <1>2 DEF WorkerTypes, worker
<1>3. ASSUME NEW f \in Frames, Sends(f) PROVE WorkerTypes'
  BY <1>1, <1>3 DEF Sends, WorkerTypes
<1>4. ASSUME from_worker # <<>>, from_worker' = Tail(from_worker), UNCHANGED <<up, deaths, serving, binary, to_worker>>
      PROVE  WorkerTypes'
  BY <1>1, <1>4 DEF WorkerTypes
<1>5. CASE Relaying
  BY <1>2, <1>4, <1>5 DEF Relaying, RelayTop, RelayQuiet, RelayForwards, RelayLoses, RelayBreaks
<1>6. CASE WorkerDies
  <2>1. deaths' \in 0 .. MaxDeaths
    BY <1>1, <1>6, BoundsAssumption DEF WorkerDies, WorkerTypes
  <2> QED
    BY <1>1, <1>6, <2>1 DEF WorkerDies, WorkerTypes
<1>7. CASE WorkerServes
  <2> DEFINE f == Head(to_worker)
  <2>1. /\ to_worker # <<>> /\ to_worker' = Tail(to_worker) /\ UNCHANGED <<up, deaths>>
        /\ serving' \in {serving, Nobody, [wire |-> f.wire, tid |-> f.tid]}
        /\ binary' \in {binary, TRUE, FALSE}
    BY <1>7 DEF WorkerServes
  <2>2. \/ from_worker' = from_worker
        \/ Says(<<Frame("event", f.by, serving.wire, serving.tid)>>)
        \/ Says(<<Frame("opened", f.by, f.wire, f.tid)>>)
        \/ Says(<<Frame("error", f.by, f.wire, f.tid)>>)
        \/ Says(<<Frame("closed", f.by, serving.wire, serving.tid)>>)
        \/ Says(<<[Frame("closed", f.by, serving.wire, serving.tid) EXCEPT !.op = "event"],
                  Frame("closed", f.by, serving.wire, serving.tid)>>)
    BY <1>7 DEF WorkerServes
  <2>3. f \in Frames /\ to_worker' \in Seq(Frames)
    BY <1>1, <2>1 DEF WorkerTypes
  <2> HIDE DEF f
  <2>4. f.by \in Conns \cup {NoConn} /\ f.wire \in Wires /\ f.tid \in Ids
    BY <2>3 DEF Frames
  <2>5. serving.wire \in Wires /\ serving.tid \in Ids
    BY <1>1 DEF WorkerTypes
  <2>6. ASSUME NEW g \in Frames, NEW h \in Frames, Says(<<g>>) \/ Says(<<g, h>>)
        PROVE  from_worker' \in Seq(Frames)
    <3>1. <<g>> \in Seq(Frames) /\ <<g, h>> \in Seq(Frames) /\ from_worker \in Seq(Frames)
      BY <1>1 DEF WorkerTypes
    <3> QED
      BY <2>6, <3>1, ConcatProperties DEF Says
  <2>7. [Frame("closed", f.by, serving.wire, serving.tid) EXCEPT !.op = "event"]
            = Frame("event", f.by, serving.wire, serving.tid)
    BY DEF Frame
  <2>8. from_worker' \in Seq(Frames)
    BY <1>1, <2>2, <2>4, <2>5, <2>6, <2>7 DEF WorkerTypes
  <2>9. serving' \in [wire : Wires, tid : Ids]
    BY <1>1, <2>1, <2>4 DEF WorkerTypes
  <2>10. binary' \in BOOLEAN
    BY <1>1, <2>1, Zenon DEF WorkerTypes
  <2> QED
    BY <1>1, <2>1, <2>3, <2>8, <2>9, <2>10 DEF WorkerTypes
<1>8. ASSUME NEW c \in Conns, OpenSteps(c) \/ Drain(c) PROVE WorkerTypes'
  <2>1. CASE Spawn(c)
    BY <1>1, <2>1 DEF Spawn, WorkerTypes
  <2>2. CASE Send(c)
    <3>1. UNCHANGED worker \/ (up /\ to_worker' = Append(to_worker, Frame("open", c, Wire[c], tid[c]))
                               /\ from_worker' = <<>> /\ UNCHANGED <<up, deaths, serving, binary>>)
      BY <2>2 DEF Send, SendFails
    <3>2. Frame("open", c, Wire[c], tid[c]) \in Frames
      BY DEF TypeOK
    <3>3. Append(to_worker, Frame("open", c, Wire[c], tid[c])) \in Seq(Frames)
      BY <1>1, <3>2, AppendProperties DEF WorkerTypes
    <3> QED
      BY <1>1, <1>2, <3>1, <3>3 DEF WorkerTypes
  <2>3. CASE Claim(c) \/ Grace(c) \/ Nap(c) \/ WaitSkips(c) \/ WaitOpened(c) \/ WaitEnds(c) \/ Drain(c)
    BY <1>2, <1>4, <2>3 DEF Claim, Grace, Nap, WaitSkips, WaitOpened, WaitEnds, Drain, worker
  <2> QED
    BY <1>8, <2>1, <2>2, <2>3 DEF OpenSteps
<1>9. ASSUME NEW c \in Conns, Post(c) \/ Audio(c) \/ Order(c) PROVE WorkerTypes'
  <2>1. out[c] \in Frames /\ Frame("audio", c, Wire[c], tid[c]) \in Frames
        /\ Frame("close", c, plan[c].wire, plan[c].tid) \in Frames
    BY DEF TypeOK
  <2>2. UNCHANGED worker \/ Sends(out[c]) \/ Sends(Frame("audio", c, Wire[c], tid[c]))
        \/ Sends(Frame("close", c, plan[c].wire, plan[c].tid))
    BY <1>9 DEF Post, Audio, Order, Breaks, SendFails
  <2> QED
    BY <1>2, <1>3, <2>1, <2>2
<1>10. ASSUME NEW c \in Conns,
              \/ Connect(c) \/ Leave(c) \/ SessionOpen(c) \/ OpenedOther(c)
              \/ Gate(c, "meta") \/ Gate(c, "abort") \/ NoGate(c) \/ CloseLive(c) \/ LoopEnds(c)
              \/ Plan(c) \/ Join(c) \/ Disown(c) \/ Owned(c) \/ \E x \in Ids : CloseOther(c, x)
       PROVE  WorkerTypes'
  BY <1>2, <1>10 DEF Connect, Leave, SessionOpen, OpenedOther, Gate, NoGate, CloseLive, LoopEnds, Plan,
                     Join, Disown, Owned, CloseOther
<1> QED
  BY <1>5, <1>6, <1>7, <1>8, <1>9, <1>10 DEF Next, EndSteps

LEMMA TableStep ==
    ASSUME TypeOK, RecordsInv, Next
    PROVE  Table!TypeOK'
<1>1. sessions \in Seq(Table!Session) /\ next_id \in Nat \ {0}
  BY Numbers DEF RecordsInv
<1>2. CASE UNCHANGED table
  BY <1>1, <1>2 DEF table, Table!TypeOK
<1>3. ASSUME NEW x, Table!Close(x) PROVE Table!TypeOK'
  BY <1>1, <1>3, CloseLemma DEF Closes, Table!TypeOK
<1>4. CASE Relaying \/ WorkerServes \/ WorkerDies
  BY <1>2, <1>4 DEF Relaying, RelayTop, RelayQuiet, RelayForwards, RelayLoses, RelayBreaks, WorkerServes, WorkerDies
<1>5. ASSUME NEW c \in Conns, SessionOpen(c) PROVE Table!TypeOK'
  BY <1>1, <1>5 DEF SessionOpen, Table!DrawId, Table!TypeOK
<1>6. ASSUME NEW c \in Conns, pc[c] = "insert", Table!Insert(tid[c], c) PROVE Table!TypeOK'
  <2>1. tid[c] \in Nat \ {0}
    BY <1>6, Numbers DEF RecordsInv, IdInv
  <2> QED
    BY <1>1, <1>6, <2>1, InsertLemma DEF Opens, Table!TypeOK
<1>7. ASSUME NEW c \in Conns, OpenedOther(c) \/ OpenSteps(c) PROVE Table!TypeOK'
  <2>1. UNCHANGED table \/ Table!Close(tid[c]) \/ (pc[c] = "insert" /\ Table!Insert(tid[c], c))
    BY <1>7 DEF OpenedOther, OpenSteps, Claim, Grace, Nap, Refused, Spawn, Send, WaitSkips, WaitOpened,
                WaitEnds, Unwind
  <2> QED
    BY <1>2, <1>3, <1>6, <2>1
<1>8. ASSUME NEW c \in Conns, Owned(c) PROVE Table!TypeOK'
  BY <1>1, <1>8, CloseOwnedLemma DEF Owned, Closes, Table!TypeOK
<1>9. ASSUME NEW c \in Conns, Disown(c) \/ \E x \in Ids : CloseOther(c, x) PROVE Table!TypeOK'
  BY <1>3, <1>9 DEF Disown, CloseOther
<1>10. ASSUME NEW c \in Conns,
              \/ Connect(c) \/ Leave(c) \/ Gate(c, "meta") \/ Gate(c, "abort") \/ NoGate(c) \/ Post(c) \/ Audio(c)
              \/ CloseLive(c) \/ LoopEnds(c) \/ Plan(c) \/ Order(c) \/ Join(c) \/ Drain(c)
       PROVE  Table!TypeOK'
  BY <1>2, <1>10 DEF Connect, Leave, Gate, NoGate, Post, Audio, CloseLive, LoopEnds, Plan, Order, Join, Drain
<1> QED
  BY <1>4, <1>5, <1>7, <1>8, <1>9, <1>10 DEF Next, EndSteps

-----------------------------------------------------------------------------
RecordsIInv == IInv /\ TypeOK /\ RecordsInv

LEMMA RecordsInit == Init => RecordsIInv
<1> SUFFICES ASSUME Init PROVE RecordsIInv
  OBVIOUS
<1>1. Recs = {}
  BY DEF Init, Table!Init, Recs, ToSet
<1>2. IdInv
  BY DEF Init, Table!Init, IdInv, Idle, Nobody, Asking
<1>3. RecInv
  BY <1>1 DEF Init, RecInv, Idle
<1>4. TypeOK
  <2>1. 0 \in 0 .. MaxFeeds /\ 0 \in 0 .. MaxDeaths
    BY BoundsAssumption
  <2>2. ThreadTypes /\ ClaimType
    BY <2>1, Values DEF Init, ThreadTypes, ClaimType, Idle
  <2>3. WorkerTypes
    BY <2>1, Values DEF Init, WorkerTypes
  <2>4. Table!TypeOK
    BY DEF Init, Table!Init, Table!TypeOK
  <2> QED
    BY <2>2, <2>3, <2>4, InitLemma, TypeParts DEF IInv
<1> QED
  BY <1>2, <1>3, <1>4, InitLemma DEF RecordsIInv, RecordsInv

LEMMA RecordsStep ==
    ASSUME RecordsIInv, Next
    PROVE  RecordsInv' /\ RecordsStay
<1> USE DEF RecordsIInv
<1>0. Stays => RecordsStay
  BY OpenIdsLemma, OpenIdsNext DEF Stays, RecordsStay
<1>1. CoreTypes
  BY DEF IInv
<1>2. CASE Relaying \/ WorkerServes \/ WorkerDies
  <2>1. UNCHANGED <<threads, table>>
    BY <1>2 DEF Relaying, RelayTop, RelayQuiet, RelayForwards, RelayLoses, RelayBreaks, WorkerServes, WorkerDies
  <2>2. claim' = claim \/ claim' = [claim EXCEPT !.active = FALSE]
    BY <1>2 DEF Relaying, RelayTop, RelayQuiet, RelayForwards, RelayLoses, RelayBreaks, RelayReleases, RelayGoes,
                WorkerServes, WorkerDies
  <2>3. claim'.conn = claim.conn /\ claim'.table = claim.table /\ (claim'.active => claim.active)
    BY <2>2 DEF TypeOK
  <2> QED
    BY <1>0, <2>1, <2>3, FrameStep DEF threads, table
<1>3. ASSUME NEW c \in Conns,
             \/ Connect(c) \/ Leave(c) \/ Gate(c, "meta") \/ Gate(c, "abort") \/ NoGate(c) \/ Post(c) \/ Audio(c)
             \/ LoopEnds(c) \/ Order(c) \/ Join(c) \/ Drain(c) \/ WaitSkips(c) \/ WaitOpened(c)
      PROVE  RecordsInv' /\ Stays
  <2>1. UNCHANGED <<tid, plan, claim, next_id, sessions>>
    BY <1>3 DEF Connect, Leave, Gate, NoGate, Post, Audio, LoopEnds, Order, Join, Drain, WaitSkips, WaitOpened,
                threads, table
  <2>2. UNCHANGED pc \/ \E p \in {"loop", "post", "plan", "join", "drain", "disown"} : Go(c, p)
    BY <1>3 DEF Connect, Leave, Gate, NoGate, Post, Audio, Breaks, LoopEnds, Order, Join, Drain, WaitSkips,
                WaitOpened, threads
  <2> QED
    BY <1>1, <2>1, <2>2, FrameStep, MoveStep DEF Asking
<1>4. ASSUME NEW c \in Conns, SessionOpen(c) PROVE RecordsInv' /\ Stays
  BY <1>1, <1>4, DrawStep
<1>5. ASSUME NEW c \in Conns, OpenedOther(c) \/ Claim(c) PROVE RecordsInv' /\ Stays
  <2>1. pc[c] = "insert" /\ Table!Insert(tid[c], c) /\ UNCHANGED <<tid, plan>>
    BY <1>5 DEF OpenedOther, Claim
  <2>2. \/ Go(c, "loop") /\ claim' = claim
        \/ Go(c, "grace") /\ claim' = claim
        \/ TakeClaim(c)
    BY <1>5 DEF OpenedOther, Claim
  <2> QED
    BY <2>1, <2>2, InsertStep
<1>6. ASSUME NEW c \in Conns, Grace(c) \/ Nap(c) PROVE RecordsInv' /\ Stays
  <2>1. pc[c] \in Asking /\ UNCHANGED <<tid, plan>>
    BY <1>6 DEF Grace, Nap, Asking
  <2>2. \/ pc[c] = "nap" /\ TakeClaim(c) /\ UNCHANGED table
        \/ \E p \in {"nap", "grace"} : Go(c, p) /\ UNCHANGED <<table, claim>>
        \/ Refused(c)
    BY <1>6 DEF Grace, Nap
  <2> QED
    BY <1>1, <2>1, <2>2, WaitedStep, MoveStep, RefusedStep DEF table
<1>7. ASSUME NEW c \in Conns, Spawn(c) \/ Send(c) \/ WaitEnds(c) PROVE RecordsInv' /\ Stays
  <2>1. pc[c] \in Opening /\ UNCHANGED <<tid, plan>>
    BY <1>7 DEF Spawn, Send, WaitEnds, Opening
  <2>2. (\E p \in {"send", "wait"} : Go(c, p) /\ UNCHANGED <<table, claim>>) \/ Unwind(c)
    BY <1>7 DEF Spawn, Send, WaitEnds
  <2> QED
    BY <1>1, <2>1, <2>2, MoveStep, UnwindStep DEF table, Asking
<1>8. ASSUME NEW c \in Conns, NEW x \in Ids, CloseOther(c, x) PROVE RecordsInv' /\ RecordsStay
  BY <1>8, CloseOtherStep
<1>9. ASSUME NEW c \in Conns, CloseLive(c) PROVE RecordsInv' /\ Stays
  <2>1. /\ claim.conn = c /\ claim' = [claim EXCEPT !.stop = TRUE] /\ UNCHANGED <<tid, next_id, sessions>>
        /\ plan' = [plan EXCEPT ![c] = [wire |-> claim.wire, tid |-> claim.table]] /\ Go(c, "order")
    BY <1>9 DEF CloseLive, IsLiveFor, table
  <2>2. claim'.conn = claim.conn /\ claim'.table = claim.table /\ claim'.active = claim.active
    BY <2>1 DEF TypeOK
  <2> QED
    BY <1>1, <2>1, <2>2, PlanStep
<1>10. ASSUME NEW c \in Conns, Plan(c) PROVE RecordsInv' /\ Stays
  <2>1. UNCHANGED <<tid, next_id, sessions>>
    BY <1>10 DEF Plan, table
  <2>2. CASE claim.conn = c
    <3>1. /\ claim' = [claim EXCEPT !.stop = claim.stop \/ claim.active]
          /\ plan' = [plan EXCEPT ![c] = [wire |-> claim.wire, tid |-> claim.table]]
          /\ \E p \in {"order", "join"} : Go(c, p)
      BY <1>10, <2>2 DEF Plan
    <3>2. claim'.conn = claim.conn /\ claim'.table = claim.table /\ claim'.active = claim.active
      BY <3>1 DEF TypeOK
    <3> QED
      BY <1>1, <2>1, <2>2, <3>1, <3>2, PlanStep
  <2>3. CASE claim.conn # c
    <3>1. Go(c, "owned") /\ UNCHANGED <<plan, claim>>
      BY <1>10, <2>3 DEF Plan
    <3> QED
      BY <1>1, <2>1, <3>1, MoveStep DEF Asking
  <2> QED
    BY <2>2, <2>3
<1>11. ASSUME NEW c \in Conns, Disown(c) PROVE RecordsInv' /\ Stays
  BY <1>11, DisownStep
<1>12. ASSUME NEW c \in Conns, Owned(c) PROVE RecordsInv' /\ Stays
  BY <1>12, OwnedStep
<1> QED
  BY <1>0, <1>2, <1>3, <1>4, <1>5, <1>6, <1>7, <1>8, <1>9, <1>10, <1>11, <1>12 DEF Next, OpenSteps, EndSteps

\* What every step preserves of the table.
THEOREM RecordsInvariance == Spec => []RecordsIInv
<1>1. RecordsIInv /\ [Next]_vars => RecordsIInv'
  <2> SUFFICES ASSUME RecordsIInv, [Next]_vars PROVE RecordsIInv'
    OBVIOUS
  <2>1. IInv'
    BY NextLemma DEF RecordsIInv
  <2>2. CASE Next
    <3>1. TypeOK'
      <4>1. CoreTypes' /\ TypeOK /\ IdInv /\ RecordsInv
        BY <2>1 DEF IInv, RecordsIInv, RecordsInv
      <4>2. ThreadTypes' /\ ClaimType' /\ WorkerTypes' /\ Table!TypeOK'
        BY <2>2, <4>1, ThreadStep, ClaimStep, WorkerStep, TableStep
      <4> QED
        BY <4>1, <4>2, TypeParts, PTL
    <3> QED
      BY <2>1, <2>2, <3>1, RecordsStep DEF RecordsIInv
  <2>3. CASE UNCHANGED vars
    <3>1. TypeOK'
      BY <2>3 DEF RecordsIInv, TypeOK, vars, threads, worker, table, Table!TypeOK
    <3>2. RecordsInv'
      BY <2>3, FrameStep DEF RecordsIInv, vars, threads, table
    <3> QED
      BY <2>1, <3>1, <3>2 DEF RecordsIInv
  <2> QED
    BY <2>2, <2>3
<1> QED
  BY RecordsInit, <1>1, PTL DEF Spec

\* No session outlives its connection in the table, whose open count keeps the
\* host from its idle exit, and only a session_close by number takes the record
\* from under a waiting open or a live claim (host_v2_session.cpp, host_main.cpp's
\* session_open, session_close and teardown).
THEOREM RecordsCorrect == Spec => RecordsFollowConnections
<1> DEFINE Gone == TypeOK /\ \A c \in Conns : pc[c] = "free" => Table!OwnedBy(c) = {}
<1>1. RecordsIInv => Gone
  BY DEF RecordsIInv, RecordsInv, RecInv, Recs, Table!OwnedBy, Table!ToSet, ToSet
<1>2. RecordsIInv /\ [Next]_vars => [RecordsStay]_vars
  BY RecordsStep
<1> QED
  BY RecordsInvariance, <1>1, <1>2, PTL DEF Spec, RecordsFollowConnections
=============================================================================
