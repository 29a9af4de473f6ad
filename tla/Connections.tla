---------------------------- MODULE Connections ----------------------------
(***************************************************************************)
(* The host's client connections (host_main.cpp): pipe slots that serve    *)
(* one client after the other, the v1 job queue, the v2 scheduler, which   *)
(* is Scheduler's, and the write of every translate answer.  An            *)
(* answer names its slot; what tells the slot's clients apart is           *)
(* conn_epoch, captured when the request is enqueued, compared when the    *)
(* answer is written and advanced when a session ends.                     *)
(*                                                                         *)
(* The threads are the two dispatchers V1 and V2 and one connection thread *)
(* per slot, named like the slot.  How a dispatcher comes to its answer is *)
(* HostDispatch's subject: here it holds the request and then answers.     *)
(* The write is two steps, as WriteFrameImpl checks and writes under       *)
(* write_mu while the end of a session does not take that lock.            *)
(***************************************************************************)
EXTENDS Scheduler

CONSTANTS Slots, Clients, Requests,
          Owner,    \* request -> client
          Profile,  \* client -> "v1" or "v2", its hello's protocol
          MaxQueue, \* kMaxQueueDepth
          Handles,  \* handle values DuplicateHandle may return
          V1, V2, NoClient, NoSlot, NoReq

Dispatchers == {V1, V2}
Threads == Dispatchers \cup Slots

ASSUME ClientsAssumption ==
    /\ Owner \in [Requests -> Clients] /\ Profile \in [Clients -> {"v1", "v2"}]
    /\ NoClient \notin Clients /\ NoReq \notin Requests
    /\ NoSlot \notin Threads /\ V1 # V2 /\ Dispatchers \cap Slots = {}
ASSUME IdsAssumption == Ids = {r \in Requests : Profile[Owner[r]] = "v2"}
ASSUME LimitsAssumption == MaxQueue \in Nat /\ Handles \subseteq Nat \ {0}

VARIABLES
    phase, client,  \* slot: where its thread is, the client at the pipe
    epoch, wpipe,   \* slot: conn_epoch, write_pipe (0 = nullptr)
    write,          \* slot: who holds write_mu, and the handle it writes to
    tag,            \* request: the slot and epoch it was enqueued with
    session,        \* v2 session: the slot that opened it
    queue,          \* g_queue
    hand,           \* dispatcher: the request it works on
    due,            \* thread: answers it has still to write
    got,            \* client: how often it received an answer to a request
    gone,           \* clients that closed their end
    stalled         \* clients that stay and let a write wait in vain

slots == <<phase, client, epoch, wpipe>>
vars == <<slots, write, tag, session, queue, scheduler, hand, due, got, gone, stalled>>

NoTag == [slot |-> NoSlot, epoch |-> 0]
NoWrite == [by |-> NoSlot, to |-> 0]
Answer == [req : Requests, gated : BOOLEAN]

TypeOK ==
    /\ phase \in [Slots -> {"listen", "serve", "bump", "purge", "unpipe", "disconnect"}]
    /\ client \in [Slots -> Clients \cup {NoClient}]
    /\ epoch \in [Slots -> Nat] /\ wpipe \in [Slots -> Handles \cup {0}]
    /\ write \in [Slots -> [by : Threads, to : Handles \cup {0}] \cup {NoWrite}]
    /\ tag \in [Requests -> [slot : Slots, epoch : Nat] \cup {NoTag}]
    /\ session \in [Sessions -> Slots \cup {NoSlot}]
    /\ queue \in Seq(Requests) /\ Len(queue) <= MaxQueue + 1
    /\ QueueTypeOK
    /\ hand \in [Dispatchers -> Requests \cup {NoReq}]
    /\ due \in [Threads -> Seq(Answer)]
    /\ got \in [Clients -> [Requests -> Nat]]
    /\ gone \subseteq Clients /\ stalled \subseteq Clients

Init ==
    /\ phase = [s \in Slots |-> "listen"] /\ client = [s \in Slots |-> NoClient]
    /\ epoch = [s \in Slots |-> 0] /\ wpipe = [s \in Slots |-> 0]
    /\ write = [s \in Slots |-> NoWrite]
    /\ tag = [r \in Requests |-> NoTag] /\ session = [x \in Sessions |-> NoSlot]
    /\ queue = <<>> /\ QueueInit
    /\ hand = [d \in Dispatchers |-> NoReq] /\ due = [t \in Threads |-> <<>>]
    /\ got = [c \in Clients |-> [r \in Requests |-> 0]]
    /\ gone = {} /\ stalled = {}

-----------------------------------------------------------------------------
(* A slot's life                                                           *)

\* ConnectNamedPipe, then DuplicateHandle: a closed value may come back, and
\* a failed duplication leaves write_pipe null
Accept(s, c) ==
    /\ phase[s] = "listen" /\ c \notin gone
    /\ \A o \in Slots : client[o] # c
    /\ phase' = [phase EXCEPT ![s] = "serve"]
    /\ client' = [client EXCEPT ![s] = c]
    /\ \E h \in {0} \cup (Handles \ Range(wpipe)) : wpipe' = [wpipe EXCEPT ![s] = h]
    /\ UNCHANGED <<epoch, write, tag, session, queue, scheduler, hand, due, got, gone, stalled>>

Leave(c) ==
    /\ \E s \in Slots : client[s] = c
    /\ gone' = gone \cup {c} /\ stalled' = stalled \ {c}
    /\ UNCHANGED <<slots, write, tag, session, queue, scheduler, hand, due, got>>

Reading(s) == phase[s] = "serve" /\ due[s] = <<>>
Ending(s) == Reading(s) /\ client[s] \in gone

\* The end of RunSessionV2 closes an owned session and drops what waits for
\* it; nobody is answered
Teardown(s, x) ==
    /\ Ending(s) /\ session[x] = s
    /\ session' = [session EXCEPT ![x] = NoSlot]
    /\ IF \E it \in ToSet(items) : it.session = x THEN DropSession(x)
                                                  ELSE UNCHANGED scheduler
    /\ UNCHANGED <<slots, write, tag, queue, hand, due, got, gone, stalled>>

SessionEnds(s) ==
    /\ Ending(s) /\ \A x \in Sessions : session[x] # s
    /\ phase' = [phase EXCEPT ![s] = "bump"]
    /\ UNCHANGED <<client, epoch, wpipe, write, tag, session, queue, scheduler, hand, due, got, gone,
                   stalled>>

\* mutant: the generation stays
BumpForgotten(s) ==
    /\ phase[s] = "bump"
    /\ phase' = [phase EXCEPT ![s] = "purge"]
    /\ UNCHANGED <<client, epoch, wpipe, write, tag, session, queue, scheduler, hand, due, got, gone,
                   stalled>>

\* The bump does not take write_mu
Bump(s) ==
    /\ phase[s] = "bump"
    /\ epoch' = [epoch EXCEPT ![s] = @ + 1]
    /\ phase' = [phase EXCEPT ![s] = "purge"]
    /\ UNCHANGED <<client, wpipe, write, tag, session, queue, scheduler, hand, due, got, gone, stalled>>

Purge(s) ==
    /\ phase[s] = "purge"
    /\ queue' = Part(queue, {k \in DOMAIN queue : tag[queue[k]].slot # s})
    /\ phase' = [phase EXCEPT ![s] = "unpipe"]
    /\ UNCHANGED <<client, epoch, wpipe, write, tag, session, scheduler, hand, due, got, gone, stalled>>

\* CloseHandle(write_pipe), without write_mu
ClosePipe(s) ==
    /\ phase[s] = "unpipe"
    /\ wpipe' = [wpipe EXCEPT ![s] = 0]
    /\ phase' = [phase EXCEPT ![s] = "disconnect"]
    /\ UNCHANGED <<client, epoch, write, tag, session, queue, scheduler, hand, due, got, gone, stalled>>

Disconnect(s) ==
    /\ phase[s] = "disconnect"
    /\ client' = [client EXCEPT ![s] = NoClient]
    /\ phase' = [phase EXCEPT ![s] = "listen"]
    /\ UNCHANGED <<epoch, wpipe, write, tag, session, queue, scheduler, hand, due, got, gone, stalled>>

-----------------------------------------------------------------------------
(* Requests                                                                *)

\* The connection thread reads a translate request of its client
Reads(s, r, profile) ==
    /\ Reading(s) /\ client[s] = Owner[r] /\ tag[r] = NoTag
    /\ Profile[Owner[r]] = profile
    /\ tag' = [tag EXCEPT ![r] = [slot |-> s, epoch |-> epoch[s]]]

Post(t, answers) == due' = [due EXCEPT ![t] = @ \o answers]
Ungated(r) == [req |-> r, gated |-> FALSE]
Gated(r) == [req |-> r, gated |-> TRUE]

\* size() > kMaxQueueDepth refuses, so the queue holds one more than that
Push(s, r) ==
    /\ Reads(s, r, "v1") /\ Len(queue) <= MaxQueue
    /\ queue' = Append(queue, r)
    /\ UNCHANGED <<slots, write, session, scheduler, hand, due, got, gone, stalled>>

PushRefused(s, r) ==
    /\ Reads(s, r, "v1") /\ Len(queue) > MaxQueue
    /\ Post(s, <<Ungated(r)>>)
    /\ UNCHANGED <<slots, write, session, queue, scheduler, hand, got, gone, stalled>>

OpenSession(s, x) ==
    /\ Reading(s) /\ Profile[client[s]] = "v2" /\ session[x] = NoSlot
    /\ \A it \in ToSet(items) : it.session # x
    /\ session' = [session EXCEPT ![x] = s]
    /\ UNCHANGED <<slots, write, tag, queue, scheduler, hand, due, got, gone, stalled>>

\* A request names a session of its own client or none
Named(s) == {0} \cup {x \in Sessions : session[x] = s}

EnqueueV2(s, r) ==
    /\ Reads(s, r, "v2")
    /\ \E p \in Priorities, drop \in BOOLEAN, x \in Named(s) : Enqueue(r, p, drop, x)
    /\ UNCHANGED <<slots, write, session, queue, hand, due, got, gone, stalled>>

\* mutant: the discarded request is forgotten
ReplaceSilent(s, r) ==
    /\ Reads(s, r, "v2")
    /\ \E p \in Priorities, x \in Named(s) : EnqueueEvict(r, p, x)
    /\ UNCHANGED <<slots, write, session, queue, hand, due, got, gone, stalled>>

\* BusyDroppedOld: the discarded request's slot is told busy, with no epoch
Replace(s, r) ==
    /\ Reads(s, r, "v2")
    /\ \E p \in Priorities, x \in Named(s) : EnqueueEvict(r, p, x)
    /\ Post(s, <<Ungated(items[Victim].id)>>)
    /\ UNCHANGED <<slots, write, session, queue, hand, got, gone, stalled>>

Overflow(s, r) ==
    /\ Reads(s, r, "v2")
    /\ \E drop \in BOOLEAN : EnqueueRefused(r, drop)
    /\ Post(s, <<Ungated(r)>>)
    /\ UNCHANGED <<slots, write, session, queue, hand, got, gone, stalled>>

\* session_close by any v2 client: it does not ask who opened the session,
\* and the dropped requests' slots are told busy, with no epoch
CloseSession(s, x) ==
    LET dropped == Part(items, {k \in DOMAIN items : items[k].session = x})
    IN  /\ Reading(s) /\ Profile[client[s]] = "v2" /\ session[x] # NoSlot
        /\ session' = [session EXCEPT ![x] = NoSlot]
        /\ IF dropped # <<>> THEN DropSession(x) ELSE UNCHANGED scheduler
        /\ Post(s, [k \in DOMAIN dropped |-> Ungated(dropped[k].id)])
        /\ UNCHANGED <<slots, write, tag, queue, hand, got, gone, stalled>>

Expires(r) ==
    /\ DeadlinePasses(r)
    /\ UNCHANGED <<slots, write, tag, session, queue, hand, due, got, gone, stalled>>

-----------------------------------------------------------------------------
(* Dispatchers                                                             *)

Ready(d) == hand[d] = NoReq /\ due[d] = <<>>

PopV1(d) ==
    /\ d = V1 /\ Ready(d) /\ queue # <<>>
    /\ hand' = [hand EXCEPT ![d] = Head(queue)]
    /\ queue' = Tail(queue)
    /\ UNCHANGED <<slots, write, tag, session, scheduler, due, got, gone, stalled>>

\* mutant: an expired request is answered and dispatched
PopV2Both(d) ==
    /\ d = V2 /\ Ready(d) /\ Pop
    /\ hand' = [hand EXCEPT ![d] = Head(items).id]
    /\ IF Head(items).id \in late THEN Post(d, <<Gated(Head(items).id)>>) ELSE UNCHANGED due
    /\ UNCHANGED <<slots, write, tag, session, queue, got, gone, stalled>>

\* An expired request is told timeout, another is taken
PopV2(d) ==
    /\ d = V2 /\ Ready(d) /\ Pop
    /\ IF Head(items).id \in late
       THEN Post(d, <<Gated(Head(items).id)>>) /\ UNCHANGED hand
       ELSE hand' = [hand EXCEPT ![d] = Head(items).id] /\ UNCHANGED due
    /\ UNCHANGED <<slots, write, tag, session, queue, got, gone, stalled>>

\* Whatever became of the job, the dispatcher answers it once
Finish(d) ==
    /\ hand[d] # NoReq /\ due[d] = <<>>
    /\ Post(d, <<Gated(hand[d])>>)
    /\ hand' = [hand EXCEPT ![d] = NoReq]
    /\ UNCHANGED <<slots, write, tag, session, queue, scheduler, got, gone, stalled>>

-----------------------------------------------------------------------------
(* WriteFrameImpl                                                          *)

Current(t) == tag[Head(due[t]).req]
Stale(t) == Head(due[t]).gated /\ epoch[Current(t).slot] # Current(t).epoch

DropStale(t) ==
    /\ due[t] # <<>> /\ write[Current(t).slot] = NoWrite /\ Stale(t)
    /\ due' = [due EXCEPT ![t] = Tail(@)]
    /\ UNCHANGED <<slots, write, tag, session, queue, scheduler, hand, got, gone, stalled>>

\* write_mu, the check, and the choice of the handle
BeginWrite(t) ==
    LET s == Current(t).slot
    IN  /\ due[t] # <<>> /\ write[s] = NoWrite /\ ~Stale(t)
        /\ write' = [write EXCEPT ![s] = [by |-> t, to |-> wpipe[s]]]
        /\ UNCHANGED <<slots, tag, session, queue, scheduler, hand, due, got, gone, stalled>>

\* The slot the handle names by now; 0 is the fall back to the pipe itself
Target(s) == IF write[s].to = 0 THEN {s} ELSE {o \in Slots : wpipe[o] = write[s].to}

\* WriteFile: it fails on a closed handle or without a client at the other
\* end, and it is cancelled when the client does not drain its end for 15 s
EndWrite(t) ==
    \E s \in Slots :
        LET receivers == {client[o] : o \in Target(s)} \ ({NoClient} \cup gone)
        IN  \E reached \in {receivers, {}} :
              /\ write[s].by = t
              /\ got' = [c \in Clients |->
                             [got[c] EXCEPT ![Head(due[t]).req] = IF c \in reached THEN @ + 1 ELSE @]]
              /\ stalled' = stalled \cup (receivers \ reached)
              /\ due' = [due EXCEPT ![t] = Tail(@)]
              /\ write' = [write EXCEPT ![s] = NoWrite]
              /\ UNCHANGED <<slots, tag, session, queue, scheduler, hand, gone>>

Writing(t) == DropStale(t) \/ BeginWrite(t) \/ EndWrite(t)
Dispatching(d) == PopV1(d) \/ PopV2(d) \/ Finish(d)
Closing(s) == SessionEnds(s) \/ Bump(s) \/ Purge(s) \/ ClosePipe(s) \/ Disconnect(s)

Next ==
    \/ \E s \in Slots : Closing(s) \/ \E c \in Clients : Accept(s, c)
    \/ \E c \in Clients : Leave(c)
    \/ \E s \in Slots, x \in Sessions : Teardown(s, x) \/ OpenSession(s, x) \/ CloseSession(s, x)
    \/ \E s \in Slots, r \in Requests : Push(s, r) \/ PushRefused(s, r)
    \/ \E s \in Slots, r \in Ids : EnqueueV2(s, r) \/ Replace(s, r) \/ Overflow(s, r)
    \/ \E r \in Ids : Expires(r)
    \/ \E d \in Dispatchers : Dispatching(d)
    \/ \E t \in Threads : Writing(t)

Spec == Init /\ [][Next]_vars

\* The host's threads keep running; what clients do is up to them
FairSpec ==
    /\ Spec
    /\ \A d \in Dispatchers : WF_vars(Dispatching(d))
    /\ \A t \in Threads : WF_vars(Writing(t))

-----------------------------------------------------------------------------
(* Properties                                                              *)

\* The epoch tells the clients of a slot apart: as long as it is the one a
\* request was enqueued with, the client at the pipe is the one that asked
\* (host_main.cpp:497-501).
EpochNamesClient ==
    \A r \in Requests :
        tag[r] # NoTag /\ epoch[tag[r].slot] = tag[r].epoch => client[tag[r].slot] = Owner[r]

\* Once a slot has purged its ended session, the v1 queue holds no job of it:
\* no worker time is spent for a client that is gone (host_main.cpp:2752-2758).
QueueIsOfTheLiving ==
    \A r \in ToSet(queue) :
        client[tag[r].slot] = Owner[r] /\ phase[tag[r].slot] \in {"serve", "bump", "purge"}

\* The epoch ties a slot to one client, and the queue to living ones.
EpochsAreCurrent == TypeOK /\ EpochNamesClient /\ QueueIsOfTheLiving

\* Whoever ends a request - a dispatcher, an eviction, a closed session, an
\* expired deadline - no request is answered twice.
AnsweredOnce ==
    \A r \in Requests, c, d \in Clients :
        got[c][r] > 0 /\ got[d][r] > 0 => got[c][r] = 1 /\ c = d

\* A client that stays and drains its end gets an answer to every request the
\* host read; one that does not, for the 15 s of one write, may lose an answer.
StayersAreAnswered ==
    \A r \in Requests :
        tag[r] # NoTag ~> got[Owner[r]][r] > 0 \/ Owner[r] \in gone \cup stalled

\* An answer reaches the client that asked for it or nobody
\* (host_main.cpp:539-543, 2752-2756).
NoForeignAnswer == \A c \in Clients, r \in Requests : got[c][r] > 0 => Owner[r] = c
=============================================================================
