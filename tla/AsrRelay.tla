------------------------------ MODULE AsrRelay ------------------------------
(***************************************************************************)
(* The host's speech relay (host_main.cpp, host_v2_asr_relay.hpp): one     *)
(* claim on the one speech session the ggml-asr worker serves, one relay   *)
(* thread that forwards what the worker says, and the connection threads   *)
(* that open, feed, close and tear down; with the session table, an        *)
(* instance of SessionTable.                                               *)
(*                                                                         *)
(* Each action is one hold of g_asr_relay.mu, one call of the worker       *)
(* manager, or what a thread does between two of those.  The claim's join  *)
(* of a finished relay is made under the mutex but waits only for a return *)
(* that needs no lock, so it is a guard of the claim.  The worker is       *)
(* another project's program: it serves its pipe in order, one session at  *)
(* a time, as the classifier's comment says of it.                         *)
(***************************************************************************)
EXTENDS Naturals, SequencesExt, FiniteSetsExt

CONSTANTS Conns,                           \* connection threads
          Wire,                            \* connection -> the session id its client pins
          Slack, OpenFactor, KeepTerminal, \* the table's prune
          MaxOpens, MaxFeeds, MaxEvents,   \* bounds: opens, feeds and cancels, events in the pipe
          MaxDeaths,                       \* bound: worker deaths
          NoConn

ASSUME WireAssumption == Wire \in [Conns -> Nat \ {0}] /\ NoConn \notin Conns
ASSUME BoundsAssumption ==
    /\ {MaxOpens, MaxFeeds, MaxEvents, MaxDeaths} \subseteq Nat
    /\ {Slack, OpenFactor, KeepTerminal} \subseteq Nat

VARIABLES
    client,  \* connection: its client's end of the pipe
    pc,      \* connection: where its thread is
    armed,   \* connection: asr_awaiting_binary
    tid,     \* connection: the table id of the open in progress
    goal,    \* connection: what a cleanup is for
    plan,    \* connection: its TeardownPlan's wire and table id
    out,     \* connection: the frame a passed gate is about to send
    claim,   \* AsrRelayClaim
    relay,   \* the relay thread and whom it reads for
    up, deaths,          \* the worker process
    serving, binary,     \* the worker: its session, whether audio comes next
    to_worker, from_worker,
    fed,                 \* how many feeds and cancels there were
    sessions, next_id    \* g_sessions

threads == <<pc, armed, tid, goal, plan, out>>
worker == <<up, deaths, serving, binary, to_worker, from_worker>>
table == <<sessions, next_id>>
vars == <<client, threads, claim, relay, worker, fed, table>>

Table == INSTANCE SessionTable

Nobody == [wire |-> 0, tid |-> 0]
Idle == [active |-> FALSE, stop |-> FALSE, wire |-> 0, table |-> 0, conn |-> NoConn]
Frame(op, c, w, t) == [op |-> op, by |-> c, wire |-> w, tid |-> t]
Nothing == Frame("none", NoConn, 0, 0)

Ids == 0 .. MaxOpens
Wires == {0} \cup {Wire[c] : c \in Conns}
Frames == [op : {"none", "open", "close", "abort", "meta", "audio", "opened", "closed",
                 "event", "error", "failed"},
           by : Conns \cup {NoConn}, wire : Wires, tid : Ids]
Opening == {"spawn", "send", "wait"}

TypeOK ==
    /\ client \in [Conns -> {"none", "on", "gone"}]
    /\ pc \in [Conns -> {"free", "loop", "insert", "grace", "nap", "post", "plan", "order", "join",
                             "drain", "disown", "owned"} \cup Opening]
    /\ armed \in [Conns -> BOOLEAN] /\ tid \in [Conns -> Ids]
    /\ goal \in [Conns -> {"close", "fail", "end"}]
    /\ plan \in [Conns -> [wire : Wires, tid : Ids]]
    /\ out \in [Conns -> Frames]
    /\ claim \in [active : BOOLEAN, stop : BOOLEAN, wire : Wires, table : Ids,
                  conn : Conns \cup {NoConn}]
    /\ relay \in [at : {"off", "top", "read", "over"}, conn : Conns \cup {NoConn}]
    /\ up \in BOOLEAN /\ deaths \in 0 .. MaxDeaths
    /\ serving \in [wire : Wires, tid : Ids] /\ binary \in BOOLEAN
    /\ to_worker \in Seq(Frames) /\ from_worker \in Seq(Frames)
    /\ fed \in 0 .. MaxFeeds
    /\ Table!TypeOK

Init ==
    /\ client = [c \in Conns |-> "none"] /\ pc = [c \in Conns |-> "free"]
    /\ armed = [c \in Conns |-> FALSE] /\ tid = [c \in Conns |-> 0]
    /\ goal = [c \in Conns |-> "end"] /\ plan = [c \in Conns |-> Nobody]
    /\ out = [c \in Conns |-> Nothing]
    /\ claim = Idle /\ relay = [at |-> "off", conn |-> NoConn]
    /\ up = FALSE /\ deaths = 0 /\ serving = Nobody /\ binary = FALSE
    /\ to_worker = <<>> /\ from_worker = <<>> /\ fed = 0
    /\ Table!Init

-----------------------------------------------------------------------------
(* Helpers                                                                 *)

Go(c, p) == pc' = [pc EXCEPT ![c] = p]

IsLiveFor(c) == claim.active /\ claim.conn = c

\* SendToWorker: false when the worker is down; a stall kills the worker first
Sends(f) == up /\ to_worker' = Append(to_worker, f) /\ UNCHANGED <<up, deaths, serving, binary, from_worker>>
SendFails == ~up /\ UNCHANGED worker

-----------------------------------------------------------------------------
(* A client comes and goes                                                 *)

Connect(c) ==
    /\ client[c] = "none" /\ pc[c] = "free" /\ next_id <= MaxOpens
    /\ client' = [client EXCEPT ![c] = "on"] /\ Go(c, "loop")
    /\ UNCHANGED <<armed, tid, goal, plan, out, claim, relay, worker, fed, table>>

Leave(c) ==
    /\ client[c] = "on" /\ client' = [client EXCEPT ![c] = "gone"]
    /\ UNCHANGED <<threads, claim, relay, worker, fed, table>>

-----------------------------------------------------------------------------
(* Opening a speech session                                                *)

Reading(c) == pc[c] = "loop" /\ client[c] = "on" /\ ~armed[c]

SessionOpen(c) ==
    /\ Reading(c) /\ next_id <= MaxOpens
    /\ Table!DrawId /\ tid' = [tid EXCEPT ![c] = next_id] /\ Go(c, "insert")
    /\ UNCHANGED <<client, armed, goal, plan, out, claim, relay, worker, fed>>

\* mutant: the claim is taken over while it is held
ClaimAnyway(c) ==
    /\ relay.at \in {"off", "over"} /\ relay' = [at |-> "off", conn |-> NoConn]
    /\ claim' = [active |-> TRUE, stop |-> FALSE, wire |-> Wire[c], table |-> tid[c], conn |-> c]
    /\ Go(c, "spawn")

\* TryClaim, after the join of a relay that has released the claim
TakeClaim(c) ==
    /\ ~claim.active
    /\ relay.at \in {"off", "over"} /\ relay' = [at |-> "off", conn |-> NoConn]
    /\ claim' = [active |-> TRUE, stop |-> FALSE, wire |-> Wire[c], table |-> tid[c], conn |-> c]
    /\ Go(c, "spawn")

\* The table's insert, then the claim; any other capability is answered with
\* the table's id
Claim(c) ==
    /\ pc[c] = "insert" /\ Table!Insert(tid[c], c)
    /\ \/ TakeClaim(c)
       \/ claim.active /\ Go(c, "grace") /\ UNCHANGED <<claim, relay>>
    /\ UNCHANGED <<client, armed, tid, goal, plan, out, worker, fed>>
OpenedOther(c) ==
    /\ pc[c] = "insert" /\ Table!Insert(tid[c], c) /\ Go(c, "loop")
    /\ UNCHANGED <<client, armed, tid, goal, plan, out, claim, relay, worker, fed>>

Refused(c) == Go(c, "loop") /\ Table!Close(tid[c]) /\ UNCHANGED <<claim, relay>>

\* The grace is for an owner whose pipe is dead; any other finding refuses
Grace(c) ==
    /\ pc[c] = "grace"
    /\ IF claim.active /\ client[claim.conn] # "on"
         THEN Go(c, "nap") /\ UNCHANGED <<table, claim, relay>>
         ELSE Refused(c)
    /\ UNCHANGED <<client, armed, tid, goal, plan, out, worker, fed>>

Nap(c) ==
    /\ pc[c] = "nap"
    /\ \/ TakeClaim(c) /\ UNCHANGED <<table>>
       \/ claim.active /\ Go(c, "grace") /\ UNCHANGED <<claim, relay, table>>
       \/ claim.active /\ Refused(c) \* the twentieth try
    /\ UNCHANGED <<client, armed, tid, goal, plan, out, worker, fed>>

\* mutant: the claim is kept
UnwindKeeps(c) ==
    Go(c, "loop") /\ Table!Close(tid[c]) /\ UNCHANGED claim

\* The open failed: the answer, ReleaseByOwner and the record's close
Unwind(c) ==
    /\ Go(c, "loop") /\ Table!Close(tid[c])
    /\ claim' = IF IsLiveFor(c) /\ claim.wire = Wire[c] THEN Idle ELSE claim

\* EnsureSpawned: a live worker, a fresh one, or nothing (backoff, deadline)
Spawn(c) ==
    /\ pc[c] = "spawn"
    /\ \/ up' = TRUE /\ Go(c, "send") /\ UNCHANGED <<claim, table>>
       \/ ~up /\ UNCHANGED up /\ Unwind(c)
    /\ UNCHANGED <<client, armed, tid, goal, plan, out, relay, deaths, serving, binary, to_worker,
                   from_worker, fed>>

\* DrainWorkerPipe, then the client's frame as it is
Send(c) ==
    /\ pc[c] = "send"
    /\ \/ /\ up /\ to_worker' = Append(to_worker, Frame("open", c, Wire[c], tid[c])) /\ Go(c, "wait")
          /\ from_worker' = <<>> /\ UNCHANGED <<claim, up, deaths, serving, binary, table>>
       \/ SendFails /\ Unwind(c)
    /\ UNCHANGED <<client, armed, tid, goal, plan, out, relay, fed>>

\* mutant: the classifier does not compare sessions
MatchesAny(f, c) == f.op \in {"opened", "error"}

\* ClassifyAsrOpenFrame: what completes the wait, by the session the client pins
Matches(f, c) == f.op \in {"opened", "error"} /\ f.wire = Wire[c]

\* A leftover of an earlier session is consumed
WaitSkips(c) ==
    /\ pc[c] = "wait" /\ up /\ from_worker # <<>> /\ ~Matches(Head(from_worker), c)
    /\ from_worker' = Tail(from_worker)
    /\ UNCHANGED <<client, threads, claim, relay, up, deaths, serving, binary, to_worker, fed, table>>

\* The answer rides to the client; after opened the relay thread starts
WaitOpened(c) ==
    /\ pc[c] = "wait" /\ up /\ from_worker # <<>> /\ Matches(Head(from_worker), c)
    /\ Head(from_worker).op = "opened" /\ client[c] = "on"
    /\ from_worker' = Tail(from_worker)
    /\ relay' = [at |-> "top", conn |-> c] /\ Go(c, "loop")
    /\ UNCHANGED <<client, armed, tid, goal, plan, out, claim, up, deaths, serving, binary, to_worker,
                   fed, table>>

\* A load failure, the deadline, a client that left, a dead pipe
WaitEnds(c) ==
    /\ pc[c] = "wait" /\ Unwind(c)
    /\ \/ UNCHANGED worker
       \/ /\ up /\ from_worker # <<>> /\ Matches(Head(from_worker), c)
          /\ from_worker' = Tail(from_worker) /\ UNCHANGED <<up, deaths, serving, binary, to_worker>>
    /\ UNCHANGED <<client, armed, tid, goal, plan, out, relay, fed>>

OpenSteps(c) ==
    Claim(c) \/ Grace(c) \/ Nap(c) \/ Spawn(c) \/ Send(c) \/ WaitSkips(c) \/ WaitOpened(c) \/ WaitEnds(c)

-----------------------------------------------------------------------------
(* Feeding, cancelling                                                     *)

\* feed_audio and cancel look at the claim, let go of the mutex and send
Gate(c, op) ==
    /\ Reading(c) /\ IsLiveFor(c) /\ fed < MaxFeeds
    /\ out' = [out EXCEPT ![c] = Frame(op, c, Wire[c], tid[c])] /\ Go(c, "post")
    /\ fed' = fed + 1
    /\ UNCHANGED <<client, armed, tid, goal, plan, claim, relay, worker, table>>

\* A feed without a live session ends the connection
NoGate(c) ==
    /\ Reading(c) /\ ~IsLiveFor(c)
    /\ Go(c, "plan") /\ goal' = [goal EXCEPT ![c] = "end"]
    /\ UNCHANGED <<client, armed, tid, plan, out, claim, relay, worker, fed, table>>

\* A send that fails ends the session from inside the loop
Breaks(c) == SendFails /\ Go(c, "plan") /\ goal' = [goal EXCEPT ![c] = "fail"]

Post(c) ==
    /\ pc[c] = "post"
    /\ \/ /\ Sends(out[c]) /\ Go(c, "loop") /\ armed' = [armed EXCEPT ![c] = out[c].op = "meta"]
          /\ UNCHANGED goal
       \/ out[c].op = "meta" /\ Breaks(c) /\ UNCHANGED armed
       \/ out[c].op = "abort" /\ SendFails /\ Go(c, "loop") /\ UNCHANGED <<armed, goal>>
    /\ out' = [out EXCEPT ![c] = Nothing]
    /\ UNCHANGED <<client, tid, plan, claim, relay, fed, table>>

\* The armed frame goes to the worker whatever became of the session
Audio(c) ==
    /\ pc[c] = "loop" /\ client[c] = "on" /\ armed[c]
    /\ armed' = [armed EXCEPT ![c] = FALSE]
    /\ \/ Sends(Frame("audio", c, Wire[c], tid[c])) /\ UNCHANGED <<pc, goal>>
       \/ Breaks(c)
    /\ UNCHANGED <<client, tid, plan, out, claim, relay, fed, table>>

-----------------------------------------------------------------------------
(* Ending a session: the client's session_close, a failed send, the        *)
(* connection's end                                                        *)

\* PlanSessionEnd for the live session
CloseLive(c) ==
    /\ Reading(c) /\ IsLiveFor(c)
    /\ claim' = [claim EXCEPT !.stop = TRUE]
    /\ plan' = [plan EXCEPT ![c] = [wire |-> claim.wire, tid |-> claim.table]]
    /\ goal' = [goal EXCEPT ![c] = "close"] /\ Go(c, "order")
    /\ UNCHANGED <<client, armed, tid, out, relay, worker, fed, table>>

\* Any other id closes the table's record of that number, whoever owns it
CloseOther(c, x) ==
    /\ Reading(c) /\ x \in Table!OpenIds
    /\ ~(IsLiveFor(c) /\ claim.wire = x)
    /\ Table!Close(x)
    /\ UNCHANGED <<client, threads, claim, relay, worker, fed>>

\* The loop ends: the client is gone, or it broke the protocol
LoopEnds(c) ==
    /\ pc[c] = "loop" /\ client[c] # "none"
    /\ Go(c, "plan") /\ goal' = [goal EXCEPT ![c] = "end"]
    /\ armed' = [armed EXCEPT ![c] = FALSE]
    /\ UNCHANGED <<client, tid, plan, out, claim, relay, worker, fed, table>>

\* AsrCleanupConnection: PlanTeardown
Plan(c) ==
    /\ pc[c] = "plan"
    /\ IF claim.conn = c
         THEN /\ plan' = [plan EXCEPT ![c] = [wire |-> claim.wire, tid |-> claim.table]]
              /\ claim' = [claim EXCEPT !.stop = @ \/ claim.active]
              /\ Go(c, IF claim.active THEN "order" ELSE "join")
         ELSE Go(c, "owned") /\ UNCHANGED <<plan, claim>>
    /\ UNCHANGED <<client, armed, tid, goal, out, relay, worker, fed, table>>

Order(c) ==
    /\ pc[c] = "order" /\ Go(c, "join")
    /\ Sends(Frame("close", c, plan[c].wire, plan[c].tid)) \/ SendFails
    /\ UNCHANGED <<client, armed, tid, goal, plan, out, claim, relay, fed, table>>

\* joinable() and join(), without the mutex; a second join of one thread is
\* undefined: here it returns
Join(c) ==
    /\ pc[c] = "join" /\ relay.at \in {"over", "off"}
    /\ relay' = [at |-> "off", conn |-> NoConn] /\ Go(c, IF goal[c] = "close" THEN "drain" ELSE "disown")
    /\ UNCHANGED <<client, armed, tid, goal, plan, out, claim, worker, fed, table>>

\* mutant: the drain does not look whose claim it is
DrainBlindly(c) ==
    /\ pc[c] = "drain"
    /\ \/ /\ up /\ from_worker # <<>>
          /\ from_worker' = Tail(from_worker) /\ Go(c, "disown")
       \/ Go(c, "disown") /\ UNCHANGED from_worker
    /\ UNCHANGED <<client, armed, tid, goal, plan, out, claim, relay, up, deaths, serving, binary,
                   to_worker, fed, table>>

\* The drain of session_close: under the mutex, as long as the claim names it;
\* the first frame that is no heartbeat is taken for the terminal one
Drain(c) ==
    /\ pc[c] = "drain"
    /\ \/ /\ claim.conn = c /\ up /\ from_worker # <<>>
          /\ from_worker' = Tail(from_worker) /\ Go(c, "disown")
       \/ Go(c, "disown") /\ UNCHANGED from_worker
    /\ UNCHANGED <<client, armed, tid, goal, plan, out, claim, relay, up, deaths, serving, binary,
                   to_worker, fed, table>>

\* mutant: the owner fields go whoever owns them
DisownAnybody(c) == claim' = [claim EXCEPT !.conn = NoConn, !.wire = 0, !.table = 0]

DisownIfOwner(c) ==
    claim' = IF claim.conn = c THEN [claim EXCEPT !.conn = NoConn, !.wire = 0, !.table = 0]
                               ELSE claim

\* Then the table's record, and back to the loop or to the loop's end
Disown(c) ==
    /\ pc[c] = "disown" /\ DisownIfOwner(c) /\ Table!Close(plan[c].tid)
    /\ Go(c, CASE goal[c] = "close" -> "loop" [] goal[c] = "fail" -> "plan" [] OTHER -> "owned")
    /\ goal' = [goal EXCEPT ![c] = "end"] /\ plan' = [plan EXCEPT ![c] = Nobody]
    /\ UNCHANGED <<client, armed, tid, out, relay, worker, fed>>

\* CloseOwnedByConnection; the slot serves its next client
Owned(c) ==
    /\ pc[c] = "owned" /\ Table!CloseOwnedByConnection(c) /\ Go(c, "free")
    /\ client' = [client EXCEPT ![c] = "none"]
    /\ tid' = [tid EXCEPT ![c] = 0]
    /\ UNCHANGED <<armed, goal, plan, out, claim, relay, worker, fed>>

EndSteps(c) ==
    Plan(c) \/ Order(c) \/ Join(c) \/ Drain(c) \/ Disown(c) \/ Owned(c)

-----------------------------------------------------------------------------
(* The relay thread                                                        *)

\* ReleaseByRelay, the thread's last act: the owner's fields stay
RelayReleases ==
    relay' = [relay EXCEPT !.at = "over"] /\ claim' = [claim EXCEPT !.active = FALSE]

RelayGoes(p) == relay' = [relay EXCEPT !.at = p] /\ UNCHANGED claim

\* mutant: neither the stop flag nor the client is looked at
RelayRunsOn ==
    /\ relay.at = "top" /\ RelayGoes("read")
    /\ UNCHANGED <<client, threads, worker, fed, table>>

RelayTop ==
    /\ relay.at = "top"
    /\ IF claim.stop \/ client[relay.conn] # "on" THEN RelayReleases ELSE RelayGoes("read")
    /\ UNCHANGED <<client, threads, worker, fed, table>>

\* ReadFromWorker found nothing in 100 ms
RelayQuiet ==
    /\ relay.at = "read" /\ up /\ from_worker = <<>> /\ RelayGoes("top")
    /\ UNCHANGED <<client, threads, worker, fed, table>>

\* A frame rides to the client as it is; the end of the session ends the loop
RelayForwards ==
    /\ relay.at = "read" /\ up /\ from_worker # <<>> /\ client[relay.conn] = "on"
    /\ from_worker' = Tail(from_worker)
    /\ IF Head(from_worker).op \in {"closed", "error"} THEN RelayReleases ELSE RelayGoes("top")
    /\ UNCHANGED <<client, threads, up, deaths, serving, binary, to_worker, fed, table>>

\* The write failed or took 2 s: the frame is gone
RelayLoses ==
    /\ relay.at = "read" /\ up /\ from_worker # <<>>
    /\ from_worker' = Tail(from_worker) /\ RelayReleases
    /\ UNCHANGED <<client, threads, up, deaths, serving, binary, to_worker, fed, table>>

\* A dead pipe: engine_failed is made up for the client
RelayBreaks ==
    /\ relay.at = "read" /\ ~up /\ RelayReleases
    /\ UNCHANGED <<client, threads, worker, fed, table>>

Relaying == RelayTop \/ RelayQuiet \/ RelayForwards \/ RelayLoses \/ RelayBreaks

-----------------------------------------------------------------------------
(* The worker                                                              *)

Says(fs) == from_worker' = from_worker \o fs

WorkerServes ==
    /\ up /\ to_worker # <<>> /\ to_worker' = Tail(to_worker)
    /\ LET f == Head(to_worker) IN
         CASE binary -> \* whatever comes next is audio
                /\ binary' = FALSE /\ UNCHANGED serving
                /\ \/ UNCHANGED from_worker
                   \/ /\ serving # Nobody /\ Len(from_worker) < MaxEvents
                      /\ Says(<<Frame("event", f.by, serving.wire, serving.tid)>>)
           [] ~binary /\ f.op = "open" ->
                /\ UNCHANGED binary
                /\ \/ /\ serving' = [wire |-> f.wire, tid |-> f.tid]
                      /\ Says(<<Frame("opened", f.by, f.wire, f.tid)>>)
                   \/ serving' = Nobody /\ Says(<<Frame("error", f.by, f.wire, f.tid)>>)
           [] ~binary /\ f.op = "close" /\ f.wire = serving.wire ->
                /\ serving' = Nobody /\ UNCHANGED binary
                /\ LET last == Frame("closed", f.by, serving.wire, serving.tid) IN
                     Says(<<last>>) \/ Says(<<[last EXCEPT !.op = "event"], last>>)
           [] ~binary /\ f.op = "meta" -> binary' = TRUE /\ UNCHANGED <<serving, from_worker>>
           [] OTHER -> UNCHANGED <<serving, binary, from_worker>>
    /\ UNCHANGED <<client, threads, claim, relay, up, deaths, fed, table>>

WorkerDies ==
    /\ up /\ deaths < MaxDeaths /\ deaths' = deaths + 1
    /\ up' = FALSE /\ serving' = Nobody /\ binary' = FALSE
    /\ to_worker' = <<>> /\ from_worker' = <<>>
    /\ UNCHANGED <<client, threads, claim, relay, fed, table>>

-----------------------------------------------------------------------------
Next ==
    \/ \E c \in Conns :
         \/ Connect(c) \/ Leave(c) \/ SessionOpen(c) \/ OpenedOther(c) \/ OpenSteps(c)
         \/ Gate(c, "meta") \/ Gate(c, "abort") \/ NoGate(c) \/ Post(c) \/ Audio(c)
         \/ CloseLive(c) \/ LoopEnds(c) \/ EndSteps(c)
         \/ \E x \in Ids : CloseOther(c, x)
    \/ Relaying \/ WorkerServes \/ WorkerDies

Spec == Init /\ [][Next]_vars

\* The host's threads run, the worker serves its pipe; a connection whose
\* client is gone notices it
FairSpec ==
    /\ Spec
    /\ \A c \in Conns : WF_vars(\/ OpenSteps(c) \/ EndSteps(c) \/ Post(c)
                                \/ client[c] = "gone" /\ LoopEnds(c))
    /\ WF_vars(Relaying) /\ WF_vars(WorkerServes)

-----------------------------------------------------------------------------
(* Properties                                                              *)

\* A claim is held by an open in progress or by a running relay, never both.
ClaimIsHeld ==
    LET running == relay.at \in {"top", "read"}
        opening == claim.conn \in Conns /\ pc[claim.conn] \in Opening
    IN claim.active <=> (running \/ \E c \in Conns : pc[c] \in Opening)
       /\ (claim.active => (running /\ relay.conn = claim.conn) # opening)

\* The relay writes to a Connection object that still serves its client: no
\* slot goes to its next client under a running relay.
RelayHasItsConnection ==
    relay.at \in {"top", "read"} => pc[relay.conn] # "free" /\ claim.conn = relay.conn

\* The one speech slot is neither leaked nor shared, through refused and failed
\* opens, the relay's own release, a close that races the next owner, and a
\* connection slot that is recycled.
SlotIsHeld == ClaimIsHeld /\ RelayHasItsConnection

\* An open that waits for the claim, or the live session, has its record open
\* after a step, or had lost it before, or a session_close named its number.
Used(c) == {x \in {tid[c]} : pc[c] \in {"grace", "nap"}} \cup {x \in {claim.table} : IsLiveFor(c)}
RecordsStay ==
    \A c \in Conns : \A x \in Used(c)' :
        \/ x \in Table!OpenIds'
        \/ x \in Used(c) \ Table!OpenIds
        \/ \E d \in Conns : CloseOther(d, x)

\* No session outlives its connection in the table, whose open count keeps
\* the host from its idle exit; and only a session_close by number takes the
\* record from under a waiting open or a live claim: not the failed open of
\* another connection, not a late Disown, the prune or a recycled slot.
RecordsFollowConnections ==
    /\ [](TypeOK /\ \A c \in Conns : pc[c] = "free" => Table!OwnedBy(c) = {})
    /\ [][RecordsStay]_vars

\* The claim of a client that left is freed.
SlotIsFreed == claim.active /\ client[claim.conn] = "gone" ~> ~claim.active

\* The connection thread of a client that left ends its teardown.
TeardownEnds == \A c \in Conns : client[c] = "gone" ~> client[c] # "gone"

\* join and assignment of the relay thread happen under the mutex: while one
\* thread waits in join, it is its own relay it waits for
OneJoiner == \A c \in Conns : pc[c] = "join" => relay.conn \in {c, NoConn}

\* The local close of the generic path is for translate sessions: a speech
\* session that streams stays in the table's open count
StreamingIsCounted == \A c \in Conns : IsLiveFor(c) => claim.table \in Table!OpenIds

\* A client is told opened by its own open
OpenedIsOwn ==
    [][\A c \in Conns : pc[c] = "wait" /\ relay.at = "off" /\ relay'.at = "top" /\ relay'.conn = c
         => Head(from_worker).tid = tid[c]]_vars

\* What a client hears comes from its own audio
HearsItself ==
    [][relay.at = "read" /\ relay'.at = "top" /\ from_worker # <<>> /\ Head(from_worker).op = "event"
         => Head(from_worker).by = relay.conn]_vars

\* A metadata frame and its audio are neighbours on the worker's pipe
InLockstep ==
    \A i \in 1 .. Len(to_worker) - 1 :
        to_worker[i].op = "meta" => to_worker[i + 1].op = "audio" /\ to_worker[i + 1].by = to_worker[i].by

\* An open is refused only while another session holds the slot
RefusedWhileBusy == [][\A c \in Conns : pc[c] = "grace" /\ pc'[c] = "loop" => claim.active]_vars

\* What the drain forwards is the terminal frame
DrainsTerminal ==
    [][\A c \in Conns : pc[c] = "drain" /\ from_worker' # from_worker /\ Len(from_worker') < Len(from_worker)
          /\ pc'[c] = "disown" => Head(from_worker).op \in {"closed", "error"}]_vars

\* The records are in the order of their ids: the cutoff of the prune is one id
RecordsInIdOrder == Table!IdOrder
=============================================================================
