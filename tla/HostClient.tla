----------------------------- MODULE HostClient -----------------------------
(***************************************************************************)
(* The app's way to a translation (TranslationManager of src/engine.cpp,       *)
(* TryTranslate of src/engine_host_client.cpp), from the one-slot workers that  *)
(* ask for it (SlotWorker) to the shared host or the cloud, beside the warmup    *)
(* connection (WarmupLink) and against settings that change, a host that dies,   *)
(* answers late or never, and the exit of the app.                            *)
(*                                                                         *)
(* translate_mutex_ lets one request run.  It keeps one session with the host  *)
(* across requests; a result carries an id, an error none.  "for" is the       *)
(* request a frame was written for, which no frame says, or Other for another  *)
(* client's: the host's slot outlives its clients (see Connections), and every *)
(* client counts its ids from 1.                                               *)
(***************************************************************************)
EXTENDS Naturals, Sequences, FiniteSets

CONSTANTS Workers,                     \* see SlotWorker
          MaxLaunches, MaxLadder,      \* see WarmupLink
          MaxMishaps,                  \* bound: deaths of the host and other clients' frames
          MaxInputs,                   \* bound: jobs, changes of the settings and those frames
          Settings,                    \* the settings the user may choose
          Nobody

ASSUME ClientAssumption ==
    /\ Nobody \notin Workers
    /\ {MaxInputs, MaxLaunches, MaxLadder, MaxMishaps} \subseteq Nat
    /\ Settings \subseteq [engine : {"auto", "local", "google"}, consent : BOOLEAN]

VARIABLES slot, loop, stop, submitted,                                  \* SlotWorker
          host, launches, want, shutting, poked, at, held, pipe, io, ladder, \* WarmupLink
          settings,     \* preferred_type_ and cloud_fallback_enabled_
          exiting,      \* main is in its clean shutdown: cancel_requested_
          running,      \* who holds translate_mutex_
          pc,           \* where its request is
          snap,         \* the settings it was admitted under
          tries,        \* attempts at the local host
          asked,        \* g_session.next_id - 1
          session,      \* g_session.pipe
          pending,      \* requests on it the host has not answered
          inbox,        \* frames on it the client has not read
          ended,        \* the host's thread left it and waits for the client to close
          mixed,        \* history: a stray frame ended an attempt on it
          failure,      \* class of the last failure
          answer,       \* what ended the last attempt, for which request
          clouded,      \* the request was sent to the cloud
          deaths, changes, strays

slot_vars == <<slot, loop, stop, submitted>>
host_vars == <<host, launches>>
link_vars == <<want, shutting, poked, at, held, pipe, io, ladder>>
app_vars == <<settings, exiting, changes>>
wire_vars == <<asked, session, pending, inbox, ended, mixed>>
call_vars == <<running, pc, snap, tries, failure, answer, clouded>>
vars == <<slot_vars, host_vars, link_vars, app_vars, wire_vars, call_vars, deaths, strays>>

Slots == INSTANCE SlotWorker WITH MaxSubmits <- MaxInputs
Link == INSTANCE WarmupLink

NoSettings == [engine |-> "none", consent |-> FALSE]
Other == 0
NoAnswer == [kind |-> "none", id |-> 0, for |-> Other]
Result(kind, id, for) == [kind |-> kind, id |-> id, for |-> for]
Routed(s) == s.engine \in {"auto", "local"}      \* active_type_ = LocalLlama

Init ==
    /\ settings \in Settings
    /\ Slots!Init /\ Link!Init(Routed(settings))
    /\ exiting = FALSE
    /\ running = Nobody /\ pc = "free" /\ snap = NoSettings /\ tries = 0
    /\ asked = 0 /\ session = 0 /\ pending = {} /\ inbox = <<>> /\ ended = FALSE /\ mixed = FALSE
    /\ failure = "none" /\ answer = NoAnswer /\ clouded = FALSE
    /\ deaths = 0 /\ changes = 0 /\ strays = 0

-----------------------------------------------------------------------------
\* The app around the requests.

Submit(w) ==
    /\ ~exiting /\ submitted + changes + strays < MaxInputs /\ Slots!Submit(w)
    /\ UNCHANGED <<host_vars, link_vars, app_vars, wire_vars, call_vars, deaths, strays>>

WorkerLoop(w) ==
    /\ Slots!Loop(w)
    /\ UNCHANGED <<host_vars, link_vars, app_vars, wire_vars, call_vars, deaths, strays>>

\* A setter: the settings, the active engine and the push to the warmup thread.
RefreshActiveEngine ==
    /\ ~exiting /\ submitted + changes + strays < MaxInputs
    /\ changes' = changes + 1
    /\ settings' \in Settings
    /\ Link!SetState(Routed(settings'))
    /\ UNCHANGED <<exiting, slot_vars, host_vars, wire_vars, call_vars, deaths, strays>>

RequestCancel ==
    /\ ~exiting
    /\ exiting' = TRUE
    /\ UNCHANGED <<settings, changes, slot_vars, host_vars, link_vars, wire_vars, call_vars, deaths, strays>>

\* Each worker is stopped and joined before the next.
StopWorker(w) ==
    /\ exiting /\ \A v \in stop : loop[v] = "gone"
    /\ Slots!Stop(w)
    /\ UNCHANGED <<host_vars, link_vars, app_vars, wire_vars, call_vars, deaths, strays>>

\* The manager's destructor.
WarmupShutdown ==
    /\ exiting /\ \A w \in Workers : loop[w] = "gone"
    /\ Link!Shutdown
    /\ UNCHANGED <<slot_vars, app_vars, wire_vars, call_vars, deaths, strays>>

Warmup ==
    /\ Link!Run
    /\ UNCHANGED <<slot_vars, app_vars, wire_vars, call_vars, deaths, strays>>

-----------------------------------------------------------------------------
\* The host as its client sees it.

HostDies ==
    /\ host # 0 /\ deaths + strays < MaxMishaps
    /\ deaths' = deaths + 1 /\ host' = 0
    /\ UNCHANGED <<launches, strays, slot_vars, link_vars, app_vars, wire_vars, call_vars>>

Session_frame == <<slot_vars, host_vars, link_vars, app_vars, call_vars, deaths>>

\* A result to a request, from the reader or from a dispatcher later, with its id.
HostAnswers ==
    /\ host = session
    /\ \E r \in pending, kind \in {"ok", "status"} :
         inbox' = Append(inbox, Result(kind, r, r)) /\ pending' = pending \ {r}
    /\ UNCHANGED <<asked, session, ended, mixed, strays, Session_frame>>

\* A frame the reader cannot take gets an error without an id, after which the
\* reader takes no more; what was queued before may still be answered.
HostRefuses ==
    /\ host = session /\ ~ended
    /\ \E r \in pending :
         inbox' = Append(inbox, Result("error", 0, r)) /\ pending' = pending \ {r}
    /\ ended' = TRUE
    /\ UNCHANGED <<asked, session, mixed, strays, Session_frame>>

\* A result for the slot's former client: a busy that is not compared with the
\* generation, or any result that passed the comparison just before the slot
\* changed hands.  An id above the next one is skipped like a former one.
HostStrays ==
    /\ session # 0 /\ host = session
    /\ deaths + strays < MaxMishaps /\ submitted + changes + strays < MaxInputs
    /\ \E id \in 1 .. asked + 1, kind \in {"ok", "status"} :
         inbox' = Append(inbox, Result(kind, id, Other))
    /\ strays' = strays + 1
    /\ UNCHANGED <<asked, session, pending, ended, mixed, Session_frame>>

-----------------------------------------------------------------------------
\* One request.

GoTo(place) == pc' = place
Request_frame == <<slot_vars, link_vars, app_vars, running, snap, deaths, strays>>
Close ==
    /\ session' = 0 /\ pending' = {} /\ inbox' = <<>> /\ ended' = FALSE /\ mixed' = FALSE
    /\ UNCHANGED asked
Fails(class) == failure' = class /\ GoTo("failed")

\* Mutant of MayUseCloud: the settings as they are now.
MayUseCloudNow(s) == settings.engine \in {"auto", "google"} \/ settings.consent

\* The admission's settings decide for the whole request.
MayUseCloud(s) == s.engine \in {"auto", "google"} \/ s.consent

\* PlanTranslationRouting: a pair outside the local model's set goes to the
\* cloud where that is allowed.
ServedLocally(s) == {Routed(s)} \cup (IF MayUseCloud(s) THEN {FALSE} ELSE {})

BeginTry == tries' = tries + 1 /\ GoTo(IF session = 0 THEN "connect" ELSE "send") /\ UNCHANGED clouded
CloudCall == clouded' = TRUE /\ GoTo("done") /\ UNCHANGED tries
GiveUp == GoTo("done") /\ UNCHANGED <<tries, clouded>>

\* The lock, the snapshot, the look at the cancel, the routing.
Admit(w) ==
    /\ running = Nobody /\ loop[w] = "handler"
    /\ running' = w /\ snap' = settings
    /\ IF exiting THEN GiveUp
       ELSE \E locally \in ServedLocally(settings) : IF locally THEN BeginTry ELSE CloudCall
    /\ UNCHANGED <<failure, answer, slot_vars, host_vars, link_vars, app_vars, wire_vars, deaths, strays>>

Spawn ==
    /\ pc = "connect" /\ Link!SpawnHost
    /\ UNCHANGED <<wire_vars, pc, tries, failure, answer, clouded, Request_frame>>

\* The pipe that is open is this session's only after the welcome.
ConnectAndHandshake ==
    /\ pc = "connect" /\ host # 0
    /\ session' = host /\ GoTo("send")
    /\ UNCHANGED <<host_vars, asked, pending, inbox, ended, mixed, tries, failure, answer, clouded,
                   Request_frame>>

\* No listener, no welcome in time or a pipe that broke are worth a retry; no
\* token, a peer that is not the host, another version or model are not.
ConnectFails ==
    /\ pc = "connect"
    /\ \E class \in {"transient", "permanent"} : Fails(class)
    /\ UNCHANGED <<host_vars, wire_vars, tries, answer, clouded, Request_frame>>

\* While a refusing host waits for the client to close, a write still succeeds.
SendRequest ==
    /\ pc = "send" /\ host = session
    /\ asked' = asked + 1 /\ pending' = IF ended THEN pending ELSE pending \cup {asked'}
    /\ GoTo("read")
    /\ UNCHANGED <<host_vars, session, inbox, ended, mixed, tries, failure, answer, clouded, Request_frame>>

\* A dead host, or one that ended the session, is noticed at the write or the
\* read; the next call connects anew.
PipeBroken ==
    /\ pc \in {"send", "read"} /\ (host # session \/ ended)
    /\ Fails("transient") /\ Close
    /\ UNCHANGED <<host_vars, tries, answer, clouded, Request_frame>>

\* Mutant of ReadTimesOut: the session is kept.
ReadGivesUp ==
    /\ pc = "read"
    /\ Fails("transient") /\ UNCHANGED wire_vars
    /\ UNCHANGED <<host_vars, tries, answer, clouded, Request_frame>>

ReadTimesOut ==
    /\ pc = "read"
    /\ Fails("transient") /\ Close
    /\ UNCHANGED <<host_vars, tries, answer, clouded, Request_frame>>

\* A frame read: errors count for this request, results by their id.
ReadAnswer ==
    /\ pc = "read" /\ inbox # <<>>
    /\ LET a == Head(inbox)
       IN  IF a.kind # "error" /\ a.id # asked
           THEN UNCHANGED <<pc, failure, answer, mixed>>
           ELSE /\ answer' = a /\ mixed' = (mixed \/ a.for = Other)
                /\ IF a.kind = "ok" THEN GoTo("done") /\ UNCHANGED failure
                   ELSE \E class \in {"transient", "permanent"} : Fails(class)
    /\ inbox' = Tail(inbox)
    /\ UNCHANGED <<host_vars, asked, session, pending, ended, tries, clouded, Request_frame>>

\* Once, on a fast failure that may pass, unless the app exits.
Retry ==
    /\ pc = "failed" /\ failure = "transient" /\ tries = 1 /\ ~exiting
    /\ GoTo("nap")
    /\ UNCHANGED <<host_vars, wire_vars, tries, failure, answer, clouded, Request_frame>>

Nap ==
    /\ pc = "nap"
    /\ IF exiting THEN GiveUp ELSE BeginTry
    /\ UNCHANGED <<host_vars, wire_vars, failure, answer, Request_frame>>

\* Too slow for a retry, or no retry left: the cloud where that is allowed.
FallBack ==
    /\ pc = "failed"
    /\ IF MayUseCloud(snap) THEN CloudCall ELSE GiveUp
    /\ UNCHANGED <<host_vars, wire_vars, failure, answer, Request_frame>>

Return ==
    /\ pc = "done"
    /\ running' = Nobody /\ GoTo("free")
    /\ Slots!Return(running)
    /\ snap' = NoSettings /\ tries' = 0 /\ failure' = "none" /\ answer' = NoAnswer /\ clouded' = FALSE
    /\ UNCHANGED <<host_vars, link_vars, app_vars, wire_vars, deaths, strays>>

Translate ==
    \/ Spawn \/ ConnectAndHandshake \/ ConnectFails
    \/ SendRequest \/ PipeBroken \/ ReadTimesOut \/ ReadAnswer
    \/ Retry \/ Nap \/ FallBack \/ Return

Next ==
    \/ \E w \in Workers : Submit(w) \/ WorkerLoop(w) \/ Admit(w) \/ StopWorker(w)
    \/ RefreshActiveEngine \/ RequestCancel \/ WarmupShutdown \/ Warmup
    \/ HostDies \/ HostAnswers \/ HostRefuses \/ HostStrays \/ Translate

Spec == Init /\ [][Next]_vars

\* Every wait of a request has a timeout, and the exit goes on.  The host owes
\* nothing to a request; the warmup connection's needs are in Link!LinkFairness.
FairSpec ==
    /\ Spec /\ WF_vars(Translate) /\ WF_vars(WarmupShutdown)
    /\ \A w \in Workers : WF_vars(WorkerLoop(w)) /\ SF_vars(Admit(w)) /\ WF_vars(StopWorker(w))
    /\ Link!LinkFairness

-----------------------------------------------------------------------------
TypeOK ==
    /\ Slots!TypeOK
    /\ host \in 0 .. MaxLaunches /\ launches \in 0 .. MaxLaunches /\ session \in 0 .. MaxLaunches
    /\ held \in 0 .. MaxLaunches /\ pipe \in 0 .. MaxLaunches
    /\ settings \in Settings /\ snap \in Settings \cup {NoSettings}
    /\ running \in Workers \cup {Nobody} /\ tries \in 0 .. 2 /\ asked \in Nat
    /\ exiting \in BOOLEAN /\ clouded \in BOOLEAN /\ ended \in BOOLEAN /\ mixed \in BOOLEAN
    /\ want \in BOOLEAN /\ shutting \in BOOLEAN /\ poked \in BOOLEAN

\* What ends an attempt was written for that attempt's request, also an error
\* frame, which carries no id: a session that saw a timeout is never used again
\* (engine_host_client.cpp:870-919), across hosts that die and requests that are
\* retried.  Only the host's own slip breaks it: another client's result that has
\* this request's very id and, after one, an error that was due before.
AnswerIsOwn ==
    [][answer' # answer =>
        \/ answer' = NoAnswer
        \/ answer'.for = asked
        \/ answer'.for = Other /\ answer'.id = asked
        \/ mixed /\ answer'.kind = "error"]_vars

\* A request that was made while the user allowed no cloud never goes there,
\* whatever fails and whatever the user changes while it runs; and one that was
\* answered is not sent there too (engine.cpp:609-641, 673-678, 836-862).
OnDevice ==
    /\ TypeOK
    /\ clouded =>
        /\ snap.engine \in {"auto", "google"} \/ snap.consent
        /\ answer.kind # "ok"

\* Every worker serves its newest job, so every request ends; the exit stops the
\* workers and joins the warmup thread, unless a worker sleeps through its stop;
\* the warmup connection follows what is wanted.  All of it whatever the host does.
Settles ==
    /\ \A w \in Workers : Slots!Serves(w)
    /\ exiting ~> (Link!Joined /\ shutting) \/ \E w \in stop : loop[w] = "asleep"
    /\ Link!Follows

\* Claimed of the read loop ("the host only sends this connection's results").
OnlyOwnAnswers == [][answer' # answer => answer' = NoAnswer \/ answer'.for = asked]_vars

\* Claimed of RequestCancel ("instead of starting work that could transmit user
\* text after an exit intent", engine.hpp): a fallback does not look at it.
NoStartAfterExit == [][~clouded /\ clouded' => ~exiting]_vars
CancelCovers == Link!CancelCovers
FirstRung == Link!FirstRung
StopsAlways == \A w \in Workers : Slots!StopsAlways(w)
=============================================================================
