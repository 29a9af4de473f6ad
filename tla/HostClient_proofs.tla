-------------------------- MODULE HostClient_proofs --------------------------
(***************************************************************************)
(* Proofs about HostClient: a text leaves the device only under the settings  *)
(* it was sent under, and an answer belongs to its request, for every set of   *)
(* workers and settings and every bound.                                     *)
(*                                                                         *)
(* OnDevice needs to know where a request can be once it was answered or sent  *)
(* to the cloud (CallInv); AnswerIsOwn that no other client's frame is an error  *)
(* and that, until one ended an attempt, the session is empty of this client's   *)
(* own but while one request is read for, and then holds its request or its      *)
(* answer (WireInv).                                                            *)
(***************************************************************************)
EXTENDS HostClient, TLAPS

Kinds == {"ok", "status", "error"}

CallInv ==
    /\ changes \in Nat
    /\ pc = "free" <=> running = Nobody
    /\ pc = "free" => tries = 0 /\ answer = NoAnswer /\ ~clouded
    /\ pc # "free" => snap \in Settings
    /\ pc = "nap" => tries = 1
    /\ clouded => pc = "done" /\ MayUseCloud(snap)
    /\ answer.kind = "ok" => pc = "done" /\ ~clouded

Frames == [kind : Kinds, id : Nat, for : Nat]

\* What a frame says of whom it is for: a result by its id, an error only that
\* it is this client's.
Honest(f) ==
    /\ f.kind = "error" => f.for # Other
    /\ f.kind # "error" /\ f.for # Other => f.id = f.for

\* While no stray frame ended an attempt: what is pending or comes back is the
\* request's that is read for, once.
OneAtATime ==
    /\ pending \subseteq {asked}
    /\ pending # {} => pc = "read"
    /\ \A i \in 1 .. Len(inbox) :
         inbox[i].for # Other => pc = "read" /\ inbox[i].for = asked /\ pending = {}
    /\ \A i, j \in 1 .. Len(inbox) : inbox[i].for # Other /\ inbox[j].for # Other => i = j

WireInv ==
    /\ inbox \in Seq(Frames) /\ pending \subseteq 1 .. asked
    /\ \A i \in 1 .. Len(inbox) : Honest(inbox[i])
    /\ ~mixed => OneAtATime

IInv == TypeOK /\ CallInv /\ WireInv

-----------------------------------------------------------------------------
\* A request that is not served locally may go to the cloud.
LEMMA RouteLemma ==
    ASSUME NEW s \in Settings, NEW locally \in ServedLocally(s), ~locally
    PROVE  MayUseCloud(s)
<1>1. s.engine \in {"auto", "local", "google"}
  BY ClientAssumption
<1>2. CASE MayUseCloud(s)
  BY <1>2
<1>3. CASE ~MayUseCloud(s)
  <2>1. ServedLocally(s) = {Routed(s)}
    BY <1>3 DEF ServedLocally
  <2>2. ~Routed(s)
    BY <2>1
  <2> QED
    BY <1>1, <2>2 DEF Routed, MayUseCloud
<1> QED
  BY <1>2, <1>3

\* Steps that touch neither the request nor the session keep what is said of them.
LEMMA OutsideLemma ==
    ASSUME CallInv, WireInv, UNCHANGED <<call_vars, wire_vars>>, changes' \in Nat
    PROVE  CallInv' /\ WireInv'
BY DEF CallInv, WireInv, OneAtATime, Honest, MayUseCloud, call_vars, wire_vars

\* A step of the request that leaves the session alone, to or from no read.
LEMMA QuietLemma ==
    ASSUME WireInv, UNCHANGED <<asked, pending, inbox, mixed>>, pc # "read"
    PROVE  WireInv'
BY DEF WireInv, OneAtATime, Honest

\* A frame that comes in.
LEMMA FrameLemma ==
    ASSUME TypeOK, WireInv, UNCHANGED <<asked, mixed, pc>>,
           NEW f \in Frames, Honest(f), inbox' = Append(inbox, f), pending' \subseteq pending,
           f.for # Other => f.for \in pending /\ pending' = pending \ {f.for}
    PROVE  WireInv'
<1> USE DEF WireInv
<1>1. inbox' \in Seq(Frames) /\ pending' \subseteq 1 .. asked'
  OBVIOUS
<1>2. Len(inbox') = Len(inbox) + 1 /\ Len(inbox) \in Nat
  OBVIOUS
<1>3. \A i \in 1 .. Len(inbox') : inbox'[i] = IF i = Len(inbox') THEN f ELSE inbox[i]
  BY <1>2
<1>4. \A i \in 1 .. Len(inbox') : i # Len(inbox') => i \in 1 .. Len(inbox)
  BY <1>2
<1>5. \A i \in 1 .. Len(inbox') : Honest(inbox[i])'
  BY <1>3, <1>4 DEF Honest
<1>6. ASSUME ~mixed PROVE OneAtATime'
  <2>1. OneAtATime
    BY <1>6
  <2>2. pending' \subseteq {asked'} /\ (pending' # {} => pc' = "read")
    BY <2>1 DEF OneAtATime
  <2>3. CASE f.for = Other
    <3>1. \A i \in 1 .. Len(inbox') : inbox'[i].for # Other => i \in 1 .. Len(inbox) /\ inbox'[i] = inbox[i]
      BY <1>3, <1>4, <2>3
    <3>2. pending = {} => pending' = {}
      OBVIOUS
    <3> QED
      BY <2>1, <2>2, <3>1, <3>2 DEF OneAtATime
  <2>4. CASE f.for # Other
    <3>1. pending = {asked} /\ f.for = asked /\ pending' = {} /\ pc = "read"
      BY <2>1, <2>4 DEF OneAtATime
    <3>2. \A i \in 1 .. Len(inbox) : inbox[i].for = Other
      BY <2>1, <3>1 DEF OneAtATime
    <3>3. \A i \in 1 .. Len(inbox') : inbox'[i].for # Other => i = Len(inbox') /\ inbox'[i] = f
      BY <1>3, <1>4, <3>2
    <3> QED
      BY <2>2, <3>1, <3>3 DEF OneAtATime
  <2> QED
    BY <2>3, <2>4
<1> QED
  BY <1>1, <1>5, <1>6

LEMMA InitLemma == Init => IInv
<1> SUFFICES ASSUME Init PROVE IInv
  OBVIOUS
<1>1. TypeOK
  <2> USE ClientAssumption DEF Init
  <2>1. Slots!TypeOK
    BY DEF Slots!Init, Slots!TypeOK
  <2>2. want \in BOOLEAN
    BY DEF Link!Init, Routed
  <2>3. host = 0 /\ launches = 0 /\ held = 0 /\ pipe = 0 /\ shutting = FALSE /\ poked = TRUE
    BY DEF Link!Init
  <2>4. settings \in Settings /\ snap \in Settings \cup {NoSettings} /\ running \in Workers \cup {Nobody}
    OBVIOUS
  <2>5. exiting \in BOOLEAN /\ clouded \in BOOLEAN /\ shutting \in BOOLEAN /\ poked \in BOOLEAN
        /\ ended \in BOOLEAN /\ mixed \in BOOLEAN
    BY <2>3
  <2>6. 0 \in 0 .. MaxLaunches /\ 0 \in 0 .. 2
    OBVIOUS
  <2>7. TypeOK <=> /\ Slots!TypeOK
                   /\ want \in BOOLEAN
                   /\ settings \in Settings /\ snap \in Settings \cup {NoSettings}
    BY <2>3, <2>4, <2>5, <2>6 DEF TypeOK
  <2> QED
    BY <2>1, <2>2, <2>4, <2>7
<1>2. CallInv
  BY DEF Init, CallInv, NoAnswer
<1>3. WireInv
  BY DEF Init, WireInv, OneAtATime
<1> QED
  BY <1>1, <1>2, <1>3 DEF IInv

\* The workers' loops.
LEMMA SlotsLemma ==
    ASSUME IInv, NEW w \in Workers, Submit(w) \/ WorkerLoop(w) \/ StopWorker(w)
    PROVE  IInv'
<1> USE ClientAssumption DEF IInv
<1>1. UNCHANGED <<host_vars, link_vars, app_vars, call_vars, wire_vars>>
  BY DEF Submit, WorkerLoop, StopWorker
<1>2. Slots!TypeOK'
  <2>1. CASE Submit(w)
    BY <2>1 DEF Submit, Slots!Submit, Slots!Woken, Slots!TypeOK, TypeOK
  <2>2. CASE WorkerLoop(w)
    BY <2>2 DEF WorkerLoop, Slots!Loop, Slots!Take, Slots!Leave, Slots!Wait, Slots!Block, Slots!TypeOK, TypeOK
  <2>3. CASE StopWorker(w)
    BY <2>3 DEF StopWorker, Slots!Stop, Slots!Woken, Slots!TypeOK, TypeOK
  <2> QED
    BY <2>1, <2>2, <2>3
<1>3. TypeOK'
  BY <1>1, <1>2 DEF TypeOK, host_vars, link_vars, app_vars, call_vars, wire_vars
<1>4. CallInv' /\ WireInv'
  BY <1>1, OutsideLemma DEF CallInv, app_vars
<1> QED
  BY <1>3, <1>4

\* The settings, the exit, the host and the warmup connection.
LEMMA AppLemma ==
    ASSUME IInv, RefreshActiveEngine \/ RequestCancel \/ WarmupShutdown \/ HostDies
    PROVE  IInv'
<1> USE ClientAssumption DEF IInv
<1>1. UNCHANGED <<call_vars, wire_vars>> /\ UNCHANGED slot_vars
  BY DEF RefreshActiveEngine, RequestCancel, WarmupShutdown, HostDies
<1>2. Slots!TypeOK'
  BY <1>1 DEF TypeOK, Slots!TypeOK, slot_vars
<1>3. TypeOK' /\ changes' \in Nat
  <2>1. CASE RefreshActiveEngine
    <3>1. want' \in BOOLEAN
      BY <2>1 DEF RefreshActiveEngine, Link!SetState, Routed
    <3>2. UNCHANGED <<host_vars, exiting, shutting, held, pipe>> /\ settings' \in Settings
      BY <2>1 DEF RefreshActiveEngine, Link!SetState
    <3>3. poked' \in BOOLEAN
      BY <2>1 DEF RefreshActiveEngine, Link!SetState, TypeOK
    <3>4. changes' \in Nat
      BY <2>1 DEF RefreshActiveEngine, CallInv
    <3> QED
      BY <1>1, <1>2, <3>1, <3>2, <3>3, <3>4 DEF TypeOK, host_vars, call_vars, wire_vars
  <2>2. CASE RequestCancel
    BY <2>2, <1>1, <1>2 DEF RequestCancel, TypeOK, CallInv, host_vars, link_vars, call_vars, wire_vars
  <2>3. CASE WarmupShutdown
    BY <2>3, <1>1, <1>2 DEF WarmupShutdown, Link!Shutdown, Link!host_vars, TypeOK, CallInv, app_vars, call_vars, wire_vars
  <2>4. CASE HostDies
    BY <2>4, <1>1, <1>2 DEF HostDies, TypeOK, CallInv, link_vars, app_vars, call_vars, wire_vars
  <2> QED
    BY <2>1, <2>2, <2>3, <2>4
<1> QED
  BY <1>1, <1>3, OutsideLemma

LEMMA WarmupLemma ==
    ASSUME IInv, Warmup
    PROVE  IInv'
<1> USE ClientAssumption DEF IInv
<1>1. UNCHANGED <<slot_vars, app_vars, call_vars, wire_vars>>
  BY DEF Warmup
<1>2. Slots!TypeOK'
  BY <1>1 DEF TypeOK, Slots!TypeOK, slot_vars
<1>3. /\ host' \in 0 .. MaxLaunches /\ launches' \in 0 .. MaxLaunches
      /\ held' \in 0 .. MaxLaunches /\ pipe' \in 0 .. MaxLaunches
      /\ want' \in BOOLEAN /\ shutting' \in BOOLEAN /\ poked' \in BOOLEAN
  <2> USE DEF TypeOK, Link!host_vars, Link!link_vars, Link!GoTo, Link!DropHeld
  <2>1. CASE Link!Leave
    BY <2>1 DEF Link!Leave
  <2>2. CASE Link!Park
    BY <2>2 DEF Link!Park
  <2>3. CASE Link!Reconnect
    BY <2>3 DEF Link!Reconnect
  <2>4. CASE Link!Hold
    BY <2>4 DEF Link!Hold
  <2>5. CASE Link!Awake
    BY <2>5 DEF Link!Awake
  <2>6. CASE Link!RetryTime
    BY <2>6 DEF Link!RetryTime
  <2>7. CASE Link!ServerDropped
    BY <2>7 DEF Link!ServerDropped
  <2>8. CASE Link!Launch
    BY <2>8 DEF Link!Launch, Link!SpawnHost
  <2>9. CASE Link!Connected
    BY <2>9 DEF Link!Connected
  <2>10. CASE Link!NotConnected
    BY <2>10 DEF Link!NotConnected
  <2>11. CASE Link!LookBeforeHello
    BY <2>11 DEF Link!LookBeforeHello
  <2>12. CASE Link!Hello
    BY <2>12 DEF Link!Hello
  <2>13. CASE Link!Welcome
    BY <2>13 DEF Link!Welcome
  <2>14. CASE Link!UnpublishAndClose
    BY <2>14 DEF Link!UnpublishAndClose
  <2> QED
    BY <2>1, <2>2, <2>3, <2>4, <2>5, <2>6, <2>7, <2>8, <2>9, <2>10, <2>11, <2>12, <2>13, <2>14
       DEF Warmup, Link!Run
<1>4. TypeOK'
  BY <1>1, <1>2, <1>3 DEF TypeOK, app_vars, call_vars, wire_vars
<1> QED
  BY <1>1, <1>4, OutsideLemma DEF CallInv, app_vars

-----------------------------------------------------------------------------
\* The host's frames.
LEMMA HostLemma ==
    ASSUME IInv, HostAnswers \/ HostRefuses \/ HostStrays
    PROVE  IInv'
<1> USE DEF IInv
<1>1. UNCHANGED <<asked, session, mixed>> /\ UNCHANGED Session_frame /\ ended' \in BOOLEAN
  BY DEF HostAnswers, HostRefuses, HostStrays, TypeOK
<1>2. UNCHANGED <<slot_vars, host_vars, link_vars, app_vars, call_vars>>
  BY <1>1 DEF Session_frame
<1>3. Slots!TypeOK'
  BY <1>2 DEF TypeOK, Slots!TypeOK, slot_vars
<1>4. TypeOK'
  BY <1>1, <1>2, <1>3 DEF TypeOK, host_vars, link_vars, app_vars, call_vars
<1>5. CallInv'
  BY <1>2 DEF CallInv, MayUseCloud, call_vars, app_vars
<1>6. pc' = pc /\ asked \in Nat
  BY <1>2 DEF call_vars, TypeOK
<1>7. CASE HostAnswers \/ HostRefuses
  <2>1. pending \subseteq Nat
    BY <1>6 DEF WireInv
  <2>2. PICK r \in pending, kind \in Kinds, id \in Nat :
          /\ inbox' = Append(inbox, Result(kind, id, r)) /\ pending' = pending \ {r}
          /\ kind # "error" => id = r
    BY <1>7, <2>1 DEF HostAnswers, HostRefuses, Kinds
  <2>3. r \in Nat /\ r # Other
    BY <1>6, <2>1 DEF WireInv, Other
  <2>4. Result(kind, id, r) \in Frames /\ Honest(Result(kind, id, r)) /\ Result(kind, id, r).for = r
    BY <2>2, <2>3 DEF Result, Frames, Honest
  <2> QED
    BY <1>1, <1>4, <1>5, <1>6, <2>2, <2>4, FrameLemma
<1>8. CASE HostStrays
  <2>1. PICK id \in 1 .. asked + 1, kind \in {"ok", "status"} : inbox' = Append(inbox, Result(kind, id, Other))
    BY <1>8 DEF HostStrays
  <2>2. Result(kind, id, Other) \in Frames /\ Honest(Result(kind, id, Other)) /\ Result(kind, id, Other).for = Other
    BY <1>6, <2>1 DEF Result, Frames, Honest, Other, Kinds
  <2>3. pending' = pending
    BY <1>8 DEF HostStrays
  <2> QED
    BY <1>1, <1>4, <1>5, <1>6, <2>1, <2>2, <2>3, FrameLemma
<1> QED
  BY <1>7, <1>8

-----------------------------------------------------------------------------
\* The steps of a request.

LEMMA AdmitLemma ==
    ASSUME IInv, NEW w \in Workers, Admit(w)
    PROVE  IInv'
<1> USE ClientAssumption DEF IInv
<1>1. /\ running = Nobody /\ running' = w /\ snap' = settings /\ settings \in Settings
      /\ UNCHANGED <<failure, answer, slot_vars, host_vars, link_vars, app_vars, wire_vars>>
  BY DEF Admit, TypeOK
<1>2. pc = "free" /\ tries = 0 /\ answer = NoAnswer /\ clouded = FALSE
  BY <1>1 DEF CallInv, TypeOK
<1>3. /\ pc' \in {"done", "connect", "send"} /\ tries' \in 0 .. 1 /\ clouded' \in BOOLEAN
      /\ clouded' => pc' = "done" /\ MayUseCloud(settings)
  <2>1. CASE exiting
    <3>1. pc' = "done" /\ tries' = 0 /\ clouded' = FALSE
      BY <1>2, <2>1 DEF Admit, GiveUp, GoTo
    <3>2. tries' \in 0 .. 1
      BY <3>1
    <3> QED
      BY <3>1, <3>2, Zenon
  <2>2. CASE ~exiting
    <3>1. PICK locally \in ServedLocally(settings) : IF locally THEN BeginTry ELSE CloudCall
      BY <2>2 DEF Admit
    <3>2. CASE locally
      <4>1. tries' = 1 /\ pc' \in {"connect", "send"} /\ clouded' = FALSE
        BY <1>2, <3>1, <3>2 DEF BeginTry, GoTo
      <4>2. tries' \in 0 .. 1
        BY <4>1
      <4> QED
        BY <4>1, <4>2, Zenon
    <3>3. CASE ~locally
      BY <1>1, <1>2, <3>1, <3>3, RouteLemma DEF CloudCall, GoTo
    <3> QED
      BY <3>2, <3>3
  <2> QED
    BY <2>1, <2>2
<1>4. Slots!TypeOK'
  BY <1>1 DEF TypeOK, Slots!TypeOK, slot_vars
<1>5. TypeOK'
  BY <1>1, <1>3, <1>4 DEF TypeOK, host_vars, link_vars, app_vars, wire_vars
<1>6. CallInv'
  BY <1>1, <1>2, <1>3 DEF CallInv, MayUseCloud, NoAnswer, app_vars
<1>7. WireInv'
  BY <1>1, <1>2, QuietLemma DEF wire_vars
<1> QED
  BY <1>5, <1>6, <1>7

LEMMA ReturnLemma ==
    ASSUME IInv, Return
    PROVE  IInv'
<1> USE ClientAssumption DEF IInv
<1>1. /\ pc = "done" /\ pc' = "free" /\ running' = Nobody /\ snap' = NoSettings /\ tries' = 0
      /\ answer' = NoAnswer /\ clouded' = FALSE
      /\ UNCHANGED <<host_vars, link_vars, app_vars, wire_vars>>
  BY DEF Return, GoTo
<1>2. Slots!TypeOK'
  <2>1. Slots!Return(running)
    BY DEF Return
  <2> QED
    BY <2>1 DEF Slots!Return, Slots!TypeOK, TypeOK
<1>3. TypeOK'
  <2>1. clouded' \in BOOLEAN
    BY <1>1, Zenon
  <2>2. tries' \in 0 .. 2
    BY <1>1
  <2>3. running' \in Workers \cup {Nobody} /\ snap' \in Settings \cup {NoSettings}
    BY <1>1
  <2> QED
    BY <1>1, <1>2, <2>1, <2>2, <2>3 DEF TypeOK, host_vars, link_vars, app_vars, wire_vars
<1>4. CallInv'
  BY <1>1 DEF CallInv, NoAnswer, app_vars
<1>5. WireInv'
  BY <1>1, QuietLemma DEF wire_vars
<1> QED
  BY <1>3, <1>4, <1>5

\* The steps in between leave the workers, the warmup connection, the settings
\* and the request's admission alone.
Middle ==
    \/ Spawn \/ ConnectAndHandshake \/ ConnectFails \/ SendRequest \/ PipeBroken
    \/ ReadTimesOut \/ ReadAnswer \/ Retry \/ Nap \/ FallBack

LEMMA MiddleTypes ==
    ASSUME IInv, Middle,
           host' \in 0 .. MaxLaunches, launches' \in 0 .. MaxLaunches, session' \in 0 .. MaxLaunches,
           tries' \in 0 .. 2, asked' \in Nat, clouded' \in BOOLEAN, ended' \in BOOLEAN, mixed' \in BOOLEAN
    PROVE  TypeOK' /\ changes' = changes /\ running' = running /\ snap' = snap
<1> USE DEF IInv
<1>1. UNCHANGED Request_frame
  BY DEF Middle, Spawn, ConnectAndHandshake, ConnectFails, SendRequest, PipeBroken,
         ReadTimesOut, ReadAnswer, Retry, Nap, FallBack
<1>2. UNCHANGED <<slot_vars, link_vars, app_vars, running, snap>>
  BY <1>1 DEF Request_frame
<1>3. Slots!TypeOK'
  BY <1>2 DEF TypeOK, Slots!TypeOK, slot_vars
<1> QED
  BY <1>2, <1>3 DEF TypeOK, link_vars, app_vars

LEMMA MiddleLemma ==
    ASSUME IInv, Middle
    PROVE  IInv'
<1> USE ClientAssumption DEF IInv
<1>1. CASE Spawn
  <2>1. /\ pc = "connect" /\ host' \in 0 .. MaxLaunches /\ launches' \in 0 .. MaxLaunches
        /\ UNCHANGED <<wire_vars, pc, tries, answer, clouded>>
    BY <1>1 DEF Spawn, Link!SpawnHost, TypeOK
  <2>2. TypeOK' /\ changes' = changes /\ running' = running /\ snap' = snap
    BY <1>1, <2>1, MiddleTypes DEF Middle, TypeOK, wire_vars
  <2> QED
    BY <2>1, <2>2, QuietLemma DEF CallInv, MayUseCloud, wire_vars
<1>2. CASE ConnectAndHandshake
  <2>1. /\ pc = "connect" /\ pc' = "send" /\ session' = host
        /\ UNCHANGED <<host_vars, asked, pending, inbox, ended, mixed, tries, answer, clouded>>
    BY <1>2 DEF ConnectAndHandshake, GoTo
  <2>2. TypeOK' /\ changes' = changes /\ running' = running /\ snap' = snap
    BY <1>2, <2>1, MiddleTypes DEF Middle, TypeOK, host_vars
  <2> QED
    BY <2>1, <2>2, QuietLemma DEF CallInv, MayUseCloud
<1>3. CASE ConnectFails
  <2>1. /\ pc = "connect" /\ pc' = "failed"
        /\ UNCHANGED <<host_vars, wire_vars, tries, answer, clouded>>
    BY <1>3 DEF ConnectFails, Fails, GoTo
  <2>2. TypeOK' /\ changes' = changes /\ running' = running /\ snap' = snap
    BY <1>3, <2>1, MiddleTypes DEF Middle, TypeOK, host_vars, wire_vars
  <2> QED
    BY <2>1, <2>2, QuietLemma DEF CallInv, MayUseCloud, wire_vars
<1>4. CASE SendRequest
  <2>1. /\ pc = "send" /\ pc' = "read" /\ asked' = asked + 1
        /\ pending' \subseteq pending \cup {asked'}
        /\ UNCHANGED <<host_vars, session, inbox, ended, mixed, tries, answer, clouded>>
    BY <1>4 DEF SendRequest, GoTo
  <2>2. TypeOK' /\ changes' = changes /\ running' = running /\ snap' = snap
    BY <1>4, <2>1, MiddleTypes DEF Middle, TypeOK, host_vars
  <2>3. CallInv'
    BY <2>1, <2>2 DEF CallInv, MayUseCloud
  <2>4. pending' \subseteq 1 .. asked'
    BY <2>1 DEF WireInv, TypeOK
  <2>5. ASSUME ~mixed PROVE OneAtATime'
    <3>1. pending = {} /\ \A i \in 1 .. Len(inbox) : inbox[i].for = Other
      BY <2>1, <2>5 DEF WireInv, OneAtATime
    <3>2. pending' \subseteq {asked'}
      BY <2>1, <3>1
    <3> QED
      BY <2>1, <3>1, <3>2 DEF OneAtATime
  <2> QED
    BY <2>1, <2>2, <2>3, <2>4, <2>5 DEF WireInv, Honest
<1>5. CASE PipeBroken \/ ReadTimesOut
  <2>1. /\ pc \in {"send", "read"} /\ pc' = "failed" /\ session' = 0 /\ pending' = {} /\ inbox' = <<>>
        /\ ended' = FALSE /\ mixed' = FALSE
        /\ UNCHANGED <<host_vars, asked, tries, answer, clouded>>
    BY <1>5 DEF PipeBroken, ReadTimesOut, Fails, Close, GoTo
  <2>2. ended' \in BOOLEAN /\ mixed' \in BOOLEAN
    BY <2>1, Zenon
  <2>3. TypeOK' /\ changes' = changes /\ running' = running /\ snap' = snap
    BY <1>5, <2>1, <2>2, MiddleTypes DEF Middle, TypeOK, host_vars
  <2>4. CallInv'
    BY <2>1, <2>3 DEF CallInv, MayUseCloud
  <2>5. WireInv'
    BY <2>1 DEF WireInv, OneAtATime, Honest
  <2> QED
    BY <2>3, <2>4, <2>5
<1>6. CASE ReadAnswer
  <2> DEFINE a == Head(inbox)
  <2>1. /\ pc = "read" /\ inbox # <<>> /\ inbox' = Tail(inbox)
        /\ UNCHANGED <<host_vars, asked, session, pending, ended, tries, clouded>>
    BY <1>6 DEF ReadAnswer
  <2>2. \/ /\ a.kind # "error" /\ a.id # asked
           /\ UNCHANGED <<pc, answer, mixed>>
        \/ /\ a.kind = "error" \/ a.id = asked
           /\ answer' = a /\ mixed' = (mixed \/ a.for = Other)
           /\ pc' = IF a.kind = "ok" THEN "done" ELSE "failed"
    BY <1>6 DEF ReadAnswer, Fails, GoTo
  <2>3. mixed' \in BOOLEAN
    BY <2>2, Zenon DEF TypeOK
  <2>4. TypeOK' /\ changes' = changes /\ running' = running /\ snap' = snap
    BY <1>6, <2>1, <2>3, MiddleTypes DEF Middle, TypeOK, host_vars
  <2>5. CallInv'
    BY <2>1, <2>2, <2>4 DEF CallInv, MayUseCloud
  <2>6. /\ Len(inbox) \in Nat \ {0} /\ Len(inbox') = Len(inbox) - 1 /\ inbox' \in Seq(Frames)
        /\ a = inbox[1] /\ 1 \in 1 .. Len(inbox)
    BY <2>1 DEF WireInv
  <2>7. \A i \in 1 .. Len(inbox') : i + 1 \in 1 .. Len(inbox) /\ i + 1 # 1 /\ inbox'[i] = inbox[i + 1]
    BY <2>1, <2>6 DEF WireInv
  <2>8. \A i \in 1 .. Len(inbox') : Honest(inbox[i])'
    BY <2>7 DEF WireInv, Honest
  <2>9. ASSUME ~mixed' PROVE OneAtATime'
    <3>1. ~mixed /\ OneAtATime
      <4>1. ~mixed
        BY <2>2, <2>9, Zenon
      <4> QED
        BY <4>1 DEF WireInv
    <3>2. Honest(a)
      BY <2>6 DEF WireInv
    <3>3. \A i, j \in 1 .. Len(inbox') : inbox'[i].for # Other /\ inbox'[j].for # Other => i = j
      <4>1. TAKE i, j \in 1 .. Len(inbox')
      <4>2. HAVE inbox'[i].for # Other /\ inbox'[j].for # Other
      <4>3. i + 1 = j + 1
        BY <2>7, <3>1, <4>2 DEF OneAtATime
      <4> QED
        BY <2>6, <4>3
    <3>4. CASE a.for = Other
      <4>1. a.kind # "error"
        BY <3>2, <3>4 DEF Honest
      <4>2. UNCHANGED <<pc, answer, mixed>>
        BY <2>2, <2>9, <3>4, <4>1
      <4> QED
        BY <2>1, <2>7, <3>1, <3>3, <4>2 DEF OneAtATime
    <3>5. CASE a.for # Other
      <4>1. pending' = {}
        BY <2>1, <2>6, <3>1, <3>5 DEF OneAtATime
      <4>2. \A i \in 1 .. Len(inbox') : inbox'[i].for = Other
        BY <2>6, <2>7, <3>1, <3>5 DEF OneAtATime
      <4> QED
        BY <4>1, <4>2 DEF OneAtATime
    <3> QED
      BY <3>4, <3>5
  <2>10. WireInv'
    BY <2>1, <2>6, <2>8, <2>9 DEF WireInv
  <2> QED
    BY <2>4, <2>5, <2>10
<1>7. CASE Retry
  <2>1. /\ pc = "failed" /\ pc' = "nap" /\ tries = 1
        /\ UNCHANGED <<host_vars, wire_vars, tries, answer, clouded>>
    BY <1>7 DEF Retry, GoTo
  <2>2. TypeOK' /\ changes' = changes /\ running' = running /\ snap' = snap
    BY <1>7, <2>1, MiddleTypes DEF Middle, TypeOK, host_vars, wire_vars
  <2> QED
    BY <2>1, <2>2, QuietLemma DEF CallInv, MayUseCloud, wire_vars
<1>8. CASE Nap
  <2>1. /\ pc = "nap" /\ pc' \in {"done", "connect", "send"} /\ tries = 1 /\ tries' \in 1 .. 2
        /\ UNCHANGED <<host_vars, wire_vars, answer, clouded>>
    BY <1>8 DEF Nap, GiveUp, BeginTry, GoTo, CallInv
  <2>2. TypeOK' /\ changes' = changes /\ running' = running /\ snap' = snap
    BY <1>8, <2>1, MiddleTypes DEF Middle, TypeOK, host_vars, wire_vars
  <2> QED
    BY <2>1, <2>2, QuietLemma DEF CallInv, MayUseCloud, wire_vars
<1>9. CASE FallBack
  <2>1. /\ pc = "failed" /\ pc' = "done" /\ clouded' \in BOOLEAN
        /\ clouded' => clouded \/ MayUseCloud(snap)
        /\ UNCHANGED <<host_vars, wire_vars, tries, answer>>
    BY <1>9 DEF FallBack, CloudCall, GiveUp, GoTo, TypeOK
  <2>2. TypeOK' /\ changes' = changes /\ running' = running /\ snap' = snap
    BY <1>9, <2>1, MiddleTypes DEF Middle, TypeOK, host_vars, wire_vars
  <2> QED
    BY <2>1, <2>2, QuietLemma DEF CallInv, MayUseCloud, wire_vars
<1> QED
  BY <1>1, <1>2, <1>3, <1>4, <1>5, <1>6, <1>7, <1>8, <1>9 DEF Middle

-----------------------------------------------------------------------------
LEMMA NextLemma ==
    ASSUME IInv, [Next]_vars
    PROVE  IInv'
<1>1. CASE UNCHANGED vars
  BY <1>1 DEF IInv, TypeOK, Slots!TypeOK, CallInv, WireInv, OneAtATime, Honest, MayUseCloud, vars, slot_vars, host_vars,
              link_vars, app_vars, wire_vars, call_vars
<1>2. CASE \E w \in Workers : Submit(w) \/ WorkerLoop(w) \/ Admit(w) \/ StopWorker(w)
  BY <1>2, SlotsLemma, AdmitLemma
<1>3. CASE RefreshActiveEngine \/ RequestCancel \/ WarmupShutdown \/ Warmup \/ HostDies
  BY <1>3, AppLemma, WarmupLemma
<1>4. CASE HostAnswers \/ HostRefuses \/ HostStrays
  BY <1>4, HostLemma
<1>5. CASE Translate
  BY <1>5, MiddleLemma, ReturnLemma DEF Translate, Middle
<1> QED
  BY <1>1, <1>2, <1>3, <1>4, <1>5 DEF Next

\* What every step preserves.
THEOREM Invariance == Spec => []IInv
<1>1. IInv /\ [Next]_vars => IInv'
  BY NextLemma
<1> QED
  BY InitLemma, <1>1, PTL DEF Spec

\* A text goes to the cloud only under the settings it was admitted under, and
\* not when the host has answered (engine.cpp:609-641, 836-862).
THEOREM DeviceCorrect == Spec => []OnDevice
<1>1. IInv => OnDevice
  BY DEF IInv, CallInv, OnDevice, MayUseCloud
<1> QED
  BY Invariance, <1>1, PTL

\* What ends an attempt was written for its request, unless it is another client's
\* result with that very id or an error after one (engine_host_client.cpp:870-919).
THEOREM AnswerCorrect == Spec => AnswerIsOwn
<1> DEFINE Own == \/ answer' = NoAnswer
                  \/ answer'.for = asked
                  \/ answer'.for = Other /\ answer'.id = asked
                  \/ mixed /\ answer'.kind = "error"
<1>1. IInv /\ [Next]_vars => [answer' # answer => Own]_vars
  <2> SUFFICES ASSUME IInv, Next, answer' # answer
               PROVE  Own
    BY DEF vars
  <2>1. ReadAnswer \/ Return
    BY DEF Next, Submit, WorkerLoop, Admit, StopWorker, RefreshActiveEngine, RequestCancel, WarmupShutdown,
           Warmup, HostDies, HostAnswers, HostRefuses, HostStrays, Session_frame, Translate, Spawn,
           ConnectAndHandshake, ConnectFails, SendRequest, PipeBroken, ReadTimesOut, Retry, Nap, FallBack,
           call_vars
  <2>2. CASE Return
    BY <2>2 DEF Return
  <2>3. CASE ReadAnswer
    <3>1. /\ answer' = Head(inbox) /\ inbox # <<>>
          /\ Head(inbox).kind = "error" \/ Head(inbox).id = asked
      BY <2>3 DEF ReadAnswer
    <3>2. Head(inbox) = inbox[1] /\ 1 \in 1 .. Len(inbox)
      BY <3>1 DEF IInv, WireInv
    <3>3. Honest(Head(inbox)) /\ (mixed \/ OneAtATime)
      BY <3>2 DEF IInv, WireInv
    <3>4. CASE Head(inbox).kind = "error"
      BY <3>1, <3>2, <3>3, <3>4 DEF Honest, OneAtATime
    <3>5. CASE Head(inbox).kind # "error"
      BY <3>1, <3>3, <3>5 DEF Honest
    <3> QED
      BY <3>4, <3>5
  <2> QED
    BY <2>1, <2>2, <2>3
<1> QED
  BY Invariance, <1>1, PTL DEF Spec, AnswerIsOwn
=============================================================================
