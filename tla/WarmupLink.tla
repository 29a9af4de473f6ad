----------------------------- MODULE WarmupLink -----------------------------
(***************************************************************************)
(* The warmup connection (WarmupManager of src/engine_host_client.cpp): while  *)
(* the shared host is the active engine a thread holds one connection to it,   *)
(* so that the host keeps its model loaded.  Everybody else only pushes the     *)
(* wanted state and signals an event; the exit latches a stop and cancels, once, *)
(* what is pending on the published pipe.                                      *)
(*                                                                         *)
(* A pipe is named by the number of the host process behind it, 0 is none.     *)
(* A wait that fails (WAIT_FAILED) is left out.                               *)
(***************************************************************************)
EXTENDS Naturals

CONSTANTS MaxLaunches,   \* bound: host processes launched
          MaxLadder      \* doublings of the back-off up to its cap

VARIABLES host,          \* the host process that serves, 0 when none does
          launches,      \* host processes launched so far
          want,          \* DesiredLocked
          shutting,      \* shutting_down_, stop_event_
          poked,         \* state_event_ is signaled
          at,            \* where the thread is; "none" before there is one
          held,          \* held_pipe of Run
          pipe,          \* pipe_, what Shutdown may cancel
          io,            \* the handshake on it: "none", "pending", "canceled"
          ladder         \* doublings of backoff_ms

host_vars == <<host, launches>>
link_vars == <<want, shutting, poked, at, held, pipe, io, ladder>>
vars == <<host_vars, link_vars>>

\* As the manager's constructor leaves it, the thread started when it is wanted.
Init(desired) ==
    /\ host = 0 /\ launches = 0
    /\ want = desired /\ shutting = FALSE /\ poked = TRUE
    /\ at = IF desired THEN "top" ELSE "none"
    /\ held = 0 /\ pipe = 0 /\ io = "none" /\ ladder = 0

SpawnHost ==
    /\ host = 0 /\ launches < MaxLaunches
    /\ launches' = launches + 1 /\ host' = launches'

\* Mutant of SetState: the event is not signaled.
SetStateSilently(desired) ==
    /\ want' = desired
    /\ at' = IF ~shutting /\ at = "none" /\ desired THEN "top" ELSE at
    /\ UNCHANGED <<shutting, poked, held, pipe, io, ladder>>

\* A push of the state: starts the thread when there is none and wakes it.
SetState(desired) ==
    /\ want' = desired
    /\ IF shutting THEN UNCHANGED <<at, poked>>
       ELSE /\ at' = IF at = "none" /\ desired THEN "top" ELSE at
            /\ poked' = TRUE
    /\ UNCHANGED <<shutting, held, pipe, io, ladder>>

Shutdown ==
    /\ ~shutting
    /\ shutting' = TRUE /\ poked' = TRUE
    /\ io' = IF pipe # 0 /\ io = "pending" THEN "canceled" ELSE io
    /\ UNCHANGED <<host_vars, want, at, held, pipe, ladder>>

Joined == at \in {"none", "gone"}

-----------------------------------------------------------------------------
\* The thread.

GoTo(place) == at' = place
DropHeld == held' = 0 /\ pipe' = 0
Climb == ladder' = IF ladder < MaxLadder THEN ladder + 1 ELSE ladder

\* At the top of the loop, or woken by the stop in one of its three waits.
Leave ==
    /\ at \in {"top", "park", "backoff", "hold"} /\ shutting
    /\ DropHeld /\ GoTo("gone")
    /\ UNCHANGED <<host_vars, want, shutting, poked, io, ladder>>

Park ==
    /\ at = "top" /\ ~shutting /\ ~want
    /\ DropHeld /\ ladder' = 0 /\ GoTo("park")
    /\ UNCHANGED <<host_vars, want, shutting, poked, io>>

Reconnect ==
    /\ at = "top" /\ ~shutting /\ want /\ held = 0
    /\ GoTo("connect")
    /\ UNCHANGED <<host_vars, want, shutting, poked, held, pipe, io, ladder>>

Hold ==
    /\ at = "top" /\ ~shutting /\ want /\ held # 0
    /\ GoTo("hold")
    /\ UNCHANGED <<host_vars, want, shutting, poked, held, pipe, io, ladder>>

Awake ==
    /\ at \in {"park", "backoff", "hold"} /\ ~shutting /\ poked
    /\ poked' = FALSE /\ GoTo("top")
    /\ UNCHANGED <<host_vars, want, shutting, held, pipe, io, ladder>>

RetryTime ==
    /\ at = "backoff" /\ ~shutting
    /\ GoTo("top")
    /\ UNCHANGED <<host_vars, want, shutting, poked, held, pipe, io, ladder>>

\* The poll of a held pipe finds the server gone.
ServerDropped ==
    /\ at = "hold" /\ ~shutting /\ host # held
    /\ DropHeld /\ ladder' = 0 /\ GoTo("top")
    /\ UNCHANGED <<host_vars, want, shutting, poked, io>>

Launch ==
    /\ at = "connect" /\ SpawnHost
    /\ UNCHANGED link_vars

\* The pipe is published before the hello, for Shutdown to cancel.
Connected ==
    /\ at = "connect" /\ host # 0
    /\ pipe' = host /\ GoTo("hello")
    /\ UNCHANGED <<host_vars, want, shutting, poked, held, io, ladder>>

NotConnected ==
    /\ at = "connect"
    /\ Climb /\ GoTo("backoff")
    /\ UNCHANGED <<host_vars, want, shutting, poked, held, pipe, io>>

\* Looks at the stop, then writes and reads.
LookBeforeHello ==
    /\ at = "hello" /\ ~shutting
    /\ GoTo("write")
    /\ UNCHANGED <<host_vars, want, shutting, poked, held, pipe, io, ladder>>

Hello ==
    /\ at = "write"
    /\ io' = "pending" /\ GoTo("reply")
    /\ UNCHANGED <<host_vars, want, shutting, poked, held, pipe, ladder>>

Welcome ==
    /\ at = "reply" /\ io = "pending" /\ host = pipe
    /\ held' = pipe /\ io' = "none" /\ ladder' = 0 /\ GoTo("top")
    /\ UNCHANGED <<host_vars, want, shutting, poked, pipe>>

\* No token, the stop, a refusal, a broken pipe, the handshake's timeout, or the
\* cancel: unpublished before it is closed.
UnpublishAndClose ==
    /\ at \in {"hello", "reply"}
    /\ pipe' = 0 /\ io' = "none" /\ Climb /\ GoTo("backoff")
    /\ UNCHANGED <<host_vars, want, shutting, poked, held>>

Run ==
    \/ Leave \/ Park \/ Reconnect \/ Hold \/ Awake \/ RetryTime \/ ServerDropped
    \/ Launch \/ Connected \/ NotConnected \/ LookBeforeHello \/ Hello \/ Welcome
    \/ UnpublishAndClose

\* The thread runs; a host that is there accepts and welcomes now and then.
LinkFairness ==
    /\ WF_vars(Run)
    /\ SF_vars(Launch) /\ SF_vars(Connected) /\ SF_vars(Welcome) /\ SF_vars(LookBeforeHello)

-----------------------------------------------------------------------------
\* A pipe is held while it is wanted and not while it is not (engine_host_client.cpp:1162-1222;
\* the wake in SetState and the three waits of Run must not miss each other).
Follows ==
    /\ <>[]~want => <>[](held = 0)
    /\ <>[](want /\ ~shutting /\ host # 0) => <>[](held = host)

\* Claimed of Shutdown ("the cancel covers the whole handshake"): a write or a
\* read that begins just after the cancel is not covered.
CancelCovers == shutting => io # "pending"

\* Claimed of the back-off ("1s -> 2s -> ... 30s"): the first wait is the second
\* rung, as it is doubled before it is used.
FirstRung == [][at # "backoff" /\ at' = "backoff" /\ ladder = 0 => ladder' = 0]_vars
=============================================================================
