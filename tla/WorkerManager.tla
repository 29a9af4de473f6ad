--------------------------- MODULE WorkerManager ---------------------------
(***************************************************************************)
(* The engine host's worker manager (host_v2_worker_manager.cpp): the      *)
(* lifecycle of one worker process per family, the single-flight Busy      *)
(* flag, the translate pool's VRAM accounting and relay snapshots, and the *)
(* reaper with its idle eviction.                                          *)
(*                                                                         *)
(* A family is a translate model (Boot is the pinned default, id "") or    *)
(* the speech family Asr.  The callers are the host's threads: the two     *)
(* dispatchers and the warmup kicks, which hold a translate family Busy,   *)
(* and the connection threads, which drive Asr without the Busy flag.      *)
(*                                                                         *)
(* One action is one hold of the manager mutex (mu).  EnsureSpawned is the *)
(* only holder that blocks, so it alone is two actions, with mu = c in     *)
(* between; the steps of GracefulStop and of the eviction that the code    *)
(* runs without mu do not ask for it.  Times are abstracted to two flags:  *)
(* backoff (now < next_spawn_allowed_ms) and idle (idle budget exceeded).  *)
(***************************************************************************)
EXTENDS Naturals, FiniteSets

CONSTANTS Models,     \* pool model ids, one translate family each
          Boot,       \* the pinned default's id
          Asr,        \* the ggml-asr family
          Callers,    \* host threads
          Deployed,   \* families whose exe is present
          Bytes,      \* model -> bytes charged at Ready
          MaxGen,     \* bound: process launches per family
          MaxWarm,    \* bound: concurrent warmup holds per family
          NoFam, NoCaller

Families == Models \cup {Asr}
States == {"Spawning", "Ready", "Busy", "Crashed", "Stopping", "Stopped", "Unavailable"}
StopPcs == {"idle", "pick", "snap", "wait", "publish", "reset", "sweep", "end"}

ASSUME ModelsAssumption == Boot \in Models /\ Asr \notin Models /\ NoFam \notin Families
ASSUME CallersAssumption == NoCaller \notin Callers
ASSUME BytesAssumption == Bytes \in [Models -> Nat \ {0}]
ASSUME BoundsAssumption == MaxGen \in Nat /\ MaxWarm \in Nat /\ Deployed \subseteq Families

VARIABLES
    st,        \* WorkerHandle.state
    proc,      \* WorkerHandle.process: the launch it names, 0 = closed
    pipe,      \* WorkerHandle.pipe: the launch it was created for, 0 = closed
    gen,       \* launches so far
    alive,     \* launches whose operating-system process still runs
    backoff, idle, warm,
    pool,      \* translate_pool_: ids with an entry
    charged,   \* TranslatePoolEntry.reserved_vram_bytes
    reserved,  \* translate_pool_reserved_vram_bytes_
    relayed,   \* TranslatePoolEntry.relayed_worker_process
    mu,        \* the caller inside EnsureSpawned's handshake, or NoCaller
    muFam,     \* ... and the family it spawns
    own,       \* family a caller acquired with TrySetBusy, or NoFam
    acq,       \* launch it acquired
    saw,       \* handle it read for a relay mark it has still to store: {} or {launch}
    stop,      \* the one thread inside GracefulStop: reaper, or main when down
    cand,      \* families it has still to visit
    down,      \* ShutdownAll has begun
    tainted    \* history: SetBusy(false) by a caller of an earlier launch

handles == <<st, proc, pipe, gen, alive, backoff, idle, warm>>
poolVars == <<pool, charged, reserved, relayed>>
callerVars == <<mu, muFam, own, acq, saw, tainted>>
stopVars == <<stop, cand, down>>
vars == <<handles, poolVars, callerVars, stopVars>>

Serving(f) == st[f] \in {"Ready", "Busy"}
MuFree == mu = NoCaller
Idle == [pc |-> "idle", fam |-> NoFam, pipe |-> 0, proc |-> 0]

TypeOK ==
    /\ st \in [Families -> States]
    /\ proc \in [Families -> Nat] /\ pipe \in [Families -> Nat]
    /\ gen \in [Families -> Nat] /\ alive \in [Families -> SUBSET Nat]
    /\ backoff \in [Families -> BOOLEAN] /\ idle \in [Families -> BOOLEAN]
    /\ warm \in [Models -> Nat]
    /\ pool \subseteq Models /\ reserved \in Nat
    /\ charged \in [Models -> Nat] /\ relayed \in [Models -> Nat]
    /\ mu \in Callers \cup {NoCaller} /\ muFam \in Families \cup {NoFam}
    /\ own \in [Callers -> Models \cup {NoFam}] /\ acq \in [Callers -> Nat]
    /\ saw \in [Callers -> SUBSET Nat]
    /\ stop \in [pc : StopPcs, fam : Families \cup {NoFam}, pipe : Nat, proc : Nat]
    /\ stop.pc \in {"snap", "wait", "publish", "reset"} => stop.fam \in Families
    /\ cand \subseteq Families /\ down \in BOOLEAN
    /\ tainted \in [Families -> BOOLEAN]

Init ==
    /\ st = [f \in Families |-> "Stopped"]
    /\ proc = [f \in Families |-> 0] /\ pipe = [f \in Families |-> 0]
    /\ gen = [f \in Families |-> 0] /\ alive = [f \in Families |-> {}]
    /\ backoff = [f \in Families |-> FALSE] /\ idle = [f \in Families |-> FALSE]
    /\ warm = [m \in Models |-> 0]
    /\ pool = {Boot} /\ reserved = 0
    /\ charged = [m \in Models |-> 0] /\ relayed = [m \in Models |-> 0]
    /\ mu = NoCaller /\ muFam = NoFam
    /\ own = [c \in Callers |-> NoFam] /\ acq = [c \in Callers |-> 0]
    /\ saw = [c \in Callers |-> {}]
    /\ stop = Idle /\ cand = {} /\ down = FALSE
    /\ tainted = [f \in Families |-> FALSE]

-----------------------------------------------------------------------------
(* Helpers *)

\* PoolModelIdForFamily: every family without the translate prefix, Asr
\* included, resolves to "", which is Boot's key.
PoolKey(f) == IF f = Asr THEN Boot ELSE f

Monus(a, b) == IF a >= b THEN a - b ELSE 0

\* ResetTranslatePoolAccounting
ResetAccounting(m) ==
    /\ reserved' = IF m \in pool THEN Monus(reserved, charged[m]) ELSE reserved
    /\ charged' = IF m \in pool THEN [charged EXCEPT ![m] = 0] ELSE charged
    /\ relayed' = IF m \in pool THEN [relayed EXCEPT ![m] = 0] ELSE relayed
    /\ UNCHANGED pool

\* A caller drives a translate family until the dispatchers are joined; the
\* connection threads drive Asr until the end.
MayUse(c, f) ==
    /\ saw[c] = {}
    /\ IF f = Asr THEN own[c] = NoFam ELSE ~down /\ f \in pool /\ own[c] \in {NoFam, f}

\* Crash finalization shared by the kill paths: the process is terminated and
\* both handles are closed.
Finalize(f, next) ==
    /\ st' = [st EXCEPT ![f] = next]
    /\ proc' = [proc EXCEPT ![f] = 0]
    /\ pipe' = [pipe EXCEPT ![f] = 0]

Terminated(f) == alive' = [alive EXCEPT ![f] = @ \ {proc[f]}]

-----------------------------------------------------------------------------
(* Environment: processes, time, warmup connections, the pool              *)

WorkerExits(f) ==
    /\ \E g \in alive[f] : alive' = [alive EXCEPT ![f] = @ \ {g}]
    /\ UNCHANGED <<st, proc, pipe, gen, backoff, idle, warm, poolVars, callerVars, stopVars>>

BackoffExpires(f) ==
    /\ st[f] = "Crashed" /\ backoff[f]
    /\ backoff' = [backoff EXCEPT ![f] = FALSE]
    /\ UNCHANGED <<st, proc, pipe, gen, alive, idle, warm, poolVars, callerVars, stopVars>>

IdleElapses(f) ==
    /\ st[f] = "Ready" /\ ~idle[f]
    /\ idle' = [idle EXCEPT ![f] = TRUE]
    /\ UNCHANGED <<st, proc, pipe, gen, alive, backoff, warm, poolVars, callerVars, stopVars>>

\* RegisterWarmupConnection
WarmHold(m) ==
    /\ MuFree /\ warm[m] < MaxWarm
    /\ warm' = [warm EXCEPT ![m] = @ + 1]
    /\ UNCHANGED <<st, proc, pipe, gen, alive, backoff, idle, poolVars, callerVars, stopVars>>

\* mutant: an unbalanced release is not ignored
WarmReleaseUnbalanced(m) ==
    /\ MuFree
    /\ warm' = [warm EXCEPT ![m] = @ - 1]
    /\ UNCHANGED <<st, proc, pipe, gen, alive, backoff, idle, poolVars, callerVars, stopVars>>

\* UnregisterWarmupConnection: the last hold gives the idle clock a fresh start
WarmRelease(m) ==
    /\ MuFree /\ warm[m] > 0
    /\ warm' = [warm EXCEPT ![m] = @ - 1]
    /\ idle' = IF warm[m] = 1 THEN [idle EXCEPT ![m] = FALSE] ELSE idle
    /\ UNCHANGED <<st, proc, pipe, gen, alive, backoff, poolVars, callerVars, stopVars>>

\* TranslatePoolEnsure of an id without an entry (RegisterFamily included)
PoolEnsure(m) ==
    /\ MuFree /\ ~down /\ m \notin pool
    /\ pool' = pool \cup {m}
    /\ UNCHANGED <<handles, charged, reserved, relayed, callerVars, stopVars>>

-----------------------------------------------------------------------------
(* EnsureSpawned                                                           *)

\* mutant: a respawn out of Stopping (before REQ-060)
SpawnableWhileStopping(c, f) ==
    /\ MuFree /\ MayUse(c, f)
    /\ st[f] \in {"Stopped", "Stopping"} \/ (st[f] = "Crashed" /\ ~backoff[f])

\* Past the early returns: not serving, stopping or unavailable, no backoff.
Spawnable(c, f) ==
    /\ MuFree /\ MayUse(c, f)
    /\ st[f] = "Stopped" \/ (st[f] = "Crashed" /\ ~backoff[f])

EnsureNoExe(c, f) ==
    /\ Spawnable(c, f) /\ f \notin Deployed
    /\ st' = [st EXCEPT ![f] = "Unavailable"]
    /\ UNCHANGED <<proc, pipe, gen, alive, backoff, idle, warm, poolVars, callerVars, stopVars>>

\* Token, security descriptor or CreateNamedPipe failed: no process was
\* touched yet.
EnsureNoPipe(c, f) ==
    /\ Spawnable(c, f) /\ f \in Deployed
    /\ st' = [st EXCEPT ![f] = "Crashed"]
    /\ pipe' = [pipe EXCEPT ![f] = 0]
    /\ backoff' = [backoff EXCEPT ![f] = TRUE]
    /\ UNCHANGED <<proc, gen, alive, idle, warm, poolVars, callerVars, stopVars>>

\* mutant: the launch keeps the old relay snapshot
ClearRelayForgotten(f) == UNCHANGED relayed

ClearRelay(f) == relayed' = IF f \in pool THEN [relayed EXCEPT ![f] = 0] ELSE relayed

\* spawn_fn failed, after the old handles and the relay snapshot were cleared
EnsureSpawnFails(c, f) ==
    /\ Spawnable(c, f) /\ f \in Deployed
    /\ Finalize(f, "Crashed")
    /\ backoff' = [backoff EXCEPT ![f] = TRUE]
    /\ ClearRelay(f)
    /\ UNCHANGED <<gen, alive, idle, warm, pool, charged, reserved, callerVars, stopVars>>

EnsureLaunch(c, f) ==
    /\ Spawnable(c, f) /\ f \in Deployed
    /\ gen[f] < MaxGen
    /\ gen' = [gen EXCEPT ![f] = @ + 1]
    /\ st' = [st EXCEPT ![f] = "Spawning"]
    /\ proc' = [proc EXCEPT ![f] = gen'[f]]
    /\ pipe' = [pipe EXCEPT ![f] = gen'[f]]
    /\ alive' = [alive EXCEPT ![f] = @ \cup {gen'[f]}]
    /\ idle' = [idle EXCEPT ![f] = FALSE]
    /\ ClearRelay(f)
    /\ mu' = c /\ muFam' = f
    /\ tainted' = [tainted EXCEPT ![f] = FALSE]
    /\ UNCHANGED <<backoff, warm, pool, charged, reserved, own, acq, saw, stopVars>>

HandshakeEnds(c) == mu = c /\ mu' = NoCaller /\ muFam' = NoFam

\* mutant: every Ready charges, also a respawn of a charged entry
HandshakeReadyDoubleCharge(c) ==
    LET f == muFam
    IN  /\ HandshakeEnds(c) /\ f \in pool
        /\ alive[f] = {proc[f]}
        /\ st' = [st EXCEPT ![f] = "Ready"]
        /\ charged' = [charged EXCEPT ![f] = Bytes[f]]
        /\ reserved' = reserved + Bytes[f]
        /\ UNCHANGED <<proc, pipe, gen, alive, backoff, idle, warm, pool, relayed,
                       own, acq, saw, tainted, stopVars>>

\* The worker's own per-family mutex lets only the sole process announce.
HandshakeReady(c) ==
    LET f == muFam  charge == f \in pool /\ charged[f] = 0
    IN  /\ HandshakeEnds(c)
        /\ alive[f] = {proc[f]}
        /\ st' = [st EXCEPT ![f] = "Ready"]
        /\ idle' = [idle EXCEPT ![f] = FALSE]
        /\ charged' = IF charge THEN [charged EXCEPT ![f] = Bytes[f]] ELSE charged
        /\ reserved' = IF charge THEN reserved + Bytes[f] ELSE reserved
        /\ UNCHANGED <<proc, pipe, gen, alive, backoff, warm, pool, relayed,
                       own, acq, saw, tainted, stopVars>>

\* The worker never connected: killed, backoff.
HandshakeNoConnect(c) ==
    /\ HandshakeEnds(c)
    /\ Finalize(muFam, "Crashed") /\ Terminated(muFam)
    /\ backoff' = [backoff EXCEPT ![muFam] = TRUE]
    /\ UNCHANGED <<gen, idle, warm, poolVars, own, acq, saw, tainted, stopVars>>

\* Token or manifest mismatch: a wrong deployment, killed, no respawn.
HandshakeRejected(c) ==
    /\ HandshakeEnds(c)
    /\ Finalize(muFam, "Unavailable") /\ Terminated(muFam)
    /\ UNCHANGED <<gen, backoff, idle, warm, poolVars, own, acq, saw, tainted, stopVars>>

\* No readable announce: the handles are closed and the process is NOT killed.
HandshakeUnreadable(c) ==
    /\ HandshakeEnds(c)
    /\ Finalize(muFam, "Crashed")
    /\ backoff' = [backoff EXCEPT ![muFam] = TRUE]
    /\ UNCHANGED <<gen, alive, idle, warm, poolVars, own, acq, saw, tainted, stopVars>>

-----------------------------------------------------------------------------
(* The callers' other operations                                           *)

\* mutant: SetBusy(true), which an already Busy family let through
TrySetBusyUnchecked(c, m) ==
    /\ MuFree /\ ~down /\ own[c] = NoFam
    /\ Serving(m)
    /\ st' = [st EXCEPT ![m] = "Busy"]
    /\ own' = [own EXCEPT ![c] = m]
    /\ acq' = [acq EXCEPT ![c] = proc[m]]
    /\ UNCHANGED <<proc, pipe, gen, alive, backoff, idle, warm, poolVars, mu, muFam, saw, tainted, stopVars>>

TrySetBusy(c, m) ==
    /\ MuFree /\ ~down /\ own[c] = NoFam
    /\ st[m] = "Ready"
    /\ st' = [st EXCEPT ![m] = "Busy"]
    /\ idle' = [idle EXCEPT ![m] = FALSE]
    /\ own' = [own EXCEPT ![c] = m]
    /\ acq' = [acq EXCEPT ![c] = proc[m]]
    /\ UNCHANGED <<proc, pipe, gen, alive, backoff, warm, poolVars, mu, muFam, saw, tainted, stopVars>>

\* mutant: an exit path that forgets SetBusy(false)
ReleaseForgotten(c) ==
    /\ own[c] # NoFam
    /\ own' = [own EXCEPT ![c] = NoFam]
    /\ acq' = [acq EXCEPT ![c] = 0]
    /\ UNCHANGED <<handles, poolVars, mu, muFam, saw, tainted, stopVars>>

\* SetBusy(family, false): it flips whatever launch is Busy, also one that
\* this caller did not acquire.
Release(c) ==
    LET m == own[c]
    IN  /\ MuFree /\ m # NoFam /\ saw[c] = {}
        /\ st' = IF st[m] = "Busy" THEN [st EXCEPT ![m] = "Ready"] ELSE st
        /\ idle' = IF st[m] = "Busy" THEN [idle EXCEPT ![m] = FALSE] ELSE idle
        /\ tainted' = [tainted EXCEPT ![m] = @ \/ (st[m] = "Busy" /\ acq[c] # proc[m])]
        /\ own' = [own EXCEPT ![c] = NoFam]
        /\ acq' = [acq EXCEPT ![c] = 0]
        /\ UNCHANGED <<proc, pipe, gen, alive, backoff, warm, poolVars, mu, muFam, saw, stopVars>>

\* TranslatePoolMarkRelayed(pin, w->process), the argument: w->process is read
\* without any lock
ReadHandle(c) ==
    /\ own[c] # NoFam /\ saw[c] = {}
    /\ saw' = [saw EXCEPT ![c] = {proc[own[c]]}]
    /\ UNCHANGED <<handles, poolVars, mu, muFam, own, acq, tainted, stopVars>>

\* ... and the store, under the pool mutex only: whatever became of the launch
MarkRelayed(c) ==
    /\ \E h \in saw[c] : relayed' = [relayed EXCEPT ![own[c]] = h]
    /\ saw' = [saw EXCEPT ![c] = {}]
    /\ UNCHANGED <<handles, pool, charged, reserved, mu, muFam, own, acq, tainted, stopVars>>

MaySend(c, f) ==
    /\ MuFree /\ Serving(f) /\ saw[c] = {}
    /\ IF f = Asr THEN own[c] = NoFam ELSE own[c] = f

\* SendToWorker, write stalled: killed, with backoff
SendStalled(c, f) ==
    /\ MaySend(c, f)
    /\ Terminated(f) /\ Finalize(f, "Crashed")
    /\ backoff' = [backoff EXCEPT ![f] = TRUE]
    /\ ResetAccounting(PoolKey(f))
    /\ UNCHANGED <<gen, idle, warm, callerVars, stopVars>>

\* mutants: a broken pipe marks the family Crashed and leaves the handles to
\* a reaper that skips Crashed families; or it keeps the reserved bytes
SendBrokenKeepsHandles(c, f) ==
    /\ MaySend(c, f)
    /\ st' = [st EXCEPT ![f] = "Crashed"]
    /\ UNCHANGED <<proc, pipe, gen, alive, backoff, idle, warm, poolVars, callerVars, stopVars>>

SendBrokenKeepsCharge(c, f) ==
    /\ MaySend(c, f)
    /\ Terminated(f) /\ Finalize(f, "Crashed")
    /\ UNCHANGED <<gen, backoff, idle, warm, poolVars, callerVars, stopVars>>

\* SendToWorker, pipe broken: killed, without backoff
SendBroken(c, f) ==
    /\ MaySend(c, f)
    /\ Terminated(f) /\ Finalize(f, "Crashed")
    /\ ResetAccounting(PoolKey(f))
    /\ UNCHANGED <<gen, backoff, idle, warm, callerVars, stopVars>>

\* TerminateUnresponsiveWorker, after a give-up settle that expired
TerminateUnresponsive(c) ==
    LET f == own[c]
    IN  /\ MuFree /\ f # NoFam /\ Serving(f) /\ saw[c] = {}
        /\ Terminated(f) /\ Finalize(f, "Crashed")
        /\ backoff' = [backoff EXCEPT ![f] = TRUE]
        /\ ResetAccounting(PoolKey(f))
        /\ UNCHANGED <<gen, idle, warm, callerVars, stopVars>>

-----------------------------------------------------------------------------
(* The reaper, GracefulStop and ShutdownAll                                *)

Exited(f) == (Serving(f) \/ st[f] = "Spawning") /\ proc[f] \notin alive[f]

\* ReaperPass, crash loop, one family of it: the exited worker is finalized.
\* The families of one pass are steps of their own, since a process may exit
\* after its family was looked at.
ReaperCrash(f) ==
    /\ MuFree /\ ~down /\ stop.pc = "idle" /\ Exited(f)
    /\ Finalize(f, "Crashed")
    /\ backoff' = [backoff EXCEPT ![f] = TRUE]
    /\ IF f \in Models THEN ResetAccounting(f) ELSE UNCHANGED poolVars
    /\ UNCHANGED <<gen, alive, idle, warm, callerVars, stopVars>>

Evictable == {m \in pool : st[m] = "Ready" /\ idle[m] /\ warm[m] = 0}

\* ReaperPass, collection of the idle families up to the unlock
ReaperCollect ==
    /\ MuFree /\ ~down /\ stop.pc = "idle" /\ Evictable # {}
    /\ cand' = Evictable
    /\ stop' = [Idle EXCEPT !.pc = "pick"]
    /\ UNCHANGED <<handles, poolVars, callerVars, down>>

\* Where the stopping thread goes when it is done with a family
AfterFamily(rest) ==
    stop' = IF rest # {} THEN [Idle EXCEPT !.pc = "pick"]
            ELSE IF down THEN [Idle EXCEPT !.pc = "sweep"] ELSE Idle

\* ... and when GracefulStop returns: an eviction still resets the accounting
AfterStop == IF down THEN AfterFamily(cand) ELSE stop' = [stop EXCEPT !.pc = "reset"]

\* mutant: the claim trusts the collection's snapshot
ReaperClaimUnchecked(m) ==
    /\ MuFree /\ ~down /\ stop.pc = "pick" /\ m \in cand
    /\ pipe[m] # 0
    /\ st' = [st EXCEPT ![m] = "Stopping"]
    /\ cand' = cand \ {m}
    /\ stop' = [Idle EXCEPT !.pc = "snap", !.fam = m]
    /\ UNCHANGED <<proc, pipe, gen, alive, backoff, idle, warm, poolVars, callerVars, down>>

\* The eviction's claim: re-validated under mu, refuses dispatch from here on
ReaperClaim(m) ==
    /\ MuFree /\ ~down /\ stop.pc = "pick" /\ m \in cand
    /\ st[m] = "Ready" /\ warm[m] = 0
    /\ st' = [st EXCEPT ![m] = "Stopping"]
    /\ cand' = cand \ {m}
    /\ stop' = [Idle EXCEPT !.pc = "snap", !.fam = m]
    /\ UNCHANGED <<proc, pipe, gen, alive, backoff, idle, warm, poolVars, callerVars, down>>

ReaperSkip(m) ==
    /\ MuFree /\ ~down /\ stop.pc = "pick" /\ m \in cand
    /\ st[m] # "Ready" \/ warm[m] # 0
    /\ cand' = cand \ {m}
    /\ AfterFamily(cand')
    /\ UNCHANGED <<handles, poolVars, callerVars, down>>

\* ShutdownAll after StopReaper; the dispatchers and kicks are joined, the
\* connection threads are not.
ShutdownBegin ==
    /\ MuFree /\ ~down /\ stop.pc = "idle"
    /\ \A c \in Callers : own[c] = NoFam
    /\ down' = TRUE
    /\ cand' = {f \in Families : Serving(f) \/ st[f] = "Spawning"}
    /\ stop' = [Idle EXCEPT !.pc = IF cand' = {} THEN "sweep" ELSE "pick"]
    /\ UNCHANGED <<handles, poolVars, callerVars>>

ShutdownNext(f) ==
    /\ down /\ stop.pc = "pick" /\ f \in cand
    /\ cand' = cand \ {f}
    /\ stop' = [Idle EXCEPT !.pc = "snap", !.fam = f]
    /\ UNCHANGED <<handles, poolVars, callerVars, down>>

\* GracefulStop, first hold of mu: handle copies, and Stopping unless the
\* family is no longer serving
StopSnapshot ==
    LET f == stop.fam
    IN  /\ MuFree /\ stop.pc = "snap" /\ pipe[f] # 0
        /\ st' = IF Serving(f) \/ st[f] = "Spawning" THEN [st EXCEPT ![f] = "Stopping"] ELSE st
        /\ stop' = [stop EXCEPT !.pc = "wait", !.pipe = pipe[f], !.proc = proc[f]]
        /\ UNCHANGED <<proc, pipe, gen, alive, backoff, idle, warm, poolVars, callerVars, cand, down>>

\* GracefulStop of a family whose pipe is already gone
StopNothing ==
    LET f == stop.fam
    IN  /\ MuFree /\ stop.pc = "snap" /\ pipe[f] = 0
        /\ st' = IF st[f] \in {"Spawning", "Ready", "Busy", "Stopping"}
                 THEN [st EXCEPT ![f] = "Stopped"] ELSE st
        /\ proc' = [proc EXCEPT ![f] = 0]
        /\ AfterStop
        /\ UNCHANGED <<pipe, gen, alive, backoff, idle, warm, poolVars, callerVars, cand, down>>

\* mutant: the end of the wait is taken for the end of the worker
StopWaitNoKill ==
    /\ stop.pc = "wait"
    /\ stop' = [stop EXCEPT !.pc = "publish"]
    /\ UNCHANGED <<handles, poolVars, callerVars, cand, down>>

\* The unlocked part: the worker acknowledges, exits, or is terminated
StopWait ==
    /\ stop.pc = "wait"
    /\ alive' = [alive EXCEPT ![stop.fam] = @ \ {stop.proc}]
    /\ stop' = [stop EXCEPT !.pc = "publish"]
    /\ UNCHANGED <<st, proc, pipe, gen, backoff, idle, warm, poolVars, callerVars, cand, down>>

\* mutant: the last hold forgets to publish Stopped
StopPublishForgotten ==
    LET f == stop.fam
    IN  /\ MuFree /\ stop.pc = "publish"
        /\ proc' = IF proc[f] = stop.proc THEN [proc EXCEPT ![f] = 0] ELSE proc
        /\ pipe' = [pipe EXCEPT ![f] = 0]
        /\ AfterStop
        /\ UNCHANGED <<st, gen, alive, backoff, idle, warm, poolVars, callerVars, cand, down>>

\* GracefulStop, last hold of mu
StopPublish ==
    LET f == stop.fam
    IN  /\ MuFree /\ stop.pc = "publish"
        /\ st' = IF st[f] = "Stopping" THEN [st EXCEPT ![f] = "Stopped"] ELSE st
        /\ proc' = IF proc[f] = stop.proc THEN [proc EXCEPT ![f] = 0] ELSE proc
        /\ pipe' = [pipe EXCEPT ![f] = 0]
        /\ AfterStop
        /\ UNCHANGED <<gen, alive, backoff, idle, warm, poolVars, callerVars, cand, down>>

\* The eviction's ResetTranslatePoolAccounting: pool mutex only, after Stopped
\* was published
EvictReset ==
    /\ stop.pc = "reset"
    /\ ResetAccounting(stop.fam)
    /\ AfterFamily(cand)
    /\ UNCHANGED <<handles, callerVars, cand, down>>

\* ShutdownAll's orphan guard
ShutdownSweep ==
    /\ MuFree /\ stop.pc = "sweep"
    /\ st' = [f \in Families |-> "Stopped"]
    /\ proc' = [f \in Families |-> 0] /\ pipe' = [f \in Families |-> 0]
    /\ alive' = [f \in Families |-> alive[f] \ {proc[f]}]
    /\ stop' = [Idle EXCEPT !.pc = "end"]
    /\ UNCHANGED <<gen, backoff, idle, warm, poolVars, callerVars, cand, down>>

-----------------------------------------------------------------------------
Ensure(c, f) ==
    \/ EnsureNoExe(c, f) \/ EnsureNoPipe(c, f)
    \/ EnsureSpawnFails(c, f) \/ EnsureLaunch(c, f)

Handshake(c) ==
    \/ HandshakeReady(c) \/ HandshakeNoConnect(c)
    \/ HandshakeRejected(c) \/ HandshakeUnreadable(c)

Environment(f) == WorkerExits(f) \/ BackoffExpires(f)

Family(m) ==
    \/ IdleElapses(m) \/ WarmHold(m) \/ WarmRelease(m) \/ PoolEnsure(m)
    \/ ReaperClaim(m) \/ ReaperSkip(m)

Caller(c) ==
    \/ Release(c) \/ ReadHandle(c) \/ MarkRelayed(c) \/ TerminateUnresponsive(c)
    \/ \E m \in Models : TrySetBusy(c, m)
    \/ \E f \in Families : Ensure(c, f) \/ SendStalled(c, f) \/ SendBroken(c, f)
    \/ Handshake(c)

Stopper == StopSnapshot \/ StopNothing \/ StopWait \/ StopPublish \/ EvictReset

Shutdown == ShutdownBegin \/ ShutdownSweep \/ \E f \in Families : ShutdownNext(f)

Next ==
    \/ \E c \in Callers : Caller(c)
    \/ \E f \in Families : Environment(f)
    \/ \E m \in Models : Family(m)
    \/ \E f \in Families : ReaperCrash(f)
    \/ ReaperCollect \/ Stopper \/ Shutdown

Spec == Init /\ [][Next]_vars

\* The stopping thread's next step, without mu and with it
StopUnlocked == StopWait \/ EvictReset \/ \E f \in Families : ShutdownNext(f)
StopLocked ==
    \/ StopSnapshot \/ StopNothing \/ StopPublish \/ ShutdownSweep
    \/ \E m \in Models : ReaperClaim(m) \/ ReaperSkip(m)

\* The stopping thread never gives up, the handshake is bounded by its two
\* timeouts, and a thread that waits for mu gets it in the end.
Fairness ==
    /\ WF_vars(StopUnlocked) /\ SF_vars(StopLocked)
    /\ WF_vars(\E c \in Callers : Handshake(c))

FairSpec == Spec /\ Fairness

-----------------------------------------------------------------------------
(* Properties                                                              *)

\* A serving family's two handles name its latest launch, and a family that
\* is down holds no handle at all: no path of the manager leaks a handle,
\* mixes two launches, or leaves the pipe closed under a serving state (the
\* reaper's heartbeat branch, which asks for that, can never be taken).
HandlesMatchState ==
    \A f \in Families :
        /\ st[f] \in {"Spawning", "Ready", "Busy", "Stopping"} =>
               proc[f] = gen[f] /\ pipe[f] = gen[f] /\ gen[f] # 0
        /\ st[f] \in {"Crashed", "Stopped", "Unavailable"} => proc[f] = 0 /\ pipe[f] = 0

\* GracefulStop works without mu on copies of the handles: from its snapshot
\* to its last hold the family stays Stopping and the copies stay current, so
\* it can neither signal nor close a process launched after the snapshot.
StopSnapshotIsCurrent ==
    stop.pc \in {"wait", "publish"} =>
        /\ st[stop.fam] = "Stopping"
        /\ stop.proc = proc[stop.fam] /\ stop.pipe = pipe[stop.fam]

\* A Busy family always has an owner that acquired this very launch and has
\* still to release it: Busy is never leaked.
BusyIsOwned ==
    \A m \in Models : st[m] = "Busy" =>
        \E c \in Callers : own[c] = m /\ acq[c] = proc[m]

Owners(m) == {c \in Callers : own[c] = m /\ acq[c] = proc[m] /\ proc[m] # 0}

\* Single flight as far as the code keeps it: two callers own one launch only
\* after a caller of an earlier launch released it over their heads.
SingleFlight ==
    \A m \in Models : \A c, d \in Owners(m) : c = d \/ tainted[m]

\* Single flight as host_v2_worker_manager.hpp:381-389 states it.
SingleFlightAlways == \A m \in Models : \A c, d \in Owners(m) : c = d

\* The idle eviction never stops a launch a caller still owns (again unless a
\* foreign release made the family look free).
EvictionSparesJobs ==
    ~down /\ stop.pc \in {"snap", "wait", "publish"} =>
        Owners(stop.fam) = {} \/ tainted[stop.fam]

\* The bytes the entries hold: as many members of each model as it was charged.
ChargedBytes == UNION {{m} \X (1 .. charged[m]) : m \in Models}

\* The reserved total is the sum of the entries' contributions, whatever
\* order crashes, kills, evictions and respawns come in: it cannot drift.
TrackerIsSum == reserved = Cardinality(ChargedBytes)

\* No dead worker stays charged, except for the moment between the eviction's
\* Stopped and its reset.
NoDeadCharge ==
    \A m \in Models : charged[m] # 0 =>
        st[m] \in {"Ready", "Busy", "Stopping"} \/ (stop.pc = "reset" /\ stop.fam = m) \/ down

\* A launch starts without a relay mark, and a mark of an earlier launch comes
\* to stand on it only by a caller whose own launch was replaced while it held
\* the family: no other path, whatever handle value Windows hands out again,
\* makes a fresh worker look relayed.
StaleMarkIsOvertaken ==
    [][\A m \in Models : proc'[m] # 0 /\ relayed'[m] \notin {0, proc'[m]} =>
           \/ relayed'[m] = relayed[m] /\ proc'[m] = proc[m]
           \/ \E c \in Callers : own[c] = m /\ acq[c] # proc[m]]_vars

\* A relay mark never names an earlier launch than the one that serves
\* (host_v2_worker_manager.cpp:1275-1277).
RelayNamesServingLaunch ==
    \A m \in Models : Serving(m) /\ relayed[m] # 0 => relayed[m] = proc[m]

\* While the family serves, its model bytes are in the tracker
\* (host_v2_worker_manager.cpp:491-494).
RunningIsCharged == \A m \in Models : Serving(m) => charged[m] = Bytes[m]

\* A wrong deployment is never respawned: Unavailable is left for Stopped at
\* shutdown only.
UnavailableIsFinal ==
    [][\A f \in Families : st[f] = "Unavailable" =>
           st'[f] = "Unavailable" \/ stop'.pc = "end"]_vars

\* A process handle is closed only once its process has ended, on every path of
\* crash, kill, eviction, stop and shutdown, the stop's unlocked copies included:
\* no worker runs on with a model in memory that the manager has lost. The one
\* exception is a launch whose announce cannot be read.
DroppedIsDead ==
    [][\A f \in Families : proc[f] # 0 /\ proc'[f] # proc[f] =>
           \/ proc[f] \notin alive'[f]
           \/ st[f] = "Spawning" /\ st'[f] = "Crashed"]_vars

\* Crashes of the speech family never move the translate pool's accounting or
\* relay snapshots (host_v2_worker_manager.cpp:491-492, "ASR NEVER counted").
AsrLeavesPoolAlone ==
    [][st'[Asr] # st[Asr] => \A m \in Models :
           charged'[m] = charged[m] /\ relayed'[m] = relayed[m]]_vars

\* Every graceful stop comes to an end, and so does the shutdown.
StoppingEnds == \A f \in Families : st[f] = "Stopping" ~> st[f] # "Stopping"
ShutdownEnds == down ~> stop.pc = "end"
StopsEnd == StoppingEnds /\ ShutdownEnds
=============================================================================
