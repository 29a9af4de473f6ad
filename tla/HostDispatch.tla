---------------------------- MODULE HostDispatch ----------------------------
(***************************************************************************)
(* The translate path of the engine host (host_main.cpp): the v1 and the   *)
(* v2 dispatcher and the warmup kicks drive the worker pipes of the        *)
(* translate families, and share one CurrentJob record (g_current) and one *)
(* abort flag (g_abort) with the cancel operation and the watchdog.        *)
(*                                                                         *)
(* The two dispatcher loops are the same sequence of steps, so they are    *)
(* one set of actions of a thread t; where they differ the profile is      *)
(* named.  WorkerManager details that do not matter here are folded into   *)
(* st: a family is Stopped, Ready, Busy or Crashed, and gen numbers its    *)
(* launches.  The worker is its running job, its one queued command and    *)
(* its cancel flag.  pipe holds the terminal events not read yet;          *)
(* heartbeats and progress are consumed without effect and left out.       *)
(***************************************************************************)
EXTENDS Naturals, Sequences, FiniteSets

CONSTANTS Jobs, Families,
          Target,    \* job -> the family its pin resolves to
          By,        \* job -> the thread that takes it
          V1, V2, Kick, \* the threads; a job of Kick is a warmup preload
          NoJob,
          Impatient, \* bound: jobs whose deadline may pass or client may cancel
          MaxGen,    \* bound: launches per family
          MaxDeaths  \* bound: worker deaths

Threads == {V1, V2, Kick}
ASSUME JobsAssumption == NoJob \notin Jobs /\ Target \in [Jobs -> Families] /\ By \in [Jobs -> Threads]
ASSUME BoundsAssumption == MaxGen \in Nat /\ MaxDeaths \in Nat /\ Impatient \subseteq Jobs /\ Cardinality(Threads) = 3

VARIABLES
    st, gen, alive,        \* manager: state, launches, the process runs
    mark,                  \* relayed_worker_process: the launch it names, 0 = none
    told,                  \* its session_open: "no", "asked" (sent, not opened), "yes"
    run, slot, cancel,     \* worker: running job, queued job, g_cancel
    pipe,                  \* worker to host: terminal events [job, kind]
    pc, job, res, on,      \* threads: program point, job, answer to send, launch
                           \* whose pipe it reads or whose handle it is to mark
    cur,                   \* g_current: [job, done]
    abort,                 \* g_abort
    late, cancelled,       \* jobs past their deadline; cancelled by their client
    answer,                \* job -> what its client was sent
    deaths, down           \* worker deaths so far; g_shutdown

manager == <<st, gen, alive, mark>>
worker == <<told, run, slot, cancel, pipe>>
threads == <<pc, job, res, on>>
shared == <<cur, abort>>
client == <<late, cancelled, answer>>
env == <<deaths, down>>
vars == <<manager, worker, threads, shared, client, env>>

Pcs == {"idle", "ensure", "acquire", "drain", "relay", "await", "hear", "mark", "store", "clear", "publish",
        "send", "wait", "read", "giveup", "settle", "answer", "done", "release"}
Frame == [job : Jobs, kind : {"final", "error"}]
Statuses == {"none", "Ok", "Failed", "Timeout", "Busy"}
Result == [from : Jobs \cup {NoJob}, status : Statuses, answered : BOOLEAN]
None == [from |-> NoJob, status |-> "none", answered |-> FALSE]
F(t) == Target[job[t]]
Serving(f) == st[f] \in {"Ready", "Busy"}

TypeOK ==
    /\ st \in [Families -> {"Stopped", "Ready", "Busy", "Crashed"}]
    /\ gen \in [Families -> 0 .. MaxGen] /\ alive \in [Families -> BOOLEAN]
    /\ mark \in [Families -> 0 .. MaxGen] /\ told \in [Families -> {"no", "asked", "yes"}]
    /\ run \in [Families -> Jobs \cup {NoJob}] /\ slot \in [Families -> Jobs \cup {NoJob}]
    /\ cancel \in [Families -> BOOLEAN] /\ pipe \in [Families -> Seq(Frame)]
    /\ pc \in [Threads -> Pcs] /\ job \in [Threads -> Jobs \cup {NoJob}]
    /\ res \in [Threads -> Result] /\ on \in [Threads -> 0 .. MaxGen]
    /\ cur \in [job : Jobs \cup {NoJob}, done : BOOLEAN] /\ abort \in BOOLEAN
    /\ late \subseteq Jobs /\ cancelled \subseteq Jobs
    /\ answer \in [Jobs -> Result]
    /\ deaths \in 0 .. MaxDeaths /\ down \in BOOLEAN

Init ==
    /\ st = [f \in Families |-> "Stopped"] /\ gen = [f \in Families |-> 0]
    /\ alive = [f \in Families |-> FALSE] /\ mark = [f \in Families |-> 0]
    /\ told = [f \in Families |-> "no"]
    /\ run = [f \in Families |-> NoJob] /\ slot = [f \in Families |-> NoJob]
    /\ cancel = [f \in Families |-> FALSE] /\ pipe = [f \in Families |-> <<>>]
    /\ pc = [t \in Threads |-> "idle"] /\ job = [t \in Threads |-> NoJob]
    /\ res = [t \in Threads |-> None] /\ on = [t \in Threads |-> 0]
    /\ cur = [job |-> NoJob, done |-> TRUE] /\ abort = FALSE
    /\ late = {} /\ cancelled = {} /\ answer = [j \in Jobs |-> None]
    /\ deaths = 0 /\ down = FALSE

-----------------------------------------------------------------------------
(* Worker and time                                                         *)

\* The inference thread opens the model a relay asked for. A preload may take
\* it for ever, while the reader thread goes on with its heartbeats.
WorkerOpens(f) ==
    /\ alive[f] /\ run[f] = NoJob /\ told[f] = "asked"
    /\ told' = [told EXCEPT ![f] = "yes"]
    /\ UNCHANGED <<manager, run, slot, cancel, pipe, threads, shared, client, env>>

\* It takes the queued job and clears a stale cancel
WorkerTakes(f) ==
    /\ alive[f] /\ run[f] = NoJob /\ told[f] # "asked" /\ slot[f] # NoJob
    /\ run' = [run EXCEPT ![f] = slot[f]]
    /\ slot' = [slot EXCEPT ![f] = NoJob]
    /\ cancel' = [cancel EXCEPT ![f] = FALSE]
    /\ UNCHANGED <<manager, told, pipe, threads, shared, client, env>>

\* One terminal event per job: error once cancelled, else final or error
WorkerAnswers(f) ==
    /\ alive[f] /\ run[f] # NoJob
    /\ \E kind \in IF cancel[f] THEN {"error"} ELSE {"final", "error"} :
          pipe' = [pipe EXCEPT ![f] = Append(@, [job |-> run[f], kind |-> kind])]
    /\ run' = [run EXCEPT ![f] = NoJob]
    /\ UNCHANGED <<manager, told, slot, cancel, threads, shared, client, env>>

\* The process dies; what it wrote stays readable until the pipe is closed
WorkerDies(f) ==
    /\ alive[f] /\ deaths < MaxDeaths
    /\ alive' = [alive EXCEPT ![f] = FALSE]
    /\ run' = [run EXCEPT ![f] = NoJob] /\ slot' = [slot EXCEPT ![f] = NoJob]
    /\ deaths' = deaths + 1
    /\ UNCHANGED <<st, gen, mark, told, cancel, pipe, threads, shared, client, down>>

\* The reaper finalizes a dead worker; the handles and the pipe are closed
Reap(f) ==
    /\ Serving(f) /\ ~alive[f]
    /\ st' = [st EXCEPT ![f] = "Crashed"]
    /\ pipe' = [pipe EXCEPT ![f] = <<>>]
    /\ mark' = [mark EXCEPT ![f] = 0]
    /\ UNCHANGED <<gen, alive, told, run, slot, cancel, threads, shared, client, env>>

DeadlinePasses(j) ==
    /\ \E t \in Threads : job[t] = j /\ pc[t] \in {"wait", "read"}
    /\ j \notin late
    /\ late' = late \cup {j}
    /\ UNCHANGED <<manager, worker, threads, shared, cancelled, answer, env>>

Watchdog ==
    /\ ~down /\ ~cur.done /\ cur.job \in late /\ ~abort
    /\ abort' = TRUE
    /\ UNCHANGED <<manager, worker, threads, cur, client, env>>

\* The cancel operation; a job that is not the published one is ignored
Cancel(j) ==
    /\ ~cur.done /\ cur.job = j
    /\ abort' = TRUE /\ cancelled' = cancelled \cup {j}
    /\ UNCHANGED <<manager, worker, threads, cur, late, answer, env>>

Shutdown ==
    /\ ~down /\ down' = TRUE
    /\ UNCHANGED <<manager, worker, threads, shared, client, deaths>>

-----------------------------------------------------------------------------
(* Thread steps up to the job frame                                        *)

At(t, p) == pc[t] = p
Goto(t, p) == pc' = [pc EXCEPT ![t] = p]

Take(t, j) ==
    /\ At(t, "idle") /\ By[j] = t /\ answer[j] = None /\ (down => t = V2)
    /\ \A u \in Threads : job[u] # j
    /\ job' = [job EXCEPT ![t] = j]
    /\ Goto(t, "ensure")
    /\ UNCHANGED <<manager, worker, res, on, shared, client, env>>

\* An early answer: no model file, no pool entry, not spawnable, or busy
Refuse(t, status) ==
    /\ answer' = [answer EXCEPT ![job[t]] =
                     [from |-> NoJob, status |-> status, answered |-> TRUE]]
    /\ job' = [job EXCEPT ![t] = NoJob]
    /\ Goto(t, "idle")
    /\ UNCHANGED <<manager, worker, res, on, shared, late, cancelled, env>>

\* EnsureSpawned of a family that does not serve: a fresh process
Launch(f) ==
    /\ ~Serving(f) /\ gen[f] < MaxGen
    /\ st' = [st EXCEPT ![f] = "Ready"]
    /\ gen' = [gen EXCEPT ![f] = @ + 1]
    /\ alive' = [alive EXCEPT ![f] = TRUE]
    /\ mark' = [mark EXCEPT ![f] = 0]
    /\ told' = [told EXCEPT ![f] = "no"]
    /\ run' = [run EXCEPT ![f] = NoJob] /\ slot' = [slot EXCEPT ![f] = NoJob]
    /\ cancel' = [cancel EXCEPT ![f] = FALSE]
    /\ pipe' = [pipe EXCEPT ![f] = <<>>]

EnsureServing(t) ==
    /\ At(t, "ensure") /\ Serving(F(t))
    /\ Goto(t, "acquire")
    /\ UNCHANGED <<manager, worker, job, res, on, shared, client, env>>

EnsureLaunches(t) ==
    /\ At(t, "ensure") /\ Launch(F(t))
    /\ Goto(t, "acquire")
    /\ UNCHANGED <<job, res, on, shared, client, env>>

EnsureFails(t) == At(t, "ensure") /\ ~Serving(F(t)) /\ Refuse(t, "Failed")

\* mutant: SetBusy(true), a no-op on a Busy family, instead of TrySetBusy
AcquireUnchecked(t) ==
    /\ At(t, "acquire") /\ Serving(F(t))
    /\ st' = [st EXCEPT ![F(t)] = "Busy"]
    /\ Goto(t, IF t = Kick THEN "relay" ELSE "drain")
    /\ UNCHANGED <<gen, alive, mark, worker, job, res, on, shared, client, env>>

Acquire(t) ==
    /\ At(t, "acquire") /\ st[F(t)] = "Ready"
    /\ st' = [st EXCEPT ![F(t)] = "Busy"]
    /\ Goto(t, IF t = Kick THEN "relay" ELSE "drain")
    /\ UNCHANGED <<gen, alive, mark, worker, job, res, on, shared, client, env>>

AcquireBusy(t) == At(t, "acquire") /\ st[F(t)] # "Ready" /\ Refuse(t, "Busy")

Drain(t) ==
    /\ At(t, "drain")
    /\ pipe' = [pipe EXCEPT ![F(t)] = <<>>]
    /\ Goto(t, "relay")
    /\ UNCHANGED <<manager, told, run, slot, cancel, job, res, on, shared, client, env>>

AfterRelay(t) == Goto(t, IF t = Kick THEN "release" ELSE "clear")

\* NeedsRelay compares the snapshot with the current process; a kick relays
\* always
RelaySkipped(t) ==
    /\ At(t, "relay") /\ t # Kick /\ mark[F(t)] # 0 /\ mark[F(t)] = gen[F(t)]
    /\ AfterRelay(t)
    /\ UNCHANGED <<manager, worker, job, res, on, shared, client, env>>

RelayNeeded(t) == At(t, "relay") /\ (t = Kick \/ mark[F(t)] = 0 \/ mark[F(t)] # gen[F(t)])

\* session_open is sent; in the worker's one slot it replaces what was queued
RelaySent(t) ==
    /\ RelayNeeded(t) /\ Serving(F(t)) /\ alive[F(t)]
    /\ told' = [told EXCEPT ![F(t)] = IF @ = "no" THEN "asked" ELSE @]
    /\ slot' = [slot EXCEPT ![F(t)] = NoJob]
    /\ Goto(t, "await")
    /\ UNCHANGED <<manager, run, cancel, pipe, job, res, on, shared, client, env>>

\* A broken pipe finalizes the family as Crashed; a family that no longer
\* serves is left alone
SendBreaks(f) ==
    IF Serving(f)
    THEN /\ st' = [st EXCEPT ![f] = "Crashed"]
         /\ mark' = [mark EXCEPT ![f] = 0]
         /\ pipe' = [pipe EXCEPT ![f] = <<>>]
    ELSE UNCHANGED <<st, mark, pipe>>

RelayBreaks(t) ==
    /\ RelayNeeded(t) /\ ~(Serving(F(t)) /\ alive[F(t)])
    /\ SendBreaks(F(t))
    /\ AfterRelay(t)
    /\ UNCHANGED <<gen, alive, told, run, slot, cancel, job, res, on, shared, client, env>>

\* The wait for opened: each read looks the family's pipe up anew and has the
\* whole grace again, so it lasts as long as any frame comes in time
RelayReads(t) ==
    /\ At(t, "await") /\ Serving(F(t))
    /\ on' = [on EXCEPT ![t] = gen[F(t)]]
    /\ Goto(t, "hear")
    /\ UNCHANGED <<manager, worker, job, res, shared, client, env>>

RelayLoses(t) ==
    /\ At(t, "await") /\ ~Serving(F(t))
    /\ AfterRelay(t)
    /\ UNCHANGED <<manager, worker, job, res, on, shared, client, env>>

\* The pipe the thread holds is the family's current one, and what it yields
PipeOpen(t) == Serving(F(t)) /\ on[t] = gen[F(t)]
HasFrame(t) == PipeOpen(t) /\ pipe[F(t)] # <<>>
Quiet(t) == PipeOpen(t) /\ pipe[F(t)] = <<>> /\ alive[F(t)]
Broken(t) == ~PipeOpen(t) \/ (pipe[F(t)] = <<>> /\ ~alive[F(t)])

\* opened comes next on the pipe
Opened(t) == PipeOpen(t) /\ told[F(t)] = "yes" /\ run[F(t)] = NoJob

\* A heartbeat, or what an earlier job left
RelayHears(t) ==
    /\ At(t, "hear") /\ PipeOpen(t)
    /\ \/ alive[F(t)] /\ ~Opened(t) /\ UNCHANGED pipe
       \/ HasFrame(t) /\ pipe' = [pipe EXCEPT ![F(t)] = Tail(@)]
    /\ Goto(t, "await")
    /\ UNCHANGED <<manager, told, run, slot, cancel, job, res, on, shared, client, env>>

\* opened: every frame before it was read away
RelayAcked(t) ==
    /\ At(t, "hear") /\ Opened(t)
    /\ pipe' = [pipe EXCEPT ![F(t)] = <<>>]
    /\ Goto(t, "mark")
    /\ UNCHANGED <<manager, told, run, slot, cancel, job, res, on, shared, client, env>>

\* mutant: a relay without acknowledgement is recorded like a good one
RelayFailsMarked(t) ==
    /\ At(t, "hear") /\ ((Quiet(t) /\ ~Opened(t)) \/ Broken(t))
    /\ Goto(t, "mark")
    /\ UNCHANGED <<manager, worker, job, res, on, shared, client, env>>

\* No frame within the grace, or the pipe failed: fall through
RelayFails(t) ==
    /\ At(t, "hear") /\ ((Quiet(t) /\ ~Opened(t)) \/ Broken(t))
    /\ AfterRelay(t)
    /\ UNCHANGED <<manager, worker, job, res, on, shared, client, env>>

\* TranslatePoolMarkRelayed(pin, w->process): the process of now, not of the
\* acknowledgement, read without a lock
ReadHandle(t) ==
    /\ At(t, "mark")
    /\ on' = [on EXCEPT ![t] = IF Serving(F(t)) THEN gen[F(t)] ELSE 0]
    /\ Goto(t, "store")
    /\ UNCHANGED <<manager, worker, job, res, shared, client, env>>

\* ... and stored under the pool mutex
MarkRelayed(t) ==
    /\ At(t, "store")
    /\ mark' = [mark EXCEPT ![F(t)] = on[t]]
    /\ AfterRelay(t)
    /\ UNCHANGED <<st, gen, alive, worker, job, res, on, shared, client, env>>

\* mutant: the abort flag of the previous job is kept
KeepAbort(t) ==
    /\ At(t, "clear")
    /\ Goto(t, "publish")
    /\ UNCHANGED <<manager, worker, job, res, on, shared, client, env>>

ClearAbort(t) ==
    /\ At(t, "clear")
    /\ abort' = FALSE
    /\ Goto(t, "publish")
    /\ UNCHANGED <<manager, worker, job, res, on, cur, client, env>>

Publish(t) ==
    /\ At(t, "publish")
    /\ cur' = [job |-> job[t], done |-> FALSE]
    /\ Goto(t, "send")
    /\ UNCHANGED <<manager, worker, job, res, on, abort, client, env>>

-----------------------------------------------------------------------------
(* The job                                                                 *)

Decide(t, r) == res' = [res EXCEPT ![t] = r] /\ Goto(t, "answer")
Failed(seen) == [from |-> NoJob, status |-> "Failed", answered |-> seen]

\* SendToWorker: the worker's one slot takes the newest command, over a
\* session_open that still waits there
Send(t) ==
    /\ At(t, "send") /\ Serving(F(t)) /\ alive[F(t)]
    /\ slot' = [slot EXCEPT ![F(t)] = job[t]]
    /\ \/ UNCHANGED told
       \/ told[F(t)] = "asked" /\ told' = [told EXCEPT ![F(t)] = "no"]
    /\ Goto(t, "wait")
    /\ UNCHANGED <<manager, run, cancel, pipe, job, res, on, shared, client, env>>

SendFails(t) ==
    /\ At(t, "send") /\ ~(Serving(F(t)) /\ alive[F(t)])
    /\ SendBreaks(F(t))
    /\ Decide(t, Failed(TRUE))
    /\ UNCHANGED <<gen, alive, told, run, slot, cancel, job, on, shared, client, env>>

\* Top of the wait loop. The v1 loop also ends when the shared record says done
WaitEnds(t) ==
    /\ At(t, "wait") /\ (down \/ (t = V1 /\ cur.done))
    /\ Decide(t, Failed(FALSE))
    /\ UNCHANGED <<manager, worker, job, on, shared, client, env>>

Waiting(t) == At(t, "wait") /\ ~down /\ ~(t = V1 /\ cur.done)

\* EnsureSpawned in the loop: the family serves, a dead one is launched again,
\* or it is given up. ReadFromWorker keeps the pipe handle it starts with.
WaitOn(t) ==
    /\ Waiting(t) /\ Serving(F(t))
    /\ on' = [on EXCEPT ![t] = gen[F(t)]]
    /\ Goto(t, "read")
    /\ UNCHANGED <<manager, worker, job, res, shared, client, env>>

WaitLaunches(t) ==
    /\ Waiting(t) /\ Launch(F(t))
    /\ on' = [on EXCEPT ![t] = gen'[F(t)]]
    /\ Goto(t, "read")
    /\ UNCHANGED <<job, res, shared, client, env>>

WaitLoses(t) ==
    /\ Waiting(t) /\ ~Serving(F(t))
    /\ Decide(t, Failed(FALSE))
    /\ UNCHANGED <<manager, worker, job, on, shared, client, env>>

\* The first terminal event read is the answer, whoever's it is
ReadAnswer(t) ==
    LET frame == Head(pipe[F(t)])
    IN  /\ At(t, "read") /\ HasFrame(t)
        /\ pipe' = [pipe EXCEPT ![F(t)] = Tail(@)]
        /\ Decide(t, [from |-> frame.job,
                      status |-> IF frame.kind = "final" THEN "Ok" ELSE "Failed",
                      answered |-> TRUE])
        /\ UNCHANGED <<manager, told, run, slot, cancel, job, on, shared, client, env>>

ReadBroken(t) ==
    /\ At(t, "read") /\ Broken(t)
    /\ Decide(t, Failed(TRUE))
    /\ UNCHANGED <<manager, worker, job, on, shared, client, env>>

\* An empty read slice: the abort flag and the deadline are looked at
ReadNothing(t) ==
    /\ At(t, "read") /\ Quiet(t)
    /\ Goto(t, IF abort \/ job[t] \in late THEN "giveup" ELSE "wait")
    /\ UNCHANGED <<manager, worker, job, res, on, shared, client, env>>

TimedOut == [from |-> NoJob, status |-> "Timeout", answered |-> TRUE]

\* mutant: the timeout answer leaves without the settle
GiveUpNoSettle(t) ==
    /\ At(t, "giveup") /\ Serving(F(t)) /\ alive[F(t)]
    /\ cancel' = [cancel EXCEPT ![F(t)] = @ \/ run[F(t)] # NoJob]
    /\ Decide(t, TimedOut)
    /\ UNCHANGED <<manager, told, run, slot, pipe, job, on, shared, client, env>>

\* Abort frame, which reaches a running job only, and start of the settle
GiveUp(t) ==
    /\ At(t, "giveup") /\ Serving(F(t)) /\ alive[F(t)]
    /\ cancel' = [cancel EXCEPT ![F(t)] = @ \/ run[F(t)] # NoJob]
    /\ on' = [on EXCEPT ![t] = gen[F(t)]]
    /\ Goto(t, "settle")
    /\ UNCHANGED <<manager, told, run, slot, pipe, job, res, shared, client, env>>

\* ... but the worker is gone
GiveUpBroken(t) ==
    /\ At(t, "giveup") /\ ~(Serving(F(t)) /\ alive[F(t)])
    /\ SendBreaks(F(t))
    /\ Decide(t, TimedOut)
    /\ UNCHANGED <<gen, alive, told, run, slot, cancel, job, on, shared, client, env>>

\* SettleWorkerPipe: the next terminal event is discarded
SettleDiscards(t) ==
    /\ At(t, "settle") /\ HasFrame(t)
    /\ pipe' = [pipe EXCEPT ![F(t)] = Tail(@)]
    /\ Decide(t, TimedOut)
    /\ UNCHANGED <<manager, told, run, slot, cancel, job, on, shared, client, env>>

\* ... or the pipe is gone, or the host shuts down
SettleEnds(t) ==
    /\ At(t, "settle") /\ (down \/ Broken(t))
    /\ Decide(t, TimedOut)
    /\ UNCHANGED <<manager, worker, job, on, shared, client, env>>

\* mutant: the settle has no budget
SettleUnbounded(t) == At(t, "settle") /\ Quiet(t) /\ UNCHANGED vars

\* ... or the budget runs out and the worker is terminated
SettleExpires(t) ==
    LET f == F(t)
    IN  /\ At(t, "settle") /\ Quiet(t)
        /\ st' = [st EXCEPT ![f] = "Crashed"]
        /\ alive' = [alive EXCEPT ![f] = FALSE]
        /\ mark' = [mark EXCEPT ![f] = 0]
        /\ run' = [run EXCEPT ![f] = NoJob] /\ slot' = [slot EXCEPT ![f] = NoJob]
        /\ Decide(t, TimedOut)
        /\ UNCHANGED <<gen, told, cancel, pipe, job, on, shared, client, env>>

\* The v1 loop stays silent when it left for the shutdown
Answer(t) ==
    /\ At(t, "answer")
    /\ answer' = IF t = V1 /\ down /\ ~res[t].answered THEN answer
                 ELSE [answer EXCEPT ![job[t]] = [res[t] EXCEPT !.answered = TRUE]]
    /\ res' = [res EXCEPT ![t] = None] /\ on' = [on EXCEPT ![t] = 0]
    /\ late' = late \ {job[t]} /\ cancelled' = cancelled \ {job[t]}
    /\ Goto(t, "done")
    /\ UNCHANGED <<manager, worker, job, shared, env>>

ClearCurrent(t) ==
    /\ At(t, "done")
    /\ cur' = [job |-> NoJob, done |-> TRUE]
    /\ Goto(t, "release")
    /\ UNCHANGED <<manager, worker, job, res, on, abort, client, env>>

\* SetBusy(family, false)
Release(t) ==
    /\ At(t, "release")
    /\ st' = IF st[F(t)] = "Busy" THEN [st EXCEPT ![F(t)] = "Ready"] ELSE st
    /\ answer' = IF t = Kick THEN [answer EXCEPT ![job[t]] = TimedOut] ELSE answer
    /\ job' = [job EXCEPT ![t] = NoJob]
    /\ Goto(t, "idle")
    /\ UNCHANGED <<gen, alive, mark, worker, res, on, shared, late, cancelled, env>>

-----------------------------------------------------------------------------
Prolog(t) ==
    \/ EnsureServing(t) \/ EnsureLaunches(t) \/ EnsureFails(t)
    \/ Acquire(t) \/ AcquireBusy(t) \/ Drain(t)
    \/ RelaySkipped(t) \/ RelaySent(t) \/ RelayBreaks(t) \/ RelayReads(t) \/ RelayLoses(t)
    \/ RelayHears(t) \/ RelayAcked(t) \/ RelayFails(t) \/ ReadHandle(t) \/ MarkRelayed(t)
    \/ ClearAbort(t) \/ Publish(t) \/ Send(t) \/ SendFails(t)

Leaves(t) ==
    \/ WaitEnds(t) \/ WaitLoses(t) \/ WaitOn(t) \/ ReadAnswer(t) \/ ReadBroken(t)
    \/ ReadNothing(t) \/ GiveUp(t) \/ GiveUpBroken(t)
    \/ SettleDiscards(t) \/ SettleEnds(t) \/ SettleExpires(t)
    \/ Answer(t) \/ ClearCurrent(t) \/ Release(t)

Thread(t) == Prolog(t) \/ WaitLaunches(t) \/ Leaves(t) \/ \E j \in Jobs : Take(t, j)

Worker(f) == WorkerOpens(f) \/ WorkerTakes(f) \/ WorkerAnswers(f) \/ WorkerDies(f) \/ Reap(f)

Next ==
    \/ \E t \in Threads : Thread(t)
    \/ \E f \in Families : Worker(f)
    \/ \E j \in Impatient : DeadlinePasses(j) \/ Cancel(j)
    \/ Watchdog \/ Shutdown

Spec == Init /\ [][Next]_vars

\* Threads keep running and deadlines pass; the worker owes nothing.
Fairness ==
    /\ \A t \in Threads : WF_vars(Prolog(t)) /\ WF_vars(Leaves(t))
    /\ \A j \in Impatient : WF_vars(DeadlinePasses(j))

FairSpec == Spec /\ Fairness

-----------------------------------------------------------------------------
(* Properties                                                              *)

\* While a thread reads for its job's terminal event or settles a given-up
\* one, nothing but that job is in its worker or on its pipe. It is what
\* lets both loops take the first terminal event they read for their own.
OnlyOwnJob ==
    \A t \in Threads : pc[t] \in {"read", "settle"} =>
        /\ {run[F(t)], slot[F(t)]} \subseteq {NoJob, job[t]}
        /\ \A k \in DOMAIN pipe[F(t)] : pipe[F(t)][k].job = job[t]

\* A job is given up only if its own deadline passed or its own client
\* cancelled it: the shared abort flag never carries one job's abort
\* over to another.
GiveUpIsOwn == \A t \in Threads : pc[t] = "settle" => job[t] \in late \cup cancelled

\* A family is Busy only as long as some thread is inside its window, so no
\* exit of either loop takes a family out of service.
BusyHasWindow ==
    \A f \in Families : st[f] = "Busy" =>
        \E t \in Threads : job[t] # NoJob /\ F(t) = f /\ pc[t] \notin {"idle", "ensure", "acquire"}

\* The window of a job is exclusive from its start to its end.
WindowIsExclusive == TypeOK /\ OnlyOwnJob /\ BusyHasWindow

\* The wait of a relay comes to an end (host_main.cpp:770, "grace_ms bounds the
\* opened wait").
RelayWait(t) == pc[t] \in {"await", "hear"}
RelayWaitEnds == \A t \in Threads : RelayWait(t) ~> ~RelayWait(t)

\* Every job a thread took is answered, unless the host shuts down or a worker
\* keeps a relay waiting for ever. With a worker that dies, hangs or stays
\* silent the grace, the deadline and the settle's budget bound every wait; with
\* one that does not open its model and goes on beating none does.
TakenIsAnswered ==
    (\A t \in Threads : []<>~RelayWait(t)) =>
        \A j \in Jobs : (\E t \in Threads : job[t] = j) ~> answer[j] # None \/ down

\* A client never gets the text of another client's job
\* (host_main.cpp:1118-1120 and 1493-1497).
Paired == \A j \in Jobs : answer[j].from \in {NoJob, j}

\* The terminal event a settle discards is the given-up job's
\* (host_v2_worker_manager.cpp:1086-1091).
SettleIsOwn ==
    [][\A t \in Threads :
          pc[t] = "settle" /\ pc'[t] = "answer" /\ pipe[F(t)] # <<>> /\ pipe'[F(t)] = Tail(pipe[F(t)]) =>
              Head(pipe[F(t)]).job = job[t]]_vars

\* A launch that is marked as relayed has its model id
\* (host_v2_worker_manager.cpp:1275-1277).
MarkedIsTold == \A f \in Families : alive[f] /\ mark[f] # 0 /\ mark[f] = gen[f] => told[f] = "yes"
=============================================================================
