------------------------- MODULE HostDispatch_proofs -------------------------
(***************************************************************************)
(* Proof about HostDispatch: for any jobs, families, bounds and deaths,    *)
(* what the two dispatchers and the warmup kicks keep when no family is    *)
(* launched inside an open window (Calm), and when V1 and V2 do not        *)
(* publish jobs of different families side by side (OneRecord).  The       *)
(* counterexamples to the host's claims break one or the other: a launch   *)
(* from the wait loop leaves a family Ready that its thread still reads,   *)
(* and one CurrentJob record and one abort flag serve all families.  What  *)
(* needs neither is proved without.                                        *)
(***************************************************************************)
EXTENDS HostDispatch, SequenceTheorems, TLAPS

\* A thread is inside its window from Acquire to Release; its job is the one in
\* g_current, in the loop around the worker's pipe.
InWindow(t) == pc[t] \notin {"idle", "ensure", "acquire"}
Published(t) == pc[t] \in {"send", "wait", "read", "giveup", "settle", "answer", "done"}
Engaged(t) == pc[t] \in {"wait", "read", "giveup", "settle"}

\* A thread holds a job of its own profile, whose family was launched.
Holds(t) ==
    /\ job[t] = NoJob <=> pc[t] = "idle"
    /\ job[t] # NoJob => By[job[t]] = t
    /\ pc[t] \in {"clear", "publish"} \/ Published(t) => t # Kick
    /\ pc[t] \notin {"idle", "ensure"} => gen[F(t)] # 0

\* A family serves as long as its process runs; a dead one has no work, and a
\* family that does not serve has no pipe.
Process(f) ==
    /\ alive[f] => Serving(f)
    /\ ~alive[f] => run[f] = NoJob /\ slot[f] = NoJob
    /\ Serving(f) => gen[f] # 0
    /\ ~Serving(f) => pipe[f] = <<>>

\* What holds whatever the families and launches
Base == TypeOK /\ (\A t \in Threads : Holds(t)) /\ (\A f \in Families : Process(f)) /\ BusyHasWindow

\* A step leaves family f alone, but for its cancel flag.
Same(f) ==
    /\ st'[f] = st[f] /\ gen'[f] = gen[f] /\ alive'[f] = alive[f] /\ mark'[f] = mark[f]
    /\ told'[f] = told[f] /\ run'[f] = run[f] /\ slot'[f] = slot[f] /\ pipe'[f] = pipe[f]

\* A step of thread t changes the locals of t, the family of its job, its own
\* marks of time and, inside its window, g_current.
Local(t) ==
    /\ \A u \in Threads \ {t} :
          pc'[u] = pc[u] /\ job'[u] = job[u] /\ res'[u] = res[u] /\ on'[u] = on[u]
    /\ \A f \in Families : f # F(t) => Same(f)
    /\ abort' => abort
    /\ cur' = cur \/ (InWindow(t) /\ t # Kick)
    /\ late \ {job[t]} \subseteq late' /\ cancelled \ {job[t]} \subseteq cancelled'
    /\ down' = down

\* TypeOK, by what a variable is about
ManagerTypes ==
    /\ st \in [Families -> {"Stopped", "Ready", "Busy", "Crashed"}]
    /\ gen \in [Families -> 0 .. MaxGen] /\ alive \in [Families -> BOOLEAN]
    /\ mark \in [Families -> 0 .. MaxGen]
WorkerTypes ==
    /\ told \in [Families -> {"no", "asked", "yes"}] /\ cancel \in [Families -> BOOLEAN]
    /\ run \in [Families -> Jobs \cup {NoJob}] /\ slot \in [Families -> Jobs \cup {NoJob}]
    /\ pipe \in [Families -> Seq(Frame)]
ThreadTypes ==
    /\ pc \in [Threads -> Pcs] /\ job \in [Threads -> Jobs \cup {NoJob}]
    /\ res \in [Threads -> Result] /\ on \in [Threads -> 0 .. MaxGen]
OtherTypes ==
    /\ cur \in [job : Jobs \cup {NoJob}, done : BOOLEAN] /\ abort \in BOOLEAN
    /\ late \subseteq Jobs /\ cancelled \subseteq Jobs /\ answer \in [Jobs -> Result]
    /\ deaths \in 0 .. MaxDeaths /\ down \in BOOLEAN

LEMMA Types == TypeOK <=> ManagerTypes /\ WorkerTypes /\ ThreadTypes /\ OtherTypes
BY DEF TypeOK, ManagerTypes, WorkerTypes, ThreadTypes, OtherTypes

LEMMA FamilyOf ==
    ASSUME TypeOK, NEW t \in Threads, job[t] # NoJob
    PROVE  job[t] \in Jobs /\ F(t) \in Families
BY JobsAssumption DEF TypeOK, F

LEMMA BaseInit == Init => Base
<1> SUFFICES ASSUME Init PROVE Base
  OBVIOUS
<1>1. /\ st \in [Families -> {"Stopped", "Ready", "Busy", "Crashed"}]
      /\ gen \in [Families -> 0 .. MaxGen] /\ alive \in [Families -> BOOLEAN]
      /\ mark \in [Families -> 0 .. MaxGen] /\ told \in [Families -> {"no", "asked", "yes"}]
      /\ run \in [Families -> Jobs \cup {NoJob}] /\ slot \in [Families -> Jobs \cup {NoJob}]
      /\ cancel \in [Families -> BOOLEAN] /\ pipe \in [Families -> Seq(Frame)]
  BY BoundsAssumption DEF Init
<1>2. /\ pc \in [Threads -> Pcs] /\ job \in [Threads -> Jobs \cup {NoJob}]
      /\ res \in [Threads -> Result] /\ on \in [Threads -> 0 .. MaxGen]
      /\ answer \in [Jobs -> Result]
  BY BoundsAssumption DEF Init, Pcs, Result, Statuses, None
<1>3. cur \in [job : Jobs \cup {NoJob}, done : BOOLEAN] /\ deaths \in 0 .. MaxDeaths
  BY BoundsAssumption DEF Init
<1>4. TypeOK
  BY <1>1, <1>2, <1>3 DEF Init, TypeOK
<1>5. (\A t \in Threads : Holds(t)) /\ (\A f \in Families : Process(f)) /\ BusyHasWindow
  BY DEF Init, Holds, Published, Process, Serving, BusyHasWindow
<1> QED
  BY <1>4, <1>5 DEF Base

LEMMA Actor ==
    ASSUME TypeOK, NEW t \in Threads, Holds(t), pc[t] # "idle"
    PROVE  job[t] \in Jobs /\ F(t) \in Families
BY FamilyOf DEF Holds

LEMMA LocalLemma ==
    ASSUME TypeOK, NEW t \in Threads, Holds(t), Thread(t)
    PROVE  Local(t)
<1> USE DEF TypeOK, At, Goto, Decide, F, Same, Local, InWindow
<1>1. CASE EnsureServing(t) \/ EnsureFails(t) \/ AcquireBusy(t)
  BY <1>1 DEF EnsureServing, EnsureFails, Refuse, AcquireBusy, manager, worker, shared, client, env
<1>2. CASE RelaySkipped(t) \/ ClearAbort(t)
  BY <1>2 DEF RelaySkipped, AfterRelay, ClearAbort, manager, worker, shared, client, env
<1>3. CASE WaitEnds(t)
  BY <1>3 DEF WaitEnds, Failed, manager, worker, shared, client, env
<1>4. CASE WaitLoses(t)
  BY <1>4 DEF WaitLoses, Waiting, Failed, manager, worker, shared, client, env
<1>5. CASE WaitOn(t)
  BY <1>5 DEF WaitOn, Waiting, manager, worker, shared, client, env
<1>6. CASE ReadBroken(t)
  BY <1>6 DEF ReadBroken, Failed, manager, worker, shared, client, env
<1>7. CASE ReadNothing(t)
  BY <1>7 DEF ReadNothing, manager, worker, shared, client, env
<1>8. CASE SettleEnds(t)
  BY <1>8 DEF SettleEnds, TimedOut, manager, worker, shared, client, env
<1>9. CASE Publish(t) \/ Answer(t) \/ ClearCurrent(t)
  BY <1>9 DEF Publish, Answer, ClearCurrent, Holds, Published, manager, worker, shared, client, env
<1>10. CASE Acquire(t) \/ MarkRelayed(t) \/ Release(t)
  BY <1>10 DEF Acquire, MarkRelayed, AfterRelay, Release, TimedOut, manager, worker, shared, client,
         env
<1>11. CASE Drain(t) \/ RelayAcked(t) \/ RelayFails(t)
  BY <1>11 DEF Drain, RelayAcked, AfterRelay, RelayFails, manager, worker, shared,
         client, env
<1>12. CASE Send(t) \/ ReadAnswer(t) \/ GiveUp(t) \/ SettleDiscards(t)
  BY <1>12 DEF Send, ReadAnswer, GiveUp, SettleDiscards, TimedOut, manager, worker, shared, client,
         env
<1>13. CASE EnsureLaunches(t) \/ WaitLaunches(t)
  BY <1>13 DEF EnsureLaunches, Launch, WaitLaunches, Waiting, manager, worker, shared, client, env
<1>14. CASE SendFails(t)
  BY <1>14 DEF SendFails, SendBreaks, Failed, manager, worker, shared, client, env
<1>15. CASE GiveUpBroken(t)
  BY <1>15 DEF GiveUpBroken, SendBreaks, TimedOut, manager, worker, shared, client, env
<1>16. CASE SettleExpires(t)
  BY <1>16 DEF SettleExpires, TimedOut, manager, worker, shared, client, env
<1>17. CASE \E j \in Jobs : Take(t, j)
  BY <1>17 DEF Take, manager, worker, shared, client, env
<1>18. CASE RelaySent(t)
  BY <1>18 DEF RelaySent, RelayNeeded, manager, worker, shared, client, env
<1>19. CASE RelayBreaks(t)
  BY <1>19 DEF RelayBreaks, SendBreaks, RelayNeeded, AfterRelay, manager, worker, shared, client,
         env
<1>20. CASE RelayReads(t) \/ RelayLoses(t)
  BY <1>20 DEF RelayReads, RelayLoses, AfterRelay, manager, worker, shared, client, env
<1>21. CASE RelayHears(t)
  BY <1>21 DEF RelayHears, manager, worker, shared, client, env
<1>22. CASE ReadHandle(t)
  BY <1>22 DEF ReadHandle, manager, worker, shared, client, env
<1> QED
  BY <1>1, <1>2, <1>3, <1>4, <1>5, <1>6, <1>7, <1>8, <1>9, <1>10, <1>11, <1>12, <1>13, <1>14,
         <1>15, <1>16, <1>17, <1>18, <1>19, <1>20, <1>21, <1>22
     DEF Thread, Prolog, Leaves

\* TypeOK, one kind of variable at a time.
LEMMA FrameTypes ==
    ASSUME TypeOK, NEW f \in Families, pipe[f] # <<>>
    PROVE  Head(pipe[f]) \in Frame /\ Tail(pipe[f]) \in Seq(Frame)
<1>1. pipe[f] \in Seq(Frame)
  BY DEF TypeOK
<1> QED
  BY <1>1

LEMMA LaunchTypes ==
    ASSUME TypeOK, NEW f \in Families, Launch(f)
    PROVE  ManagerTypes' /\ WorkerTypes'
<1>1. gen[f] + 1 \in 0 .. MaxGen /\ 0 \in 0 .. MaxGen
  BY BoundsAssumption DEF TypeOK, Launch
<1>2. ManagerTypes'
  BY <1>1, Types DEF ManagerTypes, Launch
<1>3. WorkerTypes'
  BY Types DEF WorkerTypes, Launch
<1> QED
  BY <1>2, <1>3

LEMMA BreakTypes ==
    ASSUME TypeOK, NEW f \in Families, SendBreaks(f)
    PROVE  /\ st' \in [Families -> {"Stopped", "Ready", "Busy", "Crashed"}]
           /\ mark' \in [Families -> 0 .. MaxGen] /\ pipe' \in [Families -> Seq(Frame)]
<1>1. 0 \in 0 .. MaxGen
  BY BoundsAssumption
<1>2. CASE Serving(f)
  <2>1. /\ st' = [st EXCEPT ![f] = "Crashed"]
        /\ mark' = [mark EXCEPT ![f] = 0]
        /\ pipe' = [pipe EXCEPT ![f] = <<>>]
    BY <1>2 DEF SendBreaks
  <2>2. st' \in [Families -> {"Stopped", "Ready", "Busy", "Crashed"}]
    BY <2>1, Types DEF ManagerTypes
  <2>3. mark' \in [Families -> 0 .. MaxGen] /\ pipe' \in [Families -> Seq(Frame)]
    BY <1>1, <2>1, Types DEF ManagerTypes, WorkerTypes
  <2> QED
    BY <2>2, <2>3
<1>3. CASE ~Serving(f)
  BY <1>3, Types DEF ManagerTypes, WorkerTypes, SendBreaks
<1> QED
  BY <1>2, <1>3

LEMMA ManagerStep ==
    ASSUME TypeOK, NEW t \in Threads, Holds(t), Thread(t)
    PROVE  ManagerTypes'
<1> USE Types DEF ManagerTypes, At
<1>f. pc[t] # "idle" => job[t] \in Jobs /\ F(t) \in Families
  BY Actor
<1>1. CASE EnsureServing(t) \/ EnsureFails(t) \/ AcquireBusy(t) \/ \E j \in Jobs : Take(t, j)
  BY <1>1, <1>f, BoundsAssumption DEF EnsureServing, EnsureFails, Refuse, AcquireBusy, Take, manager
<1>2. CASE RelaySkipped(t) \/ ClearAbort(t) \/ Publish(t) \/ Answer(t) \/ ClearCurrent(t)
  BY <1>2, <1>f, BoundsAssumption DEF RelaySkipped, AfterRelay, ClearAbort, Publish, Answer,
         ClearCurrent, manager
<1>3. CASE \/ WaitEnds(t) \/ WaitLoses(t) \/ WaitOn(t)
           \/ ReadBroken(t) \/ ReadNothing(t) \/ SettleEnds(t)
  BY <1>3, <1>f, BoundsAssumption DEF WaitEnds, Failed, WaitLoses, Waiting, WaitOn, ReadBroken,
         ReadNothing, SettleEnds, TimedOut, manager
<1>4. CASE \/ Drain(t) \/ RelayAcked(t) \/ RelayFails(t)
           \/ Send(t) \/ ReadAnswer(t) \/ GiveUp(t) \/ SettleDiscards(t)
  BY <1>4, <1>f, BoundsAssumption DEF Drain, RelayAcked, AfterRelay, RelayFails, Send,
         ReadAnswer, GiveUp, SettleDiscards, TimedOut, manager
<1>5. CASE Acquire(t) \/ Release(t)
  BY <1>5, <1>f, BoundsAssumption DEF Acquire, Release, TimedOut, manager
<1>6. CASE MarkRelayed(t)
  BY <1>6, <1>f, BoundsAssumption DEF MarkRelayed, AfterRelay, ThreadTypes, manager
<1>7. CASE EnsureLaunches(t) \/ WaitLaunches(t)
  BY <1>7, <1>f, LaunchTypes DEF EnsureLaunches, WaitLaunches, Waiting
<1>8. CASE SendFails(t) \/ GiveUpBroken(t)
  BY <1>8, <1>f, BreakTypes DEF SendFails, GiveUpBroken
<1>9. CASE SettleExpires(t)
  BY <1>9, <1>f, BoundsAssumption DEF SettleExpires, TimedOut, manager
<1>10. CASE RelaySent(t)
  BY <1>10, <1>f, BoundsAssumption DEF RelaySent, RelayNeeded, manager
<1>11. CASE RelayBreaks(t)
  BY <1>11, <1>f, BreakTypes DEF RelayBreaks, RelayNeeded
<1>12. CASE RelayReads(t) \/ RelayLoses(t)
  BY <1>12, <1>f, BoundsAssumption DEF RelayReads, RelayLoses, AfterRelay, manager
<1>13. CASE RelayHears(t)
  BY <1>13, <1>f, BoundsAssumption DEF RelayHears, manager
<1>14. CASE ReadHandle(t)
  BY <1>14, <1>f, BoundsAssumption DEF ReadHandle, manager
<1> QED
  BY <1>1, <1>2, <1>3, <1>4, <1>5, <1>6, <1>7, <1>8, <1>9, <1>10, <1>11, <1>12, <1>13, <1>14
     DEF Thread, Prolog, Leaves

LEMMA WorkerTypeStep ==
    ASSUME TypeOK, NEW t \in Threads, Holds(t), Thread(t)
    PROVE  WorkerTypes'
<1> USE Types DEF WorkerTypes, At
<1>f. pc[t] # "idle" => job[t] \in Jobs /\ F(t) \in Families
  BY Actor
<1>1. CASE EnsureServing(t) \/ EnsureFails(t) \/ AcquireBusy(t) \/ \E j \in Jobs : Take(t, j)
  BY <1>1, <1>f DEF EnsureServing, EnsureFails, Refuse, AcquireBusy, Take, HasFrame, worker
<1>2. CASE RelaySkipped(t) \/ ClearAbort(t) \/ Publish(t) \/ Answer(t) \/ ClearCurrent(t)
  BY <1>2, <1>f DEF RelaySkipped, AfterRelay, ClearAbort, Publish, Answer, ClearCurrent, HasFrame,
         worker
<1>3. CASE \/ WaitEnds(t) \/ WaitLoses(t) \/ WaitOn(t)
           \/ ReadBroken(t) \/ ReadNothing(t) \/ SettleEnds(t)
  BY <1>3, <1>f DEF WaitEnds, Failed, WaitLoses, Waiting, WaitOn, ReadBroken, ReadNothing,
         SettleEnds,
         TimedOut, HasFrame, worker
<1>4. CASE Acquire(t) \/ Release(t) \/ MarkRelayed(t)
  BY <1>4, <1>f DEF Acquire, Release, TimedOut, MarkRelayed, AfterRelay, HasFrame, worker
<1>5. CASE Drain(t)
  BY <1>5, <1>f DEF Drain, HasFrame, worker
<1>6. CASE RelayAcked(t)
  BY <1>6, <1>f DEF RelayAcked, HasFrame, worker
<1>7. CASE RelayFails(t)
  BY <1>7, <1>f DEF RelayFails, worker
<1>8. CASE Send(t) \/ GiveUp(t)
  BY <1>8, <1>f DEF Send, GiveUp, HasFrame, worker
<1>9. CASE ReadAnswer(t) \/ SettleDiscards(t)
  BY <1>9, <1>f, FrameTypes DEF ReadAnswer, SettleDiscards, HasFrame
<1>10. CASE EnsureLaunches(t)
  BY <1>10, <1>f DEF EnsureLaunches, Launch, HasFrame, worker
<1>11. CASE WaitLaunches(t)
  BY <1>11, <1>f DEF WaitLaunches, Launch, Waiting, HasFrame, worker
<1>12. CASE SendFails(t) \/ GiveUpBroken(t)
  BY <1>12, <1>f, BreakTypes DEF SendFails, GiveUpBroken
<1>13. CASE SettleExpires(t)
  BY <1>13, <1>f DEF SettleExpires, TimedOut, HasFrame, worker
<1>14. CASE RelaySent(t)
  BY <1>14, <1>f DEF RelaySent, RelayNeeded, HasFrame, worker
<1>15. CASE RelayBreaks(t)
  BY <1>15, <1>f, BreakTypes DEF RelayBreaks, RelayNeeded
<1>16. CASE RelayReads(t) \/ RelayLoses(t)
  BY <1>16, <1>f DEF RelayReads, RelayLoses, AfterRelay, HasFrame, worker
<1>17. CASE RelayHears(t)
  BY <1>17, <1>f, FrameTypes DEF RelayHears, HasFrame
<1>18. CASE ReadHandle(t)
  BY <1>18, <1>f DEF ReadHandle, HasFrame, worker
<1> QED
  BY <1>1, <1>2, <1>3, <1>4, <1>5, <1>6, <1>7, <1>8, <1>9, <1>10, <1>11, <1>12, <1>13, <1>14,
         <1>15, <1>16, <1>17, <1>18
     DEF Thread, Prolog, Leaves

LEMMA ThreadTypeStep ==
    ASSUME TypeOK, NEW t \in Threads, Holds(t), Thread(t)
    PROVE  ThreadTypes'
<1> USE Types DEF ThreadTypes, At, Goto, Decide, Pcs, Result, Statuses, ManagerTypes
<1>f. pc[t] # "idle" => job[t] \in Jobs /\ F(t) \in Families
  BY Actor
<1>1. CASE EnsureServing(t)
  BY <1>1, <1>f, BoundsAssumption DEF EnsureServing, None
<1>2. CASE EnsureFails(t) \/ AcquireBusy(t)
  BY <1>2, <1>f, BoundsAssumption DEF EnsureFails, Refuse, AcquireBusy, None
<1>3. CASE RelaySkipped(t)
  BY <1>3, <1>f, BoundsAssumption DEF RelaySkipped, AfterRelay, None
<1>4. CASE ClearAbort(t)
  BY <1>4, <1>f, BoundsAssumption DEF ClearAbort, None
<1>5. CASE WaitEnds(t)
  BY <1>5, <1>f, BoundsAssumption DEF WaitEnds, Failed, None
<1>6. CASE WaitLoses(t)
  BY <1>6, <1>f, BoundsAssumption DEF WaitLoses, Waiting, Failed, None
<1>7. CASE WaitOn(t)
  BY <1>7, <1>f, BoundsAssumption DEF WaitOn, Waiting, None
<1>8. CASE ReadBroken(t)
  BY <1>8, <1>f, BoundsAssumption DEF ReadBroken, Failed, None
<1>9. CASE ReadNothing(t)
  BY <1>9, <1>f, BoundsAssumption DEF ReadNothing, None
<1>10. CASE SettleEnds(t)
  BY <1>10, <1>f, BoundsAssumption DEF SettleEnds, TimedOut, None
<1>11. CASE Publish(t) \/ ClearCurrent(t)
  BY <1>11, <1>f, BoundsAssumption DEF Publish, ClearCurrent, None
<1>12. CASE Answer(t)
  BY <1>12, <1>f, BoundsAssumption DEF Answer, None
<1>13. CASE Acquire(t)
  BY <1>13, <1>f, BoundsAssumption DEF Acquire, None
<1>14. CASE MarkRelayed(t)
  BY <1>14, <1>f, BoundsAssumption DEF MarkRelayed, AfterRelay, None
<1>15. CASE Release(t)
  BY <1>15, <1>f, BoundsAssumption DEF Release, TimedOut, None
<1>16. CASE Drain(t) \/ RelayAcked(t) \/ RelayFails(t)
  BY <1>16, <1>f, BoundsAssumption DEF Drain, RelayAcked, AfterRelay, RelayFails, None
<1>17. CASE Send(t)
  BY <1>17, <1>f, BoundsAssumption DEF Send, None
<1>18. CASE ReadAnswer(t)
  <2>1. Head(pipe[F(t)]) \in Frame
    BY <1>18, <1>f, FrameTypes DEF ReadAnswer, HasFrame
  <2> QED
    BY <1>18, <2>1 DEF ReadAnswer, Frame
<1>19. CASE GiveUp(t)
  BY <1>19, <1>f, BoundsAssumption DEF GiveUp, None
<1>20. CASE SettleDiscards(t)
  BY <1>20, <1>f, BoundsAssumption DEF SettleDiscards, TimedOut, None
<1>21. CASE EnsureLaunches(t)
  BY <1>21, <1>f, BoundsAssumption DEF EnsureLaunches, Launch, None
<1>22. CASE WaitLaunches(t)
  BY <1>22, <1>f, BoundsAssumption DEF WaitLaunches, Launch, Waiting, None
<1>23. CASE SendFails(t)
  BY <1>23, <1>f, BoundsAssumption DEF SendFails, SendBreaks, Failed, None
<1>24. CASE GiveUpBroken(t)
  BY <1>24, <1>f, BoundsAssumption DEF GiveUpBroken, SendBreaks, TimedOut, None
<1>25. CASE SettleExpires(t)
  BY <1>25, <1>f, BoundsAssumption DEF SettleExpires, TimedOut, None
<1>26. CASE \E j \in Jobs : Take(t, j)
  BY <1>26, <1>f, BoundsAssumption DEF Take, None
<1>27. CASE RelaySent(t)
  BY <1>27, <1>f, BoundsAssumption DEF RelaySent, RelayNeeded, None
<1>28. CASE RelayBreaks(t)
  BY <1>28, <1>f, BoundsAssumption DEF RelayBreaks, SendBreaks, RelayNeeded, AfterRelay, None
<1>29. CASE RelayReads(t) \/ RelayLoses(t)
  BY <1>29, <1>f, BoundsAssumption DEF RelayReads, RelayLoses, AfterRelay, None
<1>30. CASE RelayHears(t)
  BY <1>30, <1>f, BoundsAssumption DEF RelayHears, None
<1>31. CASE ReadHandle(t)
  BY <1>31, <1>f, BoundsAssumption DEF ReadHandle, None
<1> QED
  BY <1>1, <1>2, <1>3, <1>4, <1>5, <1>6, <1>7, <1>8, <1>9, <1>10, <1>11, <1>12, <1>13, <1>14,
         <1>15, <1>16, <1>17, <1>18, <1>19, <1>20, <1>21, <1>22, <1>23, <1>24, <1>25, <1>26,
         <1>27, <1>28, <1>29, <1>30, <1>31
     DEF Thread, Prolog, Leaves

LEMMA OtherTypeStep ==
    ASSUME TypeOK, NEW t \in Threads, Holds(t), Thread(t)
    PROVE  OtherTypes'
<1> USE Types DEF OtherTypes, At
<1>f. pc[t] # "idle" => job[t] \in Jobs /\ F(t) \in Families
  BY Actor
<1>1. CASE EnsureServing(t) \/ EnsureLaunches(t) \/ \E j \in Jobs : Take(t, j)
  BY <1>1, <1>f DEF EnsureServing, EnsureLaunches, Launch, Take, Decide, Result, Statuses, shared,
         client, env
<1>2. CASE EnsureFails(t) \/ AcquireBusy(t)
  <2>1. \E r \in Result : answer' = [answer EXCEPT ![job[t]] = r]
    BY <1>2 DEF EnsureFails, AcquireBusy, Refuse, Result, Statuses
  <2> QED
    BY <1>2, <1>f, <2>1 DEF EnsureFails, AcquireBusy, Refuse, shared, client, env
<1>3. CASE RelaySkipped(t) \/ ClearAbort(t)
  BY <1>3, <1>f DEF RelaySkipped, AfterRelay, ClearAbort, Decide, Result, Statuses, shared, client,
         env
<1>4. CASE \/ WaitEnds(t) \/ WaitLoses(t) \/ WaitOn(t)
           \/ ReadBroken(t) \/ ReadNothing(t) \/ SettleEnds(t)
  BY <1>4, <1>f DEF WaitEnds, Failed, WaitLoses, Waiting, WaitOn, ReadBroken, ReadNothing,
         SettleEnds,
         TimedOut, Decide, Result, Statuses, shared, client, env
<1>5. CASE Publish(t)
  BY <1>5, <1>f DEF Publish, Decide, Result, Statuses, shared, client, env
<1>6. CASE Answer(t)
  <2>1. [res[t] EXCEPT !.answered = TRUE] \in Result
    <3>1. res[t] \in Result
      BY DEF TypeOK
    <3> QED
      BY <3>1 DEF Result
  <2> QED
    BY <1>6, <1>f, <2>1 DEF Answer, shared, client, env
<1>7. CASE ClearCurrent(t)
  BY <1>7, <1>f DEF ClearCurrent, Decide, Result, Statuses, shared, client, env
<1>8. CASE Acquire(t) \/ MarkRelayed(t)
  BY <1>8, <1>f DEF Acquire, MarkRelayed, AfterRelay, Decide, Result, Statuses, shared, client, env
<1>9. CASE Release(t)
  BY <1>9, <1>f DEF Release, TimedOut, Decide, Result, Statuses, shared, client, env
<1>10. CASE Drain(t) \/ RelayAcked(t) \/ RelayFails(t)
  BY <1>10, <1>f DEF Drain, RelayAcked, AfterRelay, RelayFails, Decide, Result,
         Statuses,
         shared, client, env
<1>11. CASE Send(t) \/ ReadAnswer(t) \/ GiveUp(t) \/ SettleDiscards(t)
  BY <1>11, <1>f DEF Send, ReadAnswer, GiveUp, SettleDiscards, TimedOut, Decide, Result, Statuses,
         shared, client, env
<1>12. CASE WaitLaunches(t) \/ SendFails(t) \/ GiveUpBroken(t) \/ SettleExpires(t)
  BY <1>12, <1>f DEF WaitLaunches, Launch, Waiting, SendFails, SendBreaks, Failed, GiveUpBroken,
         TimedOut, SettleExpires, Decide, Result, Statuses, shared, client, env
<1>13. CASE RelaySent(t)
  BY <1>13, <1>f DEF RelaySent, RelayNeeded, Decide, Result, Statuses, shared, client, env
<1>14. CASE RelayBreaks(t)
  BY <1>14, <1>f DEF RelayBreaks, SendBreaks, RelayNeeded, AfterRelay, Decide, Result, Statuses,
         shared, client, env
<1>15. CASE RelayReads(t) \/ RelayLoses(t)
  BY <1>15, <1>f DEF RelayReads, RelayLoses, AfterRelay, Decide, Result, Statuses, shared, client,
         env
<1>16. CASE RelayHears(t)
  BY <1>16, <1>f DEF RelayHears, Decide, Result, Statuses, shared, client, env
<1>17. CASE ReadHandle(t)
  BY <1>17, <1>f DEF ReadHandle, Decide, Result, Statuses, shared, client, env
<1> QED
  BY <1>1, <1>2, <1>3, <1>4, <1>5, <1>6, <1>7, <1>8, <1>9, <1>10, <1>11, <1>12, <1>13, <1>14,
         <1>15, <1>16, <1>17
     DEF Thread, Prolog, Leaves

LEMMA HoldsStep ==
    ASSUME TypeOK, NEW t \in Threads, Holds(t), \A f \in Families : Process(f), Thread(t)
    PROVE  Holds(t)'
<1> USE DEF TypeOK, At, Goto, Decide, F, Holds, Published, Process
<1>f. pc[t] # "idle" => job[t] \in Jobs /\ F(t) \in Families
  BY Actor
<1>1. CASE EnsureServing(t) \/ EnsureFails(t) \/ AcquireBusy(t)
  BY <1>1, <1>f DEF EnsureServing, EnsureFails, Refuse, AcquireBusy, manager
<1>2. CASE RelaySkipped(t) \/ ClearAbort(t)
  BY <1>2, <1>f DEF RelaySkipped, AfterRelay, ClearAbort, manager
<1>3. CASE WaitEnds(t)
  BY <1>3, <1>f DEF WaitEnds, Failed, manager
<1>4. CASE WaitLoses(t)
  BY <1>4, <1>f DEF WaitLoses, Waiting, Failed, manager
<1>5. CASE WaitOn(t)
  BY <1>5, <1>f DEF WaitOn, Waiting, manager
<1>6. CASE ReadBroken(t)
  BY <1>6, <1>f DEF ReadBroken, Failed, manager
<1>7. CASE ReadNothing(t)
  BY <1>7, <1>f DEF ReadNothing, manager
<1>8. CASE SettleEnds(t)
  BY <1>8, <1>f DEF SettleEnds, TimedOut, manager
<1>9. CASE Publish(t) \/ Answer(t) \/ ClearCurrent(t)
  BY <1>9, <1>f DEF Publish, Answer, ClearCurrent, manager
<1>10. CASE Acquire(t) \/ MarkRelayed(t) \/ Release(t)
  BY <1>10, <1>f DEF Acquire, MarkRelayed, AfterRelay, Release, TimedOut, manager
<1>11. CASE Drain(t) \/ RelayAcked(t) \/ RelayFails(t)
  BY <1>11, <1>f DEF Drain, RelayAcked, AfterRelay, RelayFails, manager
<1>12. CASE Send(t) \/ ReadAnswer(t) \/ GiveUp(t) \/ SettleDiscards(t)
  BY <1>12, <1>f DEF Send, ReadAnswer, GiveUp, SettleDiscards, TimedOut, manager
<1>13. CASE EnsureLaunches(t) \/ WaitLaunches(t)
  BY <1>13, <1>f DEF EnsureLaunches, Launch, WaitLaunches, Waiting, manager
<1>14. CASE SendFails(t)
  BY <1>14, <1>f DEF SendFails, SendBreaks, Failed, manager
<1>15. CASE GiveUpBroken(t)
  BY <1>15, <1>f DEF GiveUpBroken, SendBreaks, TimedOut, manager
<1>16. CASE SettleExpires(t)
  BY <1>16, <1>f DEF SettleExpires, TimedOut, manager
<1>17. CASE \E j \in Jobs : Take(t, j)
  BY <1>17, <1>f DEF Take, manager
<1>18. CASE RelaySent(t)
  BY <1>18, <1>f DEF RelaySent, RelayNeeded, manager
<1>19. CASE RelayBreaks(t)
  BY <1>19, <1>f DEF RelayBreaks, SendBreaks, RelayNeeded, AfterRelay, manager
<1>20. CASE RelayReads(t) \/ RelayLoses(t)
  BY <1>20, <1>f DEF RelayReads, RelayLoses, AfterRelay, manager
<1>21. CASE RelayHears(t)
  BY <1>21, <1>f DEF RelayHears, manager
<1>22. CASE ReadHandle(t)
  BY <1>22, <1>f DEF ReadHandle, manager
<1> QED
  BY <1>1, <1>2, <1>3, <1>4, <1>5, <1>6, <1>7, <1>8, <1>9, <1>10, <1>11, <1>12, <1>13, <1>14,
         <1>15, <1>16, <1>17, <1>18, <1>19, <1>20, <1>21, <1>22
     DEF Thread, Prolog, Leaves

LEMMA ProcessStep ==
    ASSUME TypeOK, NEW t \in Threads, Holds(t), \A f \in Families : Process(f), Thread(t)
    PROVE  \A f \in Families : Process(f)'
<1> USE DEF TypeOK, At, Process, Serving
<1>f. pc[t] # "idle" => job[t] \in Jobs /\ F(t) \in Families
  BY Actor
<1>1. CASE EnsureServing(t) \/ EnsureFails(t) \/ AcquireBusy(t) \/ \E j \in Jobs : Take(t, j)
  BY <1>1, <1>f DEF EnsureServing, EnsureFails, Refuse, AcquireBusy, Take, HasFrame, PipeOpen,
         manager, worker
<1>2. CASE RelaySkipped(t) \/ ClearAbort(t) \/ Publish(t) \/ Answer(t) \/ ClearCurrent(t)
  BY <1>2, <1>f DEF RelaySkipped, AfterRelay, ClearAbort, Publish, Answer, ClearCurrent, HasFrame,
         PipeOpen, manager, worker
<1>3. CASE \/ WaitEnds(t) \/ WaitLoses(t) \/ WaitOn(t)
           \/ ReadBroken(t) \/ ReadNothing(t) \/ SettleEnds(t)
  BY <1>3, <1>f DEF WaitEnds, Failed, WaitLoses, Waiting, WaitOn, ReadBroken, ReadNothing,
         SettleEnds, TimedOut, HasFrame, PipeOpen, manager, worker
<1>4. CASE Acquire(t)
  BY <1>4, <1>f DEF Acquire, HasFrame, PipeOpen, manager, worker
<1>5. CASE Release(t)
  BY <1>5, <1>f DEF Release, TimedOut, HasFrame, PipeOpen, manager, worker
<1>6. CASE MarkRelayed(t)
  BY <1>6, <1>f DEF MarkRelayed, AfterRelay, HasFrame, PipeOpen, manager, worker
<1>7. CASE Drain(t)
  BY <1>7, <1>f DEF Drain, HasFrame, PipeOpen, manager, worker
<1>8. CASE RelayAcked(t)
  BY <1>8, <1>f DEF RelayAcked, HasFrame, PipeOpen, manager, worker
<1>9. CASE RelayFails(t)
  BY <1>9, <1>f DEF RelayFails, AfterRelay, HasFrame, PipeOpen, manager, worker
<1>10. CASE Send(t)
  BY <1>10, <1>f DEF Send, HasFrame, PipeOpen, manager, worker
<1>11. CASE ReadAnswer(t)
  BY <1>11, <1>f DEF ReadAnswer, HasFrame, PipeOpen, manager, worker
<1>12. CASE GiveUp(t)
  BY <1>12, <1>f DEF GiveUp, HasFrame, PipeOpen, manager, worker
<1>13. CASE SettleDiscards(t)
  BY <1>13, <1>f DEF SettleDiscards, TimedOut, HasFrame, PipeOpen, manager, worker
<1>14. CASE EnsureLaunches(t)
  BY <1>14, <1>f DEF EnsureLaunches, Launch, HasFrame, PipeOpen, manager, worker
<1>15. CASE WaitLaunches(t)
  BY <1>15, <1>f DEF WaitLaunches, Launch, Waiting, HasFrame, PipeOpen, manager, worker
<1>16. CASE SendFails(t)
  BY <1>16, <1>f DEF SendFails, SendBreaks, Failed, HasFrame, PipeOpen, manager, worker
<1>17. CASE GiveUpBroken(t)
  BY <1>17, <1>f DEF GiveUpBroken, SendBreaks, TimedOut, HasFrame, PipeOpen, manager, worker
<1>18. CASE SettleExpires(t)
  BY <1>18, <1>f DEF SettleExpires, Quiet, PipeOpen
<1>19. CASE RelaySent(t)
  BY <1>19, <1>f DEF RelaySent, RelayNeeded, HasFrame, PipeOpen, manager, worker
<1>20. CASE RelayBreaks(t)
  BY <1>20, <1>f DEF RelayBreaks, SendBreaks, RelayNeeded, AfterRelay, HasFrame, PipeOpen,
         manager, worker
<1>21. CASE RelayReads(t) \/ RelayLoses(t)
  BY <1>21, <1>f DEF RelayReads, RelayLoses, AfterRelay, HasFrame, PipeOpen, manager, worker
<1>22. CASE RelayHears(t)
  BY <1>22, <1>f DEF RelayHears, HasFrame, PipeOpen, manager, worker
<1>23. CASE ReadHandle(t)
  BY <1>23, <1>f DEF ReadHandle, HasFrame, PipeOpen, manager, worker
<1> QED
  BY <1>1, <1>2, <1>3, <1>4, <1>5, <1>6, <1>7, <1>8, <1>9, <1>10, <1>11, <1>12, <1>13, <1>14,
         <1>15, <1>16, <1>17, <1>18, <1>19, <1>20, <1>21, <1>22, <1>23
     DEF Thread, Prolog, Leaves

\* Acquire opens a thread's window and Release closes it; no other step takes
\* a family out of service.
LEMMA Windows ==
    ASSUME TypeOK, NEW t \in Threads, Holds(t), Thread(t)
    PROVE  \/ Acquire(t) \/ Release(t)
           \/ /\ InWindow(t)' <=> InWindow(t)
              /\ InWindow(t) => job'[t] = job[t]
              /\ \A f \in Families : st'[f] = "Busy" => st[f] = "Busy"
<1> USE DEF TypeOK, At, Goto, Decide, InWindow
<1>f. pc[t] # "idle" => job[t] \in Jobs /\ F(t) \in Families
  BY Actor
<1>1. CASE EnsureServing(t) \/ EnsureFails(t) \/ AcquireBusy(t)
  BY <1>1, <1>f DEF EnsureServing, EnsureFails, Refuse, AcquireBusy, Holds, manager
<1>2. CASE RelaySkipped(t) \/ ClearAbort(t)
  BY <1>2, <1>f DEF RelaySkipped, AfterRelay, ClearAbort, Holds, manager
<1>3. CASE WaitEnds(t)
  BY <1>3, <1>f DEF WaitEnds, Failed, Holds, manager
<1>4. CASE WaitLoses(t)
  BY <1>4, <1>f DEF WaitLoses, Waiting, Failed, Holds, manager
<1>5. CASE WaitOn(t)
  BY <1>5, <1>f DEF WaitOn, Waiting, Holds, manager
<1>6. CASE ReadBroken(t)
  BY <1>6, <1>f DEF ReadBroken, Failed, Holds, manager
<1>7. CASE ReadNothing(t)
  BY <1>7, <1>f DEF ReadNothing, Holds, manager
<1>8. CASE SettleEnds(t)
  BY <1>8, <1>f DEF SettleEnds, TimedOut, Holds, manager
<1>9. CASE Publish(t) \/ Answer(t) \/ ClearCurrent(t)
  BY <1>9, <1>f DEF Publish, Answer, ClearCurrent, Holds, manager
<1>10. CASE MarkRelayed(t)
  BY <1>10, <1>f DEF MarkRelayed, AfterRelay, Holds, manager
<1>11. CASE Drain(t) \/ RelayAcked(t) \/ RelayFails(t)
  BY <1>11, <1>f DEF Drain, RelayAcked, AfterRelay, RelayFails, Holds, manager
<1>12. CASE Send(t) \/ ReadAnswer(t) \/ GiveUp(t) \/ SettleDiscards(t)
  BY <1>12, <1>f DEF Send, ReadAnswer, GiveUp, SettleDiscards, TimedOut, Holds, manager
<1>13. CASE EnsureLaunches(t) \/ WaitLaunches(t)
  BY <1>13, <1>f DEF EnsureLaunches, Launch, WaitLaunches, Waiting, Holds, manager
<1>14. CASE SendFails(t)
  BY <1>14, <1>f DEF SendFails, SendBreaks, Failed, Holds, manager
<1>15. CASE GiveUpBroken(t)
  BY <1>15, <1>f DEF GiveUpBroken, SendBreaks, TimedOut, Holds, manager
<1>16. CASE SettleExpires(t)
  BY <1>16, <1>f DEF SettleExpires, TimedOut, Holds, manager
<1>17. CASE \E j \in Jobs : Take(t, j)
  BY <1>17, <1>f DEF Take, Holds, manager
<1>18. CASE RelaySent(t)
  BY <1>18, <1>f DEF RelaySent, RelayNeeded, Holds, manager
<1>19. CASE RelayBreaks(t)
  BY <1>19, <1>f DEF RelayBreaks, SendBreaks, RelayNeeded, AfterRelay, Holds, manager
<1>20. CASE RelayReads(t) \/ RelayLoses(t)
  BY <1>20, <1>f DEF RelayReads, RelayLoses, AfterRelay, Holds, manager
<1>21. CASE RelayHears(t)
  BY <1>21, <1>f DEF RelayHears, Holds, manager
<1>22. CASE ReadHandle(t)
  BY <1>22, <1>f DEF ReadHandle, Holds, manager
<1> QED
  BY <1>1, <1>2, <1>3, <1>4, <1>5, <1>6, <1>7, <1>8, <1>9, <1>10, <1>11, <1>12, <1>13, <1>14,
         <1>15, <1>16, <1>17, <1>18, <1>19, <1>20, <1>21, <1>22
     DEF Thread, Prolog, Leaves

LEMMA BusyStep ==
    ASSUME TypeOK, NEW t \in Threads, Holds(t), BusyHasWindow, Thread(t)
    PROVE  BusyHasWindow'
<1> SUFFICES ASSUME NEW f \in Families, st'[f] = "Busy"
             PROVE  \E u \in Threads : job'[u] # NoJob /\ F(u)' = f /\ InWindow(u)'
  BY DEF BusyHasWindow, InWindow
<1>l. \A u \in Threads \ {t} : pc'[u] = pc[u] /\ job'[u] = job[u]
  BY LocalLemma DEF Local
<1>w. st[f] = "Busy" => \E u \in Threads : job[u] # NoJob /\ F(u) = f /\ InWindow(u)
  BY DEF BusyHasWindow, InWindow
<1>1. CASE Acquire(t) /\ F(t) = f
  <2>1. job'[t] = job[t] /\ job[t] # NoJob /\ InWindow(t)'
    BY <1>1 DEF Acquire, At, Goto, InWindow, Holds, TypeOK
  <2> QED
    BY <1>1, <2>1 DEF F
<1>2. CASE Acquire(t) /\ F(t) # f
  <2>1. st[f] = "Busy" /\ ~InWindow(t)
    BY <1>2 DEF Acquire, At, InWindow, TypeOK
  <2> QED
    BY <1>l, <1>w, <2>1 DEF F, InWindow
<1>3. CASE Release(t)
  <2>1. st[f] = "Busy" /\ F(t) # f
    BY <1>3 DEF Release, TypeOK
  <2> QED
    BY <1>l, <1>w, <2>1 DEF F, InWindow
<1>4. CASE /\ InWindow(t)' <=> InWindow(t)
           /\ InWindow(t) => job'[t] = job[t]
           /\ st[f] = "Busy"
  BY <1>4, <1>l, <1>w DEF F, InWindow
<1> QED
  BY <1>1, <1>2, <1>3, <1>4, Windows

\* Only the two ways into EnsureSpawned launch a family.
LEMMA GenStep ==
    ASSUME TypeOK, NEW t \in Threads, Holds(t), Thread(t)
    PROVE  \/ \E f \in Families : Launch(f) /\ f = F(t) /\ (EnsureLaunches(t) \/ WaitLaunches(t))
           \/ gen' = gen
<1>f. pc[t] # "idle" => F(t) \in Families
  BY Actor
<1>1. CASE EnsureServing(t) \/ EnsureFails(t) \/ AcquireBusy(t) \/ \E j \in Jobs : Take(t, j)
  BY <1>1, <1>f DEF EnsureServing, EnsureFails, Refuse, AcquireBusy, Take, At, manager
<1>2. CASE RelaySkipped(t) \/ ClearAbort(t) \/ Publish(t) \/ Answer(t) \/ ClearCurrent(t)
  BY <1>2, <1>f DEF RelaySkipped, AfterRelay, ClearAbort, Publish, Answer, ClearCurrent, At, manager
<1>3. CASE \/ WaitEnds(t) \/ WaitLoses(t) \/ WaitOn(t)
           \/ ReadBroken(t) \/ ReadNothing(t) \/ SettleEnds(t)
  BY <1>3, <1>f DEF WaitEnds, Failed, WaitLoses, Waiting, WaitOn, ReadBroken, ReadNothing,
         SettleEnds, TimedOut, At, manager
<1>4. CASE \/ Drain(t) \/ RelayAcked(t) \/ RelayFails(t)
           \/ Send(t) \/ ReadAnswer(t) \/ GiveUp(t) \/ SettleDiscards(t)
  BY <1>4, <1>f DEF Drain, RelayAcked, AfterRelay, RelayFails, Send, ReadAnswer,
         GiveUp, SettleDiscards, TimedOut, At, manager
<1>5. CASE \/ Acquire(t) \/ MarkRelayed(t) \/ Release(t)
           \/ SendFails(t) \/ GiveUpBroken(t) \/ SettleExpires(t)
  BY <1>5, <1>f DEF Acquire, MarkRelayed, AfterRelay, Release, TimedOut, SendFails, SendBreaks,
         Failed, GiveUpBroken, SettleExpires, At, manager
<1>6. CASE EnsureLaunches(t) \/ WaitLaunches(t)
  BY <1>6, <1>f DEF EnsureLaunches, Launch, WaitLaunches, Waiting, At, manager
<1>7. CASE RelaySent(t)
  BY <1>7, <1>f DEF RelaySent, RelayNeeded, At, manager
<1>8. CASE RelayBreaks(t)
  BY <1>8, <1>f DEF RelayBreaks, SendBreaks, RelayNeeded, AfterRelay, At, manager
<1>9. CASE RelayReads(t) \/ RelayLoses(t)
  BY <1>9, <1>f DEF RelayReads, RelayLoses, AfterRelay, At, manager
<1>10. CASE RelayHears(t)
  BY <1>10, <1>f DEF RelayHears, At, manager
<1>11. CASE ReadHandle(t)
  BY <1>11, <1>f DEF ReadHandle, At, manager
<1> QED
  BY <1>1, <1>2, <1>3, <1>4, <1>5, <1>6, <1>7, <1>8, <1>9, <1>10, <1>11
     DEF Thread, Prolog, Leaves

LEMMA WorkerLocal ==
    ASSUME TypeOK, NEW f \in Families, Worker(f)
    PROVE  /\ UNCHANGED <<threads, shared, client, down, gen>>
           /\ \A g \in Families \ {f} : Same(g)
           /\ \A g \in Families : st'[g] = "Busy" => st[g] = "Busy"
<1> USE DEF TypeOK, Same, threads, shared, client, env, manager
<1>1. CASE WorkerOpens(f) \/ WorkerTakes(f)
  BY <1>1 DEF WorkerOpens, WorkerTakes
<1>2. CASE WorkerAnswers(f)
  BY <1>2 DEF WorkerAnswers
<1>3. CASE WorkerDies(f)
  BY <1>3 DEF WorkerDies
<1>4. CASE Reap(f)
  BY <1>4 DEF Reap
<1> QED
  BY <1>1, <1>2, <1>3, <1>4 DEF Worker

LEMMA WorkerTypeKept ==
    ASSUME TypeOK, NEW f \in Families, Worker(f)
    PROVE  TypeOK'
<1>1. ThreadTypes'
  BY WorkerLocal, Types DEF ThreadTypes, threads
<1>2. ManagerTypes' /\ deaths' \in 0 .. MaxDeaths
  <2> USE DEF TypeOK, ManagerTypes, manager, env
  <2>1. CASE WorkerOpens(f) \/ WorkerTakes(f) \/ WorkerAnswers(f)
    BY <2>1 DEF WorkerOpens, WorkerTakes, WorkerAnswers
  <2>2. CASE WorkerDies(f)
    BY <2>2, BoundsAssumption DEF WorkerDies
  <2>3. CASE Reap(f)
    BY <2>3, BoundsAssumption DEF Reap
  <2> QED
    BY <2>1, <2>2, <2>3 DEF Worker
<1>3. WorkerTypes'
  <2> USE Types DEF WorkerTypes
  <2>1. CASE WorkerOpens(f) \/ WorkerTakes(f)
    BY <2>1 DEF WorkerOpens, WorkerTakes
  <2>2. CASE WorkerAnswers(f)
    <3>1. run[f] \in Jobs
      BY <2>2 DEF WorkerAnswers
    <3>2. PICK kind \in {"error", "final"} :
              pipe' = [pipe EXCEPT ![f] = Append(@, [job |-> run[f], kind |-> kind])]
      BY <2>2 DEF WorkerAnswers
    <3>3. [job |-> run[f], kind |-> kind] \in Frame
      BY <3>1 DEF Frame
    <3> QED
      BY <2>2, <3>2, <3>3 DEF WorkerAnswers
  <2>3. CASE WorkerDies(f)
    BY <2>3 DEF WorkerDies
  <2>4. CASE Reap(f)
    BY <2>4 DEF Reap
  <2> QED
    BY <2>1, <2>2, <2>3, <2>4 DEF Worker
<1>4. OtherTypes'
  BY <1>2, WorkerLocal DEF TypeOK, OtherTypes, shared, client
<1> QED
  BY <1>1, <1>2, <1>3, <1>4 DEF TypeOK, ManagerTypes, WorkerTypes, ThreadTypes, OtherTypes

LEMMA WorkerBase ==
    ASSUME Base, NEW f \in Families, Worker(f)
    PROVE  Base'
<1> USE DEF Base
<1>1. TypeOK'
  BY WorkerTypeKept
<1>2. \A t \in Threads : Holds(t)'
  BY WorkerLocal DEF Holds, Published, F, threads
<1>3. \A g \in Families \ {f} : Process(g)'
  BY WorkerLocal DEF Process, Serving, Same
<1>4. Process(f)'
  <2> USE DEF TypeOK, Process, Serving, manager
  <2>1. CASE WorkerOpens(f) \/ WorkerTakes(f) \/ WorkerAnswers(f)
    BY <2>1 DEF WorkerOpens, WorkerTakes, WorkerAnswers
  <2>2. CASE WorkerDies(f)
    BY <2>2 DEF WorkerDies
  <2>3. CASE Reap(f)
    BY <2>3 DEF Reap
  <2> QED
    BY <2>1, <2>2, <2>3 DEF Worker
<1>5. BusyHasWindow'
  BY WorkerLocal DEF BusyHasWindow, F, threads
<1> QED
  BY <1>1, <1>2, <1>3, <1>4, <1>5

\* The steps of time, of the clients and of the host's shutdown
Outside == \/ \E j \in Impatient : DeadlinePasses(j) \/ Cancel(j)
           \/ Watchdog \/ Shutdown

LEMMA OutsideLocal ==
    ASSUME TypeOK, Outside
    PROVE  /\ UNCHANGED <<manager, worker, threads, cur, answer, deaths>>
           /\ late \subseteq late' /\ cancelled \subseteq cancelled' /\ (down => down')
           /\ abort' \in BOOLEAN /\ down' \in BOOLEAN /\ late' \subseteq Jobs /\ cancelled' \subseteq Jobs
BY BoundsAssumption DEF Outside, DeadlinePasses, Cancel, Watchdog, Shutdown, TypeOK, manager,
       worker, threads, shared, client, env

LEMMA OutsideBase ==
    ASSUME Base, Outside
    PROVE  Base'
<1> USE DEF Base
<1>1. TypeOK'
  BY OutsideLocal DEF TypeOK, manager, worker, threads
<1>2. (\A t \in Threads : Holds(t)') /\ \A f \in Families : Process(f)'
  BY OutsideLocal DEF Holds, Published, F, Process, Serving, manager, worker, threads
<1>3. BusyHasWindow'
  BY OutsideLocal DEF BusyHasWindow, F, manager, threads
<1> QED
  BY <1>1, <1>2, <1>3

LEMMA ThreadBase ==
    ASSUME Base, NEW t \in Threads, Thread(t)
    PROVE  Base'
<1> USE DEF Base
<1>1. TypeOK'
  BY ManagerStep, WorkerTypeStep, ThreadTypeStep, OtherTypeStep
     DEF TypeOK, ManagerTypes, WorkerTypes, ThreadTypes, OtherTypes
<1>2. Holds(t)' /\ \A f \in Families : Process(f)'
  BY HoldsStep, ProcessStep
<1>3. \A f \in Families : gen[f] # 0 => gen'[f] # 0
  BY GenStep DEF Launch, TypeOK
<1>4. \A u \in Threads \ {t} : Holds(u)'
  <2> SUFFICES ASSUME NEW u \in Threads \ {t} PROVE Holds(u)'
    OBVIOUS
  <2>1. pc'[u] = pc[u] /\ job'[u] = job[u] /\ Holds(u)
    BY LocalLemma DEF Local
  <2>2. pc[u] # "idle" => F(u) \in Families
    BY Actor
  <2> QED
    BY <1>3, <2>1, <2>2 DEF Holds, Published, F
<1>5. BusyHasWindow'
  BY BusyStep
<1> QED
  BY <1>1, <1>2, <1>4, <1>5

LEMMA BaseStep == Base /\ [Next]_vars => Base'
<1> SUFFICES ASSUME Base, [Next]_vars PROVE Base'
  OBVIOUS
<1>1. CASE \E t \in Threads : Thread(t)
  BY <1>1, ThreadBase
<1>2. CASE \E f \in Families : Worker(f)
  BY <1>2, WorkerBase
<1>3. CASE Outside
  BY <1>3, OutsideBase
<1>4. CASE UNCHANGED vars
  <2>1. TypeOK' /\ BusyHasWindow'
    BY <1>4 DEF Base, TypeOK, BusyHasWindow, F, vars, manager, worker, threads, shared, client, env
  <2>2. (\A t \in Threads : Holds(t)') /\ \A f \in Families : Process(f)'
    BY <1>4 DEF Base, Holds, Published, F, Process, Serving, vars, manager, worker, threads
  <2> QED
    BY <2>1, <2>2 DEF Base
<1> QED
  BY <1>1, <1>2, <1>3, <1>4 DEF Next, Outside
-----------------------------------------------------------------------------
\* The hypotheses.  Calm: each family has jobs of one thread only, or no step
\* launches a family some thread is inside the window of.  OneRecord: V1 and V2
\* have no jobs of different families.
Solo == \A i, j \in Jobs : Target[i] = Target[j] => By[i] = By[j]
LaunchQuiet ==
    \A f \in Families : gen'[f] # gen[f] => \A t \in Threads : InWindow(t) => F(t) # f
Calm == Solo \/ LaunchQuiet
OneRecord ==
    \A i, j \in Jobs :
        By[i] # Kick /\ By[j] # Kick => By[i] = By[j] \/ Target[i] = Target[j]

\* The windows of a family exclude each other, since a family with one is Busy
\* or gone; an acknowledged relay told the process that still runs.
Exclusive == \A t, u \in Threads : InWindow(t) /\ InWindow(u) /\ F(t) = F(u) => t = u
Held(t) == InWindow(t) => Solo \/ st[F(t)] \in {"Busy", "Crashed"}
\* The invariant of a thread: the pipe it reads is the family's, g_current names
\* its job, the abort flag is its own, and so is what its worker and pipe hold
\* and the answer it carries.
Reading(t) == pc[t] \in {"read", "settle"} => on[t] = gen[F(t)]
Named(t) == Published(t) => cur.job = job[t] /\ ~cur.done
AbortOwn(t) ==
    /\ pc[t] = "publish" => ~abort
    /\ abort /\ pc[t] \in {"send", "wait", "read", "giveup", "settle"} =>
          job[t] \in late \cup cancelled
    /\ pc[t] \in {"giveup", "settle"} => job[t] \in late \cup cancelled
OwnWork(t) ==
    pc[t] \in {"read", "giveup", "settle"} \/ (pc[t] = "wait" /\ ~down) =>
        /\ run[F(t)] \in {NoJob, job[t]} /\ slot[F(t)] \in {NoJob, job[t]}
        /\ \A k \in DOMAIN pipe[F(t)] : pipe[F(t)][k].job = job[t]
OwnResult(t) == IF pc[t] = "answer" THEN res[t].from \in {NoJob, job[t]} ELSE res[t].from = NoJob
Relayed(t) == pc[t] \in {"mark", "store"} /\ alive[F(t)] => told[F(t)] = "yes"
Fine(t) == Reading(t) /\ Named(t) /\ AbortOwn(t) /\ OwnWork(t) /\ OwnResult(t)

\* A job is at one place of its worker, as long as the thread that sent it waits
\* for it, and a family nobody waits for is clean.
Clean(f) == run[f] = NoJob /\ slot[f] = NoJob /\ pipe[f] = <<>>
Tidy(f) ==
    ~down =>
        /\ run[f] = NoJob \/ slot[f] = NoJob
        /\ pipe[f] = <<>> \/ (Len(pipe[f]) = 1 /\ run[f] = NoJob /\ slot[f] = NoJob)
        /\ Clean(f) \/ \E t \in Threads : Engaged(t) /\ F(t) = f
Marked(f) == alive[f] /\ mark[f] # 0 /\ mark[f] = gen[f] => told[f] = "yes"

WInv ==
    /\ Base /\ Exclusive
    /\ \A t \in Threads : Held(t) /\ Relayed(t)
    /\ \A f \in Families : Marked(f)

IInv ==
    /\ WInv
    /\ \A t \in Threads : Fine(t)
    /\ \A f \in Families : Tidy(f)
    /\ cur.done \/ \E t \in Threads : Published(t)
    /\ Paired

LEMMA InitLemma == Init => IInv
<1> SUFFICES ASSUME Init PROVE IInv
  OBVIOUS
<1>1. Base
  BY BaseInit
<1>2. Exclusive /\ Paired /\ cur.done
  BY DEF Init, Exclusive, InWindow, Paired, None
<1>3. \A t \in Threads : Held(t) /\ Relayed(t) /\ Fine(t)
  BY DEF Init, Fine, Held, InWindow, Reading, Named, Published, AbortOwn, OwnWork, OwnResult,
         Relayed, None
<1>4. \A f \in Families : Tidy(f) /\ Marked(f)
  BY DEF Init, Tidy, Clean, Marked
<1> QED
  BY <1>1, <1>2, <1>3, <1>4 DEF IInv, WInv

LEMMA Mine ==
    ASSUME Base, NEW t \in Threads, pc[t] # "idle"
    PROVE  job[t] \in Jobs /\ By[job[t]] = t /\ F(t) = Target[job[t]] /\ F(t) \in Families
<1>1. TypeOK /\ Holds(t)
  BY DEF Base
<1>2. job[t] \in Jobs /\ F(t) \in Families
  BY <1>1, Actor
<1> QED
  BY <1>1, <1>2, JobsAssumption DEF Holds, F

\* At most one thread is on the way between ClearAbort and ClearCurrent.
LEMMA OnePublisher ==
    ASSUME OneRecord, Base, Exclusive, NEW t \in Threads \ {Kick}, NEW u \in Threads \ {Kick},
           InWindow(t), InWindow(u)
    PROVE  t = u
<1>1. pc[t] # "idle" /\ pc[u] # "idle"
  BY DEF InWindow
<1>2. /\ job[t] \in Jobs /\ By[job[t]] = t /\ F(t) = Target[job[t]]
      /\ job[u] \in Jobs /\ By[job[u]] = u /\ F(u) = Target[job[u]]
  BY <1>1, Mine
<1> QED
  BY <1>2 DEF OneRecord, Exclusive

LEMMA SoloFamily ==
    ASSUME Solo, Base, NEW t \in Threads, NEW u \in Threads, pc[t] # "idle", pc[u] # "idle", F(t) = F(u)
    PROVE  t = u
BY Mine DEF Solo

\* While a thread is inside its window, no other thread touches the family.
LEMMA Alone ==
    ASSUME WInv, Calm, NEW t \in Threads, Thread(t), NEW u \in Threads, u # t, InWindow(u)
    PROVE  Same(F(u)) /\ F(u) \in Families
<1>1. Base /\ TypeOK /\ Holds(t) /\ pc[u] # "idle"
  BY DEF WInv, Base, InWindow
<1>2. F(u) \in Families /\ job[u] \in Jobs
  BY <1>1, Mine
<1>3. CASE F(u) # F(t)
  BY <1>1, <1>2, <1>3, LocalLemma DEF Local
<1>4. CASE F(u) = F(t)
  <2>1. ~InWindow(t)
    BY <1>4 DEF WInv, Exclusive
  <2>2. ~EnsureLaunches(t)
    <3> SUFFICES ASSUME EnsureLaunches(t) PROVE FALSE
      OBVIOUS
    <3>1. pc[t] # "idle" /\ gen'[F(t)] # gen[F(t)]
      BY <1>1, <1>2, <1>4 DEF EnsureLaunches, At, Launch, TypeOK
    <3>2. CASE Solo
      BY <1>1, <1>4, <3>1, <3>2, SoloFamily
    <3>3. CASE LaunchQuiet
      BY <1>2, <1>4, <3>1, <3>3 DEF LaunchQuiet
    <3> QED
      BY <3>2, <3>3 DEF Calm
  <2>3. ~Acquire(t)
    <3> SUFFICES ASSUME Acquire(t) PROVE FALSE
      OBVIOUS
    <3>1. pc[t] # "idle" /\ st[F(t)] = "Ready"
      BY DEF Acquire, At
    <3> QED
      BY <1>1, <1>4, <3>1, SoloFamily DEF WInv, Held
  <2>4. UNCHANGED <<manager, worker>>
    BY <2>1, <2>2, <2>3 DEF InWindow, At, Thread, Prolog, Leaves, EnsureServing, EnsureFails,
       AcquireBusy, Refuse, Drain, RelaySkipped, RelaySent, RelayBreaks, RelayReads, RelayLoses, RelayHears,
       RelayAcked, RelayFails, RelayNeeded, ReadHandle, MarkRelayed,
       ClearAbort, Publish, Send, SendFails, WaitLaunches, WaitEnds, WaitLoses, WaitOn, Waiting,
       ReadAnswer, ReadBroken, ReadNothing, GiveUp, GiveUpBroken, SettleDiscards, SettleEnds,
       SettleExpires, Answer, ClearCurrent, Release, Take
  <2> QED
    BY <1>2, <2>4 DEF Same, manager, worker
<1> QED
  BY <1>3, <1>4

LEMMA OthersServed ==
    ASSUME WInv, Calm, NEW t \in Threads, Thread(t), NEW u \in Threads, u # t
    PROVE  Held(u)' /\ Relayed(u)'
<1>1. TypeOK /\ Holds(t) /\ Held(u) /\ Relayed(u)
  BY DEF WInv, Base
<1>2. pc'[u] = pc[u] /\ F(u)' = F(u) /\ InWindow(u)' = InWindow(u)
  BY <1>1, LocalLemma DEF Local, F, InWindow
<1>3. CASE ~InWindow(u)
  BY <1>2, <1>3 DEF Held, Relayed, InWindow
<1>4. CASE InWindow(u)
  <2>1. Same(F(u))
    BY <1>4, Alone
  <2> QED
    BY <1>1, <1>2, <2>1 DEF Held, Relayed, Same
<1> QED
  BY <1>3, <1>4

LEMMA OthersFine ==
    ASSUME OneRecord, IInv, Calm, NEW t \in Threads, Thread(t), NEW u \in Threads, u # t
    PROVE  Fine(u)'
<1>1. Base /\ TypeOK /\ Holds(t) /\ Holds(u) /\ Exclusive /\ Fine(u)
  BY DEF IInv, WInv, Base
<1>2. Local(t)
  BY <1>1, LocalLemma
<1>3. /\ pc'[u] = pc[u] /\ job'[u] = job[u] /\ res'[u] = res[u] /\ on'[u] = on[u]
      /\ F(u)' = F(u) /\ InWindow(u)' = InWindow(u) /\ Published(u)' = Published(u) /\ down' = down
  BY <1>2 DEF Local, F, InWindow, Published
<1>4. CASE ~InWindow(u)
  BY <1>1, <1>3, <1>4 DEF Fine, Reading, Named, Published, InWindow, AbortOwn, OwnWork, OwnResult
<1>5. CASE InWindow(u)
  <2>1. Same(F(u))
    BY <1>5, Alone DEF IInv
  <2>2. Reading(u)' /\ OwnResult(u)'
    BY <1>1, <1>3, <2>1 DEF Fine, Reading, OwnResult, Same
  <2>3. OwnWork(u)'
    BY <1>1, <1>3, <2>1 DEF Fine, OwnWork, Same
  <2>4. Named(u)'
    <3> SUFFICES ASSUME Published(u) PROVE cur'.job = job[u] /\ ~cur'.done
      BY <1>3 DEF Named
    <3>1. u # Kick
      BY <1>1 DEF Holds
    <3>2. cur' = cur
      BY <1>1, <1>2, <1>5, <3>1, OnePublisher DEF Local
    <3> QED
      BY <1>1, <3>2 DEF Fine, Named
  <2>5. AbortOwn(u)'
    <3>1. job[t] # job[u]
      <4>1. pc[u] # "idle" /\ By[job[u]] = u /\ job[u] # NoJob
        BY <1>1, <1>5 DEF InWindow, Holds
      <4> QED
        BY <1>1, <4>1 DEF Holds
    <3> QED
      BY <1>1, <1>2, <1>3, <3>1 DEF Fine, AbortOwn, Local
  <2> QED
    BY <2>2, <2>3, <2>4, <2>5 DEF Fine
<1> QED
  BY <1>4, <1>5

\* A family nobody waits for has nothing to do, unless the host shuts down.
LEMMA CleanBefore ==
    ASSUME IInv, NEW t \in Threads, InWindow(t), ~Engaged(t), ~down
    PROVE  Clean(F(t))
<1>1. F(t) \in Families
  BY Mine DEF IInv, WInv, InWindow
<1> SUFFICES ASSUME ~Clean(F(t)) PROVE FALSE
  OBVIOUS
<1>2. PICK u \in Threads : Engaged(u) /\ F(u) = F(t)
  BY <1>1 DEF IInv, WInv, Tidy
<1> QED
  BY <1>2 DEF IInv, WInv, Exclusive, InWindow, Engaged

LEMMA HeldStep ==
    ASSUME WInv, Calm, NEW t \in Threads, Thread(t)
    PROVE  Held(t)' /\ Relayed(t)'
<1> USE DEF TypeOK, At, Goto, Decide
<1>f. TypeOK /\ Holds(t) /\ Held(t) /\ Relayed(t) /\ (pc[t] # "idle" => job[t] \in Jobs /\ F(t) \in Families)
  BY Mine DEF WInv, Base
<1> USE DEF InWindow, F, Held, Relayed, Holds
<1>1. CASE EnsureServing(t) \/ EnsureFails(t) \/ AcquireBusy(t)
  BY <1>1, <1>f DEF EnsureServing, EnsureFails, Refuse, AcquireBusy, manager, worker
<1>2. CASE RelaySkipped(t) \/ ClearAbort(t)
  BY <1>2, <1>f DEF RelaySkipped, AfterRelay, ClearAbort, manager, worker
<1>3. CASE WaitEnds(t)
  BY <1>3, <1>f DEF WaitEnds, Failed, manager, worker
<1>4. CASE WaitLoses(t)
  BY <1>4, <1>f DEF WaitLoses, Waiting, Failed, manager, worker
<1>5. CASE WaitOn(t)
  BY <1>5, <1>f DEF WaitOn, Waiting, manager, worker
<1>6. CASE ReadBroken(t)
  BY <1>6, <1>f DEF ReadBroken, Failed, manager, worker
<1>7. CASE ReadNothing(t)
  BY <1>7, <1>f DEF ReadNothing, manager, worker
<1>8. CASE SettleEnds(t)
  BY <1>8, <1>f DEF SettleEnds, TimedOut, manager, worker
<1>9. CASE Publish(t) \/ Answer(t) \/ ClearCurrent(t)
  BY <1>9, <1>f DEF Publish, Answer, ClearCurrent, manager, worker
<1>10. CASE Acquire(t) \/ MarkRelayed(t) \/ Release(t)
  BY <1>10, <1>f DEF Acquire, MarkRelayed, AfterRelay, Release, TimedOut, manager, worker
<1>11. CASE Drain(t) \/ RelayAcked(t) \/ RelayFails(t)
  BY <1>11, <1>f DEF Drain, RelayAcked, Opened, AfterRelay, RelayFails, manager, worker
<1>12. CASE Send(t) \/ ReadAnswer(t) \/ GiveUp(t) \/ SettleDiscards(t)
  BY <1>12, <1>f DEF Send, ReadAnswer, GiveUp, SettleDiscards, TimedOut, manager, worker
<1>13. CASE SendFails(t)
  BY <1>13, <1>f DEF SendFails, SendBreaks, Failed, manager, worker
<1>14. CASE GiveUpBroken(t)
  BY <1>14, <1>f DEF GiveUpBroken, SendBreaks, TimedOut, manager, worker
<1>15. CASE SettleExpires(t)
  BY <1>15, <1>f DEF SettleExpires, TimedOut, manager, worker
<1>16. CASE \E j \in Jobs : Take(t, j)
  BY <1>16, <1>f DEF Take, manager, worker
<1>17. CASE EnsureLaunches(t)
  BY <1>17, <1>f DEF EnsureLaunches, Launch, manager, worker
<1>18. CASE WaitLaunches(t)
  <2>1. Solo
    <3>1. InWindow(t) /\ gen'[F(t)] # gen[F(t)] /\ F(t) \in Families
      BY <1>18, <1>f DEF WaitLaunches, Waiting, Launch
    <3> QED
      BY <3>1 DEF Calm, LaunchQuiet
  <2> QED
    BY <1>18, <2>1, <1>f DEF WaitLaunches, Waiting
<1>19. CASE RelaySent(t)
  BY <1>19, <1>f DEF RelaySent, RelayNeeded, manager, worker
<1>20. CASE RelayBreaks(t)
  BY <1>20, <1>f DEF RelayBreaks, SendBreaks, RelayNeeded, AfterRelay, manager, worker
<1>21. CASE RelayReads(t) \/ RelayLoses(t)
  BY <1>21, <1>f DEF RelayReads, RelayLoses, AfterRelay, manager, worker
<1>22. CASE RelayHears(t)
  BY <1>22, <1>f DEF RelayHears, manager, worker
<1>23. CASE ReadHandle(t)
  BY <1>23, <1>f DEF ReadHandle, manager, worker
<1> QED
  BY <1>1, <1>2, <1>3, <1>4, <1>5, <1>6, <1>7, <1>8, <1>9, <1>10, <1>11, <1>12, <1>13, <1>14,
         <1>15, <1>16, <1>17, <1>18, <1>19, <1>20, <1>21, <1>22, <1>23
     DEF Thread, Prolog, Leaves

LEMMA ReadingStep ==
    ASSUME IInv, NEW t \in Threads, Thread(t)
    PROVE  Reading(t)' /\ OwnResult(t)'
<1> USE DEF TypeOK, At, Goto, Decide
<1>f. TypeOK /\ Holds(t) /\ Fine(t) /\ (pc[t] # "idle" => job[t] \in Jobs /\ F(t) \in Families)
  BY Mine DEF IInv, WInv, Base
<1> USE DEF F, Reading, OwnResult, Fine
<1>1. CASE EnsureServing(t) \/ EnsureFails(t) \/ AcquireBusy(t)
  BY <1>1, <1>f DEF EnsureServing, EnsureFails, Refuse, AcquireBusy, OwnWork, HasFrame, None,
         manager
<1>2. CASE RelaySkipped(t) \/ ClearAbort(t)
  BY <1>2, <1>f DEF RelaySkipped, AfterRelay, ClearAbort, OwnWork, HasFrame, None, manager
<1>3. CASE WaitEnds(t)
  BY <1>3, <1>f DEF WaitEnds, Failed, OwnWork, HasFrame, None, manager
<1>4. CASE WaitLoses(t)
  BY <1>4, <1>f DEF WaitLoses, Waiting, Failed, OwnWork, HasFrame, None, manager
<1>5. CASE WaitOn(t)
  BY <1>5, <1>f DEF WaitOn, Waiting, OwnWork, HasFrame, None, manager
<1>6. CASE ReadBroken(t)
  BY <1>6, <1>f DEF ReadBroken, Failed, OwnWork, HasFrame, None, manager
<1>7. CASE ReadNothing(t)
  BY <1>7, <1>f DEF ReadNothing, OwnWork, HasFrame, None, manager
<1>8. CASE SettleEnds(t)
  BY <1>8, <1>f DEF SettleEnds, TimedOut, OwnWork, HasFrame, None, manager
<1>9. CASE Publish(t) \/ Answer(t) \/ ClearCurrent(t)
  BY <1>9, <1>f DEF Publish, Answer, ClearCurrent, OwnWork, HasFrame, None, manager
<1>10. CASE Acquire(t) \/ MarkRelayed(t) \/ Release(t)
  BY <1>10, <1>f DEF Acquire, MarkRelayed, AfterRelay, Release, TimedOut, OwnWork, HasFrame, None,
         manager
<1>11. CASE Drain(t) \/ RelayAcked(t) \/ RelayFails(t)
  BY <1>11, <1>f DEF Drain, RelayAcked, AfterRelay, RelayFails, OwnWork, HasFrame,
         None, manager
<1>12. CASE Send(t) \/ ReadAnswer(t) \/ GiveUp(t) \/ SettleDiscards(t)
  BY <1>12, <1>f DEF Send, ReadAnswer, GiveUp, SettleDiscards, TimedOut, OwnWork, HasFrame, None,
         manager
<1>13. CASE EnsureLaunches(t) \/ WaitLaunches(t)
  BY <1>13, <1>f DEF EnsureLaunches, Launch, WaitLaunches, Waiting, OwnWork, HasFrame, None, manager
<1>14. CASE SendFails(t)
  BY <1>14, <1>f DEF SendFails, SendBreaks, Failed, OwnWork, HasFrame, None, manager
<1>15. CASE GiveUpBroken(t)
  BY <1>15, <1>f DEF GiveUpBroken, SendBreaks, TimedOut, OwnWork, HasFrame, None, manager
<1>16. CASE SettleExpires(t)
  BY <1>16, <1>f DEF SettleExpires, TimedOut, OwnWork, HasFrame, None, manager
<1>17. CASE \E j \in Jobs : Take(t, j)
  BY <1>17, <1>f DEF Take, OwnWork, HasFrame, None, manager
<1>18. CASE RelaySent(t)
  BY <1>18, <1>f DEF RelaySent, RelayNeeded, OwnWork, HasFrame, None, manager
<1>19. CASE RelayBreaks(t)
  BY <1>19, <1>f DEF RelayBreaks, SendBreaks, RelayNeeded, AfterRelay, OwnWork, HasFrame, None,
         manager
<1>20. CASE RelayReads(t) \/ RelayLoses(t)
  BY <1>20, <1>f DEF RelayReads, RelayLoses, AfterRelay, OwnWork, HasFrame, None, manager
<1>21. CASE RelayHears(t)
  BY <1>21, <1>f DEF RelayHears, OwnWork, HasFrame, None, manager
<1>22. CASE ReadHandle(t)
  BY <1>22, <1>f DEF ReadHandle, OwnWork, HasFrame, None, manager
<1> QED
  BY <1>1, <1>2, <1>3, <1>4, <1>5, <1>6, <1>7, <1>8, <1>9, <1>10, <1>11, <1>12, <1>13, <1>14,
         <1>15, <1>16, <1>17, <1>18, <1>19, <1>20, <1>21, <1>22
     DEF Thread, Prolog, Leaves

LEMMA RecordStep ==
    ASSUME OneRecord, IInv, NEW t \in Threads, Thread(t)
    PROVE  Named(t)' /\ AbortOwn(t)'
           /\ (Publish(t) \/ ClearCurrent(t) \/ (cur' = cur /\ (Published(t) => Published(t)')))
<1> USE DEF TypeOK, At, Goto, Decide
<1>f. TypeOK /\ Holds(t) /\ Fine(t) /\ (pc[t] # "idle" => job[t] \in Jobs /\ F(t) \in Families)
  BY Mine DEF IInv, WInv, Base
<1> USE DEF Published, Named, AbortOwn, Fine
<1>1. CASE EnsureServing(t) \/ EnsureFails(t) \/ AcquireBusy(t)
  BY <1>1, <1>f DEF EnsureServing, EnsureFails, Refuse, AcquireBusy, Holds, InWindow, shared, client
<1>2. CASE RelaySkipped(t) \/ ClearAbort(t)
  BY <1>2, <1>f DEF RelaySkipped, AfterRelay, ClearAbort, Holds, InWindow, shared, client
<1>3. CASE WaitEnds(t)
  BY <1>3, <1>f DEF WaitEnds, Failed, Holds, InWindow, shared, client
<1>4. CASE WaitLoses(t)
  BY <1>4, <1>f DEF WaitLoses, Waiting, Failed, Holds, InWindow, shared, client
<1>5. CASE WaitOn(t)
  BY <1>5, <1>f DEF WaitOn, Waiting, Holds, InWindow, shared, client
<1>6. CASE ReadBroken(t)
  BY <1>6, <1>f DEF ReadBroken, Failed, Holds, InWindow, shared, client
<1>7. CASE ReadNothing(t)
  BY <1>7, <1>f DEF ReadNothing, Holds, InWindow, shared, client
<1>8. CASE SettleEnds(t)
  BY <1>8, <1>f DEF SettleEnds, TimedOut, Holds, InWindow, shared, client
<1>9. CASE Publish(t) \/ Answer(t) \/ ClearCurrent(t)
  BY <1>9, <1>f DEF Publish, Answer, ClearCurrent, Holds, InWindow, shared, client
<1>10. CASE Acquire(t) \/ MarkRelayed(t) \/ Release(t)
  BY <1>10, <1>f DEF Acquire, MarkRelayed, AfterRelay, Release, TimedOut, Holds, InWindow, shared,
         client
<1>11. CASE Drain(t) \/ RelayAcked(t) \/ RelayFails(t)
  BY <1>11, <1>f DEF Drain, RelayAcked, AfterRelay, RelayFails, Holds, InWindow,
         shared, client
<1>12. CASE Send(t) \/ ReadAnswer(t) \/ GiveUp(t) \/ SettleDiscards(t)
  BY <1>12, <1>f DEF Send, ReadAnswer, GiveUp, SettleDiscards, TimedOut, Holds, InWindow, shared,
         client
<1>13. CASE EnsureLaunches(t) \/ WaitLaunches(t)
  BY <1>13, <1>f DEF EnsureLaunches, Launch, WaitLaunches, Waiting, Holds, InWindow, shared, client
<1>14. CASE SendFails(t)
  BY <1>14, <1>f DEF SendFails, SendBreaks, Failed, Holds, InWindow, shared, client
<1>15. CASE GiveUpBroken(t)
  BY <1>15, <1>f DEF GiveUpBroken, SendBreaks, TimedOut, Holds, InWindow, shared, client
<1>16. CASE SettleExpires(t)
  BY <1>16, <1>f DEF SettleExpires, TimedOut, Holds, InWindow, shared, client
<1>17. CASE \E j \in Jobs : Take(t, j)
  BY <1>17, <1>f DEF Take, Holds, InWindow, shared, client
<1>18. CASE RelaySent(t)
  BY <1>18, <1>f DEF RelaySent, RelayNeeded, Holds, InWindow, shared, client
<1>19. CASE RelayBreaks(t)
  BY <1>19, <1>f DEF RelayBreaks, SendBreaks, RelayNeeded, AfterRelay, Holds, InWindow, shared,
         client
<1>20. CASE RelayReads(t) \/ RelayLoses(t)
  BY <1>20, <1>f DEF RelayReads, RelayLoses, AfterRelay, Holds, InWindow, shared, client
<1>21. CASE RelayHears(t)
  BY <1>21, <1>f DEF RelayHears, Holds, InWindow, shared, client
<1>22. CASE ReadHandle(t)
  BY <1>22, <1>f DEF ReadHandle, Holds, InWindow, shared, client
<1> QED
  BY <1>1, <1>2, <1>3, <1>4, <1>5, <1>6, <1>7, <1>8, <1>9, <1>10, <1>11, <1>12, <1>13, <1>14,
         <1>15, <1>16, <1>17, <1>18, <1>19, <1>20, <1>21, <1>22
     DEF Thread, Prolog, Leaves

LEMMA WorkStep ==
    ASSUME IInv, NEW t \in Threads, Thread(t)
    PROVE  OwnWork(t)'
<1> USE DEF TypeOK, At, Goto, Decide
<1>f. TypeOK /\ Holds(t) /\ Fine(t) /\ (pc[t] # "idle" => job[t] \in Jobs /\ F(t) \in Families)
  BY Mine DEF IInv, WInv, Base
<1>c. InWindow(t) /\ ~Engaged(t) /\ ~down => Clean(F(t))
  BY CleanBefore
<1> USE DEF F, OwnWork, Fine
<1>1. CASE EnsureServing(t) \/ EnsureFails(t) \/ AcquireBusy(t)
  BY <1>1, <1>f, <1>c DEF EnsureServing, EnsureFails, Refuse, AcquireBusy, Clean, InWindow, Engaged,
         manager, worker, env, shared
<1>2. CASE EnsureLaunches(t) \/ Acquire(t)
  BY <1>2, <1>f, <1>c DEF EnsureLaunches, Launch, Acquire, Clean, InWindow, Engaged, manager,
         worker, env, shared
<1>3. CASE RelaySkipped(t) \/ ClearAbort(t) \/ Publish(t)
  BY <1>3, <1>f, <1>c DEF RelaySkipped, AfterRelay, ClearAbort, Publish, Clean, InWindow, Engaged,
         manager, worker, env, shared
<1>4. CASE WaitEnds(t)
  BY <1>4, <1>f, <1>c DEF WaitEnds, Failed, Clean, InWindow, Engaged, manager, worker, env, shared
<1>5. CASE WaitLoses(t)
  BY <1>5, <1>f, <1>c DEF WaitLoses, Waiting, Failed, Clean, InWindow, Engaged, manager, worker,
         env, shared
<1>6. CASE WaitOn(t)
  BY <1>6, <1>f, <1>c DEF WaitOn, Waiting, Clean, InWindow, Engaged, manager, worker, env, shared
<1>7. CASE ReadBroken(t)
  BY <1>7, <1>f, <1>c DEF ReadBroken, Failed, Clean, InWindow, Engaged, manager, worker, env, shared
<1>8. CASE ReadNothing(t)
  BY <1>8, <1>f, <1>c DEF ReadNothing, Clean, InWindow, Engaged, manager, worker, env, shared
<1>9. CASE SettleEnds(t)
  BY <1>9, <1>f, <1>c DEF SettleEnds, TimedOut, Clean, InWindow, Engaged, manager, worker, env,
         shared
<1>10. CASE Answer(t) \/ ClearCurrent(t) \/ Release(t)
  BY <1>10, <1>f, <1>c DEF Answer, ClearCurrent, Release, TimedOut, Clean, InWindow, Engaged,
         manager, worker, env, shared
<1>11. CASE MarkRelayed(t) \/ Drain(t) \/ RelayAcked(t) \/ RelayFails(t)
  BY <1>11, <1>f, <1>c DEF MarkRelayed, AfterRelay, Drain, RelayAcked, RelayFails,
         Clean, InWindow, Engaged, manager, worker, env, shared
<1>12. CASE Send(t)
  BY <1>12, <1>f, <1>c DEF Send, Clean, InWindow, Engaged, manager, worker, env, shared
<1>13. CASE ReadAnswer(t)
  BY <1>13, <1>f, <1>c DEF ReadAnswer, Clean, InWindow, Engaged, manager, worker, env, shared
<1>14. CASE GiveUp(t)
  BY <1>14, <1>f, <1>c DEF GiveUp, Clean, InWindow, Engaged, manager, worker, env, shared
<1>15. CASE SettleDiscards(t)
  BY <1>15, <1>f, <1>c DEF SettleDiscards, TimedOut, Clean, InWindow, Engaged, manager, worker, env,
         shared
<1>16. CASE WaitLaunches(t)
  BY <1>16, <1>f, <1>c DEF WaitLaunches, Launch, Waiting, Clean, InWindow, Engaged, manager, worker,
         env, shared
<1>17. CASE SendFails(t)
  BY <1>17, <1>f, <1>c DEF SendFails, SendBreaks, Failed, Clean, InWindow, Engaged, manager, worker,
         env, shared
<1>18. CASE GiveUpBroken(t)
  BY <1>18, <1>f, <1>c DEF GiveUpBroken, SendBreaks, TimedOut, Clean, InWindow, Engaged, manager,
         worker, env, shared
<1>19. CASE SettleExpires(t)
  BY <1>19, <1>f, <1>c DEF SettleExpires, TimedOut, Clean, InWindow, Engaged, manager, worker, env,
         shared
<1>20. CASE \E j \in Jobs : Take(t, j)
  BY <1>20, <1>f, <1>c DEF Take, Clean, InWindow, Engaged, manager, worker, env, shared
<1>21. CASE RelaySent(t)
  BY <1>21, <1>f, <1>c DEF RelaySent, RelayNeeded, Clean, InWindow, Engaged, manager, worker, env,
         shared
<1>22. CASE RelayBreaks(t)
  BY <1>22, <1>f, <1>c DEF RelayBreaks, SendBreaks, RelayNeeded, AfterRelay, Clean, InWindow,
         Engaged, manager, worker, env, shared
<1>23. CASE RelayReads(t) \/ RelayLoses(t)
  BY <1>23, <1>f, <1>c DEF RelayReads, RelayLoses, AfterRelay, Clean, InWindow, Engaged, manager,
         worker, env, shared
<1>24. CASE RelayHears(t)
  BY <1>24, <1>f, <1>c DEF RelayHears, Clean, InWindow, Engaged, manager, worker, env, shared
<1>25. CASE ReadHandle(t)
  BY <1>25, <1>f, <1>c DEF ReadHandle, Clean, InWindow, Engaged, manager, worker, env, shared
<1> QED
  BY <1>1, <1>2, <1>3, <1>4, <1>5, <1>6, <1>7, <1>8, <1>9, <1>10, <1>11, <1>12, <1>13, <1>14,
         <1>15, <1>16, <1>17, <1>18, <1>19, <1>20, <1>21, <1>22, <1>23, <1>24, <1>25
     DEF Thread, Prolog, Leaves

LEMMA TailOfOne ==
    ASSUME NEW S, NEW s \in Seq(S), Len(s) = 1
    PROVE  Tail(s) = <<>>
<1>1. s # <<>>
  BY EmptySeq
<1>2. Tail(s) \in Seq(S) /\ Len(Tail(s)) = 0
  BY <1>1, HeadTailProperties
<1> QED
  BY <1>2, EmptySeq

\* What the step of a thread leaves in its family's worker and pipe.
LEMMA MyFamily ==
    ASSUME IInv, NEW t \in Threads, Thread(t), NEW f \in Families, pc[t] # "idle", F(t) = f, ~down'
    PROVE  \/ Clean(f)'
           \/ ~InWindow(t) /\ ~Engaged(t)' /\ UNCHANGED <<run, slot, pipe>>
           \/ /\ Engaged(t)' /\ job'[t] = job[t]
              /\ run'[f] = NoJob \/ slot'[f] = NoJob
              /\ pipe'[f] = <<>> \/ (Len(pipe'[f]) = 1 /\ run'[f] = NoJob /\ slot'[f] = NoJob)
<1> USE DEF TypeOK, At, Goto, Decide
<1>f. TypeOK /\ Holds(t) /\ Fine(t) /\ (pc[t] # "idle" => job[t] \in Jobs /\ F(t) \in Families)
  BY Mine DEF IInv, WInv, Base
<1>c. InWindow(t) /\ ~Engaged(t) /\ ~down => Clean(F(t))
  BY CleanBefore
<1>p. Process(f) /\ Tidy(f) /\ pipe[f] \in Seq(Frame)
  BY DEF IInv, WInv, Base
<1>t. Len(pipe[f]) = 1 => Tail(pipe[f]) = <<>>
  BY <1>p, TailOfOne
<1> USE DEF Clean
<1>1. CASE EnsureServing(t) \/ EnsureFails(t) \/ AcquireBusy(t)
  BY <1>1, <1>f, <1>c, <1>p DEF EnsureServing, EnsureFails, Refuse, AcquireBusy, Process, Serving,
         PipeOpen, HasFrame, Broken, Quiet, Tidy, Engaged, InWindow, Fine, Reading, Named,
         Published, manager, worker, env
<1>2. CASE EnsureLaunches(t)
  BY <1>2, <1>f, <1>c, <1>p DEF EnsureLaunches, Launch, Process, Serving, PipeOpen, HasFrame,
         Broken, Quiet, Tidy, Engaged, InWindow, Fine, Reading, Named, Published, manager, worker,
         env
<1>3. CASE Acquire(t)
  BY <1>3, <1>f, <1>c, <1>p DEF Acquire, Process, Serving, PipeOpen, HasFrame, Broken, Quiet, Tidy,
         Engaged, InWindow, Fine, Reading, Named, Published, manager, worker, env
<1>4. CASE RelaySkipped(t) \/ ClearAbort(t) \/ Publish(t)
  BY <1>4, <1>f, <1>c, <1>p DEF RelaySkipped, AfterRelay, ClearAbort, Publish, Process, Serving,
         PipeOpen, HasFrame, Broken, Quiet, Tidy, Engaged, InWindow, Fine, Reading, Named,
         Published, manager, worker, env
<1>5. CASE WaitEnds(t)
  BY <1>5, <1>f, <1>c, <1>p DEF WaitEnds, Failed, Process, Serving, PipeOpen, HasFrame, Broken,
         Quiet, Tidy, Engaged, InWindow, Fine, Reading, Named, Published, manager, worker, env
<1>6. CASE WaitLoses(t)
  BY <1>6, <1>f, <1>c, <1>p DEF WaitLoses, Waiting, Failed, Process, Serving, PipeOpen, HasFrame,
         Broken, Quiet, Tidy, Engaged, InWindow, Fine, Reading, Named, Published, manager, worker,
         env
<1>7. CASE WaitOn(t) \/ ReadNothing(t)
  BY <1>7, <1>f, <1>c, <1>p DEF WaitOn, Waiting, ReadNothing, Process, Serving, PipeOpen, HasFrame,
         Broken, Quiet, Tidy, Engaged, InWindow, Fine, Reading, Named, Published, manager, worker,
         env
<1>8. CASE ReadBroken(t)
  BY <1>8, <1>f, <1>c, <1>p DEF ReadBroken, Failed, Process, Serving, PipeOpen, HasFrame, Broken,
         Quiet, Tidy, Engaged, InWindow, Fine, Reading, Named, Published, manager, worker, env
<1>9. CASE SettleEnds(t)
  BY <1>9, <1>f, <1>c, <1>p DEF SettleEnds, TimedOut, Process, Serving, PipeOpen, HasFrame, Broken,
         Quiet, Tidy, Engaged, InWindow, Fine, Reading, Named, Published, manager, worker, env
<1>10. CASE Answer(t) \/ ClearCurrent(t)
  BY <1>10, <1>f, <1>c, <1>p DEF Answer, ClearCurrent, Process, Serving, PipeOpen, HasFrame, Broken,
         Quiet, Tidy, Engaged, InWindow, Fine, Reading, Named, Published, manager, worker, env
<1>11. CASE Release(t)
  BY <1>11, <1>f, <1>c, <1>p DEF Release, TimedOut, Process, Serving, PipeOpen, HasFrame, Broken,
         Quiet, Tidy, Engaged, InWindow, Fine, Reading, Named, Published, manager, worker, env
<1>12. CASE MarkRelayed(t)
  BY <1>12, <1>f, <1>c, <1>p DEF MarkRelayed, AfterRelay, Process, Serving, PipeOpen, HasFrame,
         Broken, Quiet, Tidy, Engaged, InWindow, Fine, Reading, Named, Published, manager, worker,
         env
<1>13. CASE Drain(t) \/ RelayAcked(t) \/ RelayFails(t)
  BY <1>13, <1>f, <1>c, <1>p DEF Drain, RelayAcked, AfterRelay, RelayFails, Process,
         Serving, PipeOpen, HasFrame, Broken, Quiet, Tidy, Engaged, InWindow, Fine, Reading, Named,
         Published, manager, worker, env
<1>14. CASE Send(t)
  BY <1>14, <1>f, <1>c, <1>p DEF Send, Process, Serving, PipeOpen, HasFrame, Broken, Quiet, Tidy,
         Engaged, InWindow, Fine, Reading, Named, Published, manager, worker, env
<1>15. CASE ReadAnswer(t)
  BY <1>15, <1>f, <1>c, <1>p, <1>t DEF ReadAnswer, Process, Serving, PipeOpen, HasFrame,
         Tidy, Engaged, InWindow, Fine, Reading, Named, Published, manager, worker, env
<1>16. CASE GiveUp(t)
  BY <1>16, <1>f, <1>c, <1>p DEF GiveUp, Process, Serving, PipeOpen, HasFrame, Broken, Quiet, Tidy,
         Engaged, InWindow, Fine, Reading, Named, Published, manager, worker, env
<1>17. CASE SettleDiscards(t)
  BY <1>17, <1>f, <1>c, <1>p, <1>t DEF SettleDiscards, Process, Serving, PipeOpen, HasFrame,
         Broken, Quiet, Tidy, Engaged, InWindow, Fine, Reading, Named, Published, manager, worker,
         env
<1>18. CASE WaitLaunches(t)
  BY <1>18, <1>f, <1>c, <1>p DEF WaitLaunches, Launch, Waiting, Process, Serving, PipeOpen,
         HasFrame, Broken, Quiet, Tidy, Engaged, InWindow, Fine, Reading, Named, Published, manager,
         worker, env
<1>19. CASE SendFails(t)
  BY <1>19, <1>f, <1>c, <1>p DEF SendFails, SendBreaks, Failed, Process, Serving, PipeOpen,
         HasFrame, Broken, Quiet, Tidy, Engaged, InWindow, Fine, Reading, Named, Published, manager,
         worker, env
<1>20. CASE GiveUpBroken(t)
  BY <1>20, <1>f, <1>c, <1>p DEF GiveUpBroken, SendBreaks, TimedOut, Process, Serving, PipeOpen,
         HasFrame, Broken, Quiet, Tidy, Engaged, InWindow, Fine, Reading, Named, Published, manager,
         worker, env
<1>21. CASE SettleExpires(t)
  BY <1>21, <1>f, <1>c, <1>p DEF SettleExpires, TimedOut, Process, Serving, PipeOpen, HasFrame,
         Broken, Quiet, Tidy, Engaged, InWindow, Fine, Reading, Named, Published, manager, worker,
         env
<1>22. CASE \E j \in Jobs : Take(t, j)
  BY <1>22, <1>f, <1>c, <1>p DEF Take, Process, Serving, PipeOpen, HasFrame, Broken, Quiet, Tidy,
         Engaged, InWindow, Fine, Reading, Named, Published, manager, worker, env
<1>23. CASE RelaySent(t)
  BY <1>23, <1>f, <1>c, <1>p DEF RelaySent, RelayNeeded, Process, Serving, PipeOpen, HasFrame,
         Broken, Quiet, Tidy, Engaged, InWindow, Fine, Reading, Named, Published, manager, worker,
         env
<1>24. CASE RelayBreaks(t)
  BY <1>24, <1>f, <1>c, <1>p DEF RelayBreaks, SendBreaks, RelayNeeded, AfterRelay, Process,
         Serving, PipeOpen, HasFrame, Broken, Quiet, Tidy, Engaged, InWindow, Fine, Reading,
         Named, Published, manager, worker, env
<1>25. CASE RelayReads(t) \/ RelayLoses(t)
  BY <1>25, <1>f, <1>c, <1>p DEF RelayReads, RelayLoses, AfterRelay, Process, Serving, PipeOpen,
         HasFrame, Broken, Quiet, Tidy, Engaged, InWindow, Fine, Reading, Named, Published,
         manager, worker, env
<1>26. CASE RelayHears(t)
  BY <1>26, <1>f, <1>c, <1>p DEF RelayHears, Process, Serving, PipeOpen, HasFrame, Broken, Quiet,
         Tidy, Engaged, InWindow, Fine, Reading, Named, Published, manager, worker, env
<1>27. CASE ReadHandle(t)
  BY <1>27, <1>f, <1>c, <1>p DEF ReadHandle, Process, Serving, PipeOpen, HasFrame, Broken, Quiet,
         Tidy, Engaged, InWindow, Fine, Reading, Named, Published, manager, worker, env
<1> QED
  BY <1>1, <1>2, <1>3, <1>4, <1>5, <1>6, <1>7, <1>8, <1>9, <1>10, <1>11, <1>12, <1>13, <1>14,
         <1>15, <1>16, <1>17, <1>18, <1>19, <1>20, <1>21, <1>22, <1>23, <1>24, <1>25, <1>26, <1>27
     DEF Thread, Prolog, Leaves

LEMMA TidyStep ==
    ASSUME IInv, NEW t \in Threads, Thread(t), NEW f \in Families
    PROVE  Tidy(f)'
<1>1. TypeOK /\ Holds(t) /\ Tidy(f)
  BY DEF IInv, WInv, Base
<1>2. Local(t)
  BY <1>1, LocalLemma
<1> SUFFICES ASSUME ~down'
             PROVE  Tidy(f)'
  BY DEF Tidy
<1>3. \A u \in Threads \ {t} : Engaged(u) /\ F(u) = f => Engaged(u)' /\ F(u)' = f
  BY <1>2 DEF Local, Engaged, F
<1>4. ~down
  BY <1>2 DEF Local
<1>5. CASE pc[t] = "idle"
  <2>1. UNCHANGED <<run, slot, pipe>>
    BY <1>5 DEF Thread, Prolog, Leaves, At, EnsureServing, EnsureLaunches, EnsureFails, Acquire,
       AcquireBusy, Drain, RelaySkipped, RelaySent, RelayBreaks, RelayReads, RelayLoses, RelayHears,
       RelayAcked, RelayFails, RelayNeeded, ReadHandle, MarkRelayed,
       ClearAbort, Publish, Send, SendFails, WaitLaunches, WaitEnds, WaitLoses, WaitOn, Waiting,
       ReadAnswer, ReadBroken, ReadNothing, GiveUp, GiveUpBroken, SettleDiscards, SettleEnds,
       SettleExpires, Answer, ClearCurrent, Release, Take, worker
  <2> QED
    BY <1>1, <1>3, <1>4, <1>5, <2>1 DEF Tidy, Clean, Engaged
<1>6. CASE pc[t] # "idle" /\ F(t) = f
  <2>1. CASE Clean(f)'
    BY <2>1 DEF Tidy, Clean
  <2>2. CASE ~InWindow(t) /\ UNCHANGED <<run, slot, pipe>>
    BY <1>1, <1>3, <1>4, <2>2 DEF Tidy, Clean, Engaged, InWindow
  <2>3. CASE /\ Engaged(t)' /\ job'[t] = job[t]
             /\ run'[f] = NoJob \/ slot'[f] = NoJob
             /\ pipe'[f] = <<>> \/ (Len(pipe'[f]) = 1 /\ run'[f] = NoJob /\ slot'[f] = NoJob)
    <3>1. F(t)' = f
      BY <1>6, <2>3 DEF F
    <3> QED
      BY <2>3, <3>1 DEF Tidy
  <2> QED
    BY <1>6, <2>1, <2>2, <2>3, MyFamily
<1>7. CASE pc[t] # "idle" /\ F(t) # f
  <2>1. run'[f] = run[f] /\ slot'[f] = slot[f] /\ pipe'[f] = pipe[f]
    BY <1>2, <1>7 DEF Local, Same
  <2>2. CASE Clean(f)
    BY <2>1, <2>2 DEF Tidy, Clean
  <2>3. CASE ~Clean(f)
    <3>1. PICK u \in Threads : Engaged(u) /\ F(u) = f
      BY <1>1, <1>4, <2>3 DEF Tidy
    <3>2. u # t
      BY <1>7, <3>1
    <3> QED
      BY <1>1, <1>3, <1>4, <2>1, <3>1, <3>2 DEF Tidy
  <2> QED
    BY <2>2, <2>3
<1> QED
  BY <1>5, <1>6, <1>7

LEMMA MarkedStep ==
    ASSUME WInv, NEW t \in Threads, Thread(t), NEW f \in Families
    PROVE  Marked(f)'
<1> USE DEF TypeOK, At
<1>f. TypeOK /\ Holds(t) /\ Relayed(t) /\ Marked(f) /\ (pc[t] # "idle" => F(t) \in Families)
  BY Mine DEF WInv, Base
<1> USE DEF Marked
<1>1. CASE EnsureServing(t) \/ EnsureFails(t) \/ AcquireBusy(t) \/ \E j \in Jobs : Take(t, j)
  BY <1>1, <1>f DEF EnsureServing, EnsureFails, Refuse, AcquireBusy, Take, Relayed, manager,
         worker
<1>2. CASE RelaySkipped(t) \/ ClearAbort(t) \/ Publish(t)
  BY <1>2, <1>f DEF RelaySkipped, AfterRelay, ClearAbort, Publish, Relayed, manager, worker
<1>3. CASE WaitEnds(t) \/ WaitLoses(t) \/ WaitOn(t)
  BY <1>3, <1>f DEF WaitEnds, Failed, WaitLoses, Waiting, WaitOn, Relayed, manager, worker
<1>4. CASE ReadBroken(t) \/ ReadNothing(t) \/ SettleEnds(t)
  BY <1>4, <1>f DEF ReadBroken, Failed, ReadNothing, SettleEnds, TimedOut, Relayed, manager,
         worker
<1>5. CASE Answer(t) \/ ClearCurrent(t) \/ Release(t) \/ Acquire(t)
  BY <1>5, <1>f DEF Answer, ClearCurrent, Release, TimedOut, Acquire, Relayed, manager, worker
<1>6. CASE MarkRelayed(t)
  BY <1>6, <1>f DEF MarkRelayed, AfterRelay, Relayed, manager, worker
<1>7. CASE Drain(t) \/ RelayAcked(t)
  BY <1>7, <1>f DEF Drain, RelayAcked, AfterRelay, RelayNeeded, Relayed, manager, worker
<1>8. CASE RelayFails(t)
  BY <1>8, <1>f DEF RelayFails, AfterRelay, Relayed, manager, worker
<1>9. CASE Send(t) \/ ReadAnswer(t)
  BY <1>9, <1>f DEF Send, ReadAnswer, Relayed, manager, worker
<1>10. CASE GiveUp(t) \/ SettleDiscards(t)
  BY <1>10, <1>f DEF GiveUp, SettleDiscards, TimedOut, Relayed, manager, worker
<1>11. CASE EnsureLaunches(t)
  BY <1>11, <1>f DEF EnsureLaunches, Launch, Relayed, manager, worker
<1>12. CASE WaitLaunches(t)
  BY <1>12, <1>f DEF WaitLaunches, Launch, Waiting, Relayed, manager, worker
<1>13. CASE SendFails(t)
  BY <1>13, <1>f DEF SendFails, SendBreaks, Failed, Relayed, manager, worker
<1>14. CASE GiveUpBroken(t)
  BY <1>14, <1>f DEF GiveUpBroken, SendBreaks, TimedOut, Relayed, manager, worker
<1>15. CASE SettleExpires(t)
  BY <1>15, <1>f DEF SettleExpires, TimedOut, Relayed, manager, worker
<1>16. CASE RelaySent(t)
  BY <1>16, <1>f DEF RelaySent, RelayNeeded, Relayed, manager, worker
<1>17. CASE RelayBreaks(t)
  BY <1>17, <1>f DEF RelayBreaks, SendBreaks, RelayNeeded, AfterRelay, Relayed, manager, worker
<1>18. CASE RelayReads(t) \/ RelayLoses(t)
  BY <1>18, <1>f DEF RelayReads, RelayLoses, AfterRelay, Relayed, manager, worker
<1>19. CASE RelayHears(t)
  BY <1>19, <1>f DEF RelayHears, Relayed, manager, worker
<1>20. CASE ReadHandle(t)
  BY <1>20, <1>f DEF ReadHandle, Relayed, manager, worker
<1> QED
  BY <1>1, <1>2, <1>3, <1>4, <1>5, <1>6, <1>7, <1>8, <1>9, <1>10, <1>11, <1>12, <1>13, <1>14,
         <1>15, <1>16, <1>17, <1>18, <1>19, <1>20
     DEF Thread, Prolog, Leaves

LEMMA ExclusiveStep ==
    ASSUME WInv, NEW t \in Threads, Thread(t)
    PROVE  Exclusive'
<1>1. Base /\ TypeOK /\ Holds(t) /\ Exclusive
  BY DEF WInv, Base
<1>2. \A u \in Threads \ {t} : F(u)' = F(u) /\ InWindow(u)' = InWindow(u)
  BY <1>1, LocalLemma DEF Local, F, InWindow
<1>3. CASE Acquire(t)
  <2>1. pc[t] # "idle" /\ st[F(t)] = "Ready" /\ F(t)' = F(t)
    BY <1>3 DEF Acquire, At, F
  <2>2. \A u \in Threads \ {t} : InWindow(u) => F(u) # F(t)
    BY <1>1, <2>1, SoloFamily DEF WInv, Held, InWindow
  <2> QED
    BY <1>1, <1>2, <2>1, <2>2 DEF Exclusive
<1>4. CASE Release(t)
  <2>1. ~InWindow(t)'
    BY <1>1, <1>4 DEF Release, Goto, InWindow, TypeOK
  <2> QED
    BY <1>1, <1>2, <2>1 DEF Exclusive
<1>5. CASE (InWindow(t)' <=> InWindow(t)) /\ (InWindow(t) => job'[t] = job[t])
  <2>1. InWindow(t) => F(t)' = F(t)
    BY <1>5 DEF F
  <2> QED
    BY <1>1, <1>2, <1>5, <2>1 DEF Exclusive
<1> QED
  BY <1>1, <1>3, <1>4, <1>5, Windows

LEMMA AnswerKept ==
    ASSUME NEW t \in Threads, Thread(t)
    PROVE  Answer(t) \/ EnsureFails(t) \/ AcquireBusy(t) \/ Release(t) \/ answer' = answer
<1>1. CASE EnsureServing(t) \/ EnsureLaunches(t) \/ Acquire(t) \/ \E j \in Jobs : Take(t, j)
  BY <1>1 DEF EnsureServing, EnsureLaunches, Launch, Acquire, Take, client
<1>2. CASE RelaySkipped(t) \/ ClearAbort(t) \/ Publish(t) \/ ClearCurrent(t)
  BY <1>2 DEF RelaySkipped, AfterRelay, ClearAbort, Publish, ClearCurrent, client
<1>3. CASE WaitEnds(t) \/ WaitLoses(t) \/ WaitOn(t) \/ WaitLaunches(t)
  BY <1>3 DEF WaitEnds, Failed, WaitLoses, Waiting, WaitOn, WaitLaunches, Launch, client
<1>4. CASE ReadBroken(t) \/ ReadNothing(t) \/ SettleEnds(t)
  BY <1>4 DEF ReadBroken, Failed, ReadNothing, SettleEnds, TimedOut, client
<1>5. CASE MarkRelayed(t) \/ Drain(t) \/ RelayAcked(t) \/ RelayFails(t)
  BY <1>5 DEF MarkRelayed, AfterRelay, Drain, RelayAcked, RelayFails, client
<1>6. CASE Send(t) \/ ReadAnswer(t)
  BY <1>6 DEF Send, ReadAnswer, client
<1>7. CASE GiveUp(t) \/ SettleDiscards(t)
  BY <1>7 DEF GiveUp, SettleDiscards, TimedOut, client
<1>8. CASE SendFails(t) \/ GiveUpBroken(t) \/ SettleExpires(t)
  BY <1>8 DEF SendFails, SendBreaks, Failed, GiveUpBroken, TimedOut, SettleExpires, client
<1>9. CASE RelaySent(t)
  BY <1>9 DEF RelaySent, RelayNeeded, client
<1>10. CASE RelayBreaks(t)
  BY <1>10 DEF RelayBreaks, SendBreaks, RelayNeeded, AfterRelay, client
<1>11. CASE RelayReads(t) \/ RelayLoses(t)
  BY <1>11 DEF RelayReads, RelayLoses, AfterRelay, client
<1>12. CASE RelayHears(t)
  BY <1>12 DEF RelayHears, client
<1>13. CASE ReadHandle(t)
  BY <1>13 DEF ReadHandle, client
<1> QED
  BY <1>1, <1>2, <1>3, <1>4, <1>5, <1>6, <1>7, <1>8, <1>9, <1>10, <1>11, <1>12, <1>13
     DEF Thread, Prolog, Leaves

LEMMA PairedStep ==
    ASSUME IInv, NEW t \in Threads, Thread(t)
    PROVE  Paired'
<1> USE DEF TypeOK, At, Paired
<1>1. TypeOK /\ Holds(t) /\ Fine(t) /\ Paired /\ (pc[t] # "idle" => job[t] \in Jobs)
  BY Mine DEF IInv, WInv, Base
<1>2. CASE Answer(t)
  <2>1. /\ res[t] \in Result /\ res[t].from \in {NoJob, job[t]}
        /\ answer' = answer \/ answer' = [answer EXCEPT ![job[t]] = [res[t] EXCEPT !.answered = TRUE]]
    BY <1>1, <1>2 DEF Answer, Fine, OwnResult
  <2>2. [res[t] EXCEPT !.answered = TRUE].from = res[t].from
    BY <2>1 DEF Result
  <2> QED
    BY <1>1, <2>1, <2>2
<1>3. CASE EnsureFails(t) \/ AcquireBusy(t)
  <2>1. PICK r : r.from = NoJob /\ answer' = [answer EXCEPT ![job[t]] = r]
    BY <1>3 DEF EnsureFails, AcquireBusy, Refuse
  <2> QED
    BY <1>1, <2>1
<1>4. CASE Release(t)
  BY <1>1, <1>4 DEF Release, TimedOut
<1>5. CASE answer' = answer
  BY <1>1, <1>5
<1> QED
  BY <1>2, <1>3, <1>4, <1>5, AnswerKept

LEMMA ThreadWindow ==
    ASSUME WInv, Calm, NEW t \in Threads, Thread(t)
    PROVE  WInv'
<1>1. Base'
  BY ThreadBase DEF WInv
<1>2. \A u \in Threads : Held(u)' /\ Relayed(u)'
  BY HeldStep, OthersServed
<1> QED
  BY <1>1, <1>2, ExclusiveStep, MarkedStep DEF WInv

LEMMA ThreadCalm ==
    ASSUME OneRecord, IInv, Calm, NEW t \in Threads, Thread(t)
    PROVE  IInv'
<1>1. WInv'
  BY ThreadWindow DEF IInv
<1>2. Paired'
  BY PairedStep
<1>3. \A u \in Threads : Fine(u)'
  <2>1. Fine(t)'
    BY ReadingStep, RecordStep, WorkStep DEF Fine
  <2> QED
    BY <2>1, OthersFine
<1>4. \A f \in Families : Tidy(f)'
  BY TidyStep
<1>5. cur'.done \/ \E u \in Threads : Published(u)'
  <2>1. CASE Publish(t)
    BY <2>1 DEF Publish, Goto, Published, IInv, WInv, Base, TypeOK
  <2>2. CASE ClearCurrent(t)
    BY <2>2 DEF ClearCurrent
  <2>3. CASE cur' = cur /\ (Published(t) => Published(t)')
    <3>1. \A u \in Threads \ {t} : Published(u)' = Published(u)
      BY LocalLemma DEF Local, Published, IInv, WInv, Base
    <3> QED
      BY <2>3, <3>1 DEF IInv, WInv
  <2> QED
    BY <2>1, <2>2, <2>3, RecordStep
<1> QED
  BY <1>1, <1>2, <1>3, <1>4, <1>5 DEF IInv, WInv

LEMMA WorkerWindow ==
    ASSUME WInv, NEW f \in Families, Worker(f)
    PROVE  WInv'
<1>1. Base /\ Base' /\ TypeOK /\ Exclusive /\ Process(f) /\ Marked(f)
  BY WorkerBase DEF WInv, Base
<1>2. /\ UNCHANGED <<pc, job, gen>>
      /\ \A g \in Families \ {f} : Same(g)
  BY <1>1, WorkerLocal DEF threads
<1>3. Exclusive'
  BY <1>1, <1>2 DEF Exclusive, InWindow, F
<1>4. \A g \in Families \ {f} : Marked(g)'
  BY <1>2 DEF WInv, Same, Marked
<1>5. Marked(f)' /\ (st'[f] = st[f] \/ st'[f] = "Crashed") /\ (alive'[f] => alive[f]) /\ (told[f] = "yes" => told'[f] = "yes")
  <2> USE DEF TypeOK, Marked
  <2>1. CASE WorkerOpens(f) \/ WorkerTakes(f) \/ WorkerAnswers(f)
    BY <1>1, <2>1 DEF WorkerOpens, WorkerTakes, WorkerAnswers, manager
  <2>2. CASE WorkerDies(f)
    BY <1>1, <2>2 DEF WorkerDies
  <2>3. CASE Reap(f)
    BY <1>1, <2>3 DEF Reap
  <2> QED
    BY <2>1, <2>2, <2>3 DEF Worker
<1>6. ASSUME NEW t \in Threads
      PROVE  Held(t)' /\ Relayed(t)'
  <2>1. Held(t) /\ Relayed(t) /\ (InWindow(t) => F(t) \in Families)
    BY <1>1, Mine DEF WInv, InWindow
  <2>2. F(t)' = F(t) /\ InWindow(t)' = InWindow(t)
    BY <1>2 DEF F, InWindow
  <2> QED
    BY <1>2, <1>5, <2>1, <2>2 DEF Held, Relayed, InWindow, Same
<1> QED
  BY <1>1, <1>3, <1>4, <1>5, <1>6 DEF WInv

LEMMA WorkerCalm ==
    ASSUME IInv, NEW f \in Families, Worker(f)
    PROVE  IInv'
<1>1. /\ Base /\ TypeOK /\ Process(f) /\ Tidy(f) /\ WInv'
      /\ pipe[f] \in Seq(Frame)
  BY WorkerWindow DEF IInv, WInv, Base, TypeOK
<1>2. /\ UNCHANGED <<pc, job, res, on, cur, abort, late, cancelled, answer, down, gen>>
      /\ \A g \in Families \ {f} : Same(g)
  BY <1>1, WorkerLocal DEF threads, shared, client
<1>3. Paired' /\ (cur'.done \/ \E t \in Threads : Published(t)')
  BY <1>2 DEF IInv, Paired, Published
<1>4. \A g \in Families \ {f} : Tidy(g)'
  BY <1>2 DEF IInv, Same, Tidy, Clean, Engaged, F
<1>6. Tidy(f)'
  <2> SUFFICES ASSUME ~down PROVE Tidy(f)'
    BY <1>2 DEF Tidy
  <2>1. \A t \in Threads : Engaged(t)' = Engaged(t) /\ F(t)' = F(t)
    BY <1>2 DEF Engaged, F
  <2>2. /\ Clean(f) => Clean(f)'
        /\ run'[f] = NoJob \/ slot'[f] = NoJob
        /\ pipe'[f] = <<>> \/ (Len(pipe'[f]) = 1 /\ run'[f] = NoJob /\ slot'[f] = NoJob)
    <3> USE DEF TypeOK, Tidy, Clean
    <3>1. CASE WorkerOpens(f) \/ WorkerTakes(f)
      BY <1>1, <3>1 DEF WorkerOpens, WorkerTakes
    <3>2. CASE WorkerAnswers(f)
      <4>1. PICK e : pipe' = [pipe EXCEPT ![f] = Append(@, e)]
        BY <3>2 DEF WorkerAnswers
      <4>2. pipe[f] = <<>> /\ slot[f] = NoJob /\ run[f] # NoJob /\ run'[f] = NoJob /\ slot'[f] = slot[f]
        BY <1>1, <3>2 DEF WorkerAnswers
      <4>3. pipe'[f] = <<e>>
        BY <1>1, <4>1, <4>2
      <4> QED
        BY <4>2, <4>3
    <3>3. CASE WorkerDies(f)
      BY <1>1, <3>3 DEF WorkerDies
    <3>4. CASE Reap(f)
      BY <1>1, <3>4 DEF Reap, Process
    <3> QED
      BY <3>1, <3>2, <3>3, <3>4 DEF Worker
  <2> QED
    BY <1>1, <2>1, <2>2 DEF Tidy
<1>7. ASSUME NEW t \in Threads
      PROVE  Fine(t)'
  <2>1. Fine(t) /\ (InWindow(t) => F(t) \in Families)
    BY <1>1, Mine DEF IInv, WInv, InWindow
  <2>2. F(t)' = F(t) /\ InWindow(t)' = InWindow(t)
    BY <1>2 DEF F, InWindow
  <2>3. Reading(t)' /\ Named(t)' /\ AbortOwn(t)' /\ OwnResult(t)'
    BY <1>2, <2>1, <2>2 DEF Fine, Reading, Named, Published, AbortOwn, OwnResult
  <2>4. OwnWork(t)'
    <3> SUFFICES ASSUME pc[t] \in {"read", "giveup", "settle"} \/ (pc[t] = "wait" /\ ~down)
                 PROVE  /\ run'[F(t)] \in {NoJob, job[t]} /\ slot'[F(t)] \in {NoJob, job[t]}
                        /\ \A k \in DOMAIN pipe'[F(t)] : pipe'[F(t)][k].job = job[t]
      BY <1>2, <2>2 DEF OwnWork
    <3>1. /\ run[F(t)] \in {NoJob, job[t]} /\ slot[F(t)] \in {NoJob, job[t]}
          /\ \A k \in DOMAIN pipe[F(t)] : pipe[F(t)][k].job = job[t]
          /\ F(t) \in Families
      BY <2>1 DEF Fine, OwnWork, InWindow
    <3>2. CASE F(t) # f
      BY <1>2, <3>1, <3>2 DEF Same
    <3>3. CASE F(t) = f
      <4>1. CASE WorkerOpens(f) \/ WorkerTakes(f)
        BY <1>1, <3>1, <3>3, <4>1 DEF WorkerOpens, WorkerTakes, TypeOK
      <4>2. CASE WorkerAnswers(f)
        <5>1. PICK kind : pipe' = [pipe EXCEPT ![f] = Append(@, [job |-> run[f], kind |-> kind])]
          BY <4>2 DEF WorkerAnswers
        <5>2. run[f] = job[t] /\ run'[f] = NoJob /\ slot'[f] = slot[f]
          BY <1>1, <3>1, <3>3, <4>2 DEF WorkerAnswers, TypeOK
        <5>3. pipe'[f] = Append(pipe[f], [job |-> job[t], kind |-> kind])
          BY <1>1, <5>1, <5>2 DEF TypeOK
        <5>4. \A k \in DOMAIN pipe'[f] : pipe'[f][k].job = job[t]
          BY <1>1, <3>1, <3>3, <5>3
        <5> QED
          BY <3>1, <3>3, <5>2, <5>4
      <4>3. CASE WorkerDies(f)
        BY <1>1, <3>1, <3>3, <4>3 DEF WorkerDies, TypeOK
      <4>4. CASE Reap(f)
        BY <1>1, <3>1, <3>3, <4>4 DEF Reap, TypeOK
      <4> QED
        BY <4>1, <4>2, <4>3, <4>4 DEF Worker
    <3> QED
      BY <3>2, <3>3
  <2> QED
    BY <2>3, <2>4 DEF Fine
<1> QED
  BY <1>1, <1>3, <1>4, <1>6, <1>7 DEF IInv

LEMMA OutsideWindow ==
    ASSUME WInv, Outside
    PROVE  WInv'
<1>1. Base' /\ TypeOK
  BY OutsideBase DEF WInv, Base
<1>2. UNCHANGED <<st, gen, alive, mark, told, pc, job>>
  BY <1>1, OutsideLocal DEF manager, worker, threads
<1> QED
  BY <1>1, <1>2 DEF WInv, Exclusive, InWindow, F, Held, Relayed, Marked

LEMMA OutsideCalm ==
    ASSUME OneRecord, IInv, Outside
    PROVE  IInv'
<1>1. WInv' /\ Base /\ TypeOK
  BY OutsideWindow DEF IInv, WInv, Base
<1>2. /\ UNCHANGED <<st, gen, alive, mark, told, run, slot, pipe, pc, job, res, on, cur, answer>>
      /\ late \subseteq late' /\ cancelled \subseteq cancelled' /\ (down => down')
  BY <1>1, OutsideLocal DEF manager, worker, threads
<1>3. Paired' /\ (cur'.done \/ \E t \in Threads : Published(t)')
  BY <1>2 DEF IInv, Paired, Published
<1>4. \A f \in Families : Tidy(f)'
  BY <1>2 DEF IInv, Tidy, Clean, Engaged, F
<1>5. ASSUME NEW t \in Threads
      PROVE  Fine(t)'
  <2>1. Fine(t) /\ Holds(t)
    BY <1>1 DEF IInv, WInv, Base
  <2>2. Reading(t)' /\ Named(t)' /\ OwnResult(t)'
    BY <1>2, <2>1 DEF Fine, Reading, Named, Published, OwnResult, F
  <2>3. OwnWork(t)'
    BY <1>2, <2>1 DEF Fine, OwnWork, F
  <2>4. abort' => abort \/ (~cur.done /\ cur.job \in late' \cup cancelled')
    BY DEF Outside, DeadlinePasses, Cancel, Watchdog, Shutdown, shared, client
  <2>5. pc[t] = "publish" => cur.done
    <3> SUFFICES ASSUME pc[t] = "publish", ~cur.done PROVE FALSE
      OBVIOUS
    <3>1. PICK u \in Threads : Published(u)
      BY DEF IInv, WInv
    <3>2. InWindow(t) /\ InWindow(u) /\ t # Kick /\ u # Kick
      BY <1>1, <2>1, <3>1 DEF InWindow, Published, Holds, Base
    <3>3. t = u
      BY <1>1, <3>2, OnePublisher DEF IInv, WInv
    <3> QED
      BY <3>1, <3>3 DEF Published
  <2>6. AbortOwn(t)'
    BY <1>2, <2>1, <2>4, <2>5 DEF Fine, Named, Published, AbortOwn
  <2> QED
    BY <2>2, <2>3, <2>6 DEF Fine
<1> QED
  BY <1>1, <1>3, <1>4, <1>5 DEF IInv, WInv

LEMMA StutterWindow ==
    ASSUME WInv, UNCHANGED vars
    PROVE  WInv'
<1>1. Base'
  BY BaseStep DEF WInv
<1> QED
  BY <1>1 DEF WInv, Exclusive, InWindow, F, Held, Relayed, Marked, vars, manager, worker, threads

LEMMA StutterCalm ==
    ASSUME IInv, UNCHANGED vars
    PROVE  IInv'
<1>1. WInv'
  BY StutterWindow DEF IInv
<1> USE DEF vars, manager, worker, threads, shared, client, env
<1>2. Paired' /\ (cur'.done \/ \E t \in Threads : Published(t)')
  BY DEF IInv, Paired, Published
<1>3. \A f \in Families : Tidy(f)'
  BY DEF IInv, Tidy, Clean, Engaged, F
<1>4. \A t \in Threads : Fine(t)'
  BY DEF IInv, Fine, Reading, Named, Published, AbortOwn, OwnWork, OwnResult, F
<1> QED
  BY <1>1, <1>2, <1>3, <1>4 DEF IInv, WInv

LEMMA StepLemma ==
    ASSUME OneRecord
    PROVE  IInv /\ [Next]_vars /\ [Calm]_vars => IInv'
<1> SUFFICES ASSUME IInv, [Next]_vars, [Calm]_vars PROVE IInv'
  OBVIOUS
<1>1. CASE UNCHANGED vars
  BY <1>1, StutterCalm
<1>2. CASE Calm /\ \E t \in Threads : Thread(t)
  BY <1>2, ThreadCalm
<1>3. CASE \E f \in Families : Worker(f)
  BY <1>3, WorkerCalm
<1>4. CASE Outside
  BY <1>4, OutsideCalm
<1> QED
  BY <1>1, <1>2, <1>3, <1>4 DEF Next, Outside

-----------------------------------------------------------------------------
\* For any families, jobs and launches a Busy family has a thread inside its
\* window that will release it: no exit of either loop takes it out of service.
THEOREM BusyCorrect == Spec => [](TypeOK /\ BusyHasWindow)
<1>1. Init => Base
  BY BaseInit
<1>2. Base /\ [Next]_vars => Base'
  BY BaseStep
<1>3. Base => TypeOK /\ BusyHasWindow
  BY DEF Base
<1> QED
  BY <1>1, <1>2, <1>3, PTL DEF Spec

\* For any number of families, no two threads are inside windows of one family
\* as long as none is launched inside a window.
THEOREM WindowsApart == Spec /\ [][Calm]_vars => []WInv
<1>1. Init => WInv
  BY InitLemma DEF IInv
<1>2. WInv /\ [Next]_vars /\ [Calm]_vars => WInv'
  <2> SUFFICES ASSUME WInv, [Next]_vars, [Calm]_vars PROVE WInv'
    OBVIOUS
  <2>1. CASE UNCHANGED vars
    BY <2>1, StutterWindow
  <2>2. CASE Calm /\ \E t \in Threads : Thread(t)
    BY <2>2, ThreadWindow
  <2>3. CASE \E f \in Families : Worker(f)
    BY <2>3, WorkerWindow
  <2>4. CASE Outside
    BY <2>4, OutsideWindow
  <2> QED
    BY <2>1, <2>2, <2>3, <2>4 DEF Next, Outside
<1> QED
  BY <1>1, <1>2, PTL DEF Spec

\* The inductive invariant holds in every reachable state of a calm host.
THEOREM Invariance == OneRecord => (Spec /\ [][Calm]_vars => []IInv)
<1> SUFFICES ASSUME OneRecord PROVE Spec /\ [][Calm]_vars => []IInv
  OBVIOUS
<1>1. Init => IInv
  BY InitLemma
<1>2. IInv /\ [Next]_vars /\ [Calm]_vars => IInv'
  BY StepLemma
<1> QED
  BY <1>1, <1>2, PTL DEF Spec

\* While a thread reads or settles, nothing but its own job is in its worker or
\* on its pipe.
THEOREM WindowCorrect == OneRecord => (Spec /\ [][Calm]_vars => []WindowIsExclusive)
<1> SUFFICES ASSUME OneRecord PROVE Spec /\ [][Calm]_vars => []WindowIsExclusive
  OBVIOUS
<1>1. IInv => WindowIsExclusive
  BY DEF IInv, WInv, Base, Fine, OwnWork, WindowIsExclusive, OnlyOwnJob
<1>2. Spec /\ [][Calm]_vars => []IInv
  BY Invariance
<1> QED
  BY <1>1, <1>2, PTL

\* A job is given up only for its own deadline or its own client's cancel.
THEOREM GiveUpCorrect == OneRecord => (Spec /\ [][Calm]_vars => []GiveUpIsOwn)
<1> SUFFICES ASSUME OneRecord PROVE Spec /\ [][Calm]_vars => []GiveUpIsOwn
  OBVIOUS
<1>1. IInv => GiveUpIsOwn
  BY DEF IInv, WInv, Fine, AbortOwn, GiveUpIsOwn
<1>2. Spec /\ [][Calm]_vars => []IInv
  BY Invariance
<1> QED
  BY <1>1, <1>2, PTL

\* No client gets the text of another client's job.
THEOREM PairedCorrect == OneRecord => (Spec /\ [][Calm]_vars => []Paired)
<1> SUFFICES ASSUME OneRecord PROVE Spec /\ [][Calm]_vars => []Paired
  OBVIOUS
<1>1. IInv => Paired
  BY DEF IInv, WInv
<1>2. Spec /\ [][Calm]_vars => []IInv
  BY Invariance
<1> QED
  BY <1>1, <1>2, PTL

\* A launch that is marked as relayed has its model id, whatever the families.
THEOREM MarkedCorrect == Spec /\ [][Calm]_vars => []MarkedIsTold
<1>1. WInv => MarkedIsTold
  BY DEF WInv, Marked, MarkedIsTold
<1> QED
  BY <1>1, WindowsApart, PTL

\* The terminal event a settle discards is the given-up job's.
THEOREM SettleCorrect == OneRecord => (Spec /\ [][Calm]_vars => SettleIsOwn)
<1> SUFFICES ASSUME OneRecord PROVE Spec /\ [][Calm]_vars => SettleIsOwn
  OBVIOUS
<1> DEFINE Own(t) ==
             pc[t] = "settle" /\ pc'[t] = "answer" /\ pipe[F(t)] # <<>>
             /\ pipe'[F(t)] = Tail(pipe[F(t)]) =>
                Head(pipe[F(t)]).job = job[t]
<1>1. IInv => \A t \in Threads : Own(t)
  <2> SUFFICES ASSUME IInv, NEW t \in Threads, pc[t] = "settle", pipe[F(t)] # <<>>
               PROVE  Head(pipe[F(t)]).job = job[t]
    OBVIOUS
  <2>1. F(t) \in Families
    BY Mine DEF IInv, WInv
  <2>2. pipe[F(t)] \in Seq(Frame)
    BY <2>1 DEF IInv, WInv, Base, TypeOK
  <2>3. \A k \in DOMAIN pipe[F(t)] : pipe[F(t)][k].job = job[t]
    BY DEF IInv, WInv, Fine, OwnWork
  <2> QED
    BY <2>2, <2>3
<1>2. Spec /\ [][Calm]_vars => []IInv
  BY Invariance
<1> QED
  BY <1>1, <1>2, PTL DEF SettleIsOwn

\* A host none of whose families is launched twice is calm, and so is one whose
\* families are each served by one thread.
THEOREM CalmRuns == MaxGen = 1 \/ Solo => (Spec => [][Calm]_vars)
<1> SUFFICES ASSUME MaxGen = 1 \/ Solo PROVE Spec => [][Calm]_vars
  OBVIOUS
<1>1. Base /\ [Next]_vars => [Calm]_vars
  <2> SUFFICES ASSUME Base, Next, MaxGen = 1 PROVE LaunchQuiet
    BY DEF Calm
  <2>1. CASE \E f \in Families : Worker(f)
    BY <2>1, WorkerLocal DEF Base, LaunchQuiet
  <2>2. CASE Outside
    BY <2>2, OutsideLocal DEF Base, LaunchQuiet, manager
  <2>3. CASE \E t \in Threads : Thread(t)
    <3>1. PICK t \in Threads : Thread(t)
      BY <2>3
    <3>2. CASE gen' = gen
      BY <3>2 DEF LaunchQuiet
    <3>3. CASE \E f \in Families : Launch(f)
      <4>1. PICK f \in Families : Launch(f)
        BY <3>3
      <4>2. gen[f] = 0 /\ \A g \in Families \ {f} : gen'[g] = gen[g]
        BY <4>1 DEF Launch, Base, TypeOK
      <4>3. \A u \in Threads : InWindow(u) => F(u) # f
        BY <4>2 DEF Base, Holds, InWindow
      <4> QED
        BY <4>2, <4>3 DEF LaunchQuiet
    <3> QED
      BY <3>1, <3>2, <3>3, GenStep DEF Base
  <2> QED
    BY <2>1, <2>2, <2>3 DEF Next, Outside
<1>2. Init => Base
  BY BaseInit
<1>3. Base /\ [Next]_vars => Base'
  BY BaseStep
<1> QED
  BY <1>1, <1>2, <1>3, PTL DEF Spec
=============================================================================
