------------------------ MODULE WorkerManager_proofs ------------------------
(***************************************************************************)
(* Proofs about WorkerManager, for every set of models and callers and for *)
(* every bound.                                                            *)
(*                                                                         *)
(* The inductive invariant has eight parts.  SpawnInv ties the Spawning   *)
(* state to the caller that holds mu, StopInv the Stopping state to the    *)
(* stopping thread; with HandlesMatchState they show that a snapshot taken *)
(* by GracefulStop stays current.  OwnInv ties a caller's acquisition to   *)
(* the launch that serves it, SawInv the handle it read for a relay mark   *)
(* to the launches since, PoolInv the pool entries to the family's state,  *)
(* EndedInv the process a stop waited for to its end, and TrackerInv the   *)
(* reserved total to what the entries hold.                                *)
(***************************************************************************)
EXTENDS WorkerManager, FiniteSetTheorems, TLAPS

USE ModelsAssumption, CallersAssumption, BytesAssumption

SpawnInv ==
    /\ mu = NoCaller => \A f \in Families : st[f] # "Spawning"
    /\ mu # NoCaller => muFam \in Families /\ st[muFam] = "Spawning"
    /\ \A f \in Families : st[f] = "Spawning" => muFam = f

StopInv ==
    /\ stop.pc = "snap" /\ ~down => st[stop.fam] = "Stopping"
    /\ \A f \in Families : st[f] = "Stopping" =>
           stop.pc \in {"snap", "wait", "publish"} /\ stop.fam = f
    /\ ~down => cand \subseteq Models
    /\ ~down /\ stop.pc \in {"snap", "wait", "publish", "reset"} => stop.fam \in Models
    /\ stop.pc \in {"sweep", "end"} => down

HandleInv == HandlesMatchState /\ StopSnapshotIsCurrent

OwnInv ==
    \A c \in Callers : own[c] # NoFam =>
        /\ acq[c] # 0 /\ acq[c] <= gen[own[c]]
        /\ own[c] \in pool /\ ~down
        /\ acq[c] = proc[own[c]] => st[own[c]] = "Busy" \/ tainted[own[c]]

SawInv ==
    \A c \in Callers : \A h \in saw[c] :
        /\ own[c] # NoFam
        /\ h = 0 \/ (acq[c] <= h /\ h <= gen[own[c]])

PoolInv == \A m \in Models \ pool : st[m] = "Stopped" /\ charged[m] = 0

EndedInv == stop.pc = "publish" => stop.proc \notin alive[stop.fam]

TrackerInv == IsFiniteSet(ChargedBytes) /\ TrackerIsSum

IInv == TypeOK /\ SpawnInv /\ StopInv /\ HandleInv /\ OwnInv /\ SawInv /\ PoolInv /\ EndedInv
             /\ SingleFlight /\ BusyIsOwned /\ NoDeadCharge /\ TrackerInv

(* Every step keeps the type invariant. *)
LEMMA TypeStep ==
  ASSUME TypeOK, [Next]_vars PROVE TypeOK'
<1>1. ASSUME NEW f \in Families, WorkerExits(f) PROVE TypeOK'
  BY <1>1 DEF WorkerExits, TypeOK, handles, poolVars, callerVars, stopVars,
         Families, States, StopPcs, Serving, MuFree, Idle
<1>2. ASSUME NEW f \in Families, BackoffExpires(f) PROVE TypeOK'
  BY <1>2 DEF BackoffExpires, TypeOK, handles, poolVars, callerVars, stopVars,
         Families, States, StopPcs, Serving, MuFree, Idle
<1>3. ASSUME NEW m \in Models, IdleElapses(m) PROVE TypeOK'
  BY <1>3 DEF IdleElapses, TypeOK, handles, poolVars, callerVars, stopVars,
         Families, States, StopPcs, Serving, MuFree, Idle
<1>4. ASSUME NEW m \in Models, WarmHold(m) PROVE TypeOK'
  BY <1>4 DEF WarmHold, TypeOK, handles, poolVars, callerVars, stopVars,
         Families, States, StopPcs, Serving, MuFree, Idle
<1>5. ASSUME NEW m \in Models, WarmRelease(m) PROVE TypeOK'
  BY <1>5 DEF WarmRelease, TypeOK, handles, poolVars, callerVars, stopVars,
         Families, States, StopPcs, Serving, MuFree, Idle
<1>6. ASSUME NEW m \in Models, PoolEnsure(m) PROVE TypeOK'
  BY <1>6 DEF PoolEnsure, TypeOK, handles, poolVars, callerVars, stopVars,
         Families, States, StopPcs, Serving, MuFree, Idle
<1>7. ASSUME NEW c \in Callers, NEW f \in Families, EnsureNoExe(c, f) PROVE TypeOK'
  BY <1>7 DEF EnsureNoExe, Spawnable, MayUse, TypeOK, handles, poolVars,
         callerVars, stopVars, Families, States, StopPcs, Serving, MuFree,
         Idle
<1>8. ASSUME NEW c \in Callers, NEW f \in Families, EnsureNoPipe(c, f) PROVE TypeOK'
  BY <1>8 DEF EnsureNoPipe, Spawnable, MayUse, TypeOK, handles, poolVars,
         callerVars, stopVars, Families, States, StopPcs, Serving, MuFree,
         Idle
<1>9. ASSUME NEW c \in Callers, NEW f \in Families, EnsureSpawnFails(c, f) PROVE TypeOK'
  BY <1>9 DEF EnsureSpawnFails, Spawnable, MayUse, Finalize, ClearRelay,
         TypeOK, handles, poolVars, callerVars, stopVars, Families, States,
         StopPcs, Serving, MuFree, Idle
<1>10. ASSUME NEW c \in Callers, NEW f \in Families, EnsureLaunch(c, f) PROVE TypeOK'
  BY <1>10 DEF EnsureLaunch, Spawnable, MayUse, ClearRelay, TypeOK, handles,
         poolVars, callerVars, stopVars, Families, States, StopPcs, Serving,
         MuFree, Idle
<1>11. ASSUME NEW c \in Callers, HandshakeReady(c) PROVE TypeOK'
  <2>1. muFam \in pool => Bytes[muFam] \in Nat
    BY DEF TypeOK
  <2>2. charged' \in [Models -> Nat] /\ reserved' \in Nat
    BY <1>11, <2>1 DEF HandshakeReady, TypeOK
  <2>3. QED
    BY <1>11, <2>2 DEF HandshakeReady, HandshakeEnds, TypeOK, stopVars, States
<1>12. ASSUME NEW c \in Callers, HandshakeNoConnect(c) PROVE TypeOK'
  BY <1>12 DEF HandshakeNoConnect, HandshakeEnds, Finalize, Terminated,
         TypeOK, handles, poolVars, callerVars, stopVars, Families, States,
         StopPcs, Serving, MuFree, Idle
<1>13. ASSUME NEW c \in Callers, HandshakeRejected(c) PROVE TypeOK'
  BY <1>13 DEF HandshakeRejected, HandshakeEnds, Finalize, Terminated, TypeOK,
         handles, poolVars, callerVars, stopVars, Families, States, StopPcs,
         Serving, MuFree, Idle
<1>14. ASSUME NEW c \in Callers, HandshakeUnreadable(c) PROVE TypeOK'
  BY <1>14 DEF HandshakeUnreadable, HandshakeEnds, Finalize, TypeOK, handles,
         poolVars, callerVars, stopVars, Families, States, StopPcs, Serving,
         MuFree, Idle
<1>15. ASSUME NEW c \in Callers, NEW m \in Models, TrySetBusy(c, m) PROVE TypeOK'
  BY <1>15 DEF TrySetBusy, TypeOK, handles, poolVars, callerVars, stopVars,
         Families, States, StopPcs, Serving, MuFree, Idle
<1>16. ASSUME NEW c \in Callers, Release(c) PROVE TypeOK'
  BY <1>16 DEF Release, TypeOK, handles, poolVars, callerVars, stopVars,
         Families, States, StopPcs, Serving, MuFree, Idle
<1>17. ASSUME NEW c \in Callers, MarkRelayed(c) PROVE TypeOK'
  <2>1. PICK h \in saw[c] : relayed' = [relayed EXCEPT ![own[c]] = h]
    BY <1>17 DEF MarkRelayed
  <2>2. h \in Nat /\ saw' \in [Callers -> SUBSET Nat]
    BY <1>17, <2>1 DEF MarkRelayed, TypeOK
  <2>3. relayed' \in [Models -> Nat]
    BY <2>1, <2>2 DEF TypeOK
  <2> QED
    BY <1>17, <2>2, <2>3 DEF MarkRelayed, TypeOK, handles, stopVars
<1>34. ASSUME NEW c \in Callers, ReadHandle(c) PROVE TypeOK'
  <2>1. own[c] \in Models
    BY <1>34 DEF ReadHandle, TypeOK
  <2>2. proc[own[c]] \in Nat
    BY <2>1 DEF TypeOK, Families
  <2>3. saw' \in [Callers -> SUBSET Nat]
    BY <1>34, <2>2 DEF ReadHandle, TypeOK
  <2> QED
    BY <1>34, <2>3 DEF ReadHandle, TypeOK, handles, poolVars, stopVars
<1>18. ASSUME NEW c \in Callers, NEW f \in Families, SendStalled(c, f) PROVE TypeOK'
  BY <1>18 DEF SendStalled, MaySend, Finalize, Terminated, ResetAccounting,
         PoolKey, Monus, TypeOK, handles, poolVars, callerVars, stopVars,
         Families, States, StopPcs, Serving, MuFree, Idle
<1>19. ASSUME NEW c \in Callers, NEW f \in Families, SendBroken(c, f) PROVE TypeOK'
  BY <1>19 DEF SendBroken, MaySend, Finalize, Terminated, ResetAccounting,
         PoolKey, Monus, TypeOK, handles, poolVars, callerVars, stopVars,
         Families, States, StopPcs, Serving, MuFree, Idle
<1>20. ASSUME NEW c \in Callers, TerminateUnresponsive(c) PROVE TypeOK'
  BY <1>20 DEF TerminateUnresponsive, Finalize, Terminated, ResetAccounting,
         PoolKey, Monus, TypeOK, handles, poolVars, callerVars, stopVars,
         Families, States, StopPcs, Serving, MuFree, Idle
<1>21. ASSUME NEW f \in Families, ReaperCrash(f) PROVE TypeOK'
  BY <1>21 DEF ReaperCrash, Exited, Finalize, ResetAccounting, Monus, TypeOK,
         handles, poolVars, callerVars, stopVars, Families, States, StopPcs,
         Serving, MuFree, Idle
<1>22. ASSUME ReaperCollect PROVE TypeOK'
  BY <1>22 DEF ReaperCollect, Evictable, TypeOK, handles, poolVars,
         callerVars, stopVars, Families, States, StopPcs, Serving, MuFree,
         Idle
<1>23. ASSUME NEW m \in Models, ReaperClaim(m) PROVE TypeOK'
  BY <1>23 DEF ReaperClaim, TypeOK, handles, poolVars, callerVars, stopVars,
         Families, States, StopPcs, Serving, MuFree, Idle
<1>24. ASSUME NEW m \in Models, ReaperSkip(m) PROVE TypeOK'
  BY <1>24 DEF ReaperSkip, AfterFamily, TypeOK, handles, poolVars, callerVars,
         stopVars, Families, States, StopPcs, Serving, MuFree, Idle
<1>25. ASSUME ShutdownBegin PROVE TypeOK'
  BY <1>25 DEF ShutdownBegin, TypeOK, handles, poolVars, callerVars, stopVars,
         Families, States, StopPcs, Serving, MuFree, Idle
<1>26. ASSUME NEW f \in Families, ShutdownNext(f) PROVE TypeOK'
  BY <1>26 DEF ShutdownNext, TypeOK, handles, poolVars, callerVars, stopVars,
         Families, States, StopPcs, Serving, MuFree, Idle
<1>27. ASSUME StopSnapshot PROVE TypeOK'
  BY <1>27 DEF StopSnapshot, TypeOK, handles, poolVars, callerVars, stopVars,
         Families, States, StopPcs, Serving, MuFree, Idle
<1>28. ASSUME StopNothing PROVE TypeOK'
  BY <1>28 DEF StopNothing, AfterStop, AfterFamily, TypeOK, handles, poolVars,
         callerVars, stopVars, Families, States, StopPcs, Serving, MuFree,
         Idle
<1>29. ASSUME StopWait PROVE TypeOK'
  BY <1>29 DEF StopWait, TypeOK, handles, poolVars, callerVars, stopVars,
         Families, States, StopPcs, Serving, MuFree, Idle
<1>30. ASSUME StopPublish PROVE TypeOK'
  BY <1>30 DEF StopPublish, AfterStop, AfterFamily, TypeOK, handles, poolVars,
         callerVars, stopVars, Families, States, StopPcs, Serving, MuFree,
         Idle
<1>31. ASSUME EvictReset PROVE TypeOK'
  BY <1>31 DEF EvictReset, ResetAccounting, AfterFamily, Monus, TypeOK,
         handles, poolVars, callerVars, stopVars, Families, States, StopPcs,
         Serving, MuFree, Idle
<1>32. ASSUME ShutdownSweep PROVE TypeOK'
  BY <1>32 DEF ShutdownSweep, TypeOK, handles, poolVars, callerVars, stopVars,
         Families, States, StopPcs, Serving, MuFree, Idle
<1>33. CASE UNCHANGED vars
  BY <1>33 DEF vars, TypeOK, handles, poolVars, callerVars, stopVars,
         Families, States, StopPcs, Serving, MuFree, Idle
<1>. QED
  BY <1>1, <1>2, <1>3, <1>4, <1>5, <1>6, <1>7, <1>8, <1>9, <1>10, <1>11,
         <1>12, <1>13, <1>14, <1>15, <1>16, <1>17, <1>18, <1>19, <1>20, <1>21,
         <1>22, <1>23, <1>24, <1>25, <1>26, <1>27, <1>28, <1>29, <1>30, <1>31,
         <1>32, <1>33, <1>34
  DEF Next, Caller, Ensure, Handshake, Environment, Family, Stopper, Shutdown

(* A family is Spawning exactly while a caller holds mu for it. *)
LEMMA SpawnStep ==
  ASSUME TypeOK, SpawnInv, [Next]_vars PROVE SpawnInv'
<1>1. ASSUME \/ UNCHANGED vars
             \/ \E f \in Families : WorkerExits(f) \/
                    BackoffExpires(f) \/ ShutdownNext(f)
             \/ \E m \in Models : IdleElapses(m) \/ WarmHold(m) \/
                    WarmRelease(m) \/ PoolEnsure(m) \/
                    ReaperSkip(m)
             \/ \E c \in Callers : MarkRelayed(c) \/ ReadHandle(c)
             \/ ReaperCollect \/ ShutdownBegin \/ StopWait \/
                    EvictReset
     PROVE  SpawnInv'
  BY <1>1 DEF vars, WorkerExits, BackoffExpires, IdleElapses, WarmHold,
         WarmRelease, PoolEnsure, MarkRelayed, ReadHandle, ReaperCollect, Evictable,
         ReaperSkip, ShutdownBegin, ShutdownNext, StopWait, EvictReset,
         SpawnInv, TypeOK, handles, callerVars, MuFree, Serving
<1>2. ASSUME NEW c \in Callers, NEW f \in Families, EnsureNoExe(c, f) PROVE SpawnInv'
  BY <1>2 DEF EnsureNoExe, Spawnable, MayUse, SpawnInv, TypeOK, handles,
         callerVars, MuFree, Serving
<1>3. ASSUME NEW c \in Callers, NEW f \in Families, EnsureNoPipe(c, f) PROVE SpawnInv'
  BY <1>3 DEF EnsureNoPipe, Spawnable, MayUse, SpawnInv, TypeOK, handles,
         callerVars, MuFree, Serving
<1>4. ASSUME NEW c \in Callers, NEW f \in Families, EnsureSpawnFails(c, f) PROVE SpawnInv'
  BY <1>4 DEF EnsureSpawnFails, Spawnable, MayUse, Finalize, SpawnInv, TypeOK,
         handles, callerVars, MuFree, Serving
<1>5. ASSUME NEW c \in Callers, NEW f \in Families, EnsureLaunch(c, f) PROVE SpawnInv'
  BY <1>5 DEF EnsureLaunch, Spawnable, MayUse, SpawnInv, TypeOK, handles,
         callerVars, MuFree, Serving
<1>6. ASSUME NEW c \in Callers, HandshakeReady(c) PROVE SpawnInv'
  BY <1>6 DEF HandshakeReady, HandshakeEnds, SpawnInv, TypeOK, handles,
         callerVars, MuFree, Serving
<1>7. ASSUME NEW c \in Callers, HandshakeNoConnect(c) PROVE SpawnInv'
  BY <1>7 DEF HandshakeNoConnect, HandshakeEnds, Finalize, SpawnInv, TypeOK,
         handles, callerVars, MuFree, Serving
<1>8. ASSUME NEW c \in Callers, HandshakeRejected(c) PROVE SpawnInv'
  BY <1>8 DEF HandshakeRejected, HandshakeEnds, Finalize, SpawnInv, TypeOK,
         handles, callerVars, MuFree, Serving
<1>9. ASSUME NEW c \in Callers, HandshakeUnreadable(c) PROVE SpawnInv'
  BY <1>9 DEF HandshakeUnreadable, HandshakeEnds, Finalize, SpawnInv, TypeOK,
         handles, callerVars, MuFree, Serving
<1>10. ASSUME NEW c \in Callers, NEW m \in Models, TrySetBusy(c, m) PROVE SpawnInv'
  BY <1>10 DEF TrySetBusy, SpawnInv, TypeOK, handles, callerVars, MuFree,
         Serving
<1>11. ASSUME NEW c \in Callers, Release(c) PROVE SpawnInv'
  BY <1>11 DEF Release, SpawnInv, TypeOK, handles, callerVars, MuFree, Serving
<1>12. ASSUME NEW c \in Callers, NEW f \in Families, SendStalled(c, f) PROVE SpawnInv'
  BY <1>12 DEF SendStalled, MaySend, Finalize, SpawnInv, TypeOK, handles,
         callerVars, MuFree, Serving
<1>13. ASSUME NEW c \in Callers, NEW f \in Families, SendBroken(c, f) PROVE SpawnInv'
  BY <1>13 DEF SendBroken, MaySend, Finalize, SpawnInv, TypeOK, handles,
         callerVars, MuFree, Serving
<1>14. ASSUME NEW c \in Callers, TerminateUnresponsive(c) PROVE SpawnInv'
  BY <1>14 DEF TerminateUnresponsive, Finalize, SpawnInv, TypeOK, handles,
         callerVars, MuFree, Serving
<1>15. ASSUME NEW f \in Families, ReaperCrash(f) PROVE SpawnInv'
  BY <1>15 DEF ReaperCrash, Exited, Finalize, SpawnInv, TypeOK, handles,
         callerVars, MuFree, Serving
<1>16. ASSUME NEW m \in Models, ReaperClaim(m) PROVE SpawnInv'
  BY <1>16 DEF ReaperClaim, SpawnInv, TypeOK, handles, callerVars, MuFree,
         Serving
<1>17. ASSUME StopSnapshot PROVE SpawnInv'
  BY <1>17 DEF StopSnapshot, SpawnInv, TypeOK, handles, callerVars, MuFree,
         Serving
<1>18. ASSUME StopNothing PROVE SpawnInv'
  BY <1>18 DEF StopNothing, SpawnInv, TypeOK, handles, callerVars, MuFree,
         Serving
<1>19. ASSUME StopPublish PROVE SpawnInv'
  BY <1>19 DEF StopPublish, SpawnInv, TypeOK, handles, callerVars, MuFree,
         Serving
<1>20. ASSUME ShutdownSweep PROVE SpawnInv'
  BY <1>20 DEF ShutdownSweep, SpawnInv, TypeOK, handles, callerVars, MuFree,
         Serving
<1>. QED
  BY <1>1, <1>2, <1>3, <1>4, <1>5, <1>6, <1>7, <1>8, <1>9, <1>10, <1>11,
         <1>12, <1>13, <1>14, <1>15, <1>16, <1>17, <1>18, <1>19, <1>20
  DEF Next, Caller, Ensure, Handshake, Environment, Family, Stopper, Shutdown

(* A family is Stopping exactly while the stopping thread works on it. *)
LEMMA StopStep ==
  ASSUME TypeOK, SpawnInv, StopInv, HandleInv, [Next]_vars PROVE StopInv'
<1>1. ASSUME \/ UNCHANGED vars
             \/ \E f \in Families : WorkerExits(f) \/
                    BackoffExpires(f)
             \/ \E m \in Models : IdleElapses(m) \/ WarmHold(m) \/
                    WarmRelease(m) \/ PoolEnsure(m)
             \/ \E c \in Callers : MarkRelayed(c) \/ ReadHandle(c)
     PROVE  StopInv'
  BY <1>1 DEF vars, WorkerExits, BackoffExpires, IdleElapses, WarmHold,
         WarmRelease, PoolEnsure, MarkRelayed, ReadHandle, StopInv, TypeOK, handles,
         stopVars, Idle, MuFree, Serving
<1>2. ASSUME NEW c \in Callers, NEW f \in Families, EnsureNoExe(c, f) PROVE StopInv'
  BY <1>2 DEF EnsureNoExe, Spawnable, MayUse, StopInv, TypeOK, handles,
         stopVars, Idle, MuFree, Serving
<1>3. ASSUME NEW c \in Callers, NEW f \in Families, EnsureNoPipe(c, f) PROVE StopInv'
  BY <1>3 DEF EnsureNoPipe, Spawnable, MayUse, StopInv, TypeOK, handles,
         stopVars, Idle, MuFree, Serving
<1>4. ASSUME NEW c \in Callers, NEW f \in Families, EnsureSpawnFails(c, f) PROVE StopInv'
  BY <1>4 DEF EnsureSpawnFails, Spawnable, MayUse, Finalize, StopInv, TypeOK,
         handles, stopVars, Idle, MuFree, Serving
<1>5. ASSUME NEW c \in Callers, NEW f \in Families, EnsureLaunch(c, f) PROVE StopInv'
  BY <1>5 DEF EnsureLaunch, Spawnable, MayUse, StopInv, TypeOK, handles,
         stopVars, Idle, MuFree, Serving
<1>6. ASSUME NEW c \in Callers, HandshakeReady(c) PROVE StopInv'
  BY <1>6 DEF HandshakeReady, HandshakeEnds, StopInv, TypeOK, handles,
         stopVars, Idle, MuFree, Serving, SpawnInv
<1>7. ASSUME NEW c \in Callers, HandshakeNoConnect(c) PROVE StopInv'
  BY <1>7 DEF HandshakeNoConnect, HandshakeEnds, Finalize, StopInv, TypeOK,
         handles, stopVars, Idle, MuFree, Serving, SpawnInv
<1>8. ASSUME NEW c \in Callers, HandshakeRejected(c) PROVE StopInv'
  BY <1>8 DEF HandshakeRejected, HandshakeEnds, Finalize, StopInv, TypeOK,
         handles, stopVars, Idle, MuFree, Serving, SpawnInv
<1>9. ASSUME NEW c \in Callers, HandshakeUnreadable(c) PROVE StopInv'
  BY <1>9 DEF HandshakeUnreadable, HandshakeEnds, Finalize, StopInv, TypeOK,
         handles, stopVars, Idle, MuFree, Serving, SpawnInv
<1>10. ASSUME NEW c \in Callers, NEW m \in Models, TrySetBusy(c, m) PROVE StopInv'
  BY <1>10 DEF TrySetBusy, StopInv, TypeOK, handles, stopVars, Idle, MuFree,
         Serving
<1>11. ASSUME NEW c \in Callers, Release(c) PROVE StopInv'
  BY <1>11 DEF Release, StopInv, TypeOK, handles, stopVars, Idle, MuFree,
         Serving
<1>12. ASSUME NEW c \in Callers, NEW f \in Families, SendStalled(c, f) PROVE StopInv'
  BY <1>12 DEF SendStalled, MaySend, Finalize, StopInv, TypeOK, handles,
         stopVars, Idle, MuFree, Serving
<1>13. ASSUME NEW c \in Callers, NEW f \in Families, SendBroken(c, f) PROVE StopInv'
  BY <1>13 DEF SendBroken, MaySend, Finalize, StopInv, TypeOK, handles,
         stopVars, Idle, MuFree, Serving
<1>14. ASSUME NEW c \in Callers, TerminateUnresponsive(c) PROVE StopInv'
  BY <1>14 DEF TerminateUnresponsive, Finalize, StopInv, TypeOK, handles,
         stopVars, Idle, MuFree, Serving
<1>15. ASSUME NEW f \in Families, ReaperCrash(f) PROVE StopInv'
  BY <1>15 DEF ReaperCrash, Exited, Finalize, StopInv, TypeOK, handles,
         stopVars, Idle, MuFree, Serving
<1>16. ASSUME ReaperCollect PROVE StopInv'
  BY <1>16 DEF ReaperCollect, Evictable, StopInv, TypeOK, handles, stopVars,
         Idle, MuFree, Serving
<1>17. ASSUME NEW m \in Models, ReaperClaim(m) PROVE StopInv'
  BY <1>17 DEF ReaperClaim, StopInv, TypeOK, handles, stopVars, Idle, MuFree,
         Serving
<1>18. ASSUME NEW m \in Models, ReaperSkip(m) PROVE StopInv'
  BY <1>18 DEF ReaperSkip, AfterFamily, StopInv, TypeOK, handles, stopVars,
         Idle, MuFree, Serving
<1>19. ASSUME ShutdownBegin PROVE StopInv'
  BY <1>19 DEF ShutdownBegin, StopInv, TypeOK, handles, stopVars, Idle,
         MuFree, Serving
<1>20. ASSUME NEW f \in Families, ShutdownNext(f) PROVE StopInv'
  BY <1>20 DEF ShutdownNext, StopInv, TypeOK, handles, stopVars, Idle, MuFree,
         Serving
<1>21. ASSUME StopSnapshot PROVE StopInv'
  BY <1>21 DEF StopSnapshot, StopInv, TypeOK, handles, stopVars, Idle, MuFree,
         Serving
<1>22. ASSUME StopNothing PROVE StopInv'
  BY <1>22 DEF StopNothing, AfterStop, AfterFamily, StopInv, TypeOK, handles,
         stopVars, Idle, MuFree, Serving
<1>23. ASSUME StopWait PROVE StopInv'
  BY <1>23 DEF StopWait, StopInv, TypeOK, handles, stopVars, Idle, MuFree,
         Serving
<1>24. ASSUME StopPublish PROVE StopInv'
  BY <1>24 DEF StopPublish, AfterStop, AfterFamily, StopInv, TypeOK, handles,
         stopVars, Idle, MuFree, Serving
<1>25. ASSUME EvictReset PROVE StopInv'
  BY <1>25 DEF EvictReset, AfterFamily, StopInv, TypeOK, handles, stopVars,
         Idle, MuFree, Serving
<1>26. ASSUME ShutdownSweep PROVE StopInv'
  BY <1>26 DEF ShutdownSweep, StopInv, TypeOK, handles, stopVars, Idle,
         MuFree, Serving
<1>. QED
  BY <1>1, <1>2, <1>3, <1>4, <1>5, <1>6, <1>7, <1>8, <1>9, <1>10, <1>11,
         <1>12, <1>13, <1>14, <1>15, <1>16, <1>17, <1>18, <1>19, <1>20, <1>21,
         <1>22, <1>23, <1>24, <1>25, <1>26
  DEF Next, Caller, Ensure, Handshake, Environment, Family, Stopper, Shutdown

(* The handles follow the state, and GracefulStop's copies stay current. *)
LEMMA HandleStep ==
  ASSUME TypeOK, SpawnInv, StopInv, HandleInv, [Next]_vars PROVE HandleInv'
<1>1. ASSUME \/ UNCHANGED vars
             \/ \E f \in Families : WorkerExits(f) \/
                    BackoffExpires(f)
             \/ \E m \in Models : IdleElapses(m) \/ WarmHold(m) \/
                    WarmRelease(m) \/ PoolEnsure(m)
             \/ \E c \in Callers : MarkRelayed(c) \/ ReadHandle(c)
     PROVE  HandleInv'
  BY <1>1 DEF vars, WorkerExits, BackoffExpires, IdleElapses, WarmHold,
         WarmRelease, PoolEnsure, MarkRelayed, ReadHandle, HandleInv, HandlesMatchState,
         StopSnapshotIsCurrent, SpawnInv, StopInv, TypeOK, handles, stopVars,
         Idle, MuFree, Serving
<1>2. ASSUME NEW c \in Callers, NEW f \in Families, EnsureNoExe(c, f) PROVE HandleInv'
  BY <1>2 DEF EnsureNoExe, Spawnable, MayUse, HandleInv, HandlesMatchState,
         StopSnapshotIsCurrent, SpawnInv, StopInv, TypeOK, handles, stopVars,
         Idle, MuFree, Serving
<1>3. ASSUME NEW c \in Callers, NEW f \in Families, EnsureNoPipe(c, f) PROVE HandleInv'
  BY <1>3 DEF EnsureNoPipe, Spawnable, MayUse, HandleInv, HandlesMatchState,
         StopSnapshotIsCurrent, SpawnInv, StopInv, TypeOK, handles, stopVars,
         Idle, MuFree, Serving
<1>4. ASSUME NEW c \in Callers, NEW f \in Families, EnsureSpawnFails(c, f) PROVE HandleInv'
  BY <1>4 DEF EnsureSpawnFails, Spawnable, MayUse, Finalize, HandleInv,
         HandlesMatchState, StopSnapshotIsCurrent, SpawnInv, StopInv, TypeOK,
         handles, stopVars, Idle, MuFree, Serving
<1>5. ASSUME NEW c \in Callers, NEW f \in Families, EnsureLaunch(c, f) PROVE HandleInv'
  BY <1>5 DEF EnsureLaunch, Spawnable, MayUse, HandleInv, HandlesMatchState,
         StopSnapshotIsCurrent, SpawnInv, StopInv, TypeOK, handles, stopVars,
         Idle, MuFree, Serving
<1>6. ASSUME NEW c \in Callers, HandshakeReady(c) PROVE HandleInv'
  BY <1>6 DEF HandshakeReady, HandshakeEnds, HandleInv, HandlesMatchState,
         StopSnapshotIsCurrent, SpawnInv, StopInv, TypeOK, handles, stopVars,
         Idle, MuFree, Serving
<1>7. ASSUME NEW c \in Callers, HandshakeNoConnect(c) PROVE HandleInv'
  BY <1>7 DEF HandshakeNoConnect, HandshakeEnds, Finalize, HandleInv,
         HandlesMatchState, StopSnapshotIsCurrent, SpawnInv, StopInv, TypeOK,
         handles, stopVars, Idle, MuFree, Serving
<1>8. ASSUME NEW c \in Callers, HandshakeRejected(c) PROVE HandleInv'
  BY <1>8 DEF HandshakeRejected, HandshakeEnds, Finalize, HandleInv,
         HandlesMatchState, StopSnapshotIsCurrent, SpawnInv, StopInv, TypeOK,
         handles, stopVars, Idle, MuFree, Serving
<1>9. ASSUME NEW c \in Callers, HandshakeUnreadable(c) PROVE HandleInv'
  BY <1>9 DEF HandshakeUnreadable, HandshakeEnds, Finalize, HandleInv,
         HandlesMatchState, StopSnapshotIsCurrent, SpawnInv, StopInv, TypeOK,
         handles, stopVars, Idle, MuFree, Serving
<1>10. ASSUME NEW c \in Callers, NEW m \in Models, TrySetBusy(c, m) PROVE HandleInv'
  BY <1>10 DEF TrySetBusy, HandleInv, HandlesMatchState,
         StopSnapshotIsCurrent, SpawnInv, StopInv, TypeOK, handles, stopVars,
         Idle, MuFree, Serving
<1>11. ASSUME NEW c \in Callers, Release(c) PROVE HandleInv'
  BY <1>11 DEF Release, HandleInv, HandlesMatchState, StopSnapshotIsCurrent,
         SpawnInv, StopInv, TypeOK, handles, stopVars, Idle, MuFree, Serving
<1>12. ASSUME NEW c \in Callers, NEW f \in Families, SendStalled(c, f) PROVE HandleInv'
  BY <1>12 DEF SendStalled, MaySend, Finalize, HandleInv, HandlesMatchState,
         StopSnapshotIsCurrent, SpawnInv, StopInv, TypeOK, handles, stopVars,
         Idle, MuFree, Serving
<1>13. ASSUME NEW c \in Callers, NEW f \in Families, SendBroken(c, f) PROVE HandleInv'
  BY <1>13 DEF SendBroken, MaySend, Finalize, HandleInv, HandlesMatchState,
         StopSnapshotIsCurrent, SpawnInv, StopInv, TypeOK, handles, stopVars,
         Idle, MuFree, Serving
<1>14. ASSUME NEW c \in Callers, TerminateUnresponsive(c) PROVE HandleInv'
  BY <1>14 DEF TerminateUnresponsive, Finalize, HandleInv, HandlesMatchState,
         StopSnapshotIsCurrent, SpawnInv, StopInv, TypeOK, handles, stopVars,
         Idle, MuFree, Serving
<1>15. ASSUME NEW f \in Families, ReaperCrash(f) PROVE HandleInv'
  BY <1>15 DEF ReaperCrash, Exited, Finalize, HandleInv, HandlesMatchState,
         StopSnapshotIsCurrent, SpawnInv, StopInv, TypeOK, handles, stopVars,
         Idle, MuFree, Serving
<1>16. ASSUME ReaperCollect PROVE HandleInv'
  BY <1>16 DEF ReaperCollect, Evictable, HandleInv, HandlesMatchState,
         StopSnapshotIsCurrent, SpawnInv, StopInv, TypeOK, handles, stopVars,
         Idle, MuFree, Serving
<1>17. ASSUME NEW m \in Models, ReaperClaim(m) PROVE HandleInv'
  BY <1>17 DEF ReaperClaim, HandleInv, HandlesMatchState,
         StopSnapshotIsCurrent, SpawnInv, StopInv, TypeOK, handles, stopVars,
         Idle, MuFree, Serving
<1>18. ASSUME NEW m \in Models, ReaperSkip(m) PROVE HandleInv'
  BY <1>18 DEF ReaperSkip, AfterFamily, HandleInv, HandlesMatchState,
         StopSnapshotIsCurrent, SpawnInv, StopInv, TypeOK, handles, stopVars,
         Idle, MuFree, Serving
<1>19. ASSUME ShutdownBegin PROVE HandleInv'
  BY <1>19 DEF ShutdownBegin, HandleInv, HandlesMatchState,
         StopSnapshotIsCurrent, SpawnInv, StopInv, TypeOK, handles, stopVars,
         Idle, MuFree, Serving
<1>20. ASSUME NEW f \in Families, ShutdownNext(f) PROVE HandleInv'
  BY <1>20 DEF ShutdownNext, HandleInv, HandlesMatchState,
         StopSnapshotIsCurrent, SpawnInv, StopInv, TypeOK, handles, stopVars,
         Idle, MuFree, Serving
<1>21. ASSUME StopSnapshot PROVE HandleInv'
  <2>1. stop.fam \in Families
    BY <1>21 DEF StopSnapshot, TypeOK
  <2>2. st[stop.fam] \in {"Spawning", "Ready", "Busy", "Stopping"}
    BY <1>21, <2>1 DEF StopSnapshot, HandleInv, HandlesMatchState, TypeOK, States
  <2>3. st' = [st EXCEPT ![stop.fam] = "Stopping"]
    BY <1>21, <2>1, <2>2 DEF StopSnapshot, Serving, TypeOK
  <2>4. stop' = [stop EXCEPT !.pc = "wait", !.pipe = pipe[stop.fam], !.proc = proc[stop.fam]]
        /\ UNCHANGED <<proc, pipe, gen>>
    BY <1>21 DEF StopSnapshot
  <2>5. HandlesMatchState'
    BY <2>1, <2>2, <2>3, <2>4 DEF HandleInv, HandlesMatchState, TypeOK
  <2>6. StopSnapshotIsCurrent'
    BY <2>1, <2>3, <2>4 DEF StopSnapshotIsCurrent, TypeOK
  <2>7. QED
    BY <2>5, <2>6 DEF HandleInv
<1>22. ASSUME StopNothing PROVE HandleInv'
  BY <1>22 DEF StopNothing, AfterStop, AfterFamily, HandleInv,
         HandlesMatchState, StopSnapshotIsCurrent, SpawnInv, StopInv, TypeOK,
         handles, stopVars, Idle, MuFree, Serving
<1>23. ASSUME StopWait PROVE HandleInv'
  BY <1>23 DEF StopWait, HandleInv, HandlesMatchState, StopSnapshotIsCurrent,
         SpawnInv, StopInv, TypeOK, handles, stopVars, Idle, MuFree, Serving
<1>24. ASSUME StopPublish PROVE HandleInv'
  BY <1>24 DEF StopPublish, AfterStop, AfterFamily, HandleInv,
         HandlesMatchState, StopSnapshotIsCurrent, SpawnInv, StopInv, TypeOK,
         handles, stopVars, Idle, MuFree, Serving
<1>25. ASSUME EvictReset PROVE HandleInv'
  BY <1>25 DEF EvictReset, AfterFamily, HandleInv, HandlesMatchState,
         StopSnapshotIsCurrent, SpawnInv, StopInv, TypeOK, handles, stopVars,
         Idle, MuFree, Serving
<1>26. ASSUME ShutdownSweep PROVE HandleInv'
  BY <1>26 DEF ShutdownSweep, HandleInv, HandlesMatchState,
         StopSnapshotIsCurrent, SpawnInv, StopInv, TypeOK, handles, stopVars,
         Idle, MuFree, Serving
<1>. QED
  BY <1>1, <1>2, <1>3, <1>4, <1>5, <1>6, <1>7, <1>8, <1>9, <1>10, <1>11,
         <1>12, <1>13, <1>14, <1>15, <1>16, <1>17, <1>18, <1>19, <1>20, <1>21,
         <1>22, <1>23, <1>24, <1>25, <1>26
  DEF Next, Caller, Ensure, Handshake, Environment, Family, Stopper, Shutdown

(* A caller that owns a serving launch holds it Busy. *)
LEMMA OwnStep ==
  ASSUME TypeOK, SpawnInv, StopInv, HandleInv, OwnInv, PoolInv, SingleFlight, [Next]_vars PROVE OwnInv'
<1>1. ASSUME \/ UNCHANGED vars
             \/ \E f \in Families : WorkerExits(f) \/
                    BackoffExpires(f) \/ ShutdownNext(f)
             \/ \E m \in Models : IdleElapses(m) \/ WarmHold(m) \/
                    WarmRelease(m) \/ ReaperSkip(m)
             \/ \E c \in Callers : MarkRelayed(c) \/ ReadHandle(c)
             \/ ReaperCollect \/ StopWait \/ EvictReset
     PROVE  OwnInv'
  BY <1>1 DEF vars, WorkerExits, BackoffExpires, IdleElapses, WarmHold,
         WarmRelease, MarkRelayed, ReadHandle, ReaperCollect, Evictable, ReaperSkip,
         ShutdownNext, StopWait, EvictReset, ResetAccounting, OwnInv, TypeOK,
         Families, handles, poolVars, callerVars, stopVars, Serving, MuFree
<1>2. ASSUME NEW m \in Models, PoolEnsure(m) PROVE OwnInv'
  BY <1>2 DEF PoolEnsure, OwnInv, TypeOK, Families, handles, poolVars,
         callerVars, stopVars, Serving, MuFree
<1>3. ASSUME NEW c \in Callers, NEW f \in Families, EnsureNoExe(c, f) PROVE OwnInv'
  BY <1>3 DEF EnsureNoExe, Spawnable, MayUse, OwnInv, TypeOK, Families,
         handles, poolVars, callerVars, stopVars, Serving, MuFree
<1>4. ASSUME NEW c \in Callers, NEW f \in Families, EnsureNoPipe(c, f) PROVE OwnInv'
  BY <1>4 DEF EnsureNoPipe, Spawnable, MayUse, OwnInv, TypeOK, Families,
         handles, poolVars, callerVars, stopVars, Serving, MuFree
<1>5. ASSUME NEW c \in Callers, NEW f \in Families, EnsureSpawnFails(c, f) PROVE OwnInv'
  BY <1>5 DEF EnsureSpawnFails, Spawnable, MayUse, Finalize, OwnInv, TypeOK,
         Families, handles, poolVars, callerVars, stopVars, Serving, MuFree
<1>6. ASSUME NEW c \in Callers, NEW f \in Families, EnsureLaunch(c, f) PROVE OwnInv'
  BY <1>6 DEF EnsureLaunch, Spawnable, MayUse, OwnInv, TypeOK, Families,
         handles, poolVars, callerVars, stopVars, Serving, MuFree
<1>7. ASSUME NEW c \in Callers, HandshakeReady(c) PROVE OwnInv'
  BY <1>7 DEF HandshakeReady, HandshakeEnds, OwnInv, TypeOK, Families,
         handles, poolVars, callerVars, stopVars, Serving, MuFree, SpawnInv
<1>8. ASSUME NEW c \in Callers, HandshakeNoConnect(c) PROVE OwnInv'
  BY <1>8 DEF HandshakeNoConnect, HandshakeEnds, Finalize, OwnInv, TypeOK,
         Families, handles, poolVars, callerVars, stopVars, Serving, MuFree,
         SpawnInv
<1>9. ASSUME NEW c \in Callers, HandshakeRejected(c) PROVE OwnInv'
  BY <1>9 DEF HandshakeRejected, HandshakeEnds, Finalize, OwnInv, TypeOK,
         Families, handles, poolVars, callerVars, stopVars, Serving, MuFree,
         SpawnInv
<1>10. ASSUME NEW c \in Callers, HandshakeUnreadable(c) PROVE OwnInv'
  BY <1>10 DEF HandshakeUnreadable, HandshakeEnds, Finalize, OwnInv, TypeOK,
         Families, handles, poolVars, callerVars, stopVars, Serving, MuFree,
         SpawnInv
<1>11. ASSUME NEW c \in Callers, NEW m \in Models, TrySetBusy(c, m) PROVE OwnInv'
  BY <1>11 DEF TrySetBusy, OwnInv, TypeOK, Families, handles, poolVars,
         callerVars, stopVars, Serving, MuFree, HandleInv, HandlesMatchState,
         PoolInv
<1>12. ASSUME NEW c \in Callers, Release(c) PROVE OwnInv'
  <2>1. SUFFICES ASSUME NEW d \in Callers, own'[d] # NoFam
                 PROVE  /\ acq'[d] # 0 /\ acq'[d] <= gen'[own'[d]]
                        /\ own'[d] \in pool' /\ ~down'
                        /\ acq'[d] = proc'[own'[d]] =>
                               st'[own'[d]] = "Busy" \/ tainted'[own'[d]]
    BY DEF OwnInv
  <2>2. /\ d # c /\ own'[d] = own[d] /\ acq'[d] = acq[d]
        /\ own[d] \in Models /\ own[c] \in Models
        /\ UNCHANGED <<proc, gen, pool, down>>
    BY <1>12, <2>1 DEF Release, TypeOK, poolVars, stopVars
  <2>3. /\ acq'[d] # 0 /\ acq'[d] <= gen'[own'[d]]
        /\ own'[d] \in pool' /\ ~down'
    BY <2>1, <2>2 DEF OwnInv
  <2>4. ASSUME acq[d] = proc[own[d]]
        PROVE  st'[own[d]] = "Busy" \/ tainted'[own[d]]
    <3>1. st[own[d]] = "Busy" \/ tainted[own[d]]
      BY <2>1, <2>2, <2>4 DEF OwnInv
    <3>2. tainted[own[d]] => tainted'[own[d]]
      BY <1>12, <2>2 DEF Release, TypeOK, Families
    <3>3. CASE own[d] # own[c]
      BY <1>12, <2>2, <3>1, <3>2, <3>3 DEF Release, TypeOK, Families
    <3>4. CASE own[d] = own[c] /\ st[own[c]] = "Busy" /\ acq[c] # proc[own[c]]
      BY <1>12, <2>2, <3>4 DEF Release, TypeOK, Families
    <3>5. CASE own[d] = own[c] /\ acq[c] = proc[own[c]]
      <4>1. acq[c] # 0
        BY <2>2 DEF OwnInv, Families
      <4>2. c \in Owners(own[d]) /\ d \in Owners(own[d])
        BY <2>2, <2>4, <3>5, <4>1 DEF Owners
      <4>3. tainted[own[d]]
        BY <2>2, <4>2 DEF SingleFlight
      <4>4. QED
        BY <3>2, <4>3
    <3>6. QED
      BY <3>1, <3>2, <3>3, <3>4, <3>5
  <2>5. QED
    BY <2>2, <2>3, <2>4
<1>13. ASSUME NEW c \in Callers, NEW f \in Families, SendStalled(c, f) PROVE OwnInv'
  BY <1>13 DEF SendStalled, MaySend, Finalize, ResetAccounting, OwnInv,
         TypeOK, Families, handles, poolVars, callerVars, stopVars, Serving,
         MuFree
<1>14. ASSUME NEW c \in Callers, NEW f \in Families, SendBroken(c, f) PROVE OwnInv'
  BY <1>14 DEF SendBroken, MaySend, Finalize, ResetAccounting, OwnInv, TypeOK,
         Families, handles, poolVars, callerVars, stopVars, Serving, MuFree
<1>15. ASSUME NEW c \in Callers, TerminateUnresponsive(c) PROVE OwnInv'
  BY <1>15 DEF TerminateUnresponsive, Finalize, ResetAccounting, OwnInv,
         TypeOK, Families, handles, poolVars, callerVars, stopVars, Serving,
         MuFree
<1>16. ASSUME NEW f \in Families, ReaperCrash(f) PROVE OwnInv'
  BY <1>16 DEF ReaperCrash, Exited, Finalize, ResetAccounting, OwnInv, TypeOK,
         Families, handles, poolVars, callerVars, stopVars, Serving, MuFree
<1>17. ASSUME NEW m \in Models, ReaperClaim(m) PROVE OwnInv'
  BY <1>17 DEF ReaperClaim, OwnInv, TypeOK, Families, handles, poolVars,
         callerVars, stopVars, Serving, MuFree
<1>18. ASSUME ShutdownBegin PROVE OwnInv'
  BY <1>18 DEF ShutdownBegin, OwnInv, TypeOK, Families, handles, poolVars,
         callerVars, stopVars, Serving, MuFree
<1>19. ASSUME StopSnapshot PROVE OwnInv'
  BY <1>19 DEF StopSnapshot, OwnInv, TypeOK, Families, handles, poolVars,
         callerVars, stopVars, Serving, MuFree, StopInv
<1>20. ASSUME StopNothing PROVE OwnInv'
  BY <1>20 DEF StopNothing, OwnInv, TypeOK, Families, handles, poolVars,
         callerVars, stopVars, Serving, MuFree
<1>21. ASSUME StopPublish PROVE OwnInv'
  BY <1>21 DEF StopPublish, OwnInv, TypeOK, Families, handles, poolVars,
         callerVars, stopVars, Serving, MuFree
<1>22. ASSUME ShutdownSweep PROVE OwnInv'
  BY <1>22 DEF ShutdownSweep, OwnInv, TypeOK, Families, handles, poolVars,
         callerVars, stopVars, Serving, MuFree
<1>. QED
  BY <1>1, <1>2, <1>3, <1>4, <1>5, <1>6, <1>7, <1>8, <1>9, <1>10, <1>11,
         <1>12, <1>13, <1>14, <1>15, <1>16, <1>17, <1>18, <1>19, <1>20, <1>21,
         <1>22
  DEF Next, Caller, Ensure, Handshake, Environment, Family, Stopper, Shutdown

(* Two callers own one launch only after a foreign release. *)
LEMMA FlightStep ==
  ASSUME TypeOK, SpawnInv, StopInv, HandleInv, OwnInv, PoolInv, SingleFlight, [Next]_vars PROVE SingleFlight'
<1>1. ASSUME \/ UNCHANGED vars
             \/ \E f \in Families : WorkerExits(f) \/
                    BackoffExpires(f) \/ ShutdownNext(f)
             \/ \E m \in Models : IdleElapses(m) \/ WarmHold(m) \/
                    WarmRelease(m) \/ ReaperClaim(m) \/
                    ReaperSkip(m)
             \/ \E c \in Callers : MarkRelayed(c) \/ ReadHandle(c)
             \/ ReaperCollect \/ ShutdownBegin \/ StopWait \/
                    EvictReset
     PROVE  SingleFlight'
  BY <1>1 DEF vars, WorkerExits, BackoffExpires, IdleElapses, WarmHold,
         WarmRelease, MarkRelayed, ReadHandle, ReaperCollect, Evictable, ReaperClaim,
         ReaperSkip, ShutdownBegin, ShutdownNext, StopWait, EvictReset,
         SingleFlight, Owners, OwnInv, TypeOK, Families, handles, callerVars,
         Serving
<1>2. ASSUME NEW m \in Models, PoolEnsure(m) PROVE SingleFlight'
  BY <1>2 DEF PoolEnsure, SingleFlight, Owners, OwnInv, TypeOK, Families,
         handles, callerVars, Serving
<1>3. ASSUME NEW c \in Callers, NEW f \in Families, EnsureNoExe(c, f) PROVE SingleFlight'
  BY <1>3 DEF EnsureNoExe, Spawnable, MayUse, SingleFlight, Owners, OwnInv,
         TypeOK, Families, handles, callerVars, Serving
<1>4. ASSUME NEW c \in Callers, NEW f \in Families, EnsureNoPipe(c, f) PROVE SingleFlight'
  BY <1>4 DEF EnsureNoPipe, Spawnable, MayUse, SingleFlight, Owners, OwnInv,
         TypeOK, Families, handles, callerVars, Serving
<1>5. ASSUME NEW c \in Callers, NEW f \in Families, EnsureSpawnFails(c, f) PROVE SingleFlight'
  BY <1>5 DEF EnsureSpawnFails, Spawnable, MayUse, Finalize, SingleFlight,
         Owners, OwnInv, TypeOK, Families, handles, callerVars, Serving
<1>6. ASSUME NEW c \in Callers, NEW f \in Families, EnsureLaunch(c, f) PROVE SingleFlight'
  BY <1>6 DEF EnsureLaunch, Spawnable, MayUse, SingleFlight, Owners, OwnInv,
         TypeOK, Families, handles, callerVars, Serving
<1>7. ASSUME NEW c \in Callers, HandshakeReady(c) PROVE SingleFlight'
  BY <1>7 DEF HandshakeReady, HandshakeEnds, SingleFlight, Owners, OwnInv,
         TypeOK, Families, handles, callerVars, Serving
<1>8. ASSUME NEW c \in Callers, HandshakeNoConnect(c) PROVE SingleFlight'
  BY <1>8 DEF HandshakeNoConnect, HandshakeEnds, Finalize, SingleFlight,
         Owners, OwnInv, TypeOK, Families, handles, callerVars, Serving
<1>9. ASSUME NEW c \in Callers, HandshakeRejected(c) PROVE SingleFlight'
  BY <1>9 DEF HandshakeRejected, HandshakeEnds, Finalize, SingleFlight,
         Owners, OwnInv, TypeOK, Families, handles, callerVars, Serving
<1>10. ASSUME NEW c \in Callers, HandshakeUnreadable(c) PROVE SingleFlight'
  BY <1>10 DEF HandshakeUnreadable, HandshakeEnds, Finalize, SingleFlight,
         Owners, OwnInv, TypeOK, Families, handles, callerVars, Serving
<1>11. ASSUME NEW c \in Callers, NEW m \in Models, TrySetBusy(c, m) PROVE SingleFlight'
  BY <1>11 DEF TrySetBusy, SingleFlight, Owners, OwnInv, TypeOK, Families,
         handles, callerVars, Serving
<1>12. ASSUME NEW c \in Callers, Release(c) PROVE SingleFlight'
  BY <1>12 DEF Release, SingleFlight, Owners, OwnInv, TypeOK, Families,
         handles, callerVars, Serving
<1>13. ASSUME NEW c \in Callers, NEW f \in Families, SendStalled(c, f) PROVE SingleFlight'
  BY <1>13 DEF SendStalled, MaySend, Finalize, SingleFlight, Owners, OwnInv,
         TypeOK, Families, handles, callerVars, Serving
<1>14. ASSUME NEW c \in Callers, NEW f \in Families, SendBroken(c, f) PROVE SingleFlight'
  BY <1>14 DEF SendBroken, MaySend, Finalize, SingleFlight, Owners, OwnInv,
         TypeOK, Families, handles, callerVars, Serving
<1>15. ASSUME NEW c \in Callers, TerminateUnresponsive(c) PROVE SingleFlight'
  BY <1>15 DEF TerminateUnresponsive, Finalize, SingleFlight, Owners, OwnInv,
         TypeOK, Families, handles, callerVars, Serving
<1>16. ASSUME NEW f \in Families, ReaperCrash(f) PROVE SingleFlight'
  BY <1>16 DEF ReaperCrash, Exited, Finalize, SingleFlight, Owners, OwnInv,
         TypeOK, Families, handles, callerVars, Serving
<1>17. ASSUME StopSnapshot PROVE SingleFlight'
  BY <1>17 DEF StopSnapshot, SingleFlight, Owners, OwnInv, TypeOK, Families,
         handles, callerVars, Serving
<1>18. ASSUME StopNothing PROVE SingleFlight'
  BY <1>18 DEF StopNothing, SingleFlight, Owners, OwnInv, TypeOK, Families,
         handles, callerVars, Serving
<1>19. ASSUME StopPublish PROVE SingleFlight'
  BY <1>19 DEF StopPublish, SingleFlight, Owners, OwnInv, TypeOK, Families,
         handles, callerVars, Serving
<1>20. ASSUME ShutdownSweep PROVE SingleFlight'
  BY <1>20 DEF ShutdownSweep, SingleFlight, Owners, OwnInv, TypeOK, Families,
         handles, callerVars, Serving
<1>. QED
  BY <1>1, <1>2, <1>3, <1>4, <1>5, <1>6, <1>7, <1>8, <1>9, <1>10, <1>11,
         <1>12, <1>13, <1>14, <1>15, <1>16, <1>17, <1>18, <1>19, <1>20
  DEF Next, Caller, Ensure, Handshake, Environment, Family, Stopper, Shutdown

(* Busy always has an owner. *)
LEMMA BusyStep ==
  ASSUME TypeOK, SpawnInv, StopInv, HandleInv, OwnInv, PoolInv, BusyIsOwned, [Next]_vars PROVE BusyIsOwned'
<1>1. ASSUME \/ UNCHANGED vars
             \/ \E f \in Families : WorkerExits(f) \/
                    BackoffExpires(f) \/ ShutdownNext(f)
             \/ \E m \in Models : IdleElapses(m) \/ WarmHold(m) \/
                    WarmRelease(m) \/ ReaperClaim(m) \/
                    ReaperSkip(m)
             \/ \E c \in Callers : MarkRelayed(c) \/ ReadHandle(c)
             \/ ReaperCollect \/ ShutdownBegin \/ StopWait \/
                    EvictReset
     PROVE  BusyIsOwned'
  BY <1>1 DEF vars, WorkerExits, BackoffExpires, IdleElapses, WarmHold,
         WarmRelease, MarkRelayed, ReadHandle, ReaperCollect, Evictable, ReaperClaim,
         ReaperSkip, ShutdownBegin, ShutdownNext, StopWait, EvictReset,
         BusyIsOwned, TypeOK, Families, handles, callerVars, Serving
<1>2. ASSUME NEW m \in Models, PoolEnsure(m) PROVE BusyIsOwned'
  BY <1>2 DEF PoolEnsure, BusyIsOwned, TypeOK, Families, handles, callerVars,
         Serving
<1>3. ASSUME NEW c \in Callers, NEW f \in Families, EnsureNoExe(c, f) PROVE BusyIsOwned'
  BY <1>3 DEF EnsureNoExe, Spawnable, MayUse, BusyIsOwned, TypeOK, Families,
         handles, callerVars, Serving
<1>4. ASSUME NEW c \in Callers, NEW f \in Families, EnsureNoPipe(c, f) PROVE BusyIsOwned'
  BY <1>4 DEF EnsureNoPipe, Spawnable, MayUse, BusyIsOwned, TypeOK, Families,
         handles, callerVars, Serving
<1>5. ASSUME NEW c \in Callers, NEW f \in Families, EnsureSpawnFails(c, f) PROVE BusyIsOwned'
  BY <1>5 DEF EnsureSpawnFails, Spawnable, MayUse, Finalize, BusyIsOwned,
         TypeOK, Families, handles, callerVars, Serving
<1>6. ASSUME NEW c \in Callers, NEW f \in Families, EnsureLaunch(c, f) PROVE BusyIsOwned'
  BY <1>6 DEF EnsureLaunch, Spawnable, MayUse, BusyIsOwned, TypeOK, Families,
         handles, callerVars, Serving
<1>7. ASSUME NEW c \in Callers, HandshakeReady(c) PROVE BusyIsOwned'
  BY <1>7 DEF HandshakeReady, HandshakeEnds, BusyIsOwned, TypeOK, Families,
         handles, callerVars, Serving
<1>8. ASSUME NEW c \in Callers, HandshakeNoConnect(c) PROVE BusyIsOwned'
  BY <1>8 DEF HandshakeNoConnect, HandshakeEnds, Finalize, BusyIsOwned,
         TypeOK, Families, handles, callerVars, Serving
<1>9. ASSUME NEW c \in Callers, HandshakeRejected(c) PROVE BusyIsOwned'
  BY <1>9 DEF HandshakeRejected, HandshakeEnds, Finalize, BusyIsOwned, TypeOK,
         Families, handles, callerVars, Serving
<1>10. ASSUME NEW c \in Callers, HandshakeUnreadable(c) PROVE BusyIsOwned'
  BY <1>10 DEF HandshakeUnreadable, HandshakeEnds, Finalize, BusyIsOwned,
         TypeOK, Families, handles, callerVars, Serving
<1>11. ASSUME NEW c \in Callers, NEW m \in Models, TrySetBusy(c, m) PROVE BusyIsOwned'
  BY <1>11 DEF TrySetBusy, BusyIsOwned, TypeOK, Families, handles, callerVars,
         Serving
<1>12. ASSUME NEW c \in Callers, Release(c) PROVE BusyIsOwned'
  BY <1>12 DEF Release, BusyIsOwned, TypeOK, Families, handles, callerVars,
         Serving
<1>13. ASSUME NEW c \in Callers, NEW f \in Families, SendStalled(c, f) PROVE BusyIsOwned'
  BY <1>13 DEF SendStalled, MaySend, Finalize, BusyIsOwned, TypeOK, Families,
         handles, callerVars, Serving
<1>14. ASSUME NEW c \in Callers, NEW f \in Families, SendBroken(c, f) PROVE BusyIsOwned'
  BY <1>14 DEF SendBroken, MaySend, Finalize, BusyIsOwned, TypeOK, Families,
         handles, callerVars, Serving
<1>15. ASSUME NEW c \in Callers, TerminateUnresponsive(c) PROVE BusyIsOwned'
  BY <1>15 DEF TerminateUnresponsive, Finalize, BusyIsOwned, TypeOK, Families,
         handles, callerVars, Serving
<1>16. ASSUME NEW f \in Families, ReaperCrash(f) PROVE BusyIsOwned'
  BY <1>16 DEF ReaperCrash, Exited, Finalize, BusyIsOwned, TypeOK, Families,
         handles, callerVars, Serving
<1>17. ASSUME StopSnapshot PROVE BusyIsOwned'
  BY <1>17 DEF StopSnapshot, BusyIsOwned, TypeOK, Families, handles,
         callerVars, Serving
<1>18. ASSUME StopNothing PROVE BusyIsOwned'
  BY <1>18 DEF StopNothing, BusyIsOwned, TypeOK, Families, handles,
         callerVars, Serving
<1>19. ASSUME StopPublish PROVE BusyIsOwned'
  BY <1>19 DEF StopPublish, BusyIsOwned, TypeOK, Families, handles,
         callerVars, Serving, HandleInv, StopSnapshotIsCurrent
<1>20. ASSUME ShutdownSweep PROVE BusyIsOwned'
  BY <1>20 DEF ShutdownSweep, BusyIsOwned, TypeOK, Families, handles,
         callerVars, Serving
<1>. QED
  BY <1>1, <1>2, <1>3, <1>4, <1>5, <1>6, <1>7, <1>8, <1>9, <1>10, <1>11,
         <1>12, <1>13, <1>14, <1>15, <1>16, <1>17, <1>18, <1>19, <1>20
  DEF Next, Caller, Ensure, Handshake, Environment, Family, Stopper, Shutdown

(* The relay snapshot follows the launch. *)
LEMMA PoolStep ==
  ASSUME TypeOK, SpawnInv, StopInv, HandleInv, OwnInv, PoolInv, [Next]_vars PROVE PoolInv'
<1>1. ASSUME \/ UNCHANGED vars
             \/ \E f \in Families : WorkerExits(f) \/
                    BackoffExpires(f) \/ ShutdownNext(f)
             \/ \E m \in Models : IdleElapses(m) \/ WarmHold(m) \/
                    WarmRelease(m) \/ ReaperSkip(m)
             \/ ReaperCollect \/ ShutdownBegin \/ StopWait
     PROVE  PoolInv'
  BY <1>1 DEF vars, WorkerExits, BackoffExpires, IdleElapses, WarmHold,
         WarmRelease, ReaperCollect, Evictable, ReaperSkip, AfterFamily,
         ShutdownBegin, ShutdownNext, StopWait, PoolInv, TypeOK, handles,
         poolVars, Serving, Families
<1>2. ASSUME NEW m \in Models, PoolEnsure(m) PROVE PoolInv'
  BY <1>2 DEF PoolEnsure, PoolInv, TypeOK, handles, poolVars, Serving,
         Families
<1>3. ASSUME NEW c \in Callers, NEW f \in Families, EnsureNoExe(c, f) PROVE PoolInv'
  BY <1>3 DEF EnsureNoExe, Spawnable, MayUse, PoolInv, TypeOK, handles,
         poolVars, Serving, Families
<1>4. ASSUME NEW c \in Callers, NEW f \in Families, EnsureNoPipe(c, f) PROVE PoolInv'
  BY <1>4 DEF EnsureNoPipe, Spawnable, MayUse, PoolInv, TypeOK, handles,
         poolVars, Serving, Families
<1>5. ASSUME NEW c \in Callers, NEW f \in Families, EnsureSpawnFails(c, f) PROVE PoolInv'
  BY <1>5 DEF EnsureSpawnFails, Spawnable, MayUse, Finalize, ClearRelay,
         PoolInv, TypeOK, handles, poolVars, Serving, Families
<1>6. ASSUME NEW c \in Callers, NEW f \in Families, EnsureLaunch(c, f) PROVE PoolInv'
  BY <1>6 DEF EnsureLaunch, Spawnable, MayUse, ClearRelay, PoolInv, TypeOK,
         handles, poolVars, Serving, Families
<1>7. ASSUME NEW c \in Callers, HandshakeReady(c) PROVE PoolInv'
  BY <1>7 DEF HandshakeReady, HandshakeEnds, PoolInv, TypeOK, handles,
         poolVars, Serving, Families, SpawnInv
<1>8. ASSUME NEW c \in Callers, HandshakeNoConnect(c) PROVE PoolInv'
  BY <1>8 DEF HandshakeNoConnect, HandshakeEnds, Finalize, PoolInv, TypeOK,
         handles, poolVars, Serving, Families, SpawnInv
<1>9. ASSUME NEW c \in Callers, HandshakeRejected(c) PROVE PoolInv'
  BY <1>9 DEF HandshakeRejected, HandshakeEnds, Finalize, PoolInv, TypeOK,
         handles, poolVars, Serving, Families, SpawnInv
<1>10. ASSUME NEW c \in Callers, HandshakeUnreadable(c) PROVE PoolInv'
  BY <1>10 DEF HandshakeUnreadable, HandshakeEnds, Finalize, PoolInv, TypeOK,
         handles, poolVars, Serving, Families, SpawnInv
<1>11. ASSUME NEW c \in Callers, NEW m \in Models, TrySetBusy(c, m) PROVE PoolInv'
  BY <1>11 DEF TrySetBusy, PoolInv, TypeOK, handles, poolVars, Serving,
         Families
<1>12. ASSUME NEW c \in Callers, Release(c) PROVE PoolInv'
  BY <1>12 DEF Release, PoolInv, TypeOK, handles, poolVars, Serving, Families
<1>13. ASSUME NEW c \in Callers, MarkRelayed(c) \/ ReadHandle(c) PROVE PoolInv'
  BY <1>13 DEF MarkRelayed, ReadHandle, PoolInv, handles, poolVars
<1>14. ASSUME NEW c \in Callers, NEW f \in Families, SendStalled(c, f) PROVE PoolInv'
  BY <1>14 DEF SendStalled, MaySend, Finalize, ResetAccounting, PoolKey,
         PoolInv, TypeOK, handles, poolVars, Serving, Families
<1>15. ASSUME NEW c \in Callers, NEW f \in Families, SendBroken(c, f) PROVE PoolInv'
  BY <1>15 DEF SendBroken, MaySend, Finalize, ResetAccounting, PoolKey,
         PoolInv, TypeOK, handles, poolVars, Serving, Families
<1>16. ASSUME NEW c \in Callers, TerminateUnresponsive(c) PROVE PoolInv'
  BY <1>16 DEF TerminateUnresponsive, Finalize, ResetAccounting, PoolKey,
         PoolInv, TypeOK, handles, poolVars, Serving, Families
<1>17. ASSUME NEW f \in Families, ReaperCrash(f) PROVE PoolInv'
  BY <1>17 DEF ReaperCrash, Exited, Finalize, ResetAccounting, PoolInv,
         TypeOK, handles, poolVars, Serving, Families
<1>18. ASSUME NEW m \in Models, ReaperClaim(m) PROVE PoolInv'
  BY <1>18 DEF ReaperClaim, PoolInv, TypeOK, handles, poolVars, Serving,
         Families
<1>19. ASSUME StopSnapshot PROVE PoolInv'
  BY <1>19 DEF StopSnapshot, PoolInv, TypeOK, handles, poolVars, Serving,
         Families
<1>20. ASSUME StopNothing PROVE PoolInv'
  BY <1>20 DEF StopNothing, AfterStop, AfterFamily, PoolInv, TypeOK, handles,
         poolVars, Serving, Families
<1>21. ASSUME StopPublish PROVE PoolInv'
  BY <1>21 DEF StopPublish, AfterStop, AfterFamily, PoolInv, TypeOK, handles,
         poolVars, Serving, Families, HandleInv, StopSnapshotIsCurrent
<1>22. ASSUME EvictReset PROVE PoolInv'
  BY <1>22 DEF EvictReset, ResetAccounting, AfterFamily, PoolInv, TypeOK,
         handles, poolVars, Serving, Families
<1>23. ASSUME ShutdownSweep PROVE PoolInv'
  BY <1>23 DEF ShutdownSweep, PoolInv, TypeOK, handles, poolVars, Serving,
         Families
<1>. QED
  BY <1>1, <1>2, <1>3, <1>4, <1>5, <1>6, <1>7, <1>8, <1>9, <1>10, <1>11,
         <1>12, <1>13, <1>14, <1>15, <1>16, <1>17, <1>18, <1>19, <1>20, <1>21,
         <1>22, <1>23
  DEF Next, Caller, Ensure, Handshake, Environment, Family, Stopper, Shutdown

(* A dead worker is charged only in the eviction's window. *)
LEMMA ChargeStep ==
  ASSUME TypeOK, SpawnInv, StopInv, HandleInv, OwnInv, PoolInv, NoDeadCharge, [Next]_vars PROVE NoDeadCharge'
<1>1. ASSUME \/ UNCHANGED vars
             \/ \E f \in Families : WorkerExits(f) \/
                    BackoffExpires(f)
             \/ \E m \in Models : IdleElapses(m) \/ WarmHold(m) \/
                    WarmRelease(m) \/ PoolEnsure(m)
             \/ \E c \in Callers : MarkRelayed(c) \/ ReadHandle(c)
     PROVE  NoDeadCharge'
  BY <1>1 DEF vars, WorkerExits, BackoffExpires, IdleElapses, WarmHold,
         WarmRelease, PoolEnsure, MarkRelayed, ReadHandle, NoDeadCharge, PoolInv, TypeOK,
         handles, poolVars, stopVars, Serving, Families, Idle, MuFree
<1>2. ASSUME NEW c \in Callers, NEW f \in Families, EnsureNoExe(c, f) PROVE NoDeadCharge'
  BY <1>2 DEF EnsureNoExe, Spawnable, MayUse, NoDeadCharge, PoolInv, TypeOK,
         handles, poolVars, stopVars, Serving, Families, Idle, MuFree
<1>3. ASSUME NEW c \in Callers, NEW f \in Families, EnsureNoPipe(c, f) PROVE NoDeadCharge'
  BY <1>3 DEF EnsureNoPipe, Spawnable, MayUse, NoDeadCharge, PoolInv, TypeOK,
         handles, poolVars, stopVars, Serving, Families, Idle, MuFree
<1>4. ASSUME NEW c \in Callers, NEW f \in Families, EnsureSpawnFails(c, f) PROVE NoDeadCharge'
  BY <1>4 DEF EnsureSpawnFails, Spawnable, MayUse, Finalize, ClearRelay,
         NoDeadCharge, PoolInv, TypeOK, handles, poolVars, stopVars, Serving,
         Families, Idle, MuFree
<1>5. ASSUME NEW c \in Callers, NEW f \in Families, EnsureLaunch(c, f) PROVE NoDeadCharge'
  BY <1>5 DEF EnsureLaunch, Spawnable, MayUse, ClearRelay, NoDeadCharge,
         PoolInv, TypeOK, handles, poolVars, stopVars, Serving, Families,
         Idle, MuFree
<1>6. ASSUME NEW c \in Callers, HandshakeReady(c) PROVE NoDeadCharge'
  BY <1>6 DEF HandshakeReady, HandshakeEnds, NoDeadCharge, PoolInv, TypeOK,
         handles, poolVars, stopVars, Serving, Families, Idle, MuFree,
         SpawnInv
<1>7. ASSUME NEW c \in Callers, HandshakeNoConnect(c) PROVE NoDeadCharge'
  BY <1>7 DEF HandshakeNoConnect, HandshakeEnds, Finalize, NoDeadCharge,
         PoolInv, TypeOK, handles, poolVars, stopVars, Serving, Families,
         Idle, MuFree, SpawnInv
<1>8. ASSUME NEW c \in Callers, HandshakeRejected(c) PROVE NoDeadCharge'
  BY <1>8 DEF HandshakeRejected, HandshakeEnds, Finalize, NoDeadCharge,
         PoolInv, TypeOK, handles, poolVars, stopVars, Serving, Families,
         Idle, MuFree, SpawnInv
<1>9. ASSUME NEW c \in Callers, HandshakeUnreadable(c) PROVE NoDeadCharge'
  BY <1>9 DEF HandshakeUnreadable, HandshakeEnds, Finalize, NoDeadCharge,
         PoolInv, TypeOK, handles, poolVars, stopVars, Serving, Families,
         Idle, MuFree, SpawnInv
<1>10. ASSUME NEW c \in Callers, NEW m \in Models, TrySetBusy(c, m) PROVE NoDeadCharge'
  BY <1>10 DEF TrySetBusy, NoDeadCharge, PoolInv, TypeOK, handles, poolVars,
         stopVars, Serving, Families, Idle, MuFree
<1>11. ASSUME NEW c \in Callers, Release(c) PROVE NoDeadCharge'
  BY <1>11 DEF Release, NoDeadCharge, PoolInv, TypeOK, handles, poolVars,
         stopVars, Serving, Families, Idle, MuFree
<1>12. ASSUME NEW c \in Callers, NEW f \in Families, SendStalled(c, f) PROVE NoDeadCharge'
  BY <1>12 DEF SendStalled, MaySend, Finalize, ResetAccounting, PoolKey,
         NoDeadCharge, PoolInv, TypeOK, handles, poolVars, stopVars, Serving,
         Families, Idle, MuFree
<1>13. ASSUME NEW c \in Callers, NEW f \in Families, SendBroken(c, f) PROVE NoDeadCharge'
  BY <1>13 DEF SendBroken, MaySend, Finalize, ResetAccounting, PoolKey,
         NoDeadCharge, PoolInv, TypeOK, handles, poolVars, stopVars, Serving,
         Families, Idle, MuFree
<1>14. ASSUME NEW c \in Callers, TerminateUnresponsive(c) PROVE NoDeadCharge'
  BY <1>14 DEF TerminateUnresponsive, Finalize, ResetAccounting, PoolKey,
         NoDeadCharge, PoolInv, TypeOK, handles, poolVars, stopVars, Serving,
         Families, Idle, MuFree
<1>15. ASSUME NEW f \in Families, ReaperCrash(f) PROVE NoDeadCharge'
  BY <1>15 DEF ReaperCrash, Exited, Finalize, ResetAccounting, NoDeadCharge,
         PoolInv, TypeOK, handles, poolVars, stopVars, Serving, Families,
         Idle, MuFree
<1>16. ASSUME ReaperCollect PROVE NoDeadCharge'
  BY <1>16 DEF ReaperCollect, Evictable, NoDeadCharge, PoolInv, TypeOK,
         handles, poolVars, stopVars, Serving, Families, Idle, MuFree
<1>17. ASSUME NEW m \in Models, ReaperClaim(m) PROVE NoDeadCharge'
  BY <1>17 DEF ReaperClaim, NoDeadCharge, PoolInv, TypeOK, handles, poolVars,
         stopVars, Serving, Families, Idle, MuFree
<1>18. ASSUME NEW m \in Models, ReaperSkip(m) PROVE NoDeadCharge'
  BY <1>18 DEF ReaperSkip, AfterFamily, NoDeadCharge, PoolInv, TypeOK,
         handles, poolVars, stopVars, Serving, Families, Idle, MuFree
<1>19. ASSUME ShutdownBegin PROVE NoDeadCharge'
  BY <1>19 DEF ShutdownBegin, NoDeadCharge, PoolInv, TypeOK, handles,
         poolVars, stopVars, Serving, Families, Idle, MuFree
<1>20. ASSUME NEW f \in Families, ShutdownNext(f) PROVE NoDeadCharge'
  BY <1>20 DEF ShutdownNext, NoDeadCharge, PoolInv, TypeOK, handles, poolVars,
         stopVars, Serving, Families, Idle, MuFree
<1>21. ASSUME StopSnapshot PROVE NoDeadCharge'
  BY <1>21 DEF StopSnapshot, NoDeadCharge, PoolInv, TypeOK, handles, poolVars,
         stopVars, Serving, Families, Idle, MuFree
<1>22. ASSUME StopNothing PROVE NoDeadCharge'
  BY <1>22 DEF StopNothing, AfterStop, AfterFamily, NoDeadCharge, PoolInv,
         TypeOK, handles, poolVars, stopVars, Serving, Families, Idle, MuFree
<1>23. ASSUME StopWait PROVE NoDeadCharge'
  BY <1>23 DEF StopWait, NoDeadCharge, PoolInv, TypeOK, handles, poolVars,
         stopVars, Serving, Families, Idle, MuFree
<1>24. ASSUME StopPublish PROVE NoDeadCharge'
  BY <1>24 DEF StopPublish, AfterStop, AfterFamily, NoDeadCharge, PoolInv,
         TypeOK, handles, poolVars, stopVars, Serving, Families, Idle, MuFree
<1>25. ASSUME EvictReset PROVE NoDeadCharge'
  BY <1>25 DEF EvictReset, ResetAccounting, AfterFamily, NoDeadCharge,
         PoolInv, TypeOK, handles, poolVars, stopVars, Serving, Families,
         Idle, MuFree
<1>26. ASSUME ShutdownSweep PROVE NoDeadCharge'
  BY <1>26 DEF ShutdownSweep, NoDeadCharge, PoolInv, TypeOK, handles,
         poolVars, stopVars, Serving, Families, Idle, MuFree, StopInv
<1>. QED
  BY <1>1, <1>2, <1>3, <1>4, <1>5, <1>6, <1>7, <1>8, <1>9, <1>10, <1>11,
         <1>12, <1>13, <1>14, <1>15, <1>16, <1>17, <1>18, <1>19, <1>20, <1>21,
         <1>22, <1>23, <1>24, <1>25, <1>26
  DEF Next, Caller, Ensure, Handshake, Environment, Family, Stopper, Shutdown

(* A step charges a free entry, frees an entry, or leaves the accounting alone. *)
Charges(m) ==
    /\ charged[m] = 0 /\ charged' = [charged EXCEPT ![m] = Bytes[m]]
    /\ reserved' = reserved + Bytes[m]
Frees(m) ==
    /\ charged' = [charged EXCEPT ![m] = 0]
    /\ reserved' = Monus(reserved, charged[m])
Accounts == (\E m \in Models : Charges(m) \/ Frees(m)) \/ UNCHANGED <<charged, reserved>>

LEMMA ResetAccounts ==
  ASSUME TypeOK, NEW m, ResetAccounting(m) PROVE Accounts
<1>1. CASE m \in pool
  <2>1. m \in Models /\ Frees(m)
    BY <1>1 DEF TypeOK, ResetAccounting, Frees
  <2> QED
    BY <2>1 DEF Accounts
<1>2. CASE m \notin pool
  BY <1>2 DEF ResetAccounting, Accounts
<1> QED
  BY <1>1, <1>2

LEMMA AccountingStep ==
  ASSUME TypeOK, [Next]_vars PROVE Accounts
<1>1. CASE \/ UNCHANGED vars
           \/ \E f \in Families : Environment(f)
           \/ ReaperCollect \/ Shutdown
  BY <1>1 DEF vars, Environment, WorkerExits, BackoffExpires, ReaperCollect,
         Shutdown, ShutdownBegin, ShutdownSweep, ShutdownNext, poolVars, Accounts
<1>2. CASE \E m \in Models : Family(m)
  BY <1>2 DEF Family, IdleElapses, WarmHold, WarmRelease, PoolEnsure, ReaperClaim,
         ReaperSkip, poolVars, Accounts
<1>3. CASE Stopper
  <2>1. CASE EvictReset
    BY <2>1, ResetAccounts DEF EvictReset
  <2>2. CASE StopSnapshot \/ StopNothing \/ StopWait \/ StopPublish
    BY <2>2 DEF StopSnapshot, StopNothing, StopWait, StopPublish, poolVars, Accounts
  <2> QED
    BY <1>3, <2>1, <2>2 DEF Stopper
<1>4. CASE \E f \in Families : ReaperCrash(f)
  <2>1. PICK f \in Families : ReaperCrash(f)
    BY <1>4
  <2>2. ResetAccounting(f) \/ UNCHANGED poolVars
    BY <2>1 DEF ReaperCrash
  <2> QED
    BY <2>2, ResetAccounts DEF poolVars, Accounts
<1>5. ASSUME NEW c \in Callers, Caller(c) PROVE Accounts
  <2>1. CASE Release(c) \/ ReadHandle(c) \/ MarkRelayed(c) \/ \E m \in Models : TrySetBusy(c, m)
    BY <2>1 DEF Release, ReadHandle, MarkRelayed, TrySetBusy, poolVars, Accounts
  <2>2. CASE TerminateUnresponsive(c) \/ \E f \in Families : SendStalled(c, f) \/ SendBroken(c, f)
    BY <2>2, ResetAccounts DEF TerminateUnresponsive, SendStalled, SendBroken
  <2>3. CASE \E f \in Families : Ensure(c, f)
    BY <2>3 DEF Ensure, EnsureNoExe, EnsureNoPipe, EnsureSpawnFails, EnsureLaunch, poolVars, Accounts
  <2>4. CASE HandshakeReady(c)
    <3>1. CASE muFam \in pool /\ charged[muFam] = 0
      <4>1. muFam \in Models /\ Charges(muFam)
        BY <2>4, <3>1 DEF TypeOK, HandshakeReady, Charges
      <4> QED
        BY <4>1 DEF Accounts
    <3>2. CASE ~(muFam \in pool /\ charged[muFam] = 0)
      BY <2>4, <3>2 DEF HandshakeReady, Accounts
    <3> QED
      BY <3>1, <3>2
  <2>5. CASE HandshakeNoConnect(c) \/ HandshakeRejected(c) \/ HandshakeUnreadable(c)
    BY <2>5 DEF HandshakeNoConnect, HandshakeRejected, HandshakeUnreadable, poolVars, Accounts
  <2> QED
    BY <1>5, <2>1, <2>2, <2>3, <2>4, <2>5 DEF Caller, Handshake
<1> QED
  BY <1>1, <1>2, <1>3, <1>4, <1>5 DEF Next

(* An entry's bytes are disjoint from those of the others. *)
LEMMA EntryBytes ==
  ASSUME NEW m, NEW b \in Nat
  PROVE  IsFiniteSet({m} \X (1 .. b)) /\ Cardinality({m} \X (1 .. b)) = b
<1>1. IsFiniteSet({m}) /\ Cardinality({m}) = 1
  BY FS_Singleton
<1>2. IsFiniteSet(1 .. b) /\ Cardinality(1 .. b) = b
  BY FS_Interval
<1> QED
  BY <1>1, <1>2, FS_Product

LEMMA TrackerStep ==
  ASSUME TypeOK, TrackerInv, [Next]_vars PROVE TrackerInv'
<1>0. IsFiniteSet(ChargedBytes) /\ reserved = Cardinality(ChargedBytes)
      /\ reserved \in Nat /\ charged \in [Models -> Nat]
  BY DEF TrackerInv, TrackerIsSum, TypeOK
<1>1. CASE UNCHANGED <<charged, reserved>>
  BY <1>0, <1>1 DEF TrackerInv, TrackerIsSum, ChargedBytes
<1>2. ASSUME NEW m \in Models, Charges(m) PROVE TrackerInv'
  <2> DEFINE E == {m} \X (1 .. Bytes[m])
  <2>1. ChargedBytes' = ChargedBytes \cup E
    <3>1. charged' = [charged EXCEPT ![m] = Bytes[m]] /\ charged[m] = 0
      BY <1>2 DEF Charges
    <3>2. 1 .. charged[m] = {}
      BY <3>1
    <3> QED
      BY <1>0, <3>1, <3>2 DEF ChargedBytes
  <2>2. ChargedBytes \cap E = {}
    BY <1>0, <1>2 DEF ChargedBytes, Charges
  <2>3. IsFiniteSet(E) /\ Cardinality(E) = Bytes[m]
    BY EntryBytes
  <2>4. Cardinality({}) = 0
    BY FS_EmptySet
  <2>5. IsFiniteSet(ChargedBytes') /\ Cardinality(ChargedBytes') = Cardinality(ChargedBytes) + Bytes[m] - 0
    BY <1>0, <2>1, <2>2, <2>3, <2>4, FS_Union
  <2> QED
    BY <1>0, <1>2, <2>5 DEF TrackerInv, TrackerIsSum, Charges
<1>3. ASSUME NEW m \in Models, Frees(m) PROVE TrackerInv'
  <2> DEFINE E == {m} \X (1 .. charged[m])
  <2>1. charged' = [charged EXCEPT ![m] = 0] /\ reserved' = Monus(reserved, charged[m])
    BY <1>3 DEF Frees
  <2>2. ChargedBytes' = ChargedBytes \ E
    <3>1. 1 .. 0 = {}
      OBVIOUS
    <3> QED
      BY <1>0, <2>1, <3>1 DEF ChargedBytes
  <2>3. ChargedBytes \cap E = E
    BY DEF ChargedBytes
  <2>4. Cardinality(E) = charged[m]
    BY <1>0, EntryBytes
  <2>5. IsFiniteSet(ChargedBytes') /\ Cardinality(ChargedBytes') = reserved - charged[m]
    <3>1. /\ IsFiniteSet(ChargedBytes \ E)
          /\ Cardinality(ChargedBytes \ E) = Cardinality(ChargedBytes) - Cardinality(ChargedBytes \cap E)
      <4> HIDE DEF E
      <4> QED
        BY <1>0, FS_Difference
    <3> QED
      BY <1>0, <2>2, <2>3, <2>4, <3>1
  <2>6. Cardinality(ChargedBytes') \in Nat
    BY <2>5, FS_CardinalityType
  <2>7. charged[m] \in Nat
    BY <1>0
  <2> QED
    BY <1>0, <2>1, <2>5, <2>6, <2>7 DEF TrackerInv, TrackerIsSum, Monus
<1> QED
  BY <1>1, <1>2, <1>3, AccountingStep DEF Accounts

(* What a caller read for a relay mark is a launch not before the one it    *)
(* acquired.                                                               *)
LEMMA SawStep ==
  ASSUME TypeOK, HandleInv, OwnInv, SawInv, [Next]_vars PROVE SawInv'
<1>1. CASE UNCHANGED <<own, acq, saw, gen>>
  BY <1>1 DEF SawInv
<1>2. ASSUME NEW c \in Callers, NEW f \in Families, EnsureLaunch(c, f) PROVE SawInv'
  <2>1. UNCHANGED <<own, acq, saw>>
    BY <1>2 DEF EnsureLaunch
  <2>2. \A d \in Callers : own[d] # NoFam =>
            gen[own[d]] \in Nat /\ gen'[own[d]] \in Nat /\ gen[own[d]] <= gen'[own[d]]
    BY <1>2 DEF EnsureLaunch, TypeOK, Families
  <2> QED
    BY <2>1, <2>2 DEF SawInv, TypeOK
<1>3. ASSUME NEW c \in Callers, NEW m \in Models, TrySetBusy(c, m) PROVE SawInv'
  BY <1>3 DEF TrySetBusy, SawInv, TypeOK
<1>4. ASSUME NEW c \in Callers, Release(c) PROVE SawInv'
  BY <1>4 DEF Release, SawInv, TypeOK
<1>5. ASSUME NEW c \in Callers, ReadHandle(c) PROVE SawInv'
  <2>1. /\ own[c] \in Families /\ own[c] # NoFam
        /\ saw' = [saw EXCEPT ![c] = {proc[own[c]]}]
        /\ UNCHANGED <<own, acq, gen>>
    BY <1>5 DEF ReadHandle, TypeOK, Families, handles
  <2>2. proc[own[c]] = 0 \/ proc[own[c]] = gen[own[c]]
    BY <2>1 DEF HandleInv, HandlesMatchState, TypeOK, States
  <2>3. acq[c] <= gen[own[c]] /\ gen[own[c]] \in Nat
    BY <2>1 DEF OwnInv, TypeOK
  <2> QED
    BY <2>1, <2>2, <2>3 DEF SawInv, TypeOK
<1>6. ASSUME NEW c \in Callers, MarkRelayed(c) PROVE SawInv'
  BY <1>6 DEF MarkRelayed, SawInv, TypeOK, handles
<1>7. ASSUME NEW c \in Callers, Caller(c) PROVE SawInv'
  <2>1. CASE TerminateUnresponsive(c) \/ Handshake(c)
    BY <1>1, <2>1 DEF TerminateUnresponsive, Handshake, HandshakeReady, HandshakeNoConnect,
       HandshakeRejected, HandshakeUnreadable, callerVars
  <2>2. ASSUME NEW f \in Families, EnsureNoExe(c, f) \/ EnsureNoPipe(c, f)
               \/ EnsureSpawnFails(c, f) \/ SendStalled(c, f) \/ SendBroken(c, f)
        PROVE  SawInv'
    BY <1>1, <2>2 DEF EnsureNoExe, EnsureNoPipe, EnsureSpawnFails, SendStalled, SendBroken,
       callerVars
  <2> QED
    BY <1>2, <1>3, <1>4, <1>5, <1>6, <1>7, <2>1, <2>2 DEF Caller, Ensure
<1>8. ASSUME NEW f \in Families, Environment(f) \/ ReaperCrash(f) PROVE SawInv'
  BY <1>1, <1>8 DEF Environment, WorkerExits, BackoffExpires, ReaperCrash, callerVars
<1>9. ASSUME NEW m \in Models, Family(m) PROVE SawInv'
  BY <1>1, <1>9 DEF Family, IdleElapses, WarmHold, WarmRelease, PoolEnsure, ReaperClaim,
     ReaperSkip, callerVars, handles
<1>10. CASE ReaperCollect \/ Stopper \/ Shutdown
  BY <1>1, <1>10 DEF ReaperCollect, Stopper, StopSnapshot, StopNothing, StopWait, StopPublish,
     EvictReset, Shutdown, ShutdownBegin, ShutdownNext, ShutdownSweep, callerVars, handles
<1>11. CASE UNCHANGED vars
  BY <1>1, <1>11 DEF vars, callerVars, handles
<1> QED
  BY <1>7, <1>8, <1>9, <1>10, <1>11 DEF Next

(* The process a stop has waited for is not started again.                 *)
LEMMA EndedStep ==
  ASSUME TypeOK, StopInv, HandleInv, EndedInv, [Next]_vars PROVE EndedInv'
<1>0. stop \in [pc : StopPcs, fam : Families \cup {NoFam}, pipe : Nat, proc : Nat]
  BY DEF TypeOK
<1>12. ASSUME NEW rest, AfterFamily(rest) PROVE stop'.pc # "publish"
  BY <1>12 DEF AfterFamily, Idle
<1>1. ASSUME stop' = stop, \A f \in Families : alive'[f] \subseteq alive[f] PROVE EndedInv'
  BY <1>1 DEF EndedInv, TypeOK
<1>2. ASSUME stop'.pc # "publish" PROVE EndedInv'
  BY <1>2 DEF EndedInv
<1>3. ASSUME NEW c \in Callers, NEW f \in Families, EnsureLaunch(c, f) PROVE EndedInv'
  <2>1. stop' = stop /\ st[f] # "Stopping"
        /\ \A g \in Families : g # f => alive'[g] = alive[g]
    BY <1>3 DEF EnsureLaunch, Spawnable, TypeOK, stopVars
  <2>2. stop.pc = "publish" => stop.fam \in Families /\ stop.fam # f
    BY <2>1 DEF TypeOK, HandleInv, StopSnapshotIsCurrent
  <2> QED
    BY <2>1, <2>2 DEF EndedInv
<1>4. CASE StopWait
  BY <1>0, <1>4 DEF StopWait, EndedInv, TypeOK
<1>5. ASSUME NEW c \in Callers, Caller(c) PROVE EndedInv'
  <2>1. CASE TerminateUnresponsive(c) \/ Handshake(c)
    BY <1>1, <2>1 DEF TerminateUnresponsive, Handshake, HandshakeReady, HandshakeNoConnect,
       HandshakeRejected, HandshakeUnreadable, Terminated, stopVars, TypeOK
  <2>2. ASSUME NEW f \in Families, EnsureNoExe(c, f) \/ EnsureNoPipe(c, f)
               \/ EnsureSpawnFails(c, f) \/ SendStalled(c, f) \/ SendBroken(c, f)
        PROVE  EndedInv'
    BY <1>1, <2>2 DEF EnsureNoExe, EnsureNoPipe, EnsureSpawnFails, SendStalled, SendBroken,
       Terminated, stopVars, TypeOK
  <2>3. CASE Release(c) \/ ReadHandle(c) \/ MarkRelayed(c) \/ \E m \in Models : TrySetBusy(c, m)
    BY <1>1, <2>3 DEF Release, ReadHandle, MarkRelayed, TrySetBusy, handles, stopVars
  <2> QED
    BY <1>3, <1>5, <2>1, <2>2, <2>3 DEF Caller, Ensure
<1>6. ASSUME NEW f \in Families, Environment(f) \/ ReaperCrash(f) PROVE EndedInv'
  BY <1>1, <1>6 DEF Environment, WorkerExits, BackoffExpires, ReaperCrash, stopVars, TypeOK
<1>7. ASSUME NEW m \in Models, Family(m) PROVE EndedInv'
  <2>1. CASE IdleElapses(m) \/ WarmHold(m) \/ WarmRelease(m) \/ PoolEnsure(m)
    BY <1>1, <2>1 DEF IdleElapses, WarmHold, WarmRelease, PoolEnsure, stopVars, handles
  <2>2. CASE ReaperClaim(m)
    BY <1>2, <2>2 DEF ReaperClaim, Idle
  <2>3. CASE ReaperSkip(m)
    BY <1>2, <1>12, <2>3 DEF ReaperSkip
  <2> QED
    BY <1>7, <2>1, <2>2, <2>3 DEF Family
<1>8. CASE ReaperCollect \/ Shutdown
  BY <1>0, <1>2, <1>8 DEF ReaperCollect, Shutdown, ShutdownBegin, ShutdownNext, ShutdownSweep, Idle
<1>9. CASE StopSnapshot \/ StopNothing \/ StopPublish \/ EvictReset
  <2>1. AfterStop => AfterFamily(cand) \/ stop'.pc = "reset"
    BY <1>0 DEF AfterStop
  <2>2. CASE StopSnapshot
    BY <1>0, <1>2, <2>2 DEF StopSnapshot
  <2> QED
    BY <1>2, <1>9, <1>12, <2>1, <2>2 DEF StopNothing, StopPublish, EvictReset
<1>10. CASE UNCHANGED vars
  BY <1>1, <1>10 DEF vars, handles, stopVars
<1> QED
  BY <1>4, <1>5, <1>6, <1>7, <1>8, <1>9, <1>10 DEF Next, Stopper

(* The initial state satisfies the inductive invariant. *)
LEMMA InitIInv == Init => IInv
<1>1. Init => TypeOK
  <2>1. Init => /\ st \in [Families -> States] /\ warm \in [Models -> Nat]
                /\ proc \in [Families -> Nat] /\ pipe \in [Families -> Nat]
                /\ gen \in [Families -> Nat] /\ alive \in [Families -> SUBSET Nat]
    BY DEF Init, States
  <2>2. Init => /\ backoff \in [Families -> BOOLEAN] /\ idle \in [Families -> BOOLEAN]
                /\ tainted \in [Families -> BOOLEAN] /\ down \in BOOLEAN
    BY DEF Init
  <2>3. Init => /\ pool \subseteq Models /\ reserved \in Nat
                /\ charged \in [Models -> Nat] /\ relayed \in [Models -> Nat]
                /\ own \in [Callers -> Models \cup {NoFam}] /\ acq \in [Callers -> Nat]
                /\ saw \in [Callers -> SUBSET Nat]
    BY DEF Init
  <2>4. Init => /\ mu \in Callers \cup {NoCaller} /\ muFam \in Families \cup {NoFam}
                /\ stop \in [pc : StopPcs, fam : Families \cup {NoFam}, pipe : Nat, proc : Nat]
                /\ stop.pc = "idle" /\ cand \subseteq Families
    BY DEF Init, Idle, StopPcs
  <2>5. QED
    BY <2>1, <2>2, <2>3, <2>4 DEF TypeOK
<1>2. Init => SpawnInv /\ StopInv /\ HandleInv /\ OwnInv /\ SawInv /\ PoolInv /\ EndedInv
  BY DEF Init, SpawnInv, StopInv, HandleInv, HandlesMatchState, StopSnapshotIsCurrent,
         OwnInv, SawInv, PoolInv, EndedInv, Idle, Families
<1>3. Init => SingleFlight /\ BusyIsOwned /\ NoDeadCharge
  BY DEF Init, SingleFlight, Owners, BusyIsOwned, NoDeadCharge, Families
<1>4. Init => TrackerInv
  <2>1. SUFFICES ASSUME Init PROVE TrackerInv
    OBVIOUS
  <2>2. ChargedBytes = {} /\ reserved = 0
    BY <2>1 DEF Init, ChargedBytes
  <2>3. QED
    BY <2>2, FS_EmptySet DEF TrackerInv, TrackerIsSum
<1>5. QED
  BY <1>1, <1>2, <1>3, <1>4 DEF IInv

(* Every step keeps the inductive invariant. *)
LEMMA StepIInv == IInv /\ [Next]_vars => IInv'
<1>1. SUFFICES ASSUME IInv, [Next]_vars PROVE IInv'
  OBVIOUS
<1>2. TypeOK' /\ SpawnInv' /\ StopInv' /\ HandleInv'
  BY <1>1, TypeStep, SpawnStep, StopStep, HandleStep DEF IInv
<1>3. OwnInv' /\ SawInv' /\ EndedInv' /\ SingleFlight' /\ BusyIsOwned'
  BY <1>1, OwnStep, SawStep, EndedStep, FlightStep, BusyStep DEF IInv
<1>4. PoolInv' /\ NoDeadCharge' /\ TrackerInv'
  BY <1>1, PoolStep, ChargeStep, TrackerStep DEF IInv
<1>5. QED
  BY <1>2, <1>3, <1>4 DEF IInv

(* The inductive invariant holds of every reachable state of the manager. *)
THEOREM Invariance == Spec => []IInv
<1>1. Init => IInv
  BY InitIInv
<1>2. IInv /\ [Next]_vars => IInv'
  BY StepIInv
<1>3. QED
  BY <1>1, <1>2, PTL DEF Spec

(* Every variable keeps its type, whatever the callers do. *)
THEOREM TypeCorrect == Spec => []TypeOK
<1>1. IInv => TypeOK
  BY DEF IInv
<1>2. QED
  BY <1>1, Invariance, PTL

(* A family's handles name its latest launch while it serves, and are both *)
(* closed while it is down.                                                *)
THEOREM HandlesCorrect == Spec => []HandlesMatchState
<1>1. IInv => HandlesMatchState
  BY DEF IInv, HandleInv
<1>2. QED
  BY <1>1, Invariance, PTL

(* The handle copies GracefulStop works on without mu stay current. *)
THEOREM SnapshotCorrect == Spec => []StopSnapshotIsCurrent
<1>1. IInv => StopSnapshotIsCurrent
  BY DEF IInv, HandleInv
<1>2. QED
  BY <1>1, Invariance, PTL

(* A Busy family is owned by a caller that acquired this very launch. *)
THEOREM BusyCorrect == Spec => []BusyIsOwned
<1>1. IInv => BusyIsOwned
  BY DEF IInv
<1>2. QED
  BY <1>1, Invariance, PTL

(* Single flight holds until a caller releases a launch it did not acquire. *)
THEOREM FlightCorrect == Spec => []SingleFlight
<1>1. IInv => SingleFlight
  BY DEF IInv
<1>2. QED
  BY <1>1, Invariance, PTL

(* The idle eviction never stops a launch somebody owns. *)
THEOREM EvictionCorrect == Spec => []EvictionSparesJobs
<1>1. IInv => EvictionSparesJobs
  <2>1. SUFFICES ASSUME IInv, ~down, stop.pc \in {"snap", "wait", "publish"},
                        NEW c \in Owners(stop.fam)
                 PROVE  tainted[stop.fam]
    BY DEF EvictionSparesJobs
  <2>2. st[stop.fam] = "Stopping" /\ stop.fam \in Models
    BY <2>1 DEF IInv, StopInv, HandleInv, StopSnapshotIsCurrent
  <2>3. QED
    BY <2>1, <2>2 DEF IInv, OwnInv, Owners, Families
<1>2. QED
  BY <1>1, Invariance, PTL

(* No dead worker is charged outside the eviction's window. *)
THEOREM ChargeCorrect == Spec => []NoDeadCharge
<1>1. IInv => NoDeadCharge
  BY DEF IInv
<1>2. QED
  BY <1>1, Invariance, PTL

(* The reserved total is the sum of what the entries were charged. *)
THEOREM TrackerCorrect == Spec => []TrackerIsSum
<1>1. IInv => TrackerIsSum
  BY DEF IInv, TrackerInv
<1>2. QED
  BY <1>1, Invariance, PTL

(* What a step may do to an Unavailable family, to a relay mark and to a    *)
(* process handle.                                                         *)
UnavailableKept ==
    \A f \in Families : st[f] = "Unavailable" => st'[f] = "Unavailable" \/ stop'.pc = "end"

MarkOvertaken ==
    \A m \in Models : proc'[m] # 0 /\ relayed'[m] \notin {0, proc'[m]} =>
        \/ relayed'[m] = relayed[m] /\ proc'[m] = proc[m]
        \/ \E c \in Callers : own[c] = m /\ acq[c] # proc[m]

DroppedEnded ==
    \A f \in Families : proc[f] # 0 /\ proc'[f] # proc[f] =>
        \/ proc[f] \notin alive'[f]
        \/ st[f] = "Spawning" /\ st'[f] = "Crashed"

(* The launch clears the mark, and a mark differs from the launch it is     *)
(* stored under only if its caller acquired an earlier one.                *)
LEMMA MarkStep ==
  ASSUME TypeOK, HandleInv, SawInv, [Next]_vars PROVE MarkOvertaken
<1>1. ASSUME \A m \in Models : /\ relayed'[m] \in {0, relayed[m]}
                               /\ proc'[m] \in {0, proc[m]}
      PROVE  MarkOvertaken
  BY <1>1 DEF MarkOvertaken
<1>2. ASSUME NEW c \in Callers, NEW f \in Families, EnsureLaunch(c, f) PROVE MarkOvertaken
  <2>1. f \in Models => relayed'[f] = 0
    BY <1>2 DEF EnsureLaunch, Spawnable, MayUse, ClearRelay, TypeOK
  <2>2. \A m \in Models : m # f => relayed'[m] = relayed[m] /\ proc'[m] = proc[m]
    BY <1>2 DEF EnsureLaunch, ClearRelay, TypeOK, Families
  <2> QED
    BY <2>1, <2>2 DEF MarkOvertaken
<1>3. ASSUME NEW c \in Callers, MarkRelayed(c) PROVE MarkOvertaken
  <2>1. PICK h \in saw[c] : relayed' = [relayed EXCEPT ![own[c]] = h]
    BY <1>3 DEF MarkRelayed
  <2>2. proc' = proc /\ own[c] \in Models /\ own[c] # NoFam
    BY <1>3, <2>1 DEF MarkRelayed, handles, SawInv, TypeOK
  <2>3. \A m \in Models : m # own[c] => relayed'[m] = relayed[m]
    BY <2>1 DEF TypeOK
  <2>4. relayed'[own[c]] = h
    BY <2>1, <2>2 DEF TypeOK
  <2>5. ASSUME h # 0, proc[own[c]] # 0, acq[c] = proc[own[c]] PROVE h = proc[own[c]]
    <3>1. proc[own[c]] = gen[own[c]]
      BY <2>2, <2>5 DEF HandleInv, HandlesMatchState, TypeOK, States, Families
    <3>2. acq[c] <= h /\ h <= gen[own[c]]
      BY <2>1, <2>5 DEF SawInv
    <3>3. h \in Nat /\ acq[c] \in Nat /\ gen[own[c]] \in Nat
      BY <2>1, <2>2 DEF TypeOK, Families
    <3> QED
      BY <2>5, <3>1, <3>2, <3>3
  <2> QED
    BY <2>2, <2>3, <2>4, <2>5 DEF MarkOvertaken
<1>4. ASSUME NEW c \in Callers, Caller(c) PROVE MarkOvertaken
  <2>1. CASE TerminateUnresponsive(c)
    BY <1>1, <2>1 DEF TerminateUnresponsive, Finalize, ResetAccounting, TypeOK, Families
  <2>2. CASE Handshake(c)
    BY <1>1, <2>2 DEF Handshake, HandshakeReady, HandshakeNoConnect, HandshakeRejected,
       HandshakeUnreadable, Finalize, poolVars, TypeOK, Families
  <2>3. ASSUME NEW f \in Families, EnsureNoExe(c, f) \/ EnsureNoPipe(c, f)
               \/ EnsureSpawnFails(c, f)
        PROVE  MarkOvertaken
    BY <1>1, <2>3 DEF EnsureNoExe, EnsureNoPipe, EnsureSpawnFails, Finalize, ClearRelay,
       poolVars, TypeOK, Families
  <2>4. ASSUME NEW f \in Families, SendStalled(c, f) \/ SendBroken(c, f) PROVE MarkOvertaken
    BY <1>1, <2>4 DEF SendStalled, SendBroken, Finalize, ResetAccounting, PoolKey, TypeOK, Families
  <2>5. CASE Release(c) \/ ReadHandle(c) \/ \E m \in Models : TrySetBusy(c, m)
    BY <1>1, <2>5 DEF Release, ReadHandle, TrySetBusy, poolVars, handles
  <2> QED
    BY <1>2, <1>3, <1>4, <2>1, <2>2, <2>3, <2>4, <2>5 DEF Caller, Ensure
<1>5. ASSUME NEW f \in Families, Environment(f) \/ ReaperCrash(f) PROVE MarkOvertaken
  BY <1>1, <1>5 DEF Environment, WorkerExits, BackoffExpires, ReaperCrash, Finalize,
     ResetAccounting, poolVars, TypeOK, Families
<1>6. ASSUME NEW m \in Models, Family(m) PROVE MarkOvertaken
  BY <1>1, <1>6 DEF Family, IdleElapses, WarmHold, WarmRelease, PoolEnsure, ReaperClaim,
     ReaperSkip, poolVars, handles
<1>7. CASE ReaperCollect \/ Shutdown
  BY <1>1, <1>7 DEF ReaperCollect, Shutdown, ShutdownBegin, ShutdownNext, ShutdownSweep,
     poolVars, handles, Families, TypeOK
<1>8. CASE Stopper
  BY <1>1, <1>8 DEF Stopper, StopSnapshot, StopNothing, StopWait, StopPublish, EvictReset,
     ResetAccounting, poolVars, handles, TypeOK, Families
<1>9. CASE UNCHANGED vars
  BY <1>1, <1>9 DEF vars, poolVars, handles
<1> QED
  BY <1>4, <1>5, <1>6, <1>7, <1>8, <1>9 DEF Next

(* Whoever closes a process handle has seen the process end or ended it,    *)
(* except where an announce cannot be read.                                *)
LEMMA DroppedStep ==
  ASSUME TypeOK, SpawnInv, HandleInv, EndedInv, [Next]_vars PROVE DroppedEnded
<1>0. proc \in [Families -> Nat] /\ alive \in [Families -> SUBSET Nat] /\ st \in [Families -> States]
  BY DEF TypeOK
<1>1. ASSUME UNCHANGED proc PROVE DroppedEnded
  BY <1>1 DEF DroppedEnded
<1>2. ASSUME NEW c \in Callers, Caller(c) PROVE DroppedEnded
  <2>1. CASE TerminateUnresponsive(c)
    BY <1>0, <2>1 DEF TerminateUnresponsive, Finalize, Terminated, DroppedEnded, Families
  <2>2. CASE Handshake(c)
    <3>1. muFam \in Families /\ st[muFam] = "Spawning"
      BY <2>2 DEF Handshake, HandshakeReady, HandshakeNoConnect, HandshakeRejected,
         HandshakeUnreadable, HandshakeEnds, SpawnInv, TypeOK
    <3> QED
      BY <1>0, <1>1, <2>2, <3>1 DEF Handshake, HandshakeReady, HandshakeNoConnect, HandshakeRejected,
         HandshakeUnreadable, Finalize, Terminated, DroppedEnded
  <2>3. ASSUME NEW f \in Families, Ensure(c, f) PROVE DroppedEnded
    <3>1. proc[f] = 0
      BY <2>3 DEF Ensure, EnsureNoExe, EnsureNoPipe, EnsureSpawnFails, EnsureLaunch, Spawnable,
         HandleInv, HandlesMatchState
    <3>2. \A g \in Families : g # f => proc'[g] = proc[g]
      BY <1>0, <2>3 DEF Ensure, EnsureNoExe, EnsureNoPipe, EnsureSpawnFails, EnsureLaunch, Finalize
    <3> QED
      BY <3>1, <3>2 DEF DroppedEnded
  <2>4. ASSUME NEW f \in Families, SendStalled(c, f) \/ SendBroken(c, f) PROVE DroppedEnded
    BY <1>0, <2>4 DEF SendStalled, SendBroken, Finalize, Terminated, DroppedEnded
  <2>5. CASE Release(c) \/ ReadHandle(c) \/ MarkRelayed(c) \/ \E m \in Models : TrySetBusy(c, m)
    BY <1>1, <2>5 DEF Release, ReadHandle, MarkRelayed, TrySetBusy, handles
  <2> QED
    BY <1>2, <2>1, <2>2, <2>3, <2>4, <2>5 DEF Caller
<1>3. ASSUME NEW f \in Families, ReaperCrash(f) PROVE DroppedEnded
  BY <1>0, <1>3 DEF ReaperCrash, Exited, Finalize, DroppedEnded
<1>4. ASSUME NEW f \in Families, Environment(f) PROVE DroppedEnded
  BY <1>1, <1>4 DEF Environment, WorkerExits, BackoffExpires
<1>5. ASSUME NEW m \in Models, Family(m) PROVE DroppedEnded
  BY <1>1, <1>5 DEF Family, IdleElapses, WarmHold, WarmRelease, PoolEnsure, ReaperClaim,
     ReaperSkip, handles
<1>6. CASE StopNothing
  <2>1. stop.fam \in Families /\ pipe[stop.fam] = 0 /\ proc' = [proc EXCEPT ![stop.fam] = 0]
    BY <1>6 DEF StopNothing, TypeOK
  <2>2. proc[stop.fam] = 0
    BY <1>0, <2>1 DEF HandleInv, HandlesMatchState, States
  <2> QED
    BY <1>0, <2>1, <2>2 DEF DroppedEnded
<1>7. CASE StopPublish
  <2>1. /\ stop.fam \in Families /\ alive' = alive
        /\ proc' = IF proc[stop.fam] = stop.proc THEN [proc EXCEPT ![stop.fam] = 0] ELSE proc
    BY <1>7 DEF StopPublish, TypeOK
  <2>2. stop.proc \notin alive[stop.fam]
    BY <1>7 DEF StopPublish, EndedInv
  <2> QED
    BY <1>0, <2>1, <2>2 DEF DroppedEnded
<1>8. CASE ShutdownSweep
  BY <1>0, <1>8 DEF ShutdownSweep, DroppedEnded
<1>9. CASE ReaperCollect \/ StopSnapshot \/ StopWait \/ EvictReset \/ ShutdownBegin
           \/ \E f \in Families : ShutdownNext(f)
  BY <1>1, <1>9 DEF ReaperCollect, StopSnapshot, StopWait, EvictReset, ShutdownBegin, ShutdownNext,
     handles
<1>10. CASE UNCHANGED vars
  BY <1>1, <1>10 DEF vars, handles
<1> QED
  BY <1>2, <1>3, <1>4, <1>5, <1>6, <1>7, <1>8, <1>9, <1>10 DEF Next, Stopper, Shutdown

(* Unavailable is left at shutdown only. *)
LEMMA UnavailableStep ==
  ASSUME TypeOK, SpawnInv, HandleInv, [Next]_vars PROVE UnavailableKept
<1>1. ASSUME \/ UNCHANGED vars
             \/ \E f \in Families : WorkerExits(f) \/
                    BackoffExpires(f) \/ ShutdownNext(f)
             \/ \E m \in Models : IdleElapses(m) \/ WarmHold(m) \/
                    WarmRelease(m) \/ PoolEnsure(m) \/
                    ReaperSkip(m)
             \/ \E c \in Callers : MarkRelayed(c) \/ ReadHandle(c)
             \/ ReaperCollect \/ ShutdownBegin \/ StopWait \/
                    EvictReset
     PROVE  UnavailableKept
  BY <1>1 DEF vars, WorkerExits, BackoffExpires, IdleElapses, WarmHold,
         WarmRelease, PoolEnsure, MarkRelayed, ReadHandle, ReaperCollect, ReaperSkip,
         ShutdownBegin, ShutdownNext, StopWait, EvictReset, UnavailableKept,
         TypeOK, handles, Serving, Families
<1>2. ASSUME NEW c \in Callers, NEW f \in Families, EnsureNoExe(c, f) PROVE UnavailableKept
  BY <1>2 DEF EnsureNoExe, Spawnable, UnavailableKept, TypeOK, handles,
         Serving, Families
<1>3. ASSUME NEW c \in Callers, NEW f \in Families, EnsureNoPipe(c, f) PROVE UnavailableKept
  BY <1>3 DEF EnsureNoPipe, Spawnable, UnavailableKept, TypeOK, handles,
         Serving, Families
<1>4. ASSUME NEW c \in Callers, NEW f \in Families, EnsureSpawnFails(c, f) PROVE UnavailableKept
  BY <1>4 DEF EnsureSpawnFails, Spawnable, Finalize, UnavailableKept, TypeOK,
         handles, Serving, Families
<1>5. ASSUME NEW c \in Callers, NEW f \in Families, EnsureLaunch(c, f) PROVE UnavailableKept
  BY <1>5 DEF EnsureLaunch, Spawnable, UnavailableKept, TypeOK, handles,
         Serving, Families
<1>6. ASSUME NEW c \in Callers, HandshakeReady(c) PROVE UnavailableKept
  BY <1>6 DEF HandshakeReady, HandshakeEnds, UnavailableKept, TypeOK, handles,
         Serving, Families, SpawnInv
<1>7. ASSUME NEW c \in Callers, HandshakeNoConnect(c) PROVE UnavailableKept
  BY <1>7 DEF HandshakeNoConnect, HandshakeEnds, Finalize, UnavailableKept,
         TypeOK, handles, Serving, Families, SpawnInv
<1>8. ASSUME NEW c \in Callers, HandshakeRejected(c) PROVE UnavailableKept
  BY <1>8 DEF HandshakeRejected, HandshakeEnds, Finalize, UnavailableKept,
         TypeOK, handles, Serving, Families, SpawnInv
<1>9. ASSUME NEW c \in Callers, HandshakeUnreadable(c) PROVE UnavailableKept
  BY <1>9 DEF HandshakeUnreadable, HandshakeEnds, Finalize, UnavailableKept,
         TypeOK, handles, Serving, Families, SpawnInv
<1>10. ASSUME NEW c \in Callers, NEW m \in Models, TrySetBusy(c, m) PROVE UnavailableKept
  BY <1>10 DEF TrySetBusy, UnavailableKept, TypeOK, handles, Serving, Families
<1>11. ASSUME NEW c \in Callers, Release(c) PROVE UnavailableKept
  BY <1>11 DEF Release, UnavailableKept, TypeOK, handles, Serving, Families
<1>12. ASSUME NEW c \in Callers, NEW f \in Families, SendStalled(c, f) PROVE UnavailableKept
  BY <1>12 DEF SendStalled, MaySend, Finalize, UnavailableKept, TypeOK,
         handles, Serving, Families
<1>13. ASSUME NEW c \in Callers, NEW f \in Families, SendBroken(c, f) PROVE UnavailableKept
  BY <1>13 DEF SendBroken, MaySend, Finalize, UnavailableKept, TypeOK,
         handles, Serving, Families
<1>14. ASSUME NEW c \in Callers, TerminateUnresponsive(c) PROVE UnavailableKept
  BY <1>14 DEF TerminateUnresponsive, Finalize, UnavailableKept, TypeOK,
         handles, Serving, Families
<1>15. ASSUME NEW f \in Families, ReaperCrash(f) PROVE UnavailableKept
  BY <1>15 DEF ReaperCrash, Exited, Finalize, UnavailableKept, TypeOK,
         handles, Serving, Families
<1>16. ASSUME NEW m \in Models, ReaperClaim(m) PROVE UnavailableKept
  BY <1>16 DEF ReaperClaim, UnavailableKept, TypeOK, handles, Serving,
         Families
<1>17. ASSUME StopSnapshot PROVE UnavailableKept
  BY <1>17 DEF StopSnapshot, UnavailableKept, TypeOK, handles, Serving,
         Families
<1>18. ASSUME StopNothing PROVE UnavailableKept
  BY <1>18 DEF StopNothing, UnavailableKept, TypeOK, handles, Serving,
         Families
<1>19. ASSUME StopPublish PROVE UnavailableKept
  BY <1>19 DEF StopPublish, UnavailableKept, TypeOK, handles, Serving,
         Families
<1>20. ASSUME ShutdownSweep PROVE UnavailableKept
  BY <1>20 DEF ShutdownSweep, UnavailableKept, TypeOK, handles, Serving,
         Families
<1>. QED
  BY <1>1, <1>2, <1>3, <1>4, <1>5, <1>6, <1>7, <1>8, <1>9, <1>10, <1>11,
         <1>12, <1>13, <1>14, <1>15, <1>16, <1>17, <1>18, <1>19, <1>20
  DEF Next, Caller, Ensure, Handshake, Environment, Family, Stopper, Shutdown

(* A mark of an earlier launch comes to stand on a later one only by a      *)
(* caller whose own launch was replaced while it held the family.          *)
THEOREM MarkCorrect == Spec => StaleMarkIsOvertaken
<1>1. IInv /\ [Next]_vars => [MarkOvertaken]_vars
  BY MarkStep DEF IInv
<1>2. QED
  BY <1>1, Invariance, PTL DEF Spec, StaleMarkIsOvertaken, MarkOvertaken

(* No process handle is closed while its process runs, save for a launch    *)
(* whose announce cannot be read.                                          *)
THEOREM DroppedCorrect == Spec => DroppedIsDead
<1>1. IInv /\ [Next]_vars => [DroppedEnded]_vars
  BY DroppedStep DEF IInv
<1>2. QED
  BY <1>1, Invariance, PTL DEF Spec, DroppedIsDead, DroppedEnded

(* A wrong deployment is never respawned. *)
THEOREM UnavailableCorrect == Spec => UnavailableIsFinal
<1>1. IInv /\ [Next]_vars => [UnavailableKept]_vars
  BY UnavailableStep DEF IInv
<1>2. QED
  BY <1>1, Invariance, PTL DEF Spec, UnavailableIsFinal, UnavailableKept
=============================================================================
