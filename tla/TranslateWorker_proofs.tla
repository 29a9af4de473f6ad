----------------------- MODULE TranslateWorker_proofs -----------------------
(***************************************************************************)
(* Proofs about TranslateWorker, for any jobs, sessions and bounds: one      *)
(* terminal event per job, a decode is unwound by its own abort only, later   *)
(* decodes run on the relayed model, the acknowledgement is the last frame.   *)
(*                                                                         *)
(* All of it rests on where the one job the host waits for may be (JobInv):    *)
(* on the pipe to the worker, in the slot, with the inference thread, or      *)
(* answered on the way back, in one place at most.                           *)
(***************************************************************************)
EXTENDS TranslateWorker, TLAPS

JobSteps == {"arm", "clear", "match", "load", "decode", "retire", "event"}
InFlight == {"clear", "match", "load", "decode", "retire"}
Ordered == {"job", "open", "odd", "shutdown"}

Has(s, ops) == \E i \in DOMAIN s : s[i].op \in ops
AtMostOne(s, ops, n) ==
    \A i, k \in DOMAIN s : s[i].op \in ops /\ s[k].op \in ops => i = k /\ s[i].n = n

Waits == Has(inbox, {"job"})
Queued == slot.op = "job"
Works == infer \in JobSteps
IsAnswered == Has(out, Verdicts)

FrameInv ==
    /\ slot = NoFrame \/ slot.op \in Ordered
    /\ \A i \in DOMAIN inbox : inbox[i].op = "abort" => inbox[i].n \in AbortSessions

JobInv ==
    /\ AtMostOne(inbox, {"job"}, host.owed) /\ AtMostOne(out, Verdicts, host.owed)
    /\ Queued => slot.n = host.owed
    /\ Works => cmd.n = host.owed
    /\ Waits \/ Queued \/ Works \/ IsAnswered => host.owed # 0
    /\ Waits => ~Queued /\ ~Works /\ ~IsAnswered
    /\ Queued => ~Works /\ ~IsAnswered
    /\ Works => ~IsAnswered

AnswerInv ==
    /\ host.owed < host.next
    /\ \A i, k \in DOMAIN log.answers : i < k => log.answers[i] < log.answers[k]
    /\ \A i \in DOMAIN log.answers : log.answers[i] < host.next
    /\ Waits \/ Queued \/ Works => \A i \in DOMAIN log.answers : log.answers[i] < host.owed

CancelInv ==
    /\ current # 0 <=> infer \in InFlight
    /\ current # 0 => current = cmd.n
    /\ reader = "raise" => ~Queued /\ infer # "arm" /\ (current # 0 => current = held.job)
    /\ infer \in {"match", "load", "decode"} /\ cancel /\ reader \in {"read", "raise", "pend"} =>
        hit = current

ModelInv ==
    /\ host.told \/ Has(out, {"opened"}) \/ infer = "opened" => active = "user"
    /\ infer = "decode" => resident = active

AckInv ==
    /\ slot.op = "shutdown" \/ infer = "ack" => reader = "done"
    /\ log.acked => reader = "done" /\ infer \in {"leave", "exited"}

IInv == TypeOK /\ FrameInv /\ JobInv /\ AnswerInv /\ CancelInv /\ ModelInv /\ AckInv

-----------------------------------------------------------------------------
\* Frames on a pipe.

LEMMA AppendFrame ==
    ASSUME NEW S, NEW s \in Seq(S), NEW f \in S
    PROVE  /\ Append(s, f) \in Seq(S) /\ Len(Append(s, f)) = Len(s) + 1
           /\ DOMAIN Append(s, f) = DOMAIN s \cup {Len(s) + 1} /\ Len(s) + 1 \notin DOMAIN s
           /\ \A i \in DOMAIN s : Append(s, f)[i] = s[i]
           /\ Append(s, f)[Len(s) + 1] = f
OBVIOUS

LEMMA TailFrames ==
    ASSUME NEW S, NEW s \in Seq(S), s # <<>>
    PROVE  /\ Tail(s) \in Seq(S) /\ Len(Tail(s)) = Len(s) - 1
           /\ 1 \in DOMAIN s /\ Head(s) = s[1] /\ Head(s) \in S
           /\ \A i \in DOMAIN Tail(s) : i + 1 \in DOMAIN s /\ i + 1 # 1 /\ Tail(s)[i] = s[i + 1]
OBVIOUS

LEMMA AppendOther ==
    ASSUME NEW S, NEW s \in Seq(S), NEW f \in S, NEW ops, NEW n, f.op \notin ops
    PROVE  /\ Has(Append(s, f), ops) <=> Has(s, ops)
           /\ AtMostOne(s, ops, n) => AtMostOne(Append(s, f), ops, n)
BY AppendFrame DEF Has, AtMostOne

LEMMA AppendFirst ==
    ASSUME NEW S, NEW s \in Seq(S), NEW f \in S, NEW ops, ~Has(s, ops)
    PROVE  AtMostOne(Append(s, f), ops, f.n)
BY AppendFrame DEF Has, AtMostOne

LEMMA TailKeeps ==
    ASSUME NEW S, NEW s \in Seq(S), s # <<>>, NEW ops, NEW n
    PROVE  /\ Has(Tail(s), ops) => Has(s, ops)
           /\ AtMostOne(s, ops, n) => AtMostOne(Tail(s), ops, n)
<1>1. \A i \in DOMAIN Tail(s) : i + 1 \in DOMAIN s /\ Tail(s)[i] = s[i + 1]
  BY TailFrames
<1>2. \A i, k \in DOMAIN Tail(s) : i + 1 = k + 1 => i = k
  BY TailFrames
<1> QED
  BY <1>1, <1>2 DEF Has, AtMostOne

LEMMA TailTakes ==
    ASSUME NEW S, NEW s \in Seq(S), s # <<>>, NEW ops, NEW n, AtMostOne(s, ops, n), Head(s).op \in ops
    PROVE  ~Has(Tail(s), ops) /\ Has(s, ops) /\ Head(s).n = n
<1>1. /\ 1 \in DOMAIN s /\ Head(s) = s[1]
      /\ \A i \in DOMAIN Tail(s) : i + 1 \in DOMAIN s /\ i + 1 # 1 /\ Tail(s)[i] = s[i + 1]
  BY TailFrames
<1> QED
  BY <1>1 DEF Has, AtMostOne

LEMMA NoneIsAtMostOne ==
    ASSUME NEW s, NEW ops, NEW n, ~Has(s, ops)
    PROVE  AtMostOne(s, ops, n)
BY DEF Has, AtMostOne

LEMMA WritesLemma ==
    ASSUME TypeOK, NEW f \in Reports, f.op \in Verdicts => f.n \in Jobs, Writes(f)
    PROVE  /\ out' \in Seq(Reports)
           /\ log' \in [answers : Seq(Jobs), acked : BOOLEAN]
           /\ out' = out \/ out' = Append(out, f)
           /\ f.op \notin Verdicts => log'.answers = log.answers
           /\ f.op # "shutdown_ack" => log'.acked = log.acked
<1>1. CASE ~peer
  BY <1>1 DEF Writes, said, TypeOK
<1>2. CASE peer
  <2>1. out' = Append(out, f) /\ out' \in Seq(Reports)
    <3>1. out \in Seq(Reports)
      BY DEF TypeOK
    <3>2. Append(out, f) \in Seq(Reports)
      BY <3>1, AppendFrame
    <3>3. out' = Append(out, f)
      BY <1>2 DEF Writes
    <3> QED
      BY <3>2, <3>3
  <2>2. log.answers \in Seq(Jobs) /\ log.acked \in BOOLEAN
    BY DEF TypeOK
  <2>3. log' = [answers |-> IF f.op \in Verdicts THEN Append(log.answers, f.n) ELSE log.answers,
                acked |-> log.acked \/ f.op = "shutdown_ack"]
    BY <1>2 DEF Writes
  <2>4. f.op \in Verdicts => Append(log.answers, f.n) \in Seq(Jobs)
    BY <2>2, AppendFrame
  <2>5. (log.acked \/ f.op = "shutdown_ack") \in BOOLEAN
    BY <2>2, Zenon
  <2> QED
    BY <2>1, <2>2, <2>3, <2>4, <2>5
<1> QED
  BY <1>1, <1>2

\* What the worker writes besides verdicts.
LEMMA Plain ==
    \A op \in {"heartbeat", "opened", "error", "shutdown_ack"} :
        Frame(op, 0) \in Reports /\ Frame(op, 0).op = op /\ op \notin Verdicts
BY DEF Frame, Reports, Written, Verdicts

LEMMA InitLemma == Init => IInv
<1> SUFFICES ASSUME Init PROVE IInv
  OBVIOUS
<1> USE WorkerAssumption DEF Init
<1>1. TypeOK
  <2>1. inbox \in Seq(Orders) /\ out \in Seq(Reports) /\ slot \in Frames /\ cmd \in Frames
    BY DEF NoFrame, Frames
  <2>2. log \in [answers : Seq(Jobs), acked : BOOLEAN]
    OBVIOUS
  <2>3. host \in [owed : Jobs \cup {0}, relay : BOOLEAN, told : BOOLEAN, next : Nat, aborted : BOOLEAN]
    OBVIOUS
  <2>4. spent \in [opens : 0 .. MaxOpens, beats : 0 .. MaxBeats, broken : 0 .. MaxBroken]
    OBVIOUS
  <2>5. held \in [session : AbortSessions \cup {0}, job : Jobs \cup {0}] /\ passed \subseteq Jobs
    OBVIOUS
  <2>6. peer \in BOOLEAN /\ ordered \in BOOLEAN /\ stopReader \in BOOLEAN /\ cancel \in BOOLEAN
        /\ exhausted \in BOOLEAN
    OBVIOUS
  <2> QED
    BY <2>1, <2>2, <2>3, <2>4, <2>5, <2>6 DEF TypeOK, Verdicts, ReaderSteps, InferSteps, Running
<1>2. FrameInv /\ CancelInv /\ AckInv
  BY DEF FrameInv, CancelInv, AckInv, NoFrame, InFlight, Queued
<1>3. ~Waits /\ ~Queued /\ ~Works /\ ~IsAnswered /\ ~Has(out, {"opened"})
  BY DEF Waits, Queued, Works, IsAnswered, Has, NoFrame, JobSteps
<1>4. JobInv
  BY <1>3, NoneIsAtMostOne DEF JobInv, Waits, IsAnswered
<1>5. AnswerInv /\ ModelInv
  BY <1>3 DEF AnswerInv, ModelInv
<1> QED
  BY <1>1, <1>2, <1>4, <1>5 DEF IInv

-----------------------------------------------------------------------------
\* Types.

LEMMA HostTypes ==
    ASSUME IInv, Host
    PROVE  TypeOK' /\ FrameInv'
<1> USE WorkerAssumption DEF IInv, FrameInv, Ops
<1>1. UNCHANGED <<workerVars, log>>
  BY DEF Host, HostOpens, HostStopsAwaiting, HostSendsJob, HostAborts, HostReads, HostOrdersShutdown,
         HostBreaksProtocol, HostGone, said, hostVars
<1>2. ASSUME NEW f \in Orders, Sends(f), f.op = "abort" => f.n \in AbortSessions
      PROVE  /\ inbox' \in Seq(Orders)
             /\ \A i \in DOMAIN inbox' : inbox'[i].op = "abort" => inbox'[i].n \in AbortSessions
  BY <1>2, AppendFrame DEF Sends, TypeOK
<1>3. /\ inbox' \in Seq(Orders)
      /\ \A i \in DOMAIN inbox' : inbox'[i].op = "abort" => inbox'[i].n \in AbortSessions
  <2>1. CASE HostOpens
    BY <1>2, <2>1 DEF HostOpens, Frame, Orders
  <2>2. CASE HostSendsJob
    BY <1>2, <2>2 DEF HostSendsJob, Frame, Orders, TypeOK
  <2>3. CASE HostAborts
    <3>1. PICK s \in AbortSessions : Sends(Frame("abort", s))
      BY <2>3 DEF HostAborts
    <3> QED
      BY <1>2, <3>1 DEF Frame, Orders
  <2>4. CASE HostOrdersShutdown
    BY <1>2, <2>4 DEF HostOrdersShutdown, Frame, Orders
  <2>5. CASE HostBreaksProtocol
    <3>1. PICK op \in {"bad", "odd"} : Sends(Frame(op, 0))
      BY <2>5 DEF HostBreaksProtocol
    <3> QED
      BY <1>2, <3>1 DEF Frame, Orders
  <2>6. CASE HostStopsAwaiting \/ HostReads
    BY <2>6 DEF HostStopsAwaiting, HostReads, pipeVars, TypeOK
  <2>7. CASE HostGone
    <3>1. CASE inbox' = inbox
      BY <3>1 DEF TypeOK
    <3>2. CASE inbox' = <<>>
      BY <3>2
    <3> QED
      BY <2>7, <3>1, <3>2 DEF HostGone
  <2> QED
    BY <2>1, <2>2, <2>3, <2>4, <2>5, <2>6, <2>7 DEF Host
<1>4. out' \in Seq(Reports)
  <2>1. CASE HostReads
    BY <2>1, TailFrames DEF HostReads, TypeOK
  <2>2. CASE ~HostReads
    BY <2>2 DEF Host, HostOpens, HostStopsAwaiting, HostSendsJob, HostAborts, HostOrdersShutdown,
           HostBreaksProtocol, HostGone, said, TypeOK
  <2> QED
    BY <2>1, <2>2
<1>5. peer' \in BOOLEAN
  BY DEF Host, HostOpens, HostStopsAwaiting, HostSendsJob, HostAborts, HostReads, HostOrdersShutdown,
         HostBreaksProtocol, HostGone, pipeVars, TypeOK
<1>6. host' \in [owed : Jobs \cup {0}, relay : BOOLEAN, told : BOOLEAN, next : Nat, aborted : BOOLEAN]
  <2> USE DEF TypeOK
  <2>1. CASE HostOpens
    BY <2>1 DEF HostOpens
  <2>2. CASE HostStopsAwaiting
    BY <2>2 DEF HostStopsAwaiting
  <2>3. CASE HostSendsJob
    <3>1. host' = [host EXCEPT !.owed = host.next, !.next = host.next + 1, !.aborted = FALSE]
      BY <2>3 DEF HostSendsJob
    <3>2. host.next \in Jobs /\ host.next + 1 \in Nat
      BY <2>3 DEF HostSendsJob
    <3> QED
      BY <3>1, <3>2
  <2>4. CASE HostAborts
    BY <2>4 DEF HostAborts
  <2>5. CASE HostReads
    <3>1. PICK owed \in {host.owed, 0} : \E told \in BOOLEAN, relay \in BOOLEAN :
            host' = [host EXCEPT !.owed = owed, !.told = host.told \/ told, !.relay = host.relay /\ relay]
      BY <2>5 DEF HostReads
    <3>2. PICK told \in BOOLEAN, relay \in BOOLEAN :
            host' = [host EXCEPT !.owed = owed, !.told = host.told \/ told, !.relay = host.relay /\ relay]
      BY <3>1
    <3>3. (host.told \/ told) \in BOOLEAN /\ (host.relay /\ relay) \in BOOLEAN
      BY Zenon
    <3> QED
      BY <3>2, <3>3
  <2>6. CASE HostOrdersShutdown \/ HostBreaksProtocol \/ HostGone
    BY <2>6 DEF HostOrdersShutdown, HostBreaksProtocol, HostGone, hostVars
  <2> QED
    BY <2>1, <2>2, <2>3, <2>4, <2>5, <2>6 DEF Host
<1>7. spent' \in [opens : 0 .. MaxOpens, beats : 0 .. MaxBeats, broken : 0 .. MaxBroken]
  <2>1. CASE HostOpens
    <3>1. spent.opens + 1 \in 0 .. MaxOpens /\ spent' = [spent EXCEPT !.opens = spent.opens + 1]
      BY <2>1 DEF HostOpens, TypeOK
    <3> QED
      BY <3>1 DEF TypeOK
  <2>3. CASE HostBreaksProtocol
    <3>1. spent.broken + 1 \in 0 .. MaxBroken /\ spent' = [spent EXCEPT !.broken = spent.broken + 1]
      BY <2>3 DEF HostBreaksProtocol, TypeOK
    <3> QED
      BY <3>1 DEF TypeOK
  <2>2. CASE ~HostOpens /\ ~HostBreaksProtocol
    BY <2>2 DEF Host, HostStopsAwaiting, HostSendsJob, HostAborts, HostReads, HostOrdersShutdown, HostGone,
       hostVars, TypeOK
  <2> QED
    BY <2>1, <2>2, <2>3
<1> QED
  BY <1>1, <1>3, <1>4, <1>5, <1>6, <1>7 DEF TypeOK, workerVars, readerVars, engineVars

LEMMA ReaderTypes ==
    ASSUME IInv, Reader
    PROVE  TypeOK' /\ FrameInv'
<1> USE WorkerAssumption DEF IInv, FrameInv
<1>1. UNCHANGED <<host, peer, inferVars>>
  BY DEF Reader, ReadAbort, RaiseCancel, RememberAbort, ReadShutdown, OrderShutdown, QueueCommand,
         ReadBad, ReadBroken, StartDying, Die, Heartbeat, LosesFrame, ReaderLeaves, hostVars, pipeVars
<1>2. ASSUME inbox # <<>>, inbox' = Tail(inbox)
      PROVE  /\ inbox' \in Seq(Orders)
             /\ \A i \in DOMAIN inbox' : inbox'[i].op = "abort" => inbox'[i].n \in AbortSessions
  BY <1>2, TailFrames DEF TypeOK
<1>3. /\ inbox' \in Seq(Orders)
      /\ \A i \in DOMAIN inbox' : inbox'[i].op = "abort" => inbox'[i].n \in AbortSessions
  <2>1. CASE inbox' = inbox
    BY <2>1 DEF TypeOK
  <2>2. CASE inbox # <<>> /\ inbox' = Tail(inbox)
    BY <1>2, <2>2
  <2> QED
    BY <2>1, <2>2 DEF Reader, ReadAbort, RaiseCancel, RememberAbort, ReadShutdown, OrderShutdown,
       QueueCommand, AtFrame, ReadBad, ReadBroken, StartDying, Die, Heartbeat, LosesFrame, ReaderLeaves, pipeVars
<1>4. out' \in Seq(Reports) /\ log' \in [answers : Seq(Jobs), acked : BOOLEAN]
  <2>1. CASE ReadBad
    BY <2>1, WritesLemma, Plain DEF ReadBad
  <2>2. CASE Heartbeat
    BY <2>2, WritesLemma, Plain DEF Heartbeat
  <2>3. CASE ~ReadBad /\ ~Heartbeat
    BY <2>3 DEF Reader, ReadAbort, RaiseCancel, RememberAbort, ReadShutdown, OrderShutdown,
       QueueCommand, ReadBroken, Die, LosesFrame, ReaderLeaves, said, TypeOK
  <2> QED
    BY <2>1, <2>2, <2>3
<1>5. \/ Head(inbox) \in Orders /\ (Head(inbox).op = "abort" => Head(inbox).n \in AbortSessions)
      \/ inbox = <<>>
  BY TailFrames DEF TypeOK
<1>6. slot' \in Frames /\ (slot' = NoFrame \/ slot'.op \in Ordered)
  <2>1. CASE OrderShutdown
    BY <2>1 DEF OrderShutdown, Frame, Frames, Ops, Ordered
  <2>2. CASE QueueCommand
    <3>1. inbox # <<>> /\ Head(inbox).op \in {"job", "open", "odd"} /\ slot' = Head(inbox)
      BY <2>2 DEF QueueCommand, AtFrame
    <3> QED
      BY <1>5, <3>1 DEF Orders, Frames, Ordered
  <2>3. CASE ~OrderShutdown /\ ~QueueCommand
    BY <2>3 DEF Reader, ReadAbort, RaiseCancel, RememberAbort, ReadShutdown, ReadBad, ReadBroken, StartDying,
       Die, Heartbeat, LosesFrame, ReaderLeaves, TypeOK
  <2> QED
    BY <2>1, <2>2, <2>3
<1>7. held' \in [session : AbortSessions \cup {0}, job : Jobs \cup {0}] /\ pending' \in AbortSessions \cup {0}
  BY <1>5 DEF Reader, ReadAbort, RaiseCancel, RememberAbort, ReadShutdown, OrderShutdown, QueueCommand,
     AtFrame, ReadBad, ReadBroken, StartDying, Die, Heartbeat, LosesFrame, ReaderLeaves, TypeOK, readerVars
<1>8. reader' \in ReaderSteps /\ stop' \in {3, Running}
  BY DEF Reader, ReadAbort, RaiseCancel, RememberAbort, ReadShutdown, OrderShutdown, QueueCommand,
     AtFrame, ReadBad, ReadBroken, StartDying, Die, Heartbeat, LosesFrame, ReaderLeaves, TypeOK, readerVars,
     ReaderSteps
<1>9. ordered' \in BOOLEAN /\ cancel' \in BOOLEAN
  BY Zenon DEF Reader, ReadAbort, RaiseCancel, RememberAbort, ReadShutdown, OrderShutdown, QueueCommand,
     ReadBad, ReadBroken, StartDying, Die, Heartbeat, LosesFrame, ReaderLeaves, TypeOK, readerVars
<1>10. hit' \in Jobs \cup {0}
  BY DEF Reader, ReadAbort, RaiseCancel, RememberAbort, ReadShutdown, OrderShutdown, QueueCommand,
     ReadBad, ReadBroken, StartDying, Die, Heartbeat, LosesFrame, ReaderLeaves, TypeOK
<1>11. passed' \subseteq Jobs
  <2>1. CASE ReadAbort
    <3>1. Queued => slot.n \in Jobs
      BY DEF JobInv, TypeOK
    <3> QED
      BY <2>1, <3>1 DEF ReadAbort, Queued, TypeOK
  <2>2. CASE ~ReadAbort
    BY <2>2 DEF Reader, RaiseCancel, RememberAbort, ReadShutdown, OrderShutdown, QueueCommand,
       ReadBad, ReadBroken, StartDying, Die, Heartbeat, LosesFrame, ReaderLeaves, TypeOK, readerVars
  <2> QED
    BY <2>1, <2>2
<1>12. spent' \in [opens : 0 .. MaxOpens, beats : 0 .. MaxBeats, broken : 0 .. MaxBroken]
  <2>1. CASE Heartbeat
    <3>1. spent.beats + 1 \in 0 .. MaxBeats /\ spent' = [spent EXCEPT !.beats = spent.beats + 1]
      BY <2>1 DEF Heartbeat, TypeOK
    <3> QED
      BY <3>1 DEF TypeOK
  <2>2. CASE ~Heartbeat
    BY <2>2 DEF Reader, ReadAbort, RaiseCancel, RememberAbort, ReadShutdown, OrderShutdown, QueueCommand,
       ReadBad, ReadBroken, StartDying, Die, LosesFrame, ReaderLeaves, TypeOK, hostVars
  <2> QED
    BY <2>1, <2>2
<1> QED
  BY <1>1, <1>3, <1>4, <1>6, <1>7, <1>8, <1>9, <1>10, <1>11, <1>12 DEF TypeOK, inferVars, engineVars

LEMMA InferenceTypes ==
    ASSUME IInv, Inference
    PROVE  TypeOK' /\ FrameInv'
<1> USE WorkerAssumption DEF IInv, FrameInv
<1> DEFINE jobs == Take \/ HonorStop \/ Arm \/ ClearCancel \/ Retire \/ TellReader \/ Join
           engine == LoadDone \/ LoadFails \/ Decoded \/ OpenSession
           matches == AnswerUnstarted \/ StartJob
           says == Event \/ Opened \/ Reject \/ Shutdown
<1>1. jobs \/ engine \/ matches \/ says
  BY DEF Inference
<1>2. UNCHANGED <<hostVars, pipeVars, reader, held, stop, ordered, passed>>
  BY <1>1 DEF Take, HonorStop, Arm, ClearCancel, MatchStep, AnswerUnstarted, StartJob, LoadDone, LoadFails,
     Decoded, Retire, Event, OpenSession, Opened, Reject, Shutdown, TellReader, Join, WriteOr3, engineStep, envVars,
     readerVars
<1>3. out' \in Seq(Reports) /\ log' \in [answers : Seq(Jobs), acked : BOOLEAN]
  <2>1. CASE Event
    <3>1. cmd.n \in Jobs /\ verdict \in Verdicts
      BY <2>1 DEF Event, At, JobInv, Works, JobSteps, TypeOK
    <3>2. Frame(verdict, cmd.n) \in Reports /\ Frame(verdict, cmd.n).n \in Jobs
      BY <3>1 DEF Frame, Reports, Written
    <3> QED
      BY <2>1, <3>2, WritesLemma DEF Event, WriteOr3
  <2>2. CASE Opened \/ Reject \/ Shutdown
    BY <2>2, WritesLemma, Plain DEF Opened, Reject, Shutdown, WriteOr3
  <2>3. CASE ~says
    BY <1>1, <2>3 DEF Take, HonorStop, Arm, ClearCancel, MatchStep, AnswerUnstarted, StartJob, LoadDone, LoadFails,
       Decoded, Retire, OpenSession, TellReader, Join, engineStep, said, TypeOK
  <2> QED
    BY <2>1, <2>2, <2>3
<1>4. /\ slot' \in Frames /\ cmd' \in Frames /\ (slot' = NoFrame \/ slot'.op \in Ordered)
  <2>1. CASE Take
    BY <2>1 DEF Take, TypeOK, Frames, NoFrame
  <2>2. CASE ~Take
    BY <1>1, <2>2 DEF HonorStop, Arm, ClearCancel, MatchStep, AnswerUnstarted, StartJob, LoadDone, LoadFails,
     Decoded, Retire, Event, OpenSession, Opened, Reject, Shutdown, TellReader, Join, WriteOr3, engineStep, TypeOK
  <2> QED
    BY <2>1, <2>2
<1>5. infer' \in InferSteps
  <2>1. CASE Take
    BY <2>1 DEF Take, Ordered, InferSteps
  <2>2. CASE ~Take
    BY <1>1, <2>2 DEF HonorStop, Arm, ClearCancel, MatchStep, AnswerUnstarted, StartJob, LoadDone, LoadFails,
     Decoded, Retire, Event, OpenSession, Opened, Reject, Shutdown, TellReader, Join, WriteOr3, TypeOK, Goto, InferSteps
  <2> QED
    BY <2>1, <2>2
<1>6. current' \in Jobs \cup {0} /\ hit' \in Jobs \cup {0} /\ pending' \in AbortSessions \cup {0}
  <2>1. CASE Arm
    BY <2>1 DEF Arm, At, JobInv, Works, JobSteps, TypeOK, readerVars
  <2>2. CASE ~Arm
    BY <1>1, <2>2 DEF Take, HonorStop, ClearCancel, MatchStep, AnswerUnstarted, StartJob, LoadDone, LoadFails,
     Decoded, Retire, Event, OpenSession, Opened, Reject, Shutdown, TellReader, Join, WriteOr3, engineStep,
     engineOnly, readerVars, TypeOK
  <2> QED
    BY <2>1, <2>2
<1>7. active' \in {"default", "user"} /\ resident' \in {"none", "default", "user"} /\ verdict' \in Verdicts
  BY <1>1 DEF Take, HonorStop, Arm, ClearCancel, MatchStep, AnswerUnstarted, StartJob, LoadDone, LoadFails,
     Decoded, Retire, Event, OpenSession, Opened, Reject, Shutdown, TellReader, Join, WriteOr3, engineStep,
     engineOnly, engineVars, TypeOK, Verdicts, Loads, FailsToLoad, Absent
<1>8. exit' \in {0, 3, Running}
  BY <1>1 DEF Take, HonorStop, Arm, ClearCancel, MatchStep, AnswerUnstarted, StartJob, LoadDone, LoadFails,
     Decoded, Retire, Event, OpenSession, Opened, Reject, Shutdown, TellReader, Join, WriteOr3, engineStep, TypeOK
<1>9. stopReader' \in BOOLEAN /\ cancel' \in BOOLEAN /\ exhausted' \in BOOLEAN
  <2>1. CASE jobs \/ matches \/ says
    BY <2>1, Zenon DEF Take, HonorStop, Arm, ClearCancel, MatchStep, AnswerUnstarted, StartJob, Retire, Event, Opened,
       Reject, Shutdown, TellReader, Join, WriteOr3, engineOnly, engineVars, TypeOK
  <2>2. CASE engine
    BY <2>2, Zenon DEF LoadDone, LoadFails, Decoded, OpenSession, engineStep, TypeOK
  <2> QED
    BY <1>1, <2>1, <2>2
<1> QED
  BY <1>2, <1>3, <1>4, <1>5, <1>6, <1>7, <1>8, <1>9 DEF TypeOK, hostVars, pipeVars

-----------------------------------------------------------------------------
\* Where the job is.

LEMMA AnswersAreNumbers ==
    ASSUME TypeOK
    PROVE  \A i \in DOMAIN log.answers : log.answers[i] \in Jobs /\ log.answers[i] \in Nat
<1>1. log.answers \in Seq(Jobs)
  BY DEF TypeOK
<1>2. \A i \in DOMAIN log.answers : log.answers[i] \in Jobs
  BY <1>1
<1> QED
  BY <1>2, WorkerAssumption

LEMMA OwedIsNumber ==
    ASSUME TypeOK
    PROVE  host.owed \in Nat /\ host.next \in Nat
<1>1. host.owed \in Jobs \cup {0} /\ host.next \in Nat
  BY DEF TypeOK
<1>2. CASE host.owed \in Jobs
  BY <1>1, <1>2, WorkerAssumption
<1>3. CASE host.owed = 0
  BY <1>1, <1>3
<1> QED
  BY <1>1, <1>2, <1>3

\* A report that is no verdict.
LEMMA SaysOther ==
    ASSUME NEW s \in Seq(Reports), NEW t, NEW f \in Reports, NEW ops, NEW n, f.op \notin ops,
           t = s \/ t = Append(s, f), AtMostOne(s, ops, n)
    PROVE  (Has(t, ops) => Has(s, ops)) /\ AtMostOne(t, ops, n)
<1>1. CASE t = s
  BY <1>1
<1>2. CASE t = Append(s, f)
  BY <1>2, AppendOther
<1> QED
  BY <1>1, <1>2

\* A step that moves no job.
LEMMA JobsStay ==
    ASSUME JobInv, AnswerInv, host'.owed = host.owed, host'.next = host.next, log'.answers = log.answers,
           Waits' => Waits, AtMostOne(inbox', {"job"}, host.owed),
           IsAnswered' => IsAnswered, AtMostOne(out', Verdicts, host.owed),
           Queued' => Queued /\ slot' = slot, Works' => Works /\ cmd' = cmd
    PROVE  JobInv' /\ AnswerInv'
<1>1. JobInv'
  BY DEF JobInv
<1>2. AnswerInv'
  BY DEF AnswerInv
<1> QED
  BY <1>1, <1>2

LEMMA HostJobs ==
    ASSUME IInv, Host
    PROVE  JobInv' /\ AnswerInv'
<1> USE DEF IInv
<1>1. inbox \in Seq(Orders) /\ out \in Seq(Reports) /\ host.owed \in Nat /\ host.next \in Nat
  BY OwedIsNumber DEF TypeOK
<1>2. UNCHANGED <<slot, infer, cmd, log>>
  BY DEF Host, HostOpens, HostStopsAwaiting, HostSendsJob, HostAborts, HostReads, HostOrdersShutdown,
         HostBreaksProtocol, HostGone, said, workerVars, readerVars
<1>3. ASSUME host'.owed = host.owed, host'.next = host.next, UNCHANGED out,
             Waits' => Waits, AtMostOne(inbox', {"job"}, host.owed)
      PROVE  JobInv' /\ AnswerInv'
  BY <1>2, <1>3, JobsStay DEF Queued, Works, IsAnswered, JobInv
<1>4. ASSUME NEW f \in Orders, f.op # "job", Sends(f)
      PROVE  (Waits' => Waits) /\ AtMostOne(inbox', {"job"}, host.owed)
  <2>1. f.op \notin {"job"}
    BY <1>4
  <2> QED
    BY <1>1, <1>4, <2>1, AppendOther DEF Sends, JobInv, Waits
<1>5. CASE HostOpens
  <2>1. Frame("open", 0) \in Orders /\ Frame("open", 0).op # "job" /\ Sends(Frame("open", 0))
    BY <1>5 DEF HostOpens, Frame, Orders, Ops
  <2>2. UNCHANGED out /\ host'.owed = host.owed /\ host'.next = host.next
    BY <1>5 DEF HostOpens, said, TypeOK
  <2> QED
    BY <1>3, <1>4, <2>1, <2>2
<1>6. CASE HostAborts
  <2>1. PICK s \in AbortSessions : Sends(Frame("abort", s))
    BY <1>6 DEF HostAborts
  <2>2. Frame("abort", s) \in Orders /\ Frame("abort", s).op # "job"
    BY WorkerAssumption DEF Frame, Orders, Ops
  <2>3. UNCHANGED out /\ host'.owed = host.owed /\ host'.next = host.next
    BY <1>6 DEF HostAborts, said, TypeOK
  <2> QED
    BY <1>3, <1>4, <2>1, <2>2, <2>3
<1>7. CASE HostOrdersShutdown \/ HostBreaksProtocol
  <2>1. PICK op \in {"shutdown", "bad", "odd"} : Sends(Frame(op, 0))
    BY <1>7 DEF HostOrdersShutdown, HostBreaksProtocol
  <2>2. Frame(op, 0) \in Orders /\ Frame(op, 0).op # "job"
    BY DEF Frame, Orders, Ops
  <2>3. UNCHANGED <<out, host>>
    BY <1>7 DEF HostOrdersShutdown, HostBreaksProtocol, said, hostVars
  <2> QED
    BY <1>3, <1>4, <2>1, <2>2, <2>3
<1>8. CASE HostStopsAwaiting
  <2>1. UNCHANGED <<inbox, out>> /\ host'.owed = host.owed /\ host'.next = host.next
    BY <1>8 DEF HostStopsAwaiting, said, pipeVars, TypeOK
  <2> QED
    BY <1>3, <2>1 DEF Waits, JobInv
<1>9. CASE HostGone
  <2>1. UNCHANGED <<host, out>> /\ (inbox' = inbox \/ inbox' = <<>>)
    BY <1>9 DEF HostGone, said, hostVars
  <2>2. ~Has(<<>>, {"job"})
    BY DEF Has
  <2>3. (Waits' => Waits) /\ AtMostOne(inbox', {"job"}, host.owed)
    BY <2>1, <2>2, NoneIsAtMostOne DEF Waits, JobInv
  <2> QED
    BY <1>3, <2>1, <2>3
<1>10. CASE HostSendsJob
  <2>1. /\ host.owed = 0 /\ host.next \in Jobs /\ inbox' = Append(inbox, Frame("job", host.next))
        /\ host'.owed = host.next /\ host'.next = host.next + 1 /\ UNCHANGED out
    BY <1>10 DEF HostSendsJob, Quiet, Sends, said, TypeOK
  <2>2. ~Waits /\ ~Queued /\ ~Works /\ ~IsAnswered
    BY <2>1 DEF JobInv
  <2>3. Frame("job", host.next) \in Orders /\ Frame("job", host.next).n = host.next
    BY <1>1 DEF Frame, Orders, Ops
  <2>4. AtMostOne(inbox', {"job"}, host.next)
    BY <1>1, <2>1, <2>2, <2>3, AppendFirst DEF Waits
  <2>5. AtMostOne(out', Verdicts, host.next) /\ ~IsAnswered'
    BY <2>1, <2>2, NoneIsAtMostOne DEF IsAnswered
  <2>6. ~Queued' /\ ~Works'
    BY <1>2, <2>2 DEF Queued, Works
  <2>7. host'.owed # 0
    BY <2>1, WorkerAssumption
  <2>8. JobInv'
    BY <2>1, <2>4, <2>5, <2>6, <2>7 DEF JobInv
  <2>9. \A i \in DOMAIN log.answers : log.answers[i] \in Nat
    BY AnswersAreNumbers
  <2>10. AnswerInv'
    BY <1>1, <1>2, <2>1, <2>9 DEF AnswerInv
  <2> QED
    BY <2>8, <2>10
<1>11. CASE HostReads
  <2>1. /\ out # <<>> /\ out' = Tail(out) /\ inbox' = inbox
        /\ host'.next = host.next
        /\ host'.owed = IF Head(out).op \in Verdicts /\ Head(out).n = host.owed THEN 0 ELSE host.owed
    BY <1>11 DEF HostReads, pipeVars, TypeOK
  <2>2. CASE Head(out).op \in Verdicts
    <3>1. ~IsAnswered' /\ IsAnswered /\ host'.owed = 0
      BY <1>1, <2>1, <2>2, TailTakes DEF JobInv, IsAnswered
    <3>2. ~Waits /\ ~Queued /\ ~Works
      BY <3>1 DEF JobInv
    <3>3. ~Waits' /\ ~Queued' /\ ~Works'
      BY <1>2, <2>1, <3>2 DEF Waits, Queued, Works
    <3>4. AtMostOne(inbox', {"job"}, 0) /\ AtMostOne(out', Verdicts, 0)
      BY <3>1, <3>3, NoneIsAtMostOne DEF Waits, IsAnswered
    <3>5. JobInv'
      BY <3>1, <3>3, <3>4 DEF JobInv
    <3>6. AnswerInv'
      BY <1>1, <1>2, <2>1, <3>1, <3>3 DEF AnswerInv
    <3> QED
      BY <3>5, <3>6
  <2>3. CASE Head(out).op \notin Verdicts
    <3>1. (IsAnswered' => IsAnswered) /\ AtMostOne(out', Verdicts, host.owed)
      BY <1>1, <2>1, TailKeeps DEF JobInv, IsAnswered
    <3> QED
      BY <1>2, <2>1, <2>3, <3>1, JobsStay DEF Queued, Works, Waits, JobInv
  <2> QED
    BY <2>2, <2>3
<1> QED
  BY <1>5, <1>6, <1>7, <1>8, <1>9, <1>10, <1>11 DEF Host

LEMMA ReaderJobs ==
    ASSUME IInv, Reader
    PROVE  JobInv' /\ AnswerInv'
<1> USE DEF IInv
<1>1. inbox \in Seq(Orders) /\ out \in Seq(Reports) /\ host.owed \in Nat
  BY OwedIsNumber DEF TypeOK
<1>2. UNCHANGED <<host, infer, cmd>>
  BY DEF Reader, ReadAbort, RaiseCancel, RememberAbort, ReadShutdown, OrderShutdown, QueueCommand,
         ReadBad, ReadBroken, StartDying, Die, Heartbeat, LosesFrame, ReaderLeaves, hostVars, inferVars
<1>3. log'.answers = log.answers /\ (IsAnswered' => IsAnswered) /\ AtMostOne(out', Verdicts, host.owed)
  <2>1. CASE UNCHANGED said
    BY <2>1 DEF said, IsAnswered, JobInv
  <2>2. ASSUME NEW op \in {"heartbeat", "error"}, Writes(Frame(op, 0))
        PROVE  log'.answers = log.answers /\ (IsAnswered' => IsAnswered) /\ AtMostOne(out', Verdicts, host.owed)
    <3>1. Frame(op, 0) \in Reports /\ Frame(op, 0).op \notin Verdicts
      BY Plain
    <3>2. out' = out \/ out' = Append(out, Frame(op, 0))
      BY <2>2, <3>1, WritesLemma
    <3>3. log'.answers = log.answers
      BY <2>2, <3>1, WritesLemma
    <3>4. (Has(out', Verdicts) => Has(out, Verdicts)) /\ AtMostOne(out', Verdicts, host.owed)
      BY <1>1, <3>1, <3>2, SaysOther DEF JobInv
    <3> QED
      BY <3>3, <3>4 DEF IsAnswered
  <2>3. UNCHANGED said \/ Writes(Frame("heartbeat", 0)) \/ Writes(Frame("error", 0))
    BY DEF Reader, ReadAbort, RaiseCancel, RememberAbort, ReadShutdown, OrderShutdown, QueueCommand,
         ReadBad, ReadBroken, Die, Heartbeat, LosesFrame, ReaderLeaves, said
  <2> QED
    BY <2>1, <2>2, <2>3
<1>4. ASSUME inbox # <<>>, inbox' = Tail(inbox)
      PROVE  (Waits' => Waits) /\ AtMostOne(inbox', {"job"}, host.owed)
  BY <1>1, <1>4, TailKeeps DEF JobInv, Waits
<1>5. CASE QueueCommand
  <2>1. inbox # <<>> /\ inbox' = Tail(inbox) /\ slot' = Head(inbox)
    BY <1>5 DEF QueueCommand, AtFrame
  <2>2. CASE Head(inbox).op = "job"
    <3>1. ~Waits' /\ Waits /\ slot'.n = host.owed
      BY <1>1, <2>1, <2>2, TailTakes DEF JobInv, Waits
    <3>2. Queued' /\ ~Works' /\ ~IsAnswered' /\ ~Works
      BY <1>2, <1>3, <2>1, <2>2, <3>1 DEF JobInv, Queued, Works
    <3>3. JobInv'
      BY <1>2, <1>3, <1>4, <2>1, <3>1, <3>2 DEF JobInv
    <3>4. AnswerInv'
      BY <1>2, <1>3, <3>1 DEF AnswerInv
    <3> QED
      BY <3>3, <3>4
  <2>3. CASE Head(inbox).op # "job"
    BY <1>2, <1>3, <1>4, <2>1, <2>3, JobsStay DEF Queued, Works
  <2> QED
    BY <2>2, <2>3
<1>6. CASE OrderShutdown
  <2>1. ~Queued' /\ inbox' = inbox
    BY <1>6 DEF OrderShutdown, Queued, Frame, pipeVars
  <2> QED
    BY <1>2, <1>3, <2>1, JobsStay DEF Works, Waits, JobInv
<1>7. CASE ~QueueCommand /\ ~OrderShutdown
  <2>1. slot' = slot /\ (inbox' = inbox \/ (inbox # <<>> /\ inbox' = Tail(inbox)))
    <3>1. CASE ReadAbort \/ ReadShutdown \/ ReadBad \/ LosesFrame
      BY <3>1 DEF ReadAbort, ReadShutdown, ReadBad, AtFrame, StartDying, LosesFrame
    <3>2. CASE RaiseCancel \/ RememberAbort
      <4>1. slot' = slot /\ pipeVars' = pipeVars
        BY <3>2, Zenon DEF RaiseCancel, RememberAbort
      <4> QED
        BY <4>1 DEF pipeVars
    <3>4. CASE Die \/ ReaderLeaves
      <4>1. slot' = slot /\ pipeVars' = pipeVars
        BY <3>4, Zenon DEF Die, ReaderLeaves
      <4> QED
        BY <4>1 DEF pipeVars
    <3>5. CASE Heartbeat
      BY <3>5 DEF Heartbeat, pipeVars
    <3>3. CASE ReadBroken
      BY <3>3 DEF ReadBroken, StartDying
    <3> QED
      BY <1>7, <3>1, <3>2, <3>3, <3>4, <3>5 DEF Reader
  <2>2. (Waits' => Waits) /\ AtMostOne(inbox', {"job"}, host.owed)
    BY <1>4, <2>1 DEF JobInv, Waits
  <2> QED
    BY <1>2, <1>3, <2>1, <2>2, JobsStay DEF Queued, Works
<1> QED
  BY <1>5, <1>6, <1>7

LEMMA InferenceJobs ==
    ASSUME IInv, Inference
    PROVE  JobInv' /\ AnswerInv'
<1> USE DEF IInv
<1>1. inbox \in Seq(Orders) /\ out \in Seq(Reports) /\ host.owed \in Nat /\ host.next \in Nat
  BY OwedIsNumber DEF TypeOK
<1>2. UNCHANGED <<host, inbox>>
  BY DEF Inference, Take, HonorStop, Arm, ClearCancel, MatchStep, AnswerUnstarted, StartJob, LoadDone, LoadFails,
     Decoded, Retire, Event, OpenSession, Opened, Reject, Shutdown, TellReader, Join, WriteOr3, engineStep, envVars,
     hostVars, pipeVars
<1>3. Waits' = Waits /\ AtMostOne(inbox', {"job"}, host.owed)
  BY <1>2 DEF Waits, JobInv
<1>4. CASE Take
  <2>1. cmd' = slot /\ ~Queued' /\ infer = "wait" /\ UNCHANGED said /\ (Works' <=> Queued)
    BY <1>4 DEF Take, At, Queued, Works, JobSteps, NoFrame, FrameInv, Ordered
  <2>2. ~Works /\ (IsAnswered' <=> IsAnswered) /\ UNCHANGED <<out, log>>
    BY <2>1 DEF Works, JobSteps, IsAnswered, said
  <2>3. JobInv'
    BY <1>2, <1>3, <2>1, <2>2 DEF JobInv, Queued
  <2>4. AnswerInv'
    BY <1>2, <1>3, <2>1, <2>2 DEF AnswerInv
  <2> QED
    BY <2>3, <2>4
<1>5. CASE Event
  <2>1. /\ infer = "event" /\ Writes(Frame(verdict, cmd.n)) /\ slot' = slot
        /\ infer' \in {"wait", "leave"}
    BY <1>5 DEF Event, WriteOr3, At, Goto
  <2>2. Works /\ cmd.n = host.owed /\ host.owed # 0 /\ ~Waits /\ ~Queued /\ ~IsAnswered
    BY <2>1 DEF JobInv, Works, JobSteps
  <2>3. cmd.n \in Jobs /\ verdict \in Verdicts
    BY <2>2 DEF TypeOK
  <2>4. /\ Frame(verdict, cmd.n) \in Reports /\ Frame(verdict, cmd.n).n = host.owed
        /\ Frame(verdict, cmd.n).op \in Verdicts
    BY <1>1, <2>2, <2>3 DEF Frame, Reports, Written
  <2>5. ~Waits' /\ ~Queued' /\ ~Works'
    BY <1>3, <2>1, <2>2 DEF Queued, Works, JobSteps
  <2>6. \/ out' = out /\ log' = log
        \/ out' = Append(out, Frame(verdict, cmd.n)) /\ log'.answers = Append(log.answers, cmd.n)
    <3>1. CASE ~peer
      <4>1. said' = said
        BY <2>1, <3>1 DEF Writes
      <4> QED
        BY <4>1 DEF said
    <3>2. CASE peer
      BY <2>1, <2>3, <3>2 DEF Writes, Frame
    <3> QED
      BY <3>1, <3>2
  <2>7. CASE out' = out /\ log' = log
    BY <1>2, <1>3, <2>2, <2>5, <2>7, JobsStay DEF IsAnswered, JobInv
  <2>8. CASE out' = Append(out, Frame(verdict, cmd.n)) /\ log'.answers = Append(log.answers, cmd.n)
    <3>1. AtMostOne(out', Verdicts, host.owed)
      BY <1>1, <2>2, <2>4, <2>8, AppendFirst DEF IsAnswered
    <3>2. JobInv'
      BY <1>2, <1>3, <2>2, <2>5, <3>1 DEF JobInv
    <3>3. log.answers \in Seq(Jobs)
      BY DEF TypeOK
    <3>4. /\ DOMAIN log'.answers = DOMAIN log.answers \cup {Len(log.answers) + 1}
          /\ \A i \in DOMAIN log.answers : log'.answers[i] = log.answers[i] /\ i \in Nat /\ i < Len(log.answers) + 1
          /\ log'.answers[Len(log.answers) + 1] = host.owed
      BY <2>2, <2>3, <2>8, <3>3, AppendFrame
    <3>5. \A i \in DOMAIN log.answers : log.answers[i] < host.owed /\ log.answers[i] \in Nat
      BY <2>2, AnswersAreNumbers DEF AnswerInv
    <3>6. Len(log.answers) \in Nat
      BY <3>3
    <3>7. \A i, k \in DOMAIN log'.answers : i < k => log'.answers[i] < log'.answers[k]
      BY <3>4, <3>5, <3>6 DEF AnswerInv
    <3>8. \A i \in DOMAIN log'.answers : log'.answers[i] < host.next
      BY <3>4 DEF AnswerInv
    <3>9. AnswerInv'
      BY <1>2, <2>5, <3>7, <3>8 DEF AnswerInv
    <3> QED
      BY <3>2, <3>9
  <2> QED
    BY <2>6, <2>7, <2>8
<1>6. CASE Opened \/ Reject \/ Shutdown
  <2>1. PICK op \in {"opened", "error", "shutdown_ack"} : Writes(Frame(op, 0))
    BY <1>6 DEF Opened, Reject, Shutdown, WriteOr3
  <2>2. Frame(op, 0) \in Reports /\ Frame(op, 0).op \notin Verdicts
    BY Plain
  <2>3. (out' = out \/ out' = Append(out, Frame(op, 0))) /\ log'.answers = log.answers
    BY <2>1, <2>2, WritesLemma
  <2>4. (IsAnswered' => IsAnswered) /\ AtMostOne(out', Verdicts, host.owed)
    BY <1>1, <2>2, <2>3, SaysOther DEF IsAnswered, JobInv
  <2>5. slot' = slot /\ ~Works'
    BY <1>6 DEF Opened, Reject, Shutdown, WriteOr3, Goto, Works, JobSteps
  <2> QED
    BY <1>2, <1>3, <2>3, <2>4, <2>5, JobsStay DEF Queued
<1>7. CASE ~Take /\ ~Event /\ ~(Opened \/ Reject \/ Shutdown)
  <2>1. UNCHANGED <<said, slot, cmd>>
    BY <1>7 DEF Inference, HonorStop, Arm, ClearCancel, MatchStep, AnswerUnstarted, StartJob, LoadDone, LoadFails,
       Decoded, Retire, OpenSession, TellReader, Join, engineStep
  <2>2. Works' => Works
    BY <1>7 DEF Inference, HonorStop, Arm, ClearCancel, MatchStep, AnswerUnstarted, StartJob, LoadDone, LoadFails,
       Decoded, Retire, OpenSession, TellReader, Join, Works, JobSteps, At, Goto
  <2> QED
    BY <1>2, <1>3, <2>1, <2>2, JobsStay DEF said, IsAnswered, Queued, JobInv
<1> QED
  BY <1>4, <1>5, <1>6, <1>7

-----------------------------------------------------------------------------
\* The cancel, the model, the acknowledgement.

LEMMA HostRest ==
    ASSUME IInv, Host
    PROVE  CancelInv' /\ ModelInv' /\ AckInv'
<1> USE DEF IInv
<1>1. UNCHANGED <<workerVars, log>>
  BY DEF Host, HostOpens, HostStopsAwaiting, HostSendsJob, HostAborts, HostReads, HostOrdersShutdown,
         HostBreaksProtocol, HostGone, said, hostVars
<1>2. CancelInv'
  BY <1>1 DEF CancelInv, Queued, workerVars, readerVars
<1>3. AckInv'
  BY <1>1 DEF AckInv, workerVars, readerVars
<1>4. ModelInv'
  <2>1. host'.told \/ Has(out', {"opened"}) => host.told \/ Has(out, {"opened"})
    <3>1. CASE HostReads
      <4>1. out \in Seq(Reports) /\ out # <<>> /\ out' = Tail(out)
            /\ (host'.told => host.told \/ Head(out).op = "opened")
        BY <3>1 DEF HostReads, TypeOK
      <4>2. Head(out).op = "opened" => Has(out, {"opened"})
        BY <4>1, TailFrames DEF Has
      <4> QED
        BY <4>1, <4>2, TailKeeps
    <3>2. CASE ~HostReads
      BY <3>2 DEF Host, HostOpens, HostStopsAwaiting, HostSendsJob, HostAborts, HostOrdersShutdown,
         HostBreaksProtocol, HostGone, said, hostVars, TypeOK
    <3> QED
      BY <3>1, <3>2
  <2> QED
    BY <1>1, <2>1 DEF ModelInv, workerVars, engineVars
<1> QED
  BY <1>2, <1>3, <1>4

LEMMA ReaderRest ==
    ASSUME IInv, Reader
    PROVE  CancelInv' /\ ModelInv' /\ AckInv'
<1> USE DEF IInv
<1>1. UNCHANGED <<host, infer, cmd, current, engineVars>>
  BY DEF Reader, ReadAbort, RaiseCancel, RememberAbort, ReadShutdown, OrderShutdown, QueueCommand,
         ReadBad, ReadBroken, StartDying, Die, Heartbeat, LosesFrame, ReaderLeaves, hostVars, inferVars
<1>2. ModelInv'
  <2>1. Has(out', {"opened"}) => Has(out, {"opened"})
    <3>1. CASE UNCHANGED said
      BY <3>1 DEF said
    <3>2. ASSUME NEW op \in {"heartbeat", "error"}, Writes(Frame(op, 0))
          PROVE  Has(out', {"opened"}) => Has(out, {"opened"})
      <4>1. Frame(op, 0) \in Reports /\ Frame(op, 0).op \notin Verdicts /\ Frame(op, 0).op \notin {"opened"}
        BY Plain
      <4>2. out' = out \/ out' = Append(out, Frame(op, 0))
        BY <3>2, <4>1, WritesLemma
      <4>3. out \in Seq(Reports)
        BY DEF TypeOK
      <4> QED
        BY <4>1, <4>2, <4>3, AppendOther
    <3>3. UNCHANGED said \/ Writes(Frame("heartbeat", 0)) \/ Writes(Frame("error", 0))
      BY DEF Reader, ReadAbort, RaiseCancel, RememberAbort, ReadShutdown, OrderShutdown, QueueCommand,
         ReadBad, ReadBroken, Die, Heartbeat, LosesFrame, ReaderLeaves, said
    <3> QED
      BY <3>1, <3>2, <3>3
  <2> QED
    BY <1>1, <2>1 DEF ModelInv, engineVars
<1>3. CancelInv'
  <2>1. CASE ReadAbort
    BY <1>1, <2>1 DEF ReadAbort, AtFrame, CancelInv, JobInv, Queued, Works, JobSteps, InFlight
  <2>2. CASE RaiseCancel
    BY <1>1, <2>2 DEF RaiseCancel, CancelInv, Queued, InFlight
  <2>3. CASE RememberAbort \/ Heartbeat \/ LosesFrame \/ ReaderLeaves \/ Die
    BY <1>1, <2>3 DEF RememberAbort, Heartbeat, LosesFrame, ReaderLeaves, Die, readerVars, CancelInv, Queued
  <2>4. CASE ReadShutdown \/ OrderShutdown \/ ReadBad \/ ReadBroken
    BY <1>1, <2>4 DEF ReadShutdown, OrderShutdown, ReadBad, ReadBroken, StartDying, CancelInv
  <2>5. CASE QueueCommand
    BY <1>1, <2>5 DEF QueueCommand, AtFrame, readerVars, CancelInv
  <2> QED
    BY <2>1, <2>2, <2>3, <2>4, <2>5 DEF Reader
<1>4. AckInv'
  <2>1. log'.acked = log.acked
    <3>1. CASE UNCHANGED said
      BY <3>1 DEF said
    <3>2. ASSUME NEW op \in {"heartbeat", "error"}, Writes(Frame(op, 0))
          PROVE  log'.acked = log.acked
      <4>1. Frame(op, 0) \in Reports /\ Frame(op, 0).op \notin Verdicts /\ Frame(op, 0).op # "shutdown_ack"
        BY Plain
      <4> QED
        BY <3>2, <4>1, WritesLemma
    <3>3. UNCHANGED said \/ Writes(Frame("heartbeat", 0)) \/ Writes(Frame("error", 0))
      BY DEF Reader, ReadAbort, RaiseCancel, RememberAbort, ReadShutdown, OrderShutdown, QueueCommand,
         ReadBad, ReadBroken, Die, Heartbeat, LosesFrame, ReaderLeaves, said
    <3> QED
      BY <3>1, <3>2, <3>3
  <2>2. reader = "done" => reader' = "done"
    BY DEF Reader, ReadAbort, RaiseCancel, RememberAbort, ReadShutdown, OrderShutdown, QueueCommand, AtFrame,
         ReadBad, ReadBroken, Die, Heartbeat, LosesFrame, ReaderLeaves
  <2>3. slot'.op = "shutdown" => slot.op = "shutdown" \/ reader' = "done"
    BY DEF Reader, ReadAbort, RaiseCancel, RememberAbort, ReadShutdown, OrderShutdown, QueueCommand, AtFrame,
         ReadBad, ReadBroken, StartDying, Die, Heartbeat, LosesFrame, ReaderLeaves
  <2> QED
    BY <1>1, <2>1, <2>2, <2>3 DEF AckInv
<1> QED
  BY <1>2, <1>3, <1>4

LEMMA InferenceRest ==
    ASSUME IInv, Inference
    PROVE  CancelInv' /\ ModelInv' /\ AckInv'
<1> USE DEF IInv
<1>1. UNCHANGED <<host, reader, held>>
  BY DEF Inference, Take, HonorStop, Arm, ClearCancel, MatchStep, AnswerUnstarted, StartJob, LoadDone, LoadFails,
     Decoded, Retire, Event, OpenSession, Opened, Reject, Shutdown, TellReader, Join, WriteOr3, engineStep, envVars,
     hostVars, readerVars
<1>2. CASE Take
  <2>1. /\ infer = "wait" /\ slot' = NoFrame /\ UNCHANGED <<out, log, cancel, hit, current, active, resident>>
        /\ infer' \in {"arm", "preload", "ack", "odd"}
        /\ infer' = "arm" => Queued
        /\ infer' = "ack" => slot.op = "shutdown"
    BY <1>2 DEF Take, At, FrameInv, Ordered, Queued, engineOnly, engineVars, said
  <2>2. CancelInv'
    BY <1>1, <2>1 DEF CancelInv, InFlight, Queued, NoFrame
  <2>3. ModelInv' /\ AckInv'
    BY <1>1, <2>1 DEF ModelInv, AckInv, NoFrame
  <2> QED
    BY <2>2, <2>3
<1>3. CASE Arm
  <2>1. /\ infer = "arm" /\ infer' = "clear" /\ current' = cmd.n
        /\ UNCHANGED <<out, log, slot, cmd, active, resident>>
    BY <1>3 DEF Arm, At, Goto, engineVars, said
  <2>2. cmd.n # 0
    BY <2>1 DEF JobInv, Works, JobSteps
  <2> QED
    BY <1>1, <2>1, <2>2 DEF CancelInv, ModelInv, AckInv, InFlight
<1>4. CASE ClearCancel \/ Retire \/ HonorStop \/ TellReader \/ Join
  <2>1. UNCHANGED <<out, log, slot, active, resident>>
    BY <1>4 DEF ClearCancel, Retire, HonorStop, TellReader, Join, engineOnly, engineVars, said
  <2>2. CancelInv'
    BY <1>1, <1>4, <2>1 DEF ClearCancel, Retire, HonorStop, TellReader, Join, engineOnly, At, Goto, CancelInv, InFlight,
       Queued
  <2>3. ModelInv' /\ AckInv'
    BY <1>1, <1>4, <2>1 DEF ClearCancel, Retire, HonorStop, TellReader, Join, At, Goto, ModelInv, AckInv
  <2> QED
    BY <2>2, <2>3
<1>5. CASE AnswerUnstarted \/ StartJob
  <2>1. /\ infer = "match" /\ UNCHANGED <<out, log, slot, cmd, cancel, hit, active, resident>>
        /\ \/ infer' = "event" /\ current' = 0
           \/ infer' = "load" /\ current' = current
    BY <1>5 DEF AnswerUnstarted, StartJob, MatchStep, At, Goto, engineVars, said
  <2> QED
    BY <1>1, <2>1 DEF CancelInv, ModelInv, AckInv, InFlight, Queued
<1>6. CASE LoadDone \/ LoadFails \/ Decoded
  <2>1. /\ infer \in {"load", "decode"} /\ infer' \in {"decode", "retire"}
        /\ UNCHANGED <<out, log, slot, cmd, cancel, hit, current, active>>
        /\ infer' = "decode" => resident' = active
    BY <1>6 DEF LoadDone, LoadFails, Decoded, engineStep, At, Goto, Loads, said
  <2> QED
    BY <1>1, <2>1 DEF CancelInv, ModelInv, AckInv, InFlight, Queued
<1>7. CASE OpenSession
  <2>1. infer = "preload" /\ infer' = "opened" /\ active' = "user" /\ UNCHANGED <<out, log, slot, cmd, current>>
    BY <1>7 DEF OpenSession, engineStep, At, Goto, said
  <2> QED
    BY <1>1, <2>1 DEF CancelInv, ModelInv, AckInv, InFlight, Queued
<1>8. CASE Event \/ Opened \/ Reject \/ Shutdown
  <2>1. /\ infer \in {"event", "opened", "odd", "ack"} /\ infer' \in {"wait", "leave"}
        /\ UNCHANGED <<slot, current, active>>
    BY <1>8 DEF Event, Opened, Reject, Shutdown, WriteOr3, At, Goto, engineOnly, engineVars
  <2>2. CancelInv'
    BY <1>1, <2>1 DEF CancelInv, InFlight, Queued
  <2>3. PICK f \in Reports :
          /\ Writes(f)
          /\ f.op \in Verdicts => f.n \in Jobs
          /\ f.op = "opened" => infer = "opened"
          /\ f.op = "shutdown_ack" => infer = "ack" /\ infer' = "leave"
    <3>1. CASE Event
      <4>1. cmd.n \in Jobs /\ verdict \in Verdicts /\ Writes(Frame(verdict, cmd.n))
        BY <3>1 DEF Event, WriteOr3, At, JobInv, Works, JobSteps, TypeOK
      <4>2. Frame(verdict, cmd.n) \in Reports /\ Frame(verdict, cmd.n).n \in Jobs
            /\ Frame(verdict, cmd.n).op \notin {"opened", "shutdown_ack"}
        BY <4>1, WorkerAssumption DEF Frame, Reports, Written, Verdicts
      <4> QED
        BY <4>1, <4>2
    <3>2. CASE Opened
      BY <3>2, Plain DEF Opened, WriteOr3, At
    <3>3. CASE Reject
      BY <3>3, Plain DEF Reject
    <3>4. CASE Shutdown
      BY <3>4, Plain DEF Shutdown, At, Goto
    <3> QED
      BY <1>8, <3>1, <3>2, <3>3, <3>4
  <2>4. /\ out' = out \/ out' = Append(out, f)
        /\ f.op # "shutdown_ack" => log'.acked = log.acked
    BY <2>3, WritesLemma
  <2>5. Has(out', {"opened"}) => Has(out, {"opened"}) \/ f.op = "opened"
    <3>1. CASE out' = out
      BY <3>1
    <3>2. CASE out' = Append(out, f) /\ f.op \notin {"opened"}
      <4>1. out \in Seq(Reports)
        BY DEF TypeOK
      <4> QED
        BY <3>2, <4>1, AppendOther
    <3> QED
      BY <2>4, <3>1, <3>2
  <2>6. ModelInv'
    BY <1>1, <2>1, <2>3, <2>5 DEF ModelInv
  <2>7. AckInv'
    BY <1>1, <2>1, <2>3, <2>4 DEF AckInv
  <2> QED
    BY <2>2, <2>6, <2>7
<1> QED
  BY <1>2, <1>3, <1>4, <1>5, <1>6, <1>7, <1>8 DEF Inference

-----------------------------------------------------------------------------
LEMMA NextLemma ==
    ASSUME IInv, [Next]_vars
    PROVE  IInv'
<1>1. CASE Host
  BY <1>1, HostTypes, HostJobs, HostRest DEF IInv
<1>2. CASE Reader
  BY <1>2, ReaderTypes, ReaderJobs, ReaderRest DEF IInv
<1>3. CASE Inference
  BY <1>3, InferenceTypes, InferenceJobs, InferenceRest DEF IInv
<1>4. CASE UNCHANGED vars
  BY <1>4 DEF IInv, TypeOK, FrameInv, JobInv, AnswerInv, CancelInv, ModelInv, AckInv, Waits, Queued, Works, IsAnswered,
              vars, hostVars, pipeVars, said, readerVars, engineVars
<1> QED
  BY <1>1, <1>2, <1>3, <1>4 DEF Next

\* What every step preserves.
THEOREM Invariance == Spec => []IInv
<1>1. IInv /\ [Next]_vars => IInv'
  BY NextLemma
<1> QED
  BY InitLemma, <1>1, PTL DEF Spec

\* One terminal event per job, in the order the jobs were sent
\* (host_v2_worker_manager.cpp:1086-1088).
THEOREM TerminalCorrect == Spec => []OneTerminal
<1>1. IInv => OneTerminal
  BY DEF IInv, AnswerInv, OneTerminal
<1> QED
  BY Invariance, <1>1, PTL

\* Only an abort read while this very job was in flight, or the end of the
\* process, unwinds a decode (ggml_translate_worker.cpp:675-677).
THEOREM CancelCorrect == Spec => []CancelIsOwn
<1>1. IInv => CancelIsOwn
  BY DEF IInv, CancelInv, CancelIsOwn
<1> QED
  BY Invariance, <1>1, PTL

\* A decode that comes after the "opened" the host read runs on the relayed
\* model (ggml_translate_worker.cpp:618-630).
THEOREM ModelCorrect == Spec => []RunsOnTold
<1>1. IInv => RunsOnTold
  BY DEF IInv, ModelInv, RunsOnTold
<1> QED
  BY Invariance, <1>1, PTL

\* Nothing is written after shutdown_ack (ggml_translate_worker.cpp:651-663).
THEOREM AckCorrect == Spec => AckIsLast
<1>1. IInv /\ [Next]_vars => [log.acked => Len(out') <= Len(out)]_vars
  <2> SUFFICES ASSUME IInv, Next, log.acked
               PROVE  Len(out') <= Len(out)
    BY DEF vars
  <2>1. reader = "done" /\ infer \in {"leave", "exited"} /\ out \in Seq(Reports)
    BY DEF IInv, AckInv, TypeOK
  <2>2. out' = out \/ (out # <<>> /\ out' = Tail(out))
    <3>1. CASE Host
      BY <3>1 DEF Host, HostOpens, HostStopsAwaiting, HostSendsJob, HostAborts, HostReads, HostOrdersShutdown,
         HostBreaksProtocol, HostGone, said
    <3>2. CASE Reader
      BY <2>1, <3>2 DEF Reader, ReadAbort, RaiseCancel, RememberAbort, ReadShutdown, OrderShutdown, QueueCommand,
         AtFrame, ReadBad, ReadBroken, Die, Heartbeat, LosesFrame, ReaderLeaves
    <3>3. CASE Inference
      BY <2>1, <3>3 DEF Inference, Take, HonorStop, Arm, ClearCancel, MatchStep, AnswerUnstarted, StartJob, LoadDone,
         LoadFails, Decoded, Retire, Event, OpenSession, Opened, Reject, Shutdown, TellReader, Join, At, said
    <3> QED
      BY <3>1, <3>2, <3>3 DEF Next
  <2>3. out # <<>> => Len(Tail(out)) <= Len(out)
    BY <2>1, TailFrames
  <2>4. Len(out) <= Len(out)
    BY <2>1
  <2> QED
    BY <2>2, <2>3, <2>4
<1> QED
  BY Invariance, <1>1, PTL DEF Spec, AckIsLast
=============================================================================
