-------------------------- MODULE TranslateWorker --------------------------
(***************************************************************************)
(* One translate worker process (ggml_translate_worker.cpp): the reader    *)
(* thread that owns the pipe and acts on abort and shutdown at once, the   *)
(* inference thread that owns the engine, and the single command slot and  *)
(* the flags between them.  The host's end of the pipe is the environment: *)
(* it sends what the dispatchers of host_main.cpp send, one job at a time. *)
(***************************************************************************)
EXTENDS Naturals, Sequences, SequencesExt

CONSTANTS
    Jobs,           \* job ids 1 .. n, in the order the host sends them
    AbortSessions,  \* the sessions an abort frame may name (the host names 0)
    Session,        \* job.session of its one client, never 0 (StableClientSessionId)
    MaxOpens,       \* bound: session_open frames
    MaxBeats,       \* bound: heartbeats
    MaxBroken       \* bound: frames that break the protocol

ASSUME WorkerAssumption ==
    /\ Jobs \subseteq Nat \ {0}
    /\ AbortSessions \subseteq Nat
    /\ Session \in Nat \ {0}
    /\ {MaxOpens, MaxBeats, MaxBroken} \subseteq Nat

VARIABLES
    inbox,       \* frames the host wrote and the reader has not read
    out,         \* frames the worker wrote and the host has not read
    log,         \* history: [answers, acked]: every job answered, shutdown_ack written
    peer,        \* the host's end of the pipe is open
    host,        \* [owed, relay, told, next, aborted]: the host's view
    spent,       \* [opens, beats, broken]: what the bounds count
    reader,      \* the reader thread's next step
    held,        \* the abort it holds: [session, job], its job as it saw it
    slot,        \* queue.cmd: the one pending ordered command
    stop,        \* queue.stop / queue.exit_code, or Running
    ordered,     \* shutdown_ordered
    stopReader,  \* stop_reader
    infer,       \* the inference thread's next step
    cmd,         \* the command it took
    cancel,      \* g_cancel
    current,     \* g_current_job, 0 for none
    pending,     \* g_pending_abort_session, 0 for none
    active,      \* active_model_id
    resident,    \* the model the engine holds (loaded_path)
    exhausted,   \* decode_wall_clock_exhausted_
    verdict,     \* how the current job ended
    exit,        \* the process exit code, or Running
    hit,         \* history: the job g_cancel was last raised for
    passed       \* history: jobs whose abort was read while they were queued

hostVars == <<host, spent>>
pipeVars == <<inbox, peer>>
said == <<out, log>>
readerVars == <<reader, held, stop, ordered, pending, passed>>
engineVars == <<active, resident, exhausted>>
vars == <<hostVars, pipeVars, said, readerVars, slot, stopReader, infer, cmd,
          cancel, current, engineVars, verdict, exit, hit>>

Running == 99
NoFrame == [op |-> "none", n |-> 0]
Frame(op, n) == [op |-> op, n |-> n]
Ops == {"job", "open", "abort", "shutdown", "bad", "odd"}
Frames == [op : Ops \cup {"none"}, n : Nat]
Verdicts == {"final", "engine_failed", "model_missing", "timeout"}
Written == Verdicts \cup {"heartbeat", "opened", "error", "shutdown_ack"}
Orders == [op : Ops, n : Nat]        \* to the worker
Reports == [op : Written, n : Nat]   \* from it
ReaderSteps == {"read", "raise", "pend", "dying", "ordering", "done"}
InferSteps == {"wait", "odd", "arm", "clear", "match", "load", "decode", "retire", "event",
               "preload", "opened", "ack", "leave", "exited"}

TypeOK ==
    /\ inbox \in Seq(Orders) /\ out \in Seq(Reports)
    /\ log \in [answers : Seq(Jobs), acked : BOOLEAN] /\ peer \in BOOLEAN
    /\ host \in [owed : Jobs \cup {0}, relay : BOOLEAN, told : BOOLEAN,
                 next : Nat, aborted : BOOLEAN]
    /\ spent \in [opens : 0 .. MaxOpens, beats : 0 .. MaxBeats, broken : 0 .. MaxBroken]
    /\ reader \in ReaderSteps /\ infer \in InferSteps
    /\ slot \in Frames /\ cmd \in Frames
    /\ stop \in {3, Running} /\ exit \in {0, 3, Running}
    /\ ordered \in BOOLEAN /\ stopReader \in BOOLEAN /\ cancel \in BOOLEAN
    /\ current \in Jobs \cup {0} /\ hit \in Jobs \cup {0}
    /\ pending \in AbortSessions \cup {0}
    /\ held \in [session : AbortSessions \cup {0}, job : Jobs \cup {0}]
    /\ active \in {"default", "user"} /\ resident \in {"none", "default", "user"}
    /\ exhausted \in BOOLEAN /\ verdict \in Verdicts /\ passed \subseteq Jobs

\* The announce frame is on the pipe and the reader thread has started
Init ==
    /\ inbox = <<>> /\ out = <<>> /\ log = [answers |-> <<>>, acked |-> FALSE] /\ peer = TRUE
    /\ host = [owed |-> 0, relay |-> FALSE, told |-> FALSE, next |-> 1, aborted |-> FALSE]
    /\ spent = [opens |-> 0, beats |-> 0, broken |-> 0]
    /\ reader = "read" /\ infer = "wait" /\ slot = NoFrame /\ cmd = NoFrame
    /\ held = [session |-> 0, job |-> 0]
    /\ stop = Running /\ exit = Running /\ ordered = FALSE /\ stopReader = FALSE
    /\ cancel = FALSE /\ current = 0 /\ hit = 0 /\ pending = 0 /\ passed = {}
    /\ active = "default" /\ resident = "none" /\ exhausted = FALSE
    /\ verdict = "final"

-----------------------------------------------------------------------------
(* The host's end                                                          *)

workerVars == <<readerVars, slot, stopReader, infer, cmd, cancel, current,
                engineVars, verdict, exit, hit>>

Sends(f) == inbox' = Append(inbox, f)
Quiet == ~ host.relay /\ host.owed = 0

\* EnsureWorkerModelRelayed: relay the family's model, then await "opened"
HostOpens ==
    /\ peer /\ Quiet /\ spent.opens < MaxOpens
    /\ Sends(Frame("open", 0))
    /\ host' = [host EXCEPT !.relay = TRUE]
    /\ spent' = [spent EXCEPT !.opens = @ + 1]
    /\ UNCHANGED <<peer, said, workerVars>>

\* The wait for "opened" runs out; the job path goes on without it
HostStopsAwaiting ==
    /\ host.relay
    /\ host' = [host EXCEPT !.relay = FALSE]
    /\ UNCHANGED <<spent, pipeVars, said, workerVars>>

\* SendToWorker(BuildJob): one job in flight, answered or settled before the next
HostSendsJob ==
    /\ peer /\ Quiet /\ host.next \in Jobs
    /\ Sends(Frame("job", host.next))
    /\ host' = [host EXCEPT !.owed = host.next, !.next = @ + 1, !.aborted = FALSE]
    /\ UNCHANGED <<spent, peer, said, workerVars>>

\* The dispatcher gives the job up: cancel, deadline or shutdown
HostAborts ==
    /\ peer /\ host.owed # 0 /\ ~ host.aborted
    /\ \E s \in AbortSessions : Sends(Frame("abort", s))
    /\ host' = [host EXCEPT !.aborted = TRUE]
    /\ UNCHANGED <<spent, peer, said, workerVars>>

\* Ends the job's window, or the wait for "opened"
HostReads ==
    /\ out # <<>>
    /\ LET f == Head(out) IN
       host' = [host EXCEPT
                  !.owed = IF f.op \in Verdicts /\ f.n = @ THEN 0 ELSE @,
                  !.told = @ \/ (host.relay /\ f.op = "opened"),
                  !.relay = @ /\ f.op # "opened"]
    /\ out' = Tail(out)
    /\ UNCHANGED <<spent, pipeVars, log, workerVars>>

\* StopAll's graceful order
HostOrdersShutdown ==
    /\ peer /\ \A i \in DOMAIN inbox : inbox[i].op # "shutdown"
    /\ ~ ordered /\ reader # "ordering"
    /\ Sends(Frame("shutdown", 0))
    /\ UNCHANGED <<hostVars, peer, said, workerVars>>

\* A frame the worker does not understand
HostBreaksProtocol ==
    /\ peer /\ spent.broken < MaxBroken
    /\ \E op \in {"bad", "odd"} : Sends(Frame(op, 0))
    /\ spent' = [spent EXCEPT !.broken = @ + 1]
    /\ UNCHANGED <<host, peer, said, workerVars>>

\* The host dies or closes the pipe; what it wrote may or may not be read
HostGone ==
    /\ peer /\ peer' = FALSE
    /\ inbox' \in {inbox, <<>>}
    /\ UNCHANGED <<hostVars, said, workerVars>>

Host ==
    \/ HostOpens \/ HostStopsAwaiting \/ HostSendsJob \/ HostAborts \/ HostReads
    \/ HostOrdersShutdown \/ HostBreaksProtocol \/ HostGone

-----------------------------------------------------------------------------
(* The reader thread                                                       *)

\* WriteFrameThreadSafe: the frame is on the pipe, or the peer is gone
Writes(f) ==
    IF ~ peer THEN UNCHANGED said
    ELSE /\ out' = Append(out, f)
         /\ log' = [answers |-> IF f.op \in Verdicts THEN Append(log.answers, f.n)
                                 ELSE log.answers,
                    acked |-> log.acked \/ f.op = "shutdown_ack"]

inferVars == <<stopReader, infer, cmd, current, engineVars, verdict, exit>>

\* The head of the pipe, at the top of the reader's loop
AtFrame(op) ==
    /\ reader = "read" /\ ~ stopReader
    /\ inbox # <<>> /\ Head(inbox).op = op
    /\ inbox' = Tail(inbox)

\* abort: is a job in flight?
ReadAbort ==
    /\ AtFrame("abort")
    /\ held' = [session |-> Head(inbox).n, job |-> current]
    /\ reader' = IF current # 0 THEN "raise" ELSE "pend"
    /\ passed' = passed \cup (IF slot.op = "job" THEN {slot.n} ELSE {})
    /\ UNCHANGED <<hostVars, peer, said, slot, stop, ordered, pending, cancel, hit, inferVars>>

\* mutant: the reader answers the aborted job itself
AbortAnswers ==
    /\ reader = "raise" /\ reader' = "pend"
    /\ cancel' = TRUE /\ hit' = held.job
    /\ Writes(Frame("timeout", held.job))
    /\ UNCHANGED <<hostVars, pipeVars, slot, held, stop, ordered, pending, passed, inferVars>>

\* ... then unwind it ...
RaiseCancel ==
    /\ reader = "raise" /\ reader' = "pend"
    /\ cancel' = TRUE /\ hit' = held.job
    /\ UNCHANGED <<hostVars, pipeVars, said, slot, held, stop, ordered, pending, passed, inferVars>>

\* ... and remember the session for a job not started yet
RememberAbort ==
    /\ reader = "pend" /\ reader' = "read"
    /\ pending' = held.session
    /\ UNCHANGED <<hostVars, pipeVars, said, slot, held, stop, ordered, passed, cancel, hit, inferVars>>

\* shutdown: unwind the decode first ...
ReadShutdown ==
    /\ AtFrame("shutdown")
    /\ cancel' = TRUE /\ hit' = current
    /\ reader' = "ordering"
    /\ UNCHANGED <<hostVars, peer, said, slot, held, stop, ordered, pending, passed, inferVars>>

\* mutant: the reader goes on reading
OrderAndStay ==
    /\ reader = "ordering" /\ reader' = "read"
    /\ ordered' = TRUE /\ slot' = Frame("shutdown", 0)
    /\ UNCHANGED <<hostVars, pipeVars, said, held, stop, pending, passed, cancel, hit, inferVars>>

\* ... then hand the order to the inference thread; nothing more is read
OrderShutdown ==
    /\ reader = "ordering" /\ reader' = "done"
    /\ ordered' = TRUE /\ slot' = Frame("shutdown", 0)
    /\ UNCHANGED <<hostVars, pipeVars, said, held, stop, pending, passed, cancel, hit, inferVars>>

\* An ordered command takes the slot; an unstarted one is superseded
QueueCommand ==
    /\ \E op \in {"job", "open", "odd"} : AtFrame(op)
    /\ slot' = Head(inbox)
    /\ UNCHANGED <<hostVars, peer, said, readerVars, cancel, hit, inferVars>>

\* die(3): unwind the engine ...
StartDying ==
    /\ cancel' = TRUE /\ hit' = current
    /\ reader' = "dying"
    /\ UNCHANGED <<hostVars, peer, slot, held, stop, ordered, pending, passed, inferVars>>

\* ... then leave the exit to the inference thread
Die ==
    /\ reader = "dying" /\ reader' = "done"
    /\ stop' = 3
    /\ UNCHANGED <<hostVars, pipeVars, said, slot, held, ordered, pending, passed, cancel, hit, inferVars>>

\* A frame that does not parse: one error frame, then die
ReadBad ==
    /\ AtFrame("bad")
    /\ Writes(Frame("error", 0))
    /\ StartDying

\* The host is gone: the read fails
ReadBroken ==
    /\ reader = "read" /\ ~ stopReader /\ ~ peer /\ inbox = <<>>
    /\ UNCHANGED <<inbox, said>> /\ StartDying

\* A quiet read slice ends and the heartbeat interval has passed
Heartbeat ==
    /\ reader = "read" /\ ~ stopReader /\ inbox = <<>> /\ peer
    /\ spent.beats < MaxBeats
    /\ Writes(Frame("heartbeat", 0))
    /\ spent' = [spent EXCEPT !.beats = @ + 1]
    /\ UNCHANGED <<host, pipeVars, slot, readerVars, cancel, hit, inferVars>>

\* A frame completes the read between the end of its slice and CancelIoEx: the
\* read reports a timeout and the frame is gone
LosesFrame ==
    /\ reader = "read" /\ ~ stopReader /\ inbox # <<>>
    /\ inbox' = Tail(inbox)
    /\ UNCHANGED <<hostVars, peer, said, slot, readerVars, cancel, hit, inferVars>>

\* The inference thread is done
ReaderLeaves ==
    /\ reader = "read" /\ stopReader /\ reader' = "done"
    /\ UNCHANGED <<hostVars, pipeVars, said, slot, held, stop, ordered, pending, passed,
                   cancel, hit, inferVars>>

Reader ==
    \/ ReadAbort \/ RaiseCancel \/ RememberAbort \/ ReadShutdown \/ OrderShutdown
    \/ QueueCommand \/ ReadBad \/ ReadBroken \/ Die \/ Heartbeat \/ LosesFrame \/ ReaderLeaves

-----------------------------------------------------------------------------
(* The inference thread                                                    *)

envVars == <<hostVars, pipeVars>>
engineOnly == <<current, engineVars, verdict>>

At(step) == infer = step
Goto(step) == infer' = step

\* The queued command comes before the reader's stop
Take ==
    /\ At("wait") /\ slot # NoFrame
    /\ cmd' = slot /\ slot' = NoFrame
    /\ infer' = CASE slot.op = "job" -> "arm"
                  [] slot.op = "open" -> "preload"
                  [] slot.op = "shutdown" -> "ack"
                  [] slot.op = "odd" -> "odd"
    /\ UNCHANGED <<envVars, said, readerVars, stopReader, cancel, hit, engineOnly, exit>>

\* The reader asked for the exit and nothing is queued
HonorStop ==
    /\ At("wait") /\ slot = NoFrame /\ stop # Running
    /\ exit' = stop /\ Goto("leave")
    /\ UNCHANGED <<envVars, said, readerVars, slot, stopReader, cmd, cancel, hit, engineOnly>>

\* g_current_job is set before the flag is cleared
Arm ==
    /\ At("arm") /\ Goto("clear")
    /\ current' = cmd.n
    /\ UNCHANGED <<envVars, said, readerVars, slot, stopReader, cmd, cancel, hit,
                   engineVars, verdict, exit>>

\* mutant: a stale cancel stays raised
KeepCancel ==
    /\ At("clear") /\ Goto("match")
    /\ UNCHANGED <<envVars, said, readerVars, slot, stopReader, cmd, cancel, hit, engineOnly, exit>>

\* A stale abort must not reach this job
ClearCancel ==
    /\ At("clear") /\ Goto("match")
    /\ cancel' = FALSE /\ hit' = 0
    /\ UNCHANGED <<envVars, said, readerVars, slot, stopReader, cmd, engineOnly, exit>>

\* g_pending_abort_session.exchange(0) names this job's session, or does not
MatchStep(named) ==
    /\ At("match")
    /\ (pending = Session) = named
    /\ pending' = 0
    /\ UNCHANGED <<envVars, said, reader, held, stop, ordered, passed, slot, stopReader,
                   cmd, cancel, hit, engineVars, exit>>

\* The abort came while the job was queued: "timeout", the work never starts
AnswerUnstarted ==
    /\ MatchStep(TRUE)
    /\ current' = 0 /\ verdict' = "timeout" /\ Goto("event")

StartJob ==
    /\ MatchStep(FALSE)
    /\ UNCHANGED <<current, verdict>> /\ Goto("load")

engineStep == <<envVars, said, readerVars, slot, stopReader, cmd, cancel, hit, current, exit>>

\* EnsureLoaded: nothing to do, or unload and load what session_open named
Resident == resident = active
Loads == resident' = active
FailsToLoad == ~ Resident /\ resident' = "none"

\* A registered model whose file is gone: nothing is unloaded
Absent == active = "user" /\ UNCHANGED resident

\* A load that was started always runs to its end (g_never_cancel_load)
LoadDone ==
    /\ At("load") /\ Goto("decode")
    /\ Loads
    /\ UNCHANGED <<engineStep, active, exhausted, verdict>>

\* The file is absent or does not load
LoadFails ==
    /\ At("load") /\ Goto("retire")
    /\ (FailsToLoad \/ Absent)
    /\ verdict' = IF cancel \/ exhausted THEN "timeout" ELSE "model_missing"
    /\ UNCHANGED <<engineStep, active, exhausted>>

\* Translate returns: cancelled, out of its wall-clock budget, or done
Decoded ==
    /\ At("decode") /\ Goto("retire")
    /\ exhausted' \in BOOLEAN
    /\ (cancel => ~ exhausted')
    /\ verdict' \in IF cancel \/ exhausted' THEN {"timeout"}
                    ELSE {"final", "engine_failed"}
    /\ UNCHANGED <<engineStep, active, resident>>

\* g_current_job is reset before the event is written
Retire ==
    /\ At("retire") /\ Goto("event")
    /\ current' = 0
    /\ UNCHANGED <<envVars, said, readerVars, slot, stopReader, cmd, cancel, hit,
                   engineVars, verdict, exit>>

\* A frame is written, or the host is gone and the process leaves with 3
WriteOr3(f) ==
    /\ Writes(f)
    /\ IF peer THEN Goto("wait") /\ UNCHANGED exit ELSE Goto("leave") /\ exit' = 3
    /\ UNCHANGED <<envVars, readerVars, slot, stopReader, cmd, cancel, hit, engineOnly>>

\* mutant: the event of a cancelled job is left to the give-up path
EventUnlessCancelled ==
    /\ At("event")
    /\ IF cancel THEN /\ Goto("wait")
                      /\ UNCHANGED <<envVars, said, readerVars, slot, stopReader, cmd,
                                     cancel, hit, engineOnly, exit>>
       ELSE WriteOr3(Frame(verdict, cmd.n))

\* The job's one terminal event
Event == At("event") /\ WriteOr3(Frame(verdict, cmd.n))

\* mutant: a preload that fails leaves the old model active
OpenIfLoaded ==
    /\ At("preload") /\ Goto("opened")
    /\ resident' \in {resident, "user", "none"}
    /\ active' = IF resident' = "user" THEN "user" ELSE active
    /\ UNCHANGED <<engineStep, exhausted, verdict>>

\* session_open: its model becomes the active one, a preload may load it
\* (or fail to, which the answer does not tell)
OpenSession ==
    /\ At("preload") /\ Goto("opened")
    /\ active' = "user"
    /\ resident' \in {resident, "user", "none"}
    /\ (resident' = "none" => resident # "user")
    /\ UNCHANGED <<engineStep, exhausted, verdict>>

Opened == At("opened") /\ WriteOr3(Frame("opened", 0))

\* An unknown op: one error frame and exit 3
Reject ==
    /\ At("odd") /\ Goto("leave") /\ exit' = 3
    /\ Writes(Frame("error", 0))
    /\ UNCHANGED <<envVars, readerVars, slot, stopReader, cmd, cancel, hit, engineOnly>>

\* shutdown: unload, acknowledge as the last write, exit 0
Shutdown ==
    /\ At("ack") /\ Goto("leave") /\ exit' = 0
    /\ resident' = "none"
    /\ Writes(Frame("shutdown_ack", 0))
    /\ UNCHANGED <<envVars, readerVars, slot, stopReader, cmd, cancel, hit, current,
                   active, exhausted, verdict>>

\* Every exit tells the reader to leave its read slice ...
TellReader ==
    /\ At("leave") /\ ~ stopReader /\ stopReader' = TRUE
    /\ UNCHANGED <<envVars, said, readerVars, slot, infer, cmd, cancel, hit, engineOnly, exit>>

\* ... and joins it before the process ends
Join ==
    /\ At("leave") /\ stopReader /\ reader = "done" /\ Goto("exited")
    /\ UNCHANGED <<envVars, said, readerVars, slot, stopReader, cmd, cancel, hit, engineOnly, exit>>

Inference ==
    \/ Take \/ HonorStop \/ Arm \/ ClearCancel \/ AnswerUnstarted \/ StartJob
    \/ LoadDone \/ LoadFails \/ Decoded \/ Retire \/ Event
    \/ OpenSession \/ Opened \/ Reject \/ Shutdown \/ TellReader \/ Join

-----------------------------------------------------------------------------
Next == Host \/ Reader \/ Inference

\* Both threads run; a load, a decode and a write end (the decode has its
\* wall-clock budget, a broken pipe fails the write)
Fairness == WF_vars(Reader) /\ WF_vars(Inference)

Spec == Init /\ [][Next]_vars
FairSpec == Spec /\ Fairness

-----------------------------------------------------------------------------
(* Properties                                                              *)

Answered(j) == j \in Range(log.answers)

\* One terminal event per job, in the order the jobs were sent: what the
\* dispatchers' settle relies on (host_v2_worker_manager.cpp:1086-1088)
OneTerminal ==
    /\ TypeOK
    /\ \A i, k \in DOMAIN log.answers : i < k => log.answers[i] < log.answers[k]

\* A decode is unwound only by an abort the reader read while that very job was
\* in flight, or by the end of the process: never by a stale abort (ggml_translate_worker.cpp:675-677)
CancelIsOwn ==
    infer = "decode" /\ cancel /\ reader \in {"read", "raise", "pend"} => hit = current

\* shutdown_ack is the last frame on the pipe, from either thread (ggml_translate_worker.cpp:651-663)
AckIsLast == [][log.acked => Len(out') <= Len(out)]_vars

\* Once the host has its "opened", every later decode runs on the relayed model,
\* even when a newer session_open was superseded in the slot (ggml_translate_worker.cpp:618-630)
RunsOnTold == infer = "decode" /\ host.told => resident = "user"

\* A job the inference thread took is answered, or the process is on its way out
JobsEnd == \A j \in Jobs : (infer = "arm" /\ cmd.n = j) ~> (Answered(j) \/ exit # Running)

\* Ordered to stop, or without a host, the process ends: both threads leave
Leaves == (ordered \/ ~ peer) ~> infer = "exited"
JobsAndWorkerEnd == JobsEnd /\ Leaves

\* host_v2_worker_manager.cpp:1086-1087: "Exactly one terminal event exists per job":
\* a job the host sent is answered, or the process is on its way out
SentJobsEnd == \A j \in Jobs : (host.owed = j) ~> (Answered(j) \/ exit # Running)

\* ggml_translate_worker.cpp:375-378 and 678-680: an abort read while its job sat in
\* the slot is honored at job start and "the work never starts"
QueuedAbortHonored == infer \in {"load", "decode"} => current \notin passed

\* ggml_translate_worker.cpp:719-721: when the reload of a swap fails "the worker
\* stays alive on its previous model"
FailedSwapKeepsModel == [][infer = "load" /\ resident # "none" => resident' # "none"]_vars

\* ggml_translate_worker.cpp:712-713: "a missing/corrupt/undecodable GGUF maps to
\* model_missing"; only a cancelled load answers "timeout"
MissingIsSaid ==
    [][infer = "load" /\ infer' = "retire" /\ ~ cancel => verdict' = "model_missing"]_vars

\* ggml_translate_worker.cpp:604-606: the shutdown unwinds the decode, so that the
\* unload "is not blocked by a multi-second llama call"
ShutdownUnwinds == infer = "decode" /\ ordered => cancel
=============================================================================
