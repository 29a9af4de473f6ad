# Emebalachat: a verification development

TLA+ modules, TLC configurations and TLAPS proofs kept beside the Emebalachat
sources. Paths in this file are relative to the repository; `src/host_main.cpp`
is the file of that name in its `src` directory.

Emebalachat translates the text a user is writing or has selected. The desktop
application captures text from another program's window, sends it to a cloud
provider or to a local inference host, and writes the translation back. The
host (`Emebala.Engine.exe`) serves several applications over a named pipe and
owns one worker process per model family; each worker holds one model.

## 1. Inventory

| Part | Sources | State | Operations | Talks to |
|---|---|---|---|---|
| Application main loop | `main.cpp` | windows, settings, hook threads | start, message loop, exit | everything in the app |
| Capture and injection | `win32_input.*`, `smart_bypass.*` | clipboard snapshot, target window | capture, inject, restore | other programs' windows, the clipboard |
| Hooks | `hook.*`, `hook_thread.hpp`, `mouse_hook.*` | key and drag state | key and mouse events, hot keys | the app's worker |
| App translation worker | `worker.*`, `single_slot_worker.hpp` | one pending request, newest wins | submit, cancel, deliver, retry | engines, user interface |
| Engines | `engine.*`, `google_translate.*`, `openai_compatible_client.*` | provider, failure classes | translate, fall back | HTTP, host client |
| Host client | `engine_host_client.*`, `engine_host_bootstrap_client.*` | pipe, handshake, stop event | connect, launch the host, translate, shut down | the host |
| Client connections (host) | `host_main.cpp` | slots, generations, v1 queue | accept, session, answer, recycle | dispatchers, scheduler |
| Sessions (host) | `host_v2_session.*` | session table | open, close, close by owner | scheduler, speech relay |
| Scheduler (host) | `host_v2_scheduler.*` | bounded priority queue | enqueue, pop, reap, drop a session | v2 sessions, v2 dispatcher |
| Dispatchers (host) | `host_main.cpp` | current job, abort flag | take, ensure, acquire, relay, send, wait, give up, settle, answer | worker manager, connections |
| Worker manager (host) | `host_v2_worker_manager.*`, `host_v2_translate_pool.hpp` | a record per family, a charge per pool entry | launch, claim, reap, evict, stop | workers, dispatchers |
| Memory gate (host) | `engine_host_vram_gate.*` | none | decide GPU or CPU at registration | worker manager |
| Speech relay (host) | `host_main.cpp`, `host_v2_asr_relay.hpp` | one claim, one relay thread | open, feed, close, cancel | worker manager, sessions |
| Translate worker | `ggml_translate_worker.cpp`, `engine_core/` | command slot, cancel flag, model | job, session_open, abort, shutdown | the host |
| Registry and manifests | `engine_host_registry.*`, `engine_host_manifest.*`, `engine_host_components.*` | none | parse, merge, find | host, worker, installer |
| Configuration | `config.*`, `engine_host_config_reader.*`, `engine_host_client_policy.*` | settings file and caches | load, migrate, save | all |
| Updates and models | `update_checker.*`, `model_downloader.*` | download state | check, download, verify, replace | HTTP, files |
| User interface | `ui/` | windows | show, hide, draw | app |
| Texts, sound, logging | `i18n.*`, `unicode_utils.*`, `bidi_utils.*`, `sound.*`, `diag_logger.*` | tables, log file | pure functions, output | all |
| Installer, tools | `installer/`, `tools/` | none at run time | | |

Where the hard behaviour is: one host process runs a thread per client
connection, two dispatcher threads (the frozen v1 queue and the v2 scheduler),
warmup threads, a speech relay thread, a reaper and a watchdog, all over one
worker manager whose calls often drop the lock between reading a handle and
using it. Worker processes crash, hang, are killed and are launched again under
the same family name. Answers come back on a pipe without any correlation
stronger than "one job in flight per family", so everything rests on who holds
the family when.

How the parts interact. An application's *client thread* opens the named pipe and
says hello; a *connection thread* of the host serves it on one of its slots.
`translate` goes into one of two queues: the frozen v1 `JobQueue`, or the v2
`Scheduler`, which may discard a waiting request for a new one. A *dispatcher*
takes the request, makes sure a worker of the model's family runs
(`EnsureSpawned`), claims the family (`TrySetBusy`), drains its pipe, tells a
new launch which model to load (the relay: `session_open`), publishes the job in
`g_current`, sends it and reads the pipe until the terminal event. A deadline or a client's cancel raises
`g_abort`; the dispatcher then sends `abort`, *settles* (reads on until the
terminal event comes, for a bounded time) and kills a worker that stays silent.
The *reaper* collects dead workers, evicts idle ones and returns their memory
charge. The *connection thread* of the requester gets the answer written to its
client from the dispatcher's thread, guarded by the slot's generation.

In the application, the *keyboard hook* takes the Enter of a window that is
translated and posts a task to the *pipeline worker*, which selects and copies
the text by synthetic keys, asks the *engine*, pastes the answer and sends the
Enter on; other workers of one slot each serve the drag and the tooltip. The
engine lets one request run at a time, against the settings it was admitted
under: the local host first, over a session that outlives the request, then the
cloud where the user allows it. Beside it a *warmup thread* keeps one connection
to the host open while the host is the active engine. The clipboard is shared
with the user and with every other program: the only thing known of it is a
sequence number, and the only memory of an own write is that number's stamp.

What makes each part correct, in words:

- manager: one job per launch; no handle leaked or mixed up between launches; a
  stop never touches a process launched after it began; the memory total is the
  sum of what runs; a fresh launch does not look relayed; a process handle is not
  closed over a running process; stops end.
- dispatchers: an answer belongs to its job; an abort hits the job it was meant
  for; every taken job is answered and every claim given back.
- worker: one terminal event per job; an abort unwinds its own job only; the
  acknowledged model is the one that decodes; nothing follows the
  acknowledgement of a shutdown; both threads leave.
- scheduler: nothing waits twice or is lost, the best one goes first, only a
  droppable request is discarded, nothing but better requests holds one up.
- connections: no client sees another's answer, one answer per request, no work
  for clients that left; an answer for each that stays and reads.
- speech relay: one claim, held by an open or a running relay; it comes back; no
  record of a session outlives its connection or vanishes under it.
- clipboard: what the user copied last is what is there after a task.
- Enter pipeline: no typed word is lost, doubled or translated twice; synthetic
  keys reach the control they are meant for; no selection stays live.
- engine and host client: a text stays on the device unless it was sent under a
  consent; an answer belongs to its request, as far as an id tells; requests end and the
  exit too.
- not modelled: a download that is never half installed, settings that survive a
  crash, hot keys and IME state, the surfaces.

## 2. Modules

| Module | Models | State | Actions |
|---|---|---|---|
| `WorkerManager` | `WorkerManager::Impl` and the translate pool | `st`, `proc`, `pipe` per family are the `WorkerHandle`; `pool`, `charged`, `reserved`, `relayed` the pool entries and tracker; `mu` the mutex while `EnsureSpawned` holds it across its handshake; `own`, `acq` what a host thread believes it holds, `saw` the handle it read for a relay mark; `stop`, `cand` the one thread inside `GracefulStop` | one per hold of the mutex: `Ensure*`, `Handshake*`, `TrySetBusy`, `Release`, `ReadHandle` (without the lock) and `MarkRelayed`, `SendStalled/Broken`, `TerminateUnresponsive`, `Reaper*`, `Stop*`, `EvictReset`, `Shutdown*` |
| `WorkerManager_proofs` | - | - | theorems about `WorkerManager` |
| `SchedulerSpec` | what the header of the scheduler promises | a set of waiting requests | `Arrive`, `Dispatch`, `Expire`, `Drop`; `Renew` for runs without end |
| `Scheduler` | `SchedQueue` and its facade | the deque `items`, `next_seq`, the late requests | one per call under the mutex; `AskAgain`: an answered request comes in again as another (`StreamSpec`) |
| `HostDispatch` | `DispatcherLoop`, `DispatcherV2Loop`, `KickWarmupSpawn`, the watchdog | a program point, a job and a result per thread; `g_current`, `g_abort`; per family the launch, its pipe and the worker's running and queued job | one per step between two synchronisation points of the loops; the wait for `opened` takes a step for each frame and may go on for ever |
| `HostDispatch_proofs` | - | - | theorems about `HostDispatch` |
| `TranslateWorker` | `ggml_translate_worker.cpp`'s two threads, `EnsureLoaded` | the command slot, `g_cancel`, the remembered abort, the job's session, the resident model, the pipe in both directions | one per read or write of what the threads share |
| `TranslateWorker_proofs` | - | - | theorems about `TranslateWorker` |
| `Connections` | slots, v1 queue, answers; extends `Scheduler` | phase, client, `conn_epoch`, `write_pipe` per slot; who holds `write_mu` and which handle it took; `g_queue`; answers each thread has still to write; who did not drain for the time of a write (`stalled`) | accept, read a request, dispatch, check and write an answer or lose it to the bounded wait, the five steps of a session's end |
| `Connections_proofs` | - | - | theorems about `Connections` and about the queue of `Scheduler` in it, with the refinement |
| `SessionTable` | `host_v2_session.cpp`: ids, records, prune | the records in their order, the ids drawn and not yet appended | operators for open, close, close by owner |
| `AsrRelay` | the speech ops of `host_main.cpp` and `host_v2_asr_relay.hpp`; contains `SessionTable` | `claim` (`g_asr_relay`), `relay` the thread, `pc` per connection, the worker's pipe in both directions | claim, grace, open with its classifier, feed in two sends, gate and read of the relay, close, a close of any other record (`CloseOther`), drain, join, teardown, worker events |
| `AsrRelay_proofs` | - | - | theorems about `AsrRelay` |
| `Clipboard` | backup, chord, stamp, write, re-baseline and restore of `win32_input.cpp`, the guards of `worker.cpp`, the drag task | content and sequence number of the clipboard, a snapshot and a stamp per task, the user's latest copy | one per access of the clipboard, failed ones too; a copy by the user |
| `Clipboard_proofs` | - | - | theorems about `Clipboard` |
| `EnterPipeline` | the Enter gate of `hook.cpp`, the task of `worker.cpp`, capture and paste as it meets them | text, selection and focus of the controls; K and its anchor; the busy pair; ledger, captured line, output | press, type, edit, move of the user; capture, judge, translate, paste, release, send gate, the two stores at the end |
| `EnterPipeline_proofs` | - | - | theorems about `EnterPipeline` |
| `SlotWorker` | `single_slot_worker.hpp` | pending job, loop, stop per worker | submit, stop, take, leave, look and block |
| `WarmupLink` | `WarmupManager` of `engine_host_client.cpp` | wanted, stop, event, held and published pipe, back-off | push, shutdown, and the steps of the thread |
| `HostClient` | `TranslationManager::Translate`, `TryTranslate`, the exit; contains `SlotWorker` and `WarmupLink` | settings and their snapshot, the session, what is pending and unread on it, whether the host left it, attempts and failure class | admit, connect, send, read, time out, retry, fall back, return; a setter; the exit in its order; the host's death, answers and refusals, and another client's result on the session (`HostStrays`) |
| `HostClient_proofs` | - | - | theorems about `HostClient` |
| `MC*` | instances for TLC | | |

`Connections` composes the scheduler with the slots and the dispatchers' ends;
`AsrRelay` the session table with connections and relay; `HostClient` the
one-slot workers, the engine and the warmup thread over one host;
it takes of the host what
its client can see: a result with its id, an error without one, and what `Connections`
says of a recycled slot, a frame for its former client. `HostDispatch` has the dispatchers with a coarse worker and a coarse
manager (launch, death, reap), whose detailed forms are `TranslateWorker` and
`WorkerManager`. `Scheduler` is shown to implement `SchedulerSpec` (property
`KeepsPromise`: every step of the deque is a step of the promise).

Abstractions that hold everywhere: text, models, paths and priorities' origin
are members of small sets; time is a set of requests or flags ("its deadline has
passed", "the backoff is running", "the idle budget is spent") that may change
at any moment; formatting and logging are left out. A handle is the number of
the launch it was made for (`WorkerManager`), a pipe of the client the number of
the host process behind it (`WarmupLink`), or a value that the system may hand
out again once closed (`Connections`).

## 3. Runs

| Run | What it checks | Bounds and why they are enough |
|---|---|---|
| `manager_pool` | claims, eviction against claims, the memory total, how a relay mark goes stale (`StaleMarkIsOvertaken`), which process handles are closed (`DroppedIsDead`) | two translate families of different sizes, two callers, two launches per family: a holder of an earlier launch, a sibling, and a family whose charge moves meanwhile; callers are symmetric |
| `manager_live` | types, handles, stop snapshots; every stop and the shutdown end | one translate family and the speech family (driven without claims), two launches, one warmup hold |
| `scheduler` | nothing lost, the promise of `SchedulerSpec` (best first, only droppable requests discarded), `HeldByBetterOnly`: a request waits for ever only if better ones are admitted before it for ever | requests without end, three at a time, on two slots, raw priorities below, at and above the clamp: one more than fits, and always one to come |
| `dispatch_one` | `WindowIsExclusive`: own answers only, Busy only inside a window; own aborts only | a v1 job, a v2 job and a preload on one family; the worker may die once and is not launched again |
| `dispatch_solo` | answers belong to jobs, relay marks, taken jobs are answered if no wait for `opened` lasts for ever | two v1 jobs in a row, three launches, two deaths |
| `worker_safety` | one terminal event, own aborts, relayed model, last frame | two jobs, one relay, one heartbeat, aborts that name the session or nothing |
| `worker_live` | `JobsAndWorkerEnd`: jobs end, both threads leave | two jobs and one frame that breaks the protocol |
| `connections` | `EpochsAreCurrent`: the epoch names the client, the v1 queue is of the living; one answer; an answer for those who stay and read | a v1 and a v2 client that use the slot one after the other, two requests each, room for one in each queue |
| `speech_relay` | `SlotIsHeld`: the claim is held by an open or a running relay, which has its connection; `RecordsFollowConnections`: a record goes with its connection, and before it by a `session_close` only; `SlotIsFreed` | two connections, two opens, one worker death: an owner, its successor on the same slot, and a close or teardown between them; either may close the other's record |
| `clipboard` | `UserContentKept`: once tasks rest, the user's latest copy is there; `StaleNeverReturns`: no step puts an older copy over a newer one | one paste task and one drag task one after the other, two copies of the user, two chords per capture, three lost accesses (both restores of a paste and its write); copies at the places `Calm` names, see below |
| `enter_pipeline` | no word is lost, doubled or reordered; none is translated twice; synthetic keys go to the control whose Enter was taken; no live selection is left behind; the worker gets free | a chat and an editor in windows of their own, two words and a line break each, three Enters, two focus changes, one retyped word: the ledger meets its own paste, an edited one and another control's |
| `host_client` | `OnDevice`: a request made without consent never reaches the cloud; `AnswerIsOwn`; `Settles`: jobs are served, the exit ends, the warmup connection follows | one worker; two inputs (jobs, changes of the engine or another client's frames), two launches of the host, one mishap of it (a death or such a frame), one retry on the same session or on the next host |

`MaxGen`, `MaxDeaths`, `MaxWarm`, `MaxOpens`, `MaxBeats`, `MaxBroken` bound
counters the code does not bound, `MaxWords` ... `MaxEdits`, `MaxCopies` and `MaxInputs` what a user does; `MaxMishaps` deaths of the host and frames of other clients; `MaxLadder` the rungs of the back-off up to its cap; `MaxQueue`, `Depth` are the code's own limits
made small (both 8 in the code: the v1 queue admits one more than its constant,
and so does the model). Every run says `CHECK_DEADLOCK FALSE`, for each system
here really stops: the host shuts down, a worker process ends, a client has no
more requests.

`dispatch_one` and `dispatch_solo` leave out, one each, an ingredient of the
refuted claims of section 5 (a second family, a sibling while a dead worker is
launched again): they show what the design delivers without it, and the
violations what happens with it. The same holds for `SingleFlight` and
`EvictionSparesJobs`, which exempt a launch that was released by the holder of
an earlier one (`tainted`); `SingleFlightAlways` is the claim without the
exemption. So do `clipboard` and `enter_pipeline`: the user copies before
and after a task, while the engine translates and up to the paste's write, and
between the decision to restore and the restore (`Calm`), not between an own
write and its stamp; the user
leaves a window only while nothing runs or while the engine translates
(`WhileTranslating`), does not type into a text that is being worked on
(`TypesAhead`), and has no second control in the window. The configurations of
section 5 take these away one by one. `host_client` leaves out nothing of the
kind, but lets a worker sleep through its stop, as the code does, and a result with
the right id that another client's request was given end an attempt.

Fairness. Liveness is checked under `FairSpec` only.

- manager: the stopping thread takes its next step outside the mutex
  (`StopUnlocked`) and gets the mutex for those inside in the end (`StopLocked`,
  strong fairness, since other callers come and go with it); a handshake ends, as
  its two waits have timeouts.
- dispatchers: the threads take their next step and deadlines pass. The worker
  owes nothing, not even an answer to an abort, and need not be launched; one
  whose reader beats while its model hangs keeps the relay's wait open, which
  `TakenIsAnswered` has as its hypothesis and `RelayWaitEnds` as a claim (section 5).
- worker: both threads run; loads, decodes and writes end (a decode has its
  wall-clock budget, a write on a broken pipe fails). The host owes nothing.
- scheduler: the dispatcher's loop keeps popping, and requests need not stop
  coming. Nobody calls `ReaperPass`, so it is not fair.
- connections: dispatchers and writers run (a write is bounded by 15 s in the
  code, after which its answer is lost); clients owe nothing and the slots' own progress is not assumed.
- speech relay: each connection thread takes its next step of an open or a
  teardown, or leaves the loop once its client is gone (one condition per
  thread), the relay thread takes its steps and the worker serves or dies; a
  client that stays owes nothing.
- Enter pipeline: the worker thread takes its steps; the user owes nothing.
- host client: requests and workers run, as each wait has a timeout; one that
  waits for the engine's lock gets it in the end (strong, others come and go);
  the warmup thread runs, and a host that can be launched, connected and greeted
  again and again is so at last. A host owes a request no answer.

## 4. Proofs

`WorkerManager_proofs` proves, for every set of models and callers, every bound
and every deployment, under the assumptions named in `WorkerManager` (the
default model is one of the models, the speech family is not, the null values
are outside their sets, a model's size is positive):

| Theorem | Statement |
|---|---|
| `Invariance` | the inductive invariant `IInv` |
| `TypeCorrect` | `TypeOK` |
| `HandlesCorrect` | no handle leaked, no two launches mixed (`HandlesMatchState`) |
| `SnapshotCorrect` | what `GracefulStop` copied stays current without the mutex |
| `BusyCorrect` | a Busy family has an owner that will release it |
| `FlightCorrect` | two owners of one launch only after a foreign release |
| `EvictionCorrect` | an eviction never stops an owned launch (same exemption) |
| `ChargeCorrect` | a dead worker is charged only until the eviction's reset |
| `TrackerCorrect` | the reserved total is the sum of the entries' charges (`TrackerIsSum`) |
| `MarkCorrect` | a relay mark of an earlier launch comes to stand on a later one only by a caller whose own launch was replaced while it held the family (`StaleMarkIsOvertaken`, an action property) |
| `DroppedCorrect` | no handle of a running process is closed, save for a launch whose announce cannot be read (`DroppedIsDead`, an action property) |
| `UnavailableCorrect` | a wrong deployment is never started again (action property) |

Why the invariant is what it is. `HandlesMatchState` is not inductive: a step
of `EnsureSpawned` may fail after it made the handles, and a stop closes them
without having the mutex in between. `SpawnInv` says that at most one family is
`Spawning`, the one of the caller that holds the mutex, so no other step meets
half-made handles; `StopInv` says that a family is `Stopping` exactly while the
one stopping thread works on it, so nobody else finalises it. `OwnInv` ties
what a caller remembers (`own`, `acq`) to the launches made since: an acquired
launch is not newer than the family's latest, and while it is the latest the
family is Busy or was released by somebody else's release. With it `SingleFlight`
and `BusyIsOwned` become inductive. `PoolInv` adds that a model outside the pool
never ran and is charged nothing. `SawInv` says that what a caller read for a mark is a
launch not before the one it acquired, so where the two differ from the current one the
caller was overtaken; the launch itself clears the mark. `EndedInv` says that the process
a stop waited for is not running any more, which the stop's last step, in a later
critical section, relies on when it closes the handles. `TrackerInv` says that the
total is the number of bytes in a disjoint union, one block per entry, so a reset or a
charge of one entry moves the total by that entry's block and no sum has to be unfolded. The eviction theorem follows from
`OwnInv` and the `Stopping` state, the three action theorems from `IInv` and one
lemma each about a single step. Every lemma has one step per action of `Next`.

`HostClient_proofs` proves, for every set of workers, every set of settings made
of an engine and a consent, and every bound (`ClientAssumption`):

| Theorem | Statement |
|---|---|
| `Invariance` | the inductive invariant `IInv` |
| `DeviceCorrect` | a text goes to the cloud only under the settings its request was admitted under, and not once the host answered (`OnDevice`) |
| `AnswerCorrect` | what ends an attempt was written for its request, or is another client's result of the same id, or an error that was due before one (`AnswerIsOwn`, an action property) |

`OnDevice` is not inductive: a fallback must know that the request it sends was
not answered, so `CallInv` says where a request can be once it was (`done`, and
nowhere else), and that the snapshot it reads is there from its admission to its
return. `WireInv` says that a result's id is right unless the frame is another client's, and
that an error is never another's. It adds, as long as no such frame ended an attempt
(`OneAtATime`), that a session holds of its own nothing but the request that is read for, or its
answer, once: that is what closing the session at a timeout and at a broken pipe is for,
and why an error frame, which has no id, can be taken for the request's own. A stray
frame that is taken leaves the request behind it pending, and this is where the argument stops
(`OnlyOwnAnswers`, section 5).

`TranslateWorker_proofs` proves, for every set of jobs and of sessions an abort may
name, and every bound (`WorkerAssumption`):

| Theorem | Statement |
|---|---|
| `Invariance` | the inductive invariant `IInv` |
| `TerminalCorrect` | one terminal event per job, in the order sent (`OneTerminal`) |
| `CancelCorrect` | a decode is unwound only by an abort read while that job was in flight, or by the end of the process (`CancelIsOwn`) |
| `ModelCorrect` | once the host read its `opened`, decodes run on the relayed model (`RunsOnTold`) |
| `AckCorrect` | no frame follows `shutdown_ack` (`AckIsLast`, an action property) |

`OneTerminal` says something about the answers that were written; what keeps it is
where the job is before that. `JobInv` says that the one job the host waits for
is in one place at most: in the pipe, in the command slot, on the inference
thread, or answered and unread; each of these alone would let a superseded or
aborted job be answered twice. `AnswerInv` says that the answers so far are all older.
`CancelInv` ties `current` to the inference thread's steps and says that
between the reader's look and its store of `g_cancel` no other job can have begun:
nothing waits in the slot, and no job is about to arm. This is why the two
threads need no lock around the pair. `ModelInv` says that an `opened` on its way implies that
the relayed path is the active one, and that a decode has the active one loaded; `AckInv` that the
reader had left when the acknowledgement was written.

`AsrRelay_proofs` proves, for every set of connections, any wire ids (shared ones too),
any prune and every bound (`WireAssumption`, `BoundsAssumption`):

| Theorem | Statement |
|---|---|
| `Invariance` | the inductive invariant `IInv` |
| `SlotCorrect` | the speech slot is neither leaked nor shared (`SlotIsHeld`) |
| `RecordsInvariance` | the table's inductive invariant, and the types |
| `RecordsCorrect` | no record outlives its connection; what an open waits with or the claim streams under is taken from the table by a `session_close` only (`RecordsFollowConnections`) |

`ClaimInv` gives the claim an owner in each phase: the connection that opens, and
only one can; then the relay thread, whose connection is not past its join
while the thread runs. The second half is what the order of the teardown (stop, join, drain,
disown, free) is for: with the disowning before the join a slot could
be recycled under a relay that still writes to it.

The table is closed by number, from six places, and nothing in it says who may; the
handler of `session_close` takes any number of anyone (`CloseOther`). `IdInv` is what makes
the other five safe: an id is in one connection's hands at a time (the id of its open,
its teardown's plan, its claim), so a close of one's own number closes nobody else's
record, also after a stranger closed it first, as ids are not given out again. `RecInv`
says that a record is its opener's, `IsOpen` and `Stays` that a step keeps the record of an open that
waits and of the claim, unless it is such a close. The prune is written by rank and keeps
what is open (`PrunedLemma`, by the same counting as the scheduler's sort). What a
foreign close does to the open count is `StreamingIsCounted` (section 5).

`Clipboard_proofs` proves, for any set of tasks and any number of copies, chords and
lost accesses (`ClipboardAssumption`), what `Careful` leaves of the claims that
section 5 refutes: the user copies at the calm places of a task only, one task
runs at a time, a target serves a copy chord before its timeout.

| Theorem | Statement |
|---|---|
| `Invariance` | `Careful => (Spec => []IInv)` |
| `KeptCorrect` | once no task runs the user's latest copy is there (`UserContentKept`) |
| `StaleCorrect` | no step puts an older copy over a newer one (`StaleNeverReturns`, an action property) |

A task knows nothing but two numbers, so `OwnInv` says what they mean: a
task that still finds its stamp finds the selection, its translation, or a
snapshot that it put back itself; that is why the last restore, which replays
the older snapshot, can do so only over its own write. `KeptInv` says where the
latest copy is at each place: on the clipboard over an outdated stamp, or in the
snapshot that the task will put back. `ChordInv` is what the chord's wait
needs: between the sample and the confirmation only the target writes.

`EnterPipeline_proofs` proves, for any set of chats and editors and any bounds
(`PipelineAssumption`), again under a `Careful`: each control has a window of its
own, an editor minds `VK_RIGHT`, the hook does not run between the two stores of a
task's end, and the user does not change the focus from the Enter to the end of the
capture, nor in the send-through. The focus may change at every other place, the paste and the send gate
included, which is more than the run allows.

| Theorem | Statement |
|---|---|
| `Invariance` | `Careful => (Spec => []IInv)` |
| `KeysCorrect` | synthetic keys reach only the control whose Enter was taken (`KeysLandAtHome`) |
| `SelectionCorrect` | no task ends with a live selection where the user still is (`SelectionEnds`) |
| `TextInvariance` | `Careful => (Spec => [](IInv /\ TextInv))` |
| `WordsCorrect` | under `Settles`: every word is in its control or was sent from it, once and in order (`WordsSurvive`) |
| `OnceCorrect` | under `Waits`: no word is translated twice (`TranslatedOnce`) |

`TaskInv` follows the focus: a posted task is of the control in focus, the steps that
send keys without looking come before anyone can move, and those after the
translation look first. `SelInv` says that a selection is in the task's control while
that has the focus, or was left, so a release that is skipped because the focus is elsewhere
leaves nothing behind that the user did not leave.

The texts rest on `HeldInv`: from the capture to the paste the task's control holds the
captured line, selected, or its own user typed over it; nobody else can, as the focus is
looked at before every write. Then a paste puts back the very words it took, and
`Ordered` (the words of a control are numbered without a gap, in increasing order of their
positions) is preserved by each of the few things a step can do to a text: append
a word or a break, replace the whole by its translation, send it, retype its first word.
Order is stated over positions, not over a filtered sequence, so no induction over the
text is needed. `Settles` adds to `Careful` that the focus does not come back
between a release that was skipped and the send gate: the text is then still
selected when the gate's Enter arrives and in an editor the Enter replaces it (TLC finds this when
`Roams` has `"enter"`; section 5). `LedgerInv` says that what of a text was
translated is exactly what the ledger remembers, and lemma `Floor` that the block of a
verdict never begins inside it. `Waits` excludes typing into a held text, which
the paste puts aside. The run's user meets both hypotheses.

`Connections_proofs` proves first, for any v2 requests, raw priorities, sessions and depth
(`DepthAssumption`, `InputsAssumption`), about the queue alone
(`Connections` extends `Scheduler`; its `QueueSpec` lets callers use the queue in any way):

| Theorem | Statement |
|---|---|
| `SchedInvariance` | the inductive invariant `SchedInv` |
| `NothingLostCorrect` | who is told to wait is in the deque exactly once (`NothingLost`) |
| `PromiseKept` | `QueueSpec => KeepsPromise`: the deque implements the abstract queue of `SchedulerSpec` |

Sorting and erasing are written by rank: the n-th item has n - 1 before it
(`InOrder`). That such a list takes each position once, in the order, is
`InOrderLists`, by the pigeonhole principle on finite sets instead of an induction over the
sequence. `QueueInv` says that the deque is in dispatch order under distinct ids and
sequence numbers not drawn yet; sorting keeps the items of a sequence
(`SortedLemma`), erasing keeps the others (`WithoutLemma`). `Numbered` ties the
sequence number to the number of requests that asked, which is what the promise calls
a turn (`TurnLemma`). A refinement step has one case per action: each call under the
mutex maps to one `Arrive`, `Dispatch`, `Expire` or `Drop`, a passing deadline to a
stutter.

Then it proves about the host, for any number of slots, clients, requests, sessions and
handle values (`ClientsAssumption`, `IdsAssumption`; the run has one slot and four requests):

| Theorem | Statement |
|---|---|
| `HostUsesScheduler` | `Spec => QueueSpec`: what connection threads and dispatcher do to the queue is what `Scheduler` lets its callers do |
| `HostLosesNothing` | so nothing is lost in the host (`NothingLost`) |
| `Invariance` | the inductive invariant `IInv` |
| `EpochsCorrect` | an epoch that still matches names the client that asked; the v1 queue is of the living (`EpochsAreCurrent`) |
| `AnsweredCorrect` | no request is answered twice, nor to two clients (`AnsweredOnce`) |

`SlotInv` says what the epochs rest on: the epoch of a request is at most its slot's, and
below it as soon as the end of the session has passed its bump, which comes before the
pipe is closed and the slot is given to another client. `OnceInv` follows a request from place to
place: not read, in one of the two queues, in one dispatcher's hand, owed by one thread,
answered. Each way of ending a request (a dispatcher's answer, an expired deadline, a full
queue, a replacement, a closed session) takes it from one place only, which for the v2
queue is what `QueueInv` and `fate` say; `PlacesKept` is the argument all steps share.
`WriteInv` says that who is inside `WriteFrameImpl` owes an answer to that very slot, so no two
threads write one answer. None of this says who reads the answer: an
answer without an epoch may reach the slot's next client (section 5), once.

`HostDispatch_proofs` proves for any jobs, families, launches and deaths (`Calm` and
`OneRecord` below are hypotheses of a theorem where its row names them):

| Theorem | Under | Statement |
|---|---|---|
| `BusyCorrect` | - | types; a Busy family has a thread inside its window (`BusyHasWindow`) |
| `WindowsApart` | `Calm` | two threads are never inside windows of one family |
| `MarkedCorrect` | `Calm` | a launch marked as relayed has its model id (`MarkedIsTold`) |
| `Invariance` | both | the inductive invariant `IInv` |
| `WindowCorrect` | both | nothing but a thread's own job in the worker it reads (`WindowIsExclusive`) |
| `GiveUpCorrect` | both | a job is given up for its own deadline or cancel (`GiveUpIsOwn`) |
| `PairedCorrect` | both | no client gets another client's text (`Paired`) |
| `SettleCorrect` | both | a settle discards its own job's terminal event (`SettleIsOwn`) |
| `CalmRuns` | - | `MaxGen = 1 \/ Solo => (Spec => [][Calm]_vars)` |

The five properties are false of the program as it is (section 5), so the theorems say
exactly when they hold. `[][Calm]_vars` says of an execution that no step launches a family while
a thread is inside a window of it, unless each family has jobs of one thread only (`Solo`).
A launch from the wait loop is such a step: it leaves the family Ready, and a sibling takes
it. `OneRecord` says of the constants that V1 and V2 have no jobs of different families: they
would share `g_current` and `g_abort`. `CalmRuns` shows that the executions of both runs are calm
(`dispatch_one` has `MaxGen = 1`, `dispatch_solo` jobs of one thread), so the theorems contain
what the runs check; each hypothesis alone allows more than the runs do.

Why the invariant is what it is. `Base` ties a thread to its job, a family to its process
and needs no hypothesis. `Held` says that a family with an open window is Busy or Crashed, so
nobody else can acquire it: with it `Exclusive` is inductive. Then a step of one thread
disturbs no other one inside a window (`Alone`), and one lemma keeps what the others
know (`OthersFine`); what remains is a thread's own step. `Tidy` says that, until the shutdown, a sent job is at
one place (the slot, the inference thread or the pipe) while its thread waits and that the
family of a thread that does not wait is clean: this is what makes the first terminal event
of the next job its own. `Named` keeps `g_current` and with it the v1 loop's exit on
`done`, and `AbortOwn` follows the abort flag from its clearing on.

Model-checked only: all liveness (`HeldByBetterOnly`, `StayersAreAnswered` and the other
properties with a leads-to), which these provers cannot do.

## 5. Claims of the sources that TLC refutes

Each is what a comment of the code says; the quoted lines are in `PROJECT.json`.
All have a configuration beside them (`tlc -config <cfg> <MC module>`; a
configuration that serves several claims names them in its first lines) and a
property of that name in the module. None is a run.

| Claim | Configuration | What happens |
|---|---|---|
| `Paired`: the two dispatchers' windows never overlap, so `g_current` is safe to share | `HostDispatchClaims`, two families | claims are per family; the v2 dispatcher closes the record of the v1 job of another family, whose dispatcher abandons it |
| `NoForeignAnswer`: a recycled slot never receives an answer to the previous client | `ConnectionsForeign` | a discarded request of a client that left is told busy on the slot's new client |
| `SingleFlightAlways` | `WorkerManagerForeignRelease` | a release after a relaunch frees somebody else's claim |
| `RelayNamesServingLaunch` | `WorkerManagerStaleMark` | the mark is stored with a handle that was read without a lock; a crash and a relaunch in between leave an old handle on the new launch |
| `RunningIsCharged` | `WorkerManagerEvictReset` | the eviction's reset runs after a new launch was charged |
| `AsrLeavesPoolAlone` | `WorkerManagerAsr` | a stalled speech worker resets a translate model's charge |
| `GiveUpIsOwn` with a sibling and a relaunch | `HostDispatchClaims` | one `g_abort` for both loops |
| `SettleIsOwn` | `HostDispatchClaims` | a settle reads the pipe of the sibling's launch |
| `MarkedIsTold` with a sibling and a relaunch | `HostDispatchClaims` | the handle is read again after the acknowledgement |
| `RelayWaitEnds` | `HostDispatchClaims` | each other frame renews the whole grace, so a worker that beats but never opens is waited for without end |
| `ExpiredAreAnswered` | `SchedulerStarves` | expired requests are answered at the head of the queue only, which better ones may hold for ever |
| `EvictsOldest` | `SchedulerOldest` | the first droppable request in dispatch order goes, not the oldest |
| `QueuedAbortHonored` | `TranslateWorkerClaims` | the host's abort names session 0, no job does |
| `FailedSwapKeepsModel` | `TranslateWorkerClaims` | the resident model is unloaded before the new one is tried |
| `MissingIsSaid` | `TranslateWorkerClaims` | an old timeout latch answers for a missing model |
| `ShutdownUnwinds` | `TranslateWorkerClaims` | the cancel of a shutdown is cleared at the start of the next job |
| `SentJobsEnd` | `TranslateWorkerClaims` | a frame completed as the read slice ends is dropped |
| `OneJoiner`, `TeardownEnds` | `AsrRelayClaims` | the relay thread is joined after the mutex was let go, while another connection may assign it anew |
| `RefusedWhileBusy` | `AsrRelayClaims` | the grace's loop leaves when the owner is gone, without trying once more |
| `DrainsTerminal` | `AsrRelayClaims` | the drain stops at the first frame that is no heartbeat |
| `OpenedIsOwn`, `HearsItself` | `AsrRelayClaims` | the wire session is pinned by the client, so an old `opened` or an old result fits the next open |
| `InLockstep` | `AsrRelayClaims` | a frame of somebody else goes between the two sends of a feed |
| `StreamingIsCounted` | `AsrRelayClaims` | a `session_close` of that number by anyone closes the record of a session that streams on |
| `RecordsInIdOrder` | `AsrRelayClaims` | ids are drawn before the mutex is taken |
| `EmptyReturns`, `LatestReturns` | `Clipboard` | an empty clipboard is not armed for the restore; the last fallback replays the older snapshot |
| `StaleNeverReturns`, `UserContentKept` with a copy at any moment | `ClipboardClaims` | the stamp of an own write is sampled after the write and takes the user's copy for it |
| `KeysLandAtHome` with two controls of one window | `EnterPipelineClaims` | the send gate compares windows, not controls |
| `WordsSurvive` with a user who is back at the send gate | `EnterPipelineClaims` | the release was skipped, so the Enter replaces a selected text |
| `WordsSurvive` with `Torn` | `EnterPipelineClaims` | the second store at the end of a task clears the target of the next one |
| `SelectionEnds` with `Drops` | `EnterPipelineClaims` | only the identity arm consumes a rescued selection before the release |
| `StreakSurfaces` | `EnterPipeline` | each capture resets the failure streak, which so never reaches its threshold |
| `OnlyOwnAnswers` | `HostClientClaims` | every client counts its ids from 1, and the host may write a former client's result to the slot |
| `NoStartAfterExit` | `HostClientClaims` | the fallback does not look at the cancel |
| `StopsAlways` | `HostClientClaims` | the stop is notified without the mutex, between the look and the block |
| `CancelCovers` | `HostClientClaims` | a write or read that begins just after the cancel is not cancelled |
| `FirstRung` | `HostClientClaims` | the back-off is doubled before it is used |

## 6. What is not modelled

Numerical inference, text shaping, HTTP, drawing, parsing of wire frames and
configuration files, the handshake's token, durations (a 30 s handshake under
the manager's mutex stalls every family; the models have no clock), the host's
idle exit and the reaper's heartbeat branch, what becomes of a worker whose announce cannot be
read (it runs on without an owner), and in `Connections` the error exits of a
session (they end it like a leaving client), clients that name a session of
somebody else in a request, and slots used at the same time (one slot is
recycled in the run; the module itself has any number).

In the application: hot keys, IME composition, double Ctrl+C and the drag's
geometry; edit-control messages, with which the pipeline reads the caret of
some programs instead of copying; modals, sounds and surfaces; the OpenAI leg,
the repair signal and the v2 bootstrap query; a wait that fails
(`WAIT_FAILED`). The memory gate is one decision per model at start-up.
Downloads, the update check and the settings file are threads of one, whose
hard part is the file system; installer and tools are outside the program.

## 7. Plan

Done: the host (`WorkerManager`, `Scheduler`, `HostDispatch`, `TranslateWorker`,
`Connections` and `AsrRelay`) and the application's core (`Clipboard`, `EnterPipeline`
and `HostClient`), all with proofs: every invariant and action property the runs check is a theorem. Left, in this order:

1. The hooks' hot keys and IME state above `EnterPipeline`.
2. The memory gate and pool registration: the decision at registration against
   the launches that follow, as operators checked over bounded inputs.
3. Download and settings: fetch, verify, replace; the atomic save.
4. Two-slot runs of `Connections` (a session closed by another client, a handle
   value used again by another slot), which have millions of states and wait for
   a reduction.
