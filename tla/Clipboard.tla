------------------------------ MODULE Clipboard ------------------------------
(***************************************************************************)
(* The clipboard under the app's tasks (src/win32_input.cpp, the scopes of  *)
(* src/worker.cpp and of the drag path in src/main.cpp).  A task snapshots  *)
(* the user's clipboard, lets the target window copy its selection over it, *)
(* pastes a translation through it, and puts the snapshot back - while the  *)
(* user goes on copying.  Nothing is locked across the steps: the only      *)
(* evidence a task has is the system's write counter, sampled at the        *)
(* snapshot and after each write the task makes.                            *)
(*                                                                         *)
(* User contents are numbered in the order they were copied (0 is the one   *)
(* at the start), so "latest" is the content a user expects to find.        *)
(* Exposed lists the places of a task at which the user may copy; the       *)
(* configuration that exposes every place refutes the claims of the         *)
(* comments, see ClipboardClaims.cfg.                                       *)
(***************************************************************************)
EXTENDS Naturals, FiniteSets

CONSTANTS Pipelines,     \* tasks of the Enter pipeline: capture, translate, paste
          Drags,         \* tasks of the drag icon: capture and restore
          MaxCopies,     \* bound: copies the user makes
          MaxBlocks,     \* bound: times OpenClipboard is lost to another program
          MaxChords,     \* copy chords a capture sends before it gives up
          Exposed,       \* places of a task at which the user may copy
          Late,          \* a target may commit a copy after the chord's timeout
          Overlap,       \* the two workers may run at once
          Selection, Translation   \* what a target, and a paste, write

ASSUME ClipboardAssumption ==
    /\ Pipelines \cap Drags = {} /\ Pipelines \cup Drags # {}
    /\ MaxCopies \in Nat /\ MaxBlocks \in Nat /\ MaxChords \in Nat \ {0}
    /\ Late \in BOOLEAN /\ Overlap \in BOOLEAN
    /\ Selection \notin Nat /\ Translation \notin Nat

VARIABLES clip,       \* the live content
          seq,        \* GetClipboardSequenceNumber()
          latest,     \* the user's last copy
          kind,       \* what each user content is made of
          own,        \* ClipboardTaskScope.own_write_seq_ of each task
          snap,       \* the task's pre-task snapshot
          target,     \* the snapshot PasteAndRestore puts back
          base,       \* the sequence sampled before the chord
          chords,     \* chords sent in this capture
          inflight,   \* tasks whose chord the target still has to serve
          try,        \* which restore is running
          pasted,     \* the translation reached the clipboard
          pc,         \* where each task is
          blocked     \* the accesses that lost OpenClipboard so far

vars == <<clip, seq, latest, kind, own, snap, target, base, chords, inflight,
          try, pasted, pc, blocked>>

Tasks == Pipelines \cup Drags
Copies == 0..MaxCopies
Kinds == {"text", "gdi", "empty"}
Contents == Copies \cup {Selection, Translation}
Tries == {"first", "second", "exit"}
Accesses == {"backup", "stash", "write"} \cup Tries
Places == {"idle", "backup", "chord", "waiting", "translate", "rebaseline",
           "write", "stamp", "decide", "open", "restamp", "done"}
Snapshots == [ok : BOOLEAN, of : Contents, at : Nat]

NoSnapshot == [ok |-> FALSE, of |-> 0, at |-> 0]
TakeSnapshot == [ok |-> TRUE, of |-> clip, at |-> seq]

\* Handle-based (GDI) formats and an empty clipboard leave nothing to replay.
Payload(s) == s.ok /\ (s.of \in Copies => kind[s.of] = "text")
WasEmpty(s) == s.ok /\ s.of \in Copies /\ kind[s.of] = "empty"

Armed(t) == IF t \in Drags THEN snap[t].ok ELSE Payload(snap[t])

\* Mutant of IsOwnWrite: a task that wrote once goes on believing it wrote last.
WroteOnce(t) == own[t] # 0

IsOwnWrite(t) == own[t] # 0 /\ seq = own[t]

Decision(t, s) ==
    CASE ~Payload(s) -> "SkipEmptyBackup"
      [] Payload(s) /\ seq = s.at -> "AlreadyIntact"
      [] Payload(s) /\ seq # s.at /\ ~IsOwnWrite(t) -> "SkipForeignWrite"
      [] OTHER -> "Restore"

\* The ladder, or the emptying of a clipboard that was empty at the start.
MayWrite(t, s) == Decision(t, s) = "Restore" \/ (WasEmpty(s) /\ IsOwnWrite(t))

Source(t) == IF try[t] = "exit" THEN snap[t] ELSE target[t]

Init ==
    /\ kind \in [Copies -> Kinds]
    /\ clip = 0 /\ seq = 1 /\ latest = 0 /\ blocked = {} /\ inflight = {}
    /\ own = [t \in Tasks |-> 0]
    /\ snap = [t \in Tasks |-> NoSnapshot]
    /\ target = [t \in Tasks |-> NoSnapshot]
    /\ base = [t \in Tasks |-> 0]
    /\ chords = [t \in Tasks |-> 0]
    /\ try = [t \in Tasks |-> "exit"]
    /\ pasted = [t \in Tasks |-> FALSE]
    /\ pc = [t \in Tasks |-> "idle"]

GoTo(t, place) == pc' = [pc EXCEPT ![t] = place]
WriteClip(content) == clip' = content /\ seq' = seq + 1

\* ScopedClipboard loses the open to another program for its whole budget.
Contended(access) ==
    /\ Cardinality(blocked) < MaxBlocks
    /\ access \notin blocked
    /\ blocked' = blocked \cup {access}

-----------------------------------------------------------------------------
\* The user copies, in a program or with the tooltip's button.
UserCopy ==
    /\ latest < MaxCopies
    /\ \A t \in Tasks : pc[t] \in Exposed
    /\ latest' = latest + 1
    /\ WriteClip(latest + 1)
    /\ UNCHANGED <<kind, own, snap, target, base, chords, inflight, try, pasted, pc, blocked>>

Begin(t) ==
    /\ pc[t] = "idle"
    /\ Overlap \/ \A u \in Tasks : pc[u] \in {"idle", "done"}
    /\ GoTo(t, "backup")
    /\ own' = [own EXCEPT ![t] = 0]
    /\ UNCHANGED <<clip, seq, latest, kind, snap, target, base, chords, inflight, try, pasted, blocked>>

BackupClipboard(t) ==
    /\ pc[t] = "backup"
    /\ \/ /\ Contended("backup")
          /\ UNCHANGED snap
       \/ /\ snap' = [snap EXCEPT ![t] = TakeSnapshot]
          /\ UNCHANGED blocked
    /\ GoTo(t, "chord")
    /\ UNCHANGED <<clip, seq, latest, kind, own, target, base, chords, inflight, try, pasted>>

\* The target may have no selection: then the chord changes nothing.
CopyChord(t) ==
    /\ pc[t] = "chord"
    /\ base' = [base EXCEPT ![t] = seq]
    /\ chords' = [chords EXCEPT ![t] = @ + 1]
    /\ inflight' \in {inflight, inflight \cup {t}}
    /\ GoTo(t, "waiting")
    /\ UNCHANGED <<clip, seq, latest, kind, own, snap, target, try, pasted, blocked>>

TargetCopies(t) ==
    /\ t \in inflight
    /\ pc[t] = "waiting" \/ Late
    /\ inflight' = inflight \ {t}
    /\ WriteClip(Selection)
    /\ UNCHANGED <<latest, kind, own, snap, target, base, chords, try, pasted, pc, blocked>>

\* A task leaves through its scope-exit restore, or past it when not armed.
LeaveFrom(t) ==
    /\ try' = [try EXCEPT ![t] = "exit"]
    /\ GoTo(t, IF Armed(t) THEN "decide" ELSE "done")

\* Any change of the counter confirms the chord, whoever wrote.
CopyConfirmed(t) ==
    /\ pc[t] = "waiting" /\ seq # base[t]
    /\ own' = [own EXCEPT ![t] = seq]
    /\ \/ t \in Drags /\ LeaveFrom(t)
       \/ t \in Pipelines /\ GoTo(t, "translate") /\ UNCHANGED try
    /\ UNCHANGED <<clip, seq, latest, kind, snap, target, base, chords, inflight, pasted, blocked>>

CopyGivesUp(t) ==
    /\ pc[t] = "waiting" /\ seq = base[t]
    /\ t \in inflight => Late
    /\ \/ chords[t] < MaxChords /\ GoTo(t, "chord") /\ UNCHANGED try
       \/ chords[t] >= MaxChords /\ LeaveFrom(t)
    /\ UNCHANGED <<clip, seq, latest, kind, own, snap, target, base, chords, inflight, pasted, blocked>>

\* No translation, or the window is no longer the target's: nothing is written.
AbortTask(t) ==
    /\ pc[t] = "translate"
    /\ LeaveFrom(t)
    /\ UNCHANGED <<clip, seq, latest, kind, own, snap, target, base, chords, inflight, pasted, blocked>>

PasteBegins(t) ==
    /\ pc[t] = "translate"
    /\ GoTo(t, "rebaseline")
    /\ UNCHANGED <<clip, seq, latest, kind, own, snap, target, base, chords, inflight, try, pasted, blocked>>

-----------------------------------------------------------------------------
\* Mutant of TaskSeq: the sequence is sampled again instead of remembered.
SeqNow(t) == IF own[t] # 0 THEN seq ELSE snap[t].at

\* The sequence the task believes in: its own write, or the snapshot's.
TaskSeq(t) == IF own[t] # 0 THEN own[t] ELSE snap[t].at

\* A foreign write seen before the paste is snapshotted and becomes what the
\* paste puts back; when it cannot be, the pre-task snapshot stays.
RebaselineClipboardBeforePaste(t) ==
    /\ pc[t] = "rebaseline"
    /\ \/ /\ TaskSeq(t) # 0 /\ seq # TaskSeq(t) /\ Payload(TakeSnapshot)
          /\ target' = [target EXCEPT ![t] = TakeSnapshot]
          /\ UNCHANGED blocked
       \/ /\ TaskSeq(t) # 0 /\ seq # TaskSeq(t)
          /\ Contended("stash")
          /\ target' = [target EXCEPT ![t] = snap[t]]
       \/ /\ \/ TaskSeq(t) = 0 \/ seq = TaskSeq(t) \/ ~Payload(TakeSnapshot)
          /\ target' = [target EXCEPT ![t] = snap[t]]
          /\ UNCHANGED blocked
    /\ GoTo(t, "write")
    /\ UNCHANGED <<clip, seq, latest, kind, own, snap, base, chords, inflight, try, pasted>>

SetClipboardText(t) ==
    /\ pc[t] = "write"
    /\ \/ /\ Contended("write")
          /\ GoTo(t, "decide")
          /\ try' = [try EXCEPT ![t] = "first"]
          /\ UNCHANGED <<clip, seq>>
       \/ /\ WriteClip(Translation)
          /\ GoTo(t, "stamp")
          /\ UNCHANGED <<blocked, try>>
    /\ UNCHANGED <<latest, kind, own, snap, target, base, chords, inflight, pasted>>

\* The stamp is sampled after the clipboard is closed; then Ctrl+V goes out.
NoteOwnClipboardWrite(t) ==
    /\ pc[t] = "stamp"
    /\ own' = [own EXCEPT ![t] = seq]
    /\ pasted' = [pasted EXCEPT ![t] = TRUE]
    /\ try' = [try EXCEPT ![t] = "first"]
    /\ GoTo(t, "decide")
    /\ UNCHANGED <<clip, seq, latest, kind, snap, target, base, chords, inflight, blocked>>

\* What follows a restore: a retry, the end, or the scope exit.
AfterRestore(t, confirmed) ==
    CASE try[t] = "first" /\ ~confirmed ->
             GoTo(t, "decide") /\ try' = [try EXCEPT ![t] = "second"]
      [] try[t] \in {"first", "second"} /\ confirmed /\ pasted[t] ->
             GoTo(t, "done") /\ UNCHANGED try
      [] try[t] = "exit" -> GoTo(t, "done") /\ UNCHANGED try
      [] OTHER -> LeaveFrom(t)

RestoreDecides(t) ==
    /\ pc[t] = "decide"
    /\ \/ MayWrite(t, Source(t)) /\ GoTo(t, "open") /\ UNCHANGED try
       \/ /\ ~MayWrite(t, Source(t))
          /\ AfterRestore(t, Decision(t, Source(t)) = "AlreadyIntact")
    /\ UNCHANGED <<clip, seq, latest, kind, own, snap, target, base, chords, inflight, pasted, blocked>>

\* The decision is taken again under the open clipboard.
RestoreClipboard(t) ==
    /\ pc[t] = "open"
    /\ \/ /\ Contended(try[t])
          /\ AfterRestore(t, FALSE)
          /\ UNCHANGED <<clip, seq>>
       \/ /\ MayWrite(t, Source(t))
          /\ WriteClip(Source(t).of)
          /\ GoTo(t, "restamp")
          /\ UNCHANGED <<blocked, try>>
       \/ /\ ~MayWrite(t, Source(t))
          /\ AfterRestore(t, Decision(t, Source(t)) = "AlreadyIntact")
          /\ UNCHANGED <<clip, seq, blocked>>
    /\ UNCHANGED <<latest, kind, own, snap, target, base, chords, inflight, pasted>>

RestoreIsNoted(t) ==
    /\ pc[t] = "restamp"
    /\ own' = [own EXCEPT ![t] = seq]
    /\ AfterRestore(t, TRUE)
    /\ UNCHANGED <<clip, seq, latest, kind, snap, target, base, chords, inflight, pasted, blocked>>

Next ==
    \/ UserCopy
    \/ \E t \in Tasks :
        \/ Begin(t) \/ BackupClipboard(t) \/ CopyChord(t) \/ TargetCopies(t)
        \/ CopyConfirmed(t) \/ CopyGivesUp(t) \/ AbortTask(t) \/ PasteBegins(t)
        \/ RebaselineClipboardBeforePaste(t) \/ SetClipboardText(t)
        \/ NoteOwnClipboardWrite(t) \/ RestoreDecides(t) \/ RestoreClipboard(t)
        \/ RestoreIsNoted(t)

Spec == Init /\ [][Next]_vars

-----------------------------------------------------------------------------
TypeOK ==
    /\ clip \in Contents /\ seq \in Nat /\ latest \in Copies
    /\ kind \in [Copies -> Kinds]
    /\ own \in [Tasks -> Nat] /\ base \in [Tasks -> Nat]
    /\ snap \in [Tasks -> Snapshots] /\ target \in [Tasks -> Snapshots]
    /\ chords \in [Tasks -> 0..MaxChords] /\ inflight \subseteq Tasks
    /\ try \in [Tasks -> Tries] /\ pasted \in [Tasks -> BOOLEAN]
    /\ pc \in [Tasks -> Places] /\ blocked \subseteq Accesses

AtRest == \A t \in Tasks : pc[t] \in {"idle", "done"}

\* Once no task runs, the clipboard holds the user's latest copy - the one
\* made before the task or the one made while it translated - when that copy
\* can be replayed at all, and though a paste's write or one of its restores
\* lost the clipboard to another program (win32_input.cpp:2338-2372,
\* worker.cpp:306-332).
UserContentKept ==
    /\ TypeOK
    /\ (AtRest /\ kind[latest] = "text" /\ blocked \subseteq {"write", "first"})
           => clip = latest

\* No step of a task replaces a copy of the user by an older one: a restore
\* that was decided on before the user copied sees it and backs off
\* (win32_input.cpp:1028-1037), and a copy already there is only displaced by a
\* write that puts it back.  However often the clipboard is lost to others.
StaleNeverReturns ==
    [][({clip, clip'} \subseteq Copies) => clip' >= clip]_clip

\* Claimed of the scope-exit guard ("always restored upon any early return",
\* worker.cpp:306-307); a clipboard that was empty is not armed, so a task that
\* gives up after its copy chord leaves the selection behind.
EmptyReturns ==
    (AtRest /\ kind[latest] = "empty" /\ latest = 0 /\ blocked = {}) => clip = latest

\* Claimed of the re-baseline ("the user's LATEST copy is re-published instead
\* of the pre-task snapshot", win32_input.cpp:2335-2337); when both restores of
\* the paste lose the clipboard, the scope exit replays the pre-task snapshot.
LatestReturns ==
    (AtRest /\ kind[latest] = "text" /\ blocked \subseteq {"write", "first", "second"})
        => clip = latest
=============================================================================
