-------------------------- MODULE Clipboard_proofs --------------------------
(***************************************************************************)
(* Proof about Clipboard: for any set of tasks and any number of copies,     *)
(* chords and lost accesses, a user who copies at the calm places of a task   *)
(* finds the latest copy again, and no step puts an older copy over a newer   *)
(* one.  Careful is what TLC's counterexamples to the unconditional claims    *)
(* leave: no copy between a write of the task and its stamp, none under the   *)
(* copy chord, one task at a time, and chords that are served in time.        *)
(***************************************************************************)
EXTENDS Clipboard, TLAPS

Careful ==
    /\ Exposed \subseteq {"idle", "backup", "translate", "rebaseline", "decide", "open", "done"}
    /\ ~Late /\ ~Overlap

Quiet(t) == pc[t] \in {"idle", "done"}
Restoring(t) == pc[t] \in {"decide", "open"}

TypeInv ==
    /\ TypeOK
    /\ \A t \in Tasks : pc[t] \in {"idle", "backup", "chord"} => chords[t] < MaxChords

Alone == \A t, u \in Tasks : Quiet(t) \/ Quiet(u) \/ t = u

\* Samples are of the past, and so is what they were sampled with.
StampInv ==
    /\ seq > 0 /\ (clip \in Copies => clip <= latest)
    /\ \A t \in Tasks :
        /\ own[t] <= seq
        /\ \A s \in {snap[t], target[t]} : s.of \in Copies => s.of <= latest
        /\ pc[t] \in {"idle", "backup", "chord", "waiting"} => own[t] = 0
        /\ pc[t] \in {"translate", "rebaseline", "write"} => own[t] > 0

\* While a chord is under way only the target writes.
ChordInv ==
    \A t \in Tasks :
        /\ t \in inflight => pc[t] = "waiting" /\ seq = base[t]
        /\ pc[t] = "waiting" /\ seq # base[t] => clip = Selection

\* A task that still finds its stamp finds what it wrote.
OwnInTask(t) ==
    /\ pc[t] \in {"translate", "rebaseline", "write"} /\ own[t] = seq => clip = Selection
    /\ pc[t] = "write" /\ own[t] = seq => target[t] = snap[t]
    /\ pc[t] = "stamp" => clip = Translation
    /\ Restoring(t) /\ own[t] = seq /\ clip \in Copies => try[t] = "exit" /\ clip = snap[t].of
    /\ Restoring(t) /\ own[t] = seq /\ try[t] # "exit" /\ ~pasted[t] => target[t] = snap[t]
    /\ pc[t] = "restamp" =>
         clip = Source(t).of /\ (try[t] # "exit" /\ ~pasted[t] => target[t] = snap[t])

OwnInv == \A t \in Tasks : OwnInTask(t)

\* The user's latest copy is on the clipboard, or in the snapshot that the task
\* will put back.
OnTop(t) == clip = latest /\ own[t] < seq
Holds(s) == s.ok /\ s.of = latest /\ s.at <= seq
Held(s) == Holds(s) /\ s.at # seq

KeptInTask(t) ==
    /\ Quiet(t) /\ (\A u \in Tasks : Quiet(u)) => clip = latest
    /\ pc[t] = "backup" => clip = latest
    /\ pc[t] = "chord" => clip = latest /\ Holds(snap[t])
    /\ pc[t] = "waiting" => Holds(snap[t]) /\ (seq = base[t] => clip = latest)
                             /\ (seq # base[t] => snap[t].at # seq)
    /\ pc[t] \in {"translate", "rebaseline"} => OnTop(t) \/ (own[t] = seq /\ Held(snap[t]))
    /\ pc[t] = "write" => Holds(target[t]) /\ (OnTop(t) \/ (own[t] = seq /\ Held(snap[t])))
    /\ pc[t] = "stamp" => Held(target[t])
    /\ Restoring(t) => OnTop(t) \/ (own[t] = seq /\ Held(Source(t)))
    /\ pc[t] = "restamp" => Held(Source(t))

KeptInv ==
    kind[latest] = "text" /\ blocked \subseteq {"write", "first"} => \A t \in Tasks : KeptInTask(t)

IInv == TypeInv /\ Alone /\ StampInv /\ ChordInv /\ OwnInv /\ KeptInv

-----------------------------------------------------------------------------

\* Facts about the data.
LEMMA Constants ==
    /\ MaxCopies \in Nat /\ MaxChords \in Nat \ {0}
    /\ Selection \notin Copies /\ Translation \notin Copies
BY ClipboardAssumption DEF Copies

LEMMA SnapshotType == TypeOK => TakeSnapshot \in Snapshots
BY DEF TypeOK, TakeSnapshot, Snapshots

LEMMA ContendedType ==
    ASSUME TypeOK, NEW a \in Accesses, Contended(a)
    PROVE  blocked' \subseteq Accesses
BY DEF TypeOK, Contended

\* Where a task goes after a restore.
LEMMA RestoreGoes ==
    ASSUME TypeOK, NEW u \in Tasks, NEW yes, AfterRestore(u, yes)
    PROVE  \/ pc' = [pc EXCEPT ![u] = "decide"] /\ try' = [try EXCEPT ![u] = "second"]
               /\ try[u] = "first" /\ ~yes
           \/ pc' = [pc EXCEPT ![u] = "done"] /\ try' = try /\ (try[u] = "exit" \/ (yes /\ pasted[u]))
           \/ pc' = [pc EXCEPT ![u] = "decide"] /\ try' = [try EXCEPT ![u] = "exit"] /\ try[u] # "exit"
               /\ (yes => ~pasted[u])
           \/ pc' = [pc EXCEPT ![u] = "done"] /\ try' = [try EXCEPT ![u] = "exit"] /\ ~Armed(u)
BY Zenon DEF AfterRestore, LeaveFrom, GoTo, TypeOK, Tries

\* Only one task moves, and the others are quiet.
LEMMA OneTask ==
    ASSUME TypeOK, Alone, NEW u \in Tasks, ~Quiet(u), NEW p, pc' = [pc EXCEPT ![u] = p]
    PROVE  /\ OwnInTask(u)' => OwnInv'
           /\ KeptInTask(u)' => \A t \in Tasks : KeptInTask(t)'
<1>1. \A t \in Tasks : t # u => pc'[t] \in {"idle", "done"} /\ Quiet(t)'
  BY DEF Alone, Quiet
<1>2. ASSUME NEW t \in Tasks, t # u PROVE OwnInTask(t)'
  BY <1>1, <1>2 DEF OwnInTask, Restoring
<1>3. ASSUME NEW t \in Tasks, t # u, KeptInTask(u)' PROVE KeptInTask(t)'
  BY <1>1, <1>3 DEF KeptInTask, Restoring
<1> QED
  BY <1>2, <1>3 DEF OwnInv

\* A restore goes ahead while the task finds its stamp, and backs off after a copy.
LEMMA Decides ==
    ASSUME IInv, NEW u \in Tasks, Restoring(u), KeptInTask(u), kind[latest] = "text"
    PROVE  \/ OnTop(u) /\ ~MayWrite(u, Source(u))
           \/ own[u] = seq /\ Held(Source(u)) /\ MayWrite(u, Source(u))
<1>1. CASE OnTop(u)
  BY <1>1 DEF IInv, TypeInv, TypeOK, OnTop, MayWrite, Decision, IsOwnWrite
<1>2. CASE own[u] = seq /\ Held(Source(u))
  <2>1. seq > 0 /\ IsOwnWrite(u)
    BY <1>2 DEF IInv, StampInv, IsOwnWrite
  <2>2. Payload(Source(u)) /\ seq # Source(u).at
    BY <1>2 DEF Held, Holds, Payload
  <2> QED
    BY <1>2, <2>1, <2>2 DEF MayWrite, Decision
<1> QED
  BY <1>1, <1>2 DEF KeptInTask

\* Types, and the chords that are left.
LEMMA TypeLemma ==
    ASSUME Careful, IInv, [Next]_vars
    PROVE  TypeInv'
<1> USE Constants DEF IInv, TypeInv, Quiet, Restoring, Copies
<1>1. CASE UserCopy
  BY <1>1 DEF UserCopy, WriteClip, TypeOK, Contents
<1>2. CASE UNCHANGED vars
  BY <1>2 DEF vars, TypeOK
<1>3. ASSUME NEW u \in Tasks, Begin(u) PROVE TypeInv'
  BY <1>3 DEF Begin, GoTo, TypeOK, Places
<1>4. ASSUME NEW u \in Tasks, BackupClipboard(u) PROVE TypeInv'
  <2>1. snap' \in [Tasks -> Snapshots] /\ blocked' \subseteq Accesses
    BY <1>4, SnapshotType, ContendedType DEF BackupClipboard, TypeOK, Accesses
  <2> QED
    BY <1>4, <2>1 DEF BackupClipboard, GoTo, TypeOK, Places
<1>5. ASSUME NEW u \in Tasks, CopyChord(u) PROVE TypeInv'
  BY <1>5 DEF CopyChord, GoTo, TypeOK, Places
<1>6. ASSUME NEW u \in Tasks, TargetCopies(u) PROVE TypeInv'
  BY <1>6 DEF TargetCopies, WriteClip, TypeOK, Contents
<1>7. ASSUME NEW u \in Tasks, CopyConfirmed(u) PROVE TypeInv'
  BY <1>7 DEF CopyConfirmed, GoTo, LeaveFrom, TypeOK, Tries, Places
<1>8. ASSUME NEW u \in Tasks, CopyGivesUp(u) PROVE TypeInv'
  BY <1>8 DEF CopyGivesUp, GoTo, LeaveFrom, TypeOK, Tries, Places
<1>9. ASSUME NEW u \in Tasks, AbortTask(u) PROVE TypeInv'
  BY <1>9 DEF AbortTask, GoTo, LeaveFrom, TypeOK, Tries, Places
<1>10. ASSUME NEW u \in Tasks, PasteBegins(u) PROVE TypeInv'
  BY <1>10 DEF PasteBegins, GoTo, TypeOK, Places
<1>11. ASSUME NEW u \in Tasks, RebaselineClipboardBeforePaste(u) PROVE TypeInv'
  <2>1. target' \in [Tasks -> Snapshots] /\ blocked' \subseteq Accesses
    BY <1>11, SnapshotType, ContendedType DEF RebaselineClipboardBeforePaste, TypeOK, Accesses
  <2> QED
    BY <1>11, <2>1 DEF RebaselineClipboardBeforePaste, GoTo, TypeOK, Places
<1>12. ASSUME NEW u \in Tasks, SetClipboardText(u) PROVE TypeInv'
  <2>1. blocked' \subseteq Accesses
    BY <1>12, ContendedType DEF SetClipboardText, TypeOK, Accesses
  <2>2. CASE GoTo(u, "decide") /\ try' = [try EXCEPT ![u] = "first"] /\ UNCHANGED <<clip, seq>>
    BY <1>12, <2>1, <2>2 DEF SetClipboardText, GoTo, TypeOK, Places, Tries
  <2>3. CASE WriteClip(Translation) /\ GoTo(u, "stamp") /\ try' = try
    BY <1>12, <2>1, <2>3 DEF SetClipboardText, WriteClip, GoTo, TypeOK, Places, Contents
  <2> QED
    BY <1>12, <2>2, <2>3 DEF SetClipboardText
<1>13. ASSUME NEW u \in Tasks, NoteOwnClipboardWrite(u) PROVE TypeInv'
  BY <1>13 DEF NoteOwnClipboardWrite, GoTo, TypeOK, Tries, Places
<1>14. ASSUME NEW u \in Tasks, RestoreDecides(u) PROVE TypeInv'
  <2>1. CASE pc' = [pc EXCEPT ![u] = "open"] /\ try' = try
    BY <1>14, <2>1 DEF RestoreDecides, TypeOK, Places
  <2>2. CASE AfterRestore(u, Decision(u, Source(u)) = "AlreadyIntact")
    BY <1>14, <2>2, RestoreGoes DEF RestoreDecides, TypeOK, Places, Tries
  <2> QED
    BY <1>14, <2>1, <2>2 DEF RestoreDecides, GoTo
<1>15. ASSUME NEW u \in Tasks, RestoreClipboard(u) PROVE TypeInv'
  <2>1. CASE Contended(try[u]) /\ AfterRestore(u, FALSE) /\ UNCHANGED <<clip, seq>>
    <3>1. try[u] \in Accesses
      BY DEF TypeOK, Accesses
    <3>2. blocked' \subseteq Accesses
      BY <2>1, <3>1, ContendedType
    <3> QED
      BY <1>15, <2>1, <3>2, RestoreGoes DEF RestoreClipboard, TypeOK, Places, Tries
  <2>2. CASE WriteClip(Source(u).of) /\ GoTo(u, "restamp") /\ UNCHANGED <<blocked, try>>
    <3>1. Source(u) \in Snapshots
      BY DEF Source, TypeOK
    <3> QED
      BY <1>15, <2>2, <3>1 DEF RestoreClipboard, WriteClip, GoTo, TypeOK, Places, Snapshots
  <2>3. CASE AfterRestore(u, Decision(u, Source(u)) = "AlreadyIntact")
              /\ UNCHANGED <<clip, seq, blocked>>
    BY <1>15, <2>3, RestoreGoes DEF RestoreClipboard, TypeOK, Places, Tries
  <2> QED
    BY <1>15, <2>1, <2>2, <2>3 DEF RestoreClipboard
<1>16. ASSUME NEW u \in Tasks, RestoreIsNoted(u) PROVE TypeInv'
  BY <1>16 DEF RestoreIsNoted, GoTo, AfterRestore, LeaveFrom, TypeOK, Tries, Places
<1> QED
  BY <1>1, <1>2, <1>3, <1>4, <1>5, <1>6, <1>7, <1>8, <1>9, <1>10, <1>11, <1>12, <1>13, <1>14,
      <1>15, <1>16 DEF Next

\* One task runs at a time.
LEMMA AloneLemma ==
    ASSUME Careful, IInv, [Next]_vars
    PROVE  Alone'
<1> USE DEF IInv, Alone, Quiet, Restoring, Copies
<1>1. CASE UserCopy
  BY <1>1 DEF UserCopy
<1>2. CASE UNCHANGED vars
  BY <1>2 DEF vars
<1>3. ASSUME NEW u \in Tasks, Begin(u) PROVE Alone'
  BY <1>3 DEF Begin, GoTo, Careful
<1>4. ASSUME NEW u \in Tasks, BackupClipboard(u) PROVE Alone'
  BY <1>4 DEF BackupClipboard, GoTo
<1>5. ASSUME NEW u \in Tasks, CopyChord(u) PROVE Alone'
  BY <1>5 DEF CopyChord, GoTo
<1>6. ASSUME NEW u \in Tasks, TargetCopies(u) PROVE Alone'
  BY <1>6 DEF TargetCopies
<1>7. ASSUME NEW u \in Tasks, CopyConfirmed(u) PROVE Alone'
  BY <1>7 DEF CopyConfirmed, GoTo, LeaveFrom, TypeInv, TypeOK
<1>8. ASSUME NEW u \in Tasks, CopyGivesUp(u) PROVE Alone'
  BY <1>8 DEF CopyGivesUp, GoTo, LeaveFrom, TypeInv, TypeOK
<1>9. ASSUME NEW u \in Tasks, AbortTask(u) PROVE Alone'
  BY <1>9 DEF AbortTask, GoTo, LeaveFrom
<1>10. ASSUME NEW u \in Tasks, PasteBegins(u) PROVE Alone'
  BY <1>10 DEF PasteBegins, GoTo
<1>11. ASSUME NEW u \in Tasks, RebaselineClipboardBeforePaste(u) PROVE Alone'
  BY <1>11 DEF RebaselineClipboardBeforePaste, GoTo
<1>12. ASSUME NEW u \in Tasks, SetClipboardText(u) PROVE Alone'
  BY <1>12 DEF SetClipboardText, GoTo, TypeInv, TypeOK
<1>13. ASSUME NEW u \in Tasks, NoteOwnClipboardWrite(u) PROVE Alone'
  BY <1>13 DEF NoteOwnClipboardWrite, GoTo
<1>14. ASSUME NEW u \in Tasks, RestoreDecides(u) PROVE Alone'
  <2>1. pc[u] = "decide" /\ TypeOK
    BY <1>14 DEF RestoreDecides, TypeInv
  <2>2. \E p \in {"open", "decide", "done"} : pc' = [pc EXCEPT ![u] = p]
    BY <1>14, <2>1, RestoreGoes DEF RestoreDecides, GoTo
  <2> QED
    BY <2>1, <2>2 DEF TypeOK
<1>15. ASSUME NEW u \in Tasks, RestoreClipboard(u) PROVE Alone'
  BY <1>15 DEF RestoreClipboard, GoTo, AfterRestore, LeaveFrom, TypeInv, TypeOK
<1>16. ASSUME NEW u \in Tasks, RestoreIsNoted(u) PROVE Alone'
  BY <1>16 DEF RestoreIsNoted, GoTo, AfterRestore, LeaveFrom, TypeInv, TypeOK
<1> QED
  BY <1>1, <1>2, <1>3, <1>4, <1>5, <1>6, <1>7, <1>8, <1>9, <1>10, <1>11, <1>12, <1>13, <1>14,
      <1>15, <1>16 DEF Next

\* Stamps are of the past.
LEMMA StampLemma ==
    ASSUME Careful, IInv, [Next]_vars
    PROVE  StampInv'
<1> USE Constants DEF IInv, StampInv, Quiet, Restoring, Copies
<1>1. CASE UserCopy
  BY <1>1 DEF UserCopy, WriteClip, TypeInv, TypeOK
<1>2. CASE UNCHANGED vars
  BY <1>2 DEF vars
<1>3. ASSUME NEW u \in Tasks, Begin(u) PROVE StampInv'
  BY <1>3 DEF Begin, GoTo
<1>4. ASSUME NEW u \in Tasks, BackupClipboard(u) PROVE StampInv'
  BY <1>4 DEF BackupClipboard, GoTo, TypeInv, TypeOK, TakeSnapshot
<1>5. ASSUME NEW u \in Tasks, CopyChord(u) PROVE StampInv'
  BY <1>5 DEF CopyChord, GoTo
<1>6. ASSUME NEW u \in Tasks, TargetCopies(u) PROVE StampInv'
  BY <1>6 DEF TargetCopies, WriteClip, TypeInv, TypeOK
<1>7. ASSUME NEW u \in Tasks, CopyConfirmed(u) PROVE StampInv'
  BY <1>7 DEF CopyConfirmed, GoTo, LeaveFrom, TypeInv, TypeOK
<1>8. ASSUME NEW u \in Tasks, CopyGivesUp(u) PROVE StampInv'
  BY <1>8 DEF CopyGivesUp, GoTo, LeaveFrom, TypeInv, TypeOK
<1>9. ASSUME NEW u \in Tasks, AbortTask(u) PROVE StampInv'
  BY <1>9 DEF AbortTask, GoTo, LeaveFrom
<1>10. ASSUME NEW u \in Tasks, PasteBegins(u) PROVE StampInv'
  BY <1>10 DEF PasteBegins, GoTo
<1>11. ASSUME NEW u \in Tasks, RebaselineClipboardBeforePaste(u) PROVE StampInv'
  BY <1>11 DEF RebaselineClipboardBeforePaste, GoTo, TypeInv, TypeOK, TakeSnapshot
<1>12. ASSUME NEW u \in Tasks, SetClipboardText(u) PROVE StampInv'
  BY <1>12 DEF SetClipboardText, GoTo, WriteClip, TypeInv, TypeOK
<1>13. ASSUME NEW u \in Tasks, NoteOwnClipboardWrite(u) PROVE StampInv'
  BY <1>13 DEF NoteOwnClipboardWrite, GoTo, TypeInv, TypeOK
<1>14. ASSUME NEW u \in Tasks, RestoreDecides(u) PROVE StampInv'
  BY <1>14 DEF RestoreDecides, GoTo, AfterRestore, LeaveFrom, TypeInv, TypeOK
<1>15. ASSUME NEW u \in Tasks, RestoreClipboard(u) PROVE StampInv'
  <2>1. CASE AfterRestore(u, FALSE) /\ UNCHANGED <<clip, seq>> /\ Contended(try[u])
    BY <1>15, <2>1, RestoreGoes DEF RestoreClipboard, TypeInv, TypeOK
  <2>2. CASE MayWrite(u, Source(u)) /\ WriteClip(Source(u).of) /\ GoTo(u, "restamp")
              /\ UNCHANGED <<blocked, try>>
    BY <1>15, <2>2 DEF RestoreClipboard, WriteClip, GoTo, TypeInv, TypeOK, Source
  <2>3. CASE ~MayWrite(u, Source(u)) /\ AfterRestore(u, Decision(u, Source(u)) = "AlreadyIntact")
              /\ UNCHANGED <<clip, seq, blocked>>
    BY <1>15, <2>3, RestoreGoes DEF RestoreClipboard, TypeInv, TypeOK
  <2> QED
    BY <1>15, <2>1, <2>2, <2>3 DEF RestoreClipboard
<1>16. ASSUME NEW u \in Tasks, RestoreIsNoted(u) PROVE StampInv'
  BY <1>16 DEF RestoreIsNoted, GoTo, AfterRestore, LeaveFrom, TypeInv, TypeOK
<1> QED
  BY <1>1, <1>2, <1>3, <1>4, <1>5, <1>6, <1>7, <1>8, <1>9, <1>10, <1>11, <1>12, <1>13, <1>14,
      <1>15, <1>16 DEF Next

\* The chord's wait.
LEMMA ChordLemma ==
    ASSUME Careful, IInv, [Next]_vars
    PROVE  ChordInv'
<1> USE DEF IInv, ChordInv, Quiet, Restoring, Copies
<1>1. CASE UserCopy
  BY <1>1 DEF UserCopy, Careful
<1>2. CASE UNCHANGED vars
  BY <1>2 DEF vars
<1>3. ASSUME NEW u \in Tasks, Begin(u) PROVE ChordInv'
  BY <1>3 DEF Begin, GoTo
<1>4. ASSUME NEW u \in Tasks, BackupClipboard(u) PROVE ChordInv'
  BY <1>4 DEF BackupClipboard, GoTo
<1>5. ASSUME NEW u \in Tasks, CopyChord(u) PROVE ChordInv'
  BY <1>5 DEF CopyChord, GoTo, TypeInv, TypeOK
<1>6. ASSUME NEW u \in Tasks, TargetCopies(u) PROVE ChordInv'
  BY <1>6 DEF TargetCopies, WriteClip, Alone
<1>7. ASSUME NEW u \in Tasks, CopyConfirmed(u) PROVE ChordInv'
  BY <1>7 DEF CopyConfirmed, Alone
<1>8. ASSUME NEW u \in Tasks, CopyGivesUp(u) PROVE ChordInv'
  BY <1>8 DEF CopyGivesUp, GoTo, LeaveFrom, TypeInv, TypeOK, Careful
<1>9. ASSUME NEW u \in Tasks, AbortTask(u) PROVE ChordInv'
  BY <1>9 DEF AbortTask, GoTo, LeaveFrom
<1>10. ASSUME NEW u \in Tasks, PasteBegins(u) PROVE ChordInv'
  BY <1>10 DEF PasteBegins, GoTo
<1>11. ASSUME NEW u \in Tasks, RebaselineClipboardBeforePaste(u) PROVE ChordInv'
  BY <1>11 DEF RebaselineClipboardBeforePaste, GoTo
<1>12. ASSUME NEW u \in Tasks, SetClipboardText(u) PROVE ChordInv'
  BY <1>12 DEF SetClipboardText, GoTo, TypeInv, TypeOK, Alone
<1>13. ASSUME NEW u \in Tasks, NoteOwnClipboardWrite(u) PROVE ChordInv'
  BY <1>13 DEF NoteOwnClipboardWrite, GoTo
<1>14. ASSUME NEW u \in Tasks, RestoreDecides(u) PROVE ChordInv'
  BY <1>14 DEF RestoreDecides, GoTo, AfterRestore, LeaveFrom, TypeInv, TypeOK
<1>15. ASSUME NEW u \in Tasks, RestoreClipboard(u) PROVE ChordInv'
  <2>1. CASE AfterRestore(u, FALSE) /\ UNCHANGED <<clip, seq>> /\ Contended(try[u])
    BY <1>15, <2>1, RestoreGoes DEF RestoreClipboard, TypeInv, TypeOK, Alone
  <2>2. CASE MayWrite(u, Source(u)) /\ WriteClip(Source(u).of) /\ GoTo(u, "restamp")
              /\ UNCHANGED <<blocked, try>>
    BY <1>15, <2>2 DEF RestoreClipboard, GoTo, Alone
  <2>3. CASE ~MayWrite(u, Source(u)) /\ AfterRestore(u, Decision(u, Source(u)) = "AlreadyIntact")
              /\ UNCHANGED <<clip, seq, blocked>>
    BY <1>15, <2>3, RestoreGoes DEF RestoreClipboard, TypeInv, TypeOK, Alone
  <2> QED
    BY <1>15, <2>1, <2>2, <2>3 DEF RestoreClipboard
<1>16. ASSUME NEW u \in Tasks, RestoreIsNoted(u) PROVE ChordInv'
  BY <1>16 DEF RestoreIsNoted, GoTo, AfterRestore, LeaveFrom, TypeInv, TypeOK
<1> QED
  BY <1>1, <1>2, <1>3, <1>4, <1>5, <1>6, <1>7, <1>8, <1>9, <1>10, <1>11, <1>12, <1>13, <1>14,
      <1>15, <1>16 DEF Next

\* What is on the clipboard under a current stamp.
LEMMA OwnLemma ==
    ASSUME Careful, IInv, [Next]_vars
    PROVE  OwnInv'
<1> USE Constants DEF IInv, OwnInv, Quiet, Restoring, Copies
<1>1. CASE UserCopy
  BY <1>1 DEF UserCopy, WriteClip, Careful, OwnInTask, TypeInv, TypeOK, Careful, StampInv
<1>2. CASE UNCHANGED vars
  BY <1>2 DEF vars, OwnInTask, Source
<1>3. ASSUME NEW u \in Tasks, Begin(u) PROVE OwnInv'
  BY <1>3 DEF Begin, GoTo, OwnInTask, Source
<1>4. ASSUME NEW u \in Tasks, BackupClipboard(u) PROVE OwnInv'
  BY <1>4 DEF BackupClipboard, GoTo, OwnInTask, Alone
<1>5. ASSUME NEW u \in Tasks, CopyChord(u) PROVE OwnInv'
  BY <1>5 DEF CopyChord, GoTo, OwnInTask, Source
<1>6. ASSUME NEW u \in Tasks, TargetCopies(u) PROVE OwnInv'
  BY <1>6 DEF TargetCopies, OwnInTask, Alone, ChordInv
<1>7. ASSUME NEW u \in Tasks, CopyConfirmed(u) PROVE OwnInv'
  BY <1>7 DEF CopyConfirmed, GoTo, LeaveFrom, OwnInTask, TypeInv, TypeOK, ChordInv, Source
<1>8. ASSUME NEW u \in Tasks, CopyGivesUp(u) PROVE OwnInv'
  BY <1>8 DEF CopyGivesUp, GoTo, LeaveFrom, OwnInTask, TypeInv, TypeOK, StampInv, Source
<1>9. ASSUME NEW u \in Tasks, AbortTask(u) PROVE OwnInv'
  BY <1>9 DEF AbortTask, GoTo, LeaveFrom, OwnInTask, TypeInv, TypeOK, Source
<1>10. ASSUME NEW u \in Tasks, PasteBegins(u) PROVE OwnInv'
  BY <1>10 DEF PasteBegins, GoTo, OwnInTask, Source
<1>11. ASSUME NEW u \in Tasks, RebaselineClipboardBeforePaste(u) PROVE OwnInv'
  BY <1>11 DEF RebaselineClipboardBeforePaste, GoTo, OwnInTask, TypeInv, TypeOK, StampInv, Source,
      TaskSeq
<1>12. ASSUME NEW u \in Tasks, SetClipboardText(u) PROVE OwnInv'
  <2>1. OwnInTask(u)'
    BY <1>12 DEF SetClipboardText, GoTo, WriteClip, OwnInTask, TypeInv, TypeOK
  <2> QED
    BY <1>12, <2>1, OneTask DEF SetClipboardText, GoTo, TypeInv
<1>13. ASSUME NEW u \in Tasks, NoteOwnClipboardWrite(u) PROVE OwnInv'
  BY <1>13 DEF NoteOwnClipboardWrite, GoTo, OwnInTask, TypeInv, TypeOK, Source
<1>14. ASSUME NEW u \in Tasks, RestoreDecides(u) PROVE OwnInv'
  BY <1>14 DEF RestoreDecides, GoTo, AfterRestore, LeaveFrom, OwnInTask, TypeInv, TypeOK, Source
<1>15. ASSUME NEW u \in Tasks, RestoreClipboard(u) PROVE OwnInv'
  <2>1. CASE AfterRestore(u, FALSE) /\ UNCHANGED <<clip, seq>>
    <3>1. TypeOK /\ pc[u] = "open" /\ OwnInTask(u)
      BY <1>15 DEF RestoreClipboard, TypeInv
    <3>2. \E p : pc' = [pc EXCEPT ![u] = p]
      BY <2>1, <3>1, RestoreGoes
    <3>3. OwnInTask(u)'
      BY <1>15, <2>1, <3>1, RestoreGoes DEF RestoreClipboard, OwnInTask, TypeOK
    <3> QED
      BY <3>1, <3>2, <3>3, OneTask
  <2>2. CASE MayWrite(u, Source(u)) /\ WriteClip(Source(u).of) /\ GoTo(u, "restamp")
              /\ UNCHANGED <<blocked, try>>
    <3>1. OwnInTask(u)'
      BY <1>15, <2>2 DEF RestoreClipboard, WriteClip, GoTo, OwnInTask, TypeInv, TypeOK, Source,
          MayWrite, IsOwnWrite, Decision
    <3> QED
      BY <1>15, <2>2, <3>1, OneTask DEF RestoreClipboard, GoTo, TypeInv
  <2>3. CASE AfterRestore(u, Decision(u, Source(u)) = "AlreadyIntact") /\ UNCHANGED <<clip, seq>>
    <3>1. TypeOK /\ pc[u] = "open" /\ OwnInTask(u)
      BY <1>15 DEF RestoreClipboard, TypeInv
    <3>2. \E p : pc' = [pc EXCEPT ![u] = p]
      BY <2>3, <3>1, RestoreGoes
    <3>3. OwnInTask(u)'
      BY <1>15, <2>3, <3>1, RestoreGoes DEF RestoreClipboard, OwnInTask, TypeOK
    <3> QED
      BY <3>1, <3>2, <3>3, OneTask
  <2> QED
    BY <1>15, <2>1, <2>2, <2>3 DEF RestoreClipboard
<1>16. ASSUME NEW u \in Tasks, RestoreIsNoted(u) PROVE OwnInv'
  <2>1. TypeOK /\ AfterRestore(u, TRUE) /\ pc[u] = "restamp" /\ OwnInTask(u)
    BY <1>16 DEF RestoreIsNoted, TypeInv
  <2>2. \E p : pc' = [pc EXCEPT ![u] = p]
    BY <2>1, RestoreGoes
  <2>3. OwnInTask(u)'
    BY <1>16, <2>1, RestoreGoes DEF RestoreIsNoted, OwnInTask, TypeOK, Source
  <2> QED
    BY <2>1, <2>2, <2>3, OneTask
<1> QED
  BY <1>1, <1>2, <1>3, <1>4, <1>5, <1>6, <1>7, <1>8, <1>9, <1>10, <1>11, <1>12, <1>13, <1>14,
      <1>15, <1>16 DEF Next

\* Where the latest copy is.
LEMMA KeptLemma ==
    ASSUME Careful, IInv, [Next]_vars
    PROVE  KeptInv'
<1> USE Constants DEF IInv, KeptInv, Quiet, Restoring, Copies
<1>1. CASE UserCopy
  BY <1>1 DEF UserCopy, WriteClip, Careful, KeptInTask, TypeInv, TypeOK, Careful, StampInv, OnTop
<1>2. CASE UNCHANGED vars
  BY <1>2 DEF vars, KeptInTask, Source, Holds, Held, OnTop
<1>3. ASSUME NEW u \in Tasks, Begin(u) PROVE KeptInv'
  BY <1>3 DEF Begin, GoTo, KeptInTask, Careful
<1>4. ASSUME NEW u \in Tasks, BackupClipboard(u) PROVE KeptInv'
  <2> SUFFICES ASSUME (kind[latest] = "text" /\ blocked \subseteq {"write", "first"})'
               PROVE  \A t \in Tasks : KeptInTask(t)'
    OBVIOUS
  <2>1. /\ KeptInTask(u) /\ TypeOK
        /\ kind[latest] = "text" /\ blocked \subseteq {"write", "first"}
        /\ UNCHANGED <<kind, latest>>
    BY <1>4 DEF BackupClipboard, TypeInv, Contended
  <2>2. KeptInTask(u)'
    BY <1>4, <2>1 DEF BackupClipboard, GoTo, KeptInTask, TypeOK, Contended, TakeSnapshot, Holds
  <2> QED
    BY <1>4, <2>2, OneTask DEF BackupClipboard, GoTo, TypeInv
<1>5. ASSUME NEW u \in Tasks, CopyChord(u) PROVE KeptInv'
  BY <1>5 DEF CopyChord, GoTo, KeptInTask, TypeInv, TypeOK, Source, Holds, Held, OnTop
<1>6. ASSUME NEW u \in Tasks, TargetCopies(u) PROVE KeptInv'
  <2> SUFFICES ASSUME (kind[latest] = "text" /\ blocked \subseteq {"write", "first"})'
               PROVE  \A t \in Tasks : KeptInTask(t)'
    OBVIOUS
  <2>1. /\ KeptInTask(u) /\ TypeOK
        /\ kind[latest] = "text" /\ blocked \subseteq {"write", "first"}
        /\ UNCHANGED <<kind, latest>>
    BY <1>6 DEF TargetCopies, TypeInv
  <2>2. pc[u] = "waiting" /\ seq = base[u] /\ pc' = [pc EXCEPT ![u] = "waiting"]
    BY <1>6, <2>1 DEF TargetCopies, ChordInv, TypeOK
  <2>3. KeptInTask(u)'
    BY <1>6, <2>1, <2>2 DEF TargetCopies, WriteClip, KeptInTask, TypeOK, Holds, Snapshots
  <2> QED
    BY <2>1, <2>2, <2>3, OneTask
<1>7. ASSUME NEW u \in Tasks, CopyConfirmed(u) PROVE KeptInv'
  BY <1>7 DEF CopyConfirmed, GoTo, LeaveFrom, KeptInTask, TypeInv, TypeOK, Source, Armed, Holds,
      Held, OnTop
<1>8. ASSUME NEW u \in Tasks, CopyGivesUp(u) PROVE KeptInv'
  <2> SUFFICES ASSUME (kind[latest] = "text" /\ blocked \subseteq {"write", "first"})'
               PROVE  \A t \in Tasks : KeptInTask(t)'
    OBVIOUS
  <2>1. /\ KeptInTask(u) /\ TypeOK
        /\ kind[latest] = "text" /\ blocked \subseteq {"write", "first"}
        /\ UNCHANGED <<kind, latest>>
    BY <1>8 DEF CopyGivesUp, TypeInv
  <2>2. pc[u] = "waiting" /\ seq = base[u] /\ OnTop(u)
    BY <1>8, <2>1 DEF CopyGivesUp, KeptInTask, StampInv, OnTop
  <2>3. \E p \in {"chord", "decide", "done"} : pc' = [pc EXCEPT ![u] = p]
    BY <1>8 DEF CopyGivesUp, GoTo, LeaveFrom
  <2>4. KeptInTask(u)'
    BY <1>8, <2>1, <2>2, <2>3 DEF CopyGivesUp, KeptInTask, OnTop, Holds
  <2> QED
    BY <2>1, <2>2, <2>3, <2>4, OneTask
<1>9. ASSUME NEW u \in Tasks, AbortTask(u) PROVE KeptInv'
  BY <1>9 DEF AbortTask, GoTo, LeaveFrom, KeptInTask, TypeInv, TypeOK, Source, Payload, Armed,
      Holds, Held, OnTop
<1>10. ASSUME NEW u \in Tasks, PasteBegins(u) PROVE KeptInv'
  BY <1>10 DEF PasteBegins, GoTo, KeptInTask, Source, Holds, Held, OnTop
<1>11. ASSUME NEW u \in Tasks, RebaselineClipboardBeforePaste(u) PROVE KeptInv'
  <2> SUFFICES ASSUME (kind[latest] = "text" /\ blocked \subseteq {"write", "first"})'
               PROVE  \A t \in Tasks : KeptInTask(t)'
    OBVIOUS
  <2>1. /\ KeptInTask(u) /\ TypeOK
        /\ kind[latest] = "text" /\ blocked \subseteq {"write", "first"}
        /\ UNCHANGED <<kind, latest>>
    BY <1>11 DEF RebaselineClipboardBeforePaste, TypeInv, Contended
  <2>2. pc[u] = "rebaseline" /\ own[u] > 0 /\ own[u] <= seq
    BY <1>11 DEF RebaselineClipboardBeforePaste, StampInv
  <2>3. "stash" \notin blocked'
    OBVIOUS
  <2>4. KeptInTask(u)'
    <3>1. CASE OnTop(u)
      <4>1. TaskSeq(u) # 0 /\ seq # TaskSeq(u) /\ Payload(TakeSnapshot)
        BY <2>1, <2>2, <3>1 DEF OnTop, TaskSeq, TypeOK, Payload, TakeSnapshot
      <4>2. target' = [target EXCEPT ![u] = TakeSnapshot]
        BY <1>11, <4>1 DEF RebaselineClipboardBeforePaste, Contended
      <4> QED
        BY <1>11, <2>1, <3>1, <4>2 DEF RebaselineClipboardBeforePaste, GoTo, KeptInTask, TypeOK,
            TakeSnapshot, Holds, OnTop
    <3>2. CASE own[u] = seq /\ Held(snap[u])
      <4>1. target' = [target EXCEPT ![u] = snap[u]]
        BY <1>11, <2>2, <3>2 DEF RebaselineClipboardBeforePaste, TaskSeq
      <4> QED
        BY <1>11, <2>1, <3>2, <4>1 DEF RebaselineClipboardBeforePaste, GoTo, KeptInTask, TypeOK,
            Holds, Held
    <3> QED
      BY <2>1, <2>2, <3>1, <3>2 DEF KeptInTask
  <2> QED
    BY <1>11, <2>2, <2>4, OneTask DEF RebaselineClipboardBeforePaste, GoTo, TypeInv
<1>12. ASSUME NEW u \in Tasks, SetClipboardText(u) PROVE KeptInv'
  <2> SUFFICES ASSUME (kind[latest] = "text" /\ blocked \subseteq {"write", "first"})'
               PROVE  \A t \in Tasks : KeptInTask(t)'
    OBVIOUS
  <2>1. /\ KeptInTask(u) /\ TypeOK
        /\ kind[latest] = "text" /\ blocked \subseteq {"write", "first"}
        /\ UNCHANGED <<kind, latest>>
    BY <1>12 DEF SetClipboardText, TypeInv, Contended
  <2>2. pc[u] = "write" /\ Holds(target[u]) /\ OwnInTask(u)
    BY <1>12, <2>1 DEF SetClipboardText, KeptInTask, OwnInv
  <2>3. target[u] \in Snapshots
    BY <2>1 DEF TypeOK
  <2>4. KeptInTask(u)'
    <3>1. CASE GoTo(u, "decide") /\ try' = [try EXCEPT ![u] = "first"] /\ UNCHANGED <<clip, seq>>
      BY <1>12, <2>1, <2>2, <3>1 DEF SetClipboardText, GoTo, KeptInTask, OwnInTask, OnTop, Holds,
          Held, Source
    <3>2. CASE WriteClip(Translation) /\ GoTo(u, "stamp")
      BY <1>12, <2>1, <2>2, <2>3, <3>2 DEF SetClipboardText, WriteClip, GoTo, KeptInTask, TypeOK,
          Holds, Held, Snapshots
    <3> QED
      BY <1>12, <3>1, <3>2 DEF SetClipboardText
  <2> QED
    BY <1>12, <2>4, OneTask DEF SetClipboardText, GoTo, TypeInv
<1>13. ASSUME NEW u \in Tasks, NoteOwnClipboardWrite(u) PROVE KeptInv'
  BY <1>13 DEF NoteOwnClipboardWrite, GoTo, KeptInTask, TypeInv, TypeOK, Source, Holds, Held, OnTop
<1>14. ASSUME NEW u \in Tasks, RestoreDecides(u) PROVE KeptInv'
  BY <1>14 DEF RestoreDecides, GoTo, AfterRestore, LeaveFrom, KeptInTask, TypeInv, TypeOK,
      StampInv, Source, MayWrite, IsOwnWrite, Decision, Payload, Holds, Held, OnTop
<1>15. ASSUME NEW u \in Tasks, RestoreClipboard(u) PROVE KeptInv'
  <2> SUFFICES ASSUME (kind[latest] = "text" /\ blocked \subseteq {"write", "first"})'
               PROVE  \A t \in Tasks : KeptInTask(t)'
    OBVIOUS
  <2>1. /\ KeptInTask(u) /\ TypeOK /\ pc[u] = "open" /\ OwnInTask(u) /\ kind[latest] = "text"
        /\ UNCHANGED <<kind, latest, own, snap, target, pasted>>
    BY <1>15 DEF RestoreClipboard, TypeInv, OwnInv, Contended
  <2>2. \/ OnTop(u) /\ ~MayWrite(u, Source(u))
        \/ own[u] = seq /\ Held(Source(u)) /\ MayWrite(u, Source(u))
    BY <2>1, Decides
  <2>3. CASE Contended(try[u]) /\ AfterRestore(u, FALSE) /\ UNCHANGED <<clip, seq>>
    <3>1. try[u] = "first"
      BY <2>1, <2>3 DEF Contended, TypeOK, Tries
    <3>2. pc' = [pc EXCEPT ![u] = "decide"] /\ try' = [try EXCEPT ![u] = "second"]
      BY <3>1, <2>3 DEF AfterRestore, GoTo
    <3>3. KeptInTask(u)'
      BY <2>1, <2>2, <2>3, <3>1, <3>2 DEF KeptInTask, Source, OnTop, Held, Holds
    <3> QED
      BY <2>1, <3>2, <3>3, OneTask
  <2>4. CASE MayWrite(u, Source(u)) /\ WriteClip(Source(u).of) /\ GoTo(u, "restamp") /\ try' = try
    <3>1. Held(Source(u)) /\ Source(u) \in Snapshots /\ Source(u)' = Source(u)
      BY <2>1, <2>2, <2>4 DEF Source, TypeOK
    <3>2. Held(Source(u))'
      BY <2>1, <2>4, <3>1 DEF Held, Holds, WriteClip, Snapshots, TypeOK
    <3>3. KeptInTask(u)'
      BY <2>1, <2>4, <3>2 DEF GoTo, KeptInTask, TypeOK
    <3> QED
      BY <2>1, <2>4, <3>3, OneTask DEF GoTo
  <2>5. CASE ~MayWrite(u, Source(u)) /\ AfterRestore(u, Decision(u, Source(u)) = "AlreadyIntact")
              /\ UNCHANGED <<clip, seq>>
    <3>1. OnTop(u) /\ OnTop(u)'
      BY <2>1, <2>2, <2>5 DEF OnTop
    <3>2. \E p \in {"decide", "done"} : pc' = [pc EXCEPT ![u] = p]
      BY <2>1, <2>5, RestoreGoes
    <3>3. KeptInTask(u)'
      BY <2>1, <3>1, <3>2 DEF KeptInTask, OnTop
    <3> QED
      BY <2>1, <3>2, <3>3, OneTask
  <2> QED
    BY <1>15, <2>3, <2>4, <2>5 DEF RestoreClipboard
<1>16. ASSUME NEW u \in Tasks, RestoreIsNoted(u) PROVE KeptInv'
  <2> SUFFICES ASSUME (kind[latest] = "text" /\ blocked \subseteq {"write", "first"})'
               PROVE  \A t \in Tasks : KeptInTask(t)'
    OBVIOUS
  <2>1. /\ KeptInTask(u) /\ TypeOK /\ pc[u] = "restamp" /\ OwnInTask(u) /\ AfterRestore(u, TRUE)
        /\ own' = [own EXCEPT ![u] = seq] /\ UNCHANGED <<clip, seq, kind, latest, snap, target,
            pasted>>
    BY <1>16 DEF RestoreIsNoted, TypeInv, OwnInv
  <2>2. clip = latest /\ Held(Source(u))
    BY <1>16, <2>1 DEF KeptInTask, OwnInTask, Held, Holds
  <2>3. \/ pc' = [pc EXCEPT ![u] = "done"]
        \/ pc' = [pc EXCEPT ![u] = "decide"] /\ try' = [try EXCEPT ![u] = "exit"] /\ target[u] = snap[u]
    BY <2>1, RestoreGoes DEF OwnInTask
  <2>4. KeptInTask(u)'
    BY <2>1, <2>2, <2>3 DEF KeptInTask, TypeOK, Source, Held, Holds
  <2> QED
    BY <2>1, <2>3, <2>4, OneTask
<1> QED
  BY <1>1, <1>2, <1>3, <1>4, <1>5, <1>6, <1>7, <1>8, <1>9, <1>10, <1>11, <1>12, <1>13, <1>14,
      <1>15, <1>16 DEF Next

LEMMA InitLemma == Init => IInv
<1> SUFFICES ASSUME Init PROVE IInv
  OBVIOUS
<1> USE ClipboardAssumption DEF Init
<1>1. TypeInv
  BY DEF TypeInv, TypeOK, Contents, Copies, Snapshots, NoSnapshot, Tries, Places
<1>2. Alone /\ StampInv /\ ChordInv
  BY DEF Alone, Quiet, StampInv, ChordInv, NoSnapshot
<1>3. OwnInv /\ KeptInv
  BY DEF OwnInv, OwnInTask, KeptInv, KeptInTask, Restoring
<1> QED
  BY <1>1, <1>2, <1>3 DEF IInv

-----------------------------------------------------------------------------
\* What every step preserves, as long as the user and the tasks are careful.
THEOREM Invariance == Careful => (Spec => []IInv)
<1> SUFFICES ASSUME Careful PROVE Spec => []IInv
  OBVIOUS
<1>1. IInv /\ [Next]_vars => IInv'
  BY TypeLemma, AloneLemma, StampLemma, ChordLemma, OwnLemma, KeptLemma DEF IInv
<1> QED
  BY InitLemma, <1>1, PTL DEF Spec

\* Once no task runs, the user's latest copy is on the clipboard, though a
\* paste's write or one of its restores lost the clipboard (win32_input.cpp's
\* restore ladder, worker.cpp's scopes).
THEOREM KeptCorrect == Careful => (Spec => []UserContentKept)
<1> SUFFICES ASSUME Careful PROVE Spec => []UserContentKept
  OBVIOUS
<1>1. IInv => UserContentKept
  <2> SUFFICES ASSUME IInv, AtRest, kind[latest] = "text", blocked \subseteq {"write", "first"}
               PROVE  clip = latest
    BY DEF IInv, TypeInv, UserContentKept
  <2> QED
    BY ClipboardAssumption DEF IInv, KeptInv, KeptInTask, AtRest, Quiet, Tasks
<1> QED
  BY <1>1, Invariance, PTL

\* No step puts an older copy of the user over a newer one (RestoreClipboard's
\* second look at the counter, under the open clipboard).
THEOREM StaleCorrect == Careful => (Spec => StaleNeverReturns)
<1> SUFFICES ASSUME Careful PROVE Spec => StaleNeverReturns
  OBVIOUS
<1>1. ASSUME IInv, [Next]_vars PROVE [({clip, clip'} \subseteq Copies) => clip' >= clip]_clip
  <2> SUFFICES ASSUME clip \in Copies, clip' \in Copies, clip' # clip PROVE clip' >= clip
    OBVIOUS
  <2>1. /\ clip <= latest /\ clip \in Nat /\ latest \in Nat
       /\ {Selection, Translation} \cap Copies = {}
    BY <1>1, ClipboardAssumption DEF IInv, StampInv, TypeInv, TypeOK, Copies
  <2>2. CASE UserCopy
    BY <2>1, <2>2 DEF UserCopy, WriteClip
  <2>3. ASSUME NEW u \in Tasks, RestoreClipboard(u) PROVE clip' >= clip
    <3>1. clip' = Source(u).of /\ IsOwnWrite(u) /\ Restoring(u)
      BY <2>3 DEF RestoreClipboard, WriteClip, MayWrite, Decision, Restoring
    <3>2. Source(u) = snap[u] /\ clip = snap[u].of
      BY <1>1, <3>1 DEF IInv, OwnInv, OwnInTask, IsOwnWrite, Source
    <3> QED
      BY <2>1, <3>1, <3>2
  <2> QED
    BY <1>1, <2>1, <2>2, <2>3 DEF Next, vars, WriteClip, Begin, BackupClipboard, CopyChord,
        TargetCopies, CopyConfirmed, CopyGivesUp, AbortTask, PasteBegins,
        RebaselineClipboardBeforePaste, SetClipboardText, NoteOwnClipboardWrite, RestoreDecides,
        RestoreIsNoted
<1> QED
  BY <1>1, Invariance, PTL DEF Spec, StaleNeverReturns
=============================================================================
