---------------------------- MODULE EnterPipeline ----------------------------
(***************************************************************************)
(* What one Enter does (src/hook.cpp, the gate; src/worker.cpp, the task;    *)
(* CopySelectedText and PasteAndRestore of src/win32_input.cpp).  The hook    *)
(* takes the key and posts a task; the worker selects the text in front of    *)
(* the user, copies it, lets an engine translate what is new in it, pastes    *)
(* it back over its own selection and hands the Enter on - all by synthetic   *)
(* keys, which land in whatever control has the focus at that moment.  The    *)
(* user keeps typing, pressing Enter and changing windows meanwhile.          *)
(*                                                                         *)
(* A control's text is a sequence of words and line breaks; a word counts    *)
(* how often it was translated.  A chat (CategoryA) is emptied by Enter; an   *)
(* editor (CategoryB, no edit-control messages) gets a line break.  Roams     *)
(* lists the places of a task at which the user may change the focus.         *)
(***************************************************************************)
EXTENDS Naturals, Sequences, FiniteSets

CONSTANTS Chats, Editors,   \* controls of either kind
          Root(_),          \* the top-level window of a control
          NoControl,        \* the null HWND
          MaxWords,         \* bound: words typed into each control
          MaxBreaks,        \* bound: Shift+Enters
          MaxPresses,       \* bound: bare Enters
          MaxMoves,         \* bound: focus changes
          MaxEdits,         \* bound: words the user retypes
          Roams,            \* places of a task at which the focus may change
          TypesAhead,       \* the user types into a control whose task runs
          Torn,             \* the hook may run between the two stores that end a task
          Drops             \* an editor may ignore the VK_RIGHT that ends a selection

Controls == Chats \cup Editors

ASSUME PipelineAssumption ==
    /\ Chats \cap Editors = {} /\ NoControl \notin Controls
    /\ {MaxWords, MaxBreaks, MaxPresses, MaxMoves, MaxEdits} \subseteq Nat
    /\ {TypesAhead, Torn, Drops} \subseteq BOOLEAN

VARIABLES doc,      \* the text of each control
          sel,      \* controls whose whole text is selected
          sent,     \* what each chat has sent
          fg,       \* the control with the focus
          shiftK,   \* KeyboardHook::shift_enter_k_
          anchor,   \* KeyboardHook::k_anchor_hwnd_
          busy,     \* PipelineWorker::is_busy_
          home,     \* PipelineWorker::busy_target_hwnd_
          queue,    \* tasks posted and not begun
          task,     \* the task being executed
          pc,       \* where the worker is in it
          line,     \* the captured text
          rescued,  \* the capture came from the SelectAll rescue
          out,      \* the recomposed translation
          pasted,   \* it replaced the selection
          ledger,   \* last_paste_target_ and last_paste_canonical_
          failures, \* consecutive_engine_failures_
          auto,     \* AppConfig::auto_send
          typed,    \* words typed so far into each control
          used,     \* breaks, presses, moves and edits so far
          keys,     \* controls the running task has sent keys to
          left,     \* controls left while a task had them selected
          spoiled,  \* controls whose selection the user typed over
          aged,     \* controls edited, or whose ledger entry is gone
          failed    \* translations that failed since one succeeded

task_vars == <<task, line, rescued, out, pasted>>
engine_vars == <<failures, failed>>
user_vars == <<typed, used, auto>>
ghosts == <<left, spoiled, aged>>
vars == <<doc, sel, sent, fg, shiftK, anchor, busy, home, queue, pc, ledger,
          keys, task_vars, engine_vars, user_vars, ghosts>>

Break == [id |-> 0, n |-> 0]
Word(i) == [id |-> i, n |-> 0]
IsWord(x) == x # Break
WordsIn(s) == {i \in DOMAIN s : IsWord(s[i])}
Places == {"idle", "queued", "capture", "empty", "judge", "translate", "paste",
           "release", "enter", "consume", "send", "free", "freed"}
NoTask == [target |-> NoControl, k |-> 0]
NoLedger == [target |-> NoControl, text |-> <<>>]

\* The hook and the worker know windows by their top-level handle.
SameWindow(a, b) == a # NoControl /\ b # NoControl /\ Root(a) = Root(b)

Init ==
    /\ doc = [c \in Controls |-> <<>>] /\ sent = [c \in Controls |-> <<>>]
    /\ sel = {} /\ fg \in Controls
    /\ shiftK = 0 /\ anchor = NoControl
    /\ busy = FALSE /\ home = NoControl /\ queue = <<>> /\ pc = "idle"
    /\ task = NoTask /\ line = <<>> /\ rescued = FALSE /\ out = <<>> /\ pasted = FALSE
    /\ ledger = NoLedger
    /\ auto \in BOOLEAN /\ failures = 0 /\ failed = 0
    /\ typed = [c \in Controls |-> 0]
    /\ used = [breaks |-> 0, presses |-> 0, moves |-> 0, edits |-> 0]
    /\ keys = {} /\ left = {} /\ spoiled = {} /\ aged = {}

-----------------------------------------------------------------------------
\* Keys, as the control that gets them takes them.

Insert(c, s) == IF c \in sel THEN s ELSE doc[c] \o s
PutText(c, s) ==
    /\ doc' = [doc EXCEPT ![c] = Insert(c, s)]
    /\ sel' = sel \ {c}

\* Enter sends a chat's text; in an editor it is a line break like any text.
EnterKey(c) ==
    IF c \in Chats
    THEN /\ sent' = [sent EXCEPT ![c] = @ \o doc[c]]
         /\ doc' = [doc EXCEPT ![c] = <<>>]
         /\ sel' = sel \ {c}
    ELSE PutText(c, <<Break>>) /\ UNCHANGED sent

\* Mutant of Released: the selection is left as it is.
KeptSelected(c) == {sel}

\* VK_RIGHT ends the selection, where the control minds it.
Released(c) == {sel \ {c}} \cup (IF Drops /\ c \in Editors THEN {sel} ELSE {})

-----------------------------------------------------------------------------
\* The lines of a capture.

Breaks(s) == {i \in DOMAIN s : s[i] = Break}

\* Tokens before the last k + 1 lines; all of it is the block when it is shorter.
FindCurrentBlockStart(s, k) ==
    Cardinality({i \in DOMAIN s : Cardinality({j \in Breaks(s) : j >= i}) > k})

LastLogicalLine(s) == SubSeq(s, FindCurrentBlockStart(s, 0) + 1, Len(s))

\* A run of line breaks at the start of the block stays in front of it.
Swept(s, start) == Cardinality({i \in DOMAIN s : \A j \in start + 1 .. i : s[j] = Break})

IsPrefix(p, s) == Len(p) =< Len(s) /\ SubSeq(s, 1, Len(p)) = p

LedgerPresent == SameWindow(ledger.target, task.target) /\ ledger.text # <<>>
LedgerMatches == LedgerPresent /\ IsPrefix(ledger.text, line)
ExactMatch == LedgerPresent /\ line = ledger.text

\* A ledger the capture contradicts shrinks the block to the last line.
EffectiveSliceKForVerdict == IF LedgerPresent /\ ~LedgerMatches THEN 0 ELSE task.k

\* Mutant of F3BlockSliceRefine: the ledger's floor is left out.
F3SliceNoFloor == Swept(line, FindCurrentBlockStart(line, EffectiveSliceKForVerdict))

\* Where the text to translate starts: never inside what was pasted last.
F3BlockSliceRefine ==
    LET start == FindCurrentBlockStart(line, EffectiveSliceKForVerdict)
        floor == IF LedgerMatches /\ ~ExactMatch THEN Len(ledger.text) ELSE 0
    IN  Swept(line, IF start < floor THEN floor ELSE start)

DeadLedgerTailUnchanged ==
    /\ LedgerPresent /\ ~LedgerMatches
    /\ F3BlockSliceRefine > 0
    /\ SubSeq(line, F3BlockSliceRefine + 1, Len(line)) = LastLogicalLine(ledger.text)

\* Mutant of Recomposed: the prefix held verbatim is not put back.
RecomposedTail == SubSeq(line, F3BlockSliceRefine + 1, Len(line))

\* What the engine makes of the block, put behind the verbatim prefix.
Recomposed ==
    [i \in DOMAIN line |->
        IF i > F3BlockSliceRefine /\ IsWord(line[i])
        THEN [line[i] EXCEPT !.n = @ + 1] ELSE line[i]]

\* Text already in the target language bypasses; of a mixed text either is seen.
Bypasses ==
    {b \in BOOLEAN :
        LET ns == {line[i].n : i \in WordsIn(line)}
        IN  /\ ns = {0} => ~b
            /\ 0 \notin ns => b}

Identity == out = line /\ line # <<>>
-----------------------------------------------------------------------------
\* The user.

\* Lines counted for the block, 0 when another window had the last Shift+Enter.
BlockK == IF SameWindow(anchor, fg) THEN shiftK ELSE 0

Place == IF pc = "idle" /\ busy THEN "queued" ELSE pc
InFlight(c) == busy /\ home = c
MayType(c) == TypesAhead \/ ~InFlight(c)
Count(what) == used' = [used EXCEPT ![what] = @ + 1]
TypedOver(c) == spoiled' = IF c \in sel THEN spoiled \cup {c} ELSE spoiled

Type ==
    /\ typed[fg] < MaxWords /\ MayType(fg)
    /\ typed' = [typed EXCEPT ![fg] = @ + 1]
    /\ PutText(fg, <<Word(typed[fg] + 1)>>)
    /\ TypedOver(fg)
    /\ UNCHANGED <<sent, fg, shiftK, anchor, busy, home, queue, pc, ledger, keys,
                   task_vars, engine_vars, used, auto, left, aged>>

\* Shift+Enter is a line break everywhere, and one more line of the block.
ShiftEnter ==
    /\ used.breaks < MaxBreaks /\ MayType(fg)
    /\ Count("breaks")
    /\ shiftK' = BlockK + 1
    /\ anchor' = fg
    /\ PutText(fg, <<Break>>)
    /\ TypedOver(fg)
    /\ UNCHANGED <<sent, fg, busy, home, queue, pc, ledger, keys, task_vars, engine_vars,
                   typed, auto, left, aged>>

\* The user retypes the first word, in the source language again.
RetypeFirst ==
    /\ used.edits < MaxEdits /\ ~InFlight(fg) /\ fg \notin sel
    /\ doc[fg] # <<>> /\ IsWord(doc[fg][1]) /\ doc[fg][1].n > 0
    /\ Count("edits")
    /\ doc' = [doc EXCEPT ![fg][1].n = 0]
    /\ aged' = aged \cup {fg}
    /\ UNCHANGED <<sel, sent, fg, shiftK, anchor, busy, home, queue, pc, ledger,
                   keys, task_vars, engine_vars, typed, auto, left, spoiled>>

Move ==
    /\ used.moves < MaxMoves /\ Place \in Roams
    /\ Count("moves")
    /\ fg' \in Controls \ {fg}
    /\ left' = left \cup (sel \cap {fg})
    /\ UNCHANGED <<doc, sel, sent, shiftK, anchor, busy, home, queue, pc, ledger,
                   keys, task_vars, engine_vars, typed, auto, spoiled, aged>>

-----------------------------------------------------------------------------
\* The hook, on a bare Enter.  It consumes the block's count in any case.

EndsBlock ==
    /\ used.presses < MaxPresses
    /\ Torn \/ pc # "freed"
    /\ Count("presses")
    /\ shiftK' = 0 /\ anchor' = fg

PostTask ==
    /\ EndsBlock /\ ~busy
    /\ busy' = TRUE /\ home' = fg
    /\ queue' = Append(queue, [target |-> fg, k |-> BlockK])
    /\ UNCHANGED <<doc, sel, sent, fg, pc, ledger, keys, task_vars, engine_vars, typed, auto, ghosts>>

\* An Enter in the window whose task runs is dropped.
Suppressed ==
    /\ EndsBlock /\ busy /\ SameWindow(home, fg)
    /\ UNCHANGED <<doc, sel, sent, fg, busy, home, queue, pc, ledger, keys,
                   task_vars, engine_vars, typed, auto, ghosts>>

PassedThrough ==
    /\ EndsBlock /\ busy /\ ~SameWindow(home, fg)
    /\ EnterKey(fg)
    /\ spoiled' = IF fg \in sel \cap Editors THEN spoiled \cup {fg} ELSE spoiled
    /\ UNCHANGED <<fg, busy, home, queue, pc, ledger, keys, task_vars, engine_vars, typed,
                   auto, left, aged>>

-----------------------------------------------------------------------------
\* The worker.

GoTo(place) == pc' = place
Sends(cs) == keys' = keys \cup cs
Worker_frame == <<fg, shiftK, anchor, busy, home, user_vars, left, spoiled>>

BeginTask ==
    /\ pc = "idle" /\ queue # <<>>
    /\ task' = Head(queue) /\ queue' = Tail(queue)
    /\ line' = <<>> /\ out' = <<>> /\ rescued' = FALSE /\ pasted' = FALSE
    /\ keys' = {}
    /\ GoTo("capture")
    /\ UNCHANGED <<doc, sel, sent, ledger, aged, engine_vars, Worker_frame>>

\* A composition the flush could not end: the Enter is the input method's.
ImeBackstop ==
    /\ pc = "capture"
    /\ GoTo("send")
    /\ UNCHANGED <<doc, sel, sent, queue, ledger, keys, task_vars, aged, engine_vars, Worker_frame>>

\* Select-all and Ctrl+C, by an editor's rescue when its own chord was lost.
CopySelectedText ==
    /\ pc = "capture" /\ doc[fg] # <<>>
    /\ sel' = sel \cup {fg} /\ Sends({fg})
    /\ line' = doc[fg]
    /\ rescued' \in {FALSE} \cup {r \in BOOLEAN : task.target \in Editors}
    /\ GoTo("judge")
    /\ UNCHANGED <<doc, sent, queue, task, out, pasted, ledger, aged, engine_vars, Worker_frame>>

\* Nothing to copy, or no chord of the budget was answered.
CopyFails ==
    /\ pc = "capture"
    /\ sel' = IF doc[fg] = <<>> THEN sel ELSE sel \cup {fg}
    /\ Sends({fg})
    /\ GoTo("empty")
    /\ UNCHANGED <<doc, sent, queue, ledger, task_vars, aged, engine_vars, Worker_frame>>

\* The notice: the text stays, and no Enter is sent.
HoldEmpty ==
    /\ pc = "empty"
    /\ sel' \in Released(fg) /\ Sends({fg})
    /\ GoTo("free")
    /\ UNCHANGED <<doc, sent, queue, ledger, task_vars, aged, engine_vars, Worker_frame>>

\* Just after a paste, or when the clipboard had no text to tell: the Enter goes on.
SendEmpty ==
    /\ pc = "empty"
    /\ GoTo("send")
    /\ UNCHANGED <<doc, sel, sent, queue, ledger, keys, task_vars, aged, engine_vars, Worker_frame>>

NothingNew == ExactMatch \/ F3BlockSliceRefine = Len(line) \/ DeadLedgerTailUnchanged

\* A capture that is judged at all resets the streak of engine failures.
JudgeSendThrough ==
    /\ pc = "judge"
    /\ \/ NothingNew /\ UNCHANGED failures
       \/ TRUE \in Bypasses /\ failures' = 0
    /\ GoTo(IF rescued THEN "consume" ELSE "send")
    /\ UNCHANGED <<doc, sel, sent, queue, ledger, keys, task_vars, aged, failed, Worker_frame>>

JudgeTranslate ==
    /\ pc = "judge"
    /\ FALSE \in Bypasses /\ ~NothingNew
    /\ failures' = 0
    /\ GoTo("translate")
    /\ UNCHANGED <<doc, sel, sent, queue, ledger, keys, task_vars, aged, failed, Worker_frame>>

\* The captured text over its own selection, so that the Enter finds nothing
\* selected; not when the focus left or the clipboard could not be written.
Consume ==
    /\ pc = "consume"
    /\ \/ fg = task.target /\ PutText(fg, line) /\ Sends({fg})
       \/ UNCHANGED <<doc, sel, keys>>
    /\ GoTo("send")
    /\ UNCHANGED <<sent, queue, ledger, task_vars, aged, engine_vars, Worker_frame>>

\* No foreground check: the keys go where the focus is.
SendThroughWithNewlineTracking ==
    /\ pc = "send"
    /\ Sends({fg})
    /\ \E after \in Released(fg) :
        IF fg \in after
        THEN /\ doc' = [doc EXCEPT ![fg] = <<Break>>] /\ sel' = sel \ {fg}
             /\ UNCHANGED sent
        ELSE IF fg \in Chats
             THEN EnterKey(fg)
             ELSE /\ doc' = [doc EXCEPT ![fg] = Append(@, Break)]
                  /\ sel' = after /\ UNCHANGED sent
    /\ GoTo("free")
    /\ UNCHANGED <<queue, ledger, task_vars, aged, engine_vars, Worker_frame>>

Translate ==
    /\ pc = "translate"
    /\ out' \in {Recomposed, line, <<>>}
    /\ IF out' = <<>> THEN failures' = failures + 1 /\ failed' = failed + 1
                      ELSE failures' = 0 /\ failed' = 0
    /\ GoTo(IF out' = Recomposed THEN "paste" ELSE "release")
    /\ UNCHANGED <<doc, sel, sent, queue, task, line, rescued, pasted, ledger,
                   keys, aged, Worker_frame>>

\* Pastes only into the control the text came from.
PasteAndRestore ==
    /\ pc = "paste" /\ fg = task.target
    /\ PutText(fg, out) /\ Sends({fg})
    /\ pasted' = TRUE
    /\ ledger' = [target |-> task.target, text |-> out]
    /\ aged' = aged \cup ({ledger.target} \ {task.target, NoControl})
    /\ GoTo("enter")
    /\ UNCHANGED <<sent, queue, task, line, rescued, out, engine_vars, Worker_frame>>

\* The focus is elsewhere, or the clipboard could not be written.
PasteAborts ==
    /\ pc = "paste"
    /\ GoTo("release")
    /\ UNCHANGED <<doc, sel, sent, queue, ledger, keys, task_vars, aged, engine_vars, Worker_frame>>

ReleaseSelection ==
    /\ pc = "release"
    /\ IF fg # task.target THEN UNCHANGED <<doc, sel, keys>>
       ELSE /\ Sends({fg})
            /\ IF Identity /\ rescued THEN PutText(fg, line)
               ELSE sel' \in Released(fg) /\ UNCHANGED doc
    /\ GoTo("enter")
    /\ UNCHANGED <<sent, queue, ledger, task_vars, aged, engine_vars, Worker_frame>>

\* Mutant of InjectsEnter: the foreground is not looked at.
InjectsAnywhere == auto \/ Identity

\* The send gate looks at the window, not at the control in it.
InjectsEnter == (auto \/ Identity) /\ SameWindow(fg, task.target)
LedgerSurvives == pasted \/ SameWindow(ledger.target, task.target)

SendGate ==
    /\ pc = "enter"
    /\ IF InjectsEnter THEN EnterKey(fg) /\ Sends({fg})
                       ELSE UNCHANGED <<doc, sel, sent, keys>>
    /\ ledger' = IF LedgerSurvives THEN ledger ELSE NoLedger
    /\ aged' = IF LedgerSurvives THEN aged ELSE aged \cup ({ledger.target} \ {NoControl})
    /\ GoTo("free")
    /\ UNCHANGED <<queue, task_vars, engine_vars, Worker_frame>>

\* Mutant of ClearBusy: a task that ends without its guard.
KeepsBusy ==
    /\ pc = "free"
    /\ GoTo("freed")
    /\ UNCHANGED <<doc, sel, sent, fg, shiftK, anchor, busy, home, queue, ledger, keys,
                   task_vars, engine_vars, user_vars, ghosts>>

\* The guard's destructor: is_busy_ first, the target after it.
ClearBusy ==
    /\ pc = "free"
    /\ busy' = FALSE
    /\ GoTo("freed")
    /\ UNCHANGED <<doc, sel, sent, fg, shiftK, anchor, home, queue, ledger, keys,
                   task_vars, engine_vars, user_vars, ghosts>>

ClearTarget ==
    /\ pc = "freed"
    /\ home' = NoControl
    /\ GoTo("idle")
    /\ UNCHANGED <<doc, sel, sent, fg, shiftK, anchor, busy, queue, ledger, keys,
                   task_vars, engine_vars, user_vars, ghosts>>

Worker ==
    \/ BeginTask \/ ImeBackstop \/ CopySelectedText \/ CopyFails \/ HoldEmpty
    \/ SendEmpty \/ JudgeSendThrough \/ JudgeTranslate \/ Consume
    \/ SendThroughWithNewlineTracking \/ Translate \/ PasteAndRestore
    \/ PasteAborts \/ ReleaseSelection \/ SendGate \/ ClearBusy \/ ClearTarget

User == Type \/ ShiftEnter \/ RetypeFirst \/ Move \/ PostTask \/ Suppressed \/ PassedThrough

Next == User \/ Worker
Spec == Init /\ [][Next]_vars
FairSpec == Spec /\ WF_vars(Worker)

-----------------------------------------------------------------------------
TypeOK ==
    /\ \A c \in Controls : doc[c] \in Seq([id : Nat, n : Nat]) /\ sent[c] \in Seq([id : Nat, n : Nat])
    /\ sel \subseteq Controls /\ fg \in Controls
    /\ shiftK \in Nat /\ anchor \in Controls \cup {NoControl}
    /\ busy \in BOOLEAN /\ home \in Controls \cup {NoControl}
    /\ Len(queue) =< 1 /\ pc \in Places
    /\ {keys, left, spoiled, aged} \subseteq SUBSET Controls

\* Every word the user typed is in the control's text or was sent from it, once
\* and in its place - whatever was captured, translated, pasted back, refused
\* or sent through - unless the user typed over a selection the task left
\* (worker.cpp:586-1311, CopySelectedText, PasteAndRestore).
WordsSurvive ==
    /\ TypeOK
    /\ \A c \in Controls \ spoiled :
         LET s == sent[c] \o doc[c]
         IN  /\ {s[i].id : i \in WordsIn(s)} = 1 .. typed[c]
             /\ \A i, j \in WordsIn(s) : i < j => s[i].id < s[j].id

\* A word is translated once: what was pasted before is recognised by the
\* ledger, in any interleaving of further lines, suppressed Enters, failures and
\* aborted pastes, as long as the user did not retype it and no other window's
\* task took the one-entry ledger (worker.cpp:495-636, worker.hpp:292-332).
TranslatedOnce ==
    \A c \in Controls \ aged :
        \A i \in DOMAIN (sent[c] \o doc[c]) : (sent[c] \o doc[c])[i].n =< 1

\* Synthetic keys reach only the control whose Enter was taken, wherever the
\* user goes while the engine translates (win32_input.cpp:2274-2325,
\* worker.cpp:1195-1240 and 1267).
KeysLandAtHome == keys \subseteq {task.target}

\* No task ends with the user's whole text still selected, one keystroke from
\* being replaced, but in a control the user left while it ran (the release is
\* suppressed then, worker.cpp:1182-1208).
SelectionEnds == pc = "freed" => sel \subseteq left

\* Claimed of the failure streak ("reset on every successful translation",
\* worker.hpp:631-634, so that the third failure surfaces, worker.hpp:479-489).
\* Every capture resets the counter first (worker.cpp:734): it never passes one.
StreakSurfaces == failed >= 3 => failures >= 3

\* Every intercepted Enter's task ends and lets the next one in.
WorkerFrees == busy ~> ~busy
=============================================================================
