------------------------ MODULE EnterPipeline_proofs ------------------------
(***************************************************************************)
(* Proof about EnterPipeline, for any set of chats and editors and any     *)
(* number of words, Enters and focus changes.  The synthetic keys of a     *)
(* task reach no other control than the one whose Enter was taken, and no  *)
(* task ends with a live selection in a control the user did not leave     *)
(* (Invariance).  Every word is in the text of its control or was sent     *)
(* from it, in its place (WordsCorrect), and is translated at most once    *)
(* (OnceCorrect).                                                          *)
(*                                                                         *)
(* Careful is what the counterexamples to the unconditional claims leave:  *)
(* a window of its own for each control, an editor that minds VK_RIGHT,    *)
(* both stores of a task's end before the hook runs, and a user who stays  *)
(* while a task begins and copies.  Settles adds, for the words, that the  *)
(* user does not come back just before the send gate; Waits, for the       *)
(* translations, that nobody types into the text a task holds.             *)
(***************************************************************************)
EXTENDS EnterPipeline, FiniteSetTheorems, SequenceTheorems, TLAPS

Attended == {"queued", "capture", "empty", "judge", "consume", "send"}

Careful ==
    /\ Roams \cap Attended = {}
    /\ \A a, b \in Controls : Root(a) = Root(b) => a = b
    /\ ~Torn /\ ~Drops

\* A posted task is of the control with the focus, which stays there until the
\* translation; whoever is not busy has nothing posted.
TaskInv ==
    /\ fg \in Controls /\ task.target \in Controls \cup {NoControl}
    /\ pc \in Places \ {"queued"} /\ busy \in BOOLEAN
    /\ queue = <<>> \/ \E k : queue = <<[target |-> fg, k |-> k]>>
    /\ queue # <<>> => busy /\ pc = "idle"
    /\ ~busy => pc \in {"idle", "freed"}
    /\ pc \in Attended => fg = task.target

\* A selection is the running task's and has the focus, or was left.
SelInv ==
    /\ sel \subseteq left \cup ({fg} \cap {task.target})
    /\ pc \in {"idle", "capture", "enter", "free", "freed"} => sel \subseteq left

IInv == TaskInv /\ KeysLandAtHome /\ SelInv

-----------------------------------------------------------------------------
LEMMA InitLemma == Init => IInv
<1> SUFFICES ASSUME Init PROVE IInv
  OBVIOUS
<1>1. TaskInv
  BY DEF Init, NoTask, TaskInv, Places, Attended
<1>2. KeysLandAtHome /\ SelInv
  BY DEF Init, KeysLandAtHome, SelInv
<1> QED
  BY <1>1, <1>2 DEF IInv

\* What a control takes ends its selection.
LEMMA Taken ==
    ASSUME Careful, NEW c, \/ \E s : PutText(c, s)
                           \/ EnterKey(c)
                           \/ sel' \in Released(c)
    PROVE  sel' = sel \ {c}
BY DEF Careful, PutText, EnterKey, Released

LEMMA UserLemma ==
    ASSUME Careful, IInv, User
    PROVE  IInv'
<1> USE DEF IInv, KeysLandAtHome
<1>1. CASE Type \/ ShiftEnter
  <2>1. sel' = sel \ {fg} /\ UNCHANGED <<fg, pc, busy, queue, task, keys, left>>
    BY <1>1, Taken DEF Type, ShiftEnter, task_vars
  <2> QED
    BY <2>1 DEF TaskInv, SelInv
<1>2. CASE RetypeFirst \/ Suppressed
  <2>1. UNCHANGED <<sel, fg, pc, busy, queue, task, keys, left>>
    BY <1>2 DEF RetypeFirst, Suppressed, task_vars, ghosts
  <2> QED
    BY <2>1 DEF TaskInv, SelInv
<1>3. CASE PassedThrough
  <2>1. sel' = sel \ {fg} /\ UNCHANGED <<fg, pc, busy, queue, task, keys, left>>
    BY <1>3, Taken DEF PassedThrough, task_vars
  <2> QED
    BY <2>1 DEF TaskInv, SelInv
<1>4. CASE PostTask
  <2>1. ~busy /\ busy' = TRUE /\ pc # "freed" /\ UNCHANGED <<sel, fg, pc, task, keys, left>>
    BY <1>4 DEF PostTask, EndsBlock, Careful, task_vars, ghosts
  <2>2. pc = "idle" /\ queue = <<>>
    BY <2>1 DEF TaskInv
  <2>3. queue' = <<[target |-> fg, k |-> BlockK]>>
    BY <1>4, <2>2 DEF PostTask
  <2> QED
    BY <2>1, <2>2, <2>3 DEF TaskInv, SelInv
<1>5. CASE Move
  <2>1. fg' \in Controls /\ left' = left \cup (sel \cap {fg}) /\ UNCHANGED <<sel, pc, busy, queue, task, keys>>
    BY <1>5 DEF Move, task_vars
  <2>2. pc \notin Attended /\ queue = <<>>
    BY <1>5 DEF Move, Place, Careful, Attended, TaskInv
  <2> QED
    BY <2>1, <2>2 DEF TaskInv, SelInv
<1> QED
  BY <1>1, <1>2, <1>3, <1>4, <1>5 DEF User

\* Steps of the worker that send no keys, or send them to a control they know.
LEMMA SilentStep ==
    ASSUME IInv, UNCHANGED <<fg, sel, queue, keys, task, busy, left>>, NEW p \in Places \ {"queued", "idle", "freed"},
           pc \notin {"idle", "freed"}, pc' = p, p \in Attended => pc \in Attended,
           p \in {"capture", "enter", "free"} => sel \subseteq left
    PROVE  IInv'
BY DEF IInv, TaskInv, KeysLandAtHome, SelInv, Places, Attended

LEMMA KeyStep ==
    ASSUME IInv, UNCHANGED <<fg, queue, task, busy, left>>, NEW p \in Places \ {"queued", "idle", "freed"},
           pc \notin {"idle", "freed"}, pc' = p, fg = task.target, keys' = keys \cup {fg},
           \/ sel' = sel \ {fg}
           \/ sel' = sel \cup {fg} /\ p \notin {"capture", "enter", "free"}
           \/ sel' = sel /\ p \notin {"capture", "enter", "free"}
    PROVE  IInv'
<1> USE DEF IInv, TaskInv
<1>1. TaskInv' /\ KeysLandAtHome'
  BY DEF KeysLandAtHome
<1>2. SelInv'
  BY DEF SelInv
<1> QED
  BY <1>1, <1>2

LEMMA WorkerLemma ==
    ASSUME Careful, IInv, Worker
    PROVE  IInv'
<1> USE DEF IInv
<1>1. CASE BeginTask
  <2>1. /\ task' = Head(queue) /\ queue' = Tail(queue) /\ keys' = {} /\ pc' = "capture"
        /\ pc = "idle" /\ queue # <<>> /\ UNCHANGED <<fg, sel, busy, left>>
    BY <1>1 DEF BeginTask, GoTo, Worker_frame
  <2>2. PICK k : queue = <<[target |-> fg, k |-> k]>>
    BY <2>1 DEF TaskInv
  <2>3. task'.target = fg /\ queue' = <<>> /\ busy
    BY <2>1, <2>2 DEF TaskInv
  <2> QED
    BY <2>1, <2>3 DEF TaskInv, KeysLandAtHome, SelInv, Places
<1>2. CASE ImeBackstop \/ SendEmpty \/ JudgeSendThrough \/ JudgeTranslate
  <2>1. /\ pc \in {"capture", "empty", "judge"} /\ UNCHANGED <<fg, sel, queue, keys, task, busy, left>>
        /\ pc' \in {"send", "consume", "translate"}
    BY <1>2 DEF ImeBackstop, SendEmpty, JudgeSendThrough, JudgeTranslate, GoTo, Worker_frame, task_vars
  <2> QED
    BY <2>1, SilentStep DEF Places, Attended
<1>3. CASE CopySelectedText \/ CopyFails \/ HoldEmpty
  <2>1. /\ pc \in {"capture", "empty"} /\ keys' = keys \cup {fg} /\ UNCHANGED <<fg, queue, task, busy, left>>
        /\ \/ sel' \in {sel, sel \cup {fg}} /\ pc' \in {"judge", "empty"}
           \/ sel' \in Released(fg) /\ pc' = "free"
    BY <1>3 DEF CopySelectedText, CopyFails, HoldEmpty, GoTo, Sends, Worker_frame, task_vars
  <2>2. fg = task.target
    BY <2>1 DEF TaskInv, Attended
  <2> QED
    BY <2>1, <2>2, Taken, KeyStep DEF Places
<1>4. CASE Consume
  <2>1. pc = "consume" /\ pc' = "send" /\ UNCHANGED <<fg, queue, task, busy, left>>
    BY <1>4 DEF Consume, GoTo, Worker_frame, task_vars
  <2>2. CASE fg = task.target /\ PutText(fg, line) /\ Sends({fg})
    <3>1. keys' = keys \cup {fg} /\ sel' = sel \ {fg}
      BY <2>2, Taken DEF Sends
    <3> QED
      BY <2>1, <2>2, <3>1, KeyStep DEF Places
  <2>3. CASE UNCHANGED <<sel, keys>>
    BY <2>1, <2>3, SilentStep DEF Places, Attended
  <2> QED
    BY <1>4, <2>2, <2>3 DEF Consume
<1>5. CASE SendThroughWithNewlineTracking
  <2>1. /\ pc = "send" /\ pc' = "free" /\ keys' = keys \cup {fg} /\ UNCHANGED <<fg, queue, task, busy, left>>
    BY <1>5 DEF SendThroughWithNewlineTracking, GoTo, Sends, Worker_frame, task_vars
  <2>2. fg = task.target
    BY <2>1 DEF TaskInv, Attended
  <2>3. sel' = sel \ {fg}
    BY <1>5, Taken DEF SendThroughWithNewlineTracking, Released, Careful
  <2> QED
    BY <2>1, <2>2, <2>3, KeyStep DEF Places
<1>6. CASE Translate \/ PasteAborts
  <2>1. /\ pc \in {"translate", "paste"} /\ pc' \in {"paste", "release"}
        /\ UNCHANGED <<fg, sel, queue, keys, task, busy, left>>
    BY <1>6 DEF Translate, PasteAborts, GoTo, Worker_frame, task_vars
  <2> QED
    BY <2>1, SilentStep DEF Places, Attended
<1>7. CASE PasteAndRestore
  <2>1. /\ pc = "paste" /\ pc' = "enter" /\ fg = task.target
        /\ keys' = keys \cup {fg} /\ sel' = sel \ {fg}
        /\ UNCHANGED <<fg, queue, task, busy, left>>
    BY <1>7, Taken DEF PasteAndRestore, GoTo, Sends, Worker_frame
  <2> QED
    BY <2>1, KeyStep DEF Places
<1>8. CASE ReleaseSelection
  <2>1. pc = "release" /\ pc' = "enter" /\ UNCHANGED <<fg, queue, task, busy, left>>
    BY <1>8 DEF ReleaseSelection, GoTo, Worker_frame, task_vars
  <2>2. CASE fg # task.target
    <3>1. UNCHANGED <<sel, keys>> /\ sel \subseteq left
      BY <1>8, <2>2 DEF ReleaseSelection, SelInv
    <3> QED
      BY <2>1, <3>1, SilentStep DEF Places, Attended
  <2>3. CASE fg = task.target
    <3>1. keys' = keys \cup {fg} /\ sel' = sel \ {fg}
      BY <1>8, <2>3, Taken DEF ReleaseSelection, Sends
    <3> QED
      BY <2>1, <2>3, <3>1, KeyStep DEF Places
  <2> QED
    BY <2>2, <2>3
<1>9. CASE SendGate
  <2>1. pc = "enter" /\ pc' = "free" /\ UNCHANGED <<fg, queue, task, busy, left>>
    BY <1>9 DEF SendGate, GoTo, Worker_frame, task_vars
  <2>2. CASE InjectsEnter
    \* the gate's window is the control, as each control has its own
    <3>1. fg = task.target
      BY <2>2 DEF InjectsEnter, SameWindow, Careful, TaskInv
    <3> QED
      BY <1>9, <2>1, <2>2, <3>1, Taken, KeyStep DEF SendGate, Sends, Places
  <2>3. CASE ~InjectsEnter
    BY <1>9, <2>1, <2>3, SilentStep DEF SendGate, SelInv, Places, Attended
  <2> QED
    BY <2>2, <2>3
<1>10. CASE ClearBusy \/ ClearTarget
  <2>1. /\ UNCHANGED <<fg, sel, queue, keys, task, left>>
        /\ \/ pc = "free" /\ pc' = "freed" /\ busy' = FALSE
           \/ pc = "freed" /\ pc' = "idle" /\ busy' = busy
    BY <1>10 DEF ClearBusy, ClearTarget, GoTo, task_vars, ghosts
  <2> QED
    BY <2>1 DEF TaskInv, KeysLandAtHome, SelInv, Places, Attended
<1> QED
  BY <1>1, <1>2, <1>3, <1>4, <1>5, <1>6, <1>7, <1>8, <1>9, <1>10 DEF Worker

-----------------------------------------------------------------------------
\* What every step preserves, in windows and for users as Careful says.
THEOREM Invariance == Careful => (Spec => []IInv)
<1> SUFFICES ASSUME Careful PROVE Spec => []IInv
  OBVIOUS
<1>1. IInv /\ [Next]_vars => IInv'
  <2>1. UNCHANGED vars /\ IInv => IInv'
    BY DEF vars, task_vars, ghosts, IInv, TaskInv, KeysLandAtHome, SelInv
  <2> QED
    BY <2>1, UserLemma, WorkerLemma DEF Next
<1> QED
  BY InitLemma, <1>1, PTL DEF Spec

\* Synthetic keys reach only the control whose Enter was taken (worker.cpp's
\* foreground checks before paste, release and send).
THEOREM KeysCorrect == Careful => (Spec => []KeysLandAtHome)
<1> SUFFICES ASSUME Careful PROVE Spec => []KeysLandAtHome
  OBVIOUS
<1> QED
  BY Invariance, PTL DEF IInv

\* No task ends with a live selection where the user still is (the releases of
\* worker.cpp, whatever way a task takes).
THEOREM SelectionCorrect == Careful => (Spec => []SelectionEnds)
<1> SUFFICES ASSUME Careful PROVE Spec => []SelectionEnds
  OBVIOUS
<1>1. IInv => SelectionEnds
  BY DEF IInv, SelInv, SelectionEnds
<1> QED
  BY Invariance, <1>1, PTL
-----------------------------------------------------------------------------
(* The texts.                                                              *)

Item == [id : Nat, n : Nat]
Holding == {"judge", "consume", "translate", "paste", "release"}

TextTypes ==
    /\ doc \in [Controls -> Seq(Item)] /\ sent \in [Controls -> Seq(Item)] /\ typed \in [Controls -> Nat]
    /\ line \in Seq(Item) /\ out \in Seq(Item)
    /\ ledger.target \in Controls \cup {NoControl} /\ ledger.text \in Seq(Item)
SetTypes ==
    /\ sel \subseteq Controls /\ left \subseteq Controls /\ spoiled \subseteq Controls /\ aged \subseteq Controls
    /\ keys \subseteq Controls
    /\ shiftK \in Nat /\ anchor \in Controls \cup {NoControl} /\ home \in Controls \cup {NoControl}

\* From the capture to the paste the task's control holds the captured text,
\* selected: nobody but its user can type over it.
HeldInv ==
    /\ queue # <<>> => home = fg
    /\ pc \notin {"idle", "freed"} => home = task.target /\ task.target \in Controls
    /\ pc \in Holding /\ (task.target \notin spoiled \/ ~TypesAhead) =>
         task.target \in sel /\ doc[task.target] = line
    /\ pc = "paste" => out = Recomposed

TextInv == TextTypes /\ SetTypes /\ HeldInv

LEMMA Recomposes ==
    ASSUME TextTypes
    PROVE  /\ Recomposed \in Seq(Item) /\ DOMAIN Recomposed = DOMAIN line
           /\ \A i \in DOMAIN line : /\ Recomposed[i].id = line[i].id
                                     /\ IsWord(Recomposed[i]) <=> IsWord(line[i])
                                     /\ Recomposed[i].n = line[i].n
                                        \/ (i > F3BlockSliceRefine /\ Recomposed[i].n = line[i].n + 1)
<1>1. /\ Len(line) \in Nat /\ DOMAIN line = 1 .. Len(line)
      /\ \A i \in DOMAIN line : line[i] \in Item
  BY LenProperties, ElementOfSeq DEF TextTypes
<1>2. /\ DOMAIN Recomposed = DOMAIN line
      /\ \A i \in DOMAIN line : Recomposed[i] = line[i]
            \/ (i > F3BlockSliceRefine /\ IsWord(line[i]) /\ Recomposed[i] = [line[i] EXCEPT !.n = line[i].n + 1])
  BY DEF Recomposed
<1>3. ASSUME NEW i \in DOMAIN line
      PROVE  /\ Recomposed[i] \in Item /\ Recomposed[i].id = line[i].id
             /\ IsWord(Recomposed[i]) <=> IsWord(line[i])
             /\ Recomposed[i].n = line[i].n \/ (i > F3BlockSliceRefine /\ Recomposed[i].n = line[i].n + 1)
  BY <1>1, <1>2 DEF Item, IsWord, Break
<1>4. Recomposed \in Seq(Item)
  <2>1. Recomposed \in [1 .. Len(line) -> Item]
    <3>1. Recomposed = [i \in DOMAIN line |-> Recomposed[i]]
      BY DEF Recomposed
    <3> QED
      BY <1>1, <1>3, <3>1
  <2> QED
    BY <1>1, <2>1, SeqDef
<1> QED
  BY <1>2, <1>3, <1>4

\* The types, for what the controls and the steps do to the texts.
LEMMA PutTypes ==
    ASSUME TextTypes, NEW c \in Controls, NEW s \in Seq(Item),
           \/ PutText(c, s) /\ UNCHANGED sent
           \/ EnterKey(c)
           \/ doc' = [doc EXCEPT ![c] = Append(@, Break)] /\ UNCHANGED sent
           \/ UNCHANGED <<doc, sent>>
    PROVE  doc' \in [Controls -> Seq(Item)] /\ sent' \in [Controls -> Seq(Item)]
<1>1. doc[c] \in Seq(Item) /\ sent[c] \in Seq(Item) /\ <<Break>> \in Seq(Item) /\ Break \in Item /\ <<>> \in Seq(Item)
  BY DEF TextTypes, Item, Break
<1>2. ASSUME NEW t \in Seq(Item) PROVE Insert(c, t) \in Seq(Item)
  BY <1>1, ConcatProperties DEF Insert
<1>3. CASE PutText(c, s) /\ UNCHANGED sent
  BY <1>2, <1>3 DEF PutText, TextTypes
<1>4. CASE EnterKey(c)
  <2>1. CASE c \in Chats
    <3>1. sent[c] \o doc[c] \in Seq(Item)
      BY <1>1, ConcatProperties
    <3> QED
      BY <1>1, <1>4, <2>1, <3>1 DEF EnterKey, TextTypes
  <2>2. CASE c \notin Chats
    BY <1>1, <1>2, <1>4, <2>2 DEF EnterKey, PutText, TextTypes
  <2> QED
    BY <2>1, <2>2
<1>5. CASE doc' = [doc EXCEPT ![c] = Append(@, Break)] /\ UNCHANGED sent
  <2>1. Append(doc[c], Break) \in Seq(Item)
    BY <1>1, AppendProperties
  <2> QED
    BY <1>5, <2>1 DEF TextTypes
<1>6. CASE UNCHANGED <<doc, sent>>
  BY <1>6 DEF TextTypes
<1> QED
  BY <1>3, <1>4, <1>5, <1>6

LEMMA TextTypesUser ==
    ASSUME IInv, TextTypes, User
    PROVE  TextTypes'
<1>1. fg \in Controls /\ typed[fg] \in Nat /\ doc[fg] \in Seq(Item) /\ <<Break>> \in Seq(Item)
  BY DEF IInv, TaskInv, TextTypes, Item, Break
<1>2. UNCHANGED <<line, out, ledger>>
  BY DEF User, Type, ShiftEnter, RetypeFirst, Move, PostTask, Suppressed, PassedThrough, task_vars
<1>3. typed' \in [Controls -> Nat]
  <2>1. typed' = typed \/ typed' = [typed EXCEPT ![fg] = typed[fg] + 1]
    BY DEF User, Type, ShiftEnter, RetypeFirst, Move, PostTask, Suppressed, PassedThrough, EndsBlock, user_vars
  <2>2. typed \in [Controls -> Nat] /\ typed[fg] + 1 \in Nat
    BY <1>1 DEF TextTypes
  <2> QED
    BY <2>1, <2>2
<1>4. doc' \in [Controls -> Seq(Item)] /\ sent' \in [Controls -> Seq(Item)]
  <2>1. CASE Type
    <3>1. <<Word(typed[fg] + 1)>> \in Seq(Item)
      BY <1>1 DEF Word, Item
    <3> QED
      BY <1>1, <2>1, <3>1, PutTypes DEF Type
  <2>2. CASE ShiftEnter
    BY <1>1, <2>2, PutTypes DEF ShiftEnter
  <2>3. CASE RetypeFirst
    <3>1. /\ doc[fg] # <<>> /\ sent' = sent
          /\ doc' = [doc EXCEPT ![fg] = [doc[fg] EXCEPT ![1] = [doc[fg][1] EXCEPT !.n = 0]]]
      BY <2>3 DEF RetypeFirst
    <3>2. doc[fg][1] \in Item /\ 1 \in DOMAIN doc[fg]
      BY <1>1, <3>1, LenProperties, ElementOfSeq, EmptySeq
    <3>3. [doc[fg][1] EXCEPT !.n = 0] \in Item
      BY <3>2 DEF Item
    <3>4. [doc[fg] EXCEPT ![1] = [doc[fg][1] EXCEPT !.n = 0]] \in Seq(Item)
      BY <1>1, <3>2, <3>3, ExceptSeq
    <3> QED
      BY <3>1, <3>4 DEF TextTypes
  <2>4. CASE Move \/ PostTask \/ Suppressed
    BY <2>4 DEF Move, PostTask, Suppressed, TextTypes
  <2>5. CASE PassedThrough
    BY <1>1, <2>5, PutTypes DEF PassedThrough
  <2> QED
    BY <2>1, <2>2, <2>3, <2>4, <2>5 DEF User
<1> QED
  BY <1>2, <1>3, <1>4 DEF TextTypes

LEMMA TextTypesWorker ==
    ASSUME Careful, IInv, TextTypes, HeldInv, Worker
    PROVE  TextTypes'
<1>1. /\ fg \in Controls /\ doc[fg] \in Seq(Item) /\ <<>> \in Seq(Item)
      /\ line \in Seq(Item) /\ out \in Seq(Item) /\ Recomposed \in Seq(Item)
  BY Recomposes DEF IInv, TaskInv, TextTypes
<1>2. typed' = typed
  BY DEF Worker, BeginTask, ImeBackstop, CopySelectedText, CopyFails, HoldEmpty, SendEmpty, JudgeSendThrough,
         JudgeTranslate, Consume, SendThroughWithNewlineTracking, Translate, PasteAndRestore, PasteAborts,
         ReleaseSelection, SendGate, ClearBusy, ClearTarget, Worker_frame, user_vars
<1>3. line' \in {line, <<>>, doc[fg]} /\ out' \in {out, <<>>, Recomposed, line}
  BY DEF Worker, BeginTask, ImeBackstop, CopySelectedText, CopyFails, HoldEmpty, SendEmpty, JudgeSendThrough,
         JudgeTranslate, Consume, SendThroughWithNewlineTracking, Translate, PasteAndRestore, PasteAborts,
         ReleaseSelection, SendGate, ClearBusy, ClearTarget, task_vars
<1>4. ledger' \in {ledger, NoLedger} \/ (pc = "paste" /\ ledger' = [target |-> task.target, text |-> out])
  BY DEF Worker, BeginTask, ImeBackstop, CopySelectedText, CopyFails, HoldEmpty, SendEmpty, JudgeSendThrough,
         JudgeTranslate, Consume, SendThroughWithNewlineTracking, Translate, PasteAndRestore, PasteAborts,
         ReleaseSelection, SendGate, ClearBusy, ClearTarget
<1>5. ledger'.target \in Controls \cup {NoControl} /\ ledger'.text \in Seq(Item)
  <2>1. CASE ledger' = ledger
    BY <2>1 DEF TextTypes
  <2>2. CASE ledger' = NoLedger
    BY <1>1, <2>2 DEF NoLedger
  <2>3. CASE pc = "paste" /\ ledger' = [target |-> task.target, text |-> out]
    BY <1>1, <2>3 DEF HeldInv
  <2> QED
    BY <1>4, <2>1, <2>2, <2>3
<1>6. doc' \in [Controls -> Seq(Item)] /\ sent' \in [Controls -> Seq(Item)]
  <2>1. CASE SendThroughWithNewlineTracking
    <3>1. \/ EnterKey(fg)
          \/ doc' = [doc EXCEPT ![fg] = Append(@, Break)] /\ UNCHANGED sent
      BY <2>1 DEF SendThroughWithNewlineTracking, Released, Careful
    <3> QED
      BY <1>1, <3>1, PutTypes
  <2>2. CASE SendGate
    <3>1. EnterKey(fg) \/ UNCHANGED <<doc, sent>>
      BY <2>2 DEF SendGate
    <3> QED
      BY <1>1, <3>1, PutTypes
  <2>3. CASE Consume \/ ReleaseSelection \/ PasteAndRestore
    <3>1. \E t \in {line, out} : (PutText(fg, t) \/ UNCHANGED doc) /\ UNCHANGED sent
      BY <2>3 DEF Consume, ReleaseSelection, PasteAndRestore
    <3> QED
      BY <1>1, <3>1, PutTypes
  <2>4. CASE UNCHANGED <<doc, sent>>
    BY <2>4 DEF TextTypes
  <2> QED
    BY <2>1, <2>2, <2>3, <2>4 DEF Worker, BeginTask, ImeBackstop, CopySelectedText, CopyFails, HoldEmpty, SendEmpty,
         JudgeSendThrough, JudgeTranslate, Translate, PasteAborts, ClearBusy, ClearTarget
<1> QED
  BY <1>1, <1>2, <1>3, <1>5, <1>6 DEF TextTypes

LEMMA SetTypesStep ==
    ASSUME IInv, SetTypes, HeldInv, TextTypes, Next
    PROVE  SetTypes'
<1>1. fg \in Controls
  BY DEF IInv, TaskInv
<1>2. CASE User
  <2>1. /\ sel' \subseteq sel /\ keys' = keys /\ left' \subseteq left \cup sel /\ spoiled' \subseteq spoiled \cup {fg}
        /\ aged' \subseteq aged \cup {fg}
    BY <1>2 DEF User, Type, ShiftEnter, RetypeFirst, Move, PostTask, Suppressed, PassedThrough, ghosts, PutText,
                EnterKey, TypedOver
  <2>2. shiftK' \in {shiftK, 0, BlockK + 1} /\ anchor' \in {anchor, fg} /\ home' \in {home, fg}
    BY <1>2 DEF User, Type, ShiftEnter, RetypeFirst, Move, PostTask, Suppressed, PassedThrough, EndsBlock
  <2>3. BlockK \in Nat
    BY DEF BlockK, SetTypes
  <2> QED
    BY <1>1, <2>1, <2>2, <2>3 DEF SetTypes
<1>3. CASE Worker
  <2>1. /\ sel' \subseteq sel \cup {fg} /\ keys' \subseteq keys \cup {fg} /\ UNCHANGED <<left, spoiled, shiftK, anchor>>
        /\ home' \in {home, NoControl}
    BY <1>3 DEF Worker, BeginTask, ImeBackstop, CopySelectedText, CopyFails, HoldEmpty, SendEmpty, JudgeSendThrough,
         JudgeTranslate, Consume, SendThroughWithNewlineTracking, Translate, PasteAndRestore, PasteAborts,
         ReleaseSelection, SendGate, ClearBusy, ClearTarget, Worker_frame, ghosts, Released, PutText, EnterKey, Sends
  <2>2. aged' \subseteq aged \cup ({ledger.target} \ {NoControl})
    BY <1>3 DEF Worker, BeginTask, ImeBackstop, CopySelectedText, CopyFails, HoldEmpty, SendEmpty, JudgeSendThrough,
         JudgeTranslate, Consume, SendThroughWithNewlineTracking, Translate, PasteAndRestore, PasteAborts,
         ReleaseSelection, SendGate, ClearBusy, ClearTarget, ghosts
  <2> QED
    BY <1>1, <2>1, <2>2 DEF SetTypes, TextTypes
<1> QED
  BY <1>2, <1>3 DEF Next

\* No user reaches the captured text without typing over it.
LEMMA HeldUser ==
    ASSUME Careful, IInv, HeldInv, User
    PROVE  HeldInv'
<1>1. /\ UNCHANGED <<pc, task, line, out, ledger>>
  BY DEF User, Type, ShiftEnter, RetypeFirst, Move, PostTask, Suppressed, PassedThrough, task_vars
<1>2. Recomposed' = Recomposed
  BY <1>1 DEF Recomposed, F3BlockSliceRefine, FindCurrentBlockStart, EffectiveSliceKForVerdict, LedgerPresent,
              LedgerMatches, ExactMatch, SameWindow, Swept, IsPrefix, Breaks, IsWord
<1>3. ASSUME pc \in Holding
      PROVE  busy /\ home = task.target /\ task.target \in Controls /\ SameWindow(home, home)
  BY <1>3, PipelineAssumption DEF IInv, TaskInv, HeldInv, Holding, SameWindow
<1>4. CASE PostTask
  <2>1. ~busy /\ pc # "freed" /\ home' = fg /\ fg' = fg
    BY <1>4 DEF PostTask, EndsBlock, Careful
  <2>2. pc = "idle"
    BY <2>1 DEF IInv, TaskInv
  <2> QED
    BY <1>1, <2>1, <2>2 DEF HeldInv, Holding
<1>5. ASSUME ~PostTask PROVE HeldInv'
  <2>1. UNCHANGED <<home, queue, busy>>
    BY <1>5 DEF User, Type, ShiftEnter, RetypeFirst, Move, Suppressed, PassedThrough
  <2>2. queue # <<>> => fg' = fg
    <3>1. Move => queue = <<>>
      BY DEF Move, Place, Careful, Attended, IInv, TaskInv
    <3> QED
      BY <1>5, <3>1 DEF User, Type, ShiftEnter, RetypeFirst, Suppressed, PassedThrough
  <2>3. ASSUME pc \in Holding, task.target \notin spoiled' \/ ~TypesAhead
        PROVE  task.target \in sel' /\ doc'[task.target] = line
    <3>1. /\ busy /\ home = task.target /\ task.target \in Controls
          /\ spoiled \subseteq spoiled'
      BY <1>3, <2>3 DEF User, Type, ShiftEnter, RetypeFirst, Move, PostTask, Suppressed, PassedThrough, ghosts, TypedOver
    <3>2. task.target \in sel /\ doc[task.target] = line
      BY <2>3, <3>1 DEF HeldInv
    <3>3. CASE Type \/ ShiftEnter
      <4>1. fg # task.target
        <5>1. MayType(fg) /\ (fg \in sel => fg \in spoiled')
          BY <3>3 DEF Type, ShiftEnter, TypedOver
        <5> QED
          BY <2>3, <3>1, <3>2, <5>1 DEF MayType, InFlight
      <4>2. \E s : PutText(fg, s)
        BY <3>3 DEF Type, ShiftEnter
      <4> QED
        BY <3>2, <4>1, <4>2 DEF PutText
    <3>4. CASE RetypeFirst
      <4>1. fg # task.target /\ sel' = sel /\ \E t : doc' = [doc EXCEPT ![fg] = t]
        BY <3>1, <3>4 DEF RetypeFirst, InFlight
      <4> QED
        BY <3>2, <4>1
    <3>5. CASE Move \/ Suppressed
      BY <3>2, <3>5 DEF Move, Suppressed
    <3>6. CASE PassedThrough
      <4>1. fg # task.target
        BY <1>3, <2>3, <3>1, <3>6 DEF PassedThrough
      <4>2. sel' = sel \ {fg} /\ \E t : doc' = [doc EXCEPT ![fg] = t]
        BY <3>6 DEF PassedThrough, EnterKey, PutText
      <4> QED
        BY <3>2, <4>1, <4>2
    <3> QED
      BY <1>5, <3>3, <3>4, <3>5, <3>6 DEF User
  <2>4. queue' # <<>> => home' = fg'
    BY <2>1, <2>2 DEF HeldInv
  <2>5. pc' \notin {"idle", "freed"} => home' = task'.target /\ task'.target \in Controls
    BY <1>1, <2>1 DEF HeldInv
  <2>6. pc' = "paste" => out' = Recomposed'
    BY <1>1, <1>2 DEF HeldInv
  <2> QED
    BY <1>1, <2>3, <2>4, <2>5, <2>6 DEF HeldInv
<1> QED
  BY <1>4, <1>5

LEMMA HeldWorker ==
    ASSUME Careful, IInv, TextTypes, SetTypes, HeldInv, Worker
    PROVE  HeldInv'
<1>1. UNCHANGED <<fg, spoiled>> /\ (home' = home \/ pc = "freed")
  BY DEF Worker, BeginTask, ImeBackstop, CopySelectedText, CopyFails, HoldEmpty, SendEmpty, JudgeSendThrough,
         JudgeTranslate, Consume, SendThroughWithNewlineTracking, Translate, PasteAndRestore, PasteAborts,
         ReleaseSelection, SendGate, ClearBusy, ClearTarget, Worker_frame, ghosts
<1>2. CASE BeginTask
  <2>1. /\ task' = Head(queue) /\ queue' = Tail(queue) /\ pc' = "capture" /\ queue # <<>> /\ pc = "idle"
    BY <1>2 DEF BeginTask, GoTo
  <2>2. PICK k : queue = <<[target |-> fg, k |-> k]>>
    BY <2>1 DEF IInv, TaskInv
  <2>3. task'.target = fg /\ queue' = <<>> /\ fg \in Controls
    BY <2>1, <2>2 DEF IInv, TaskInv
  <2> QED
    BY <1>1, <2>1, <2>3 DEF HeldInv, Holding
<1>3. CASE ClearBusy \/ ClearTarget
  <2>1. queue' = <<>> /\ pc' \in {"freed", "idle"}
    BY <1>3 DEF ClearBusy, ClearTarget, GoTo, IInv, TaskInv
  <2> QED
    BY <2>1 DEF HeldInv, Holding
<1>4. ASSUME ~BeginTask, ~ClearBusy, ~ClearTarget PROVE HeldInv'
  <2>1. /\ pc \notin {"idle", "freed"} /\ UNCHANGED <<queue, task, home>>
    BY <1>4 DEF Worker, ImeBackstop, CopySelectedText, CopyFails, HoldEmpty, SendEmpty, JudgeSendThrough,
         JudgeTranslate, Consume, SendThroughWithNewlineTracking, Translate, PasteAndRestore, PasteAborts,
         ReleaseSelection, SendGate, Worker_frame, task_vars
  <2>2. (queue' # <<>> => home' = fg') /\ home' = task'.target /\ task'.target \in Controls
    BY <1>1, <2>1 DEF HeldInv
  <2>3. CASE CopySelectedText
    <3>1. fg = task.target
      BY <2>3 DEF CopySelectedText, IInv, TaskInv, Attended
    <3>2. sel' = sel \cup {fg} /\ line' = doc[fg] /\ doc' = doc /\ pc' = "judge"
      BY <2>3 DEF CopySelectedText, GoTo
    <3> QED
      BY <2>1, <2>2, <3>1, <3>2 DEF HeldInv
  <2>4. CASE JudgeSendThrough \/ JudgeTranslate \/ Translate \/ PasteAborts
    <3>1. /\ pc \in Holding /\ pc' \in Holding \cup {"send"} /\ UNCHANGED <<sel, doc, line, ledger>>
          /\ pc' = "paste" => out' = Recomposed
      BY <2>4 DEF JudgeSendThrough, JudgeTranslate, Translate, PasteAborts, GoTo, Holding, task_vars
    <3>2. Recomposed' = Recomposed
      BY <2>1, <3>1 DEF Recomposed, F3BlockSliceRefine, FindCurrentBlockStart, EffectiveSliceKForVerdict,
              LedgerPresent, LedgerMatches, ExactMatch, SameWindow, Swept, IsPrefix, Breaks, IsWord
    <3> QED
      BY <1>1, <2>1, <2>2, <3>1, <3>2 DEF HeldInv
  <2>5. ASSUME ~CopySelectedText, ~JudgeSendThrough, ~JudgeTranslate, ~Translate, ~PasteAborts PROVE HeldInv'
    <3>1. pc' \notin Holding
      BY <1>4, <2>5 DEF Worker, ImeBackstop, CopyFails, HoldEmpty, SendEmpty, Consume, SendThroughWithNewlineTracking,
         PasteAndRestore, ReleaseSelection, SendGate, GoTo, Holding
    <3> QED
      BY <2>2, <3>1 DEF HeldInv, Holding
  <2> QED
    BY <2>3, <2>4, <2>5
<1> QED
  BY <1>2, <1>3, <1>4

\* What every step preserves of the texts, for such users.
THEOREM TextInvariance == Careful => (Spec => [](IInv /\ TextInv))
<1> SUFFICES ASSUME Careful PROVE Spec => [](IInv /\ TextInv)
  OBVIOUS
<1>1. Init => IInv /\ TextInv
  <2> SUFFICES ASSUME Init PROVE TextInv
    BY InitLemma
  <2>1. <<>> \in Seq(Item)
    OBVIOUS
  <2>2. TextTypes
    BY <2>1 DEF Init, TextTypes, NoLedger
  <2>3. SetTypes /\ HeldInv
    BY DEF Init, SetTypes, HeldInv, Holding
  <2> QED
    BY <2>2, <2>3 DEF TextInv
<1>2. IInv /\ TextInv /\ [Next]_vars => (IInv /\ TextInv)'
  <2> SUFFICES ASSUME IInv, TextInv, [Next]_vars PROVE IInv' /\ TextInv'
    OBVIOUS
  <2>1. CASE User
    BY <2>1, UserLemma, TextTypesUser, SetTypesStep, HeldUser DEF TextInv, Next
  <2>2. CASE Worker
    BY <2>2, WorkerLemma, TextTypesWorker, SetTypesStep, HeldWorker DEF TextInv, Next
  <2>3. CASE UNCHANGED vars
    <3>1. IInv'
      BY <2>3 DEF vars, task_vars, ghosts, IInv, TaskInv, KeysLandAtHome, SelInv
    <3>2. TextTypes' /\ SetTypes'
      BY <2>3 DEF vars, task_vars, user_vars, ghosts, TextInv, TextTypes, SetTypes
    <3>3. Recomposed' = Recomposed
      BY <2>3 DEF vars, task_vars, Recomposed, F3BlockSliceRefine, FindCurrentBlockStart, EffectiveSliceKForVerdict,
              LedgerPresent, LedgerMatches, ExactMatch, SameWindow, Swept, IsPrefix, Breaks, IsWord
    <3>4. HeldInv'
      BY <2>3, <3>3 DEF vars, task_vars, ghosts, TextInv, HeldInv
    <3> QED
      BY <3>1, <3>2, <3>4 DEF TextInv
  <2> QED
    BY <2>1, <2>2, <2>3 DEF Next
<1> QED
  BY <1>1, <1>2, PTL DEF Spec

-----------------------------------------------------------------------------
(* The words.                                                              *)

LEMMA Joined ==
    ASSUME NEW a \in Seq(Item), NEW b \in Seq(Item)
    PROVE  /\ a \o b \in Seq(Item) /\ Len(a) \in Nat /\ Len(b) \in Nat
           /\ DOMAIN (a \o b) = 1 .. Len(a) + Len(b)
           /\ \A i \in 1 .. Len(a) + Len(b) : (a \o b)[i] = IF i <= Len(a) THEN a[i] ELSE b[i - Len(a)]
<1>1. /\ a \o b \in Seq(Item) /\ Len(a \o b) = Len(a) + Len(b)
      /\ \A i \in 1 .. Len(a) + Len(b) : (a \o b)[i] = IF i <= Len(a) THEN a[i] ELSE b[i - Len(a)]
  BY ConcatProperties, Zenon
<1>2. DOMAIN (a \o b) = 1 .. Len(a \o b) /\ Len(a) \in Nat /\ Len(b) \in Nat
  BY <1>1, LenProperties
<1> QED
  BY <1>1, <1>2

LEMMA Regrouped ==
    ASSUME NEW a \in Seq(Item), NEW b \in Seq(Item), NEW c \in Seq(Item)
    PROVE  (a \o b) \o c = a \o (b \o c)
<1>1. \A S : \A s, t, u \in Seq(S) : (s \o t) \o u = s \o (t \o u)
  BY ConcatAssociative
<1> QED
  BY <1>1

\* The words of s are 1 to m, each once and in this order.
Ordered(s, m) ==
    /\ {s[i].id : i \in WordsIn(s)} = 1 .. m
    /\ \A i, j \in WordsIn(s) : i < j => s[i].id < s[j].id

\* One text differs from another in the translation of its words at most.
Alike(s, t) ==
    /\ DOMAIN t = DOMAIN s
    /\ \A i \in DOMAIN s : t[i].id = s[i].id /\ (IsWord(t[i]) <=> IsWord(s[i]))

LEMMA AlikeOrdered ==
    ASSUME NEW s, NEW t, Alike(s, t), NEW m, Ordered(s, m)
    PROVE  Ordered(t, m)
<1>1. WordsIn(t) = WordsIn(s)
  BY DEF Alike, WordsIn
<1>2. \A i \in WordsIn(s) : t[i].id = s[i].id
  BY DEF Alike, WordsIn
<1>3. {t[i].id : i \in WordsIn(t)} = {s[i].id : i \in WordsIn(s)}
  BY <1>1, <1>2
<1> QED
  BY <1>1, <1>2, <1>3 DEF Ordered

LEMMA AlikeBehind ==
    ASSUME NEW r \in Seq(Item), NEW s \in Seq(Item), NEW t \in Seq(Item), Alike(s, t)
    PROVE  Alike(r \o s, r \o t)
<1>1. /\ Len(r) \in Nat /\ Len(s) \in Nat /\ DOMAIN s = 1 .. Len(s)
      /\ Len(t) \in Nat /\ DOMAIN t = 1 .. Len(t)
  BY LenProperties
<1>2. Len(t) = Len(s)
  BY <1>1 DEF Alike
<1>3. /\ DOMAIN (r \o s) = 1 .. Len(r) + Len(s)
      /\ \A i \in 1 .. Len(r) + Len(s) : (r \o s)[i] = IF i <= Len(r) THEN r[i] ELSE s[i - Len(r)]
  BY Joined
<1>4. /\ DOMAIN (r \o t) = 1 .. Len(r) + Len(s)
      /\ \A i \in 1 .. Len(r) + Len(s) : (r \o t)[i] = IF i <= Len(r) THEN r[i] ELSE t[i - Len(r)]
  BY <1>2, Joined, Zenon
<1>5. ASSUME NEW i \in 1 .. Len(r) + Len(s)
      PROVE  (r \o t)[i].id = (r \o s)[i].id /\ (IsWord((r \o t)[i]) <=> IsWord((r \o s)[i]))
  <2>1. CASE i <= Len(r)
    BY <1>3, <1>4, <2>1
  <2>2. CASE ~(i <= Len(r))
    <3>1. i - Len(r) \in DOMAIN s
      BY <1>1, <2>2
    <3>2. (r \o s)[i] = s[i - Len(r)] /\ (r \o t)[i] = t[i - Len(r)]
      BY <1>3, <1>4, <2>2
    <3> QED
      BY <3>1, <3>2 DEF Alike
  <2> QED
    BY <2>1, <2>2
<1> QED
  BY <1>3, <1>4, <1>5 DEF Alike

LEMMA BreakBehind ==
    ASSUME NEW s \in Seq(Item), NEW m, Ordered(s, m)
    PROVE  Ordered(s \o <<Break>>, m)
<1> DEFINE t == s \o <<Break>>
<1>1. /\ Len(s) \in Nat /\ DOMAIN s = 1 .. Len(s) /\ DOMAIN t = 1 .. Len(s) + 1
      /\ \A i \in 1 .. Len(s) : t[i] = s[i]
      /\ t[Len(s) + 1] = Break
  BY LenProperties, ConcatProperties DEF Break, Item
<1> HIDE DEF t
<1>2. WordsIn(t) = WordsIn(s) /\ \A i \in WordsIn(s) : t[i] = s[i]
  BY <1>1 DEF WordsIn, IsWord
<1>3. {t[i].id : i \in WordsIn(t)} = {s[i].id : i \in WordsIn(s)}
  BY <1>2
<1>4. Ordered(t, m)
  BY <1>2, <1>3 DEF Ordered
<1> QED
  BY <1>4 DEF t

LEMMA WordBehind ==
    ASSUME NEW s \in Seq(Item), NEW m \in Nat, Ordered(s, m)
    PROVE  Ordered(s \o <<Word(m + 1)>>, m + 1)
<1> DEFINE t == s \o <<Word(m + 1)>>
           last == Len(s) + 1
<1>1. /\ Len(s) \in Nat /\ DOMAIN s = 1 .. Len(s) /\ DOMAIN t = 1 .. last
      /\ \A i \in 1 .. Len(s) : t[i] = s[i]
      /\ t[last] = Word(m + 1)
  BY LenProperties, ConcatProperties DEF Word, Item
<1> HIDE DEF t
<1>2. t[last].id = m + 1 /\ IsWord(t[last])
  BY <1>1 DEF Word, IsWord, Break
<1>3. WordsIn(t) = WordsIn(s) \cup {last} /\ \A i \in WordsIn(s) : t[i] = s[i] /\ i \in Nat /\ i < last
  BY <1>1, <1>2 DEF WordsIn
<1>4. \A i \in WordsIn(s) : s[i].id \in 1 .. m
  BY DEF Ordered
<1>5. {t[i].id : i \in WordsIn(t)} = 1 .. m + 1
  <2>1. {t[i].id : i \in WordsIn(t)} = {s[i].id : i \in WordsIn(s)} \cup {m + 1}
    BY <1>2, <1>3
  <2>2. (1 .. m) \cup {m + 1} = 1 .. m + 1
    OBVIOUS
  <2> QED
    BY <2>1, <2>2 DEF Ordered
<1>6. ASSUME NEW i \in WordsIn(t), NEW j \in WordsIn(t), i < j PROVE t[i].id < t[j].id
  <2>1. i \in WordsIn(s)
    BY <1>1, <1>3, <1>6
  <2>2. CASE j \in WordsIn(s)
    BY <1>3, <1>6, <2>1, <2>2 DEF Ordered
  <2>3. CASE j = last
    <3>1. t[i].id = s[i].id /\ s[i].id \in 1 .. m
      BY <1>3, <1>4, <2>1
    <3> QED
      BY <1>2, <2>3, <3>1
  <2> QED
    BY <1>3, <2>2, <2>3
<1>7. Ordered(t, m + 1)
  BY <1>5, <1>6 DEF Ordered
<1> QED
  BY <1>7 DEF t

\* What a step does to the texts of a control.
Kept(c) == doc'[c] = doc[c] /\ sent'[c] = sent[c] /\ typed'[c] = typed[c]
Broke(c) == doc'[c] = doc[c] \o <<Break>> /\ sent'[c] = sent[c] /\ typed'[c] = typed[c]
Grew(c) == doc'[c] = doc[c] \o <<Word(typed[c] + 1)>> /\ sent'[c] = sent[c] /\ typed'[c] = typed[c] + 1
Sent(c) == doc'[c] = <<>> /\ sent'[c] = sent[c] \o doc[c] /\ typed'[c] = typed[c]
Retyped(c) ==
    /\ doc[c] # <<>> /\ IsWord(doc[c][1]) /\ doc'[c] = [doc[c] EXCEPT ![1] = [doc[c][1] EXCEPT !.n = 0]]
    /\ sent'[c] = sent[c] /\ typed'[c] = typed[c] /\ c \notin sel /\ c \in aged'
Pasted(c) ==
    /\ pc = "paste" /\ c = task.target /\ doc[c] = line /\ doc'[c] = Recomposed
    /\ sent'[c] = sent[c] /\ typed'[c] = typed[c] /\ ledger' = [target |-> c, text |-> Recomposed]
Replaced(c) == c \in sel /\ sent'[c] = sent[c] /\ \E i : doc'[c] = <<Word(i)>>

LEMMA WordsKept ==
    ASSUME TextTypes, NEW c \in Controls, Ordered(sent[c] \o doc[c], typed[c]),
           \/ Kept(c) \/ Broke(c) \/ Grew(c) \/ Sent(c) \/ Retyped(c) \/ Pasted(c)
    PROVE  Ordered(sent'[c] \o doc'[c], typed'[c])
<1> DEFINE r == sent[c]  d == doc[c]  m == typed[c]
<1>1. r \in Seq(Item) /\ d \in Seq(Item) /\ m \in Nat /\ r \o d \in Seq(Item)
  BY ConcatProperties DEF TextTypes
<1>2. CASE Kept(c)
  BY <1>2 DEF Kept
<1>3. CASE Broke(c)
  <2>1. r \o (d \o <<Break>>) = (r \o d) \o <<Break>>
    <3>1. <<Break>> \in Seq(Item)
      BY DEF Item, Break
    <3> QED
      BY <1>1, <3>1, Regrouped
  <2> QED
    BY <1>1, <1>3, <2>1, BreakBehind DEF Broke
<1>4. CASE Grew(c)
  <2>1. <<Word(m + 1)>> \in Seq(Item)
    BY <1>1 DEF Word, Item
  <2>2. r \o (d \o <<Word(m + 1)>>) = (r \o d) \o <<Word(m + 1)>>
    BY <1>1, <2>1, Regrouped
  <2> QED
    BY <1>1, <1>4, <2>2, WordBehind DEF Grew
<1>5. CASE Sent(c)
  <2>1. (r \o d) \o <<>> = r \o d
    BY <1>1, ConcatEmptySeq
  <2> QED
    BY <1>5, <2>1 DEF Sent
<1>6. CASE Retyped(c)
  <2> DEFINE w == [d[1] EXCEPT !.n = 0]
             e == [d EXCEPT ![1] = w]
  <2>1. /\ Len(d) \in Nat /\ Len(r) \in Nat /\ DOMAIN d = 1 .. Len(d) /\ 1 \in DOMAIN d /\ d[1] \in Item
    BY <1>1, <1>6, LenProperties, ElementOfSeq, EmptySeq DEF Retyped
  <2>2. w \in Item /\ w.id = d[1].id
    BY <2>1 DEF Item
  <2>3. d[1].id # 0
    <3>1. /\ Len(r) + 1 \in DOMAIN (r \o d) /\ (r \o d)[Len(r) + 1] = d[1]
      <4> HIDE DEF r, d
      <4> QED
        BY <1>1, <2>1, Joined
    <3>2. Len(r) + 1 \in WordsIn(r \o d)
      BY <1>6, <3>1 DEF WordsIn, Retyped
    <3>3. (r \o d)[Len(r) + 1].id \in 1 .. m
      BY <3>2 DEF Ordered
    <3> QED
      BY <1>1, <3>1, <3>3
  <2>4. IsWord(w)
    BY <2>2, <2>3 DEF IsWord, Break
  <2> HIDE DEF w
  <2>5. e \in Seq(Item) /\ DOMAIN e = DOMAIN d
    BY <1>1, <2>1, <2>2, ExceptSeq
  <2>6. \A i \in DOMAIN d : e[i] = IF i = 1 THEN w ELSE d[i]
    OBVIOUS
  <2>7. Alike(d, e)
    BY <1>6, <2>2, <2>4, <2>5, <2>6 DEF Alike, Retyped
  <2>8. Alike(r \o d, r \o e)
    BY <1>1, <2>5, <2>7, AlikeBehind
  <2>9. Ordered(r \o e, m)
    BY <2>8, AlikeOrdered
  <2> QED
    BY <1>6, <2>9 DEF Retyped, w
<1>7. CASE Pasted(c)
  <2>1. Alike(d, Recomposed) /\ Recomposed \in Seq(Item)
    BY <1>7, Recomposes DEF Pasted, Alike
  <2>2. Alike(r \o d, r \o Recomposed)
    BY <1>1, <2>1, AlikeBehind
  <2> QED
    BY <1>7, <2>2, AlikeOrdered DEF Pasted
<1> QED
  BY <1>2, <1>3, <1>4, <1>5, <1>6, <1>7

\* Every step leaves the texts of all controls but the one with the focus as
\* they are; what it does to that one's.
LEMMA Elsewhere ==
    ASSUME TextTypes, Next, NEW c \in Controls, c # fg
    PROVE  Kept(c)
<1>1. CASE User
  <2>1. UNCHANGED typed \/ \E v : typed' = [typed EXCEPT ![fg] = v]
    BY <1>1 DEF User, Type, ShiftEnter, RetypeFirst, Move, PostTask, Suppressed, PassedThrough, EndsBlock, user_vars
  <2>2. UNCHANGED doc \/ \E v : doc' = [doc EXCEPT ![fg] = v]
    BY <1>1 DEF User, Type, ShiftEnter, RetypeFirst, Move, PostTask, Suppressed, PassedThrough, PutText, EnterKey
  <2>3. UNCHANGED sent \/ \E v : sent' = [sent EXCEPT ![fg] = v]
    BY <1>1 DEF User, Type, ShiftEnter, RetypeFirst, Move, PostTask, Suppressed, PassedThrough, PutText, EnterKey
  <2> QED
    BY <2>1, <2>2, <2>3 DEF Kept, TextTypes
<1>2. CASE Worker
  <2>1. UNCHANGED typed
    BY <1>2 DEF Worker, BeginTask, ImeBackstop, CopySelectedText, CopyFails, HoldEmpty, SendEmpty, JudgeSendThrough,
         JudgeTranslate, Consume, SendThroughWithNewlineTracking, Translate, PasteAndRestore, PasteAborts,
         ReleaseSelection, SendGate, ClearBusy, ClearTarget, Worker_frame, user_vars
  <2>2. UNCHANGED doc \/ \E v : doc' = [doc EXCEPT ![fg] = v]
    BY <1>2 DEF Worker, BeginTask, ImeBackstop, CopySelectedText, CopyFails, HoldEmpty, SendEmpty, JudgeSendThrough,
         JudgeTranslate, Consume, SendThroughWithNewlineTracking, Translate, PasteAndRestore, PasteAborts,
         ReleaseSelection, SendGate, ClearBusy, ClearTarget, PutText, EnterKey
  <2>3. UNCHANGED sent \/ \E v : sent' = [sent EXCEPT ![fg] = v]
    BY <1>2 DEF Worker, BeginTask, ImeBackstop, CopySelectedText, CopyFails, HoldEmpty, SendEmpty, JudgeSendThrough,
         JudgeTranslate, Consume, SendThroughWithNewlineTracking, Translate, PasteAndRestore, PasteAborts,
         ReleaseSelection, SendGate, ClearBusy, ClearTarget, PutText, EnterKey
  <2> QED
    BY <2>1, <2>2, <2>3 DEF Kept, TextTypes
<1> QED
  BY <1>1, <1>2 DEF Next

\* What a key or a paste does, by whether the text it meets is selected.
LEMMA PutEffect ==
    ASSUME TextTypes, NEW c \in Controls, NEW s, PutText(c, s)
    PROVE  doc'[c] = IF c \in sel THEN s ELSE doc[c] \o s
BY DEF PutText, Insert, TextTypes

LEMMA EnterEffect ==
    ASSUME TextTypes, NEW c \in Controls, EnterKey(c), typed' = typed
    PROVE  Sent(c) \/ Broke(c) \/ (c \in Editors /\ Replaced(c))
<1>1. CASE c \in Chats
  BY <1>1 DEF EnterKey, Sent, TextTypes
<1>2. CASE c \notin Chats
  <2>1. PutText(c, <<Break>>) /\ sent' = sent /\ c \in Editors
    BY <1>2 DEF EnterKey, Controls
  <2>2. Break = Word(0)
    BY DEF Break, Word
  <2> QED
    BY <2>1, <2>2, PutEffect DEF Broke, Replaced
<1> QED
  BY <1>1, <1>2

LEMMA UserEffect ==
    ASSUME IInv, TextInv, User
    PROVE  \/ Kept(fg) \/ Broke(fg) \/ Grew(fg) \/ Sent(fg) \/ Retyped(fg)
           \/ Replaced(fg) /\ fg \in spoiled'
<1> USE DEF TextInv
<1>1. fg \in Controls
  BY DEF IInv, TaskInv
<1>2. CASE Type
  <2>1. PutText(fg, <<Word(typed[fg] + 1)>>) /\ typed' = [typed EXCEPT ![fg] = typed[fg] + 1] /\ sent' = sent
        /\ TypedOver(fg)
    BY <1>2 DEF Type
  <2>2. typed'[fg] = typed[fg] + 1
    BY <1>1, <2>1 DEF TextTypes
  <2> QED
    BY <1>1, <2>1, <2>2, PutEffect DEF Grew, Replaced, TypedOver
<1>3. CASE ShiftEnter
  <2>1. PutText(fg, <<Break>>) /\ typed' = typed /\ sent' = sent /\ TypedOver(fg)
    BY <1>3 DEF ShiftEnter
  <2>2. Break = Word(0)
    BY DEF Break, Word
  <2> QED
    BY <1>1, <2>1, <2>2, PutEffect DEF Broke, Replaced, TypedOver
<1>4. CASE RetypeFirst
  <2>1. /\ doc[fg] # <<>> /\ IsWord(doc[fg][1]) /\ fg \notin sel /\ UNCHANGED <<sent, typed>> /\ fg \in aged'
        /\ doc' = [doc EXCEPT ![fg] = [doc[fg] EXCEPT ![1] = [doc[fg][1] EXCEPT !.n = 0]]]
    BY <1>4 DEF RetypeFirst
  <2> QED
    BY <1>1, <2>1 DEF Retyped, TextTypes
<1>5. CASE Move \/ PostTask \/ Suppressed
  BY <1>5 DEF Move, PostTask, Suppressed, EndsBlock, Kept
<1>6. CASE PassedThrough
  <2>1. EnterKey(fg) /\ typed' = typed /\ spoiled' = IF fg \in sel \cap Editors THEN spoiled \cup {fg} ELSE spoiled
    BY <1>6 DEF PassedThrough
  <2> QED
    BY <1>1, <2>1, EnterEffect DEF Replaced
<1> QED
  BY <1>2, <1>3, <1>4, <1>5, <1>6 DEF User

\* A task puts back what it captured, or its translation - unless the user
\* typed over the capture.
LEMMA WorkerEffect ==
    ASSUME Careful, IInv, TextInv, Worker
    PROVE  \/ Kept(fg) \/ Broke(fg) \/ Sent(fg) \/ Pasted(fg)
           \/ Replaced(fg) /\ pc = "enter" /\ fg = task.target
           \/ fg \in spoiled /\ TypesAhead
<1> USE DEF TextInv
<1>1. fg \in Controls
  BY DEF IInv, TaskInv
<1>2. typed' = typed
  BY DEF Worker, BeginTask, ImeBackstop, CopySelectedText, CopyFails, HoldEmpty, SendEmpty, JudgeSendThrough,
         JudgeTranslate, Consume, SendThroughWithNewlineTracking, Translate, PasteAndRestore, PasteAborts,
         ReleaseSelection, SendGate, ClearBusy, ClearTarget, Worker_frame, user_vars
<1>3. CASE UNCHANGED <<doc, sent>>
  BY <1>2, <1>3 DEF Kept
<1>4. CASE Consume \/ ReleaseSelection
  <2>1. sent' = sent /\ (doc' = doc \/ (PutText(fg, line) /\ pc \in Holding /\ fg = task.target))
    BY <1>4 DEF Consume, ReleaseSelection, Holding
  <2>2. ASSUME PutText(fg, line), pc \in Holding, fg = task.target, fg \notin spoiled \/ ~TypesAhead
        PROVE  doc'[fg] = doc[fg]
    BY <1>1, <2>2, PutEffect DEF HeldInv
  <2> QED
    BY <1>2, <2>1, <2>2 DEF Kept
<1>5. CASE PasteAndRestore
  <2>1. /\ pc = "paste" /\ fg = task.target /\ PutText(fg, out) /\ sent' = sent
        /\ ledger' = [target |-> fg, text |-> out] /\ out = Recomposed
    BY <1>5 DEF PasteAndRestore, HeldInv
  <2>2. fg \notin spoiled \/ ~TypesAhead => fg \in sel /\ doc[fg] = line
    BY <2>1 DEF HeldInv, Holding
  <2> QED
    BY <1>1, <1>2, <2>1, <2>2, PutEffect DEF Pasted
<1>6. CASE SendThroughWithNewlineTracking
  <2>1. \/ EnterKey(fg)  /\ fg \in Chats
        \/ doc' = [doc EXCEPT ![fg] = Append(@, Break)] /\ UNCHANGED sent
    BY <1>6 DEF SendThroughWithNewlineTracking, Released, Careful
  <2>2. CASE EnterKey(fg) /\ fg \in Chats
    BY <1>1, <1>2, <2>2, EnterEffect, PipelineAssumption
  <2>3. CASE doc' = [doc EXCEPT ![fg] = Append(@, Break)] /\ UNCHANGED sent
    <3>1. doc'[fg] = Append(doc[fg], Break)
      BY <1>1, <2>3 DEF TextTypes
    <3>2. Append(doc[fg], Break) = doc[fg] \o <<Break>>
      BY <1>1, AppendIsConcat DEF TextTypes, Item, Break
    <3> QED
      BY <1>2, <2>3, <3>1, <3>2 DEF Broke
  <2> QED
    BY <2>1, <2>2, <2>3
<1>7. CASE SendGate
  <2>1. CASE InjectsEnter
    <3>1. fg = task.target
      BY <2>1 DEF InjectsEnter, SameWindow, Careful, IInv, TaskInv
    <3>2. EnterKey(fg) /\ pc = "enter"
      BY <1>7, <2>1 DEF SendGate
    <3> QED
      BY <1>1, <1>2, <3>1, <3>2, EnterEffect
  <2>2. CASE ~InjectsEnter
    BY <1>3, <1>7, <2>2 DEF SendGate
  <2> QED
    BY <2>1, <2>2
<1> QED
  BY <1>3, <1>4, <1>5, <1>6, <1>7 DEF Worker, BeginTask, ImeBackstop, CopySelectedText, CopyFails, HoldEmpty, SendEmpty,
         JudgeSendThrough, JudgeTranslate, Translate, PasteAborts, ClearBusy, ClearTarget

-----------------------------------------------------------------------------
\* The user does not come back between a release that was skipped and the send
\* gate: its Enter would meet a whole text selected.
Settles == Careful /\ "enter" \notin Roams

EnterInv == pc = "enter" /\ fg = task.target => fg \notin sel
WordsInv == \A c \in Controls \ spoiled : Ordered(sent[c] \o doc[c], typed[c])

LEMMA EnterStep ==
    ASSUME Settles, IInv, EnterInv, Next
    PROVE  EnterInv'
<1>1. CASE User
  <2>1. pc' = pc /\ task' = task /\ sel' \subseteq sel /\ (fg' = fg \/ Move)
    BY <1>1 DEF User, Type, ShiftEnter, RetypeFirst, Move, PostTask, Suppressed, PassedThrough, PutText, EnterKey,
                task_vars, ghosts
  <2>2. Move => pc # "enter"
    BY DEF Move, Place, Settles
  <2> QED
    BY <2>1, <2>2 DEF EnterInv
<1>2. CASE Worker
  <2>1. pc' = "enter" => PasteAndRestore \/ ReleaseSelection
    BY <1>2 DEF Worker, BeginTask, ImeBackstop, CopySelectedText, CopyFails, HoldEmpty, SendEmpty, JudgeSendThrough,
         JudgeTranslate, Consume, SendThroughWithNewlineTracking, Translate, PasteAborts, SendGate, ClearBusy,
         ClearTarget, GoTo
  <2>2. CASE PasteAndRestore \/ ReleaseSelection
    <3>1. UNCHANGED <<fg, task>> /\ (fg # task.target \/ sel' = sel \ {fg})
      BY <2>2, Taken DEF Settles, PasteAndRestore, ReleaseSelection, Worker_frame, task_vars
    <3> QED
      BY <3>1 DEF EnterInv
  <2> QED
    BY <2>1, <2>2 DEF EnterInv
<1> QED
  BY <1>1, <1>2 DEF Next

LEMMA WordsStep ==
    ASSUME Settles, IInv, TextInv, EnterInv, WordsInv, Next
    PROVE  WordsInv'
<1>1. spoiled \subseteq spoiled'
  BY DEF Next, User, Type, ShiftEnter, RetypeFirst, Move, PostTask, Suppressed, PassedThrough, TypedOver, ghosts,
         Worker, BeginTask, ImeBackstop, CopySelectedText, CopyFails, HoldEmpty, SendEmpty, JudgeSendThrough,
         JudgeTranslate, Consume, SendThroughWithNewlineTracking, Translate, PasteAndRestore, PasteAborts,
         ReleaseSelection, SendGate, ClearBusy, ClearTarget, Worker_frame
<1>2. ASSUME NEW c \in Controls \ spoiled'
      PROVE  Ordered(sent'[c] \o doc'[c], typed'[c])
  <2>1. c \in Controls /\ c \notin spoiled /\ Ordered(sent[c] \o doc[c], typed[c]) /\ TextTypes
    BY <1>1, <1>2 DEF WordsInv, TextInv
  <2>2. CASE c # fg
    BY <2>1, <2>2, Elsewhere, WordsKept
  <2>3. CASE c = fg
    <3>1. Kept(c) \/ Broke(c) \/ Grew(c) \/ Sent(c) \/ Retyped(c) \/ Pasted(c)
      <4>1. User => Kept(c) \/ Broke(c) \/ Grew(c) \/ Sent(c) \/ Retyped(c)
        BY <1>2, <2>3, UserEffect
      <4>2. Worker => Kept(c) \/ Broke(c) \/ Sent(c) \/ Pasted(c)
        BY <2>1, <2>3, WorkerEffect DEF Settles, EnterInv, Replaced
      <4> QED
        BY <4>1, <4>2 DEF Next
    <3> QED
      BY <2>1, <3>1, WordsKept
  <2> QED
    BY <2>2, <2>3
<1> QED
  BY <1>2 DEF WordsInv

\* Every word the user typed is in the control's text or was sent from it, once
\* and in its place (worker.cpp's task, CopySelectedText and PasteAndRestore of
\* win32_input.cpp).
THEOREM WordsCorrect == Settles => (Spec => []WordsSurvive)
<1> SUFFICES ASSUME Settles PROVE Spec => []WordsSurvive
  OBVIOUS
<1>1. Careful
  BY DEF Settles
<1>2. Init => EnterInv /\ WordsInv
  <2> SUFFICES ASSUME Init PROVE EnterInv /\ WordsInv
    OBVIOUS
  <2>1. ASSUME NEW c \in Controls PROVE Ordered(sent[c] \o doc[c], typed[c])
    <3>1. sent[c] = <<>> /\ doc[c] = <<>> /\ typed[c] = 0
      BY DEF Init
    <3>2. <<>> \o <<>> = <<>> /\ WordsIn(<<>>) = {}
      BY DEF WordsIn
    <3> QED
      BY <3>1, <3>2 DEF Ordered
  <2> QED
    BY <2>1 DEF Init, EnterInv, WordsInv
<1>3. IInv /\ TextInv /\ EnterInv /\ WordsInv /\ [Next]_vars => (EnterInv /\ WordsInv)'
  <2>1. CASE UNCHANGED vars
    BY <2>1 DEF vars, task_vars, user_vars, ghosts, EnterInv, WordsInv, Ordered, WordsIn, IsWord
  <2> QED
    BY <2>1, EnterStep, WordsStep
<1>4. IInv /\ TextInv /\ WordsInv => WordsSurvive
  <2> SUFFICES ASSUME IInv, TextInv, WordsInv PROVE WordsSurvive
    OBVIOUS
  <2>1. Len(queue) <= 1
    <3>1. queue = <<>> \/ \E x : queue = <<x>>
      BY DEF IInv, TaskInv
    <3> QED
      BY <3>1
  <2>2. TypeOK
    BY <2>1 DEF IInv, TaskInv, TextInv, TextTypes, SetTypes, TypeOK, Item
  <2> QED
    BY <2>2 DEF WordsSurvive, WordsInv, Ordered
<1> QED
  BY <1>1, <1>2, <1>3, <1>4, TextInvariance, PTL DEF Spec

-----------------------------------------------------------------------------
(* The translations.                                                       *)

\* The user waits for a task that has the text.
Waits == Careful /\ ~TypesAhead

Fresh(s) == \A i \in DOMAIN s : s[i].n = 0
Once(s) == \A i \in DOMAIN s : s[i].n <= 1

\* The ledger has what of the control's text was translated.
Told(c) ==
    /\ ledger.target = c /\ Len(ledger.text) <= Len(doc[c])
    /\ \A i \in 1 .. Len(ledger.text) : doc[c][i] = ledger.text[i]
    /\ \A i \in DOMAIN doc[c] : i > Len(ledger.text) => doc[c][i].n = 0

LedgerInv == \A c \in Controls \ aged : Once(sent[c]) /\ Once(doc[c]) /\ (Fresh(doc[c]) \/ Told(c))
NewInv == pc \in {"translate", "paste"} => ~ExactMatch

\* The block never begins inside what was pasted last.
LEMMA Floor ==
    ASSUME TextTypes, LedgerMatches, ~ExactMatch
    PROVE  F3BlockSliceRefine \in Nat /\ Len(ledger.text) <= F3BlockSliceRefine
<1> DEFINE start == FindCurrentBlockStart(line, EffectiveSliceKForVerdict)
           floor == Len(ledger.text)
           m == IF start < floor THEN floor ELSE start
           S == {i \in DOMAIN line : \A j \in m + 1 .. i : line[j] = Break}
<1>1. Len(line) \in Nat /\ DOMAIN line = 1 .. Len(line) /\ floor \in Nat /\ floor <= Len(line)
  BY LenProperties DEF TextTypes, LedgerMatches, IsPrefix
<1>2. start \in Nat
  <2> DEFINE P == {i \in DOMAIN line : Cardinality({j \in Breaks(line) : j >= i}) > EffectiveSliceKForVerdict}
  <2>1. P \subseteq 1 .. Len(line)
    BY <1>1
  <2> HIDE DEF P
  <2>2. Cardinality(P) \in Nat
    <3>1. IsFiniteSet(1 .. Len(line))
      BY <1>1, FS_Interval
    <3>2. IsFiniteSet(P)
      BY <2>1, <3>1, FS_Subset
    <3> QED
      BY <3>2, FS_CardinalityType
  <2> QED
    BY <2>2 DEF FindCurrentBlockStart, P
<1> HIDE DEF start, floor
<1>3. m \in Nat /\ floor <= m
  BY <1>1, <1>2
<1>4. F3BlockSliceRefine = Cardinality(S)
  BY DEF F3BlockSliceRefine, Swept, start, floor
<1>5. 1 .. floor \subseteq S /\ S \subseteq 1 .. Len(line)
  <2>1. ASSUME NEW i \in 1 .. floor PROVE i \in S
    <3>1. i \in DOMAIN line /\ m + 1 .. i = {}
      BY <1>1, <1>3
    <3> QED
      BY <3>1
  <2> QED
    BY <1>1, <2>1
<1> HIDE DEF S
<1>6. IsFiniteSet(1 .. Len(line)) /\ Cardinality(1 .. floor) = floor
  BY <1>1, FS_Interval
<1>7. IsFiniteSet(S)
  BY <1>5, <1>6, FS_Subset
<1>8. Cardinality(1 .. floor) <= Cardinality(S) /\ Cardinality(S) \in Nat
  BY <1>5, <1>7, FS_Subset, FS_CardinalityType
<1> QED
  BY <1>4, <1>6, <1>8 DEF floor

\* So what is translated was not.
LEMMA PasteOnce ==
    ASSUME Careful, IInv, TextInv, NewInv, NEW c \in Controls, Pasted(c), Once(sent[c]), Once(doc[c]),
           Fresh(doc[c]) \/ Told(c)
    PROVE  Once(sent'[c]) /\ Once(doc'[c]) /\ Told(c)'
<1>1. /\ pc = "paste" /\ c = task.target /\ doc[c] = line /\ doc'[c] = Recomposed /\ sent'[c] = sent[c]
      /\ ledger'.target = c /\ ledger'.text = Recomposed
  BY DEF Pasted
<1>2. /\ Recomposed \in Seq(Item) /\ DOMAIN Recomposed = DOMAIN line /\ DOMAIN Recomposed = 1 .. Len(Recomposed)
      /\ Len(Recomposed) \in Nat /\ Len(line) \in Nat /\ DOMAIN line = 1 .. Len(line)
      /\ \A i \in DOMAIN line : line[i] \in Item
  BY Recomposes, LenProperties, ElementOfSeq DEF TextInv, TextTypes
<1>3. \A i \in DOMAIN line : \/ Recomposed[i].n = line[i].n
                             \/ i > F3BlockSliceRefine /\ Recomposed[i].n = line[i].n + 1
  BY Recomposes DEF TextInv
<1>4. ASSUME NEW i \in DOMAIN line, i > F3BlockSliceRefine PROVE line[i].n = 0
  <2>1. CASE Fresh(doc[c])
    BY <1>1, <2>1 DEF Fresh
  <2>2. CASE ~Fresh(doc[c])
    <3>1. Told(c) /\ Len(ledger.text) \in Nat /\ ledger.text \in Seq(Item)
      BY <2>2, LenProperties DEF TextInv, TextTypes
    <3>2. ledger.text # <<>>
      BY <1>1, <1>2, <2>2, <3>1, EmptySeq DEF Told, Fresh
    <3>3. LedgerPresent
      BY <1>1, <3>1, <3>2, PipelineAssumption DEF LedgerPresent, SameWindow, Told
    <3>4. IsPrefix(ledger.text, line)
      <4>1. Len(ledger.text) <= Len(line) /\ \A j \in 1 .. Len(ledger.text) : line[j] = ledger.text[j]
        BY <1>1, <3>1 DEF Told
      <4>2. SubSeq(line, 1, Len(ledger.text)) = ledger.text
        <5> DEFINE p == ledger.text  q == SubSeq(line, 1, Len(p))
        <5>1. q \in Seq(Item) /\ Len(q) = Len(p) /\ \A j \in 1 .. Len(p) : q[j] = line[j]
          BY <1>2, <3>1, <4>1, SubSeqProperties DEF TextInv, TextTypes
        <5> HIDE DEF p, q
        <5>2. \A j \in 1 .. Len(q) : q[j] = p[j]
          BY <4>1, <5>1 DEF p
        <5> QED
          BY <3>1, <5>1, <5>2, SeqEqual DEF p, q
      <4> QED
        BY <4>1, <4>2 DEF IsPrefix
    <3>5. LedgerMatches /\ ~ExactMatch
      BY <1>1, <3>3, <3>4 DEF LedgerMatches, NewInv
    <3>6. i > Len(ledger.text)
      BY <1>2, <1>4, <3>1, <3>5, Floor DEF TextInv
    <3> QED
      BY <1>1, <3>1, <3>6 DEF Told
  <2> QED
    BY <2>1, <2>2
<1>5. ASSUME NEW i \in DOMAIN line PROVE Recomposed[i].n <= 1
  <2>1. line[i].n <= 1
    BY <1>1 DEF Once
  <2>2. Recomposed[i].n = line[i].n \/ (line[i].n = 0 /\ Recomposed[i].n = line[i].n + 1)
    BY <1>3, <1>4
  <2> QED
    BY <2>1, <2>2
<1> QED
  BY <1>1, <1>2, <1>5 DEF Once, Told

\* A text that grows at its end by something new keeps what is known of it.
LEMMA GrownOnce ==
    ASSUME TextTypes, NEW c \in Controls, NEW x \in Item, x.n = 0, doc'[c] = doc[c] \o <<x>>, sent'[c] = sent[c],
           ledger.target = c => ledger' = ledger, Once(sent[c]), Once(doc[c]), Fresh(doc[c]) \/ Told(c)
    PROVE  Once(sent'[c]) /\ Once(doc'[c]) /\ (Fresh(doc'[c]) \/ Told(c)')
<1> DEFINE d == doc[c]  e == d \o <<x>>
<1>1. /\ Len(d) \in Nat /\ DOMAIN d = 1 .. Len(d) /\ DOMAIN e = 1 .. Len(d) + 1 /\ Len(e) = Len(d) + 1
      /\ \A i \in 1 .. Len(d) : e[i] = d[i]
      /\ e[Len(d) + 1] = x
  <2>1. d \in Seq(Item) /\ <<x>> \in Seq(Item) /\ Len(<<x>>) = 1 /\ <<x>>[1] = x
    BY DEF TextTypes
  <2> HIDE DEF d
  <2> QED
    BY <2>1, Joined, LenProperties
<1> HIDE DEF d, e
<1>2. Once(e)
  BY <1>1 DEF Once, d
<1>3. CASE Fresh(d)
  BY <1>1, <1>2, <1>3 DEF Fresh, d, e
<1>4. CASE Told(c)
  <2>1. ledger' = ledger /\ ledger.target = c /\ Len(ledger.text) \in Nat /\ Len(ledger.text) <= Len(d)
    BY <1>4, LenProperties DEF Told, TextTypes, d
  <2>2. \A i \in 1 .. Len(ledger.text) : e[i] = ledger.text[i]
    BY <1>1, <1>4, <2>1 DEF Told, d
  <2>3. \A i \in DOMAIN e : i > Len(ledger.text) => e[i].n = 0
    BY <1>1, <1>4, <2>1 DEF Told, d
  <2>4. doc'[c] = e /\ Len(ledger.text) <= Len(e)
    BY <1>1, <2>1 DEF d, e
  <2>5. Told(c)'
    BY <2>1, <2>2, <2>3, <2>4 DEF Told
  <2> QED
    BY <1>2, <2>4, <2>5
<1> QED
  BY <1>3, <1>4 DEF d

\* The ledger of a control changes by its own paste, or the control is aged.
LEMMA LedgerOf ==
    ASSUME Waits, IInv, TextInv, Next, NEW c \in Controls \ aged', ledger.target = c
    PROVE  ledger' = ledger \/ Pasted(c)
<1>1. CASE PasteAndRestore
  <2>1. /\ pc = "paste" /\ fg = task.target /\ PutText(fg, out) /\ sent' = sent /\ typed' = typed
        /\ ledger' = [target |-> fg, text |-> out] /\ out = Recomposed
        /\ aged' = aged \cup ({ledger.target} \ {task.target, NoControl})
    BY <1>1 DEF PasteAndRestore, TextInv, HeldInv, Worker_frame, user_vars
  <2>2. c = fg
    BY <2>1, PipelineAssumption
  <2>3. fg \in sel /\ doc[fg] = line
    BY <2>1 DEF TextInv, HeldInv, Holding, Waits
  <2> QED
    BY <2>1, <2>2, <2>3, PutEffect DEF Pasted, TextInv
<1>2. CASE SendGate
  BY <1>2, PipelineAssumption DEF SendGate
<1>3. CASE UNCHANGED ledger
  BY <1>3
<1> QED
  BY <1>1, <1>2, <1>3 DEF Next, User, Type, ShiftEnter, RetypeFirst, Move, PostTask, Suppressed, PassedThrough,
         Worker, BeginTask, ImeBackstop, CopySelectedText, CopyFails, HoldEmpty, SendEmpty, JudgeSendThrough,
         JudgeTranslate, Consume, SendThroughWithNewlineTracking, Translate, PasteAborts, ReleaseSelection,
         ClearBusy, ClearTarget

LEMMA LedgerStep ==
    ASSUME Waits, IInv, TextInv, NewInv, LedgerInv, Next
    PROVE  LedgerInv'
<1>1. aged \subseteq aged'
  BY DEF Next, User, Type, ShiftEnter, RetypeFirst, Move, PostTask, Suppressed, PassedThrough, TypedOver, ghosts,
         Worker, BeginTask, ImeBackstop, CopySelectedText, CopyFails, HoldEmpty, SendEmpty, JudgeSendThrough,
         JudgeTranslate, Consume, SendThroughWithNewlineTracking, Translate, PasteAndRestore, PasteAborts,
         ReleaseSelection, SendGate, ClearBusy, ClearTarget
<1>2. ASSUME NEW c \in Controls \ aged'
      PROVE  Once(sent'[c]) /\ Once(doc'[c]) /\ (Fresh(doc'[c]) \/ Told(c)')
  <2>1. /\ c \in Controls /\ c \notin aged /\ Once(sent[c]) /\ Once(doc[c]) /\ (Fresh(doc[c]) \/ Told(c))
        /\ TextTypes /\ Careful /\ sent[c] \in Seq(Item) /\ doc[c] \in Seq(Item)
    BY <1>1, <1>2 DEF LedgerInv, TextInv, TextTypes, Waits
  <2>2. CASE Pasted(c)
    BY <2>1, <2>2, PasteOnce
  <2>3. ASSUME ~Pasted(c) PROVE ledger.target = c => ledger' = ledger
    BY <1>2, <2>3, LedgerOf
  <2>4. CASE Kept(c) /\ ~Pasted(c)
    BY <2>1, <2>3, <2>4 DEF Kept, Told
  <2>5. CASE (Broke(c) \/ Grew(c)) /\ ~Pasted(c)
    <3>1. PICK x \in Item : x.n = 0 /\ doc'[c] = doc[c] \o <<x>> /\ sent'[c] = sent[c]
      <4>1. Break \in Item /\ Break.n = 0 /\ Word(typed[c] + 1) \in Item /\ Word(typed[c] + 1).n = 0
        BY <2>1 DEF Break, Word, Item, TextTypes
      <4> QED
        BY <2>5, <4>1 DEF Broke, Grew
    <3> QED
      BY <2>1, <2>3, <2>5, <3>1, GrownOnce
  <2>6. CASE Sent(c)
    <3>1. Once(sent[c] \o doc[c])
      <4> DEFINE r == sent[c]  d == doc[c]
      <4>1. r \in Seq(Item) /\ d \in Seq(Item) /\ Once(r) /\ Once(d)
        BY <2>1
      <4> HIDE DEF r, d
      <4>2. Once(r \o d)
        BY <4>1, Joined, LenProperties DEF Once
      <4> QED
        BY <4>2 DEF r, d
    <3>2. Fresh(<<>>) /\ Once(<<>>)
      BY DEF Fresh, Once
    <3> QED
      BY <2>6, <3>1, <3>2 DEF Sent
  <2>7. CASE Replaced(c)
    <3>1. PICK i : doc'[c] = <<Word(i)>>
      BY <2>7 DEF Replaced
    <3>2. Fresh(<<Word(i)>>) /\ Once(<<Word(i)>>)
      BY DEF Fresh, Once, Word
    <3> QED
      BY <2>1, <2>7, <3>1, <3>2 DEF Replaced
  <2>8. Kept(c) \/ Broke(c) \/ Grew(c) \/ Sent(c) \/ Pasted(c) \/ Replaced(c)
    <3>1. CASE c # fg
      BY <2>1, <3>1, Elsewhere
    <3>2. CASE c = fg
      <4>1. User => Kept(c) \/ Broke(c) \/ Grew(c) \/ Sent(c) \/ Replaced(c)
        BY <1>2, <3>2, UserEffect DEF Retyped
      <4>2. Worker => Kept(c) \/ Broke(c) \/ Sent(c) \/ Pasted(c) \/ Replaced(c)
        BY <3>2, WorkerEffect DEF Waits
      <4> QED
        BY <4>1, <4>2 DEF Next
    <3> QED
      BY <3>1, <3>2
  <2> QED
    BY <2>2, <2>4, <2>5, <2>6, <2>7, <2>8
<1> QED
  BY <1>2 DEF LedgerInv

LEMMA NewStep ==
    ASSUME IInv, NewInv, Next
    PROVE  NewInv'
<1>1. ASSUME UNCHANGED <<task, line, ledger>> PROVE ExactMatch' = ExactMatch
  BY <1>1 DEF ExactMatch, LedgerPresent, SameWindow
<1>2. CASE User
  <2>1. UNCHANGED <<pc, task, line, ledger>>
    BY <1>2 DEF User, Type, ShiftEnter, RetypeFirst, Move, PostTask, Suppressed, PassedThrough, task_vars
  <2> QED
    BY <1>1, <2>1 DEF NewInv
<1>3. CASE JudgeTranslate \/ Translate
  <2>1. UNCHANGED <<task, line, ledger>> /\ (pc = "translate" \/ ~ExactMatch)
    BY <1>3 DEF JudgeTranslate, Translate, NothingNew, task_vars
  <2> QED
    BY <1>1, <2>1 DEF NewInv
<1>4. ASSUME Worker, ~JudgeTranslate, ~Translate PROVE NewInv'
  BY <1>4 DEF Worker, BeginTask, ImeBackstop, CopySelectedText, CopyFails, HoldEmpty, SendEmpty, JudgeSendThrough,
         Consume, SendThroughWithNewlineTracking, PasteAndRestore, PasteAborts, ReleaseSelection, SendGate,
         ClearBusy, ClearTarget, GoTo, NewInv
<1> QED
  BY <1>2, <1>3, <1>4 DEF Next

\* A word is translated once, as long as the user did not retype it and no other
\* control's task took the one-entry ledger (worker.cpp's verdict, worker.hpp's
\* block and F3BlockSliceRefine).
THEOREM OnceCorrect == Waits => (Spec => []TranslatedOnce)
<1> SUFFICES ASSUME Waits PROVE Spec => []TranslatedOnce
  OBVIOUS
<1>1. Careful
  BY DEF Waits
<1>2. Init => NewInv /\ LedgerInv
  BY DEF Init, NewInv, LedgerInv, Once, Fresh
<1>3. IInv /\ TextInv /\ NewInv /\ LedgerInv /\ [Next]_vars => (NewInv /\ LedgerInv)'
  <2>1. CASE UNCHANGED vars
    BY <2>1 DEF vars, task_vars, user_vars, ghosts, NewInv, LedgerInv, Once, Fresh, Told, ExactMatch, LedgerPresent,
                SameWindow
  <2> QED
    BY <2>1, LedgerStep, NewStep
<1>4. TextInv /\ LedgerInv => TranslatedOnce
  <2> SUFFICES ASSUME TextInv, LedgerInv, NEW c \in Controls \ aged
               PROVE  \A i \in DOMAIN (sent[c] \o doc[c]) : (sent[c] \o doc[c])[i].n =< 1
    BY DEF TranslatedOnce
  <2> DEFINE r == sent[c]  d == doc[c]
  <2>1. r \in Seq(Item) /\ d \in Seq(Item) /\ Once(r) /\ Once(d)
    BY DEF TextInv, TextTypes, LedgerInv
  <2> HIDE DEF r, d
  <2>2. \A i \in DOMAIN (r \o d) : (r \o d)[i].n =< 1
    BY <2>1, Joined, LenProperties DEF Once
  <2> QED
    BY <2>2 DEF r, d
<1> QED
  BY <1>1, <1>2, <1>3, <1>4, TextInvariance, PTL DEF Spec
=============================================================================
