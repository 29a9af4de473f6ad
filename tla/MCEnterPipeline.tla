-------------------------- MODULE MCEnterPipeline --------------------------
(* Instances of EnterPipeline for TLC. *)
EXTENDS EnterPipeline

CONSTANTS chat, editor, aside

\* Two controls of one window, or every control a window of its own.
OwnWindows(c) == c
OneWindow(c) == IF c = aside THEN editor ELSE c

WhileTranslating == {"idle", "translate"}
BackAtTheGate == WhileTranslating \cup {"enter"}
Anywhere == Places
=============================================================================
