---------------------------- MODULE MCClipboard ----------------------------
(* Instances of Clipboard for TLC. *)
EXTENDS Clipboard

CONSTANTS enter, drag

\* The user is busy elsewhere while a task holds the keyboard or samples the
\* counter: copies fall before a task, while it translates, and around a restore.
Calm == {"idle", "backup", "translate", "rebaseline", "decide", "open", "done"}
Anywhere == Places
=============================================================================
