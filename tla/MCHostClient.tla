---------------------------- MODULE MCHostClient ----------------------------
(* Instances of HostClient for TLC. *)
EXTENDS HostClient

CONSTANTS drag, again

Strict == [engine |-> "local", consent |-> FALSE]

\* A strict local pick and another engine: each is one setting away from the other.
LocalOrOther == {Strict, [Strict EXCEPT !.engine = "google"]}

\* The consent as well.
WithConsent == LocalOrOther \cup {[Strict EXCEPT !.consent = TRUE]}
=============================================================================
