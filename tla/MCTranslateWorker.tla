------------------------- MODULE MCTranslateWorker -------------------------
(* Two jobs of one client; the host names no session in its aborts, the wire *)
(* contract lets it name the client's                                      *)
EXTENDS TranslateWorker
TwoJobs == {1, 2}
HostAbort == {0}
AnyAbort == {0, Session}
=============================================================================
