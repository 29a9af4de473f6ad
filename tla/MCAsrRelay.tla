----------------------------- MODULE MCAsrRelay -----------------------------
(* Instances of AsrRelay: two connections with a session id each, or with  *)
(* one id that a client pins across its reconnects                         *)
EXTENDS AsrRelay, TLC
CONSTANTS c1, c2
WireDistinct == c1 :> 11 @@ c2 :> 12
WirePinned == c1 :> 11 @@ c2 :> 11
=============================================================================
