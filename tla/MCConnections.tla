---------------------------- MODULE MCConnections ----------------------------
(* Instances of Connections: one client per profile and a second v2 client; *)
(* a client that comes back is another client                               *)
EXTENDS Connections, TLC
CONSTANTS s1, s2, a, b, c, ra, ra2, rb, rb2, rc
Asks == ra :> a @@ rb :> b @@ ra2 :> a @@ rb2 :> b @@ rc :> c
OwnerUsed == [r \in Requests |-> Asks[r]]
IdsUsed == {r \in Requests : Profile[Owner[r]] = "v2"}
ProfileUsed == [x \in Clients |-> IF x = a THEN "v1" ELSE "v2"]
==============================================================================
