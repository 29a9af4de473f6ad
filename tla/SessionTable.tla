---------------------------- MODULE SessionTable ----------------------------
(***************************************************************************)
(* The host's session table (host_v2_session.cpp): a vector of records,    *)
(* each open or terminal, an id counter drawn outside the table's mutex,   *)
(* and the prune that Open runs before it appends.  Open is two steps, for *)
(* two threads may draw their ids in one order and append in the other.    *)
(***************************************************************************)
EXTENDS Naturals, SequencesExt, FiniteSetsExt

CONSTANTS Conns,        \* connections, the owners of sessions
          Slack,        \* kPruneSlack
          OpenFactor,   \* kPruneOpenFactor
          KeepTerminal  \* kPruneKeepTerminal

VARIABLES sessions, next_id

Session == [id : Nat \ {0}, conn : Conns, open : BOOLEAN]

TypeOK == sessions \in Seq(Session) /\ next_id \in Nat \ {0}

Init == sessions = <<>> /\ next_id = 1

OpenCount == Quantify(ToSet(sessions), LAMBDA r : r.open)
Terminal == {i \in DOMAIN sessions : ~sessions[i].open}

\* The newest-first walk: the record the retention window does not cover
Cutoff == sessions[CHOOSE i \in Terminal :
                      Quantify(Terminal, LAMBDA j : j > i) = KeepTerminal].id

\* remove_if: the kept records, each behind those that stood before it
Kept == {i \in DOMAIN sessions : sessions[i].open \/ sessions[i].id > Cutoff}
KeptAt(n) == CHOOSE i \in Kept : Cardinality({j \in Kept : j < i}) = n - 1

Pruned ==
    IF Len(sessions) <= OpenFactor * OpenCount + Slack \/ Cardinality(Terminal) <= KeepTerminal
      THEN sessions
      ELSE [n \in 1 .. Cardinality(Kept) |-> sessions[KeptAt(n)]]

\* Open: fetch_add on the counter, then the locked part
DrawId == next_id' = next_id + 1 /\ UNCHANGED sessions
Insert(x, c) ==
    /\ sessions' = Append(Pruned, [id |-> x, conn |-> c, open |-> TRUE])
    /\ UNCHANGED next_id

\* Close: an id that is terminal, pruned or unknown is a no-op
Close(x) ==
    /\ sessions' = [i \in DOMAIN sessions |->
           [sessions[i] EXCEPT !.open = @ /\ sessions[i].id # x]]
    /\ UNCHANGED next_id
CloseOwnedByConnection(c) ==
    /\ sessions' = [i \in DOMAIN sessions |->
           [sessions[i] EXCEPT !.open = @ /\ sessions[i].conn # c]]
    /\ UNCHANGED next_id

OpenIds == {sessions[i].id : i \in {j \in DOMAIN sessions : sessions[j].open}}
OwnedBy(c) == {r \in ToSet(sessions) : r.open /\ r.conn = c}

-----------------------------------------------------------------------------
\* "the vector order equals id order"
IdOrder == \A i, j \in DOMAIN sessions : i < j => sessions[i].id < sessions[j].id
=============================================================================
