------------------------------ MODULE MCSwarm ------------------------------
(* Small instances of Swarm for TLC. *)
EXTENDS Swarm, TLC

CONSTANTS p1, p2

\* A request of each kind: joining as leecher and as seeder, finishing,
\* stopping, an event the switch does not know, and a num_want within, above
\* and below 0..MaxNumWant.
MCRequests ==
    { [peer |-> p1, event |-> "STARTED",   left |-> 1, num_want |-> 1],
      [peer |-> p1, event |-> "COMPLETED", left |-> 0, num_want |-> 0],
      [peer |-> p1, event |-> "STOPPED",   left |-> 0, num_want |-> -1],
      [peer |-> p2, event |-> "NONE",      left |-> 0, num_want |-> 2],
      [peer |-> p2, event |-> "OTHER",     left |-> 1, num_want |-> 9] }

\* Without the joining seeder, whose SETEX is as that of the joining leecher:
\* seeder keys come from RENAME and from Leftovers.
RunRequests == {r \in MCRequests : r.event # "NONE"}

\* Joining, finishing and stopping, for the liveness run.
LiveRequests == {r \in MCRequests : r.event \in {"STARTED", "COMPLETED", "STOPPED"}}

\* Redis outlives the tracker: it may hold what the announces of an earlier
\* run of the tracker left.  Each is the swarm after those announces were handled.
Leftovers ==
    { {}, {<<"lc", p1>>, <<"sd", p1>>, <<"sd", p2>>} }

MCInit ==
    /\ InitProcess
    /\ \E K \in Leftovers :
          /\ ttl = [k \in Keys |-> IF k \in K THEN PeerTTL ELSE 0]
          /\ fresh = [p \in Peers |-> IF \E k \in K : k[2] = p THEN PeerTTL ELSE 0]
          /\ joins = Cardinality({k \in K : k[1] = "lc"})
          /\ listed \in BOOLEAN
          /\ permitted = (Permits(listed) \/ K # {})
    /\ downs = 0
    /\ last = [p \in Peers |-> "none"]

MCSpec == MCInit /\ [][Next]_vars
MCSymmetry == Permutations(Workers)
=============================================================================
