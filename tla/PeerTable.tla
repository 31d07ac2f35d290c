----------------------------- MODULE PeerTable -----------------------------
(* What the swarm of one torrent promises, without workers, connections or *)
(* requests: a table of peer keys with a life each, a download counter, and *)
(* the downloads that are owed to it.  Module Swarm implements it.          *)
EXTENDS Integers

CONSTANTS Peers, PeerTTL

VARIABLES
    ttl,    \* remaining life of each key, 0 when it is absent
    downs,  \* downloads counted
    owed    \* leechers turned seeders whose download is still to be counted

vars == <<ttl, downs, owed>>

Keys == {"sd", "lc"} \X Peers

\* Redis may hold what an earlier run of the tracker left.
Init == ttl \in [Keys -> 0..PeerTTL] /\ downs \in Nat /\ owed = 0

\* A peer is heard of: a full life for one of its keys.
Refresh(k) == ttl' = [ttl EXCEPT ![k] = PeerTTL] /\ UNCHANGED <<downs, owed>>

\* A peer leaves.
Drop(k) == ttl' = [ttl EXCEPT ![k] = 0] /\ UNCHANGED <<downs, owed>>

\* A leecher becomes a seeder for the rest of its life.  Its download is owed,
\* or lost together with the reply.
Complete(p) ==
    /\ ttl[<<"lc", p>>] > 0
    /\ ttl' = [ttl EXCEPT ![<<"sd", p>>] = ttl[<<"lc", p>>], ![<<"lc", p>>] = 0]
    /\ owed' \in {owed, owed + 1}
    /\ UNCHANGED downs

\* A download owed is counted, once.
Count == owed > 0 /\ downs' = downs + 1 /\ owed' = owed - 1 /\ UNCHANGED ttl

\* The count is refused, or everything owed is lost with the process.
Forget == owed' \in {0, owed - 1} /\ owed > 0 /\ UNCHANGED <<ttl, downs>>

\* Time passes.
Age == ttl' = [k \in Keys |-> IF ttl[k] > 0 THEN ttl[k] - 1 ELSE 0] /\ UNCHANGED <<downs, owed>>

Next ==
    \/ \E k \in Keys : Refresh(k) \/ Drop(k)
    \/ \E p \in Peers : Complete(p)
    \/ Count \/ Forget \/ Age

Spec == Init /\ [][Next]_vars
=============================================================================
