------------------------------ MODULE Sampling ------------------------------
(* What bt_peer_list promises of the keys it picks: as many as wanted, if   *)
(* there are that many.  Module PeerSample shows the shuffle to keep it,    *)
(* module Swarm builds on it.                                               *)
EXTENDS Integers, FiniteSets

\* upper_index, of `total` keys and `n` wanted.
UpperIndex(total, n) == IF total > n THEN n ELSE total

\* The sets that may be picked among the keys K.
Selections(K, n) == {S \in SUBSET K : Cardinality(S) = UpperIndex(Cardinality(K), n)}
=============================================================================
