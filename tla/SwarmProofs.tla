---------------------------- MODULE SwarmProofs ----------------------------
(* What module Swarm keeps for every number of workers and peers, every set *)
(* of requests, every PeerTTL, MaxNumWant and Restriction.                  *)
EXTENDS Swarm, FiniteSetTheorems, TLAPS

\* Abbreviations of one line each.
USE DEF Expiry, Incremented, FirstRole, Unread, Gap

-----------------------------------------------------------------------------
\* Facts about the operators.

\* The clamp of bt_handle_announce puts num_want between 0 and MaxNumWant.
LEMMA NumWantRange ==
    ASSUME NEW r \in Announces
    PROVE  NumWant(r) \in 0..MaxNumWant
BY SwarmAssumption DEF NumWant, Announces

\* The key a request is about is one of the torrent's keys.
LEMMA OwnKeyIsKey ==
    ASSUME NEW r \in Announces
    PROVE  /\ OwnKey(r) \in Keys
           /\ OwnKey(r)[2] = r.peer
           /\ r.peer \in Peers
BY DEF OwnKey, Role, Keys, Roles, Announces

\* A torrent has finitely many keys, so every set of them has a size.
LEMMA KeysFinite ==
    ASSUME NEW S \in SUBSET Keys
    PROVE  IsFiniteSet(S) /\ Cardinality(S) \in Nat
<1>1. IsFiniteSet(Roles)
  <2>1. IsFiniteSet({"sd"}) /\ IsFiniteSet({"lc"})
    BY Zenon, FS_Singleton
  <2>2. Roles = {"sd"} \cup {"lc"}
    BY DEF Roles
  <2> QED BY Zenon, <2>1, <2>2, FS_Union
<1>2. IsFiniteSet(Keys)
  BY <1>1, SwarmAssumption, FS_Product DEF Keys
<1> QED BY <1>2, FS_Subset, FS_CardinalityType

\* One more reply adds at most one peer.
LEMMA AddBound ==
    ASSUME NEW S \in SUBSET Keys, NEW k \in Keys
    PROVE  Cardinality(S \cup {k}) \in Nat /\ Cardinality(S \cup {k}) <= Cardinality(S) + 1
<1>1. IsFiniteSet(S) /\ Cardinality(S) \in Nat
  BY KeysFinite
<1>2. Cardinality(S \cup {k}) = IF k \in S THEN Cardinality(S) ELSE Cardinality(S) + 1
  BY <1>1, FS_AddElement
<1> QED BY <1>1, <1>2

\* A GET answered with an address moves one from those outstanding to the peers.
LEMMA OneMoved ==
    ASSUME NEW p \in Nat, NEW t \in Nat, NEW q \in Nat, NEW u, NEW n \in Nat,
           p + t <= n, q <= p + 1, u = t - 1
    PROVE  q + u <= n
OBVIOUS

\* What bt_peer_list may pick is a set of keys, at most as many as wanted.
LEMMA PicksBound ==
    ASSUME NEW w, NEW role, NEW n \in Nat, NEW S \in Picks(w, role, n)
    PROVE  S \in SUBSET Keys /\ Cardinality(S) <= n
<1>1. KeysOf(role) \subseteq Keys
  BY DEF KeysOf, Present
<1>2. Cardinality({}) = 0
  BY FS_EmptySet
<1>3. CASE S = {}
  BY <1>2, <1>3
<1>4. CASE S \in Selections(KeysOf(role), n)
  BY <1>1, <1>4, KeysFinite DEF Selections, UpperIndex
<1> QED BY <1>3, <1>4 DEF Picks

\* What follows RENAME is the count of a download or the list of peers.
LEMMA AfterRenameLabel ==
    ASSUME NEW k
    PROVE  AfterRename(k) \in {"incr", "list"} /\ (ttl[k] = 0 => AfterRename(k) = "list")
BY DEF AfterRename

\* A COMPLETED announce goes on to one of the two, whatever became of RENAME.
LEMMA PromoteLabel ==
    ASSUME NEW w, Promote(w)
    PROVE  \E l \in {"incr", "list"} : pc' = [pc EXCEPT ![w] = l]
<1>1. CASE pc' = [pc EXCEPT ![w] = AfterRename(<<"lc", req[w].peer>>)]
  BY Zenon, <1>1, AfterRenameLabel
<1>2. CASE pc' = [pc EXCEPT ![w] = "list"]
  BY <1>2
<1> QED BY Zenon, <1>1, <1>2 DEF Promote, Goto

\* The history kept by the actions of bt_update_peer_list has its type.
LEMMA HeardType ==
    ASSUME TypeOK, NEW p \in Peers, NEW c \in {"SETEX", "DEL", "RENAME"}, Heard(p, c)
    PROVE  /\ fresh' \in [Peers -> Nat]
           /\ last' \in [Peers -> {"none", "SETEX", "DEL", "RENAME"}]
           /\ permitted' \in BOOLEAN
BY SwarmAssumption DEF Heard, TypeOK

\* The marks that keys came or went, which those actions set, have their types.
LEMMA DisturbType ==
    ASSUME TypeOK, Disturb
    PROVE  calm' \in [Workers -> BOOLEAN] /\ room' \in [Workers -> Nat]
<1>1. Cardinality(Present) \in Nat /\ Cardinality(Present') \in Nat
  <2>1. Present \in SUBSET Keys /\ Present' \in SUBSET Keys
    BY DEF Present
  <2> QED BY <2>1, KeysFinite
<1>2. Grown \in Nat
  BY <1>1 DEF Grown
<1> QED BY <1>2 DEF Disturb, TypeOK

-----------------------------------------------------------------------------
\* Type correctness.

\* Every variable of the model keeps its type, and a busy worker has a request.
THEOREM TypeCorrect == Spec => []TypeOK
<1>1. Init => TypeOK
  BY SwarmAssumption DEF Init, InitProcess, TypeOK, Stats, NoStats, Labels, Uninit, Permits
<1>2. TypeOK /\ [Next]_vars => TypeOK'
  <2> SUFFICES ASSUME TypeOK, [Next]_vars PROVE TypeOK'
    OBVIOUS
  <2> USE SwarmAssumption DEF TypeOK, redis, locals, history, notes, Goto, Labels
  <2>1. ASSUME NEW w \in Workers, NEW r \in Requests, Begin(w, r) PROVE TypeOK'
    BY <2>1 DEF Begin
  <2>2. ASSUME NEW w \in Workers, Finish(w), UNCHANGED <<redis, alive, link, announces, history>>
        PROVE  TypeOK'
    BY <2>2 DEF Finish, NoStats, Stats, Uninit
  <2>3. ASSUME Crash PROVE TypeOK'
    BY Zenon, <2>3 DEF Crash, NoStats, Stats, Uninit
  <2>4. ASSUME NEW w \in Workers, Validate(w) PROVE TypeOK'
    BY <2>2, <2>4 DEF Validate
  <2>5. ASSUME NEW w \in Workers, Admit(w) PROVE TypeOK'
    BY <2>2, <2>5 DEF Admit
  <2>6. ASSUME NEW w \in Workers, Insert(w) PROVE TypeOK'
    <3>1. req[w] \in Announces
      BY <2>6 DEF Insert, Updates
    <3>2. OwnKey(req[w]) \in Keys /\ OwnKey(req[w])[2] \in Peers
      BY <3>1, OwnKeyIsKey
    <3>3. CASE Up(w) /\ Heard(OwnKey(req[w])[2], "SETEX") /\ Disturb
      <4>1. calm' \in [Workers -> BOOLEAN] /\ room' \in [Workers -> Nat]
        BY <3>3, DisturbType
      <4>2. fresh' \in [Peers -> Nat] /\ last' \in [Peers -> {"none", "SETEX", "DEL", "RENAME"}] /\ permitted' \in BOOLEAN
        BY Zenon, <3>2, <3>3, HeardType
      <4>3. ttl' \in [Keys -> Nat] /\ joins' \in Nat
        <5>1. PICK k \in Keys : k = OwnKey(req[w])
          BY <3>2
        <5>2. ttl' = ttl \/ ttl' = [ttl EXCEPT ![k] = PeerTTL]
          BY Zenon, <2>6, <5>1 DEF Insert
        <5>3. joins' = joins \/ joins' = joins + 1
          BY Zenon, <2>6 DEF Insert
        <5> QED BY <5>2, <5>3
      <4>4. /\ pc' \in [Workers -> Labels]
            /\ \A v \in Workers : pc'[v] # "idle" => req'[v] \in Announces
        BY <2>6, <3>1 DEF Insert, Updates, UpdateUnchanged
      <4> QED BY <2>6, <4>1, <4>2, <4>3, <4>4 DEF Insert, UpdateUnchanged
    <3>4. CASE UNCHANGED <<ttl, history, notes>>
      BY <2>6, <3>4 DEF Insert, Updates, UpdateUnchanged
    <3> QED BY Zenon, <2>6, <3>3, <3>4 DEF Insert
  <2>7. ASSUME NEW w \in Workers, Remove(w) PROVE TypeOK'
    <3>1. req[w] \in Announces
      BY <2>7 DEF Remove, Updates
    <3>2. OwnKey(req[w]) \in Keys /\ OwnKey(req[w])[2] \in Peers
      BY <3>1, OwnKeyIsKey
    <3>3. CASE Up(w) /\ Heard(OwnKey(req[w])[2], "DEL") /\ Disturb
      <4>1. calm' \in [Workers -> BOOLEAN] /\ room' \in [Workers -> Nat]
        BY <3>3, DisturbType
      <4>2. fresh' \in [Peers -> Nat] /\ last' \in [Peers -> {"none", "SETEX", "DEL", "RENAME"}] /\ permitted' \in BOOLEAN
        BY Zenon, <3>2, <3>3, HeardType
      <4>3. ttl' \in [Keys -> Nat] /\ joins' \in Nat
        <5>1. PICK k \in Keys : k = OwnKey(req[w])
          BY <3>2
        <5>2. ttl' = ttl \/ ttl' = [ttl EXCEPT ![k] = 0]
          BY Zenon, <2>7, <5>1 DEF Remove
        <5>3. joins' = joins \/ joins' = joins + 1
          BY Zenon, <2>7 DEF Remove
        <5> QED BY <5>2, <5>3
      <4>4. /\ pc' \in [Workers -> Labels]
            /\ \A v \in Workers : pc'[v] # "idle" => req'[v] \in Announces
        BY <2>7, <3>1 DEF Remove, Updates, UpdateUnchanged
      <4> QED BY <2>7, <4>1, <4>2, <4>3, <4>4 DEF Remove, UpdateUnchanged
    <3>4. CASE UNCHANGED <<ttl, history, notes>>
      BY <2>7, <3>4 DEF Remove, Updates, UpdateUnchanged
    <3> QED BY Zenon, <2>7, <3>3, <3>4 DEF Remove
  <2>8. ASSUME NEW w \in Workers, Promote(w) PROVE TypeOK'
    <3>1. req[w] \in Announces /\ req[w].peer \in Peers
      BY <2>8 DEF Promote, Updates, Announces
    <3>2. <<"lc", req[w].peer>> \in Keys /\ <<"sd", req[w].peer>> \in Keys
      BY ZenonT(30), <3>1 DEF Keys, Roles
    <3>3. CASE Heard(req[w].peer, "RENAME") /\ (Disturb \/ UNCHANGED notes)
      <4>1. calm' \in [Workers -> BOOLEAN] /\ room' \in [Workers -> Nat]
        BY <3>3, DisturbType
      <4>2. fresh' \in [Peers -> Nat] /\ last' \in [Peers -> {"none", "SETEX", "DEL", "RENAME"}] /\ permitted' \in BOOLEAN
        BY Zenon, <3>1, <3>3, HeardType
      <4>3. ttl' \in [Keys -> Nat] /\ joins' \in Nat
        <5>1. PICK lc \in Keys, sd \in Keys : lc = <<"lc", req[w].peer>> /\ sd = <<"sd", req[w].peer>>
          BY <3>2
        <5>2. ttl' = ttl \/ ttl' = [ttl EXCEPT ![sd] = ttl[lc], ![lc] = 0]
          BY Zenon, <2>8, <5>1 DEF Promote
        <5>3. joins' = joins
          BY Zenon, <2>8 DEF Promote
        <5> QED BY <5>2, <5>3
      <4>4. /\ pc' \in [Workers -> Labels] /\ link' \in [Workers -> {"up", "down"}]
            /\ \A v \in Workers : pc'[v] # "idle" => req'[v] \in Announces
        <5>1. PICK l \in {"incr", "list"} : pc' = [pc EXCEPT ![w] = l]
          BY Zenon, <2>8, PromoteLabel
        <5>2. req' = req /\ (link' = link \/ link' = [link EXCEPT ![w] = "down"])
          BY Zenon, <2>8 DEF Promote, UpdateUnchanged
        <5> QED BY <3>1, <5>1, <5>2
      <4> QED BY ZenonT(30), <2>8, <4>1, <4>2, <4>3, <4>4 DEF Promote, UpdateUnchanged
    <3>4. CASE UNCHANGED <<ttl, history, notes>>
      <4>1. PICK l \in {"incr", "list"} : pc' = [pc EXCEPT ![w] = l]
        BY Zenon, <2>8, PromoteLabel
      <4>2. /\ UNCHANGED <<downs, listed, alive, req, todo, peers, stats, announces>>
            /\ link' = link \/ link' = [link EXCEPT ![w] = "down"]
        BY Zenon, <2>8 DEF Promote, UpdateUnchanged
      <4> QED BY <3>1, <3>4, <4>1, <4>2
    <3> QED BY Zenon, <2>8, <3>3, <3>4 DEF Promote
  <2>9. ASSUME NEW w \in Workers, IgnoreEvent(w) PROVE TypeOK'
    BY <2>9 DEF IgnoreEvent, Updates, UpdateUnchanged
  <2>10. ASSUME NEW w \in Workers, Increment(w) PROVE TypeOK'
    BY <2>10 DEF Increment, UpdateUnchanged
  <2>11. ASSUME NEW w \in Workers, List(w) PROVE TypeOK'
    <3>1. NumWant(req[w]) \in Nat
      BY <2>11, NumWantRange DEF List
    <3>2. \A S \in Picks(w, Role(~IsSeeder(req[w])), NumWant(req[w])) : S \in SUBSET Keys
      BY <3>1, PicksBound
    <3> QED BY <2>11, <3>2 DEF List, ListUnchanged
  <2>12. ASSUME NEW w \in Workers, Get(w) PROVE TypeOK'
    BY <2>12 DEF Get, ListUnchanged
  <2>13. ASSUME NEW w \in Workers, Fill(w) PROVE TypeOK'
    <3>1. NumWant(req[w]) - Cardinality(peers[w]) \in Nat
      BY <2>13, NumWantRange, KeysFinite DEF Fill, Short
    <3>2. \A S \in Picks(w, Role(IsSeeder(req[w])), NumWant(req[w]) - Cardinality(peers[w])) :
             S \in SUBSET Keys
      BY <3>1, PicksBound
    <3> QED BY <2>13, <3>2 DEF Fill, ListUnchanged
  <2>14. ASSUME NEW w \in Workers, CountSeeders(w) \/ CountLeechers(w) PROVE TypeOK'
    <3>1. \A role : Counts(w, role) \subseteq Nat \cup {Uninit}
      BY KeysFinite DEF Counts, KeysOf, Present
    <3>2. CASE CountSeeders(w)
      <4>1. PICK n \in Nat \cup {Uninit} : stats' = [stats EXCEPT ![w].seeders = n]
        BY Zenon, <3>1, <3>2 DEF CountSeeders
      <4>2. stats' \in [Workers -> Stats]
        BY ZenonT(30), <4>1 DEF Stats
      <4>3. room' \in [Workers -> Nat]
        BY <3>2, KeysFinite DEF CountSeeders, Present
      <4> QED BY <3>2, <4>2, <4>3 DEF CountSeeders, ListUnchanged, Listed
    <3>3. CASE CountLeechers(w)
      <4>1. PICK n \in Nat \cup {Uninit} : stats' = [stats EXCEPT ![w].leechers = n]
        BY Zenon, <3>1, <3>3 DEF CountLeechers
      <4>2. stats' \in [Workers -> Stats]
        BY ZenonT(30), <4>1 DEF Stats
      <4> QED BY <3>3, <4>2 DEF CountLeechers, ListUnchanged
    <3> QED BY ZenonT(30), <2>14, <3>2, <3>3
  <2>15. ASSUME NEW w \in Workers, ReadDownloads(w) PROVE TypeOK'
    BY <2>15 DEF ReadDownloads, ListUnchanged
  <2>16. ASSUME NEW w \in Workers, Answer(w) PROVE TypeOK'
    BY <2>2, <2>16 DEF Answer
  <2>17. ASSUME NEW w \in Workers, Lose(w) PROVE TypeOK'
    BY <2>17 DEF Lose
  <2>18. ASSUME Tick PROVE TypeOK'
    <3>1. calm' \in [Workers -> BOOLEAN] /\ room' \in [Workers -> Nat]
      BY <2>18, DisturbType DEF Tick
    <3> QED BY <2>18, <3>1 DEF Tick, Remaining, Less
  <2>19. ASSUME EditList \/ Restart PROVE TypeOK'
    BY ZenonT(30), <2>19 DEF EditList, Restart, Permits
  <2>20. CASE UNCHANGED vars
    BY <2>20 DEF vars
  <2> QED
    BY Zenon, <2>1, <2>3, <2>4, <2>5, <2>6, <2>7, <2>8, <2>9, <2>10, <2>11, <2>12, <2>13, <2>14,
       <2>15, <2>16, <2>17, <2>18, <2>19, <2>20 DEF Next, Work, GetMissing, WildShuffle, WildFree
<1> QED BY <1>1, <1>2, PTL DEF Spec

-----------------------------------------------------------------------------
\* What the steps do to the peer keys.

\* Only bt_insert_peer, bt_remove_peer, bt_promote_peer and the clock touch them.
LEMMA KeySteps ==
    ASSUME [Next]_vars
    PROVE  \/ \E w \in Workers : Insert(w) \/ Remove(w) \/ Promote(w)
           \/ Tick
           \/ UNCHANGED <<ttl, fresh, last, joins>>
<1> USE DEF redis, history
<1>1. ASSUME NEW w \in Workers, Work(w)
      PROVE  Insert(w) \/ Remove(w) \/ Promote(w) \/ UNCHANGED <<ttl, fresh, last, joins>>
  BY <1>1 DEF Work, Validate, Admit, IgnoreEvent, Increment, List, Get, GetMissing, WildShuffle, Fill, Crash,
     CountSeeders, CountLeechers, ReadDownloads, WildFree, Answer, ListUnchanged
<1>2. ASSUME NEW w \in Workers, Lose(w) \/ \E r \in Requests : Begin(w, r)
      PROVE  UNCHANGED <<ttl, fresh, last, joins>>
  BY <1>2 DEF Lose, Begin
<1>3. ASSUME EditList \/ Restart PROVE UNCHANGED <<ttl, fresh, last, joins>>
  BY ZenonT(30), <1>3 DEF EditList, Restart
<1> QED BY ZenonT(30), <1>1, <1>2, <1>3 DEF Next, vars

\* SETEX starts the life of one key, of the peer heard, or does nothing.
LEMMA InsertEffect ==
    ASSUME TypeOK, NEW w \in Workers, Insert(w)
    PROVE  /\ pc[w] = "update"
           /\ pc' = [pc EXCEPT ![w] = "list"]
           /\ downs' = downs
           /\ \E k \in Keys :
                 \/ /\ ttl' = [ttl EXCEPT ![k] = PeerTTL]
                    /\ fresh' = [fresh EXCEPT ![k[2]] = PeerTTL]
                    /\ joins' = IF k[1] = "lc" /\ ttl[k] = 0 THEN joins + 1 ELSE joins
                 \/ UNCHANGED <<ttl, fresh, joins>>
<1>1. req[w] \in Announces
  BY DEF TypeOK, Insert, Updates
<1>2. PICK k \in Keys : k = OwnKey(req[w])
  BY <1>1, OwnKeyIsKey
<1> QED BY <1>2 DEF Insert, Updates, Goto, Heard, history

\* DEL ends the life of one key, or does nothing.
LEMMA RemoveEffect ==
    ASSUME TypeOK, NEW w \in Workers, Remove(w)
    PROVE  /\ pc[w] = "update"
           /\ pc' = [pc EXCEPT ![w] = "list"]
           /\ downs' = downs /\ joins' = joins /\ fresh' = fresh
           /\ \E k \in Keys : ttl' = [ttl EXCEPT ![k] = 0] \/ ttl' = ttl
<1>1. req[w] \in Announces
  BY DEF TypeOK, Remove, Updates
<1>2. PICK k \in Keys : k = OwnKey(req[w])
  BY <1>1, OwnKeyIsKey
<1> QED BY <1>2 DEF Remove, Updates, Goto, Heard, history

\* RENAME moves what is left of a leecher key's life to the seeder key, and only
\* then may a download be counted; or it does nothing.
LEMMA PromoteEffect ==
    ASSUME TypeOK, NEW w \in Workers, Promote(w)
    PROVE  /\ pc[w] = "update"
           /\ downs' = downs /\ joins' = joins
           /\ \E p \in Peers :
                 /\ fresh' = [fresh EXCEPT ![p] = PeerTTL] \/ fresh' = fresh
                 /\ \/ /\ ttl[<<"lc", p>>] > 0
                       /\ ttl' = [ttl EXCEPT ![<<"sd", p>>] = ttl[<<"lc", p>>], ![<<"lc", p>>] = 0]
                       /\ \E l \in {"incr", "list"} : pc' = [pc EXCEPT ![w] = l]
                    \/ ttl' = ttl /\ pc' = [pc EXCEPT ![w] = "list"]
<1>1. PICK p \in Peers : p = req[w].peer
  BY DEF TypeOK, Promote, Updates, Announces
<1>2. PICK l \in {"incr", "list"} :
         pc' = [pc EXCEPT ![w] = l] /\ (l = "list" \/ ttl[<<"lc", p>>] > 0)
  <2>1. CASE pc' = [pc EXCEPT ![w] = AfterRename(<<"lc", p>>)] /\ ttl[<<"lc", p>>] > 0
    BY ZenonT(30), <2>1, AfterRenameLabel
  <2>2. CASE pc' = [pc EXCEPT ![w] = AfterRename(<<"lc", p>>)] /\ ttl[<<"lc", p>>] = 0
    BY ZenonT(30), <2>2, AfterRenameLabel
  <2>3. CASE pc' = [pc EXCEPT ![w] = "list"]
    BY <2>3
  <2> QED BY Zenon, <1>1, <2>1, <2>2, <2>3 DEF Promote, Goto
<1> QED BY Zenon, <1>1, <1>2, AfterRenameLabel DEF Promote, Updates, Goto, Heard, history

-----------------------------------------------------------------------------
\* No peer outlives PeerTTL.

\* Inductive: as long as fresh itself is at most PeerTTL, a new SETEX cannot
\* leave the peer's other key with more than fresh.
GhostInv ==
    /\ \A k \in Keys : ttl[k] <= fresh[k[2]]
    /\ \A p \in Peers : fresh[p] <= PeerTTL

\* In every behaviour, no key lives longer than PeerTTL after the last announce
\* of its peer.
THEOREM NoGhostPeersHolds == Spec => []NoGhostPeers
<1>1. Init => GhostInv
  BY SwarmAssumption DEF Init, GhostInv, Keys
<1>2. TypeOK /\ GhostInv /\ [Next]_vars => GhostInv'
  <2> SUFFICES ASSUME TypeOK, GhostInv, [Next]_vars PROVE GhostInv'
    OBVIOUS
  <2>0. /\ ttl \in [Keys -> Nat] /\ fresh \in [Peers -> Nat] /\ PeerTTL \in Nat
        /\ \A k \in Keys : k[2] \in Peers
    BY SwarmAssumption DEF TypeOK, Keys
  <2>1. ASSUME NEW w \in Workers, Insert(w) PROVE GhostInv'
    BY <2>0, <2>1, InsertEffect DEF GhostInv
  <2>2. ASSUME NEW w \in Workers, Remove(w) PROVE GhostInv'
    BY <2>0, <2>2, RemoveEffect DEF GhostInv
  <2>3. ASSUME NEW w \in Workers, Promote(w) PROVE GhostInv'
    <3>1. PICK p \in Peers :
             /\ fresh' = [fresh EXCEPT ![p] = PeerTTL] \/ fresh' = fresh
             /\ \/ ttl' = [ttl EXCEPT ![<<"sd", p>>] = ttl[<<"lc", p>>], ![<<"lc", p>>] = 0]
                \/ ttl' = ttl
      BY Zenon, <2>3, PromoteEffect
    <3>2. <<"lc", p>> \in Keys /\ <<"sd", p>> \in Keys
      BY DEF Keys, Roles
    <3>3. \A k \in Keys : ttl'[k] <= fresh[k[2]]
      BY <2>0, <3>1, <3>2 DEF GhostInv
    <3>4. \A q \in Peers : fresh[q] <= fresh'[q] /\ fresh'[q] <= PeerTTL
      BY <2>0, <3>1 DEF GhostInv
    <3>5. ttl' \in [Keys -> Nat] /\ fresh' \in [Peers -> Nat]
      BY <2>0, <3>1, <3>2
    <3> QED BY <2>0, <3>3, <3>4, <3>5 DEF GhostInv
  <2>4. CASE Tick
    BY <2>0, <2>4 DEF GhostInv, Tick, Remaining, Less
  <2>5. CASE UNCHANGED <<ttl, fresh, last, joins>>
    BY <2>5 DEF GhostInv
  <2> QED BY <2>1, <2>2, <2>3, <2>4, <2>5, KeySteps
<1>3. GhostInv => NoGhostPeers
  BY DEF GhostInv, NoGhostPeers, Present
<1> QED BY <1>1, <1>2, <1>3, TypeCorrect, PTL DEF Spec

-----------------------------------------------------------------------------
\* No answer carries more peers than wanted.

\* Inductive: the peers collected and the GETs still to be answered together
\* stay within num_want; before the first KEYS there are none.
ListInv ==
    \A w \in Workers :
        /\ pc[w] \in {"idle", "valid", "admit", "update", "incr", "list"} => todo[w] = {} /\ peers[w] = {}
        /\ pc[w] \notin {"idle", "valid", "admit", "update", "incr", "list"} =>
             Cardinality(peers[w]) + Cardinality(todo[w]) <= NumWant(req[w])

\* In every behaviour, both lists of bt_peer_list together stay within num_want.
LEMMA ListInvHolds == Spec => []ListInv
<1>1. Init => ListInv
  BY ZenonT(30) DEF Init, InitProcess, ListInv
<1>2. TypeOK /\ ListInv /\ [Next]_vars => ListInv'
  <2> SUFFICES ASSUME TypeOK, ListInv, [Next]_vars PROVE ListInv'
    OBVIOUS
  <2> USE DEF Goto, locals, redis, history
  <2>0. /\ pc \in [Workers -> Labels] /\ req \in [Workers -> Announces \cup {NoAnnounce}]
        /\ todo \in [Workers -> SUBSET Keys] /\ peers \in [Workers -> SUBSET Keys]
        /\ \A w \in Workers : pc[w] # "idle" => req[w] \in Announces
    BY DEF TypeOK
  <2>1. ASSUME NEW w \in Workers, Finish(w) PROVE ListInv'
    BY ZenonT(30), <2>0, <2>1 DEF Finish, ListInv
  <2>2. ASSUME Crash PROVE ListInv'
    BY <2>2 DEF Crash, ListInv
  <2>3. ASSUME NEW w \in Workers, NEW r \in Requests, Begin(w, r) PROVE ListInv'
    BY ZenonT(30), <2>0, <2>3 DEF Begin, ListInv
  <2>4. ASSUME NEW w \in Workers, Validate(w) PROVE ListInv'
    BY ZenonT(30), <2>0, <2>1, <2>4 DEF Validate, ListInv
  <2>5. ASSUME NEW w \in Workers, Admit(w) PROVE ListInv'
    BY <2>0, <2>1, <2>5 DEF Admit, ListInv
  <2>6. ASSUME NEW w \in Workers, Insert(w) \/ Remove(w) \/ Promote(w) \/ IgnoreEvent(w) \/ Increment(w)
        PROVE  ListInv'
    <3>1. UNCHANGED <<req, todo, peers>>
      BY Zenon, <2>6 DEF Insert, Remove, Promote, IgnoreEvent, Increment, UpdateUnchanged
    <3>2. pc[w] \in {"update", "incr"} /\ \E l \in {"incr", "list"} : pc' = [pc EXCEPT ![w] = l]
      <4>1. CASE Promote(w)
        BY Zenon, <4>1, PromoteLabel DEF Promote, Updates
      <4>2. CASE Insert(w) \/ Remove(w) \/ IgnoreEvent(w) \/ Increment(w)
        BY Zenon, <4>2 DEF Insert, Remove, IgnoreEvent, Increment, Updates
      <4> QED BY <2>6, <4>1, <4>2
    <3> QED BY <2>0, <3>1, <3>2 DEF ListInv
  <2>7. ASSUME NEW w \in Workers, List(w) PROVE ListInv'
    <3>1. NumWant(req[w]) \in Nat
      BY <2>0, <2>7, NumWantRange, SwarmAssumption DEF List
    <3>2. PICK S \in Picks(w, Role(~IsSeeder(req[w])), NumWant(req[w])) : todo' = [todo EXCEPT ![w] = S]
      BY Zenon, <2>7 DEF List
    <3>3. S \in SUBSET Keys /\ Cardinality(S) <= NumWant(req[w]) /\ Cardinality(S) \in Nat
      BY ZenonT(30), <3>1, <3>2, PicksBound, KeysFinite
    <3>4. peers[w] = {} /\ Cardinality({}) = 0
      BY <2>7, FS_EmptySet DEF List, ListInv
    <3>5. Cardinality(peers[w]) + Cardinality(S) <= NumWant(req[w])
      BY <3>1, <3>3, <3>4
    <3>6. pc' = [pc EXCEPT ![w] = "get"] /\ req' = req /\ peers' = peers
      BY <2>7 DEF List, ListUnchanged
    <3> QED BY <2>0, <3>2, <3>5, <3>6 DEF ListInv
  <2>8. ASSUME NEW w \in Workers, Get(w) PROVE ListInv'
    <3>1. PICK k \in todo[w] :
             /\ todo' = [todo EXCEPT ![w] = @ \ {k}]
             /\ peers' = [peers EXCEPT ![w] = @ \cup {k}] \/ peers' = peers
      BY Zenon, <2>8 DEF Get
    <3>2. Cardinality(todo[w] \ {k}) = Cardinality(todo[w]) - 1
      BY <2>0, <3>1, KeysFinite, FS_RemoveElement
    <3>3. Cardinality(peers[w] \cup {k}) \in Nat /\ Cardinality(peers[w] \cup {k}) <= Cardinality(peers[w]) + 1
      BY <2>0, AddBound
    <3>4. Cardinality(todo[w]) \in Nat /\ Cardinality(peers[w]) \in Nat
      BY <2>0, KeysFinite
    <3>5. pc[w] \in {"get", "fill"} /\ pc' = pc /\ req' = req /\ NumWant(req[w]) \in Nat
      BY <2>0, <2>8, NumWantRange, SwarmAssumption DEF Get, ListUnchanged
    <3>6. Cardinality(peers'[w]) + Cardinality(todo'[w]) <= NumWant(req[w])
      <4>1. Cardinality(peers[w]) + Cardinality(todo[w]) <= NumWant(req[w])
        BY <3>5 DEF ListInv
      <4>2. Cardinality(todo'[w]) = Cardinality(todo[w]) - 1
        BY <2>0, <3>1, <3>2
      <4>3. Cardinality(peers'[w]) \in Nat /\ Cardinality(peers'[w]) <= Cardinality(peers[w]) + 1
        <5>1. peers'[w] = peers[w] \cup {k} \/ peers'[w] = peers[w]
          BY <2>0, <3>1
        <5>2. CASE peers'[w] = peers[w] \cup {k}
          BY <3>3, <5>2
        <5>3. CASE peers'[w] = peers[w]
          BY <3>4, <5>3
        <5> QED BY <5>1, <5>2, <5>3
      <4> QED BY Zenon, <3>4, <3>5, <4>1, <4>2, <4>3, OneMoved
    <3> QED BY <2>0, <3>1, <3>5, <3>6 DEF ListInv
  <2>9. ASSUME NEW w \in Workers, Fill(w) PROVE ListInv'
    <3>1. NumWant(req[w]) \in Nat /\ Cardinality(peers[w]) \in Nat
      BY <2>0, <2>9, NumWantRange, KeysFinite, SwarmAssumption DEF Fill
    <3>2. PICK S \in Picks(w, Role(IsSeeder(req[w])), NumWant(req[w]) - Cardinality(peers[w])) :
             todo' = [todo EXCEPT ![w] = S]
      BY Zenon, <2>9 DEF Fill
    <3>3. NumWant(req[w]) - Cardinality(peers[w]) \in Nat
      BY <2>9, <3>1 DEF Fill, Short
    <3>4. /\ Cardinality(S) <= NumWant(req[w]) - Cardinality(peers[w])
          /\ Cardinality(S) \in Nat
      BY <3>2, <3>3, PicksBound, KeysFinite
    <3> QED BY SMTT(30), <2>0, <2>9, <3>1, <3>2, <3>4 DEF Fill, ListUnchanged, ListInv
  <2>10. ASSUME NEW w \in Workers, CountSeeders(w) \/ CountLeechers(w) \/ ReadDownloads(w) PROVE ListInv'
    <3>1. UNCHANGED <<req, todo, peers>>
      BY <2>10 DEF CountSeeders, CountLeechers, ReadDownloads, ListUnchanged
    <3>2. /\ pc[w] \in {"get", "fill", "leechers", "downloads"}
          /\ \E l \in {"leechers", "downloads", "answer"} : pc' = [pc EXCEPT ![w] = l]
      BY <2>10 DEF CountSeeders, CountLeechers, ReadDownloads, Listed
    <3> QED BY <2>0, <3>1, <3>2 DEF ListInv
  <2>11. ASSUME UNCHANGED locals PROVE ListInv'
    BY <2>11 DEF ListInv
  <2> QED
    BY ZenonT(30), <2>1, <2>2, <2>3, <2>4, <2>5, <2>6, <2>7, <2>8, <2>9, <2>10, <2>11
    DEF Next, Work, Answer, GetMissing, WildShuffle, WildFree, Lose, Tick, EditList, Restart, vars
<1> QED BY <1>1, <1>2, TypeCorrect, PTL DEF Spec

\* In every behaviour, the peers of an announce are at most as many as the
\* clamped num_want, and so at most MaxNumWant.
THEOREM WithinNumWantHolds == Spec => []WithinNumWant
<1>1. TypeOK /\ ListInv => WithinNumWant
  <2> SUFFICES ASSUME TypeOK, ListInv, NEW w \in Workers, pc[w] # "idle"
               PROVE  Cardinality(peers[w]) <= NumWant(req[w]) /\ NumWant(req[w]) <= MaxNumWant
                      /\ Cardinality(peers[w]) \in Nat /\ NumWant(req[w]) \in Nat
    BY SwarmAssumption DEF WithinNumWant
  <2>1. NumWant(req[w]) \in Nat /\ NumWant(req[w]) <= MaxNumWant
    BY NumWantRange, SwarmAssumption DEF TypeOK
  <2>2. Cardinality(peers[w]) \in Nat /\ Cardinality(todo[w]) \in Nat /\ Cardinality({}) = 0
    BY KeysFinite, FS_EmptySet DEF TypeOK
  <2> QED BY <2>1, <2>2 DEF ListInv
<1> QED BY <1>1, ListInvHolds, TypeCorrect, PTL

-----------------------------------------------------------------------------
\* The download counter is backed by leechers that joined.

\* Inductive: a join is spent once, on a leecher still there, on a promotion
\* about to be counted, or on a download counted.
DownsInv == downs + Cardinality(Counting) + Cardinality(KeysOf("lc")) <= joins

\* The other steps leave the keys and the counter alone, and owe a download as
\* before or, after a crash, none.
LEMMA CountSteps ==
    ASSUME TypeOK, [Next]_vars
    PROVE  \/ \E w \in Workers : Insert(w) \/ Remove(w) \/ Promote(w) \/ Increment(w)
           \/ Tick
           \/ UNCHANGED <<ttl, downs, joins>> /\ Counting' \in {Counting, {}}
<1> DEFINE Quiet == UNCHANGED <<ttl, downs, joins>> /\ Counting' \in {Counting, {}}
<1> USE DEF redis, history, locals
<1>0. pc \in [Workers -> Labels]
  BY DEF TypeOK
<1>1. ASSUME NEW w \in Workers, NEW l, l # "incr", pc[w] # "incr",
             pc' = [pc EXCEPT ![w] = l], UNCHANGED <<ttl, downs, joins>>
      PROVE  Quiet
  BY <1>0, <1>1 DEF Counting
<1>2. ASSUME NEW w \in Workers, Work(w)
      PROVE  Insert(w) \/ Remove(w) \/ Promote(w) \/ Increment(w) \/ Quiet
  <2>1. CASE Validate(w) \/ Admit(w) \/ IgnoreEvent(w) \/ Answer(w)
    <3>1. /\ UNCHANGED <<ttl, downs, joins>> /\ pc[w] # "incr"
          /\ \E l \in {"admit", "update", "list", "idle"} : pc' = [pc EXCEPT ![w] = l]
      BY <2>1 DEF Validate, Admit, IgnoreEvent, Updates, Answer, Finish, Goto
    <3> QED BY Zenon, <1>1, <3>1
  <2>2. CASE List(w) \/ Fill(w) \/ CountSeeders(w) \/ CountLeechers(w) \/ ReadDownloads(w)
    <3>1. /\ UNCHANGED <<ttl, downs, joins>> /\ pc[w] # "incr"
          /\ \E l \in {"get", "fill", "leechers", "downloads", "answer"} : pc' = [pc EXCEPT ![w] = l]
      BY <2>2 DEF List, Fill, CountSeeders, Listed, CountLeechers, ReadDownloads, ListUnchanged, Goto
    <3> QED BY Zenon, <1>1, <3>1
  <2>3. CASE Get(w)
    <3>1. UNCHANGED <<ttl, downs, joins, pc>>
      BY ZenonT(30), <2>3 DEF Get, ListUnchanged
    <3> QED BY SMTT(30), <3>1 DEF Counting
  <2>4. CASE GetMissing(w) \/ WildShuffle(w) \/ WildFree(w)
    BY ZenonT(30), <2>4 DEF GetMissing, WildShuffle, WildFree, Crash, Counting
  <2> QED BY Zenon, <1>2, <2>1, <2>2, <2>3, <2>4 DEF Work
<1>3. ASSUME NEW w \in Workers, NEW r \in Requests, Begin(w, r) PROVE Quiet
  <2>1. pc[w] # "incr" /\ pc' = [pc EXCEPT ![w] = "valid"] /\ UNCHANGED <<ttl, downs, joins>>
    BY <1>3 DEF Begin, Goto
  <2> QED BY Zenon, <1>1, <2>1
<1>4. ASSUME NEW w \in Workers, Lose(w) PROVE Quiet
  BY <1>4 DEF Lose, Counting
<1>5. CASE EditList \/ Restart \/ UNCHANGED vars
  BY Zenon, <1>5 DEF EditList, Restart, vars, Counting
<1> QED BY <1>2, <1>3, <1>4, <1>5 DEF Next

\* In every behaviour, the download counter never runs ahead of the leechers
\* that joined, however often COMPLETED is repeated.
THEOREM DownloadsBackedHolds == Spec => []DownloadsBacked
<1>0. ASSUME NEW S \in SUBSET Workers PROVE IsFiniteSet(S) /\ Cardinality(S) \in Nat
  BY <1>0, SwarmAssumption, FS_Subset, FS_CardinalityType
<1>1. Init => DownsInv
  <2> SUFFICES ASSUME Init PROVE DownsInv
    OBVIOUS
  <2>1. Counting = {} /\ KeysOf("lc") = {}
    BY DEF Init, InitProcess, Counting, KeysOf, Present
  <2> QED BY <2>1, FS_EmptySet DEF DownsInv, Init
<1>2. TypeOK /\ TypeOK' /\ DownsInv /\ [Next]_vars => DownsInv'
  <2> SUFFICES ASSUME TypeOK, TypeOK', DownsInv, [Next]_vars PROVE DownsInv'
    OBVIOUS
  <2> DEFINE C == Counting
             L == KeysOf("lc")
  <2>0. /\ IsFiniteSet(C) /\ Cardinality(C) \in Nat /\ IsFiniteSet(C') /\ Cardinality(C') \in Nat
        /\ IsFiniteSet(L) /\ Cardinality(L) \in Nat /\ IsFiniteSet(L') /\ Cardinality(L') \in Nat
    BY <1>0, KeysFinite DEF Counting, KeysOf, Present
  <2>01. /\ downs \in Nat /\ joins \in Nat /\ downs' \in Nat /\ joins' \in Nat
         /\ pc \in [Workers -> Labels] /\ ttl \in [Keys -> Nat]
    BY DEF TypeOK
  <2>02. downs + Cardinality(C) + Cardinality(L) <= joins
    BY DEF DownsInv
  <2> SUFFICES downs' + Cardinality(C') + Cardinality(L') <= joins'
    BY DEF DownsInv
  <2>1. ASSUME NEW w \in Workers, Insert(w) PROVE downs' + Cardinality(C') + Cardinality(L') <= joins'
    <3>1. C' = C /\ downs' = downs
      BY <2>1, <2>01, InsertEffect DEF Counting
    <3>2. PICK k \in Keys :
             \/ /\ ttl' = [ttl EXCEPT ![k] = PeerTTL]
                /\ joins' = IF k[1] = "lc" /\ ttl[k] = 0 THEN joins + 1 ELSE joins
             \/ UNCHANGED <<ttl, joins>>
      BY <2>1, InsertEffect
    <3>3. CASE ttl' = [ttl EXCEPT ![k] = PeerTTL] /\ k[1] = "lc" /\ ttl[k] = 0 /\ joins' = joins + 1
      <4>1. L' = L \cup {k} /\ k \notin L
        BY <2>01, <3>3, SwarmAssumption DEF KeysOf, Present
      <4>2. Cardinality(L') = Cardinality(L) + 1
        BY <2>0, <4>1, FS_AddElement
      <4> QED BY <2>0, <2>01, <2>02, <3>1, <3>3, <4>2
    <3>4. CASE L' = L /\ joins' = joins
      BY <2>02, <3>1, <3>4
    <3>5. ASSUME ttl' = [ttl EXCEPT ![k] = PeerTTL], ~(k[1] = "lc" /\ ttl[k] = 0) PROVE L' = L
      BY <2>01, <3>5, SwarmAssumption DEF KeysOf, Present
    <3>6. ASSUME ttl' = ttl PROVE L' = L
      BY <3>6 DEF KeysOf, Present
    <3> QED BY <3>2, <3>3, <3>4, <3>5, <3>6
  <2>2. ASSUME NEW w \in Workers, Remove(w) PROVE downs' + Cardinality(C') + Cardinality(L') <= joins'
    <3>1. C' = C /\ downs' = downs /\ joins' = joins
      BY <2>2, <2>01, RemoveEffect DEF Counting
    <3>2. L' \subseteq L
      BY <2>2, <2>01, RemoveEffect DEF KeysOf, Present
    <3>3. Cardinality(L') <= Cardinality(L)
      BY <2>0, <3>2, FS_Subset
    <3> QED BY <2>0, <2>01, <2>02, <3>1, <3>3
  <2>3. ASSUME NEW w \in Workers, Promote(w) PROVE downs' + Cardinality(C') + Cardinality(L') <= joins'
    <3>0. pc[w] = "update" /\ downs' = downs /\ joins' = joins
      BY <2>3, PromoteEffect
    <3>1. PICK p \in Peers :
             \/ /\ ttl[<<"lc", p>>] > 0
                /\ ttl' = [ttl EXCEPT ![<<"sd", p>>] = ttl[<<"lc", p>>], ![<<"lc", p>>] = 0]
                /\ \E l \in {"incr", "list"} : pc' = [pc EXCEPT ![w] = l]
             \/ ttl' = ttl /\ pc' = [pc EXCEPT ![w] = "list"]
      BY <2>3, PromoteEffect
    <3>2. CASE ttl' = ttl /\ pc' = [pc EXCEPT ![w] = "list"]
      <4>1. L' = L /\ C' = C
        BY <2>01, <3>0, <3>2 DEF KeysOf, Present, Counting
      <4> QED BY <2>02, <3>0, <4>1
    <3>3. CASE /\ ttl[<<"lc", p>>] > 0
               /\ ttl' = [ttl EXCEPT ![<<"sd", p>>] = ttl[<<"lc", p>>], ![<<"lc", p>>] = 0]
               /\ \E l \in {"incr", "list"} : pc' = [pc EXCEPT ![w] = l]
      <4>1. PICK lc \in Keys, sd \in Keys : lc = <<"lc", p>> /\ sd = <<"sd", p>>
        BY Zenon DEF Keys, Roles
      <4>2. lc[1] = "lc" /\ sd[1] = "sd" /\ lc # sd
        BY <4>1
      <4>3. L' = L \ {lc} /\ lc \in L
        <5>1. ttl' = [ttl EXCEPT ![sd] = ttl[lc], ![lc] = 0] /\ ttl[lc] > 0
          BY <3>3, <4>1
        <5> QED BY <2>01, <4>2, <5>1 DEF KeysOf, Present
      <4>4. Cardinality(L') = Cardinality(L) - 1
        BY <2>0, <4>3, FS_RemoveElement
      <4>5. C' \subseteq C \cup {w}
        BY <2>01, <3>3 DEF Counting
      <4>6. Cardinality(C') <= Cardinality(C) + 1
        <5>1. /\ IsFiniteSet(C \cup {w})
              /\ Cardinality(C \cup {w}) = IF w \in C THEN Cardinality(C) ELSE Cardinality(C) + 1
          BY <2>0, FS_AddElement
        <5>2. Cardinality(C') <= Cardinality(C \cup {w})
          BY ZenonT(30), <4>5, <5>1, FS_Subset
        <5> QED BY <2>0, <5>1, <5>2
      <4> QED BY <2>0, <2>01, <2>02, <3>0, <4>4, <4>6
    <3> QED BY <3>1, <3>2, <3>3
  <2>4. ASSUME NEW w \in Workers, Increment(w) PROVE downs' + Cardinality(C') + Cardinality(L') <= joins'
    <3>1. pc[w] = "incr" /\ pc' = [pc EXCEPT ![w] = "list"] /\ ttl' = ttl /\ joins' = joins
      BY <2>4 DEF Increment, Goto, history
    <3>2. downs' = downs \/ downs' = downs + 1
      BY <2>4 DEF Increment
    <3>3. C' = C \ {w} /\ w \in C /\ L' = L
      BY <2>01, <3>1 DEF Counting, KeysOf, Present
    <3>4. Cardinality(C') = Cardinality(C) - 1
      BY <2>0, <3>3, FS_RemoveElement
    <3>5. Cardinality(L') = Cardinality(L)
      BY <3>3
    <3> QED BY <2>0, <2>01, <2>02, <3>1, <3>2, <3>4, <3>5
  <2>5. ASSUME UNCHANGED <<downs, joins>>, C' \subseteq C, L' \subseteq L
        PROVE  downs' + Cardinality(C') + Cardinality(L') <= joins'
    <3>1. Cardinality(C') <= Cardinality(C) /\ Cardinality(L') <= Cardinality(L)
      BY <2>0, <2>5, FS_Subset
    <3> QED BY <2>0, <2>01, <2>02, <2>5, <3>1
  <2>6. CASE Tick
    <3>1. UNCHANGED <<downs, joins>> /\ C' = C /\ L' \subseteq L
      BY <2>6, <2>01 DEF Tick, Remaining, Less, KeysOf, Present, Counting, locals
    <3> QED BY <2>5, <3>1
  <2>7. CASE UNCHANGED <<ttl, downs, joins>> /\ C' \in {C, {}}
    <3>1. L' = L
      BY <2>7 DEF KeysOf, Present
    <3> QED BY <2>5, <2>7, <3>1
  <2> QED BY Zenon, <2>1, <2>2, <2>3, <2>4, <2>6, <2>7, CountSteps
<1>3. TypeOK /\ DownsInv => DownloadsBacked
  <2> SUFFICES ASSUME TypeOK, DownsInv PROVE downs <= joins
    BY ZenonT(30) DEF DownloadsBacked
  <2>1. Cardinality(Counting) \in Nat /\ Cardinality(KeysOf("lc")) \in Nat
    BY ZenonT(30), <1>0, KeysFinite DEF Counting, KeysOf, Present
  <2> QED BY <2>1 DEF DownsInv, TypeOK
<1> QED BY <1>1, <1>2, <1>3, TypeCorrect, PTL DEF Spec

-----------------------------------------------------------------------------
\* The swarm implements the abstract table of peers.

\* Every set of workers has a size.
LEMMA CountingSize ==
    /\ IsFiniteSet(Counting) /\ Cardinality(Counting) \in Nat
    /\ IsFiniteSet(Counting') /\ Cardinality(Counting') \in Nat
    /\ Cardinality({}) = 0
<1>1. Counting \subseteq Workers /\ Counting' \subseteq Workers
  BY DEF Counting
<1> QED BY <1>1, SwarmAssumption, FS_Subset, FS_CardinalityType, FS_EmptySet

\* A worker that leaves the increment owes one download less.
LEMMA CountingLess ==
    ASSUME NEW w \in Counting, Counting' = Counting \ {w}
    PROVE  Cardinality(Counting') = Cardinality(Counting) - 1 /\ Cardinality(Counting) > 0
<1>1. Cardinality(Counting') = Cardinality(Counting) - 1
  BY CountingSize, FS_RemoveElement
<1> QED BY <1>1, CountingSize

\* A worker that enters it owes one more.
LEMMA CountingMore ==
    ASSUME NEW w, w \notin Counting, Counting' \in {Counting, Counting \cup {w}}
    PROVE  Cardinality(Counting') \in {Cardinality(Counting), Cardinality(Counting) + 1}
BY CountingSize, FS_AddElement

\* Every step of the tracker, of Redis or of the environment is a step of the
\* abstract table or leaves it alone.
THEOREM ImplementsPeerTableHolds == Spec => ImplementsPeerTable
<1>1. Init => Table!Init
  <2> SUFFICES ASSUME Init PROVE Table!Init
    OBVIOUS
  <2>1. Counting = {}
    BY DEF Init, InitProcess, Counting
  <2>2. Cardinality(Counting) = 0
    BY <2>1, CountingSize
  <2>3. ttl \in [Keys -> 0..PeerTTL] /\ downs \in Nat
    BY SwarmAssumption DEF Init
  <2> QED BY <2>2, <2>3 DEF Table!Init, Table!Keys, Keys, Roles
<1>2. TypeOK /\ [Next]_vars => [Table!Next]_(Table!vars)
  <2> SUFFICES ASSUME TypeOK, [Next]_vars PROVE Table!Next \/ UNCHANGED Table!vars
    OBVIOUS
  <2>0. pc \in [Workers -> Labels] /\ ttl \in [Keys -> Nat] /\ Table!Keys = Keys
    BY DEF TypeOK, Table!Keys, Keys, Roles
  <2>1. ASSUME NEW w \in Workers, Insert(w) PROVE Table!Next \/ UNCHANGED Table!vars
    <3>1. Counting' = Counting /\ downs' = downs
      BY <2>0, <2>1, InsertEffect DEF Counting
    <3>2. PICK k \in Keys : ttl' = [ttl EXCEPT ![k] = PeerTTL] \/ ttl' = ttl
      BY <2>1, InsertEffect
    <3> QED BY <2>0, <3>1, <3>2 DEF Table!Next, Table!Refresh, Table!vars
  <2>2. ASSUME NEW w \in Workers, Remove(w) PROVE Table!Next \/ UNCHANGED Table!vars
    <3>1. Counting' = Counting /\ downs' = downs
      BY <2>0, <2>2, RemoveEffect DEF Counting
    <3>2. PICK k \in Keys : ttl' = [ttl EXCEPT ![k] = 0] \/ ttl' = ttl
      BY <2>2, RemoveEffect
    <3> QED BY <2>0, <3>1, <3>2 DEF Table!Next, Table!Drop, Table!vars
  <2>3. ASSUME NEW w \in Workers, Promote(w) PROVE Table!Next \/ UNCHANGED Table!vars
    <3>1. pc[w] = "update" /\ downs' = downs
      BY <2>3, PromoteEffect
    <3>2. PICK p \in Peers :
             \/ /\ ttl[<<"lc", p>>] > 0
                /\ ttl' = [ttl EXCEPT ![<<"sd", p>>] = ttl[<<"lc", p>>], ![<<"lc", p>>] = 0]
                /\ \E l \in {"incr", "list"} : pc' = [pc EXCEPT ![w] = l]
             \/ ttl' = ttl /\ pc' = [pc EXCEPT ![w] = "list"]
      BY Zenon, <2>3, PromoteEffect
    <3>3. CASE ttl' = ttl /\ pc' = [pc EXCEPT ![w] = "list"]
      <4>1. Counting' = Counting
        BY <2>0, <3>1, <3>3 DEF Counting
      <4> QED BY <3>1, <3>3, <4>1 DEF Table!vars
    <3>4. CASE /\ ttl[<<"lc", p>>] > 0
               /\ ttl' = [ttl EXCEPT ![<<"sd", p>>] = ttl[<<"lc", p>>], ![<<"lc", p>>] = 0]
               /\ \E l \in {"incr", "list"} : pc' = [pc EXCEPT ![w] = l]
      <4>1. w \notin Counting /\ Counting' \in {Counting, Counting \cup {w}}
        BY <2>0, <3>1, <3>4 DEF Counting
      <4>2. Cardinality(Counting') \in {Cardinality(Counting), Cardinality(Counting) + 1}
        BY <4>1, CountingMore
      <4>3. Table!Complete(p)
        BY Zenon, <3>1, <3>4, <4>2 DEF Table!Complete
      <4> QED BY <4>3 DEF Table!Next
    <3> QED BY Zenon, <3>2, <3>3, <3>4
  <2>4. ASSUME NEW w \in Workers, Increment(w) PROVE Table!Next \/ UNCHANGED Table!vars
    <3>1. w \in Counting /\ Counting' = Counting \ {w} /\ ttl' = ttl
      BY <2>0, <2>4 DEF Increment, Goto, Counting
    <3>2. Cardinality(Counting') = Cardinality(Counting) - 1 /\ Cardinality(Counting) > 0
      BY ZenonT(30), <3>1, CountingLess
    <3>3. downs' = downs \/ downs' = downs + 1
      BY <2>4 DEF Increment
    <3> QED BY ZenonT(30), <3>1, <3>2, <3>3 DEF Table!Next, Table!Count, Table!Forget
  <2>5. CASE Tick
    <3>1. Counting' = Counting /\ downs' = downs
      BY <2>5 DEF Tick, locals, Counting
    <3>2. ttl' = [k \in Keys |-> IF ttl[k] > 0 THEN ttl[k] - 1 ELSE 0]
      BY <2>5 DEF Tick, Remaining, Less
    <3> QED BY <2>0, <3>1, <3>2 DEF Table!Next, Table!Age
  <2>6. CASE UNCHANGED <<ttl, downs, joins>> /\ Counting' \in {Counting, {}}
    <3>1. CASE Cardinality(Counting') = Cardinality(Counting)
      BY <2>6, <3>1 DEF Table!vars
    <3>2. CASE Cardinality(Counting') = 0 /\ Cardinality(Counting) > 0
      BY <2>6, <3>2 DEF Table!Next, Table!Forget
    <3> QED BY <2>6, <3>1, <3>2, CountingSize
  <2> QED BY Zenon, <2>1, <2>2, <2>3, <2>4, <2>5, <2>6, CountSteps
<1> QED BY <1>1, <1>2, TypeCorrect, PTL DEF Spec, ImplementsPeerTable, Table!Spec

-----------------------------------------------------------------------------
\* What was never permitted is never tracked.

\* Inductive: a worker past bt_info_hash_blacklisted found the torrent permitted.
PermitInv ==
    /\ Permits(listed) => permitted
    /\ \A w \in Workers : pc[w] = "update" => permitted
    /\ Present # {} => permitted

\* In every behaviour in which the server answers SISMEMBER, a torrent that the
\* white or black list has never allowed has no peer keys.
THEOREM NeverPermittedNeverTrackedHolds ==
    ASSUME "SISMEMBER" \notin Refusals
    PROVE  Spec => []NeverPermittedNeverTracked
<1>1. Init => PermitInv
  BY DEF Init, InitProcess, PermitInv, Present
<1>2. TypeOK /\ PermitInv /\ [Next]_vars => PermitInv'
  <2> SUFFICES ASSUME TypeOK, PermitInv, [Next]_vars PROVE PermitInv'
    OBVIOUS
  <2> USE DEF redis, history, locals, Goto
  <2>0. pc \in [Workers -> Labels] /\ ttl \in [Keys -> Nat]
    BY DEF TypeOK
  <2>1. ASSUME NEW w \in Workers, NEW l, l # "update", pc' = [pc EXCEPT ![w] = l],
               UNCHANGED <<ttl, listed, permitted>>
        PROVE  PermitInv'
    BY <2>0, <2>1 DEF PermitInv, Permits, Present
  <2>2. ASSUME NEW w \in Workers, Insert(w) \/ Remove(w) \/ Promote(w) PROVE PermitInv'
    <3>1. pc[w] = "update" /\ permitted' = permitted /\ listed' = listed
      BY ZenonT(30), <2>2 DEF Insert, Remove, Promote, Updates, Heard, UpdateUnchanged
    <3>2. permitted
      BY <3>1 DEF PermitInv
    <3> QED BY ZenonT(30), <3>1, <3>2 DEF PermitInv
  <2>3. ASSUME NEW w \in Workers, Admit(w) PROVE PermitInv'
    <3>1. UNCHANGED <<ttl, listed, permitted>>
      BY <2>3 DEF Admit
    <3>2. CASE Blacklisted(w) /\ Finish(w)
      BY Zenon, <2>1, <3>1, <3>2 DEF Finish
    <3>3. CASE Admitted(w) /\ pc' = [pc EXCEPT ![w] = "update"]
      <4>1. Permits(listed)
        BY <3>3 DEF Admitted, Refused, Permits
      <4> QED BY <2>0, <3>1, <3>3, <4>1 DEF PermitInv, Permits, Present
    <3> QED BY <2>3, <3>2, <3>3 DEF Admit
  <2>4. ASSUME NEW w \in Workers, Validate(w) \/ IgnoreEvent(w) \/ Increment(w) \/ Answer(w) PROVE PermitInv'
    <3>1. /\ UNCHANGED <<ttl, listed, permitted>>
          /\ \E l \in {"admit", "list", "idle"} : pc' = [pc EXCEPT ![w] = l]
      BY <2>4 DEF Validate, IgnoreEvent, Increment, Answer, Finish, UpdateUnchanged
    <3> QED BY Zenon, <2>1, <3>1
  <2>5. ASSUME NEW w \in Workers, List(w) \/ Fill(w) \/ CountSeeders(w) \/ CountLeechers(w) \/ ReadDownloads(w)
        PROVE  PermitInv'
    <3>1. /\ UNCHANGED <<ttl, listed, permitted>>
          /\ \E l \in {"get", "fill", "leechers", "downloads", "answer"} : pc' = [pc EXCEPT ![w] = l]
      BY <2>5 DEF List, Fill, CountSeeders, CountLeechers, ReadDownloads, ListUnchanged
    <3> QED BY Zenon, <2>1, <3>1
  <2>6. ASSUME NEW w \in Workers, Get(w) \/ Lose(w) PROVE PermitInv'
    <3>1. UNCHANGED <<ttl, listed, permitted, pc>>
      BY ZenonT(30), <2>6 DEF Get, Lose, ListUnchanged
    <3> QED BY ZenonT(30), <3>1 DEF PermitInv, Permits, Present
  <2>7. ASSUME Crash PROVE PermitInv'
    <3>1. UNCHANGED <<ttl, listed, permitted>> /\ pc' = [w \in Workers |-> "idle"]
      BY <2>7 DEF Crash
    <3> QED BY <3>1 DEF PermitInv, Permits, Present
  <2>8. ASSUME NEW w \in Workers, NEW r \in Requests, Begin(w, r) PROVE PermitInv'
    BY Zenon, <2>1, <2>8 DEF Begin
  <2>9. CASE Tick
    <3>1. Present' \subseteq Present
      BY <2>0, <2>9 DEF Tick, Present, Remaining, Less
    <3> QED BY ZenonT(30), <2>9, <3>1 DEF Tick, PermitInv, Permits
  <2>10. CASE EditList
    BY Zenon, <2>10 DEF EditList, PermitInv, Permits, Present
  <2>11. CASE Restart \/ UNCHANGED vars
    BY SMTT(30), <2>11 DEF Restart, vars, PermitInv, Permits, Present
  <2> QED BY Zenon, <2>2, <2>3, <2>4, <2>5, <2>6, <2>7, <2>8, <2>9, <2>10, <2>11
          DEF Next, Work, GetMissing, WildShuffle, WildFree
<1>3. PermitInv => NeverPermittedNeverTracked
  BY DEF PermitInv, NeverPermittedNeverTracked
<1> QED BY <1>1, <1>2, <1>3, TypeCorrect, PTL DEF Spec

=============================================================================
