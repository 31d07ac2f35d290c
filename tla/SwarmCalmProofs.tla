-------------------------- MODULE SwarmCalmProofs --------------------------
(* How long module Swarm keeps a peer, and what it answers an announce with *)
(* when nothing disturbs the listing, for every number of workers and peers. *)
EXTENDS SwarmProofs

USE DEF Expiry, Incremented, FirstRole, Unread, Gap

-----------------------------------------------------------------------------
\* A peer that Redis last heard of by SETEX is kept for PeerTTL.

\* A step starts the life of one key of one peer, by SETEX; or it is a DEL or a
\* RENAME about one peer and leaves the others alone; or time passes; or
\* nothing happens to any key.
LEMMA LifeSteps ==
    ASSUME TypeOK, [Next]_vars
    PROVE  \/ Tick
           \/ \E role \in Roles, p \in Peers :
                 /\ ttl' = [ttl EXCEPT ![<<role, p>>] = PeerTTL]
                 /\ fresh' = [fresh EXCEPT ![p] = PeerTTL]
                 /\ last' = [last EXCEPT ![p] = "SETEX"]
           \/ \E p \in Peers :
                 /\ last'[p] # "SETEX"
                 /\ \A q \in Peers \ {p} :
                       /\ fresh'[q] = fresh[q] /\ last'[q] = last[q]
                       /\ \A role \in Roles : ttl'[<<role, q>>] = ttl[<<role, q>>]
           \/ UNCHANGED <<ttl, fresh, last>>
<1>0. ttl \in [Keys -> Nat] /\ fresh \in [Peers -> Nat]
      /\ last \in [Peers -> {"none", "SETEX", "DEL", "RENAME"}]
  BY DEF TypeOK
<1>1. ASSUME NEW w \in Workers, Insert(w), ~UNCHANGED <<ttl, fresh, last>>
      PROVE  \E role \in Roles, p \in Peers :
                 /\ ttl' = [ttl EXCEPT ![<<role, p>>] = PeerTTL]
                 /\ fresh' = [fresh EXCEPT ![p] = PeerTTL]
                 /\ last' = [last EXCEPT ![p] = "SETEX"]
  <2>1. req[w] \in Announces
    BY <1>1 DEF TypeOK, Insert, Updates
  <2>2. PICK role \in Roles, p \in Peers : OwnKey(req[w]) = <<role, p>>
    BY <2>1 DEF OwnKey, Role, Roles, Announces
  <2>3. /\ ttl' = [ttl EXCEPT ![<<role, p>>] = PeerTTL]
        /\ Heard(<<role, p>>[2], "SETEX")
    BY Zenon, <1>1, <2>2 DEF Insert, history
  <2>4. <<role, p>>[2] = p
    OBVIOUS
  <2> QED BY Zenon, <2>3, <2>4 DEF Heard
<1>2. ASSUME NEW w \in Workers, Remove(w) \/ Promote(w), ~UNCHANGED <<ttl, fresh, last>>
      PROVE  \E p \in Peers :
                 /\ last'[p] # "SETEX"
                 /\ \A q \in Peers \ {p} :
                       /\ fresh'[q] = fresh[q] /\ last'[q] = last[q]
                       /\ \A role \in Roles : ttl'[<<role, q>>] = ttl[<<role, q>>]
  <2>1. req[w] \in Announces /\ req[w].peer \in Peers
    BY <1>2 DEF TypeOK, Remove, Promote, Updates, Announces
  <2>2. PICK p \in Peers : p = req[w].peer
    BY <2>1
  <2>3. OwnKey(req[w]) = <<Role(IsSeeder(req[w])), p>> /\ OwnKey(req[w])[2] = p
    BY <2>2 DEF OwnKey
  <2>4. PICK command \in {"DEL", "RENAME"} : Heard(p, command)
    BY Zenon, <1>2, <2>2, <2>3 DEF Remove, Promote, history
  <2>5. \/ ttl' = ttl
        \/ ttl' = [ttl EXCEPT ![<<Role(IsSeeder(req[w])), p>>] = 0]
        \/ ttl' = [ttl EXCEPT ![<<"sd", p>>] = ttl[<<"lc", p>>], ![<<"lc", p>>] = 0]
    BY Zenon, <1>2, <2>2, <2>3 DEF Remove, Promote
  <2>6. last'[p] # "SETEX"
    BY <1>0, <2>4 DEF Heard
  <2>7. ASSUME NEW q \in Peers \ {p}
        PROVE  fresh'[q] = fresh[q] /\ last'[q] = last[q]
    BY <1>0, <2>4, <2>7 DEF Heard
  <2>8. ASSUME NEW q \in Peers \ {p}, NEW role \in Roles
        PROVE  ttl'[<<role, q>>] = ttl[<<role, q>>]
    <3>1. <<role, q>> \in Keys /\ \A r : <<role, q>> # <<r, p>>
      BY DEF Keys
    <3> QED BY <1>0, <2>5, <3>1
  <2> QED BY <2>6, <2>7, <2>8
<1> QED BY Zenon, <1>1, <1>2, KeySteps

\* In every behaviour, a peer whose last announce that reached Redis was neither
\* STOPPED nor COMPLETED is in the swarm until PeerTTL has passed since.
THEOREM KeptForPeerTTLHolds == Spec => []KeptForPeerTTL
<1>1. Init => KeptForPeerTTL
  BY DEF Init, KeptForPeerTTL
<1>2. TypeOK /\ KeptForPeerTTL /\ [Next]_vars => KeptForPeerTTL'
  <2> SUFFICES ASSUME TypeOK, KeptForPeerTTL, [Next]_vars, NEW p \in Peers,
                      last'[p] = "SETEX", fresh'[p] > 0
               PROVE  \E role \in Roles : ttl'[<<role, p>>] = fresh'[p]
    BY DEF KeptForPeerTTL
  <2>0. /\ ttl \in [Keys -> Nat] /\ fresh \in [Peers -> Nat] /\ PeerTTL \in Nat
        /\ \A role \in Roles, q \in Peers : <<role, q>> \in Keys
        /\ last \in [Peers -> {"none", "SETEX", "DEL", "RENAME"}]
    BY SwarmAssumption DEF TypeOK, Keys
  <2>1. CASE Tick
    <3>1. /\ last'[p] = last[p] /\ fresh'[p] = Less(fresh[p])
          /\ \A k \in Keys : ttl'[k] = Less(ttl[k])
      BY <2>1 DEF Tick, Remaining
    <3>2. fresh[p] > 0
      BY <2>0, <3>1 DEF Less
    <3>3. PICK role \in Roles : ttl[<<role, p>>] = fresh[p]
      BY <3>1, <3>2 DEF KeptForPeerTTL
    <3> QED BY <2>0, <3>1, <3>3
  <2>2. ASSUME NEW role \in Roles, NEW q \in Peers,
               ttl' = [ttl EXCEPT ![<<role, q>>] = PeerTTL],
               fresh' = [fresh EXCEPT ![q] = PeerTTL],
               last' = [last EXCEPT ![q] = "SETEX"]
        PROVE  \E r \in Roles : ttl'[<<r, p>>] = fresh'[p]
    <3>1. CASE q = p
      BY <2>0, <2>2, <3>1
    <3>2. CASE q # p
      <4>1. last[p] = "SETEX" /\ fresh'[p] = fresh[p]
        BY <2>0, <2>2, <3>2
      <4>2. PICK r \in Roles : ttl[<<r, p>>] = fresh[p]
        BY <4>1 DEF KeptForPeerTTL
      <4>3. <<r, p>> # <<role, q>> /\ <<r, p>> \in Keys
        BY <2>0, <3>2
      <4> QED BY <2>0, <2>2, <4>1, <4>2, <4>3
    <3> QED BY <3>1, <3>2
  <2>3. ASSUME NEW q \in Peers, last'[q] # "SETEX",
               \A o \in Peers \ {q} :
                  /\ fresh'[o] = fresh[o] /\ last'[o] = last[o]
                  /\ \A role \in Roles : ttl'[<<role, o>>] = ttl[<<role, o>>]
        PROVE  \E r \in Roles : ttl'[<<r, p>>] = fresh'[p]
    BY ZenonT(30), <2>3 DEF KeptForPeerTTL
  <2>4. CASE UNCHANGED <<ttl, fresh, last>>
    BY <2>4 DEF KeptForPeerTTL
  <2> QED BY Zenon, <2>1, <2>2, <2>3, <2>4, LifeSteps
<1> QED BY <1>1, <1>2, TypeCorrect, PTL DEF Spec

-----------------------------------------------------------------------------
\* An announce that nothing disturbs is answered from one swarm.

\* When the first list is shorter than wanted it is the whole of its role, and
\* the second list makes up the rest from the other role.
LEMMA FilledSelection ==
    ASSUME NEW A, NEW B, IsFiniteSet(A), IsFiniteSet(B), A \cap B = {}, NEW n \in Nat,
           NEW P \in Selections(A, n), Cardinality(P) < n,
           NEW S \in Selections(B, n - Cardinality(P))
    PROVE  P = A /\ S \cup P \in Selections(A \cup B, n)
<1>1. Cardinality(A) \in Nat /\ Cardinality(B) \in Nat
  BY FS_CardinalityType
<1>2. P \subseteq A /\ Cardinality(P) = UpperIndex(Cardinality(A), n)
  BY DEF Selections
<1>3. P = A
  <2>1. Cardinality(A) = Cardinality(P)
    BY <1>1, <1>2 DEF UpperIndex
  <2> QED BY ZenonT(30), <1>2, <2>1, FS_Subset
<1>4. S \subseteq B /\ Cardinality(S) = UpperIndex(Cardinality(B), n - Cardinality(A))
  BY <1>3 DEF Selections
<1>5. IsFiniteSet(S) /\ Cardinality(S) \in Nat
  BY <1>4, FS_Subset, FS_CardinalityType
<1>6. Cardinality(S \cup A) = Cardinality(S) + Cardinality(A)
  <2>1. S \cap A = {}
    BY <1>4
  <2>2. Cardinality(S \cap A) = 0
    BY <2>1, FS_EmptySet
  <2>3. Cardinality(S \cup A) = Cardinality(S) + Cardinality(A) - Cardinality(S \cap A)
    BY <1>5, FS_Union
  <2> QED BY <1>1, <1>5, <2>2, <2>3
<1>7. Cardinality(A \cup B) = Cardinality(A) + Cardinality(B)
  <2>1. Cardinality(A \cap B) = 0
    BY FS_EmptySet
  <2>2. Cardinality(A \cup B) = Cardinality(A) + Cardinality(B) - Cardinality(A \cap B)
    BY FS_Union
  <2> QED BY <1>1, <2>1, <2>2
<1>8. Cardinality(S \cup A) = UpperIndex(Cardinality(A \cup B), n)
  <2>1. Cardinality(A) < n
    BY <1>3
  <2> QED BY <1>1, <1>4, <1>5, <1>6, <1>7, <2>1 DEF UpperIndex
<1> QED BY <1>3, <1>4, <1>8 DEF Selections

\* When the first list is as long as wanted, it is a selection of the whole swarm.
LEMMA EnoughSelection ==
    ASSUME NEW A, NEW B, IsFiniteSet(A), IsFiniteSet(B), NEW n \in Nat,
           NEW P \in Selections(A, n), ~(Cardinality(P) < n)
    PROVE  P \in Selections(A \cup B, n)
<1>1. Cardinality(A) \in Nat /\ Cardinality(A \cup B) \in Nat /\ Cardinality(A) <= Cardinality(A \cup B)
  <2>1. IsFiniteSet(A \cup B)
    BY ZenonT(30), FS_Union
  <2>2. Cardinality(A) <= Cardinality(A \cup B)
    BY <2>1, FS_Subset
  <2> QED BY <2>1, <2>2, FS_CardinalityType
<1>2. P \subseteq A /\ Cardinality(P) = UpperIndex(Cardinality(A), n)
  BY DEF Selections
<1>3. Cardinality(P) = UpperIndex(Cardinality(A \cup B), n)
  BY <1>1, <1>2 DEF UpperIndex
<1> QED BY <1>2, <1>3 DEF Selections

\* The swarm is its seeders and its leechers, whichever of them comes first.
LEMMA TwoRoles ==
    ASSUME NEW b \in BOOLEAN
    PROVE  /\ KeysOf(Role(b)) \cup KeysOf(Role(~b)) = Present
           /\ KeysOf(Role(~b)) \cap KeysOf(Role(b)) = {}
           /\ IsFiniteSet(KeysOf(Role(b))) /\ IsFiniteSet(KeysOf(Role(~b)))
<1>1. KeysOf(Role(b)) \in SUBSET Keys /\ KeysOf(Role(~b)) \in SUBSET Keys
  BY DEF KeysOf, Present
<1>2. \A k \in Present : k[1] \in {"sd", "lc"}
  BY DEF Present, Keys, Roles
<1>3. Role(b) \in {"sd", "lc"} /\ Role(~b) \in {"sd", "lc"} /\ Role(b) # Role(~b)
  BY DEF Role
<1> QED BY <1>1, <1>2, <1>3, KeysFinite DEF KeysOf

\* Inductive: what a worker has so far, at each point of its listing.
CalmState(w) ==
    LET n == NumWant(req[w])
        opposite == KeysOf(Role(~IsSeeder(req[w]))) IN
    /\ pc[w] \in {"get", "fill", "leechers", "downloads", "answer"}
    /\ Up(w) /\ ~Refused("KEYS")
    /\ pc[w] = "get" => todo[w] \cup peers[w] \in Selections(opposite, n)
    /\ pc[w] = "fill" =>
          opposite \subseteq peers[w] /\ todo[w] \cup peers[w] \in Selections(Present, n)
    /\ pc[w] \in {"leechers", "downloads", "answer"} =>
          /\ peers[w] \in Selections(Present, n)
          /\ opposite \subseteq peers[w] \/ peers[w] \subseteq opposite
          /\ stats[w].seeders = Cardinality(KeysOf("sd"))
    /\ pc[w] \in {"downloads", "answer"} => stats[w].leechers = Cardinality(KeysOf("lc"))

CalmInv == \A w \in Workers : calm[w] => CalmState(w)

\* A step that leaves the worker and the set of keys alone, or ends the calm,
\* keeps its part.
LEMMA CalmKept ==
    ASSUME NEW w \in Workers, CalmInv,
           calm'[w] => /\ calm[w] /\ Present' = Present
                       /\ pc'[w] = pc[w] /\ req'[w] = req[w] /\ todo'[w] = todo[w]
                       /\ peers'[w] = peers[w] /\ stats'[w] = stats[w] /\ link'[w] = link[w]
    PROVE  calm'[w] => CalmState(w)'
<1> SUFFICES ASSUME calm'[w] PROVE CalmState(w)'
  OBVIOUS
<1>1. CalmState(w)
  BY DEF CalmInv
<1>2. \A r : KeysOf(r)' = KeysOf(r)
  BY DEF KeysOf
<1> QED BY ZenonT(30), <1>1, <1>2 DEF CalmState, Up, Refused

\* In every behaviour, an announce during whose listing no key came or went and
\* the connection held is answered with peers and counts of that one swarm.
THEOREM CalmAnswerExactHolds == Spec => []CalmAnswerExact
<1>1. Init => CalmInv
  BY DEF Init, InitProcess, CalmInv
<1>2. TypeOK /\ ListInv /\ CalmInv /\ [Next]_vars => CalmInv'
  <2> SUFFICES ASSUME TypeOK, ListInv, CalmInv, [Next]_vars, NEW w \in Workers
               PROVE  calm'[w] => CalmState(w)'
    BY DEF CalmInv
  <2> USE DEF redis, history, locals, notes
  <2>0. /\ pc \in [Workers -> Labels] /\ req \in [Workers -> Announces \cup {NoAnnounce}]
        /\ todo \in [Workers -> SUBSET Keys] /\ peers \in [Workers -> SUBSET Keys]
        /\ stats \in [Workers -> Stats] /\ calm \in [Workers -> BOOLEAN]
        /\ link \in [Workers -> {"up", "down"}]
        /\ \A v \in Workers : pc[v] # "idle" => req[v] \in Announces
    BY DEF TypeOK
  <2>1. ASSUME NEW v \in Workers, Finish(v), UNCHANGED <<ttl, link>> PROVE calm'[w] => CalmState(w)'
    <3>1. v = w => ~calm'[w]
      BY <2>0, <2>1 DEF Finish
    <3>2. v # w => /\ calm'[w] = calm[w] /\ pc'[w] = pc[w] /\ req'[w] = req[w]
                   /\ todo'[w] = todo[w] /\ peers'[w] = peers[w] /\ stats'[w] = stats[w]
      BY ZenonT(30), <2>0, <2>1 DEF Finish, Goto
    <3>3. Present' = Present /\ link' = link
      BY <2>1 DEF Present
    <3> QED BY Zenon, <3>1, <3>2, <3>3, CalmKept
  <2>2. ASSUME Crash PROVE calm'[w] => CalmState(w)'
    BY <2>2 DEF Crash
  \* Steps of the worker before its first KEYS, and of the other workers.
  <2>3. ASSUME NEW v \in Workers, NEW l, pc' = [pc EXCEPT ![v] = l],
               pc[v] \notin {"get", "fill", "leechers", "downloads", "answer"},
               UNCHANGED <<todo, peers, stats>>,
               \A u \in Workers : u # v => req'[u] = req[u] /\ link'[u] = link[u],
               \A u \in Workers : calm'[u] => calm[u] /\ Present' = Present
        PROVE  calm'[w] => CalmState(w)'
    <3>1. v = w => ~calm'[w]
      BY ZenonT(30), <2>3 DEF CalmInv, CalmState
    <3>2. v # w => pc'[w] = pc[w] /\ req'[w] = req[w] /\ link'[w] = link[w]
      BY <2>0, <2>3
    <3> QED BY Zenon, <2>3, <3>1, <3>2, CalmKept
  <2>4. ASSUME NEW v \in Workers, NEW r \in Requests, Begin(v, r) PROVE calm'[w] => CalmState(w)'
    BY ZenonT(30), <2>0, <2>3, <2>4 DEF Begin, Goto, Present
  <2>5. ASSUME NEW v \in Workers, Validate(v) \/ Admit(v) PROVE calm'[w] => CalmState(w)'
    <3>1. CASE Finish(v)
      BY <2>1, <2>5, <3>1 DEF Validate, Admit
    <3>2. CASE ~Finish(v)
      <4>1. UNCHANGED <<todo, peers, stats, req, link, calm, ttl>> /\ pc[v] \in {"valid", "admit"}
        BY Zenon, <2>5, <3>2 DEF Validate, Admit
      <4>2. PICK l : pc' = [pc EXCEPT ![v] = l]
        BY Zenon, <2>5, <3>2 DEF Validate, Admit, Goto
      <4> QED BY ZenonT(30), <2>3, <4>1, <4>2 DEF Present
    <3> QED BY <3>1, <3>2
  <2>6. ASSUME NEW v \in Workers,
               Insert(v) \/ Remove(v) \/ Promote(v) \/ IgnoreEvent(v) \/ Increment(v)
        PROVE  calm'[w] => CalmState(w)'
    <3>1. UNCHANGED <<todo, peers, stats, req>> /\ pc[v] \in {"update", "incr"}
      BY Zenon, <2>6 DEF Insert, Remove, Promote, IgnoreEvent, Increment, Updates, UpdateUnchanged
    <3>2. link' = link \/ link' = [link EXCEPT ![v] = "down"]
      BY Zenon, <2>6 DEF Insert, Remove, Promote, IgnoreEvent, Increment
    <3>3. PICK l : pc' = [pc EXCEPT ![v] = l]
      BY Zenon, <2>6 DEF Insert, Remove, Promote, IgnoreEvent, Increment, Goto
    <3>4. Disturb \/ UNCHANGED <<ttl, calm>>
      BY Zenon, <2>6 DEF Insert, Remove, Promote, IgnoreEvent, Increment
    <3>5. \A u \in Workers : calm'[u] => calm[u] /\ Present' = Present
      BY ZenonT(30), <3>4 DEF Disturb, Present
    <3>6. \A u \in Workers : u # v => req'[u] = req[u] /\ link'[u] = link[u]
      BY <2>0, <3>1, <3>2
    <3> QED BY ZenonT(30), <2>3, <3>1, <3>3, <3>5, <3>6
  \* Steps of the listing: of another worker first.
  <2>7. ASSUME NEW v \in Workers, v # w, ListUnchanged, NEW l, pc' = [pc EXCEPT ![v] = l] \/ pc' = pc,
               todo' = todo \/ \E S : todo' = [todo EXCEPT ![v] = S],
               peers' = peers \/ \E S : peers' = [peers EXCEPT ![v] = S],
               stats' = stats \/ \E c : stats' = [stats EXCEPT ![v] = c],
               calm' = calm \/ \E b : calm' = [calm EXCEPT ![v] = b]
        PROVE  calm'[w] => CalmState(w)'
    <3>1. /\ pc'[w] = pc[w] /\ todo'[w] = todo[w] /\ peers'[w] = peers[w]
          /\ stats'[w] = stats[w] /\ calm'[w] = calm[w]
      BY Zenon, <2>0, <2>7
    <3>2. req' = req /\ link' = link /\ Present' = Present
      BY <2>7 DEF ListUnchanged, Present
    <3> QED BY Zenon, <3>1, <3>2, CalmKept
  <2>8. ASSUME NEW v \in Workers, List(v) PROVE calm'[w] => CalmState(w)'
    <3>1. CASE v # w
      BY Zenon, <2>7, <2>8, <3>1 DEF List, Goto
    <3>2. CASE v = w
      <4> SUFFICES ASSUME calm'[w] PROVE CalmState(w)'
        OBVIOUS
      <4>1. PICK S \in Picks(w, Role(~IsSeeder(req[w])), NumWant(req[w])) :
               todo' = [todo EXCEPT ![w] = S] /\ calm' = [calm EXCEPT ![w] = Up(w) /\ ~Refused("KEYS")]
        BY Zenon, <2>8, <3>2 DEF List
      <4>2. Up(w) /\ ~Refused("KEYS")
        BY ZenonT(30), <2>0, <4>1
      <4>3. S \in Selections(KeysOf(Role(~IsSeeder(req[w]))), NumWant(req[w]))
        BY <4>1, <4>2 DEF Picks, Refused
      <4>4. peers[w] = {} /\ pc'[w] = "get" /\ todo'[w] = S /\ peers' = peers /\ req' = req /\ link' = link
        BY ZenonT(30), <2>0, <2>8, <3>2, <4>1 DEF List, Goto, ListInv, ListUnchanged
      <4>5. \A r : KeysOf(r)' = KeysOf(r)
        BY <2>8 DEF List, ListUnchanged, KeysOf, Present
      <4>6. todo'[w] \cup peers'[w] \in Selections(KeysOf(Role(~IsSeeder(req[w])))', NumWant(req[w])')
        BY <4>3, <4>4, <4>5
      <4> QED BY <4>2, <4>4, <4>6 DEF CalmState, Up, Refused
    <3> QED BY <3>1, <3>2
  <2>9. ASSUME NEW v \in Workers, Get(v) PROVE calm'[w] => CalmState(w)'
    <3>1. CASE v # w
      BY ZenonT(30), <2>7, <2>9, <3>1 DEF Get
    <3>2. CASE v = w
      <4> SUFFICES ASSUME calm'[w] PROVE CalmState(w)'
        OBVIOUS
      <4>1. UNCHANGED <<pc, stats, calm, req, link, ttl>> /\ pc[w] \in {"get", "fill"}
        BY <2>9, <3>2 DEF Get, ListUnchanged
      <4>2. CalmState(w)
        BY <4>1 DEF CalmInv
      <4>3. PICK k \in todo[w] :
               todo' = [todo EXCEPT ![w] = todo[w] \ {k}] /\ peers' = [peers EXCEPT ![w] = @ \cup {k}]
        BY Zenon, <2>9, <3>2, <4>2 DEF Get, CalmState
      <4>4. todo'[w] \cup peers'[w] = todo[w] \cup peers[w] /\ peers[w] \subseteq peers'[w]
        BY <2>0, <4>3
      <4>5. Present' = Present /\ \A r : KeysOf(r)' = KeysOf(r)
        BY <4>1 DEF KeysOf, Present
      <4> QED BY ZenonT(30), <4>1, <4>2, <4>4, <4>5 DEF CalmState, Up, Refused
    <3> QED BY <3>1, <3>2
  <2>10. ASSUME NEW v \in Workers, Fill(v) PROVE calm'[w] => CalmState(w)'
    <3>1. CASE v # w
      BY ZenonT(30), <2>7, <2>10, <3>1 DEF Fill, Goto
    <3>2. CASE v = w
      <4> SUFFICES ASSUME calm'[w] PROVE CalmState(w)'
        OBVIOUS
      <4> DEFINE n == NumWant(req[w])
                 b == IsSeeder(req[w])
      <4>1. UNCHANGED <<peers, stats, calm, req, link, ttl>> /\ pc[w] = "get" /\ todo[w] = {} /\ Short(w)
        BY <2>10, <3>2 DEF Fill, ListUnchanged
      <4>2. CalmState(w)
        BY <4>1 DEF CalmInv
      <4>3. PICK S \in Picks(w, Role(b), Gap(w)) : todo' = [todo EXCEPT ![w] = S]
        BY Zenon, <2>10, <3>2 DEF Fill
      <4>4. S \in Selections(KeysOf(Role(b)), n - Cardinality(peers[w]))
        BY ZenonT(30), <4>2, <4>3 DEF Picks, CalmState, Refused
      <4>5. peers[w] \in Selections(KeysOf(Role(~b)), n) /\ Cardinality(peers[w]) < n
        BY <4>1, <4>2 DEF CalmState, Short
      <4>6. n \in Nat /\ b \in BOOLEAN
        <5>1. n \in Nat
          BY <2>0, <4>1, NumWantRange, SwarmAssumption
        <5> QED BY Zenon, <5>1 DEF IsSeeder
      <4>7. /\ KeysOf(Role(b)) \cup KeysOf(Role(~b)) = Present
            /\ KeysOf(Role(~b)) \cap KeysOf(Role(b)) = {}
            /\ IsFiniteSet(KeysOf(Role(b))) /\ IsFiniteSet(KeysOf(Role(~b)))
        BY Zenon, <4>6, TwoRoles
      <4>8. peers[w] = KeysOf(Role(~b)) /\ S \cup peers[w] \in Selections(KeysOf(Role(~b)) \cup KeysOf(Role(b)), n)
        <5> HIDE DEF n, b
        <5> QED BY ZenonT(30), <4>4, <4>5, <4>6, <4>7, FilledSelection
      <4>9. KeysOf(Role(~b)) \cup KeysOf(Role(b)) = Present
        BY <4>7
      <4>10. pc'[w] = "fill" /\ todo'[w] = S
        BY ZenonT(30), <2>0, <2>10, <3>2, <4>3 DEF Fill, Goto
      <4>11. Present' = Present /\ \A r : KeysOf(r)' = KeysOf(r)
        BY <4>1 DEF KeysOf, Present
      <4> QED BY ZenonT(30), <4>1, <4>2, <4>8, <4>9, <4>10, <4>11 DEF CalmState, Up, Refused
    <3> QED BY <3>1, <3>2
  <2>11. ASSUME NEW v \in Workers, CountSeeders(v) PROVE calm'[w] => CalmState(w)'
    <3>1. CASE v # w
      BY ZenonT(30), <2>7, <2>11, <3>1 DEF CountSeeders, Goto
    <3>2. CASE v = w
      <4> SUFFICES ASSUME calm'[w] PROVE CalmState(w)'
        OBVIOUS
      <4> DEFINE n == NumWant(req[w])
                 b == IsSeeder(req[w])
      <4>1. UNCHANGED <<todo, peers, calm, req, link, ttl>> /\ Listed(w)
        BY <2>11, <3>2 DEF CountSeeders, ListUnchanged
      <4>2. CalmState(w)
        BY <4>1 DEF CalmInv
      <4>3. PICK c \in Counts(w, "sd") : stats' = [stats EXCEPT ![w].seeders = c]
        BY Zenon, <2>11, <3>2 DEF CountSeeders
      <4>4. c = Cardinality(KeysOf("sd"))
        BY <4>2, <4>3 DEF Counts, CalmState, Refused
      <4>5. stats'[w].seeders = c /\ pc'[w] = "leechers"
        BY <2>0, <2>11, <3>2, <4>3 DEF CountSeeders, Goto, Stats
      <4>6. n \in Nat /\ b \in BOOLEAN
        <5>1. n \in Nat
          BY <2>0, <4>1, NumWantRange, SwarmAssumption DEF Listed
        <5> QED BY Zenon, <5>1 DEF IsSeeder
      <4>7. /\ KeysOf(Role(~b)) \cup KeysOf(Role(b)) = Present
            /\ IsFiniteSet(KeysOf(Role(b))) /\ IsFiniteSet(KeysOf(Role(~b)))
        BY ZenonT(30), <4>6, TwoRoles
      <4>8. /\ peers[w] \in Selections(Present, n)
            /\ KeysOf(Role(~b)) \subseteq peers[w] \/ peers[w] \subseteq KeysOf(Role(~b))
        <5>1. CASE pc[w] = "fill"
          BY ZenonT(30), <4>1, <4>2, <5>1 DEF CalmState, Listed
        <5>2. CASE pc[w] = "get" /\ ~Short(w)
          <6>1. peers[w] \in Selections(KeysOf(Role(~b)), n) /\ ~(Cardinality(peers[w]) < n)
            BY <4>1, <4>2, <5>2 DEF CalmState, Listed, Short
          <6>2. peers[w] \in Selections(KeysOf(Role(~b)) \cup KeysOf(Role(b)), n)
            BY Zenon, <4>6, <4>7, <6>1, EnoughSelection
          <6> QED BY ZenonT(30), <4>7, <6>1, <6>2 DEF Selections
        <5> QED BY ZenonT(30), <4>1, <5>1, <5>2 DEF Listed
      <4>9. Present' = Present /\ \A r : KeysOf(r)' = KeysOf(r)
        BY <4>1 DEF KeysOf, Present
      <4> QED BY ZenonT(30), <4>1, <4>2, <4>4, <4>5, <4>8, <4>9 DEF CalmState, Up, Refused
    <3> QED BY <3>1, <3>2
  <2>12. ASSUME NEW v \in Workers, CountLeechers(v) \/ ReadDownloads(v) PROVE calm'[w] => CalmState(w)'
    <3>1. CASE v # w
      BY Zenon, <2>7, <2>12, <3>1 DEF CountLeechers, ReadDownloads, Goto
    <3>2. CASE v = w
      <4> SUFFICES ASSUME calm'[w] PROVE CalmState(w)'
        OBVIOUS
      <4>1. UNCHANGED <<todo, peers, calm, req, link, ttl>>
        BY <2>12, <3>2 DEF CountLeechers, ReadDownloads, ListUnchanged
      <4>2. CalmState(w)
        BY ZenonT(30), <4>1 DEF CalmInv
      <4>3. Present' = Present /\ \A r : KeysOf(r)' = KeysOf(r)
        BY ZenonT(30), <4>1 DEF KeysOf, Present
      <4>4. CASE CountLeechers(w)
        <5>1. PICK c \in Counts(w, "lc") : stats' = [stats EXCEPT ![w].leechers = c]
          BY Zenon, <4>4 DEF CountLeechers
        <5>2. c = Cardinality(KeysOf("lc"))
          BY <4>2, <5>1 DEF Counts, CalmState, Refused
        <5>3. /\ stats'[w].leechers = c /\ stats'[w].seeders = stats[w].seeders
              /\ pc[w] = "leechers" /\ pc'[w] = "downloads"
          BY SMTT(30), <2>0, <4>4, <5>1 DEF CountLeechers, Goto, Stats
        <5> QED BY ZenonT(30), <4>1, <4>2, <4>3, <5>2, <5>3 DEF CalmState, Up, Refused
      <4>5. CASE ReadDownloads(w)
        <5>1. stats' = stats /\ pc[w] = "downloads" /\ pc'[w] = "answer"
          BY ZenonT(30), <2>0, <4>5 DEF ReadDownloads, Goto
        <5> QED BY ZenonT(30), <4>1, <4>2, <4>3, <5>1 DEF CalmState, Up, Refused
      <4> QED BY ZenonT(30), <2>12, <3>2, <4>4, <4>5
    <3> QED BY <3>1, <3>2
  <2>13. ASSUME NEW v \in Workers, Lose(v) PROVE calm'[w] => CalmState(w)'
    <3>1. v = w => ~calm'[w]
      BY <2>0, <2>13 DEF Lose
    <3>2. v # w => calm'[w] = calm[w] /\ link'[w] = link[w]
      BY ZenonT(30), <2>0, <2>13 DEF Lose
    <3>3. UNCHANGED locals /\ Present' = Present
      BY <2>13 DEF Lose, Present
    <3> QED BY ZenonT(30), <3>1, <3>2, <3>3, CalmKept
  <2>14. CASE Tick
    <3>1. calm'[w] => calm[w] /\ Present' = Present
      BY ZenonT(30), <2>14 DEF Tick, Disturb
    <3>2. UNCHANGED <<locals, link>>
      BY <2>14 DEF Tick
    <3> QED BY <3>1, <3>2, CalmKept
  <2>15. CASE EditList \/ Restart \/ UNCHANGED vars
    <3>1. UNCHANGED <<locals, link, calm, ttl>>
      BY Zenon, <2>15 DEF EditList, Restart, vars
    <3>2. Present' = Present
      BY <3>1 DEF Present
    <3> QED BY <3>1, <3>2, CalmKept
  <2>16. ASSUME NEW v \in Workers, Answer(v) PROVE calm'[w] => CalmState(w)'
    BY ZenonT(30), <2>1, <2>16 DEF Answer
  <2> QED BY Zenon, <2>2, <2>4, <2>5, <2>6, <2>8, <2>9, <2>10, <2>11, <2>12, <2>13, <2>14, <2>15, <2>16
          DEF Next, Work, GetMissing, WildShuffle, WildFree
<1>3. TypeOK /\ CalmInv => CalmAnswerExact
  <2> SUFFICES ASSUME TypeOK, CalmInv, NEW w \in Workers, pc[w] = "answer", calm[w]
               PROVE  /\ peers[w] \in Selections(Present, NumWant(req[w]))
                      /\ \/ KeysOf(Role(~IsSeeder(req[w]))) \subseteq peers[w]
                         \/ peers[w] \subseteq KeysOf(Role(~IsSeeder(req[w])))
                      /\ stats[w] = [seeders |-> Cardinality(KeysOf("sd")),
                                     leechers |-> Cardinality(KeysOf("lc"))]
    BY DEF CalmAnswerExact
  <2>1. CalmState(w)
    BY ZenonT(30) DEF CalmInv
  <2>2. stats[w] = [seeders |-> stats[w].seeders, leechers |-> stats[w].leechers]
    BY DEF TypeOK, Stats
  <2> QED BY ZenonT(30), <2>1, <2>2 DEF CalmState
<1> QED BY <1>1, <1>2, <1>3, TypeCorrect, ListInvHolds, PTL DEF Spec
-----------------------------------------------------------------------------
\* Two counts that are not taken at once.

\* A step never adds more leecher keys than keys: only SETEX makes one, and
\* RENAME turns a leecher key into a seeder key.
LEMMA LeechersGrow ==
    ASSUME TypeOK, [Next]_vars
    PROVE  /\ Grown \in Nat
           /\ Cardinality(KeysOf("lc")) \in Nat /\ Cardinality(KeysOf("lc")') \in Nat
           /\ Cardinality(KeysOf("lc")') <= Cardinality(KeysOf("lc")) + Grown
<1> DEFINE L == KeysOf("lc")
           M == KeysOf("lc")'
<1>0. /\ ttl \in [Keys -> Nat] /\ PeerTTL \in Nat \ {0}
      /\ Present \in SUBSET Keys /\ Present' \in SUBSET Keys
      /\ L \in SUBSET Keys /\ M \in SUBSET Keys
  BY SwarmAssumption DEF TypeOK, KeysOf, Present
<1>1. /\ Cardinality(Present) \in Nat /\ Cardinality(Present') \in Nat
      /\ Cardinality(L) \in Nat /\ Cardinality(M) \in Nat
      /\ IsFiniteSet(Present) /\ IsFiniteSet(L)
  BY <1>0, KeysFinite
<1>2. Grown \in Nat
  BY <1>1 DEF Grown
<1>3. ASSUME M \subseteq L PROVE Cardinality(M) <= Cardinality(L) + Grown
  <2>1. Cardinality(M) <= Cardinality(L)
    BY <1>1, <1>3, FS_Subset
  <2> HIDE DEF L, M
  <2> QED BY <1>1, <1>2, <2>1
<1>4. ASSUME NEW w \in Workers, Insert(w) PROVE Cardinality(M) <= Cardinality(L) + Grown
  <2>1. PICK k \in Keys : ttl' = [ttl EXCEPT ![k] = PeerTTL] \/ ttl' = ttl
    BY Zenon, <1>4, InsertEffect
  <2>2. CASE k \in Present \/ ttl' = ttl
    <3>1. M \subseteq L
      BY <1>0, <2>1, <2>2 DEF KeysOf, Present
    <3> QED BY <1>3, <3>1
  <2>3. CASE k \notin Present /\ ttl' = [ttl EXCEPT ![k] = PeerTTL]
    <3>1. Present' = Present \cup {k}
      BY <1>0, <2>3 DEF Present
    <3>2. Cardinality(Present') = Cardinality(Present) + 1
      BY ZenonT(30), <1>1, <2>3, <3>1, FS_AddElement
    <3>3. Grown = 1
      BY <1>1, <3>2 DEF Grown
    <3>4. M \subseteq L \cup {k}
      BY <3>1 DEF KeysOf
    <3>5. Cardinality(L \cup {k}) \in Nat /\ Cardinality(L \cup {k}) <= Cardinality(L) + 1
      BY <1>0, AddBound
    <3>6. Cardinality(M) <= Cardinality(L \cup {k})
      <4>1. IsFiniteSet(L \cup {k})
        BY <1>0, KeysFinite
      <4> HIDE DEF L, M
      <4> QED BY Zenon, <3>4, <4>1, FS_Subset
    <3> HIDE DEF L, M
    <3> QED BY <1>1, <3>3, <3>5, <3>6
  <2> QED BY Zenon, <2>1, <2>2, <2>3
<1>5. ASSUME NEW w \in Workers, Remove(w) PROVE Cardinality(M) <= Cardinality(L) + Grown
  <2>1. PICK k \in Keys : ttl' = [ttl EXCEPT ![k] = 0] \/ ttl' = ttl
    BY Zenon, <1>5, RemoveEffect
  <2>2. M \subseteq L
    BY <1>0, <2>1 DEF KeysOf, Present
  <2> QED BY <1>3, <2>2
<1>6. ASSUME NEW w \in Workers, Promote(w) PROVE Cardinality(M) <= Cardinality(L) + Grown
  <2>1. PICK p \in Peers :
           \/ ttl' = [ttl EXCEPT ![<<"sd", p>>] = ttl[<<"lc", p>>], ![<<"lc", p>>] = 0]
           \/ ttl' = ttl
    BY Zenon, <1>6, PromoteEffect
  <2>2. ASSUME NEW k \in Keys, k[1] = "lc" PROVE ttl'[k] = ttl[k] \/ ttl'[k] = 0
    <3>1. k # <<"sd", p>>
      BY <2>2
    <3> QED BY <1>0, <2>1, <3>1
  <2>3. M \subseteq L
    BY <1>0, <2>2 DEF KeysOf, Present
  <2> QED BY <1>3, <2>3
<1>7. ASSUME Tick PROVE Cardinality(M) <= Cardinality(L) + Grown
  <2>1. M \subseteq L
    BY <1>0, <1>7 DEF Tick, Remaining, Less, KeysOf, Present
  <2> QED BY <1>3, <2>1
<1>8. ASSUME ttl' = ttl PROVE Cardinality(M) <= Cardinality(L) + Grown
  <2>1. M \subseteq L
    BY <1>8 DEF KeysOf, Present
  <2> QED BY <1>3, <2>1
<1>9. Cardinality(M) <= Cardinality(L) + Grown
  BY Zenon, <1>4, <1>5, <1>6, <1>7, <1>8, KeySteps
<1> QED BY <1>1, <1>2, <1>9

\* Inductive: what has been counted, and between the two counts what the second
\* one could count now, is within the room.
CountState(w) ==
    /\ pc[w] = "leechers" => stats[w].seeders + Cardinality(KeysOf("lc")) <= room[w]
    /\ pc[w] \in {"downloads", "answer"} => stats[w].seeders + stats[w].leechers <= room[w]

CountInv == \A w \in Workers : CountState(w)

\* A worker does not count, takes one of its counts, or is between or after
\* them while others change the swarm or do not.
LEMMA CountingSteps ==
    ASSUME TypeOK, [Next]_vars, NEW w \in Workers
    PROVE  \/ pc'[w] \notin {"leechers", "downloads", "answer"}
           \/ CountSeeders(w) \/ CountLeechers(w) \/ ReadDownloads(w)
           \/ /\ pc'[w] = pc[w] /\ stats'[w] = stats[w]
              /\ Disturb \/ (room'[w] = room[w] /\ ttl' = ttl)
<1> DEFINE Goal == \/ pc'[w] \notin {"leechers", "downloads", "answer"}
                   \/ CountSeeders(w) \/ CountLeechers(w) \/ ReadDownloads(w)
                   \/ /\ pc'[w] = pc[w] /\ stats'[w] = stats[w]
                      /\ Disturb \/ (room'[w] = room[w] /\ ttl' = ttl)
<1> USE DEF redis, history, locals, notes
<1>0. /\ pc \in [Workers -> Labels] /\ stats \in [Workers -> Stats]
      /\ room \in [Workers -> Nat]
  BY DEF TypeOK
<1>1. ASSUME NEW v \in Workers, Finish(v), UNCHANGED ttl PROVE Goal
  BY ZenonT(30), <1>0, <1>1 DEF Finish, Goto
<1>2. ASSUME Crash PROVE Goal
  BY ZenonT(30), <1>2 DEF Crash
\* Steps that move one worker on to a place before its counts.
<1>3. ASSUME NEW v \in Workers, NEW l \in {"valid", "admit", "update", "incr", "list", "get", "fill"},
             pc' = [pc EXCEPT ![v] = l], stats' = stats,
             Disturb \/ (room' = room /\ ttl' = ttl)
      PROVE  Goal
  <2>1. pc'[w] = l \/ pc'[w] = pc[w]
    BY <1>0, <1>3
  <2> QED BY Zenon, <1>3, <2>1
<1>4. ASSUME NEW v \in Workers, NEW r \in Requests, Begin(v, r) PROVE Goal
  BY ZenonT(30), <1>3, <1>4 DEF Begin, Goto
<1>5. ASSUME NEW v \in Workers, Validate(v) \/ Admit(v) PROVE Goal
  BY ZenonT(30), <1>1, <1>3, <1>5 DEF Validate, Admit, Goto
<1>6. ASSUME NEW v \in Workers,
             Insert(v) \/ Remove(v) \/ Promote(v) \/ IgnoreEvent(v) \/ Increment(v)
      PROVE  Goal
  <2>1. PICK l \in {"incr", "list"} : pc' = [pc EXCEPT ![v] = l]
    BY Zenon, <1>6, PromoteLabel DEF Insert, Remove, IgnoreEvent, Increment, Goto
  <2>2. stats' = stats
    BY Zenon, <1>6 DEF Insert, Remove, Promote, IgnoreEvent, Increment, UpdateUnchanged
  <2>3. Disturb \/ (room' = room /\ ttl' = ttl)
    BY Zenon, <1>6 DEF Insert, Remove, Promote, IgnoreEvent, Increment
  <2> QED BY Zenon, <1>3, <2>1, <2>2, <2>3
<1>7. ASSUME NEW v \in Workers, List(v) \/ Fill(v) PROVE Goal
  BY ZenonT(30), <1>3, <1>7 DEF List, Fill, ListUnchanged, Goto
<1>8. ASSUME NEW v \in Workers, Get(v) PROVE Goal
  BY <1>8 DEF Get, ListUnchanged
<1>9. ASSUME NEW v \in Workers, v # w, CountSeeders(v) \/ CountLeechers(v) \/ ReadDownloads(v) PROVE Goal
  <2>1. pc'[w] = pc[w] /\ stats'[w] = stats[w]
    BY <1>0, <1>9 DEF CountSeeders, CountLeechers, ReadDownloads, Goto
  <2>2. room'[w] = room[w] /\ ttl' = ttl
    BY ZenonT(30), <1>0, <1>9 DEF CountSeeders, CountLeechers, ReadDownloads, ListUnchanged
  <2> QED BY <2>1, <2>2
<1>10. ASSUME NEW v \in Workers, Answer(v) PROVE Goal
  BY ZenonT(30), <1>1, <1>10 DEF Answer
<1>11. CASE Tick
  BY <1>11 DEF Tick
<1>12. ASSUME EditList \/ Restart \/ UNCHANGED vars \/ \E v \in Workers : Lose(v) PROVE Goal
  BY Zenon, <1>12 DEF EditList, Restart, vars, Lose
<1>13. ASSUME NEW v \in Workers, CountSeeders(v) \/ CountLeechers(v) \/ ReadDownloads(v) PROVE Goal
  BY Zenon, <1>9, <1>13
<1> QED BY Zenon, <1>2, <1>4, <1>5, <1>6, <1>7, <1>8, <1>10, <1>11, <1>12, <1>13
        DEF Next, Work, GetMissing, WildShuffle, WildFree

\* In every behaviour, the seeders and leechers of an announce response are
\* together at most the keys there were or came while they were counted: the
\* order of the two KEYS keeps a promotion from being counted twice.
THEOREM NoKeyCountedTwiceHolds == Spec => []NoKeyCountedTwice
<1>1. Init => CountInv
  BY DEF Init, InitProcess, CountInv, CountState
<1>2. TypeOK /\ CountInv /\ [Next]_vars => CountInv'
  <2> SUFFICES ASSUME TypeOK, CountInv, [Next]_vars, NEW w \in Workers PROVE CountState(w)'
    BY DEF CountInv
  <2>0. /\ pc \in [Workers -> Labels] /\ stats \in [Workers -> Stats] /\ room \in [Workers -> Nat]
        /\ stats[w].seeders \in Int /\ stats[w].leechers \in Int
        /\ stats[w] = [seeders |-> stats[w].seeders, leechers |-> stats[w].leechers]
    BY DEF TypeOK, Stats, Uninit
  <2>1. CountState(w)
    BY DEF CountInv
  <2>2. /\ Grown \in Nat
        /\ Cardinality(KeysOf("lc")) \in Nat /\ Cardinality(KeysOf("lc")') \in Nat
        /\ Cardinality(KeysOf("lc")') <= Cardinality(KeysOf("lc")) + Grown
    BY Zenon, LeechersGrow
  <2>3. CASE pc'[w] \notin {"leechers", "downloads", "answer"}
    BY <2>3 DEF CountState
  <2>4. ASSUME pc'[w] = pc[w], stats'[w] = stats[w], Disturb PROVE CountState(w)'
    <3>1. room'[w] = IF pc[w] = "leechers" THEN room[w] + Grown ELSE room[w]
      BY <2>4 DEF Disturb
    <3>2. CASE pc[w] = "leechers"
      <4>1. room'[w] = room[w] + Grown /\ stats[w].seeders + Cardinality(KeysOf("lc")) <= room[w]
        BY ZenonT(30), <2>1, <3>1, <3>2 DEF CountState
      <4>2. stats[w].seeders + Cardinality(KeysOf("lc")') <= room'[w]
        BY <2>0, <2>2, <4>1
      <4> QED BY ZenonT(30), <2>4, <3>2, <4>2 DEF CountState
    <3>3. CASE pc[w] # "leechers"
      BY ZenonT(30), <2>1, <2>4, <3>1, <3>3 DEF CountState
    <3> QED BY ZenonT(30), <3>2, <3>3
  <2>5. ASSUME pc'[w] = pc[w], stats'[w] = stats[w], room'[w] = room[w], ttl' = ttl PROVE CountState(w)'
    <3>1. KeysOf("lc")' = KeysOf("lc")
      BY <2>5 DEF KeysOf, Present
    <3> QED BY <2>1, <2>5, <3>1 DEF CountState
  <2>6. CASE CountSeeders(w)
    <3>1. PICK c \in Counts(w, "sd") : stats' = [stats EXCEPT ![w].seeders = c]
      BY Zenon, <2>6 DEF CountSeeders
    <3>2. /\ Cardinality(KeysOf("sd")) \in Nat /\ Cardinality(Present) \in Nat
          /\ Cardinality(Present) = Cardinality(KeysOf("sd")) + Cardinality(KeysOf("lc"))
      <4> DEFINE S == KeysOf("sd")
                 L == KeysOf("lc")
      <4>1. S \in SUBSET Keys /\ L \in SUBSET Keys /\ S \cap L = {} /\ S \cup L = Present
        BY DEF KeysOf, Present, Keys, Roles
      <4>2. IsFiniteSet(S) /\ IsFiniteSet(L) /\ Cardinality(S) \in Nat /\ Cardinality(L) \in Nat
        BY <4>1, KeysFinite
      <4> HIDE DEF S, L
      <4>3. Cardinality(S \cap L) = 0
        BY <4>1, FS_EmptySet
      <4>4. Cardinality(S \cup L) = Cardinality(S) + Cardinality(L) - Cardinality(S \cap L)
        BY <4>2, FS_Union
      <4>5. Cardinality(Present) = Cardinality(S \cup L)
        BY Zenon, <4>1
      <4>6. Cardinality(Present) = Cardinality(S) + Cardinality(L)
        BY <4>2, <4>3, <4>4, <4>5
      <4> QED BY <4>2, <4>6 DEF S, L
    <3>3. c \in Int /\ c <= Cardinality(KeysOf("sd"))
      BY <3>1, <3>2 DEF Counts, Uninit
    <3>4. pc'[w] = "leechers" /\ stats'[w].seeders = c /\ room'[w] = Cardinality(Present)
      BY <2>0, <2>6, <3>1 DEF CountSeeders, Goto
    <3>5. KeysOf("lc")' = KeysOf("lc")
      BY ZenonT(30), <2>6 DEF CountSeeders, ListUnchanged, redis, KeysOf, Present
    <3>6. stats'[w].seeders + Cardinality(KeysOf("lc")') <= room'[w]
      BY <2>2, <3>2, <3>3, <3>4, <3>5
    <3> QED BY <3>4, <3>6 DEF CountState
  <2>7. CASE CountLeechers(w)
    <3>1. PICK c \in Counts(w, "lc") : stats' = [stats EXCEPT ![w].leechers = c]
      BY Zenon, <2>7 DEF CountLeechers
    <3>2. c \in Int /\ c <= Cardinality(KeysOf("lc"))
      BY <2>2, <3>1 DEF Counts, Uninit
    <3>3. /\ pc[w] = "leechers" /\ pc'[w] = "downloads" /\ room' = room
          /\ stats'[w].leechers = c /\ stats'[w].seeders = stats[w].seeders
      BY ZenonT(30), <2>0, <2>7, <3>1 DEF CountLeechers, Goto, notes
    <3>4. stats[w].seeders + Cardinality(KeysOf("lc")) <= room[w]
      BY <2>1, <3>3 DEF CountState
    <3>5. stats[w].seeders + c <= room[w]
      BY <2>0, <2>2, <3>2, <3>4
    <3> QED BY <3>3, <3>5 DEF CountState
  <2>8. CASE ReadDownloads(w)
    <3>1. pc[w] = "downloads" /\ pc'[w] = "answer" /\ stats' = stats /\ room' = room
      BY <2>0, <2>8 DEF ReadDownloads, Goto, notes
    <3> QED BY <2>1, <3>1 DEF CountState
  <2> QED BY Zenon, <2>3, <2>4, <2>5, <2>6, <2>7, <2>8, CountingSteps
<1>3. CountInv => NoKeyCountedTwice
  BY DEF CountInv, CountState, NoKeyCountedTwice
<1> QED BY <1>1, <1>2, <1>3, TypeCorrect, PTL DEF Spec
=============================================================================
