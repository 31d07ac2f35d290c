------------------------------- MODULE Swarm -------------------------------
(***************************************************************************)
(* The swarm of one torrent as bttracker keeps it in Redis, and the worker *)
(* threads that handle announce requests against it (announce.c, data.c).  *)
(*                                                                         *)
(* A worker runs bt_handle_announce as a sequence of Redis commands.  Each *)
(* command is atomic in the server; between two commands of one worker any *)
(* other worker's command may run, keys may expire, the worker's           *)
(* connection may break, or the whole process may die.  So every command   *)
(* is an action here, and what a worker has learned so far is local state. *)
(*                                                                         *)
(* The keys of one torrent are never named by a command about another one, *)
(* so one torrent is modelled: key <<"sd", p>> is <prefix>:pr:<hash>:sd:p. *)
(*                                                                         *)
(* An operator whose name ends in an underscore is the one that follows it *)
(* with a mistake in it.  No behaviour uses it; it is a mistake that one   *)
(* of the properties rules out.                                            *)
(***************************************************************************)
EXTENDS Sampling

CONSTANTS
    Workers,      \* threads of the pool
    Peers,        \* peer ids
    Requests,     \* announce requests that may arrive, in any order, any number of times
    NoAnnounce,   \* placeholder for the request of an idle worker
    PeerTTL,      \* config->announce_peer_ttl, in ticks of the clock
    MaxNumWant,   \* config->announce_max_numwant
    Restriction,  \* config->info_hash_restriction
    Refusals,     \* commands the server may answer with an error reply (GET: of a connection)
    MaxAnnounces  \* bound: requests handled in a behaviour

Events == {"NONE", "COMPLETED", "STARTED", "STOPPED", "OTHER"}

\* bt_announce_req_t, the fields the handler looks at.
Announces == [peer : Peers, event : Events, left : Int, num_want : Int]

ASSUME SwarmAssumption ==
    /\ IsFiniteSet(Workers)
    /\ IsFiniteSet(Peers)
    /\ Requests \subseteq Announces
    /\ NoAnnounce \notin Announces
    /\ PeerTTL \in Nat \ {0}
    /\ MaxNumWant \in Nat
    /\ Restriction \in {"none", "whitelist", "blacklist"}
    /\ Refusals \subseteq {"GET", "SISMEMBER", "SETEX", "DEL", "RENAME", "HINCRBY", "KEYS"}
    /\ MaxAnnounces \in Nat

Roles == {"sd", "lc"}
Keys == Roles \X Peers

VARIABLES
    ttl,        \* Redis: remaining life of each peer key, 0 when there is no such key
    downs,      \* Redis: field downs of <prefix>:ih:<hash>
    listed,     \* Redis: whether the torrent is in <prefix>:ih:wl (or :bl)
    alive,      \* whether the tracker process is running
    link,       \* per worker: its Redis connection
    pc,         \* per worker: the command of bt_handle_announce it runs next
    req,        \* per worker: announce_request
    todo,       \* per worker: keys whose pipelined GET is not answered yet
    peers,      \* per worker: keys whose address is in the list `peers`
    stats,      \* per worker: bt_torrent_stats_t
    announces,  \* requests handled so far
    fresh,      \* history: ticks left until PeerTTL has passed since a peer's last announce
    last,       \* history: what the last announce of a peer made Redis do
    joins,      \* history: times a leecher key came into being
    permitted,  \* history: whether Restriction has ever allowed the torrent
    calm,       \* history, per worker: nothing disturbed its listing since the first KEYS
    room        \* history, per worker: keys there were at the first KEYS of its counts,
                \* and came until the second

redis == <<ttl, downs, listed>>
locals == <<pc, req, todo, peers, stats>>
history == <<fresh, last, joins, permitted>>
notes == <<calm, room>>
vars == <<redis, alive, link, locals, announces, history, notes>>

Labels == {"idle", "valid", "admit", "update", "incr", "list", "get", "fill",
           "leechers", "downloads", "answer"}

\* An int of bt_torrent_stats_t that nothing has been stored in.
Uninit == -1
NoStats == [seeders |-> Uninit, leechers |-> Uninit]

Present == {k \in Keys : ttl[k] > 0}
KeysOf(role) == {k \in Present : k[1] = role}

Permits(member) ==
    \/ Restriction = "none"
    \/ Restriction = "whitelist" /\ member
    \/ Restriction = "blacklist" /\ ~member

-----------------------------------------------------------------------------
\* The locals of a worker and of the process.

Goto(w, l) == pc' = [pc EXCEPT ![w] = l]

\* The handler returns: the worker's locals are gone.
Finish(w) ==
    /\ Goto(w, "idle")
    /\ req' = [req EXCEPT ![w] = NoAnnounce]
    /\ todo' = [todo EXCEPT ![w] = {}]
    /\ peers' = [peers EXCEPT ![w] = {}]
    /\ stats' = [stats EXCEPT ![w] = NoStats]
    /\ calm' = [calm EXCEPT ![w] = FALSE]
    /\ room' = [room EXCEPT ![w] = 0]

\* An invalid memory access kills the process with every worker in it; Redis
\* and what it holds stay.
Crash ==
    /\ alive' = FALSE
    /\ link' = [w \in Workers |-> "up"]
    /\ pc' = [w \in Workers |-> "idle"]
    /\ req' = [w \in Workers |-> NoAnnounce]
    /\ todo' = [w \in Workers |-> {}]
    /\ peers' = [w \in Workers |-> {}]
    /\ stats' = [w \in Workers |-> NoStats]
    /\ calm' = [w \in Workers |-> FALSE]
    /\ room' = [w \in Workers |-> 0]
    /\ UNCHANGED <<redis, announces, history>>

\* The process has just started: every worker idle.
InitProcess ==
    /\ alive = TRUE
    /\ link = [w \in Workers |-> "up"]
    /\ pc = [w \in Workers |-> "idle"]
    /\ req = [w \in Workers |-> NoAnnounce]
    /\ todo = [w \in Workers |-> {}]
    /\ peers = [w \in Workers |-> {}]
    /\ stats = [w \in Workers |-> NoStats]
    /\ calm = [w \in Workers |-> FALSE]
    /\ room = [w \in Workers |-> 0]
    /\ announces = 0

Init ==
    /\ InitProcess
    /\ ttl = [k \in Keys |-> 0]
    /\ downs = 0
    /\ listed \in BOOLEAN
    /\ fresh = [p \in Peers |-> 0]
    /\ last = [p \in Peers |-> "none"]
    /\ joins = 0
    /\ permitted = Permits(listed)

-----------------------------------------------------------------------------
\* bt_handle_announce, one action per Redis command.

Up(w) == link[w] = "up"
Refused(c) == c \in Refusals

IsSeeder(r) == r.left = 0
Role(seeder) == IF seeder THEN "sd" ELSE "lc"
OwnKey(r) == <<Role(IsSeeder(r)), r.peer>>
NumWant(r) == IF r.num_want < 0 \/ r.num_want > MaxNumWant THEN MaxNumWant ELSE r.num_want

\* A worker takes a request up.  bt_request_processor has pinged or renewed
\* the connection just before.
Begin(w, r) ==
    /\ alive /\ pc[w] = "idle" /\ announces < MaxAnnounces
    /\ Goto(w, "valid")
    /\ req' = [req EXCEPT ![w] = r]
    /\ link' = [link EXCEPT ![w] = "up"]
    /\ announces' = announces + 1
    /\ UNCHANGED <<redis, alive, todo, peers, stats, history, notes>>

\* bt_valid_request: GET of the connection key.  No reply or an error reply makes
\* the request invalid; a key that is not there does not.
Validate(w) ==
    /\ pc[w] = "valid"
    /\ \/ Up(w) /\ Goto(w, "admit") /\ UNCHANGED <<req, todo, peers, stats, notes>>
       \/ (~Up(w) \/ Refused("GET")) /\ Finish(w)
    /\ UNCHANGED <<redis, alive, link, announces, history>>

\* bt_info_hash_blacklisted: no reply counts as blacklisted, an error reply does not.
Admitted_(w) == TRUE
Admitted(w) ==
    \/ Restriction = "none"
    \/ Up(w) /\ Permits(listed)
    \/ Up(w) /\ Refused("SISMEMBER")

Blacklisted(w) ==
    /\ Restriction # "none"
    /\ ~Up(w) \/ ~Permits(listed)

Admit(w) ==
    /\ pc[w] = "admit"
    /\ \/ Admitted(w) /\ Goto(w, "update") /\ UNCHANGED <<req, todo, peers, stats, notes>>
       \/ Blacklisted(w) /\ Finish(w)
    /\ UNCHANGED <<redis, alive, link, announces, history>>

\* bt_update_peer_list, one action per case of its switch; first what they share.
Updates(w, events) == pc[w] = "update" /\ req[w].event \in events
Grown ==
    LET more == Cardinality(Present') - Cardinality(Present)
    IN  IF more > 0 THEN more ELSE 0
Disturb ==
    /\ calm' = [v \in Workers |-> calm[v] /\ Present' = Present]
    /\ room' = [v \in Workers |-> IF pc[v] = "leechers" THEN room[v] + Grown ELSE room[v]]
Heard(p, command) ==
    /\ fresh' = IF command = "DEL" THEN fresh ELSE [fresh EXCEPT ![p] = PeerTTL]
    /\ last' = [last EXCEPT ![p] = command]
    /\ UNCHANGED permitted
UpdateUnchanged == UNCHANGED <<listed, alive, req, todo, peers, stats, announces>>

\* The expiry bt_insert_peer gives a key.
Expiry_ == PeerTTL + 1
Expiry__ == PeerTTL - 1
Expiry == PeerTTL

\* bt_insert_peer: SETEX.
Insert(w) ==
    /\ Updates(w, {"NONE", "STARTED"})
    /\ Goto(w, "list")
    /\ LET k == OwnKey(req[w]) IN
       \/ /\ Up(w)
          /\ ttl' = [ttl EXCEPT ![k] = Expiry]
          /\ joins' = IF k[1] = "lc" /\ ttl[k] = 0 THEN joins + 1 ELSE joins
          /\ Heard(k[2], "SETEX")
          /\ Disturb
       \/ /\ ~Up(w) \/ Refused("SETEX")
          /\ UNCHANGED <<ttl, history, notes>>
    /\ UNCHANGED <<downs, link>> /\ UpdateUnchanged

\* bt_remove_peer: DEL of the key under the role the request claims.
Remove(w) ==
    /\ Updates(w, {"STOPPED"})
    /\ Goto(w, "list")
    /\ LET k == OwnKey(req[w]) IN
       \/ /\ Up(w)
          /\ ttl' = [ttl EXCEPT ![k] = 0]
          /\ Heard(k[2], "DEL")
          /\ Disturb
          /\ UNCHANGED joins
       \/ /\ ~Up(w) \/ Refused("DEL")
          /\ UNCHANGED <<ttl, history, notes>>
    /\ UNCHANGED <<downs, link>> /\ UpdateUnchanged

\* A download is counted when RENAME has found a leecher key.
AfterRename_(lc) == "incr"
AfterRename(lc) == IF ttl[lc] > 0 THEN "incr" ELSE "list"

\* bt_promote_peer: RENAME lc -> sd, which carries the key's remaining life
\* over.  It fails when there is no leecher key; its reply may be lost after
\* the server has executed it.
Promote(w) ==
    /\ Updates(w, {"COMPLETED"})
    /\ LET lc == <<"lc", req[w].peer>>
           sd == <<"sd", req[w].peer>> IN
       \/ /\ Up(w) /\ ttl[lc] > 0
          /\ ttl' = [ttl EXCEPT ![sd] = ttl[lc], ![lc] = 0]
          /\ \/ Goto(w, AfterRename(lc)) /\ UNCHANGED link
             \/ Goto(w, "list") /\ link' = [link EXCEPT ![w] = "down"]
          /\ Heard(req[w].peer, "RENAME")
          /\ Disturb
          /\ UNCHANGED joins
       \/ /\ Up(w) /\ ttl[lc] = 0
          /\ Goto(w, AfterRename(lc))
          /\ Heard(req[w].peer, "RENAME")
          /\ UNCHANGED <<ttl, link, joins, notes>>
       \/ /\ ~Up(w) \/ Refused("RENAME")
          /\ Goto(w, "list")
          /\ UNCHANGED <<ttl, link, history, notes>>
    /\ UNCHANGED downs /\ UpdateUnchanged

\* The default of bt_update_peer_list's switch.
IgnoreEvent(w) ==
    /\ Updates(w, {"OTHER"})
    /\ Goto(w, "list")
    /\ UNCHANGED <<ttl, downs, link, history, notes>> /\ UpdateUnchanged

\* bt_increment_downloads: HINCRBY.
Incremented_(n) == n - 1
Incremented(n) == n + 1

Increment(w) ==
    /\ pc[w] = "incr"
    /\ Goto(w, "list")
    /\ \/ Up(w) /\ downs' = Incremented(downs)
       \/ (~Up(w) \/ Refused("HINCRBY")) /\ UNCHANGED downs
    /\ UNCHANGED <<ttl, link, history, notes>> /\ UpdateUnchanged

\* bt_peer_list's KEYS: the keys it will GET.  Nothing when the server does not
\* answer, or answers with an error.
Picks(w, role, n) ==
    IF Up(w) THEN Selections(KeysOf(role), n) \cup {{} : c \in Refusals \cap {"KEYS"}}
             ELSE {{}}

ListUnchanged == UNCHANGED <<redis, alive, link, req, announces, history>>

\* The opposite role first.
FirstRole_(r) == Role(IsSeeder(r))
FirstRole(r) == Role(~IsSeeder(r))

List(w) ==
    /\ pc[w] = "list"
    /\ Goto(w, "get")
    /\ \E S \in Picks(w, FirstRole(req[w]), NumWant(req[w])) :
          /\ todo' = [todo EXCEPT ![w] = S]
          /\ calm' = [calm EXCEPT ![w] = Up(w) /\ ~Refused("KEYS")]
    /\ UNCHANGED <<peers, stats, room>> /\ ListUnchanged

\* A GET without a reply is not tried again.
Unread_(w, k) == IF Up(w) THEN todo[w] \ {k} ELSE todo[w]
Unread(w, k) == todo[w] \ {k}

\* One reply of the pipelined GETs: an address, or no reply and one peer less.
Get(w) ==
    /\ pc[w] \in {"get", "fill"}
    /\ \E k \in todo[w] :
          /\ todo' = [todo EXCEPT ![w] = Unread(w, k)]
          /\ \/ Up(w) /\ ttl[k] > 0 /\ peers' = [peers EXCEPT ![w] = @ \cup {k}]
             \/ ~Up(w) /\ UNCHANGED peers
    /\ UNCHANGED <<pc, stats, notes>> /\ ListUnchanged

\* The key has gone since KEYS listed it: the reply is nil, its str is NULL
\* and bt_peer_list dereferences it.
GetMissing(w) ==
    /\ pc[w] \in {"get", "fill"} /\ Up(w)
    /\ \E k \in todo[w] : ttl[k] = 0
    /\ Crash

Short(w) == Cardinality(peers[w]) < NumWant(req[w])

\* The requester's own role fills the gap.
Gap_(w) == NumWant(req[w])
Gap(w) == NumWant(req[w]) - Cardinality(peers[w])

Fill(w) ==
    /\ pc[w] = "get" /\ todo[w] = {} /\ Short(w)
    /\ Goto(w, "fill")
    /\ \E S \in Picks(w, Role(IsSeeder(req[w])), Gap(w)) :
          todo' = [todo EXCEPT ![w] = S]
    /\ UNCHANGED <<peers, stats, notes>> /\ ListUnchanged

\* The shuffle of bt_peer_list draws one key too far (module PeerSample): what it
\* reads there is no key.
WildShuffle(w) ==
    /\ Up(w)
    /\ \/ pc[w] = "list" /\ KeysOf(FirstRole(req[w])) # {} /\ NumWant(req[w]) > 0
       \/ pc[w] = "get" /\ todo[w] = {} /\ Short(w) /\ KeysOf(Role(IsSeeder(req[w]))) # {}
    /\ Crash

Listed(w) == /\ todo[w] = {}
             /\ pc[w] = "fill" \/ (pc[w] = "get" /\ ~Short(w))

\* What a KEYS reply of bt_get_torrent_stats counts; without a reply the field
\* keeps what was on the stack.
Counts_(w, role) ==
    IF Up(w) THEN {Cardinality(KeysOf(Role(role = "lc")))} \cup {0 : c \in Refusals \cap {"KEYS"}}
             ELSE {Uninit}
Counts(w, role) ==
    IF Up(w) THEN {Cardinality(KeysOf(role))} \cup {0 : c \in Refusals \cap {"KEYS"}}
             ELSE {Uninit}

\* bt_get_torrent_stats, one action per pipelined command.
CountSeeders(w) ==
    /\ Listed(w)
    /\ Goto(w, "leechers")
    /\ \E n \in Counts(w, "sd") : stats' = [stats EXCEPT ![w].seeders = n]
    /\ room' = [room EXCEPT ![w] = Cardinality(Present)]
    /\ UNCHANGED <<todo, peers, calm>> /\ ListUnchanged

CountLeechers(w) ==
    /\ pc[w] = "leechers"
    /\ Goto(w, "downloads")
    /\ \E n \in Counts(w, "lc") : stats' = [stats EXCEPT ![w].leechers = n]
    /\ UNCHANGED <<todo, peers, notes>> /\ ListUnchanged

\* stats.downloads is not part of an announce response.
ReadDownloads(w) ==
    /\ pc[w] = "downloads"
    /\ Goto(w, "answer")
    /\ UNCHANGED <<todo, peers, stats, notes>> /\ ListUnchanged

\* Without a reply, `reply` is uninitialized or already freed, and is freed:
\* the process may die of it, or go on as above.
WildFree(w) ==
    /\ Listed(w) \/ pc[w] \in {"leechers", "downloads"}
    /\ ~Up(w)
    /\ Crash

\* bt_serialize_announce_response; the caller sends it and frees everything.
Answer(w) ==
    /\ pc[w] = "answer"
    /\ Finish(w)
    /\ UNCHANGED <<redis, alive, link, announces, history>>

-----------------------------------------------------------------------------
\* The environment.

\* The connection of a busy worker breaks: every later command gets no reply.
Lose(w) ==
    /\ pc[w] # "idle" /\ Up(w)
    /\ link' = [link EXCEPT ![w] = "down"]
    /\ calm' = [calm EXCEPT ![w] = FALSE]
    /\ UNCHANGED <<redis, alive, locals, announces, history, room>>

Less(n) == IF n > 0 THEN n - 1 ELSE 0

\* Every key has been written with an expiry, by SETEX or by RENAME of one.
Remaining_(k) == IF k[1] = "sd" THEN ttl[k] ELSE Less(ttl[k])
Remaining(k) == Less(ttl[k])

\* Time passes: Redis drops the keys that are due.
Tick ==
    /\ Present # {} \/ \E p \in Peers : fresh[p] > 0
    /\ ttl' = [k \in Keys |-> Remaining(k)]
    /\ fresh' = [p \in Peers |-> Less(fresh[p])]
    /\ Disturb
    /\ UNCHANGED <<downs, listed, alive, link, locals, announces, last, joins, permitted>>

\* The operator edits the white or black list.
EditList ==
    /\ Restriction # "none"
    /\ listed' = ~listed
    /\ permitted' = (permitted \/ Permits(listed'))
    /\ UNCHANGED <<ttl, downs, alive, link, locals, announces, fresh, last, joins, notes>>

\* The operator or a supervisor starts the tracker again.
Restart ==
    /\ ~alive
    /\ alive' = TRUE
    /\ UNCHANGED <<redis, link, locals, announces, history, notes>>

Work(w) ==
    \/ Validate(w) \/ Admit(w)
    \/ Insert(w) \/ Remove(w) \/ Promote(w) \/ IgnoreEvent(w) \/ Increment(w)
    \/ List(w) \/ Get(w) \/ GetMissing(w) \/ Fill(w) \/ WildShuffle(w)
    \/ CountSeeders(w) \/ CountLeechers(w) \/ ReadDownloads(w) \/ WildFree(w)
    \/ Answer(w)

Next ==
    \/ \E w \in Workers : Work(w) \/ Lose(w) \/ \E r \in Requests : Begin(w, r)
    \/ Tick \/ EditList \/ Restart

\* Redis answers or the connection breaks, so a busy worker always moves on;
\* the clock does not stop.
Fairness == WF_vars(Tick) /\ \A w \in Workers : WF_vars(Work(w))

Spec == Init /\ [][Next]_vars
FairSpec == Spec /\ Fairness

-----------------------------------------------------------------------------
\* What the code keeps.

Stats == [seeders : Nat \cup {Uninit}, leechers : Nat \cup {Uninit}]

\* Every variable keeps its type, and a worker inside bt_handle_announce has a
\* request; the download counter of Redis is never negative.
TypeOK ==
    /\ ttl \in [Keys -> Nat]
    /\ downs \in Nat
    /\ listed \in BOOLEAN
    /\ alive \in BOOLEAN
    /\ link \in [Workers -> {"up", "down"}]
    /\ pc \in [Workers -> Labels]
    /\ req \in [Workers -> Announces \cup {NoAnnounce}]
    /\ todo \in [Workers -> SUBSET Keys]
    /\ peers \in [Workers -> SUBSET Keys]
    /\ stats \in [Workers -> Stats]
    /\ announces \in Nat
    /\ fresh \in [Peers -> Nat]
    /\ last \in [Peers -> {"none", "SETEX", "DEL", "RENAME"}]
    /\ joins \in Nat
    /\ permitted \in BOOLEAN
    /\ calm \in [Workers -> BOOLEAN]
    /\ room \in [Workers -> Nat]
    /\ \A w \in Workers : pc[w] # "idle" => req[w] \in Announces

\* No peer stays in the swarm longer than PeerTTL after the last announce it
\* sent: neither the SETEX of bt_insert_peer nor the RENAME of bt_promote_peer,
\* in any interleaving, gives a key more life than that.
NoGhostPeers == \A k \in Present : ttl[k] <= fresh[k[2]]

\* PeerTTL is kept to the tick for a peer that Redis last heard of by the SETEX
\* of bt_insert_peer, whatever other requests do meanwhile: one of its keys has
\* the whole rest of that life.  Only STOPPED and COMPLETED can end it earlier.
KeptForPeerTTL ==
    \A p \in Peers : last[p] = "SETEX" /\ fresh[p] > 0 =>
        \E role \in Roles : ttl[<<role, p>>] = fresh[p]

\* Both bt_peer_list calls of one announce together never collect more peers
\* than the clamped num_want, so never more than MaxNumWant.
WithinNumWant ==
    \A w \in Workers : pc[w] # "idle" =>
        Cardinality(peers[w]) <= NumWant(req[w]) /\ Cardinality(peers[w]) <= MaxNumWant

\* The download counter never runs ahead of the leechers that joined: duplicate
\* COMPLETED announces, on any number of workers, count one download, because
\* only one RENAME of a leecher key succeeds.
DownloadsBacked == downs <= joins

\* When no key came or went and the connection held since its first KEYS, an
\* announce is answered from one consistent swarm: as many peers as wanted and
\* present, the opposite role before the own one, and the exact counts.
CalmAnswerExact ==
    \A w \in Workers : pc[w] = "answer" /\ calm[w] =>
        LET n == NumWant(req[w])
            opposite == KeysOf(Role(~IsSeeder(req[w]))) IN
        /\ peers[w] \in Selections(Present, n)
        /\ opposite \subseteq peers[w] \/ peers[w] \subseteq opposite
        /\ stats[w] = [seeders |-> Cardinality(KeysOf("sd")),
                       leechers |-> Cardinality(KeysOf("lc"))]

\* The two KEYS of bt_get_torrent_stats count no key twice, whatever other
\* announces do between them: seeders are counted first and RENAME only makes
\* seeders of leechers, so a peer promoted in between is in neither count and
\* the sum of two counts that were answered is within the keys there were, or
\* came, while it counted.
NoKeyCountedTwice ==
    \A w \in Workers :
        pc[w] \in {"downloads", "answer"} /\ Uninit \notin {stats[w].seeders, stats[w].leechers} =>
            stats[w].seeders + stats[w].leechers <= room[w]

\* A torrent that the white or black list has never allowed has no swarm, as
\* long as SISMEMBER itself is not refused (bt_info_hash_blacklisted).
NeverPermittedNeverTracked == permitted \/ Present = {}

\* The workers between a successful RENAME and their HINCRBY.
Counting == {w \in Workers : pc[w] = "incr"}

Table == INSTANCE PeerTable WITH owed <- Cardinality(Counting)

\* Whatever the interleaving of announces, crashes and expiry, Redis changes as
\* one table does: each step refreshes, drops or promotes one peer, ages all, or
\* counts one download that a promotion owes (bt_update_peer_list).
ImplementsPeerTable == Table!Spec

\* Every request taken up is finished, by an answer or by the end of the
\* process: no path of bt_handle_announce waits for another worker.
AnnouncesFinish == \A w \in Workers : pc[w] # "idle" ~> pc[w] = "idle"

\* Once announces stop coming the swarm empties for good: every key that
\* bt_insert_peer and bt_promote_peer write carries an expiry.
SwarmDrains == <>[](Present = {})

-----------------------------------------------------------------------------
\* What the documentation says and the code does not do.

InSwarm(p) == \E k \in Present : k[2] = p

\* bttracker.conf on PeerTTL: "Number of seconds a peer must remain in the swarm
\* after its last announce".  A peer leaves by STOPPED, or PeerTTL after its
\* last announce.
RemainsForPeerTTL ==
    [][\A p \in Peers : InSwarm(p) /\ ~InSwarm(p)' => last'[p] = "DEL" \/ fresh'[p] = 0]_vars

\* data.c on the GETs of bt_peer_list: "Now we get the peer data stored under
\* each key".  There is data stored under each key still to be read.
ListedKeysReadable ==
    \A w \in Workers : pc[w] \in {"get", "fill"} /\ Up(w) => todo[w] \subseteq Present

\* data.h on bt_remove_peer: "Removes a peer from the swarm of a torrent".
StoppedPeerRemoved ==
    [][\A p \in Peers : last[p] # "DEL" /\ last'[p] = "DEL" => ~InSwarm(p)']_vars
=============================================================================
