------------------------------ MODULE Session ------------------------------
(***************************************************************************)
(* From the bytes of a datagram to the bytes of its answer: the receive    *)
(* buffer main fills and clones for each job, the readers and writers of   *)
(* net.c, the connection ids of connect.c and handshake.c, and the scrape  *)
(* handler with its lists.  What an announce does after it was read is     *)
(* module Swarm; queue, threads and addresses are module Pool.             *)
(*                                                                         *)
(* An integer is two bytes, as they lie in memory: its lower and its upper *)
(* half on the host, the other way round in a datagram.  An info hash is   *)
(* two signed bytes.                                                       *)
(*                                                                         *)
(* An operator whose name ends in an underscore is the one that follows it *)
(* with one mistake.  No behaviour uses these; each is a mistake that one  *)
(* of the properties rules out.                                            *)
(***************************************************************************)
EXTENDS Integers, Sequences

CONSTANTS
    Workers,       \* threads of the pool
    Datagrams,     \* what clients send: [len, data], data as in Buffers
    Ids,           \* connection ids bt_random_int64 may return
    Restriction,   \* config->info_hash_restriction: "none", "whitelist" or "blacklist"
    Refusals,      \* commands Redis may answer with an error
    Blocks,        \* bound: 20-byte blocks in the buffer (74)
    HashRoom,      \* bound: info hashes that bt_scrape_req_t has room for (8)
    None,          \* no datagram
    MaxDatagrams,  \* bound: datagrams received in a behaviour
    MaxEdits       \* bound: edits of the list in a behaviour

Bytes == -128..127
Words == Bytes \X Bytes

\* The fields of a request: connection_id, action, transaction_id, and then
\* blocks of 20 bytes, which hold an info hash each or what an announce says.
Fields == 1..(3 + Blocks)
ConnField == 1
ActionField == 2
TidField == 3
Block(k) == 3 + k
Start(f) == CASE f = 1 -> 0 [] f = 2 -> 8 [] f = 3 -> 12 [] OTHER -> 16 + 20 * (f - 4)
End(f) == CASE f = 1 -> 8 [] f = 2 -> 12 [] f = 3 -> 16 [] OTHER -> 16 + 20 * (f - 3)

Buffers == [Fields -> Words]

ASSUME SessionAssumption ==
    /\ Blocks \in Nat /\ Blocks >= 4 /\ HashRoom \in Nat /\ HashRoom <= Blocks
    /\ Datagrams \subseteq [len : 0..(16 + 20 * Blocks), data : Buffers] /\ None \notin Datagrams
    /\ Ids \subseteq Words
    /\ Restriction \in {"none", "whitelist", "blacklist"}
    /\ Refusals \subseteq {"SETEX", "GET", "SISMEMBER"}
    /\ MaxDatagrams \in Nat /\ MaxEdits \in Nat

VARIABLES
    buff,      \* main: buff
    count,     \* datagrams received
    conns,     \* Redis: connection ids that have a key <prefix>:conn:<id>
    listed,    \* Redis: names in <prefix>:ih:wl (or :bl)
    edits,     \* edits of the list
    dead,      \* whether the process made an invalid memory access: anything may follow
    pc,        \* per worker: where in its handler it is
    dgram,     \* per worker, history: the datagram it was given
    clone,     \* per worker: params->buff
    link,      \* per worker: its Redis connection
    request,   \* per worker: bt_req_t, fields 1 to 3 in host order
    body,      \* per worker: the blocks that it has read
    entries,   \* per worker: scrape_entries
    out,       \* per worker: the answer, as it is sent
    stored,    \* history: connection ids Redis has stored
    missed,    \* per worker, history: its SETEX failed
    allowed    \* per worker, history: names permitted at some time since it was given its
               \* datagram, or made its last scrape entry

redis == <<conns, listed, edits>>
locals == <<pc, dgram, clone, link, request, body, entries, out>>
history == <<stored, missed, allowed>>
vars == <<buff, count, redis, dead, locals, history>>

-----------------------------------------------------------------------------
\* Conversions.

\* ntohll, ntohl, htonll, htonl.
Swap(x) == <<x[2], x[1]>>

\* bt_bytearray_to_hexarray: of each byte the upper and then the lower four bits.
Hex(h) == <<(h[1] \div 16) % 16, h[1] % 16, (h[2] \div 16) % 16, h[2] % 16>>

Names == {Hex(h) : h \in UNION {{d.data[Block(k)] : k \in 1..Blocks} : d \in Datagrams}}

Permits(members, name) ==
    \/ Restriction = "none"
    \/ Restriction = "whitelist" /\ name \in members
    \/ Restriction = "blacklist" /\ name \notin members

\* Actions and the protocol's id, in host order.
CONNECT == <<0, 0>>
ANNOUNCE == <<1, 0>>
SCRAPE == <<2, 0>>
ERROR == <<3, 0>>
BT_PROTOCOL_ID == <<-128, 25>>

\* The buffer is an uninitialized local: as good as some datagram of before.
Init ==
    /\ buff \in {d.data : d \in Datagrams}
    /\ count = 0
    /\ conns = {}
    /\ listed \in {{}, Names}
    /\ edits = 0
    /\ dead = FALSE
    /\ pc = [w \in Workers |-> "idle"]
    /\ dgram = [w \in Workers |-> None]
    /\ clone = [w \in Workers |-> <<>>]
    /\ link = [w \in Workers |-> "down"]
    /\ request = [w \in Workers |-> <<>>]
    /\ body = [w \in Workers |-> <<>>]
    /\ entries = [w \in Workers |-> <<>>]
    /\ out = [w \in Workers |-> <<>>]
    /\ stored = {}
    /\ missed = [w \in Workers |-> FALSE]
    /\ allowed = [w \in Workers |-> {}]

-----------------------------------------------------------------------------
\* Main.

\* What is in the buffer after recvfrom: the datagram up to its length, what was
\* there before from then on.  At most one field is cut in between.
Overlay(old, d) ==
    {[f \in Fields |-> CASE End(f) <= d.len -> d.data[f]
                         [] d.len <= Start(f) -> old[f]
                         [] OTHER -> <<d.data[f], old[f], <<d.data[f][1], old[f][2]>>>>[cut]]
        : cut \in 1..3}

\* A datagram is received and its clone handed to a worker.
Receive(w, d) ==
    /\ ~dead /\ pc[w] = "idle" /\ count < MaxDatagrams
    /\ count' = count + 1
    /\ buff' \in Overlay(buff, d)
    /\ clone' = [clone EXCEPT ![w] = buff']
    /\ dgram' = [dgram EXCEPT ![w] = d]
    /\ pc' = [pc EXCEPT ![w] = "start"]
    /\ allowed' = [allowed EXCEPT ![w] = {n \in Names : Permits(listed, n)}]
    /\ UNCHANGED <<redis, dead, link, request, body, entries, out, stored, missed>>

-----------------------------------------------------------------------------
\* A worker.

Data_(w) == buff
Data(w) == clone[w]
Length(w) == dgram[w].len

Goto(w, l) == pc' = [pc EXCEPT ![w] = l]

\* bt_request_processor returns: the clone is freed, its locals go.
Finish(w) ==
    /\ Goto(w, "idle")
    /\ dgram' = [dgram EXCEPT ![w] = None]
    /\ clone' = [clone EXCEPT ![w] = <<>>]
    /\ link' = [link EXCEPT ![w] = "down"]
    /\ request' = [request EXCEPT ![w] = <<>>]
    /\ body' = [body EXCEPT ![w] = <<>>]
    /\ entries' = [entries EXCEPT ![w] = <<>>]
    /\ out' = [out EXCEPT ![w] = <<>>]
    /\ missed' = [missed EXCEPT ![w] = FALSE]
    /\ allowed' = [allowed EXCEPT ![w] = {}]

Respond_(w, r) == Goto(w, "send") /\ UNCHANGED out
Respond(w, r) == Goto(w, "send") /\ out' = [out EXCEPT ![w] = r]

\* bt_send_error and bt_write_error_data, for the request that was read.
ErrorAnswer(req) == [action |-> Swap(ERROR), tid |-> Swap(req[TidField])]

\* The process dies.
Die == dead' = TRUE /\ UNCHANGED <<buff, count, redis, locals, history>>

\* What bt_valid_request asks before it looks for the connection id.
WellFormed_(req, length) ==
    \/ req[ActionField] = CONNECT /\ req[ConnField] = BT_PROTOCOL_ID /\ length >= 16
    \/ req[ActionField] \in {ANNOUNCE, SCRAPE} /\ length >= 8
WellFormed(req, length) ==
    \/ req[ActionField] = CONNECT /\ req[ConnField] = BT_PROTOCOL_ID /\ length >= 16
    \/ req[ActionField] = ANNOUNCE /\ length >= 20
    \/ req[ActionField] = SCRAPE /\ length >= 8

\* bt_read_request_data, and the dispatch of bt_request_processor.  Without Redis
\* the answer is an error.
Begin(w) ==
    /\ ~dead /\ pc[w] = "start"
    /\ LET req == [f \in 1..3 |-> Swap(Data(w)[f])]
       IN  \/ /\ request' = [request EXCEPT ![w] = req]
              /\ Respond(w, ErrorAnswer(req))
              /\ UNCHANGED <<dgram, clone, link, body, entries, missed, allowed>>
           \/ /\ WellFormed(req, Length(w))
              /\ request' = [request EXCEPT ![w] = req]
              /\ link' = [link EXCEPT ![w] = "up"]
              /\ Goto(w, IF req[ActionField] = CONNECT THEN "insert" ELSE "check")
              /\ UNCHANGED <<dgram, clone, body, entries, out, missed, allowed>>
           \/ ~WellFormed(req, Length(w)) /\ req[ActionField] # ERROR /\ Finish(w)
    /\ UNCHANGED <<buff, count, redis, dead, stored>>

\* A datagram that says it is an error: bt_send_error measures no message.
BeginDies(w) ==
    /\ ~dead /\ pc[w] = "start" /\ Swap(Data(w)[ActionField]) = ERROR
    /\ Die

\* A command of the worker: its reply, an error, or none and the connection is
\* of no use any more.
Replies(w, command) ==
    IF link[w] = "up" THEN {"ok", "none"} \cup (Refusals \cap {command}) ELSE {"none"}
Linked(w, reply) == link' = IF reply = "none" THEN [link EXCEPT ![w] = "down"] ELSE link

ConnectAnswer_(req, id) == [action |-> Swap(req[ActionField]), tid |-> Swap(req[TidField]), conn |-> id]
ConnectAnswer(req, id) == [action |-> Swap(req[ActionField]), tid |-> Swap(req[TidField]), conn |-> Swap(id)]

\* bt_insert_connection.  A SETEX whose reply is lost may have been executed.
Inserted(ids, id, done) == IF done THEN ids \cup {id} ELSE ids
Executed(w, reply) == IF reply = "ok" THEN {TRUE} ELSE {FALSE, reply = "none" /\ link[w] = "up"}

\* bt_handle_connection: a random id, stored, and the answer whatever came of it.
Insert(w) ==
    /\ ~dead /\ pc[w] = "insert"
    /\ \E id \in Ids, reply \in Replies(w, "SETEX") : \E done \in Executed(w, reply) :
          /\ Linked(w, reply)
          /\ conns' = Inserted(conns, id, done)
          /\ stored' = Inserted(stored, id, done)
          /\ missed' = [missed EXCEPT ![w] = reply # "ok"]
          /\ Respond(w, ConnectAnswer(request[w], id))
    /\ UNCHANGED <<buff, count, dgram, clone, listed, edits, dead, request, body, entries, allowed>>

Denied_(w) == link' = [link EXCEPT ![w] = "down"] /\ UNCHANGED <<pc, dgram, clone, request, body, entries, out, missed, allowed>>
Denied(w) == Finish(w)

\* bt_connection_valid: a GET that is not refused will do, whatever it returns.
Check(w) ==
    /\ ~dead /\ pc[w] = "check"
    /\ \E reply \in Replies(w, "GET") :
          \/ /\ reply = "ok"
             /\ Goto(w, IF request[w][ActionField] = ANNOUNCE THEN "announce" ELSE "scrape")
             /\ UNCHANGED <<dgram, clone, link, request, body, entries, out, missed, allowed>>
          \/ reply # "ok" /\ Denied(w)
    /\ UNCHANGED <<buff, count, redis, dead, stored>>

\* bt_read_announce_request_data: bytes of hash and peer id as they are, and then
\* integers.  The port, two bytes further on, is left out.
ReadAnnounce(w) ==
    /\ ~dead /\ pc[w] = "announce"
    /\ LET block(k) == Data(w)[Block(k)]
       IN  body' = [body EXCEPT ![w] = <<block(1), block(2), Swap(block(3)), Swap(block(4))>>]
    /\ Goto(w, "swarm")
    /\ UNCHANGED <<buff, count, dgram, clone, redis, dead, link, request, entries, out, history>>

\* The rest of bt_handle_announce: an error or a response.
Announced(w) ==
    /\ ~dead /\ pc[w] = "swarm"
    /\ \E action \in {ERROR, request[w][ActionField]} :
          Respond(w, [action |-> Swap(action), tid |-> Swap(request[w][TidField])])
    /\ UNCHANGED <<buff, count, dgram, clone, redis, dead, link, request, body, entries, history>>

\* Where Swarm crashes.
AnnounceDies(w) == ~dead /\ pc[w] = "swarm" /\ Die

-----------------------------------------------------------------------------
\* bt_handle_scrape.

HashCount(w) == (Length(w) - 16) \div 20

Overruns(w) == Length(w) < 16 \/ Length(w) - 16 > 20 * HashRoom

\* bt_read_scrape_request_data.
ReadScrape(w) ==
    /\ ~dead /\ pc[w] = "scrape" /\ ~Overruns(w)
    /\ body' = [body EXCEPT ![w] = [k \in 1..HashCount(w) |-> Data(w)[Block(k)]]]
    /\ Goto(w, "look")
    /\ UNCHANGED <<buff, count, dgram, clone, redis, dead, link, request, entries, out, history>>

\* The length it copies wraps below 16 bytes, and exceeds the array above.
ReadScrapeDies(w) == ~dead /\ pc[w] = "scrape" /\ Overruns(w) /\ Die

\* The name looked up in this round of the loop.
Name(w) == Hex(body[w][Len(entries[w]) + 1])

Passes_(w, reply) == reply = "none" \/ reply = "SISMEMBER" \/ Permits(listed, Name(w))
Passes__(w, reply) == reply = "SISMEMBER" \/ (reply = "ok" /\ (entries[w] # <<>> \/ Permits(listed, Name(w))))
Passes(w, reply) == reply = "SISMEMBER" \/ (reply = "ok" /\ Permits(listed, Name(w)))

\* bt_info_hash_blacklisted; the error answers for all the hashes.
Look(w) ==
    /\ ~dead /\ pc[w] = "look" /\ Len(entries[w]) < Len(body[w])
    /\ \E reply \in IF Restriction = "none" THEN {"ok"} ELSE Replies(w, "SISMEMBER") :
          /\ Linked(w, reply)
          /\ \/ /\ Passes(w, reply)
                /\ Goto(w, IF reply = "SISMEMBER" THEN "statsUnchecked" ELSE "stats")
                /\ UNCHANGED out
             \/ ~Passes(w, reply) /\ Respond(w, ErrorAnswer(request[w]))
    /\ UNCHANGED <<buff, count, dgram, clone, redis, dead, request, body, entries, history>>

\* bt_get_torrent_stats.  Without one of its replies, fields keep what malloc
\* returned, and what `reply` happens to point to is freed: an uninitialized
\* pointer, or a reply that is freed already.  The process may go on after that.
Stats(w) ==
    /\ ~dead /\ pc[w] \in {"stats", "statsUnchecked"}
    /\ \E reply \in Replies(w, "KEYS") :
          /\ entries' = [entries EXCEPT ![w] =
                <<[name |-> Name(w), filled |-> reply = "ok",
                   checked |-> pc[w] = "stats", permitted |-> Name(w) \in allowed[w]]>> \o @]
          /\ Linked(w, reply)
    /\ allowed' = [allowed EXCEPT ![w] = {n \in Names : Permits(listed, n)}]
    /\ Goto(w, "look")
    /\ UNCHANGED <<buff, count, dgram, clone, redis, dead, request, body, out, stored, missed>>

\* Or it dies of it.
StatsDies(w) == ~dead /\ pc[w] \in {"stats", "statsUnchecked"} /\ Die

\* bt_list_reverse: the entries were put in front of each other.
Ordered(list) == [k \in 1..Len(list) |-> list[Len(list) - k + 1]]

\* bt_write_scrape_response_data.
ScrapeAnswer(req, list) ==
    [action |-> Swap(req[ActionField]), tid |-> Swap(req[TidField]), entries |-> list]

\* The header, and bt_serialize_scrape_response.
Scraped(w) ==
    /\ ~dead /\ pc[w] = "look" /\ Len(entries[w]) = Len(body[w])
    /\ Respond(w, ScrapeAnswer(request[w], Ordered(entries[w])))
    /\ UNCHANGED <<buff, count, dgram, clone, redis, dead, link, request, body, entries, history>>

\* sendto.
Send(w) ==
    /\ ~dead /\ pc[w] = "send"
    /\ Finish(w)
    /\ UNCHANGED <<buff, count, redis, dead, stored>>

-----------------------------------------------------------------------------
\* The environment.

\* The operator edits the white or black list.
EditList(n) ==
    /\ ~dead /\ edits < MaxEdits
    /\ edits' = edits + 1
    /\ listed' \in {listed \cup {n}, listed \ {n}} \ {listed}
    /\ allowed' = [w \in Workers |->
          IF pc[w] = "idle" THEN {} ELSE allowed[w] \cup {m \in Names : Permits(listed', m)}]
    /\ UNCHANGED <<buff, count, conns, dead, locals, stored, missed>>

\* BT_ACTIVE_CONNECTION_TTL is over.
Expire(id) ==
    /\ ~dead /\ id \in conns
    /\ conns' = conns \ {id}
    /\ UNCHANGED <<buff, count, listed, edits, dead, locals, history>>

Work(w) ==
    \/ Begin(w) \/ BeginDies(w) \/ Insert(w) \/ Check(w) \/ ReadAnnounce(w) \/ Announced(w)
    \/ AnnounceDies(w) \/ ReadScrape(w) \/ ReadScrapeDies(w) \/ Look(w) \/ Stats(w) \/ StatsDies(w)
    \/ Scraped(w) \/ Send(w)

Next ==
    \/ \E w \in Workers : Work(w) \/ \E d \in Datagrams : Receive(w, d)
    \/ \E n \in Names : EditList(n)
    \/ \E id \in Ids : Expire(id)

\* Threads are scheduled, and Redis answers a command or its connection breaks.
Fairness == \A w \in Workers : WF_vars(Work(w))

Spec == Init /\ [][Next]_vars
FairSpec == Spec /\ Fairness

-----------------------------------------------------------------------------
\* What the code keeps.

Labels == {"idle", "start", "insert", "check", "announce", "swarm", "scrape",
           "look", "stats", "statsUnchecked", "send"}
\* checked and permitted are history: SISMEMBER was answered, and rightly so.
Entries == [name : Seq(0..15), filled : BOOLEAN, checked : BOOLEAN, permitted : BOOLEAN]
Answers == [action : Words, tid : Words]
           \cup [action : Words, tid : Words, conn : Words]
           \cup [action : Words, tid : Words, entries : Seq(Entries)]

\* Every variable keeps its type; a busy worker has a datagram and its clone, and
\* an answer exactly when it is about to send one.
TypeOK ==
    /\ buff \in Buffers /\ clone \in [Workers -> Buffers \cup {<<>>}]
    /\ count \in 0..MaxDatagrams /\ edits \in 0..MaxEdits
    /\ conns \subseteq Ids /\ stored \subseteq Ids
    /\ listed \subseteq Names
    /\ dead \in BOOLEAN
    /\ pc \in [Workers -> Labels]
    /\ dgram \in [Workers -> Datagrams \cup {None}]
    /\ link \in [Workers -> {"up", "down"}]
    /\ missed \in [Workers -> BOOLEAN]
    /\ allowed \in [Workers -> SUBSET Names]
    /\ request \in [Workers -> {<<>>} \cup [1..3 -> Words]]
    /\ body \in [Workers -> Seq(Words)]
    /\ entries \in [Workers -> Seq(Entries)]
    /\ out \in [Workers -> Answers \cup {<<>>}]
    /\ \A w \in Workers :
          /\ pc[w] # "idle" => dgram[w] \in Datagrams /\ clone[w] \in Buffers
          /\ pc[w] = "send" <=> out[w] \in Answers

\* A worker reads and answers the datagram it was given, whatever main receives
\* meanwhile: every field within the length of the datagram is its own, the
\* answer carries its transaction id in network order, and a scrape is answered
\* with one entry for each of its hashes, in their order.
AnswersOwnDatagram ==
    \A w \in Workers :
        LET d == dgram[w] IN
        /\ pc[w] = "swarm" => \A k \in 1..4 : End(Block(k)) <= d.len =>
              body[w][k] = IF k <= 2 THEN d.data[Block(k)] ELSE Swap(d.data[Block(k)])
        /\ pc[w] = "send" /\ d.len >= 16 => out[w].tid = d.data[TidField]
        /\ pc[w] = "send" /\ out[w].action = Swap(SCRAPE) =>
              [k \in DOMAIN out[w].entries |-> out[w].entries[k].name]
                 = [k \in 1..((d.len - 16) \div 20) |-> Hex(d.data[Block(k)])]

\* The connection id a client is told, once its bytes are back in host order,
\* is one Redis has stored, unless the SETEX failed: the client is answered all
\* the same.
ToldIdStored ==
    \A w \in Workers :
        pc[w] = "send" /\ out[w].action = Swap(CONNECT) => missed[w] \/ Swap(out[w].conn) \in stored

\* The operator may edit the white or black list while a scrape is handled.
\* Each torrent the answer tells about was allowed at some time after the entry
\* before it was made (or the request came in): no permission is older than its
\* own round of bt_handle_scrape's loop.  Except where SISMEMBER itself was
\* refused: then bt_info_hash_blacklisted lets the torrent pass.
ScrapesPermitted ==
    \A w \in Workers : pc[w] = "send" /\ out[w].action = Swap(SCRAPE) =>
        \A k \in DOMAIN out[w].entries :
            out[w].entries[k].checked => out[w].entries[k].permitted

\* With a white or black list, only the last entry of an answer can hold fields
\* that no reply has filled: after a failed connection bt_info_hash_blacklisted
\* turns the whole request into an error.
GarbageOnlyLast ==
    Restriction # "none" =>
        \A w \in Workers : pc[w] = "send" /\ out[w].action = Swap(SCRAPE) =>
            \A k \in 1..(Len(out[w].entries) - 1) : out[w].entries[k].filled

Wire == INSTANCE Exchange WITH asked <- dgram, answer <- out, over <- dead, NoAnswer <- <<>>

\* Whatever main receives meanwhile and whatever bytes follow a short datagram in
\* its buffer: each datagram is answered at most once, by an error or as it
\* asks, one without a whole header only by an error, and conns changes only as
\* connects are answered and ids expire (bt_request_processor).
ImplementsExchange == Wire!Spec

\* Every datagram given to a worker is done with, or the process ends.
RequestsFinish == \A w \in Workers : pc[w] # "idle" ~> pc[w] = "idle" \/ dead

-----------------------------------------------------------------------------
\* What a comment says and the code does not do.

\* data.h on bt_connection_valid: "Returns whether this connection id exists."
AcceptedIdExists ==
    \A w \in Workers : pc[w] \in {"announce", "scrape"} => request[w][ConnField] \in stored
=============================================================================
