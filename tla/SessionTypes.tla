---------------------------- MODULE SessionTypes ----------------------------
(***************************************************************************)
(* Proofs about module Session, for any number of workers, any datagrams,  *)
(* any buffer and any room for hashes.  Here: the conversions, the         *)
(* inductive invariant, and that every step keeps the types.               *)
(***************************************************************************)
EXTENDS Session, TLAPS

USE DEF Data, Length, Respond, Denied, Overruns, ConnectAnswer, ScrapeAnswer, Inserted, Ordered, Goto

-----------------------------------------------------------------------------
\* Conversions.

\* Changing the byte order twice gives back the integer.
LEMMA SwapTwice ==
    ASSUME NEW x \in Words
    PROVE  Swap(x) \in Words /\ Swap(Swap(x)) = x
  BY DEF Swap, Words

\* Names are sequences of four-bit values.
LEMMA HexType ==
    ASSUME NEW h \in Words
    PROVE  Hex(h) \in Seq(0..15)
  <1>1. h[1] \in Int /\ h[2] \in Int
    BY DEF Words, Bytes
  <1>2. \A n \in Int : n % 16 \in 0..15 /\ (n \div 16) % 16 \in 0..15
    OBVIOUS
  <1> QED
    BY <1>1, <1>2 DEF Hex

\* bt_bytearray_to_hexarray gives different info hashes different names, also
\* where bytes are negative: no two torrents share a list entry or a swarm.
THEOREM HexTellsApart ==
    ASSUME NEW g \in Words, NEW h \in Words, Hex(g) = Hex(h)
    PROVE  g = h
  <1>1. /\ (g[1] \div 16) % 16 = (h[1] \div 16) % 16 /\ g[1] % 16 = h[1] % 16
        /\ (g[2] \div 16) % 16 = (h[2] \div 16) % 16 /\ g[2] % 16 = h[2] % 16
    BY DEF Hex
  <1>2. \A a, b \in -128..127 : (a \div 16) % 16 = (b \div 16) % 16 /\ a % 16 = b % 16 => a = b
    BY SMTT(30)
  <1>3. g[1] = h[1] /\ g[2] = h[2]
    BY ZenonT(30), <1>1, <1>2 DEF Words, Bytes
  <1> QED
    BY <1>3 DEF Words

\* What recvfrom leaves in the buffer: whole fields of the datagram are its own.
LEMMA OverlayOwn ==
    ASSUME NEW old \in Buffers, NEW d \in Datagrams, NEW new \in Overlay(old, d)
    PROVE  /\ new \in Buffers
           /\ \A f \in Fields : End(f) <= d.len => new[f] = d.data[f]
  <1>1. d.len \in Nat /\ d.data \in Buffers
    BY SessionAssumption
  <1>2. PICK cut \in 1..3 :
           new = [f \in Fields |-> CASE End(f) <= d.len -> d.data[f]
                                     [] d.len <= Start(f) -> old[f]
                                     [] OTHER -> <<d.data[f], old[f], <<d.data[f][1], old[f][2]>>>>[cut]]
    BY Zenon DEF Overlay
  <1>3. ASSUME NEW f \in Fields
        PROVE  new[f] \in Words
    <2>1. d.data[f] \in Words /\ old[f] \in Words
      BY <1>1 DEF Buffers
    <2>2. <<d.data[f][1], old[f][2]>> \in Words
      BY <2>1 DEF Words
    <2>3. <<d.data[f], old[f], <<d.data[f][1], old[f][2]>>>>[cut] \in Words
      <3>1. CASE cut = 1
        BY <2>1, <3>1
      <3>2. CASE cut = 2
        BY <2>1, <3>2
      <3>3. CASE cut = 3
        BY <2>2, <3>3
      <3> QED
        BY <3>1, <3>2, <3>3
    <2>4. CASE End(f) <= d.len
      BY <1>2, <2>1, <2>4
    <2>5. CASE ~(End(f) <= d.len) /\ d.len <= Start(f)
      BY <1>2, <2>1, <2>5
    <2>6. CASE ~(End(f) <= d.len) /\ ~(d.len <= Start(f))
      <3>1. new[f] = <<d.data[f], old[f], <<d.data[f][1], old[f][2]>>>>[cut]
        BY <1>2, <2>6
      <3> QED
        BY <2>3, <3>1
    <2> QED
      BY <2>4, <2>5, <2>6
  <1>4. ASSUME NEW f \in Fields, End(f) <= d.len
        PROVE  new[f] = d.data[f]
    <2>1. Start(f) \in Int /\ End(f) \in Int /\ Start(f) < End(f)
      BY SessionAssumption DEF Start, End, Fields
    <2>2. ~(d.len <= Start(f))
      BY <1>1, <1>4, <2>1
    <2> QED
      BY <1>2, <1>4, <2>2
  <1> QED
    BY <1>2, <1>3, <1>4 DEF Buffers

-----------------------------------------------------------------------------
\* The inductive invariant, worker by worker.

Scraping == {"look", "stats", "statsUnchecked"}

\* The whole fields of a clone are those of the worker's datagram, and every name
\* now permitted is on record.
CloneInv(w) ==
    pc[w] # "idle" =>
        /\ \A f \in Fields : End(f) <= dgram[w].len => clone[w][f] = dgram[w].data[f]
        /\ \A n \in Names : Permits(listed, n) => n \in allowed[w]

\* The request is the clone's header, bt_valid_request has found it well-formed
\* and the handler is the one for its action.
RequestInv(w) ==
    pc[w] \notin {"idle", "start"} =>
        /\ request[w] = [f \in 1..3 |-> Swap(clone[w][f])]
        /\ pc[w] # "send" => WellFormed(request[w], dgram[w].len)
        /\ pc[w] = "insert" => request[w][ActionField] = CONNECT
        /\ pc[w] = "check" => request[w][ActionField] \in {ANNOUNCE, SCRAPE}
        /\ pc[w] \in {"announce", "swarm"} => request[w][ActionField] = ANNOUNCE
        /\ pc[w] \in {"scrape"} \cup Scraping => request[w][ActionField] = SCRAPE

\* An announce is read from the clone.
AnnounceInv(w) ==
    pc[w] = "swarm" =>
        body[w] = <<clone[w][Block(1)], clone[w][Block(2)], Swap(clone[w][Block(3)]), Swap(clone[w][Block(4)])>>

\* Entries are built from the last one back: the newest is the first of the list,
\* and the only one that a failed connection can have left unfilled.
ScrapeInv(w) ==
    /\ pc[w] \notin {"send"} \cup Scraping => entries[w] = <<>>
    /\ pc[w] \in Scraping =>
        LET n == Len(entries[w]) IN
        /\ dgram[w].len >= 16
        /\ body[w] = [k \in 1..HashCount(w) |-> clone[w][Block(k)]]
        /\ n <= HashCount(w)
        /\ pc[w] # "look" => n < HashCount(w)
        /\ \A j \in 1..n : entries[w][j].name = Hex(clone[w][Block(n + 1 - j)])
        /\ \A j \in 1..n : entries[w][j].checked => entries[w][j].permitted
        /\ pc[w] = "stats" => Hex(clone[w][Block(n + 1)]) \in allowed[w]
        /\ Restriction # "none" =>
              /\ \A j \in 2..n : entries[w][j].filled
              /\ n > 0 /\ (pc[w] # "look" \/ link[w] = "up") => entries[w][1].filled

\* An answer is made from the request, and is an error unless that is well-formed.
AnswerInv(w) ==
    pc[w] = "send" =>
        /\ out[w].tid = Swap(request[w][TidField])
        /\ \/ out[w].action = Swap(ERROR)
           \/ out[w].action = Swap(request[w][ActionField]) /\ WellFormed(request[w], dgram[w].len)
        /\ out[w].action = Swap(CONNECT) => missed[w] \/ Swap(out[w].conn) \in stored
        /\ out[w].action = Swap(SCRAPE) =>
              /\ dgram[w].len >= 16
              /\ out[w].entries \in Seq(Entries)
              /\ Len(out[w].entries) = HashCount(w)
              /\ \A k \in 1..HashCount(w) : out[w].entries[k].name = Hex(clone[w][Block(k)])
              /\ \A k \in 1..HashCount(w) : out[w].entries[k].checked => out[w].entries[k].permitted
              /\ Restriction # "none" => \A k \in 1..(HashCount(w) - 1) : out[w].entries[k].filled

WorkerInv(w) == CloneInv(w) /\ RequestInv(w) /\ AnnounceInv(w) /\ ScrapeInv(w) /\ AnswerInv(w)

Inv == \A w \in Workers : WorkerInv(w)

-----------------------------------------------------------------------------
\* Type correctness.

\* The request a worker has read consists of integers.
LEMMA RequestType ==
    ASSUME NEW b \in Buffers
    PROVE  [f \in 1..3 |-> Swap(b[f])] \in [1..3 -> Words]
  <1>1. 1..3 \subseteq Fields
    BY SessionAssumption DEF Fields
  <1> QED
    BY <1>1, SwapTwice DEF Buffers

\* No answer is the empty sequence.
LEMMA AnswerNotEmpty == <<>> \notin Answers
  <1> SUFFICES ASSUME <<>> \in Answers PROVE FALSE
    OBVIOUS
  <1>1. "tid" \in DOMAIN <<>>
    BY DEF Answers
  <1> QED
    BY <1>1

\* The answers that handlers build.
LEMMA AnswerTypes ==
    ASSUME NEW req \in [1..3 -> Words]
    PROVE  /\ ErrorAnswer(req) \in Answers
           /\ [action |-> Swap(req[ActionField]), tid |-> Swap(req[TidField])] \in Answers
           /\ \A id \in Words : ConnectAnswer(req, id) \in Answers
           /\ \A list \in Seq(Entries) :
                 [action |-> Swap(req[ActionField]), tid |-> Swap(req[TidField]), entries |-> list] \in Answers
  <1>1. Swap(req[ActionField]) \in Words /\ Swap(req[TidField]) \in Words
    BY SwapTwice DEF ActionField, TidField
  <1>2. ERROR \in Words
    BY DEF ERROR, Words, Bytes
  <1>3. Swap(ERROR) \in Words
    BY <1>2, SwapTwice
  <1>4. \A id \in Words : Swap(id) \in Words
    BY SwapTwice
  <1> QED
    BY <1>1, <1>3, <1>4 DEF ErrorAnswer, Answers

\* A worker that is done has the locals of an idle one.
LEMMA FinishType ==
    ASSUME TypeOK, NEW w \in Workers, Finish(w),
           UNCHANGED <<buff, count, redis, dead, stored>>
    PROVE  TypeOK'
  <1>1. \A v \in Workers : pc'[v] = "send" <=> out'[v] \in Answers
    BY AnswerNotEmpty DEF TypeOK, Finish, Labels
  <1>2. \A v \in Workers : pc'[v] # "idle" => dgram'[v] \in Datagrams /\ clone'[v] \in Buffers
    BY DEF TypeOK, Finish, Labels
  <1> QED
    BY <1>1, <1>2 DEF TypeOK, Finish, Labels, redis

\* So has one that moves on, where it has nothing to send yet, or an answer.
LEMMA MoveType ==
    ASSUME TypeOK, NEW w \in Workers, NEW l \in Labels \ {"idle"}, pc[w] \notin {"idle", "send"},
           Goto(w, l),
           link' \in [Workers -> {"up", "down"}],
           request' \in [Workers -> {<<>>} \cup [1..3 -> Words]],
           body' \in [Workers -> Seq(Words)],
           entries' \in [Workers -> Seq(Entries)],
           conns' \subseteq Ids, stored' \subseteq Ids, missed' \in [Workers -> BOOLEAN],
           \/ l # "send" /\ UNCHANGED out
           \/ l = "send" /\ \E r \in Answers : out' = [out EXCEPT ![w] = r],
           UNCHANGED <<buff, count, dgram, clone, listed, edits, dead, allowed>>
    PROVE  TypeOK'
  <1>1. \A v \in Workers : pc'[v] = "send" <=> out'[v] \in Answers
    BY DEF TypeOK, Labels
  <1>2. out' \in [Workers -> Answers \cup {<<>>}]
    BY Zenon DEF TypeOK
  <1>3. \A v \in Workers : pc'[v] # "idle" => dgram'[v] \in Datagrams /\ clone'[v] \in Buffers
    BY DEF TypeOK, Labels
  <1>4. pc' \in [Workers -> Labels]
    BY DEF TypeOK
  <1> QED
    BY <1>1, <1>2, <1>3, <1>4 DEF TypeOK

\* What a worker beyond its first step has read.
LEMMA ReadTypes ==
    ASSUME TypeOK, Inv, NEW w \in Workers, pc[w] \notin {"idle", "start"}
    PROVE  request[w] \in [1..3 -> Words]
  BY RequestType DEF TypeOK, Inv, WorkerInv, RequestInv

\* The blocks of a scrape lie in the buffer, and whole ones in the datagram.
LEMMA HashCountBound ==
    ASSUME TypeOK, NEW w \in Workers, pc[w] # "idle", dgram[w].len >= 16
    PROVE  /\ HashCount(w) \in Nat
           /\ \A k \in 1..HashCount(w) : /\ Block(k) \in Fields
                                        /\ End(Block(k)) <= dgram[w].len
                                        /\ clone[w][Block(k)] \in Words
  <1>1. dgram[w].len \in 16..(16 + 20 * Blocks) /\ Blocks \in Nat /\ clone[w] \in Buffers
    BY SessionAssumption DEF TypeOK
  <1>2. \A n \in Nat : n \div 20 \in Nat /\ 20 * (n \div 20) <= n
    OBVIOUS
  <1>3. HashCount(w) \in Nat /\ 20 * HashCount(w) <= dgram[w].len - 16
    BY <1>1, <1>2 DEF HashCount
  <1>4. ASSUME NEW k \in 1..HashCount(w)
        PROVE  Block(k) \in Fields /\ End(Block(k)) <= dgram[w].len
    <2>1. k \in 1..Blocks
      BY <1>1, <1>3
    <2>2. Block(k) = 3 + k /\ End(Block(k)) = 16 + 20 * k
      BY <1>1, <2>1 DEF Block, End
    <2> QED
      BY <1>1, <1>3, <2>1, <2>2 DEF Fields
  <1> QED
    BY <1>1, <1>3, <1>4 DEF Buffers

\* bt_insert_connection stores the id or does not.
LEMMA ExecutedType ==
    ASSUME NEW w \in Workers, NEW reply, NEW done \in Executed(w, reply)
    PROVE  done \in BOOLEAN
  BY ZenonT(30) DEF Executed

\* Every step keeps the types.
LEMMA TypeStep == TypeOK /\ Inv /\ [Next]_vars => TypeOK'
  <1> SUFFICES ASSUME TypeOK, Inv, [Next]_vars PROVE TypeOK'
    OBVIOUS
  <1> USE SessionAssumption
  <1>1. ASSUME NEW w \in Workers, NEW d \in Datagrams, Receive(w, d)
        PROVE  TypeOK'
    <2>1. buff' \in Buffers
      BY <1>1, OverlayOwn DEF Receive, TypeOK
    <2>2. /\ clone' = [clone EXCEPT ![w] = buff']
          /\ dgram' = [dgram EXCEPT ![w] = d]
          /\ pc' = [pc EXCEPT ![w] = "start"] /\ pc[w] = "idle"
          /\ allowed' = [allowed EXCEPT ![w] = {n \in Names : Permits(listed, n)}]
          /\ count' \in 0..MaxDatagrams
          /\ UNCHANGED <<conns, listed, edits, dead, link, request, body, entries, out, stored, missed>>
      BY <1>1 DEF Receive, redis, TypeOK
    <2>3. \A v \in Workers : pc'[v] = "send" <=> out'[v] \in Answers
      BY <2>2 DEF TypeOK
    <2>4. \A v \in Workers : pc'[v] # "idle" => dgram'[v] \in Datagrams /\ clone'[v] \in Buffers
      BY <2>1, <2>2 DEF TypeOK
    <2> QED
      BY <2>1, <2>2, <2>3, <2>4 DEF TypeOK, Labels
  <1>2. ASSUME NEW w \in Workers, Begin(w)
        PROVE  TypeOK'
    <2>1. PICK req \in [1..3 -> Words] : req = [f \in 1..3 |-> Swap(clone[w][f])]
      BY Zenon, <1>2, RequestType DEF Begin, TypeOK
    <2>2. /\ pc[w] = "start"
          /\ UNCHANGED <<buff, count, conns, listed, edits, dead, stored>>
          /\ \/ /\ request' = [request EXCEPT ![w] = req]
                /\ Respond(w, ErrorAnswer(req))
                /\ UNCHANGED <<dgram, clone, link, body, entries, missed, allowed>>
             \/ /\ request' = [request EXCEPT ![w] = req]
                /\ link' = [link EXCEPT ![w] = "up"]
                /\ \E l \in {"insert", "check"} : Goto(w, l)
                /\ UNCHANGED <<dgram, clone, body, entries, out, missed, allowed>>
             \/ Finish(w)
      BY <1>2, <2>1 DEF Begin, redis
    <2>3. ErrorAnswer(req) \in Answers
      BY Zenon, AnswerTypes
    <2>4. request' = [request EXCEPT ![w] = req] => request' \in [Workers -> {<<>>} \cup [1..3 -> Words]]
      BY DEF TypeOK
    <2>5. link' = [link EXCEPT ![w] = "up"] => link' \in [Workers -> {"up", "down"}]
      BY DEF TypeOK
    <2>6. CASE Finish(w)
      BY ZenonT(30), <2>2, <2>6, FinishType DEF redis
    <2>7. CASE /\ request' = [request EXCEPT ![w] = req]
               /\ Respond(w, ErrorAnswer(req))
               /\ UNCHANGED <<dgram, clone, link, body, entries, missed, allowed>>
      BY ZenonT(30), <2>2, <2>3, <2>4, <2>7, MoveType DEF TypeOK, Labels
    <2>8. ASSUME NEW l \in {"insert", "check"}, Goto(w, l),
                 request' = [request EXCEPT ![w] = req],
                 link' = [link EXCEPT ![w] = "up"],
                 UNCHANGED <<dgram, clone, body, entries, out, missed, allowed>>
          PROVE  TypeOK'
      BY <2>2, <2>4, <2>5, <2>8, MoveType DEF TypeOK, Labels
    <2> QED
      BY <2>2, <2>6, <2>7, <2>8
  <1>3. ASSUME NEW w \in Workers, Insert(w)
        PROVE  TypeOK'
    <2>1. PICK id \in Ids, reply \in Replies(w, "SETEX"), done \in BOOLEAN :
            /\ Linked(w, reply)
            /\ conns' = Inserted(conns, id, done) /\ stored' = Inserted(stored, id, done)
            /\ missed' = [missed EXCEPT ![w] = reply # "ok"]
            /\ Respond(w, ConnectAnswer(request[w], id))
      BY ZenonT(30), <1>3, ExecutedType DEF Insert
    <2>2. ConnectAnswer(request[w], id) \in Answers
      BY Zenon, <1>3, ReadTypes, AnswerTypes DEF Insert
    <2>3. link' \in [Workers -> {"up", "down"}]
      BY <2>1 DEF Linked, TypeOK
    <2>4. missed' \in [Workers -> BOOLEAN] /\ conns' \subseteq Ids /\ stored' \subseteq Ids
      BY <2>1 DEF TypeOK
    <2>5. /\ pc[w] = "insert"
          /\ UNCHANGED <<buff, count, dgram, clone, listed, edits, dead, request, body, entries, allowed>>
      BY <1>3 DEF Insert
    <2> QED
      BY Zenon, <2>1, <2>2, <2>3, <2>4, <2>5, MoveType DEF TypeOK, Labels
  <1>4. ASSUME NEW w \in Workers, Check(w)
        PROVE  TypeOK'
    <2>1. CASE Finish(w)
      BY ZenonT(30), <1>4, <2>1, FinishType DEF Check
    <2>2. ASSUME NEW l \in {"announce", "scrape"}, Goto(w, l),
                 UNCHANGED <<dgram, clone, link, request, body, entries, out, missed, allowed>>
          PROVE  TypeOK'
      BY ZenonT(30), <1>4, <2>2, MoveType DEF Check, TypeOK, Labels, redis
    <2> QED
      BY <1>4, <2>1, <2>2 DEF Check
  <1>5. ASSUME NEW w \in Workers, ReadAnnounce(w)
        PROVE  TypeOK'
    <2>1. clone[w] \in Buffers /\ \A k \in 1..4 : Block(k) \in Fields
      BY <1>5 DEF ReadAnnounce, TypeOK, Block, Fields
    <2>2. \A k \in 1..4 : clone[w][Block(k)] \in Words /\ Swap(clone[w][Block(k)]) \in Words
      BY <2>1, SwapTwice DEF Buffers
    <2>3. <<clone[w][Block(1)], clone[w][Block(2)], Swap(clone[w][Block(3)]), Swap(clone[w][Block(4)])>>
             \in Seq(Words)
      BY <2>2
    <2>4. body' \in [Workers -> Seq(Words)]
      BY ZenonT(30), <1>5, <2>3 DEF ReadAnnounce, TypeOK
    <2> QED
      BY <1>5, <2>4, MoveType DEF ReadAnnounce, TypeOK, Labels, redis, history
  <1>6. ASSUME NEW w \in Workers, Announced(w)
        PROVE  TypeOK'
    <2>1. request[w] \in [1..3 -> Words]
      BY Zenon, <1>6, ReadTypes DEF Announced
    <2>2. \E r \in Answers : Respond(w, r)
      BY ZenonT(30), <1>6, <2>1, AnswerTypes DEF Announced, ErrorAnswer
    <2> QED
      BY ZenonT(30), <1>6, <2>2, MoveType DEF Announced, TypeOK, Labels, redis, history
  <1>7. ASSUME NEW w \in Workers, ReadScrape(w)
        PROVE  TypeOK'
    <2>1. dgram[w].len \in Nat /\ dgram[w].len >= 16 /\ pc[w] # "idle"
      BY <1>7 DEF ReadScrape, TypeOK
    <2>2. [k \in 1..HashCount(w) |-> clone[w][Block(k)]] \in Seq(Words)
      BY <2>1, HashCountBound
    <2>3. body' \in [Workers -> Seq(Words)]
      BY <1>7, <2>2 DEF ReadScrape, TypeOK
    <2> QED
      BY ZenonT(30), <1>7, <2>3, MoveType DEF ReadScrape, TypeOK, Labels, redis, history
  <1>8. ASSUME NEW w \in Workers, Look(w)
        PROVE  TypeOK'
    <2>1. request[w] \in [1..3 -> Words]
      BY <1>8, ReadTypes DEF Look
    <2>2. PICK reply :
             /\ Linked(w, reply)
             /\ \/ UNCHANGED out /\ \E l \in {"stats", "statsUnchecked"} : Goto(w, l)
                \/ Respond(w, ErrorAnswer(request[w]))
      BY <1>8 DEF Look
    <2>3. link' \in [Workers -> {"up", "down"}]
      BY <2>2 DEF Linked, TypeOK
    <2>4. /\ pc[w] = "look"
          /\ UNCHANGED <<buff, count, dgram, clone, conns, listed, edits, dead, request, body, entries,
                         stored, missed, allowed>>
      BY <1>8 DEF Look, redis, history
    <2>5. CASE Respond(w, ErrorAnswer(request[w]))
      BY ZenonT(30), <2>1, <2>3, <2>4, <2>5, AnswerTypes, MoveType DEF TypeOK, Labels
    <2>6. ASSUME NEW l \in {"stats", "statsUnchecked"}, UNCHANGED out, Goto(w, l)
          PROVE  TypeOK'
      BY ZenonT(30), <2>3, <2>4, <2>6, MoveType DEF TypeOK, Labels
    <2> QED
      BY <2>2, <2>5, <2>6
  <1>9. ASSUME NEW w \in Workers, Stats(w)
        PROVE  TypeOK'
    <2>1. PICK reply \in Replies(w, "KEYS") :
             /\ entries' = [entries EXCEPT ![w] =
                  <<[name |-> Name(w), filled |-> reply = "ok",
                     checked |-> pc[w] = "stats", permitted |-> Name(w) \in allowed[w]]>> \o @]
             /\ Linked(w, reply)
      BY Zenon, <1>9 DEF Stats
    <2>2. link' \in [Workers -> {"up", "down"}]
      BY <2>1 DEF Linked, TypeOK
    <2>3. Name(w) \in Seq(0..15)
      <3>1. dgram[w].len >= 16 /\ pc[w] # "idle" /\ Len(entries[w]) < HashCount(w)
            /\ body[w] = [k \in 1..HashCount(w) |-> clone[w][Block(k)]]
        BY ZenonT(30), <1>9 DEF Stats, Inv, WorkerInv, ScrapeInv, Scraping
      <3>2. Len(entries[w]) \in Nat /\ HashCount(w) \in Nat
        BY <3>1, HashCountBound DEF TypeOK
      <3>3. Len(entries[w]) + 1 \in 1..HashCount(w)
        BY SMTT(30), <3>1, <3>2
      <3> QED
        BY ZenonT(30), <3>1, <3>3, HashCountBound, HexType DEF Name
    <2>4. [name |-> Name(w), filled |-> reply = "ok",
           checked |-> pc[w] = "stats", permitted |-> Name(w) \in allowed[w]] \in Entries
      BY <2>3 DEF Entries
    <2>5. entries' \in [Workers -> Seq(Entries)]
      BY <2>1, <2>4 DEF TypeOK
    <2>6. /\ pc' = [pc EXCEPT ![w] = "look"] /\ pc[w] \in {"stats", "statsUnchecked"}
          /\ allowed' = [allowed EXCEPT ![w] = {n \in Names : Permits(listed, n)}]
          /\ UNCHANGED <<buff, count, dgram, clone, conns, listed, edits, dead, request, body, out, stored, missed>>
      BY <1>9 DEF Stats, redis
    <2>7. allowed' \in [Workers -> SUBSET Names] /\ pc' \in [Workers -> Labels]
      BY <2>6 DEF TypeOK, Labels
    <2>8. \A v \in Workers : pc'[v] = "send" <=> out'[v] \in Answers
      BY <2>6 DEF TypeOK, Labels
    <2>9. \A v \in Workers : pc'[v] # "idle" => dgram'[v] \in Datagrams /\ clone'[v] \in Buffers
      BY <2>6 DEF TypeOK, Labels
    <2> QED
      BY <2>2, <2>5, <2>6, <2>7, <2>8, <2>9 DEF TypeOK
  <1>10. ASSUME NEW w \in Workers, Scraped(w)
         PROVE  TypeOK'
    <2>1. Ordered(entries[w]) \in Seq(Entries)
      BY DEF TypeOK
    <2>2. request[w] \in [1..3 -> Words]
      BY <1>10, ReadTypes DEF Scraped
    <2>3. \E r \in Answers : Respond(w, r)
      BY Zenon, <1>10, <2>1, <2>2, AnswerTypes DEF Scraped
    <2> QED
      BY Zenon, <1>10, <2>3, MoveType DEF Scraped, TypeOK, Labels, redis, history
  <1>11. ASSUME NEW w \in Workers, Send(w)
         PROVE  TypeOK'
    BY <1>11, FinishType DEF Send
  <1>12. ASSUME NEW w \in Workers, BeginDies(w) \/ AnnounceDies(w) \/ ReadScrapeDies(w) \/ StatsDies(w)
         PROVE  TypeOK'
    BY ZenonT(30), <1>12
       DEF BeginDies, AnnounceDies, ReadScrapeDies, StatsDies, Die, TypeOK, redis, locals, history
  <1>13. ASSUME NEW n \in Names, EditList(n)
         PROVE  TypeOK'
    BY <1>13 DEF EditList, TypeOK, locals
  <1>14. ASSUME NEW id \in Ids, Expire(id)
         PROVE  TypeOK'
    BY ZenonT(30), <1>14 DEF Expire, TypeOK, locals, history
  <1>15. CASE UNCHANGED vars
    BY <1>15 DEF vars, redis, locals, history, TypeOK
  <1> QED
    BY <1>1, <1>2, <1>3, <1>4, <1>5, <1>6, <1>7, <1>8, <1>9, <1>10, <1>11, <1>12, <1>13, <1>14, <1>15
       DEF Next, Work
=============================================================================
