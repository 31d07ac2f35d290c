--------------------------- MODULE SessionProofs ----------------------------
(***************************************************************************)
(* Proofs about module Session: every step keeps the invariant Inv, the    *)
(* properties follow from it, and so does the refinement of Exchange.      *)
(***************************************************************************)
EXTENDS SessionScrapes

USE DEF Data, Length, Respond, Denied, Overruns, ConnectAnswer, ScrapeAnswer, Inserted, Ordered, Goto

\* Every step keeps the invariant.
LEMMA InvStep == TypeOK /\ Inv /\ [Next]_vars => Inv'
  <1> SUFFICES ASSUME TypeOK, Inv, [Next]_vars PROVE Inv'
    OBVIOUS
  <1> USE DEF Scraping
  <1>1. ASSUME NEW w \in Workers, NEW d \in Datagrams, Receive(w, d)
        PROVE  Inv'
    <2>1. /\ buff' \in Overlay(buff, d) /\ buff \in Buffers
          /\ clone' = [clone EXCEPT ![w] = buff']
          /\ dgram' = [dgram EXCEPT ![w] = d]
          /\ pc' = [pc EXCEPT ![w] = "start"] /\ pc[w] = "idle"
          /\ allowed' = [allowed EXCEPT ![w] = {n \in Names : Permits(listed, n)}]
          /\ UNCHANGED <<listed, link, request, body, entries, out, stored, missed>>
      BY <1>1 DEF Receive, redis, TypeOK
    <2>2. ASSUME NEW v \in Workers, v # w
          PROVE  WorkerInv(v)'
      <3>1. Untouched(v)
        BY <2>1, <2>2 DEF TypeOK, Untouched
      <3> QED
        BY Zenon, <2>1, <3>1, Others
    <2>3. pc'[w] = "start" /\ clone'[w] = buff' /\ dgram'[w] = d /\ entries'[w] = entries[w]
          /\ allowed'[w] = {n \in Names : Permits(listed, n)}
      BY <2>1 DEF TypeOK
    <2>4. \A f \in Fields : End(f) <= d.len => buff'[f] = d.data[f]
      BY <2>1, OverlayOwn
    <2>5. CloneInv(w)'
      BY Zenon, <2>1, <2>3, <2>4 DEF CloneInv, Permits
    <2>6. entries[w] = <<>>
      BY Zenon, <2>1 DEF Inv, WorkerInv, ScrapeInv
    <2>7. RequestInv(w)' /\ AnnounceInv(w)' /\ ScrapeInv(w)' /\ AnswerInv(w)'
      BY <2>3, <2>6 DEF RequestInv, AnnounceInv, ScrapeInv, AnswerInv
    <2> QED
      BY <2>2, <2>5, <2>7 DEF Inv, WorkerInv
  <1>2. ASSUME NEW w \in Workers, Begin(w)
        PROVE  Inv'
    <2>1. PICK req \in [1..3 -> Words] : req = [f \in 1..3 |-> Swap(clone[w][f])]
      BY <1>2, RequestType DEF Begin, TypeOK
    <2>2. /\ pc[w] = "start" /\ entries[w] = <<>>
          /\ UNCHANGED <<listed, stored>>
          /\ \/ /\ request' = [request EXCEPT ![w] = req]
                /\ Respond(w, ErrorAnswer(req))
                /\ UNCHANGED <<dgram, clone, link, body, entries, missed, allowed>>
             \/ /\ request' = [request EXCEPT ![w] = req]
                /\ link' = [link EXCEPT ![w] = "up"]
                /\ WellFormed(req, dgram[w].len)
                /\ \/ req[ActionField] = CONNECT /\ Goto(w, "insert")
                   \/ req[ActionField] \in {ANNOUNCE, SCRAPE} /\ Goto(w, "check")
                /\ UNCHANGED <<dgram, clone, body, entries, out, missed, allowed>>
             \/ Finish(w)
      BY Zenon, <1>2, <2>1 DEF Begin, WellFormed, redis, Inv, WorkerInv, ScrapeInv
    <2>3. CASE Finish(w)
      BY <2>2, <2>3, FinishInv
    <2>4. CASE /\ request' = [request EXCEPT ![w] = req]
               /\ Respond(w, ErrorAnswer(req))
               /\ UNCHANGED <<dgram, clone, link, body, entries, missed, allowed>>
      <3>1. pc'[w] = "send" /\ request'[w] = req /\ out'[w] = ErrorAnswer(req)
        BY SMTT(30), <2>4 DEF TypeOK
      <3>2. RequestInv(w)' /\ AnnounceInv(w)' /\ ScrapeInv(w)'
        BY <2>1, <2>4, <3>1 DEF RequestInv, AnnounceInv, ScrapeInv
      <3>3. AnswerInv(w)'
        BY Zenon, <3>1, ErrorInv
      <3> QED
        BY Zenon, <2>2, <2>4, <3>2, <3>3, MoveInv DEF TypeOK, Labels
    <2>5. ASSUME NEW l \in {"insert", "check"}, Goto(w, l),
                 l = "insert" => req[ActionField] = CONNECT,
                 l = "check" => req[ActionField] \in {ANNOUNCE, SCRAPE},
                 WellFormed(req, dgram[w].len),
                 request' = [request EXCEPT ![w] = req],
                 link' = [link EXCEPT ![w] = "up"],
                 UNCHANGED <<dgram, clone, body, entries, out, missed, allowed>>
          PROVE  Inv'
      <3>1. pc'[w] = l /\ request'[w] = req
        BY ZenonT(30), <2>5 DEF TypeOK
      <3>2. RequestInv(w)' /\ AnnounceInv(w)' /\ ScrapeInv(w)' /\ AnswerInv(w)'
        BY <2>1, <2>2, <2>5, <3>1 DEF RequestInv, AnnounceInv, ScrapeInv, AnswerInv
      <3> QED
        BY Zenon, <2>2, <2>5, <3>2, MoveInv DEF TypeOK, Labels
    <2> QED
      BY <2>2, <2>3, <2>4, <2>5
  <1>3. ASSUME NEW w \in Workers, Insert(w)
        PROVE  Inv'
    <2>1. PICK id \in Ids, reply \in Replies(w, "SETEX") :
            /\ Linked(w, reply)
            /\ \E done \in Executed(w, reply) : stored' = Inserted(stored, id, done)
            /\ missed' = [missed EXCEPT ![w] = reply # "ok"]
            /\ Respond(w, ConnectAnswer(request[w], id))
      BY Zenon, <1>3 DEF Insert
    <2>2. /\ pc[w] = "insert"
          /\ UNCHANGED <<dgram, clone, listed, request, body, entries, allowed>>
      BY <1>3 DEF Insert
    <2>3. /\ pc'[w] = "send" /\ out'[w] = ConnectAnswer(request[w], id)
          /\ missed'[w] = (reply # "ok")
      BY <2>1 DEF TypeOK
    <2>4. RequestInv(w)' /\ AnnounceInv(w)' /\ ScrapeInv(w)'
      BY Zenon, <2>2, <2>3 DEF Inv, WorkerInv, RequestInv, AnnounceInv, ScrapeInv
    <2>5. AnswerInv(w)'
      <3>1. out'[w].tid = Swap(request[w][TidField]) /\ out'[w].action = Swap(CONNECT)
            /\ out'[w].conn = Swap(id)
        <4>1. request[w][ActionField] = CONNECT
          BY Zenon, <2>2 DEF Inv, WorkerInv, RequestInv
        <4> QED
          BY <2>3, <4>1
      <3>2. Swap(Swap(id)) = id
        BY SwapTwice, SessionAssumption
      <3>3. Swap(CONNECT) # Swap(SCRAPE)
        BY DEF Swap, CONNECT, SCRAPE
      <3>4. missed'[w] \/ Swap(out'[w].conn) \in stored'
        <4>1. Swap(out'[w].conn) = id
          BY <3>1, <3>2
        <4>2. CASE reply = "ok"
          BY <2>1, <4>1, <4>2 DEF Executed
        <4>3. CASE reply # "ok"
          BY Zenon, <2>3, <4>3
        <4> QED
          BY <4>2, <4>3
      <3>5. request'[w] = request[w] /\ dgram'[w] = dgram[w]
        BY SMTT(30), <2>2
      <3>6. request[w][ActionField] = CONNECT /\ WellFormed(request[w], dgram[w].len)
        BY Zenon, <2>2 DEF Inv, WorkerInv, RequestInv
      <3>7. WellFormed(request[w], dgram[w].len)'
        BY Zenon, <3>5, <3>6 DEF WellFormed
      <3> QED
        BY ZenonT(30), <3>1, <3>3, <3>4, <3>5, <3>6, <3>7 DEF AnswerInv
    <2>6. \A v \in Workers \ {w} :
              /\ link'[v] = link[v] /\ request'[v] = request[v] /\ body'[v] = body[v]
              /\ entries'[v] = entries[v] /\ out'[v] = out[v] /\ missed'[v] = missed[v]
      BY <2>1, <2>2 DEF TypeOK, Linked
    <2>7. stored \subseteq stored'
      BY <2>1
    <2> QED
      BY Zenon, <2>1, <2>2, <2>4, <2>5, <2>6, <2>7, MoveInv DEF Labels
  <1>4. ASSUME NEW w \in Workers, Check(w)
        PROVE  Inv'
    <2>1. CASE Finish(w)
      BY <1>4, <2>1, FinishInv DEF Check, redis
    <2>2. CASE ~Finish(w)
      <3>1. PICK l \in {"announce", "scrape"} :
               /\ Goto(w, l)
               /\ l = IF request[w][ActionField] = ANNOUNCE THEN "announce" ELSE "scrape"
        BY <1>4, <2>2 DEF Check
      <3>2. /\ pc[w] = "check"
            /\ UNCHANGED <<dgram, clone, link, listed, request, body, entries, out, stored, missed, allowed>>
        BY <1>4, <2>2 DEF Check, redis
      <3>3. pc'[w] = l
        BY <3>1 DEF TypeOK
      <3>4. RequestInv(w)' /\ AnnounceInv(w)' /\ ScrapeInv(w)' /\ AnswerInv(w)'
        BY ZenonT(30), <3>1, <3>2, <3>3 DEF Inv, WorkerInv, RequestInv, AnnounceInv, ScrapeInv, AnswerInv
      <3> QED
        BY Zenon, <3>1, <3>2, <3>4, MoveInv DEF Labels
    <2> QED
      BY <2>1, <2>2
  <1>5. ASSUME NEW w \in Workers, ReadAnnounce(w)
        PROVE  Inv'
    <2>1. /\ pc[w] = "announce" /\ Goto(w, "swarm")
          /\ UNCHANGED <<dgram, clone, link, listed, request, entries, out, stored, missed, allowed>>
          /\ body' = [body EXCEPT ![w] =
                <<clone[w][Block(1)], clone[w][Block(2)], Swap(clone[w][Block(3)]), Swap(clone[w][Block(4)])>>]
      BY <1>5 DEF ReadAnnounce, redis, history
    <2>2. pc'[w] = "swarm"
      BY <2>1 DEF TypeOK
    <2>3. RequestInv(w)' /\ AnnounceInv(w)' /\ ScrapeInv(w)' /\ AnswerInv(w)'
      BY ZenonT(30), <2>1, <2>2 DEF TypeOK, Inv, WorkerInv, RequestInv, AnnounceInv, ScrapeInv, AnswerInv
    <2> QED
      BY Zenon, <2>1, <2>3, MoveInv DEF TypeOK, Labels
  <1>6. ASSUME NEW w \in Workers, Announced(w)
        PROVE  Inv'
    <2>1. PICK action \in {ERROR, request[w][ActionField]} :
             Respond(w, [action |-> Swap(action), tid |-> Swap(request[w][TidField])])
      BY Zenon, <1>6 DEF Announced
    <2>2. /\ pc[w] = "swarm"
          /\ UNCHANGED <<dgram, clone, link, listed, request, body, entries, stored, missed, allowed>>
      BY <1>6 DEF Announced, redis, history
    <2>3. pc'[w] = "send" /\ out'[w].tid = Swap(request[w][TidField]) /\ out'[w].action = Swap(action)
      BY <2>1 DEF TypeOK
    <2>4. Swap(action) # Swap(CONNECT) /\ Swap(action) # Swap(SCRAPE)
      <3>1. action \in {ERROR, ANNOUNCE}
        BY Zenon, <2>2 DEF Inv, WorkerInv, RequestInv
      <3> QED
        BY <3>1 DEF Swap, CONNECT, SCRAPE, ERROR, ANNOUNCE
    <2>5. RequestInv(w)' /\ AnnounceInv(w)' /\ ScrapeInv(w)'
      BY ZenonT(30), <2>2, <2>3 DEF Inv, WorkerInv, RequestInv, AnnounceInv, ScrapeInv
    <2>6. AnswerInv(w)'
      <3>1. WellFormed(request[w], dgram[w].len)'
        BY Zenon, <2>2 DEF Inv, WorkerInv, RequestInv, WellFormed
      <3> QED
        BY ZenonT(30), <2>1, <2>2, <2>3, <2>4, <3>1 DEF AnswerInv
    <2> QED
      BY Zenon, <2>1, <2>2, <2>5, <2>6, MoveInv DEF TypeOK, Labels
  <1>7. ASSUME NEW w \in Workers, ReadScrape(w)
        PROVE  Inv'
    <2>1. /\ pc[w] = "scrape" /\ Goto(w, "look") /\ dgram[w].len \in Nat /\ dgram[w].len >= 16
          /\ UNCHANGED <<dgram, clone, link, listed, request, entries, out, stored, missed, allowed>>
          /\ body' = [body EXCEPT ![w] = [k \in 1..HashCount(w) |-> clone[w][Block(k)]]]
      BY <1>7, SessionAssumption DEF ReadScrape, redis, history, TypeOK
    <2>2. pc'[w] = "look" /\ HashCount(w)' = HashCount(w) /\ HashCount(w) \in Nat
      <3>1. pc'[w] = "look" /\ pc[w] # "idle"
        BY <2>1 DEF TypeOK
      <3>2. HashCount(w)' = HashCount(w)
        BY Zenon, <2>1 DEF HashCount
      <3> QED
        BY Zenon, <2>1, <3>1, <3>2, HashCountBound
    <2>3. entries'[w] = <<>> /\ body'[w] = [k \in 1..HashCount(w) |-> clone[w][Block(k)]]
      BY ZenonT(30), <2>1 DEF TypeOK, Inv, WorkerInv, ScrapeInv
    <2>4. RequestInv(w)' /\ AnnounceInv(w)' /\ AnswerInv(w)'
      BY ZenonT(30), <2>1, <2>2 DEF Inv, WorkerInv, RequestInv, AnnounceInv, AnswerInv
    <2>5. ScrapeInv(w)'
      BY <2>1, <2>2, <2>3 DEF ScrapeInv
    <2> QED
      BY Zenon, <2>1, <2>4, <2>5, MoveInv DEF TypeOK, Labels
  <1>8. ASSUME NEW w \in Workers, Look(w)
        PROVE  Inv'
    BY Zenon, <1>8, LookStep
  <1>9. ASSUME NEW w \in Workers, Stats(w)
        PROVE  Inv'
    BY Zenon, <1>9, StatsStep
  <1>10. ASSUME NEW w \in Workers, Scraped(w)
         PROVE  Inv'
    BY Zenon, <1>10, ScrapedStep
  <1>11. ASSUME NEW w \in Workers, Send(w)
         PROVE  Inv'
    BY ZenonT(30), <1>11, FinishInv DEF Send, redis
  <1>12. ASSUME UNCHANGED <<listed, locals, history>>
         PROVE  Inv'
    BY <1>12, Others DEF locals, history, Untouched, Inv
  <1>13. ASSUME NEW n \in Names, EditList(n)
         PROVE  Inv'
    <2>1. ASSUME NEW v \in Workers
          PROVE  WorkerInv(v)'
      <3>1. UNCHANGED <<pc, dgram, clone, link, request, body, entries, out, stored, missed>>
        BY ZenonT(30), <1>13 DEF EditList, locals
      <3>2. allowed'[v] = IF pc[v] = "idle" THEN {} ELSE allowed[v] \cup {m \in Names : Permits(listed', m)}
        BY <1>13 DEF EditList
      <3>3. WorkerInv(v)
        BY DEF Inv
      <3>4. CASE pc[v] = "idle"
        BY Zenon, <3>1, <3>3, <3>4 DEF WorkerInv, CloneInv, RequestInv, AnnounceInv, ScrapeInv, AnswerInv
      <3>5. CASE pc[v] # "idle"
        BY Zenon, <3>1, <3>2, <3>3, <3>5, Frame
      <3> QED
        BY <3>4, <3>5
    <2> QED
      BY <2>1 DEF Inv
  <1>14. ASSUME NEW id \in Ids, Expire(id)
         PROVE  Inv'
    BY <1>12, <1>14 DEF Expire
  <1>15. ASSUME NEW w \in Workers, BeginDies(w) \/ AnnounceDies(w) \/ ReadScrapeDies(w) \/ StatsDies(w)
         PROVE  Inv'
    BY Zenon, <1>12, <1>15 DEF BeginDies, AnnounceDies, ReadScrapeDies, StatsDies, Die, redis
  <1>16. CASE UNCHANGED vars
    BY <1>12, <1>16 DEF vars, redis
  <1> QED
    BY <1>1, <1>2, <1>3, <1>4, <1>5, <1>6, <1>7, <1>8, <1>9, <1>10, <1>11, <1>13, <1>14, <1>15, <1>16
       DEF Next, Work

\* Types and the invariant hold in the beginning, and so for ever.
LEMMA InvHolds == Spec => [](TypeOK /\ Inv)
  <1>1. Init => TypeOK /\ Inv
    <2> SUFFICES ASSUME Init PROVE TypeOK /\ Inv
      OBVIOUS
    <2>1. buff \in Buffers
      BY SessionAssumption DEF Init
    <2>2. Inv
      BY Zenon DEF Init, Inv, WorkerInv, CloneInv, RequestInv, AnnounceInv, ScrapeInv, AnswerInv, Scraping
    <2>3. /\ count \in 0..MaxDatagrams /\ edits \in 0..MaxEdits
          /\ conns \subseteq Ids /\ stored \subseteq Ids /\ listed \subseteq Names
          /\ dead \in BOOLEAN
      <3>1. count \in 0..MaxDatagrams /\ edits \in 0..MaxEdits
        BY SessionAssumption DEF Init
      <3>2. conns \subseteq Ids /\ stored \subseteq Ids /\ listed \subseteq Names
        BY DEF Init
      <3>3. dead \in BOOLEAN
        BY Zenon DEF Init
      <3> QED
        BY <3>1, <3>2, <3>3
    <2>4. /\ body \in [Workers -> Seq(Words)] /\ entries \in [Workers -> Seq(Entries)]
          /\ request \in [Workers -> {<<>>} \cup [1..3 -> Words]]
          /\ clone \in [Workers -> Buffers \cup {<<>>}] /\ dgram \in [Workers -> Datagrams \cup {None}]
      BY DEF Init
    <2>5. /\ pc \in [Workers -> Labels] /\ link \in [Workers -> {"up", "down"}]
          /\ missed \in [Workers -> BOOLEAN] /\ allowed \in [Workers -> SUBSET Names]
          /\ out \in [Workers -> Answers \cup {<<>>}]
      BY DEF Init, Labels
    <2>6. \A w \in Workers : pc[w] = "idle" /\ out[w] = <<>>
      BY Zenon DEF Init
    <2> QED
      BY <2>1, <2>2, <2>3, <2>4, <2>5, <2>6, AnswerNotEmpty DEF TypeOK
  <1> QED
    BY <1>1, TypeStep, InvStep, PTL DEF Spec

-----------------------------------------------------------------------------
\* The properties.

\* TypeOK always holds, for every buffer, every set of datagrams and workers.
THEOREM TypeCorrect == Spec => []TypeOK
  BY InvHolds, PTL

\* No interleaving of receptions and handlers makes a worker read or answer a
\* datagram other than its own: the clone main makes of its buffer suffices.
THEOREM AnswersOwnDatagramHolds == Spec => []AnswersOwnDatagram
  <1>1. TypeOK /\ Inv => AnswersOwnDatagram
    <2> SUFFICES ASSUME TypeOK, Inv, NEW w \in Workers
                 PROVE  /\ pc[w] = "swarm" => \A k \in 1..4 : End(Block(k)) <= dgram[w].len =>
                              body[w][k] = IF k <= 2 THEN dgram[w].data[Block(k)] ELSE Swap(dgram[w].data[Block(k)])
                        /\ pc[w] = "send" /\ dgram[w].len >= 16 => out[w].tid = dgram[w].data[TidField]
                        /\ pc[w] = "send" /\ out[w].action = Swap(SCRAPE) =>
                              [k \in DOMAIN out[w].entries |-> out[w].entries[k].name]
                                = [k \in 1..((dgram[w].len - 16) \div 20) |-> Hex(dgram[w].data[Block(k)])]
      BY Zenon DEF AnswersOwnDatagram
    <2>1. CloneInv(w) /\ RequestInv(w) /\ AnnounceInv(w) /\ AnswerInv(w)
      BY DEF Inv, WorkerInv
    <2>2. ASSUME pc[w] = "swarm", NEW k \in 1..4, End(Block(k)) <= dgram[w].len
          PROVE  body[w][k] = IF k <= 2 THEN dgram[w].data[Block(k)] ELSE Swap(dgram[w].data[Block(k)])
      <3>1. Block(k) \in Fields
        BY SessionAssumption DEF Block, Fields
      <3>2. clone[w][Block(k)] = dgram[w].data[Block(k)]
        BY ZenonT(30), <2>1, <2>2, <3>1 DEF CloneInv
      <3>3. body[w][k] = IF k <= 2 THEN clone[w][Block(k)] ELSE Swap(clone[w][Block(k)])
        <4>1. k = 1 \/ k = 2 \/ k = 3 \/ k = 4
          OBVIOUS
        <4> QED
          BY <2>1, <2>2, <4>1 DEF AnnounceInv
      <3> QED
        BY <3>2, <3>3
    <2>3. ASSUME pc[w] = "send", dgram[w].len >= 16
          PROVE  out[w].tid = dgram[w].data[TidField]
      <3>1. TidField \in Fields /\ TidField \in 1..3 /\ End(TidField) = 16
        BY SessionAssumption DEF TidField, Fields, End
      <3>2. clone[w][TidField] = dgram[w].data[TidField]
        BY ZenonT(30), <2>1, <2>3, <3>1 DEF CloneInv
      <3>3. out[w].tid = Swap(Swap(clone[w][TidField]))
        BY <2>1, <2>3, <3>1 DEF AnswerInv, RequestInv
      <3>4. clone[w][TidField] \in Words
        BY Zenon, <2>3, <3>1 DEF TypeOK, Buffers
      <3> QED
        BY <3>2, <3>3, <3>4, SwapTwice
    <2>4. ASSUME pc[w] = "send", out[w].action = Swap(SCRAPE)
          PROVE  [k \in DOMAIN out[w].entries |-> out[w].entries[k].name]
                    = [k \in 1..((dgram[w].len - 16) \div 20) |-> Hex(dgram[w].data[Block(k)])]
      <3>1. /\ dgram[w].len >= 16
            /\ out[w].entries \in Seq(Entries) /\ Len(out[w].entries) = HashCount(w)
            /\ \A k \in 1..HashCount(w) : out[w].entries[k].name = Hex(clone[w][Block(k)])
        BY <2>1, <2>4 DEF AnswerInv
      <3>2. DOMAIN out[w].entries = 1..HashCount(w)
        BY <3>1
      <3>3. \A k \in 1..HashCount(w) : clone[w][Block(k)] = dgram[w].data[Block(k)]
        BY <2>1, <2>4, <3>1, HashCountBound DEF CloneInv
      <3> QED
        BY ZenonT(30), <3>1, <3>2, <3>3 DEF HashCount
    <2> QED
      BY <2>2, <2>3, <2>4
  <1> QED
    BY <1>1, InvHolds, PTL

\* A connect that was stored is answered with an id that Redis holds, in the
\* byte order in which bt_read_request_data will read it.
THEOREM ToldIdStoredHolds == Spec => []ToldIdStored
  <1>1. Inv => ToldIdStored
    BY DEF Inv, WorkerInv, AnswerInv, ToldIdStored
  <1> QED
    BY <1>1, InvHolds, PTL

\* A scrape answers for no torrent that the list denied throughout the torrent's
\* own round of bt_handle_scrape's loop, except where SISMEMBER was refused.
THEOREM ScrapesPermittedHolds == Spec => []ScrapesPermitted
  <1>1. Inv => ScrapesPermitted
    <2> SUFFICES ASSUME Inv, NEW w \in Workers, pc[w] = "send", out[w].action = Swap(SCRAPE),
                        NEW k \in DOMAIN out[w].entries, out[w].entries[k].checked
                 PROVE  out[w].entries[k].permitted
      BY ZenonT(30) DEF ScrapesPermitted
    <2>1. /\ out[w].entries \in Seq(Entries) /\ Len(out[w].entries) = HashCount(w)
          /\ \A j \in 1..HashCount(w) : out[w].entries[j].checked => out[w].entries[j].permitted
      BY DEF Inv, WorkerInv, AnswerInv
    <2>2. k \in 1..HashCount(w)
      BY <2>1
    <2> QED
      BY <2>1, <2>2
  <1> QED
    BY <1>1, InvHolds, PTL

\* bt_info_hash_blacklisted ends a scrape whose connection has failed: only the
\* stats of the last torrent can be sent unfilled.
THEOREM GarbageOnlyLastHolds == Spec => []GarbageOnlyLast
  <1>1. Inv => GarbageOnlyLast
    BY DEF Inv, WorkerInv, AnswerInv, GarbageOnlyLast
  <1> QED
    BY <1>1, InvHolds, PTL

-----------------------------------------------------------------------------
\* The refinement of Exchange.

Fits == \A w \in Workers : pc[w] = "send" =>
           Wire!IsError(dgram[w], out[w]) \/ Wire!IsAnswer(dgram[w], out[w])

\* Every answer about to be sent is one that the datagram may have: the header the
\* worker has read is the datagram's own as far as bt_valid_request relies on it.
LEMMA AnswerFits == TypeOK /\ Inv => Fits
  <1> SUFFICES ASSUME TypeOK, Inv, NEW w \in Workers, pc[w] = "send"
               PROVE  Wire!IsError(dgram[w], out[w]) \/ Wire!IsAnswer(dgram[w], out[w])
    BY Zenon DEF Fits
  <1>1. CloneInv(w) /\ RequestInv(w) /\ AnswerInv(w)
    BY Zenon DEF Inv, WorkerInv
  <1>2. PICK d \in Datagrams : d = dgram[w] /\ d.len \in Nat
    BY SessionAssumption DEF TypeOK
  <1>3. ASSUME d.len >= 16, NEW f \in 1..3
        PROVE  d.data[f] \in Words /\ Swap(request[w][f]) = d.data[f]
    <2>1. f \in Fields /\ End(f) <= d.len
      BY <1>2, <1>3, SessionAssumption DEF Fields, End
    <2>2. clone[w][f] = d.data[f] /\ clone[w][f] \in Words
      BY ZenonT(30), <1>1, <1>2, <2>1 DEF CloneInv, TypeOK, Buffers
    <2>3. request[w][f] = Swap(clone[w][f])
      BY ZenonT(30), <1>1 DEF RequestInv
    <2> QED
      BY <2>2, <2>3, SwapTwice
  <1>4. d.len >= 16 => out[w].tid = d.data[3]
    BY <1>1, <1>3 DEF AnswerInv, TidField
  <1>5. CASE out[w].action = Swap(ERROR)
    <2>1. Swap(ERROR) = Wire!ERROR
      BY ZenonT(30) DEF Swap, ERROR, Wire!ERROR
    <2> QED
      BY <1>2, <1>4, <1>5, <2>1 DEF Wire!IsError
  <1>6. CASE out[w].action = Swap(request[w][ActionField]) /\ WellFormed(request[w], dgram[w].len)
    <2>1. CASE request[w][ActionField] = CONNECT /\ request[w][ConnField] = BT_PROTOCOL_ID /\ d.len >= 16
      <3>1. Swap(CONNECT) = Wire!CONNECT /\ Swap(BT_PROTOCOL_ID) = Wire!PROTOCOL_ID
        BY DEF Swap, CONNECT, BT_PROTOCOL_ID, Wire!CONNECT, Wire!PROTOCOL_ID
      <3>2. d.data[1] = Wire!PROTOCOL_ID /\ out[w].action = d.data[2]
        BY <1>3, <1>6, <2>1, <3>1 DEF ConnField, ActionField
      <3> QED
        BY <1>2, <1>4, <1>6, <2>1, <3>1, <3>2 DEF Wire!IsAnswer
    <2>2. CASE request[w][ActionField] = ANNOUNCE /\ d.len >= 20
      <3>1. Swap(ANNOUNCE) = Wire!ANNOUNCE
        BY DEF Swap, ANNOUNCE, Wire!ANNOUNCE
      <3>2. d.len >= 16
        BY <1>2, <2>2
      <3>3. out[w].action = d.data[2]
        BY <1>3, <1>6, <3>2 DEF ActionField
      <3> QED
        BY <1>2, <1>4, <1>6, <2>2, <3>1, <3>2, <3>3 DEF Wire!IsAnswer
    <2>3. CASE request[w][ActionField] = SCRAPE
      <3>1. Swap(SCRAPE) = Wire!SCRAPE
        BY DEF Swap, SCRAPE, Wire!SCRAPE
      <3>2. d.len >= 16 /\ Len(out[w].entries) = (d.len - 16) \div 20
        BY Zenon, <1>1, <1>2, <1>6, <2>3 DEF AnswerInv, HashCount
      <3>3. out[w].action = d.data[2]
        BY <1>3, <1>6, <3>2 DEF ActionField
      <3> QED
        BY <1>2, <1>4, <1>6, <2>3, <3>1, <3>2, <3>3 DEF Wire!IsAnswer
    <2> QED
      BY ZenonT(30), <1>2, <1>6, <2>1, <2>2, <2>3 DEF WellFormed
  <1> QED
    BY Zenon, <1>1, <1>5, <1>6 DEF AnswerInv

\* What a step of a worker is to the sender of its datagram: the worker takes the
\* datagram, goes on without an answer, answers, or is done.
Takes(w) ==
    /\ pc[w] = "idle" /\ Goto(w, "start")
    /\ \E d \in Datagrams : dgram' = [dgram EXCEPT ![w] = d]
    /\ UNCHANGED <<out, conns>>
Moves(w) ==
    /\ pc[w] # "idle" /\ \E l \in Labels \ {"idle"} : Goto(w, l)
    /\ UNCHANGED <<dgram, out, conns>>
Gives(w) ==
    /\ pc[w] \notin {"idle", "send"} /\ \E r : Respond(w, r)
    /\ \/ conns' = conns
       \/ out'[w].action = Swap(CONNECT) /\ conns' = conns \cup {Swap(out'[w].conn)}
    /\ UNCHANGED dgram
Leaves(w) ==
    /\ pc[w] # "idle" /\ Goto(w, "idle")
    /\ dgram' = [dgram EXCEPT ![w] = None] /\ out' = [out EXCEPT ![w] = <<>>]
    /\ UNCHANGED conns

\* Every action is one of these, or the end of the process, or no worker's.
LEMMA StepKinds ==
    ASSUME TypeOK, Inv, Next
    PROVE  /\ ~dead
           /\ \/ dead' = TRUE /\ UNCHANGED <<pc, dgram, out, conns>>
              \/ /\ ~dead'
                 /\ \/ \E w \in Workers : Takes(w) \/ Moves(w) \/ Gives(w) \/ Leaves(w)
                    \/ (\E id \in Ids : conns' = conns \ {id}) /\ UNCHANGED <<pc, dgram, out>>
                    \/ UNCHANGED <<pc, dgram, out, conns>>
  <1> DEFINE Lives == ~dead' /\ ~dead
  <1>1. ASSUME NEW w \in Workers, NEW d \in Datagrams, Receive(w, d)
        PROVE  Lives /\ Takes(w)
    BY Zenon, <1>1 DEF Receive, redis, Takes
  <1>2. ASSUME NEW w \in Workers, Begin(w)
        PROVE  Lives /\ (Gives(w) \/ Moves(w) \/ Leaves(w))
    BY Zenon, <1>2 DEF Begin, redis, Gives, Moves, Leaves, Finish, Labels
  <1>3. ASSUME NEW w \in Workers, Insert(w)
        PROVE  Lives /\ Gives(w)
    <2>1. PICK id \in Ids, done \in BOOLEAN :
             conns' = Inserted(conns, id, done) /\ Respond(w, ConnectAnswer(request[w], id))
      BY ZenonT(30), <1>3, ExecutedType DEF Insert
    <2>2. Lives /\ pc[w] = "insert" /\ UNCHANGED dgram
      BY Zenon, <1>3 DEF Insert
    <2>3. request[w][ActionField] = CONNECT
      BY Zenon, <2>2 DEF Inv, WorkerInv, RequestInv
    <2>4. out'[w].action = Swap(CONNECT) /\ out'[w].conn = Swap(id)
      BY <2>1, <2>3 DEF TypeOK
    <2>5. Swap(out'[w].conn) = id
      BY <2>4, SwapTwice, SessionAssumption
    <2>6. conns' = conns \/ conns' = conns \cup {id}
      BY <2>1
    <2> QED
      BY Zenon, <2>1, <2>2, <2>4, <2>5, <2>6 DEF Gives
  <1>4. ASSUME NEW w \in Workers, Check(w)
        PROVE  Lives /\ (Moves(w) \/ Leaves(w))
    BY Zenon, <1>4 DEF Check, redis, Moves, Leaves, Finish, Labels
  <1>5. ASSUME NEW w \in Workers, ReadAnnounce(w) \/ ReadScrape(w) \/ Stats(w)
        PROVE  Lives /\ Moves(w)
    <2>1. CASE ReadAnnounce(w)
      BY Zenon, <2>1 DEF ReadAnnounce, redis, Moves, Labels
    <2>2. CASE ReadScrape(w)
      BY Zenon, <2>2 DEF ReadScrape, redis, Moves, Labels
    <2>3. CASE Stats(w)
      BY Zenon, <2>3 DEF Stats, redis, Moves, Labels
    <2> QED
      BY <1>5, <2>1, <2>2, <2>3
  <1>6. ASSUME NEW w \in Workers, Announced(w) \/ Scraped(w)
        PROVE  Lives /\ Gives(w)
    <2>1. CASE Announced(w)
      BY Zenon, <2>1 DEF Announced, redis, Gives
    <2>2. CASE Scraped(w)
      BY Zenon, <2>2 DEF Scraped, redis, Gives
    <2> QED
      BY <1>6, <2>1, <2>2
  <1>7. ASSUME NEW w \in Workers, Look(w)
        PROVE  Lives /\ (Gives(w) \/ Moves(w))
    BY Zenon, <1>7 DEF Look, redis, Gives, Moves, Labels
  <1>8. ASSUME NEW w \in Workers, Send(w)
        PROVE  Lives /\ Leaves(w)
    BY Zenon, <1>8 DEF Send, redis, Leaves, Finish
  <1>9. ASSUME NEW w \in Workers, BeginDies(w) \/ AnnounceDies(w) \/ ReadScrapeDies(w) \/ StatsDies(w)
        PROVE  ~dead /\ dead' = TRUE /\ UNCHANGED <<pc, dgram, out, conns>>
    BY Zenon, <1>9 DEF BeginDies, AnnounceDies, ReadScrapeDies, StatsDies, Die, redis, locals
  <1>10. ASSUME NEW n \in Names, EditList(n)
         PROVE  Lives /\ UNCHANGED <<pc, dgram, out, conns>>
    BY Zenon, <1>10 DEF EditList, locals
  <1>11. ASSUME NEW id \in Ids, Expire(id)
         PROVE  Lives /\ conns' = conns \ {id} /\ UNCHANGED <<pc, dgram, out>>
    BY Zenon, <1>11 DEF Expire, locals
  <1> QED
    BY Zenon, <1>1, <1>2, <1>3, <1>4, <1>5, <1>6, <1>7, <1>8, <1>9, <1>10, <1>11 DEF Next, Work

\* An idle worker has no datagram.
Rests == \A w \in Workers : pc[w] = "idle" => dgram[w] = None

\* Every step keeps this.
LEMMA RestsStep == TypeOK /\ Inv /\ Rests /\ [Next]_vars => Rests'
  <1> SUFFICES ASSUME TypeOK, Inv, Rests, [Next]_vars, NEW v \in Workers, pc'[v] = "idle"
               PROVE  dgram'[v] = None
    BY DEF Rests
  <1>1. pc[v] = "idle" => dgram[v] = None
    BY DEF Rests
  <1>2. CASE UNCHANGED <<pc, dgram>>
    BY <1>1, <1>2
  <1>3. ASSUME NEW w \in Workers, Takes(w)
        PROVE  dgram'[v] = None
    BY <1>1, <1>3 DEF Takes, TypeOK
  <1>4. ASSUME NEW w \in Workers, Moves(w)
        PROVE  dgram'[v] = None
    BY <1>1, <1>4 DEF Moves, TypeOK
  <1>5. ASSUME NEW w \in Workers, Gives(w)
        PROVE  dgram'[v] = None
    BY <1>1, <1>5 DEF Gives, TypeOK
  <1>6. ASSUME NEW w \in Workers, Leaves(w)
        PROVE  dgram'[v] = None
    BY ZenonT(30), <1>1, <1>6 DEF Leaves, TypeOK
  <1>7. CASE UNCHANGED vars
    BY <1>2, <1>7 DEF vars, locals
  <1> QED
    BY ZenonT(30), <1>2, <1>3, <1>4, <1>5, <1>6, <1>7, StepKinds

\* Every step of the program is one that Exchange allows, or none there.
LEMMA ExchangeStep ==
    TypeOK /\ Inv /\ Rests /\ TypeOK' /\ Fits' /\ [Next]_vars => [Wire!Next]_(Wire!vars)
  <1> SUFFICES ASSUME TypeOK, Inv, Rests, TypeOK', Fits', Next
               PROVE  Wire!Next \/ UNCHANGED <<dgram, out, conns, dead>>
    BY DEF vars, redis, locals, Wire!vars
  <1>1. dead' = TRUE \/ dead' = FALSE
    BY Zenon DEF TypeOK
  <1>2. ASSUME NEW w \in Workers, pc[w] # "idle"
        PROVE  dgram[w] # None
    BY <1>2, SessionAssumption DEF TypeOK
  <1>3. ASSUME NEW w \in Workers, Takes(w)
        PROVE  \E d \in Datagrams : Wire!Ask(w, d)
    BY Zenon, <1>3 DEF Takes, Rests, Wire!Ask
  <1>4. ASSUME NEW w \in Workers, Leaves(w)
        PROVE  Wire!Done(w)
    BY Zenon, <1>2, <1>4 DEF Leaves, Wire!Done
  <1>5. ASSUME NEW w \in Workers, Gives(w)
        PROVE  Wire!Answer(w)
    <2>1. pc'[w] = "send"
      BY <1>5 DEF Gives, TypeOK
    <2>2. out[w] = <<>> /\ out'[w] # <<>>
      BY ZenonT(30), <1>5, <2>1, AnswerNotEmpty DEF Gives, TypeOK
    <2>3. out' = [out EXCEPT ![w] = out'[w]]
      BY <1>5 DEF Gives, TypeOK
    <2>4. UNCHANGED dgram /\ dgram[w] # None
      BY Zenon, <1>2, <1>5 DEF Gives
    <2>5. Wire!IsError(dgram[w], out'[w]) \/ Wire!IsAnswer(dgram[w], out'[w])
      <3>1. (Wire!IsError(dgram[w], out[w]) \/ Wire!IsAnswer(dgram[w], out[w]))'
        BY Zenon, <2>1 DEF Fits
      <3> QED
        BY <2>4, <3>1 DEF Wire!IsError, Wire!IsAnswer, Wire!ERROR, Wire!CONNECT, Wire!ANNOUNCE, Wire!SCRAPE, Wire!PROTOCOL_ID
    <2>6. \/ conns' = conns
          \/ out'[w].action = Wire!CONNECT /\ conns' = conns \cup {<<out'[w].conn[2], out'[w].conn[1]>>}
      BY <1>5 DEF Gives, Swap, CONNECT, Wire!CONNECT
    <2> QED
      BY ZenonT(30), <2>2, <2>3, <2>4, <2>5, <2>6 DEF Wire!Answer
  <1>6. ASSUME NEW id \in Ids, conns' = conns \ {id}, UNCHANGED <<dgram, out>>
        PROVE  Wire!Expire(id)
    BY <1>6 DEF Wire!Expire
  <1>7. CASE dead' = TRUE /\ UNCHANGED <<dgram, out, conns>>
    BY Zenon, <1>7, StepKinds DEF Wire!Next
  <1>8. CASE ~dead' /\ Wire!Step
    BY Zenon, <1>1, <1>8, StepKinds DEF Wire!Next
  <1>9. CASE ~dead' /\ UNCHANGED <<dgram, out, conns>>
    <2>1. dead = FALSE
      BY Zenon, StepKinds DEF TypeOK
    <2> QED
      BY Zenon, <1>1, <1>9, <2>1
  <1>10. ASSUME NEW w \in Workers, Moves(w)
         PROVE  UNCHANGED <<dgram, out, conns>>
    BY <1>10 DEF Moves
  <1> QED
    BY Zenon, <1>3, <1>4, <1>5, <1>6, <1>7, <1>8, <1>9, <1>10, StepKinds DEF Wire!Step

\* Whatever is received when, whatever bytes are behind a short datagram in the
\* buffer and whatever Redis does, bt_request_processor and its handlers give
\* each datagram at most one answer, the one Exchange allows.
THEOREM ImplementsExchangeHolds == Spec => ImplementsExchange
  <1>1. Init => Wire!Init /\ Rests
    BY Zenon DEF Init, Wire!Init, Rests
  <1>2. Spec => []Rests
    BY <1>1, RestsStep, InvHolds, PTL DEF Spec
  <1> QED
    BY <1>1, <1>2, ExchangeStep, AnswerFits, InvHolds, PTL DEF Spec, ImplementsExchange, Wire!Spec
=============================================================================
