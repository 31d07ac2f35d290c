--------------------------- MODULE SessionScrapes ---------------------------
(***************************************************************************)
(* Proofs about module Session: what a step leaves of the invariant Inv,   *)
(* and that the steps of bt_handle_scrape keep it.                         *)
(***************************************************************************)
EXTENDS SessionTypes

USE DEF Data, Length, Respond, Denied, Overruns, ConnectAnswer, ScrapeAnswer, Inserted, Ordered, Goto

-----------------------------------------------------------------------------
\* The invariant is inductive.

\* A worker keeps its invariant while others take steps and the list is edited.
LEMMA Frame ==
    ASSUME NEW v \in Workers, WorkerInv(v),
           pc'[v] = pc[v], dgram'[v] = dgram[v], clone'[v] = clone[v], link'[v] = link[v],
           request'[v] = request[v], body'[v] = body[v], entries'[v] = entries[v], out'[v] = out[v],
           missed'[v] = missed[v], stored \subseteq stored',
           allowed[v] \subseteq allowed'[v],
           pc[v] # "idle" => \A n \in Names : Permits(listed', n) => n \in allowed'[v]
    PROVE  WorkerInv(v)'
  <1>1. CloneInv(v)'
    BY DEF WorkerInv, CloneInv, Permits
  <1>2. RequestInv(v)'
    BY DEF WorkerInv, RequestInv
  <1>3. AnnounceInv(v)'
    BY DEF WorkerInv, AnnounceInv
  <1>4. HashCount(v)' = HashCount(v)
    BY DEF HashCount
  <1>5. ScrapeInv(v)'
    BY ZenonT(30), <1>4 DEF WorkerInv, ScrapeInv
  <1>6. AnswerInv(v)'
    BY ZenonT(30), <1>4 DEF WorkerInv, AnswerInv
  <1> QED
    BY <1>1, <1>2, <1>3, <1>5, <1>6 DEF WorkerInv

\* An error answer (bt_send_error) tells no connection id and no torrent.
LEMMA ErrorInv ==
    ASSUME NEW w \in Workers, out'[w] = ErrorAnswer(request'[w])
    PROVE  AnswerInv(w)'
  BY DEF AnswerInv, ErrorAnswer, ERROR, CONNECT, SCRAPE, Swap

\* bt_handle_scrape goes on from the restriction's check to the torrent's statistics.
LEMMA StatsInv ==
    ASSUME NEW w \in Workers, ScrapeInv(w), pc[w] = "look", Len(entries[w]) < HashCount(w),
           NEW l \in {"stats", "statsUnchecked"}, pc'[w] = l,
           l = "stats" => Hex(clone[w][Block(Len(entries[w]) + 1)]) \in allowed[w],
           Restriction # "none" => link[w] = "up",
           UNCHANGED <<dgram, clone, body, entries, allowed>>
    PROVE  ScrapeInv(w)'
  <1>1. HashCount(w)' = HashCount(w)
    BY DEF HashCount
  <1>2. /\ dgram'[w] = dgram[w] /\ clone'[w] = clone[w] /\ body'[w] = body[w]
        /\ entries'[w] = entries[w] /\ allowed'[w] = allowed[w]
    OBVIOUS
  <1> QED
    BY <1>1, <1>2 DEF ScrapeInv, Scraping

Untouched(v) ==
    /\ pc'[v] = pc[v] /\ dgram'[v] = dgram[v] /\ clone'[v] = clone[v] /\ link'[v] = link[v]
    /\ request'[v] = request[v] /\ body'[v] = body[v] /\ entries'[v] = entries[v]
    /\ out'[v] = out[v] /\ missed'[v] = missed[v] /\ allowed'[v] = allowed[v]

\* A step of one worker keeps the invariant of the others.
LEMMA Others ==
    ASSUME Inv, NEW v \in Workers, Untouched(v),
           listed' = listed, stored \subseteq stored'
    PROVE  WorkerInv(v)'
  <1>1. WorkerInv(v)
    BY DEF Inv
  <1>2. pc[v] # "idle" => \A n \in Names : Permits(listed', n) => n \in allowed'[v]
    BY <1>1 DEF WorkerInv, CloneInv, Untouched
  <1> QED
    BY <1>1, <1>2, Frame DEF Untouched

\* A worker that is done keeps nothing.
LEMMA FinishInv ==
    ASSUME TypeOK, Inv, NEW w \in Workers, Finish(w), UNCHANGED <<listed, stored>>
    PROVE  Inv'
  <1>1. ASSUME NEW v \in Workers, v # w
        PROVE  WorkerInv(v)'
    <2>1. Untouched(v)
      BY <1>1 DEF Finish, TypeOK, Untouched
    <2> QED
      BY <2>1, Others
  <1>2. pc'[w] = "idle" /\ entries'[w] = <<>>
    BY DEF Finish, TypeOK
  <1>3. WorkerInv(w)'
    BY ZenonT(30), <1>2 DEF WorkerInv, CloneInv, RequestInv, AnnounceInv, ScrapeInv, AnswerInv, Scraping
  <1> QED
    BY <1>1, <1>3 DEF Inv

\* A worker that moves on: the parts of the invariant about its clone, and the
\* other workers.
LEMMA MoveInv ==
    ASSUME TypeOK, Inv, NEW w \in Workers, NEW l \in Labels \ {"idle"}, pc[w] # "idle", Goto(w, l),
           \A v \in Workers \ {w} :
              /\ link'[v] = link[v] /\ request'[v] = request[v] /\ body'[v] = body[v]
              /\ entries'[v] = entries[v] /\ out'[v] = out[v] /\ missed'[v] = missed[v],
           stored \subseteq stored',
           UNCHANGED <<dgram, clone, listed, allowed>>,
           RequestInv(w)', AnnounceInv(w)', ScrapeInv(w)', AnswerInv(w)'
    PROVE  Inv'
  <1>1. ASSUME NEW v \in Workers, v # w
        PROVE  WorkerInv(v)'
    <2>1. Untouched(v)
      BY <1>1 DEF TypeOK, Untouched
    <2> QED
      BY <2>1, Others
  <1>2. CloneInv(w)'
    BY DEF Inv, WorkerInv, CloneInv, Permits
  <1> QED
    BY <1>1, <1>2 DEF Inv, WorkerInv

\* The name a scrape looks up is that of the next hash of the worker's datagram.
LEMMA NameOwn ==
    ASSUME TypeOK, Inv, NEW w \in Workers, pc[w] \in Scraping, Len(entries[w]) < HashCount(w)
    PROVE  /\ Len(entries[w]) \in Nat /\ HashCount(w) \in Nat
           /\ Name(w) = Hex(clone[w][Block(Len(entries[w]) + 1)])
           /\ Name(w) \in Names
  <1> DEFINE k == Len(entries[w]) + 1
  <1>1. /\ dgram[w].len >= 16 /\ pc[w] # "idle"
        /\ body[w] = [j \in 1..HashCount(w) |-> clone[w][Block(j)]]
    BY DEF Inv, WorkerInv, ScrapeInv, Scraping
  <1>2. Len(entries[w]) \in Nat /\ HashCount(w) \in Nat
    BY <1>1, HashCountBound DEF TypeOK
  <1>3. k \in 1..HashCount(w)
    BY <1>2
  <1>4. Name(w) = Hex(clone[w][Block(k)])
    BY <1>1, <1>3 DEF Name
  <1>5. Block(k) \in Fields /\ clone[w][Block(k)] = dgram[w].data[Block(k)]
    BY <1>1, <1>3, HashCountBound DEF Inv, WorkerInv, CloneInv
  <1>6. k \in 1..Blocks /\ dgram[w] \in Datagrams
    BY <1>1, <1>2, <1>5, SessionAssumption DEF Block, Fields, TypeOK
  <1> HIDE DEF k
  <1>7. Hex(dgram[w].data[Block(k)]) \in Names
    BY <1>6 DEF Names
  <1> QED
    BY <1>2, <1>4, <1>5, <1>7 DEF k

-----------------------------------------------------------------------------
\* The steps of bt_handle_scrape.

\* The restriction check of the next torrent keeps the invariant.
LEMMA LookStep ==
    ASSUME TypeOK, Inv, NEW w \in Workers, Look(w)
    PROVE  Inv'
  <1> USE DEF Scraping
  <1> DEFINE n == Len(entries[w])
  <1>1. PICK reply \in IF Restriction = "none" THEN {"ok"} ELSE Replies(w, "SISMEMBER") :
           /\ Linked(w, reply)
           /\ \/ /\ Passes(w, reply)
                 /\ Goto(w, IF reply = "SISMEMBER" THEN "statsUnchecked" ELSE "stats")
                 /\ UNCHANGED out
              \/ ~Passes(w, reply) /\ Respond(w, ErrorAnswer(request[w]))
    BY DEF Look
  <1>2. /\ pc[w] = "look" /\ n < Len(body[w])
        /\ UNCHANGED <<dgram, clone, listed, request, body, entries, stored, missed, allowed>>
    BY DEF Look, redis, history
  <1>3. /\ dgram[w].len >= 16
        /\ body[w] = [k \in 1..HashCount(w) |-> clone[w][Block(k)]]
        /\ \A j \in 1..n : entries[w][j].name = Hex(clone[w][Block(n + 1 - j)])
        /\ \A j \in 1..n : entries[w][j].checked => entries[w][j].permitted
        /\ Restriction # "none" =>
              /\ \A j \in 2..n : entries[w][j].filled
              /\ n > 0 /\ link[w] = "up" => entries[w][1].filled
    BY ZenonT(30), <1>2 DEF Inv, WorkerInv, ScrapeInv
  <1>4. HashCount(w) \in Nat /\ n < HashCount(w)
    BY <1>2, <1>3, HashCountBound
  <1>5. Name(w) = Hex(clone[w][Block(n + 1)]) /\ Name(w) \in Names /\ n \in Nat
    BY ZenonT(30), <1>2, <1>4, NameOwn
  <1>6. HashCount(w)' = HashCount(w)
    BY <1>2 DEF HashCount
  <1>7. CASE ~Passes(w, reply) /\ Respond(w, ErrorAnswer(request[w]))
    <2>1. pc'[w] = "send" /\ out'[w] = ErrorAnswer(request[w])
      BY <1>7 DEF TypeOK
    <2>2. RequestInv(w)' /\ AnnounceInv(w)' /\ ScrapeInv(w)'
      BY Zenon, <1>2, <2>1 DEF Inv, WorkerInv, RequestInv, AnnounceInv, ScrapeInv
    <2>3. AnswerInv(w)'
      BY Zenon, <1>2, <2>1, ErrorInv
    <2>4. \A v \in Workers \ {w} : link'[v] = link[v] /\ out'[v] = out[v]
      BY <1>1, <1>7 DEF Linked, TypeOK
    <2> QED
      BY Zenon, <1>2, <1>7, <2>2, <2>3, <2>4, MoveInv DEF Labels
  <1>8. CASE /\ Passes(w, reply) /\ UNCHANGED out
             /\ Goto(w, IF reply = "SISMEMBER" THEN "statsUnchecked" ELSE "stats")
    <2>1. PICK l \in {"stats", "statsUnchecked"} :
             l = (IF reply = "SISMEMBER" THEN "statsUnchecked" ELSE "stats")
      OBVIOUS
    <2>2. Goto(w, l) /\ pc'[w] = l
      BY <1>8, <2>1 DEF TypeOK
    <2>3. l = "stats" => Name(w) \in allowed[w]
      BY Zenon, <1>2, <1>5, <1>8, <2>1 DEF Passes, Inv, WorkerInv, CloneInv
    <2>4. Restriction # "none" => link[w] = "up"
      BY Zenon, <1>1, <1>8 DEF Passes, Replies
    <2>5. RequestInv(w)' /\ AnnounceInv(w)' /\ AnswerInv(w)'
      BY Zenon, <1>2, <2>2 DEF Inv, WorkerInv, RequestInv, AnnounceInv, AnswerInv
    <2>6. ScrapeInv(w)'
      <3>1. ScrapeInv(w)
        BY Zenon DEF Inv, WorkerInv
      <3> QED
        BY Zenon, <1>2, <1>4, <1>5, <2>2, <2>3, <2>4, <3>1, StatsInv
    <2>7. \A v \in Workers \ {w} : link'[v] = link[v]
      BY <1>1 DEF Linked, TypeOK
    <2> QED
      BY Zenon, <1>2, <1>8, <2>2, <2>5, <2>6, <2>7, MoveInv DEF Labels
  <1> QED
    BY <1>1, <1>7, <1>8

\* The statistics of the next torrent keep the invariant.
LEMMA StatsStep ==
    ASSUME TypeOK, Inv, NEW w \in Workers, Stats(w)
    PROVE  Inv'
  <1> USE DEF Scraping
  <1>1. PICK reply \in Replies(w, "KEYS") :
           /\ entries' = [entries EXCEPT ![w] =
                <<[name |-> Name(w), filled |-> reply = "ok",
                   checked |-> pc[w] = "stats", permitted |-> Name(w) \in allowed[w]]>> \o @]
           /\ Linked(w, reply)
    BY Zenon DEF Stats
  <1>2. PICK list \in Seq(Entries) : list = entries[w]
    BY DEF TypeOK
  <1>3. PICK n \in Nat : n = Len(list)
    BY <1>2
  <1>4. /\ pc[w] \in {"stats", "statsUnchecked"} /\ Goto(w, "look")
        /\ allowed' = [allowed EXCEPT ![w] = {m \in Names : Permits(listed, m)}]
        /\ UNCHANGED <<dgram, clone, listed, request, body, out, stored, missed>>
    BY ZenonT(30) DEF Stats, redis
  <1>5. /\ dgram[w].len >= 16 /\ n < HashCount(w)
        /\ body[w] = [k \in 1..HashCount(w) |-> clone[w][Block(k)]]
        /\ \A j \in 1..n : list[j].name = Hex(clone[w][Block(n + 1 - j)])
        /\ \A j \in 1..n : list[j].checked => list[j].permitted
        /\ pc[w] = "stats" => Hex(clone[w][Block(n + 1)]) \in allowed[w]
        /\ Restriction # "none" => \A j \in 1..n : list[j].filled
    <2>1. WorkerInv(w)
      BY Zenon DEF Inv
    <2> QED
      BY <1>2, <1>3, <1>4, <2>1 DEF WorkerInv, ScrapeInv
  <1>6. HashCount(w)' = HashCount(w) /\ HashCount(w) \in Nat
    <2>1. HashCount(w)' = HashCount(w)
      BY Zenon, <1>4 DEF HashCount
    <2>2. pc[w] # "idle"
      BY Zenon, <1>4
    <2> QED
      BY Zenon, <1>5, <2>1, <2>2, HashCountBound
  <1>7. Name(w) = Hex(clone[w][Block(n + 1)])
    BY <1>2, <1>3, <1>4, <1>5, NameOwn
  <1>8. PICK e : e = [name |-> Hex(clone[w][Block(n + 1)]), filled |-> reply = "ok", checked |-> pc[w] = "stats",
                      permitted |-> Hex(clone[w][Block(n + 1)]) \in allowed[w]]
    BY Zenon
  <1>9. entries'[w] = <<e>> \o list
    BY <1>1, <1>2, <1>7, <1>8 DEF TypeOK
  <1>10. /\ Len(entries'[w]) = n + 1 /\ entries'[w][1] = e
         /\ \A j \in 2..(n + 1) : entries'[w][j] = list[j - 1]
    BY <1>3, <1>9
  <1>11. pc'[w] = "look"
    BY <1>4 DEF TypeOK
  <1>12. link'[w] = "up" => e.filled
    BY Zenon, <1>1, <1>8, SessionAssumption DEF Linked, Replies, TypeOK
  <1>13. \A j \in 1..(n + 1) :
            /\ entries'[w][j].name = Hex(clone[w][Block(n + 2 - j)])
            /\ entries'[w][j].checked => entries'[w][j].permitted
    <2>1. /\ entries'[w][1].name = Hex(clone[w][Block(n + 2 - 1)])
          /\ entries'[w][1].checked => entries'[w][1].permitted
      <3>1. n + 2 - 1 = n + 1
        OBVIOUS
      <3>2. /\ e.name = Hex(clone[w][Block(n + 1)]) /\ e.checked = (pc[w] = "stats")
            /\ e.permitted = (Hex(clone[w][Block(n + 1)]) \in allowed[w])
        BY <1>8
      <3> QED
        BY Zenon, <1>5, <1>10, <3>1, <3>2
    <2>2. ASSUME NEW j \in 2..(n + 1)
          PROVE  /\ entries'[w][j].name = Hex(clone[w][Block(n + 2 - j)])
                 /\ entries'[w][j].checked => entries'[w][j].permitted
      <3>1. j - 1 \in 1..n /\ n + 1 - (j - 1) = n + 2 - j
        OBVIOUS
      <3> QED
        BY Zenon, <1>5, <1>10, <3>1
    <2> QED
      BY <2>1, <2>2
  <1>14. /\ \A j \in 1..Len(entries'[w]) : entries'[w][j].name = Hex(clone[w][Block(Len(entries'[w]) + 1 - j)])
         /\ Len(entries'[w]) <= HashCount(w)
    <2>1. \A j \in 1..(n + 1) : (n + 1) + 1 - j = n + 2 - j
      OBVIOUS
    <2>2. n + 1 <= HashCount(w)
      BY <1>5, <1>6
    <2> QED
      BY Zenon, <1>10, <1>13, <2>1, <2>2
  <1>15. Restriction # "none" => \A j \in 2..(n + 1) : entries'[w][j].filled
    <2>1. \A j \in 2..(n + 1) : j - 1 \in 1..n
      OBVIOUS
    <2> QED
      BY Zenon, <1>5, <1>10, <2>1
  <1>16. RequestInv(w)' /\ AnnounceInv(w)' /\ AnswerInv(w)'
    BY ZenonT(30), <1>4, <1>11 DEF Inv, WorkerInv, RequestInv, AnnounceInv, AnswerInv
  <1>17. ScrapeInv(w)'
    BY Zenon, <1>4, <1>5, <1>6, <1>10, <1>11, <1>12, <1>13, <1>14, <1>15 DEF ScrapeInv
  <1>18. CloneInv(w)'
    <2>1. allowed'[w] = {m \in Names : Permits(listed, m)}
      BY <1>4 DEF TypeOK
    <2>2. CloneInv(w) /\ pc[w] # "idle"
      BY Zenon, <1>4 DEF Inv, WorkerInv
    <2> QED
      BY Zenon, <1>4, <2>1, <2>2 DEF CloneInv, Permits
  <1>19. ASSUME NEW v \in Workers, v # w
         PROVE  WorkerInv(v)'
    <2>1. Untouched(v)
      BY <1>1, <1>4, <1>19 DEF Linked, TypeOK, Untouched
    <2> QED
      BY Zenon, <1>4, <2>1, Others
  <1> QED
    BY Zenon, <1>16, <1>17, <1>18, <1>19 DEF Inv, WorkerInv

\* The answer given to bt_serialize_scrape_response keeps the invariant.
LEMMA ScrapedStep ==
    ASSUME TypeOK, Inv, NEW w \in Workers, Scraped(w)
    PROVE  Inv'
  <1> USE DEF Scraping
  <1>1. PICK list \in Seq(Entries) : list = entries[w]
    BY DEF TypeOK
  <1>2. PICK n \in Nat : n = Len(list)
    BY <1>1
  <1>3. /\ pc[w] = "look" /\ Len(list) = Len(body[w])
        /\ Respond(w, ScrapeAnswer(request[w], Ordered(list)))
        /\ UNCHANGED <<dgram, clone, link, listed, request, body, entries, stored, missed, allowed>>
    BY Zenon, <1>1 DEF Scraped, redis, history
  <1>4. /\ dgram[w].len >= 16
        /\ body[w] = [k \in 1..HashCount(w) |-> clone[w][Block(k)]]
        /\ \A j \in 1..n : list[j].name = Hex(clone[w][Block(n + 1 - j)])
        /\ \A j \in 1..n : list[j].checked => list[j].permitted
        /\ Restriction # "none" => \A j \in 2..n : list[j].filled
    BY Zenon, <1>1, <1>2, <1>3 DEF Inv, WorkerInv, ScrapeInv
  <1>5. HashCount(w)' = HashCount(w) /\ HashCount(w) \in Nat /\ HashCount(w) = n
    <2>1. HashCount(w)' = HashCount(w)
      BY Zenon, <1>3 DEF HashCount
    <2>2. HashCount(w) \in Nat
      BY Zenon, <1>3, <1>4, HashCountBound
    <2>3. Len(body[w]) = HashCount(w)
      BY <1>4, <2>2
    <2> QED
      BY Zenon, <1>2, <1>3, <2>1, <2>2, <2>3
  <1>6. PICK answer \in Seq(Entries) : answer = Ordered(list)
    <2>1. Ordered(list) \in Seq(Entries)
      OBVIOUS
    <2> QED
      BY Zenon, <2>1
  <1>7. Len(answer) = n /\ \A k \in 1..n : n - k + 1 \in 1..n /\ answer[k] = list[n - k + 1]
    BY <1>2, <1>6
  <1>8. ASSUME NEW k \in 1..n
        PROVE  /\ answer[k].name = Hex(clone[w][Block(k)])
               /\ answer[k].checked => answer[k].permitted
    <2>1. PICK i \in 1..n : i = n - k + 1 /\ answer[k] = list[i]
      BY <1>7
    <2>2. n + 1 - i = k
      BY <2>1
    <2>3. list[i].name = Hex(clone[w][Block(k)])
      BY <1>4, <2>2
    <2>4. list[i].checked => list[i].permitted
      BY <1>4
    <2> QED
      BY <2>1, <2>3, <2>4
  <1>9. Restriction # "none" => \A k \in 1..(n - 1) : answer[k].filled
    <2>1. \A k \in 1..(n - 1) : n - k + 1 \in 2..n /\ k \in 1..n
      OBVIOUS
    <2> QED
      BY ZenonT(30), <1>4, <1>7, <2>1
  <1>10. /\ pc'[w] = "send" /\ out'[w].tid = Swap(request[w][TidField])
         /\ out'[w].action = Swap(request[w][ActionField]) /\ out'[w].entries = answer
    BY Zenon, <1>3, <1>6 DEF TypeOK
  <1>11. out'[w].action # Swap(CONNECT)
    <2>1. request[w][ActionField] = SCRAPE
      BY Zenon, <1>3 DEF Inv, WorkerInv, RequestInv
    <2> QED
      BY <1>10, <2>1 DEF Swap, SCRAPE, CONNECT
  <1>12. RequestInv(w)' /\ AnnounceInv(w)' /\ ScrapeInv(w)'
    BY ZenonT(30), <1>3, <1>10 DEF Inv, WorkerInv, RequestInv, AnnounceInv, ScrapeInv
  <1>13. AnswerInv(w)'
    <2>1. WellFormed(request[w], dgram[w].len)'
      BY Zenon, <1>3 DEF Inv, WorkerInv, RequestInv, WellFormed
    <2> QED
      BY ZenonT(30), <1>3, <1>4, <1>5, <1>7, <1>8, <1>9, <1>10, <1>11, <2>1 DEF AnswerInv
  <1>14. \A v \in Workers \ {w} : out'[v] = out[v]
    BY <1>3 DEF TypeOK
  <1> QED
    BY Zenon, <1>3, <1>12, <1>13, <1>14, MoveInv DEF Labels

============================================================================
