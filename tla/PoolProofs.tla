----------------------------- MODULE PoolProofs -----------------------------
(* What module Pool keeps for every number of workers, clients and contexts, *)
(* every mix of actions and every number of datagrams.                       *)
EXTENDS Pool, TLAPS

USE DEF Latest, Rest, Failing, Freed, Replaced, Released, Idle

-----------------------------------------------------------------------------
\* Type correctness.

\* Before the first datagram there is nothing to take the address of.
FromInv ==
    /\ main \in {"copy", "push", "locked"} => from # <<>>
    /\ \A i \in DOMAIN queue : queue[i].id # 0
    /\ \A w \in Workers : Busy(w) => job[w].id # 0

\* Every variable of the model keeps its type, and exactly the busy workers
\* have a job.
THEOREM TypeCorrect == Spec => []TypeOK
<1>1. Init => TypeOK /\ FromInv
  BY DEF Init, TypeOK, FromInv, Busy
<1>2. TypeOK /\ FromInv /\ [Next]_vars => (TypeOK /\ FromInv)'
  <2> SUFFICES ASSUME TypeOK, FromInv, [Next]_vars PROVE (TypeOK /\ FromInv)'
    OBVIOUS
  <2> USE DEF mainVars, workVars, history
  <2>1. CASE CreatePool \/ OpenSocket
    BY <2>1 DEF CreatePool, OpenSocket, TypeOK, FromInv, Busy
  <2>2. ASSUME NEW c \in Clients, Receive(c) PROVE (TypeOK /\ FromInv)'
    BY <2>2 DEF Receive, TypeOK, FromInv, Busy
  <2>3. CASE Received
    <3>1. from[Len(from)] \in Clients
      BY <2>3 DEF Received, TypeOK, FromInv
    <3> QED BY <2>3, <3>1 DEF Received, TypeOK, FromInv, Busy
  <2>4. CASE LockQueue
    BY <2>4 DEF LockQueue, TypeOK, FromInv, Busy
  <2>5. CASE Push
    <3>1. PICK a \in Actions : queue' = Append(queue, [id |-> Len(from), action |-> a])
      BY <2>5 DEF Push
    <3>2. [id |-> Len(from), action |-> a] \in Jobs /\ Len(from) # 0
      BY <2>5, PoolAssumption DEF Push, TypeOK, FromInv, Jobs
    <3>3. queue' \in Seq(Jobs) /\ \A i \in DOMAIN queue' : queue'[i].id # 0
      BY <3>1, <3>2 DEF TypeOK, FromInv
    <3> QED BY <2>5, <3>3 DEF Push, TypeOK, FromInv, Busy
  <2>6. ASSUME NEW w \in Workers, Take(w) PROVE (TypeOK /\ FromInv)'
    <3>1. /\ Head(queue) \in Jobs /\ Head(queue).id # 0 /\ Tail(queue) \in Seq(Jobs)
          /\ \A i \in DOMAIN Tail(queue) : Tail(queue)[i].id # 0
      BY <2>6 DEF Take, TypeOK, FromInv
    <3>2. Head(queue) # NoJob
      BY <3>1, PoolAssumption DEF Jobs
    <3> QED BY <2>6, <3>1, <3>2 DEF Take, TypeOK, FromInv, Busy
  <2>7. ASSUME NEW w \in Workers, Ping(w) \/ Replace(w) PROVE (TypeOK /\ FromInv)'
    <3>1. CASE Ping(w)
      BY <3>1 DEF Ping, WorkUnchanged, TypeOK, FromInv, Busy
    <3>2. CASE Replace(w)
      BY <3>2 DEF Replace, WorkUnchanged, TypeOK, FromInv, Busy
    <3> QED BY <2>7, <3>1, <3>2
  <2>8. ASSUME NEW w \in Workers, Connect(w) PROVE (TypeOK /\ FromInv)'
    <3>1. live' \subseteq Contexts /\ redis' \in [Workers -> Contexts \cup {NoContext}]
          /\ failed' \in [Workers -> BOOLEAN]
      BY Zenon, <2>8 DEF Connect, TypeOK
    <3>2. /\ wpc[w] = "connect" /\ wpc' = [wpc EXCEPT ![w] = "replace"]
          /\ UNCHANGED <<job, tls, history>> /\ WorkUnchanged
      BY <2>8 DEF Connect
    <3> QED BY <3>1, <3>2 DEF WorkUnchanged, TypeOK, FromInv, Busy
  <2>9. ASSUME NEW w \in Workers, Busy(w) PROVE Reads(w) \subseteq Reading
    <3>1. main = "copy" => from[Len(from)] \in Clients
      BY DEF TypeOK, FromInv
    <3>2. SenderRead \subseteq Clients \cup {Torn}
      BY <3>1 DEF SenderRead, TypeOK
    <3>3. job[w].id \in Nat \ {0} /\ Len(from) \in Nat
      BY <2>9 DEF TypeOK, FromInv, Jobs
    <3> QED BY <3>2, <3>3 DEF Reads, Reading
  <2>10. ASSUME NEW w \in Workers, EndJob(w), WorkUnchanged, sent' \subseteq Reading, stored' \subseteq Reading
         PROVE  (TypeOK /\ FromInv)'
    BY <2>10 DEF EndJob, WorkUnchanged, TypeOK, FromInv, Busy
  <2>11. ASSUME NEW w \in Workers, wpc[w] = "handle", ToSend(w), WorkUnchanged,
                sent' \subseteq Reading, stored' \subseteq Reading
         PROVE  (TypeOK /\ FromInv)'
    BY <2>11 DEF ToSend, WorkUnchanged, TypeOK, FromInv, Busy
  <2>12. ASSUME NEW w \in Workers, Handle(w) PROVE (TypeOK /\ FromInv)'
    <3>1. sent' \subseteq Reading /\ stored' \subseteq Reading
      <4>1. Reads(w) \subseteq Reading
        BY <2>9, <2>12 DEF Handle, Busy
      <4> QED BY <2>12, <4>1 DEF Handle, TypeOK
    <3>2. wpc[w] = "handle" /\ WorkUnchanged /\ (ToSend(w) \/ EndJob(w))
      BY <2>12 DEF Handle
    <3> QED BY <2>10, <2>11, <3>1, <3>2
  <2>13. ASSUME NEW w \in Workers, Send(w) PROVE (TypeOK /\ FromInv)'
    <3>1. sent' \subseteq Reading /\ stored' \subseteq Reading
      <4>1. Reads(w) \subseteq Reading
        BY <2>9, <2>13 DEF Send, Busy
      <4> QED BY <2>13, <4>1 DEF Send, TypeOK
    <3> QED BY <2>10, <2>13, <3>1 DEF Send
  <2>14. ASSUME NEW w \in Workers, HandlerDies(w) PROVE (TypeOK /\ FromInv)'
    BY <2>14 DEF HandlerDies, TypeOK, FromInv, Busy
  <2>15. CASE Signal \/ SignalAgain \/ Shutdown
    BY ZenonT(30), <2>15 DEF Signal, SignalAgain, Shutdown, FreePool, FreePoolDone, CloseSocket, Raise,
       HandlerUnchanged, TypeOK, FromInv, Busy
  <2>16. CASE UNCHANGED vars
    BY SMTT(30), <2>16 DEF vars, TypeOK, FromInv, Busy
  <2> QED BY <2>1, <2>2, <2>3, <2>4, <2>5, <2>6, <2>7, <2>8, <2>12, <2>13, <2>14, <2>15, <2>16
          DEF Next, Main, Work
<1> QED BY <1>1, <1>2, PTL DEF Spec

-----------------------------------------------------------------------------
\* The socket outlives the jobs.

\* Inductive: on_sigterm is past g_thread_pool_free only when no worker is busy
\* and the pool starts no more jobs; jobs exist only after main opened the socket.
SocketInv ==
    /\ SocketOpenForWorkers
    /\ main = "boot" => queue = <<>>
    /\ main # "boot" => sock # "none"
    /\ sock = "open" => pool # "none"
    /\ sock = "closed" => handler = "raise"
    /\ handler \in {"close", "raise"} => pool # "running" /\ \A w \in Workers : ~Busy(w)

\* In every behaviour, while a worker has a job the socket is open.
THEOREM SocketOpenForWorkersHolds == Spec => []SocketOpenForWorkers
<1>1. Init => SocketInv
  BY DEF Init, SocketInv, SocketOpenForWorkers, Busy
<1>2. TypeOK /\ SocketInv /\ [Next]_vars => SocketInv'
  <2> SUFFICES ASSUME TypeOK, SocketInv, [Next]_vars PROVE SocketInv'
    OBVIOUS
  <2> USE DEF mainVars, workVars, history, SocketInv, SocketOpenForWorkers, Busy, TypeOK
  <2>1. CASE Main \/ \E c \in Clients : Receive(c)
    <3>1. UNCHANGED <<handler, wpc>> /\ handler = "off"
      BY <2>1 DEF Main, CreatePool, OpenSocket, Received, LockQueue, Push, Receive, MainRuns
    <3>2. CASE CreatePool \/ OpenSocket
      BY <3>1, <3>2 DEF CreatePool, OpenSocket
    <3>3. CASE Received \/ LockQueue \/ Push \/ \E c \in Clients : Receive(c)
      <4>1. UNCHANGED <<sock, pool>> /\ main # "boot" /\ main' # "boot"
        BY <3>3 DEF Received, LockQueue, Push, Receive
      <4> QED BY <3>1, <4>1
    <3> QED BY <2>1, <3>2, <3>3 DEF Main
  <2>2. ASSUME NEW w \in Workers, Take(w) PROVE SocketInv'
    BY <2>2 DEF Take
  <2>3. ASSUME NEW w \in Workers, Work(w) PROVE SocketInv'
    <3>1. wpc[w] # "idle" /\ UNCHANGED <<main, handler, sock, pool, queue>>
      BY <2>3 DEF Work, Ping, Connect, Replace, Handle, HandlerDies, Send, WorkUnchanged
    <3>2. \A v \in Workers : v # w => wpc'[v] = wpc[v]
      BY <2>3 DEF Work, Ping, Connect, Replace, Handle, HandlerDies, Send, ToSend, EndJob
    <3> QED BY <3>1, <3>2
  <2>4. CASE Signal \/ SignalAgain \/ Shutdown
    <3>1. CASE Signal \/ SignalAgain \/ Raise
      BY <3>1 DEF Signal, SignalAgain, Raise, HandlerUnchanged, MainRuns
    <3>2. CASE FreePool
      BY <3>2 DEF FreePool, HandlerUnchanged
    <3>3. CASE FreePoolDone
      BY <3>3 DEF FreePoolDone, HandlerUnchanged
    <3>4. CASE CloseSocket
      BY <3>4 DEF CloseSocket, HandlerUnchanged
    <3> QED BY <2>4, <3>1, <3>2, <3>3, <3>4 DEF Shutdown
  <2>5. CASE UNCHANGED vars
    BY <2>5 DEF vars
  <2> QED BY <2>1, <2>2, <2>3, <2>4, <2>5 DEF Next
<1>3. SocketInv => SocketOpenForWorkers
  BY DEF SocketInv
<1> QED BY <1>1, <1>2, <1>3, TypeCorrect, PTL DEF Spec

-----------------------------------------------------------------------------
\* Redis contexts.

\* Inductive: what each worker knows about its local variable redis at each
\* point of bt_request_processor, besides the ownership itself.
ContextInv ==
    /\ ContextOwnership
    /\ HandlersHaveContext
    /\ \A w \in Workers :
         /\ wpc[w] \in {"idle", "ping", "connect"} => ~failed[w]
         /\ wpc[w] = "ping" => redis[w] = tls[w] /\ redis[w] # NoContext
         /\ wpc[w] = "replace" => IF failed[w] THEN redis[w] = NoContext
                                 ELSE redis[w] # NoContext /\ redis[w] # tls[w]

\* The ownership, worker by worker.
Exclusive ==
    /\ \A w \in Workers : Owned(w) \subseteq live
    /\ \A c \in live : \E w \in Workers : c \in Owned(w)
    /\ \A v, w \in Workers : v # w => Owned(v) \cap Owned(w) = {}

\* The form of ContextOwnership that the steps of bt_request_processor preserve.
LEMMA OwnershipIsExclusive == ContextOwnership <=> Exclusive
BY DEF ContextOwnership, Exclusive

\* The same of the next state.
LEMMA OwnershipIsExclusiveNext == ContextOwnership' <=> Exclusive'
BY DEF ContextOwnership, Exclusive

\* bt_request_processor keeps the ownership and what the workers know of it.
LEMMA ContextInvHolds == Spec => []ContextInv
<1>1. Init => ContextInv
  BY DEF Init, ContextInv, ContextOwnership, HandlersHaveContext, Owned
<1>2. TypeOK /\ ContextInv /\ [Next]_vars => ContextInv'
  <2> SUFFICES ASSUME TypeOK, ContextInv, [Next]_vars PROVE ContextInv'
    OBVIOUS
  <2> USE DEF workVars
  <2>0. /\ wpc \in [Workers -> {"idle", "ping", "connect", "replace", "handle", "send"}]
        /\ redis \in [Workers -> Contexts \cup {NoContext}]
        /\ tls \in [Workers -> Contexts \cup {NoContext}]
        /\ failed \in [Workers -> BOOLEAN]
        /\ live \subseteq Contexts
    BY DEF TypeOK
  <2>1. Exclusive
    BY OwnershipIsExclusive DEF ContextInv
  <2>2. ASSUME NEW w \in Workers, Take(w) PROVE ContextInv'
    <3>1. \A v \in Workers : Owned(v)' = Owned(v)
      BY <2>0, <2>2 DEF Take, Owned, Busy
    <3>2. Exclusive'
      BY <2>1, <2>2, <3>1 DEF Take, Exclusive
    <3>3. /\ wpc[w] = "idle" /\ UNCHANGED <<failed, tls, live>>
          /\ redis' = [redis EXCEPT ![w] = tls[w]]
          /\ wpc' = [wpc EXCEPT ![w] = IF tls[w] = NoContext THEN "connect" ELSE "ping"]
      BY <2>2 DEF Take, Busy
    <3>4. HandlersHaveContext'
      BY <2>0, <3>3 DEF ContextInv, HandlersHaveContext
    <3> QED BY <2>0, <3>2, <3>3, <3>4, OwnershipIsExclusiveNext DEF ContextInv
  <2>3. ASSUME NEW w \in Workers, Ping(w) PROVE ContextInv'
    <3>1. \A v \in Workers : Owned(v)' = Owned(v)
      BY <2>0, <2>3 DEF Ping, Owned
    <3>2. Exclusive'
      BY <2>1, <2>3, <3>1 DEF Ping, Exclusive
    <3>3. wpc[w] = "ping" => redis[w] \in live
      BY <2>0, <2>1 DEF Exclusive, Owned, ContextInv
    <3> QED BY <2>0, <2>3, <3>2, <3>3, OwnershipIsExclusiveNext DEF ContextInv, HandlersHaveContext, Ping
  <2>4. ASSUME NEW w \in Workers, Connect(w) PROVE ContextInv'
    <3>0. wpc[w] = "connect" /\ wpc' = [wpc EXCEPT ![w] = "replace"] /\ tls' = tls
      BY <2>4 DEF Connect
    <3>1. CASE \E c \in Contexts \ live :
                  live' = live \cup {c} /\ redis' = [redis EXCEPT ![w] = c] /\ failed' = failed
      <4>1. PICK c \in Contexts \ live :
               live' = live \cup {c} /\ redis' = [redis EXCEPT ![w] = c] /\ failed' = failed
        BY Zenon, <3>1
      <4>2. c # NoContext
        BY <4>1, PoolAssumption
      <4>3. Owned(w)' = Owned(w) \cup {c} /\ \A v \in Workers : v # w => Owned(v)' = Owned(v)
        BY <2>0, <3>0, <4>1, <4>2 DEF Owned
      <4>4. Exclusive'
        BY <2>1, <4>1, <4>3 DEF Exclusive
      <4>5. c # tls[w]
        BY <2>0, <2>1, <3>0, <4>1, <4>2 DEF Exclusive, Owned
      <4>6. HandlersHaveContext'
        BY <2>0, <3>0, <4>1 DEF ContextInv, HandlersHaveContext
      <4>7. ~failed[w]
        BY <3>0 DEF ContextInv
      <4>8. ASSUME NEW v \in Workers
            PROVE  /\ wpc'[v] \in {"idle", "ping", "connect"} => ~failed'[v]
                   /\ wpc'[v] = "ping" => redis'[v] = tls'[v] /\ redis'[v] # NoContext
                   /\ wpc'[v] = "replace" => IF failed'[v] THEN redis'[v] = NoContext
                                            ELSE redis'[v] # NoContext /\ redis'[v] # tls'[v]
        BY <2>0, <3>0, <4>1, <4>2, <4>5, <4>7, <4>8 DEF ContextInv
      <4> QED BY <4>4, <4>6, <4>8, OwnershipIsExclusiveNext DEF ContextInv
    <3>2. CASE /\ redis' = [redis EXCEPT ![w] = NoContext]
               /\ failed' = [failed EXCEPT ![w] = TRUE] /\ live' = live
      <4>1. \A v \in Workers : Owned(v)' = Owned(v)
        BY <2>0, <3>0, <3>2 DEF Owned
      <4>2. Exclusive'
        BY <2>1, <3>2, <4>1 DEF Exclusive
      <4> QED BY <2>0, <3>0, <3>2, <4>2, OwnershipIsExclusiveNext DEF ContextInv, HandlersHaveContext
    <3> QED BY <2>4, <3>1, <3>2 DEF Connect
  <2>5. ASSUME NEW w \in Workers, Replace(w) PROVE ContextInv'
    <3>0. /\ wpc[w] = "replace" /\ wpc' = [wpc EXCEPT ![w] = "handle"]
          /\ live' = live \ {tls[w]} /\ tls' = [tls EXCEPT ![w] = redis[w]]
          /\ UNCHANGED <<failed, redis>>
      BY <2>5 DEF Replace
    <3>1. tls[w] # NoContext => tls[w] # redis[w] /\ tls[w] \in Owned(w)
      BY <3>0 DEF ContextInv, Owned
    <3>2. Owned(w)' = Owned(w) \ {tls[w]} /\ \A v \in Workers : v # w => Owned(v)' = Owned(v)
      BY <2>0, <3>0, <3>1 DEF Owned
    <3>3. Exclusive'
      <4>1. \A v \in Workers : v # w => tls[w] \notin Owned(v)
        BY <2>1, <3>1 DEF Exclusive, Owned
      <4> QED BY <2>1, <3>0, <3>2, <4>1 DEF Exclusive
    <3>4. failed[w] \/ redis[w] \in live'
      BY <2>0, <2>1, <3>0 DEF ContextInv, Exclusive, Owned
    <3>5. \A v \in Workers : v # w /\ wpc[v] = "handle" /\ ~failed[v] => redis[v] \in live'
      <4>1. ASSUME NEW v \in Workers, v # w, wpc[v] = "handle", ~failed[v] PROVE redis[v] \in live'
        <5>1. redis[v] = tls[v] /\ redis[v] \in live /\ redis[v] # NoContext
          BY <2>0, <4>1, PoolAssumption DEF ContextInv, HandlersHaveContext
        <5>2. redis[v] \in Owned(v)
          BY <5>1 DEF Owned
        <5>3. redis[v] # tls[w]
          BY <2>1, <3>1, <4>1, <5>1, <5>2 DEF Exclusive
        <5> QED BY <3>0, <5>1, <5>3
      <4> QED BY <4>1
    <3>6. HandlersHaveContext'
      BY <2>0, <3>0, <3>4, <3>5 DEF ContextInv, HandlersHaveContext
    <3> QED BY <2>0, <3>0, <3>3, <3>6, OwnershipIsExclusiveNext DEF ContextInv
  <2>6. ASSUME NEW w \in Workers, Handle(w) \/ Send(w) PROVE ContextInv'
    <3>0. /\ wpc[w] \in {"handle", "send"} /\ \E l \in {"idle", "send"} : wpc' = [wpc EXCEPT ![w] = l]
          /\ UNCHANGED <<tls, live>>
          /\ \A v \in Workers : v # w => redis'[v] = redis[v] /\ failed'[v] = failed[v]
          /\ wpc'[w] = "idle" => ~failed'[w]
      BY <2>0, <2>6 DEF Handle, Send, ToSend, EndJob
    <3>1. \A v \in Workers : Owned(v)' = Owned(v)
      BY <2>0, <3>0 DEF Owned
    <3>2. Exclusive'
      BY <2>1, <3>0, <3>1 DEF Exclusive
    <3> QED BY <2>0, <3>0, <3>2, OwnershipIsExclusiveNext DEF ContextInv, HandlersHaveContext
  <2>7. ASSUME UNCHANGED workVars PROVE ContextInv'
    BY SMTT(30), <2>7 DEF ContextInv, ContextOwnership, HandlersHaveContext, Owned
  <2> QED
    BY Zenon, <2>2, <2>3, <2>4, <2>5, <2>6, <2>7
    DEF Next, Main, Work, Shutdown, CreatePool, OpenSocket, Receive, Received, LockQueue, Push,
        HandlerDies, Signal, SignalAgain, FreePool, FreePoolDone, CloseSocket, Raise, HandlerUnchanged, vars
<1> QED BY <1>1, <1>2, TypeCorrect, PTL DEF Spec

\* In every behaviour, every open context has exactly one owner, and nobody
\* holds a freed one.
THEOREM ContextOwnershipHolds == Spec => []ContextOwnership
<1>1. ContextInv => ContextOwnership
  BY DEF ContextInv
<1> QED BY <1>1, ContextInvHolds, PTL

\* In every behaviour, a handler gets the open context of its thread, or the
\* request is answered with an error.
THEOREM HandlersHaveContextHolds == Spec => []HandlersHaveContext
<1>1. ContextInv => HandlersHaveContext
  BY DEF ContextInv
<1> QED BY <1>1, ContextInvHolds, PTL

-----------------------------------------------------------------------------
\* Where answers go.

\* Inductive: si_other holds the last datagram's sender, or the one before it
\* while recvfrom overwrites it, and no job belongs to a later datagram.
Known(id) ==
    /\ id \in 1..Len(from)
    /\ main \in {"copy", "push", "locked"} => id < Len(from)

SenderInv ==
    /\ main = "copy" => from # <<>> /\ (Len(from) > 1 => siOther = from[Len(from) - 1])
    /\ main # "copy" /\ from # <<>> => siOther = from[Len(from)]
    /\ main \in {"push", "locked"} => from # <<>>
    /\ \A i \in DOMAIN queue : Known(queue[i].id)
    /\ \A w \in Workers : Busy(w) => Known(job[w].id)

\* An address that was read for a datagram strays forward at most.
Forward(r) ==
    /\ r.id \in 1..r.seen /\ r.seen \in 1..Len(from)
    /\ \/ r.to = Torn /\ r.id < r.seen
       \/ \E k \in r.id..r.seen : r.to = from[k]

ReadInv == \A r \in sent \cup stored : Forward(r)

\* A datagram or a job that is appended leaves the earlier ones in their places.
LEMMA AppendFacts ==
    ASSUME NEW S, NEW s \in Seq(S), NEW e \in S
    PROVE  /\ Append(s, e) # <<>>
           /\ Len(Append(s, e)) = Len(s) + 1
           /\ \A k \in 1..Len(s) : Append(s, e)[k] = s[k]
           /\ Append(s, e)[Len(s) + 1] = e
OBVIOUS

\* The job taken is the oldest; the others keep their order.
LEMMA TailFacts ==
    ASSUME NEW S, NEW s \in Seq(S), s # <<>>
    PROVE  /\ Head(s) = s[1] /\ 1 \in DOMAIN s
           /\ \A i \in DOMAIN Tail(s) : i + 1 \in DOMAIN s /\ Tail(s)[i] = s[i + 1]
OBVIOUS

\* A read of si_other during a job gives such an address.
LEMMA ReadsForward ==
    ASSUME TypeOK, SenderInv, NEW w \in Workers, Busy(w), NEW r \in Reads(w)
    PROVE  Forward(r)
<1>1. Known(job[w].id)
  BY DEF SenderInv
<1>2. r.id = job[w].id /\ r.seen = Len(from) /\ r.to \in SenderRead
  BY DEF Reads
<1>3. Len(from) \in Nat /\ Len(from) >= 1
  BY <1>1 DEF Known, TypeOK
<1>4. CASE main = "copy"
  <2>1. r.id < r.seen /\ r.id \in 1..r.seen /\ Len(from) > 1
    BY <1>1, <1>2, <1>3, <1>4 DEF Known
  <2>2. r.to \in {from[Len(from) - 1], from[Len(from)], Torn}
    BY <1>2, <1>4, <2>1 DEF SenderInv, SenderRead
  <2>3. Len(from) - 1 \in r.id..r.seen /\ Len(from) \in r.id..r.seen
    BY <1>2, <1>3, <2>1
  <2> QED BY <1>2, <1>3, <2>1, <2>2, <2>3 DEF Forward
<1>5. CASE main # "copy"
  <2>1. r.to = from[Len(from)]
    BY <1>2, <1>3, <1>5 DEF SenderInv, SenderRead
  <2>2. Len(from) \in r.id..r.seen /\ r.id \in 1..r.seen
    BY <1>1, <1>2, <1>3 DEF Known
  <2> QED BY <1>2, <1>3, <2>1, <2>2 DEF Forward
<1> QED BY <1>4, <1>5

\* In every behaviour, answers and stored addresses go to the sender, or stray
\* to senders of later datagrams only.
THEOREM StraysOnlyForwardHolds == Spec => []StraysOnlyForward
<1>1. Init => SenderInv /\ ReadInv
  BY DEF Init, SenderInv, ReadInv, Busy
<1>2. TypeOK /\ SenderInv /\ ReadInv /\ [Next]_vars => (SenderInv /\ ReadInv)'
  <2> SUFFICES ASSUME TypeOK, SenderInv, ReadInv, [Next]_vars PROVE (SenderInv /\ ReadInv)'
    OBVIOUS
  <2> USE DEF mainVars, workVars, history
  <2>0. /\ from \in Seq(Clients) /\ queue \in Seq(Jobs) /\ job \in [Workers -> Jobs \cup {NoJob}]
        /\ wpc \in [Workers -> {"idle", "ping", "connect", "replace", "handle", "send"}]
        /\ Len(from) \in Nat
    <3>1. /\ from \in Seq(Clients) /\ queue \in Seq(Jobs) /\ job \in [Workers -> Jobs \cup {NoJob}]
          /\ wpc \in [Workers -> {"idle", "ping", "connect", "replace", "handle", "send"}]
      BY Zenon DEF TypeOK
    <3> QED BY <3>1
  <2>1. CASE CreatePool \/ OpenSocket
    BY <2>1 DEF CreatePool, OpenSocket, SenderInv, ReadInv, Known, Forward, Busy
  <2>2. ASSUME NEW c \in Clients, Receive(c) PROVE (SenderInv /\ ReadInv)'
    <3>0. /\ main = "recv" /\ main' = "copy" /\ from' = Append(from, c)
          /\ UNCHANGED <<siOther, queue, wpc, job, sent, stored>>
      BY <2>2 DEF Receive
    <3>1. Len(from') = Len(from) + 1 /\ \A k \in 1..Len(from) : from'[k] = from[k]
      BY <2>0, <3>0, AppendFacts
    <3>2. from' # <<>> /\ (Len(from') > 1 => siOther = from'[Len(from') - 1])
      <4>1. from' # <<>>
        BY <2>0, <3>0, AppendFacts
      <4>2. ASSUME Len(from') > 1 PROVE siOther = from'[Len(from') - 1]
        <5>1. Len(from) \in 1..Len(from) /\ from # <<>>
          BY <2>0, <3>1, <4>2
        <5>2. siOther = from[Len(from)]
          BY <3>0, <5>1 DEF SenderInv
        <5> QED BY <2>0, <3>1, <5>1, <5>2
      <4> QED BY <4>1, <4>2
    <3>3. \A id : Known(id) => Known(id)'
      BY <2>0, <3>0, <3>1 DEF Known
    <3>4. ASSUME NEW r, Forward(r) PROVE Forward(r)'
      BY <2>0, <3>1, <3>4 DEF Forward
    <3>5. SenderInv'
      BY <3>0, <3>2, <3>3 DEF SenderInv, Busy
    <3>6. ReadInv'
      BY ZenonT(30), <3>0, <3>4 DEF ReadInv
    <3> QED BY <3>5, <3>6
  <2>3. CASE Received
    BY ZenonT(30), <2>0, <2>3 DEF Received, SenderInv, ReadInv, Known, Forward, Busy
  <2>4. CASE LockQueue
    BY <2>4 DEF LockQueue, SenderInv, ReadInv, Known, Forward, Busy
  <2>5. CASE Push
    <3>0. /\ main = "locked" /\ main' = "recv" /\ from # <<>>
          /\ UNCHANGED <<from, siOther, wpc, job, sent, stored>>
      BY <2>5 DEF Push, SenderInv
    <3>1. PICK a \in Actions : queue' = Append(queue, [id |-> Len(from), action |-> a])
      BY <2>5 DEF Push
    <3>2. \A id : Known(id) \/ id = Len(from) => Known(id)'
      BY <2>0, <3>0 DEF Known
    <3>3. (\A i \in DOMAIN queue : Known(queue[i].id))'
      <4>1. ASSUME NEW i \in DOMAIN queue' PROVE Known(queue'[i].id) \/ queue'[i].id = Len(from)
        BY <2>0, <3>1, <4>1 DEF SenderInv
      <4> QED BY <3>2, <4>1
    <3>4. SenderInv'
      BY ZenonT(30), <3>0, <3>2, <3>3 DEF SenderInv, Busy
    <3> QED BY ZenonT(30), <3>0, <3>4 DEF ReadInv, Forward
  <2>6. ASSUME NEW w \in Workers, Take(w) PROVE (SenderInv /\ ReadInv)'
    <3>0. /\ queue # <<>> /\ job' = [job EXCEPT ![w] = Head(queue)] /\ queue' = Tail(queue)
          /\ \A v \in Workers : v # w => wpc'[v] = wpc[v]
          /\ UNCHANGED <<main, from, siOther, sent, stored>>
      BY <2>0, <2>6 DEF Take
    <3>1. \A id : Known(id) => Known(id)'
      BY <3>0 DEF Known
    <3>2. Known(Head(queue).id) /\ \A i \in DOMAIN Tail(queue) : Known(Tail(queue)[i].id)
      <4>1. Head(queue) = queue[1] /\ 1 \in DOMAIN queue
        BY <2>0, <3>0, TailFacts
      <4>2. \A i \in DOMAIN Tail(queue) : i + 1 \in DOMAIN queue /\ Tail(queue)[i] = queue[i + 1]
        BY <2>0, <3>0, TailFacts
      <4>3. \A i \in DOMAIN queue : Known(queue[i].id)
        BY DEF SenderInv
      <4> QED BY <4>1, <4>2, <4>3
    <3>3. SenderInv'
      <4>1. (\A i \in DOMAIN queue : Known(queue[i].id))'
        BY <3>0, <3>1, <3>2
      <4>2. ASSUME NEW v \in Workers, wpc'[v] # "idle" PROVE Known(job'[v].id)
        <5>1. CASE v = w
          BY <2>0, <3>0, <3>2, <5>1
        <5>2. CASE v # w
          BY <2>0, <3>0, <4>2, <5>2 DEF SenderInv, Busy
        <5> QED BY <5>1, <5>2
      <4>3. (\A v \in Workers : Busy(v) => Known(job[v].id))'
        BY ZenonT(30), <3>1, <4>2 DEF Busy
      <4> QED BY ZenonT(30), <3>0, <4>1, <4>3 DEF SenderInv
    <3> QED BY <3>0, <3>3 DEF ReadInv, Forward
  <2>7. ASSUME NEW w \in Workers, Work(w) PROVE (SenderInv /\ ReadInv)'
    <3>0. Busy(w) /\ UNCHANGED <<main, from, siOther, queue>>
      BY ZenonT(30), <2>7 DEF Work, Ping, Connect, Replace, Handle, HandlerDies, Send, WorkUnchanged, Busy
    <3>1. \A v \in Workers : wpc'[v] # "idle" => wpc[v] # "idle" /\ job'[v] = job[v]
      <4>1. CASE UNCHANGED <<job>>
        BY <2>0, <2>7, <3>0, <4>1 DEF Work, Ping, Connect, Replace, Handle, HandlerDies, Send, ToSend, EndJob, Busy
      <4>2. CASE EndJob(w)
        BY <2>0, <4>2 DEF EndJob
      <4> QED BY ZenonT(30), <2>7, <4>1, <4>2 DEF Work, Ping, Connect, Replace, Handle, HandlerDies, Send, ToSend
    <3>2. SenderInv'
      BY ZenonT(30), <3>0, <3>1 DEF SenderInv, Known, Busy
    <3>3. (sent \cup stored)' \subseteq sent \cup stored \cup Reads(w)
      BY ZenonT(30), <2>7 DEF Work, Ping, Connect, Replace, Handle, HandlerDies, Send
    <3>4. \A r : Forward(r) => Forward(r)'
      BY <3>0 DEF Forward
    <3>5. ReadInv'
      BY ZenonT(30), <3>0, <3>3, <3>4, ReadsForward DEF ReadInv
    <3> QED BY <3>2, <3>5
  <2>8. CASE UNCHANGED <<mainVars, queue, workVars, history>>
    BY <2>8 DEF SenderInv, ReadInv, Known, Forward, Busy
  <2> QED BY <2>1, <2>2, <2>3, <2>4, <2>5, <2>6, <2>7, <2>8
          DEF Next, Main, Shutdown, Signal, SignalAgain, FreePool, FreePoolDone, CloseSocket, Raise,
              HandlerUnchanged, vars
<1>3. ReadInv => StraysOnlyForward
  BY DEF ReadInv, Forward, StraysOnlyForward
<1> QED BY <1>1, <1>2, <1>3, TypeCorrect, PTL DEF Spec

-----------------------------------------------------------------------------
\* Each datagram once.

\* Datagrams that have left the queue.
Taken == Pushed - Len(queue)

\* Inductive: the queue holds the datagrams pushed last, in their order, so what
\* is taken is new; what was answered is with no worker any more.
OnceInv ==
    /\ main \in {"copy", "push", "locked"} => from # <<>>
    /\ Len(from) <= MaxDatagrams
    /\ Len(queue) <= Pushed
    /\ \A i \in DOMAIN queue : queue[i].id = Taken + i
    /\ \A w \in Workers : Busy(w) => job[w].id \in 1..Taken
    /\ \A v, w \in Workers : Busy(v) /\ Busy(w) /\ job[v].id = job[w].id => v = w
    /\ \A r \in sent : r.id \in 1..Taken /\ \A w \in Workers : Busy(w) => job[w].id # r.id
    /\ \A r, t \in sent : r.id = t.id => r = t

\* How many datagrams have been pushed, and how many taken, are numbers.
LEMMA CountsAreNat ==
    ASSUME TypeOK, OnceInv
    PROVE  /\ Len(from) \in Nat /\ Len(queue) \in Nat
           /\ Pushed \in Nat /\ Pushed <= Len(from)
           /\ Taken \in Nat /\ Taken <= Pushed /\ Taken + Len(queue) = Pushed
<1>1. Len(from) \in Nat /\ Len(queue) \in Nat
  BY DEF TypeOK
<1>2. main \in {"copy", "push", "locked"} => Len(from) # 0
  BY SMTT(30) DEF TypeOK, OnceInv
<1>3. Pushed \in Nat /\ Pushed <= Len(from)
  BY <1>1, <1>2 DEF Pushed
<1> QED BY <1>1, <1>3 DEF Taken, OnceInv

\* What main does before g_thread_pool_push moves no datagram.
LEMMA MainSteps ==
    ASSUME TypeOK, OnceInv,
           \/ CreatePool \/ OpenSocket \/ Received \/ LockQueue \/ \E c \in Clients : Receive(c)
           \/ Signal \/ SignalAgain \/ Shutdown \/ UNCHANGED vars
    PROVE  /\ UNCHANGED <<queue, wpc, job, sent>> /\ Pushed' = Pushed
           /\ main' \in {"copy", "push", "locked"} => from' # <<>>
           /\ Len(from') <= MaxDatagrams
<1> USE DEF mainVars, workVars, history
<1>0. Len(from) \in Nat /\ from \in Seq(Clients) /\ MaxDatagrams \in Nat
  BY PoolAssumption DEF TypeOK
<1>1. CASE CreatePool \/ OpenSocket \/ Received \/ LockQueue
  BY ZenonT(30), <1>1 DEF CreatePool, OpenSocket, Received, LockQueue, Pushed, OnceInv
<1>2. ASSUME NEW c \in Clients, Receive(c)
      PROVE  /\ UNCHANGED <<queue, wpc, job, sent>> /\ Pushed' = Pushed
             /\ main' \in {"copy", "push", "locked"} => from' # <<>>
             /\ Len(from') <= MaxDatagrams
  <2>1. /\ main = "recv" /\ main' = "copy" /\ from' = Append(from, c) /\ Len(from) < MaxDatagrams
        /\ UNCHANGED <<queue, wpc, job, sent>>
    BY <1>2 DEF Receive
  <2>2. from' # <<>> /\ Len(from') = Len(from) + 1
    BY ZenonT(30), <1>0, <2>1, AppendFacts
  <2> QED BY <1>0, <2>1, <2>2 DEF Pushed
<1>3. CASE Signal \/ SignalAgain \/ Shutdown \/ UNCHANGED vars
  <2>1. UNCHANGED <<main, from, queue, wpc, job, sent>>
    BY Zenon, <1>3 DEF Signal, SignalAgain, Shutdown, FreePool, FreePoolDone, CloseSocket, Raise,
       HandlerUnchanged, vars
  <2> QED BY <2>1 DEF Pushed, OnceInv
<1> QED BY <1>1, <1>2, <1>3

\* g_thread_pool_push adds the datagram received last.
LEMMA PushStep ==
    ASSUME TypeOK, OnceInv, Push
    PROVE  /\ UNCHANGED <<from, wpc, job, sent>> /\ main' = "recv"
           /\ Len(from) = Pushed + 1 /\ Pushed' = Pushed + 1 /\ Taken' = Taken
           /\ \E a \in Actions : queue' = Append(queue, [id |-> Len(from), action |-> a])
           /\ Len(queue') = Len(queue) + 1
<1>1. /\ main = "locked" /\ main' = "recv" /\ UNCHANGED <<from, wpc, job, sent>>
      /\ \E a \in Actions : queue' = Append(queue, [id |-> Len(from), action |-> a])
  BY ZenonT(30) DEF Push, workVars, history
<1>2. Len(queue') = Len(queue) + 1
  <2>1. PICK a \in Actions : queue' = Append(queue, [id |-> Len(from), action |-> a])
    BY ZenonT(30), <1>1
  <2>2. [id |-> Len(from), action |-> a] \in Jobs
    BY SMTT(30), PoolAssumption DEF TypeOK, Jobs
  <2> QED BY SMTT(30), <2>1, <2>2, AppendFacts DEF TypeOK
<1>3. Pushed = Len(from) - 1 /\ Pushed' = Len(from)
  BY <1>1 DEF Pushed
<1> QED BY <1>1, <1>2, <1>3, CountsAreNat DEF Taken

\* The pool hands over the oldest datagram in the queue.
LEMMA TakeStep ==
    ASSUME TypeOK, OnceInv, NEW w \in Workers, Take(w)
    PROVE  /\ UNCHANGED <<from, main, sent>> /\ Pushed' = Pushed
           /\ ~Busy(w) /\ Busy(w)' /\ Taken' = Taken + 1 /\ Taken < Pushed
           /\ job' = [job EXCEPT ![w] = Head(queue)] /\ job'[w].id = Taken + 1
           /\ \A v \in Workers : v # w => wpc'[v] = wpc[v] /\ job'[v] = job[v]
           /\ queue' = Tail(queue) /\ queue # <<>> /\ Len(queue') = Len(queue) - 1
<1> USE DEF mainVars, workVars, history
<1>0. queue \in Seq(Jobs) /\ job \in [Workers -> Jobs \cup {NoJob}]
      /\ wpc \in [Workers -> {"idle", "ping", "connect", "replace", "handle", "send"}]
  BY DEF TypeOK
<1>1. /\ UNCHANGED <<from, main, sent>> /\ ~Busy(w) /\ queue # <<>> /\ queue' = Tail(queue)
      /\ job' = [job EXCEPT ![w] = Head(queue)]
      /\ wpc' = [wpc EXCEPT ![w] = IF tls[w] = NoContext THEN "connect" ELSE "ping"]
  BY DEF Take
<1>2. Len(queue') = Len(queue) - 1 /\ Len(queue) > 0
  BY <1>0, <1>1
<1>3. Pushed' = Pushed
  BY <1>1 DEF Pushed
<1>4. Taken' = Taken + 1 /\ Taken < Pushed
  BY <1>2, <1>3, CountsAreNat DEF Taken
<1>5. Head(queue).id = Taken + 1
  BY <1>0, <1>1, TailFacts, CountsAreNat DEF OnceInv
<1>6. Busy(w)' /\ job'[w].id = Taken + 1 /\ \A v \in Workers : v # w => wpc'[v] = wpc[v] /\ job'[v] = job[v]
  BY ZenonT(30), <1>0, <1>1, <1>5 DEF Busy
<1> QED BY <1>1, <1>2, <1>3, <1>4, <1>6

\* A step of bt_request_processor keeps the job and sends nothing, or ends it
\* with at most one answer.
LEMMA WorkStep ==
    ASSUME TypeOK, NEW w \in Workers, Work(w)
    PROVE  /\ UNCHANGED <<from, main, queue>> /\ Pushed' = Pushed /\ Taken' = Taken /\ Busy(w)
           /\ \A v \in Workers : v # w => wpc'[v] = wpc[v] /\ job'[v] = job[v]
           /\ \/ Busy(w)' /\ job'[w] = job[w] /\ sent' = sent
              \/ ~Busy(w)' /\ (sent' = sent \/ \E r \in Reads(w) : sent' = sent \cup {r})
<1> USE DEF mainVars, workVars, history
<1>0. job \in [Workers -> Jobs \cup {NoJob}]
      /\ wpc \in [Workers -> {"idle", "ping", "connect", "replace", "handle", "send"}]
  BY ZenonT(30) DEF TypeOK
<1>1. UNCHANGED <<from, main, queue>> /\ Busy(w)
  BY DEF Work, Ping, Connect, Replace, Handle, HandlerDies, Send, WorkUnchanged, Busy
<1>2. Pushed' = Pushed /\ Taken' = Taken
  BY ZenonT(30), <1>1 DEF Pushed, Taken
<1>3. CASE Ping(w) \/ Connect(w) \/ Replace(w) \/ HandlerDies(w)
  <2>1. UNCHANGED <<job, sent>>
    BY ZenonT(30), <1>3 DEF Ping, Connect, Replace, HandlerDies
  <2>2. (\A v \in Workers : v # w => wpc'[v] = wpc[v]) /\ Busy(w)'
    BY ZenonT(30), <1>0, <1>1, <1>3 DEF Ping, Connect, Replace, HandlerDies, Busy
  <2> QED BY ZenonT(30), <1>1, <1>2, <2>1, <2>2
<1>4. CASE Handle(w) /\ ToSend(w)
  BY <1>0, <1>1, <1>2, <1>4 DEF Handle, ToSend, Busy
<1>5. ASSUME EndJob(w)
      PROVE  ~Busy(w)' /\ \A v \in Workers : v # w => wpc'[v] = wpc[v] /\ job'[v] = job[v]
  BY ZenonT(30), <1>0, <1>5 DEF EndJob, Busy
<1>6. CASE Handle(w) /\ EndJob(w)
  BY ZenonT(30), <1>1, <1>2, <1>5, <1>6 DEF Handle
<1>7. CASE Send(w)
  BY ZenonT(30), <1>1, <1>2, <1>5, <1>7 DEF Send
<1>8. Handle(w) => ToSend(w) \/ EndJob(w)
  BY DEF Handle
<1> QED BY ZenonT(30), <1>3, <1>4, <1>6, <1>7, <1>8 DEF Work

\* The pipeline keeps the datagrams in order and apart.
LEMMA OnceInvHolds == Spec => []OnceInv
<1>1. Init => OnceInv
  BY PoolAssumption DEF Init, OnceInv, Pushed, Taken, Busy
<1>2. TypeOK /\ OnceInv /\ [Next]_vars => OnceInv'
  <2> SUFFICES ASSUME TypeOK, OnceInv, [Next]_vars PROVE OnceInv'
    OBVIOUS
  <2>0. /\ Len(from) \in Nat /\ Len(queue) \in Nat /\ Pushed \in Nat
        /\ Taken \in Nat /\ Taken <= Pushed /\ Taken + Len(queue) = Pushed
    BY ZenonT(30), CountsAreNat
  <2>1. CASE \/ CreatePool \/ OpenSocket \/ Received \/ LockQueue \/ \E c \in Clients : Receive(c)
             \/ Signal \/ SignalAgain \/ Shutdown \/ UNCHANGED vars
    <3>1. /\ UNCHANGED <<queue, wpc, job, sent>> /\ Pushed' = Pushed
          /\ main' \in {"copy", "push", "locked"} => from' # <<>>
          /\ Len(from') <= MaxDatagrams
      BY Zenon, <2>1, MainSteps
    <3>2. Taken' = Taken
      BY ZenonT(30), <3>1 DEF Taken
    <3> QED BY <3>1, <3>2 DEF OnceInv, Busy
  <2>2. CASE Push
    <3>1. /\ UNCHANGED <<from, wpc, job, sent>> /\ main' = "recv"
          /\ Len(from) = Pushed + 1 /\ Pushed' = Pushed + 1 /\ Taken' = Taken
          /\ Len(queue') = Len(queue) + 1
      BY <2>2, PushStep
    <3>2. ASSUME NEW i \in DOMAIN queue' PROVE queue'[i].id = Taken + i
      <4>1. PICK a \in Actions : queue' = Append(queue, [id |-> Len(from), action |-> a])
        BY ZenonT(30), <2>2, PushStep
      <4> DEFINE e == [id |-> Len(from), action |-> a]
      <4>2. e \in Jobs /\ queue \in Seq(Jobs) /\ e.id = Len(from)
        BY <2>0, PoolAssumption DEF TypeOK, Jobs
      <4>3. i \in 1..(Len(queue) + 1)
        BY <2>0, <3>1, <3>2, <4>1, <4>2
      <4>4. CASE i \in 1..Len(queue)
        <5>1. queue'[i] = queue[i] /\ i \in DOMAIN queue
          BY <4>1, <4>2, <4>4, AppendFacts
        <5> QED BY ZenonT(30), <5>1 DEF OnceInv
      <4>5. CASE i = Len(queue) + 1
        <5>1. queue'[i] = e
          BY SMTT(30), <4>1, <4>2, <4>5, AppendFacts
        <5> QED BY SMTT(30), <2>0, <3>1, <4>2, <4>5, <5>1
      <4> QED BY <2>0, <4>3, <4>4, <4>5
    <3>3. Len(from') <= MaxDatagrams /\ Len(queue') <= Pushed'
      BY <2>0, <3>1 DEF OnceInv
    <3> QED BY <3>1, <3>2, <3>3 DEF OnceInv, Busy
  <2>3. ASSUME NEW w \in Workers, Take(w) PROVE OnceInv'
    <3>1. /\ UNCHANGED <<from, main, sent>> /\ Pushed' = Pushed
          /\ ~Busy(w) /\ Busy(w)' /\ Taken' = Taken + 1 /\ job'[w].id = Taken + 1
          /\ \A v \in Workers : v # w => wpc'[v] = wpc[v] /\ job'[v] = job[v]
          /\ queue' = Tail(queue) /\ queue # <<>> /\ Len(queue') = Len(queue) - 1
      BY ZenonT(30), <2>3, TakeStep
    <3>2. ASSUME NEW i \in DOMAIN queue' PROVE queue'[i].id = Taken' + i
      <4>1. i + 1 \in DOMAIN queue /\ queue'[i] = queue[i + 1]
        BY ZenonT(30), <3>1, <3>2, TailFacts DEF TypeOK
      <4>2. queue[i + 1].id = Taken + (i + 1) /\ i \in Nat
        BY SMTT(30), <3>1, <3>2, <4>1 DEF OnceInv, TypeOK
      <4> QED BY <2>0, <3>1, <4>1, <4>2
    <3>3. \A v \in Workers : v # w /\ Busy(v)' => Busy(v) /\ job'[v] = job[v] /\ job[v].id \in 1..Taken
      BY ZenonT(30), <3>1 DEF OnceInv, Busy
    <3>4. \A v \in Workers : Busy(v)' => job'[v].id \in 1..Taken'
      BY <2>0, <3>1, <3>3
    <3>5. \A u, v \in Workers : Busy(u)' /\ Busy(v)' /\ job'[u].id = job'[v].id => u = v
      BY SMTT(30), <2>0, <3>1, <3>3 DEF OnceInv
    <3>6. \A r \in sent : r.id \in 1..Taken' /\ \A v \in Workers : Busy(v)' => job'[v].id # r.id
      BY SMTT(30), <2>0, <3>1, <3>3 DEF OnceInv
    <3>7. Len(queue') <= Pushed'
      BY SMTT(30), <2>0, <3>1 DEF OnceInv
    <3> QED BY ZenonT(30), <3>1, <3>2, <3>4, <3>5, <3>6, <3>7 DEF OnceInv
  <2>4. ASSUME NEW w \in Workers, Work(w) PROVE OnceInv'
    <3>1. /\ UNCHANGED <<from, main, queue>> /\ Pushed' = Pushed /\ Taken' = Taken /\ Busy(w)
          /\ \A v \in Workers : v # w => wpc'[v] = wpc[v] /\ job'[v] = job[v]
          /\ \/ Busy(w)' /\ job'[w] = job[w] /\ sent' = sent
             \/ ~Busy(w)' /\ (sent' = sent \/ \E r \in Reads(w) : sent' = sent \cup {r})
      BY ZenonT(30), <2>4, WorkStep
    <3>2. \A v \in Workers : Busy(v)' => Busy(v) /\ job'[v] = job[v]
      BY ZenonT(30), <3>1 DEF Busy
    <3>3. CASE sent' = sent
      BY ZenonT(30), <3>1, <3>2, <3>3 DEF OnceInv
    <3>4. ASSUME ~Busy(w)', NEW r \in Reads(w), sent' = sent \cup {r} PROVE OnceInv'
      <4>1. r.id = job[w].id /\ r.id \in 1..Taken
        BY ZenonT(30), <3>1 DEF Reads, OnceInv
      <4>2. \A v \in Workers : Busy(v)' => job'[v].id # r.id
        BY ZenonT(30), <3>1, <3>2, <3>4, <4>1 DEF OnceInv
      <4>3. \A t \in sent : t.id # r.id
        BY SMTT(30), <3>1, <4>1 DEF OnceInv
      <4> QED BY SMTT(30), <3>1, <3>2, <3>4, <4>1, <4>2, <4>3 DEF OnceInv
    <3> QED BY ZenonT(30), <3>1, <3>3, <3>4
  <2> QED BY Zenon, <2>1, <2>2, <2>3, <2>4 DEF Next, Main
<1> QED BY <1>1, <1>2, TypeCorrect, PTL DEF Spec

\* In every behaviour, no datagram is queued twice, given to two workers, taken
\* up again after it was answered, or answered twice.
THEOREM ProcessedOnceHolds == Spec => []ProcessedOnce
<1>1. TypeOK /\ OnceInv => ProcessedOnce
  <2> SUFFICES ASSUME TypeOK, OnceInv PROVE ProcessedOnce
    BY ZenonT(30)
  <2>0. Taken \in Nat /\ DOMAIN queue \subseteq Nat \ {0}
    BY CountsAreNat DEF TypeOK
  <2>1. \A i \in DOMAIN queue : queue[i].id = Taken + i
    BY DEF OnceInv
  <2>2. \A i, j \in DOMAIN queue : queue[i].id = queue[j].id => i = j
    BY <2>0, <2>1
  <2>3. \A id \in Queued : id > Taken
    BY <2>0, <2>1 DEF Queued
  <2>4. \A id \in InWork : id \in 1..Taken
    BY SMTT(30) DEF InWork, OnceInv
  <2>5. Queued \cap InWork = {}
    BY <2>0, <2>3, <2>4
  <2>6. \A r \in sent : r.id \notin Queued \cup InWork
    BY SMTT(30), <2>0, <2>3 DEF InWork, OnceInv
  <2> QED BY <2>2, <2>5, <2>6 DEF ProcessedOnce, OnceInv
<1> QED BY <1>1, OnceInvHolds, TypeCorrect, PTL

=============================================================================
