-------------------------------- MODULE Pool --------------------------------
(***************************************************************************)
(* The request pipeline of bttracker: the main thread that receives        *)
(* datagrams (bttracker.c), the exclusive GLib thread pool whose workers   *)
(* process them (pool.c), the Redis context each worker keeps in thread    *)
(* local storage, and the signal handler that takes it all down.           *)
(*                                                                         *)
(* What a handler does to the swarm is the subject of module Swarm; here   *)
(* it answers, stays silent or dies.  The address of the sender is in one  *)
(* struct, si_other, that main overwrites at every datagram and that every *)
(* job points to.                                                          *)
(*                                                                         *)
(* An operator whose name ends in an underscore is the one that follows it *)
(* with one mistake.  No behaviour uses these; each is a mistake that one  *)
(* of the properties rules out.                                            *)
(***************************************************************************)
EXTENDS Integers, Sequences, FiniteSets

CONSTANTS
    Workers,       \* threads of the pool (config->thread_max)
    Clients,       \* addresses of the senders
    Torn,          \* an address of no sender: uninitialized, or mixed of two senders' bytes
    Contexts,      \* redisContext objects the allocator may return
    NoContext,     \* a NULL redisContext
    NoJob,         \* placeholder for the job of an idle worker
    Actions,       \* actions the datagrams carry
    MaxDatagrams   \* bound: datagrams received in a behaviour

AllActions == {"connect", "announce", "scrape", "error", "unknown"}

ASSUME PoolAssumption ==
    /\ IsFiniteSet(Workers)
    /\ Torn \notin Clients
    /\ NoContext \notin Contexts
    /\ Actions \subseteq AllActions
    /\ MaxDatagrams \in Nat
    /\ NoJob \notin [id : Nat, action : AllActions]

VARIABLES
    main,      \* where the main thread is
    handler,   \* where on_sigterm is, on top of the main thread
    proc,      \* the process: running, exited or crashed
    sock,      \* in_sock
    pool,      \* the GThreadPool
    from,      \* history: sender of each datagram received, in order
    siOther,   \* si_other
    queue,     \* jobs pushed and not taken
    wpc,       \* per worker: where in bt_request_processor it is
    job,       \* per worker: its job
    failed,    \* per worker: the connection to Redis failed, error is set
    redis,     \* per worker: the local variable redis
    tls,       \* per worker: the context in thread local storage
    live,      \* contexts allocated and not freed
    sent,      \* history: answers sent
    stored     \* history: peer addresses announces stored

mainVars == <<main, from, siOther>>
workVars == <<wpc, job, failed, redis, tls, live>>
history == <<sent, stored>>
vars == <<mainVars, handler, proc, sock, pool, queue, workVars, history>>

Jobs == [id : Nat, action : AllActions]
Running == proc = "running"
Busy(w) == wpc[w] # "idle"

Init ==
    /\ main = "boot"
    /\ handler = "off"
    /\ proc = "running"
    /\ sock = "none"
    /\ pool = "none"
    /\ from = <<>>
    /\ siOther = Torn
    /\ queue = <<>>
    /\ wpc = [w \in Workers |-> "idle"]
    /\ job = [w \in Workers |-> NoJob]
    /\ failed = [w \in Workers |-> FALSE]
    /\ redis = [w \in Workers |-> NoContext]
    /\ tls = [w \in Workers |-> NoContext]
    /\ live = {}
    /\ sent = {}
    /\ stored = {}

-----------------------------------------------------------------------------
\* The main thread.  It stands still while on_sigterm runs on top of it.

MainRuns == Running /\ handler = "off"

CreatePool ==
    /\ MainRuns /\ main = "boot" /\ pool = "none"
    /\ pool' = "running"
    /\ UNCHANGED <<mainVars, handler, proc, sock, queue, workVars, history>>

\* bt_ipv4_udp_sock and bind.
OpenSocket ==
    /\ MainRuns /\ main = "boot" /\ pool = "running"
    /\ \/ sock' = "open" /\ main' = "recv" /\ UNCHANGED proc
       \/ proc' = "exited" /\ UNCHANGED <<sock, main>>
    /\ UNCHANGED <<handler, pool, from, siOther, queue, workVars, history>>

\* recvfrom starts to copy a datagram out.  When it fails, main just retries.
Receive(c) ==
    /\ MainRuns /\ main = "recv" /\ Len(from) < MaxDatagrams
    /\ main' = "copy"
    /\ from' = Append(from, c)
    /\ UNCHANGED <<siOther, handler, proc, sock, pool, queue, workVars, history>>

Latest_ == from[1]
Latest == from[Len(from)]

\* recvfrom has written si_other and returns.
Received ==
    /\ MainRuns /\ main = "copy"
    /\ main' = "push"
    /\ siOther' = Latest
    /\ UNCHANGED <<from, handler, proc, sock, pool, queue, workVars, history>>

\* g_thread_pool_push takes the lock of the queue, appends, releases it.
LockQueue ==
    /\ MainRuns /\ main = "push"
    /\ main' = "locked"
    /\ UNCHANGED <<from, siOther, handler, proc, sock, pool, queue, workVars, history>>

Push ==
    /\ MainRuns /\ main = "locked"
    /\ main' = "recv"
    /\ \E a \in Actions : queue' = Append(queue, [id |-> Len(from), action |-> a])
    /\ UNCHANGED <<from, siOther, handler, proc, sock, pool, workVars, history>>

-----------------------------------------------------------------------------
\* A worker: bt_request_processor.

WorkUnchanged == UNCHANGED <<mainVars, handler, proc, sock, pool, queue>>

Rest_ == queue
Rest__ == <<>>
Rest == Tail(queue)

\* The pool hands a job over, under the lock of its queue.
Take(w) ==
    /\ Running /\ pool = "running" /\ main # "locked"
    /\ ~Busy(w) /\ queue # <<>>
    /\ job' = [job EXCEPT ![w] = Head(queue)]
    /\ queue' = Rest
    /\ redis' = [redis EXCEPT ![w] = tls[w]]
    /\ wpc' = [wpc EXCEPT ![w] = IF tls[w] = NoContext THEN "connect" ELSE "ping"]
    /\ UNCHANGED <<mainVars, handler, proc, sock, pool, failed, tls, live, history>>

\* bt_redis_ping; when it fails, goto redis_connect.
Ping(w) ==
    /\ Running /\ wpc[w] = "ping"
    /\ \E next \in {"handle", "connect"} : wpc' = [wpc EXCEPT ![w] = next]
    /\ UNCHANGED <<job, failed, redis, tls, live, history>> /\ WorkUnchanged

Failing_(w) == UNCHANGED failed
Failing(w) == failed' = [failed EXCEPT ![w] = TRUE]

\* bt_redis_connect: a new context, or NULL and an error for the client.
Connect(w) ==
    /\ Running /\ wpc[w] = "connect"
    /\ wpc' = [wpc EXCEPT ![w] = "replace"]
    /\ \/ \E c \in Contexts \ live :
             /\ live' = live \cup {c}
             /\ redis' = [redis EXCEPT ![w] = c]
             /\ UNCHANGED failed
       \/ /\ redis' = [redis EXCEPT ![w] = NoContext]
          /\ Failing(w)
          /\ UNCHANGED live
    /\ UNCHANGED <<job, tls, history>> /\ WorkUnchanged

Freed_(w) == live
Freed(w) == live \ {tls[w]}

Replaced_(w) == IF failed[w] THEN "connect" ELSE "handle"
Replaced(w) == "handle"

\* g_private_replace: bt_free_redis on the old context, then the new one is kept.
Replace(w) ==
    /\ Running /\ wpc[w] = "replace"
    /\ wpc' = [wpc EXCEPT ![w] = Replaced(w)]
    /\ live' = Freed(w)
    /\ tls' = [tls EXCEPT ![w] = redis[w]]
    /\ UNCHANGED <<job, failed, redis, history>> /\ WorkUnchanged

Action(w) == IF failed[w] THEN "error" ELSE job[w].action

\* What a thread reads from si_other.  While recvfrom writes it, that is the
\* old bytes, the new ones or some of each.
SenderRead == IF main = "copy" THEN {siOther, Latest, Torn} ELSE {siOther}

\* An address read for a job, and how many datagrams had been received by then.
Reads(w) == [id : {job[w].id}, to : SenderRead, seen : {Len(from)}]

Released_(w) == job[w]
Released(w) == NoJob

\* bt_request_processor returns.
EndJob(w) ==
    /\ wpc' = [wpc EXCEPT ![w] = "idle"]
    /\ job' = [job EXCEPT ![w] = Released(w)]
    /\ failed' = [failed EXCEPT ![w] = FALSE]
    /\ redis' = [redis EXCEPT ![w] = NoContext]
    /\ UNCHANGED <<tls, live>>

ToSend(w) == wpc' = [wpc EXCEPT ![w] = "send"] /\ UNCHANGED <<job, failed, redis, tls, live>>

\* The handler of the action returns a response, or none.  An announce may have
\* stored the requesting peer under the address in si_other.
Handle(w) ==
    /\ Running /\ wpc[w] = "handle"
    /\ \/ Action(w) \in {"connect", "announce", "scrape"} /\ UNCHANGED stored
          /\ (ToSend(w) \/ EndJob(w))
       \/ Action(w) = "announce" /\ ToSend(w)
          /\ \E r \in Reads(w) : stored' = stored \cup {r}
       \/ Action(w) = "error" /\ failed[w] /\ ToSend(w) /\ UNCHANGED stored
       \/ Action(w) = "unknown" /\ EndJob(w) /\ UNCHANGED stored
    /\ UNCHANGED sent /\ WorkUnchanged

\* The announce and scrape handlers may make an invalid memory access (module
\* Swarm); bt_send_error without a message does.
HandlerDies(w) ==
    /\ Running /\ wpc[w] = "handle"
    /\ Action(w) \in {"announce", "scrape"} \/ (Action(w) = "error" /\ ~failed[w])
    /\ proc' = "crashed"
    /\ UNCHANGED <<mainVars, handler, sock, pool, queue, workVars, history>>

\* sendto, to whatever si_other holds; its failure is only logged.
Send(w) ==
    /\ Running /\ wpc[w] = "send"
    /\ \E r \in Reads(w) : sent' = sent \cup {r}
    /\ EndJob(w)
    /\ UNCHANGED stored /\ WorkUnchanged

-----------------------------------------------------------------------------
\* on_sigterm, in the main thread.

HandlerUnchanged == UNCHANGED <<mainVars, queue, workVars, history>>

\* The first signal.  It does not interrupt the kernel's copy of a datagram.  Of
\* the places where it finds main with a lock only g_thread_pool_push is modelled:
\* inside malloc or syslog, which the handler also calls, it would hang as well.
Signal ==
    /\ MainRuns /\ main # "copy"
    /\ handler' = "free"
    /\ UNCHANGED <<proc, sock, pool>> /\ HandlerUnchanged

\* The same signal again, now with its default disposition.
SignalAgain ==
    /\ Running /\ handler # "off"
    /\ proc' = "exited"
    /\ UNCHANGED <<handler, sock, pool>> /\ HandlerUnchanged

\* g_thread_pool_free takes the lock of the queue, which main may hold, and
\* stops the pool: no job is started any more.  Without a pool it returns.
FreePool ==
    /\ Running /\ handler = "free" /\ main # "locked"
    /\ \/ pool = "none" /\ handler' = "close" /\ UNCHANGED pool
       \/ pool # "none" /\ handler' = "wait" /\ pool' = "stopping"
    /\ UNCHANGED <<proc, sock>> /\ HandlerUnchanged

Idle_ == TRUE
Idle__ == queue = <<>> /\ \A w \in Workers : ~Busy(w)
Idle == \A w \in Workers : ~Busy(w)

\* It returns when no worker runs a job.
FreePoolDone ==
    /\ Running /\ handler = "wait" /\ Idle
    /\ handler' = "close"
    /\ pool' = "freed"
    /\ UNCHANGED <<proc, sock>> /\ HandlerUnchanged

CloseSocket ==
    /\ Running /\ handler = "close"
    /\ handler' = "raise"
    /\ sock' = "closed"
    /\ UNCHANGED <<proc, pool>> /\ HandlerUnchanged

Raise ==
    /\ Running /\ handler = "raise"
    /\ proc' = "exited"
    /\ UNCHANGED <<handler, sock, pool>> /\ HandlerUnchanged

-----------------------------------------------------------------------------
Main == CreatePool \/ OpenSocket \/ Received \/ LockQueue \/ Push
Work(w) == Ping(w) \/ Connect(w) \/ Replace(w) \/ Handle(w) \/ HandlerDies(w) \/ Send(w)
Shutdown == FreePool \/ FreePoolDone \/ CloseSocket \/ Raise

Next ==
    \/ Main \/ \E c \in Clients : Receive(c)
    \/ \E w \in Workers : Take(w) \/ Work(w)
    \/ Signal \/ SignalAgain \/ Shutdown

\* Threads are scheduled, and Redis answers a command or its connection breaks.
\* Nothing makes a datagram or a signal arrive.
Fairness ==
    /\ WF_vars(Main) /\ WF_vars(Shutdown)
    /\ \A w \in Workers : WF_vars(Take(w)) /\ WF_vars(Work(w))

Spec == Init /\ [][Next]_vars
FairSpec == Spec /\ Fairness

-----------------------------------------------------------------------------
\* What the code keeps.

Reading == [id : Nat \ {0}, to : Clients \cup {Torn}, seen : Nat]

\* Every variable keeps its type, and exactly the workers inside
\* bt_request_processor have a job.
TypeOK ==
    /\ main \in {"boot", "recv", "copy", "push", "locked"}
    /\ handler \in {"off", "free", "wait", "close", "raise"}
    /\ proc \in {"running", "exited", "crashed"}
    /\ sock \in {"none", "open", "closed"}
    /\ pool \in {"none", "running", "stopping", "freed"}
    /\ from \in Seq(Clients)
    /\ siOther \in Clients \cup {Torn}
    /\ queue \in Seq(Jobs)
    /\ wpc \in [Workers -> {"idle", "ping", "connect", "replace", "handle", "send"}]
    /\ job \in [Workers -> Jobs \cup {NoJob}]
    /\ failed \in [Workers -> BOOLEAN]
    /\ redis \in [Workers -> Contexts \cup {NoContext}]
    /\ tls \in [Workers -> Contexts \cup {NoContext}]
    /\ live \subseteq Contexts
    /\ sent \subseteq Reading /\ stored \subseteq Reading
    /\ \A w \in Workers : Busy(w) <=> job[w] # NoJob

\* The contexts a worker is responsible for: the one in its thread local
\* storage and, before g_private_replace, the one it has just opened.
Owned(w) == ({tls[w]} \cup IF wpc[w] = "replace" THEN {redis[w]} ELSE {}) \ {NoContext}

\* Every Redis context that is open has exactly one owner, and no worker holds
\* one that has been freed: reconnecting after a failed ping neither leaks,
\* shares nor frees twice (bt_request_processor and bt_free_redis).
ContextOwnership ==
    /\ live = UNION {Owned(w) : w \in Workers}
    /\ \A v, w \in Workers : v # w => Owned(v) \cap Owned(w) = {}

\* A request reaches a handler that talks to Redis only with the open context of
\* the thread; when there is none, it is answered with an error.
HandlersHaveContext ==
    \A w \in Workers : wpc[w] = "handle" => failed[w] \/ (redis[w] = tls[w] /\ redis[w] \in live)

\* While any worker has a job, the socket it may answer on is open: on_sigterm
\* closes it only after g_thread_pool_free has waited for the workers.
SocketOpenForWorkers == (\E w \in Workers : Busy(w)) => sock = "open"

\* The answer to a datagram, and the address an announce stores, belong to its
\* sender or to the sender of a later datagram, or are mixed from two of these:
\* si_other is shared, but never older than the job.  When no later datagram
\* has arrived, they are the sender's.
StraysOnlyForward ==
    \A r \in sent \cup stored :
        \/ r.to = Torn /\ r.id < r.seen
        \/ \E k \in r.id..r.seen : r.to = from[k]

Queued == {queue[i].id : i \in DOMAIN queue}
InWork == {job[w].id : w \in {v \in Workers : Busy(v)}}

\* No datagram is processed twice: it is in the queue, with one worker, or done,
\* and at most one answer to it is sent.
ProcessedOnce ==
    /\ \A i, j \in DOMAIN queue : queue[i].id = queue[j].id => i = j
    /\ \A v, w \in Workers : Busy(v) /\ Busy(w) /\ job[v].id = job[w].id => v = w
    /\ Queued \cap InWork = {}
    /\ \A r \in sent : r.id \notin Queued \cup InWork
    /\ \A r, t \in sent : r.id = t.id => r = t

\* Where each datagram is, as its sender would see it.
Pushed == IF main \in {"copy", "push", "locked"} THEN Len(from) - 1 ELSE Len(from)
Stage == [i \in 1..MaxDatagrams |->
    CASE i > Pushed -> "absent"
      [] i \in Queued -> "queued"
      [] i \in InWork -> "work"
      [] \E r \in sent : r.id = i -> "answered"
      [] OTHER -> "silent"]

Service == INSTANCE Requests WITH
    Ids <- 1..MaxDatagrams, Capacity <- Cardinality(Workers), stage <- Stage

\* main, the pool and its workers implement a first-come, first-served service
\* of bounded capacity: no datagram is overtaken in the queue, lost between the
\* queue and a worker, given to two workers, taken up again or answered twice.
ImplementsRequests == Service!Spec

\* Every job pushed is taken up and finished, unless the process ends or is
\* told to: workers do not wait for each other, and a worker whose connection
\* to Redis fails does not stay in the redis_connect loop.
JobsServed ==
    \A id \in 1..MaxDatagrams :
        id \in Queued \cup InWork ~> id \notin Queued \cup InWork \/ ~Running \/ handler # "off"

\* on_sigterm comes to its end whatever the workers are doing and however many
\* jobs are queued, if it interrupts main outside every lock that it takes itself.
\* Of these the property names the queue's, held inside g_thread_pool_push; those
\* of malloc and syslog, which main holds for moments between recvfrom and the
\* push, are not in the model (Signal), and nothing is said of a signal then.
ShutdownCompletes == handler = "free" /\ main # "locked" ~> ~Running

-----------------------------------------------------------------------------
\* What the comments say and the code does not do.

\* pool.c on sendto: "Sending response back to the client".
AnswersReachSender == \A r \in sent : r.to = from[r.id]

\* bttracker.c on g_thread_pool_free: "Terminates the thread pool".
SignalTerminates == handler = "free" ~> ~Running
=============================================================================
