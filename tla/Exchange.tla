------------------------------ MODULE Exchange ------------------------------
(* What the tracker promises the sender of a datagram, without buffers,      *)
(* byte orders of the host, Redis commands or lists: each datagram is        *)
(* answered at most once, by an error or by the answer to what it asks, and  *)
(* only a connect makes a connection id.  Everything is as it is on the      *)
(* wire.  Module Session implements it.                                      *)
EXTENDS Integers, Sequences

CONSTANTS
    Workers,    \* how many datagrams are dealt with at a time
    Datagrams,  \* [len, data]: data[1] is the connection id, [2] the action, [3] the transaction id
    None,       \* no datagram
    NoAnswer,   \* no answer
    Ids         \* connection ids, in host order

VARIABLES
    asked,      \* the datagram each worker deals with
    answer,     \* its answer
    conns,      \* connection ids that are known
    over        \* the process has made an invalid memory access

vars == <<asked, answer, conns, over>>

CONNECT == <<0, 0>>
ANNOUNCE == <<0, 1>>
SCRAPE == <<0, 2>>
ERROR == <<0, 3>>
PROTOCOL_ID == <<25, -128>>

Init ==
    /\ asked = [w \in Workers |-> None]
    /\ answer = [w \in Workers |-> NoAnswer]
    /\ conns = {}
    /\ over = FALSE

\* An error, with the transaction id if the datagram had one.
IsError(d, r) == r.action = ERROR /\ (d.len >= 16 => r.tid = d.data[3])

\* The answer to what the datagram asks, which then has a whole header.
IsAnswer(d, r) ==
    /\ d.len >= 16 /\ r.action = d.data[2] /\ r.tid = d.data[3]
    /\ \/ r.action = CONNECT /\ d.data[1] = PROTOCOL_ID
       \/ r.action = ANNOUNCE
       \/ r.action = SCRAPE /\ Len(r.entries) = (d.len - 16) \div 20

Ask(w, d) ==
    /\ asked[w] = None
    /\ asked' = [asked EXCEPT ![w] = d]
    /\ UNCHANGED <<answer, conns>>

\* The id that a connect is answered with becomes known, unless Redis fails.
Answer(w) ==
    LET d == asked[w]
        r == answer'[w] IN
    /\ d # None /\ answer[w] = NoAnswer /\ r # NoAnswer
    /\ answer' = [answer EXCEPT ![w] = r]
    /\ IsError(d, r) \/ IsAnswer(d, r)
    /\ \/ conns' = conns
       \/ r.action = CONNECT /\ conns' = conns \cup {<<r.conn[2], r.conn[1]>>}
    /\ UNCHANGED asked

\* The answer is sent; or the datagram is dropped without one.
Done(w) ==
    /\ asked[w] # None
    /\ asked' = [asked EXCEPT ![w] = None]
    /\ answer' = [answer EXCEPT ![w] = NoAnswer]
    /\ UNCHANGED conns

Expire(id) == conns' = conns \ {id} /\ UNCHANGED <<asked, answer>>

Step ==
    \/ \E w \in Workers : Answer(w) \/ Done(w) \/ \E d \in Datagrams : Ask(w, d)
    \/ \E id \in Ids : Expire(id)

\* Nothing is promised after an invalid memory access.
Next ==
    /\ ~over
    /\ \/ over' = FALSE /\ Step
       \/ over' = TRUE /\ UNCHANGED <<asked, answer, conns>>

Spec == Init /\ [][Next]_vars
=============================================================================
