------------------------------ MODULE Requests ------------------------------
(* What the pipeline promises its clients, without threads, queue, sockets  *)
(* or Redis: datagrams are taken up in the order they came, each once and   *)
(* no more at a time than there are workers, and each is answered at most   *)
(* once.  Module Pool implements it.                                        *)
EXTENDS Integers, FiniteSets

CONSTANTS
    Ids,       \* datagrams, numbered in the order they arrive
    Capacity   \* how many are worked on at a time

VARIABLE stage \* where each datagram is

Stages == {"absent", "queued", "work", "answered", "silent"}
In(s) == {i \in Ids : stage[i] = s}
Move(i, s) == stage' = [stage EXCEPT ![i] = s]

Init == stage = [i \in Ids |-> "absent"]

Arrive(i) ==
    /\ stage[i] = "absent" /\ \A j \in Ids : j < i => stage[j] # "absent"
    /\ Move(i, "queued")

TakeUp(i) ==
    /\ stage[i] = "queued" /\ \A j \in Ids : j < i => stage[j] # "queued"
    /\ Cardinality(In("work")) < Capacity
    /\ Move(i, "work")

Finish(i) == stage[i] = "work" /\ \E s \in {"answered", "silent"} : Move(i, s)

Next == \E i \in Ids : Arrive(i) \/ TakeUp(i) \/ Finish(i)
Spec == Init /\ [][Next]_stage
=============================================================================
