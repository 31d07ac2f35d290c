------------------------- MODULE PoolServiceProofs --------------------------
(* That module Pool implements the service of module Requests, for every     *)
(* number of workers, clients and contexts and every number of datagrams,    *)
(* and how many contexts it keeps open meanwhile.                            *)
EXTENDS PoolProofs, FiniteSetTheorems

USE DEF Latest, Rest, Failing, Freed, Replaced, Released, Idle

-----------------------------------------------------------------------------
\* The pipeline implements module Requests.

Answered == {r.id : r \in sent}

\* The stage of a datagram in terms of the two counts.
Place(i) ==
    IF i > Pushed THEN "absent" ELSE IF i > Taken THEN "queued"
    ELSE IF i \in InWork THEN "work" ELSE IF i \in Answered THEN "answered" ELSE "silent"

\* The queue holds exactly the datagrams between the two counts.
LEMMA QueueIsInterval ==
    ASSUME TypeOK, OnceInv PROVE Queued = (Taken + 1)..Pushed
<1>0. /\ Len(queue) \in Nat /\ Taken \in Nat /\ Taken + Len(queue) = Pushed
      /\ DOMAIN queue = 1..Len(queue)
  BY SMTT(30), CountsAreNat DEF TypeOK
<1>1. \A i \in 1..Len(queue) : queue[i].id = Taken + i
  BY <1>0 DEF OnceInv
<1>2. Queued = {queue[i].id : i \in 1..Len(queue)}
  BY <1>0 DEF Queued
<1>3. ASSUME NEW d \in (Taken + 1)..Pushed PROVE d \in Queued
  <2>1. d - Taken \in 1..Len(queue) /\ Taken + (d - Taken) = d
    BY <1>0
  <2> QED BY <1>1, <1>2, <2>1
<1>4. ASSUME NEW d \in Queued PROVE d \in (Taken + 1)..Pushed
  BY <1>0, <1>1, <1>2
<1> QED BY ZenonT(30), <1>3, <1>4

\* The stage by the counts is the stage of the refinement mapping.
LEMMA StageIsPlace ==
    ASSUME TypeOK, OnceInv PROVE Stage = [i \in 1..MaxDatagrams |-> Place(i)]
<1>0. /\ Pushed \in Nat /\ Taken \in Nat /\ MaxDatagrams \in Nat
  BY CountsAreNat, PoolAssumption
<1>1. ASSUME NEW i \in 1..MaxDatagrams
      PROVE  (CASE i > Pushed -> "absent"
                [] i \in Queued -> "queued"
                [] i \in InWork -> "work"
                [] \E r \in sent : r.id = i -> "answered"
                [] OTHER -> "silent") = Place(i)
  <2>1. i \in Queued <=> Taken < i /\ i <= Pushed
    BY <1>0, QueueIsInterval
  <2>2. (\E r \in sent : r.id = i) <=> i \in Answered
    BY DEF Answered
  <2>3. i \in InWork => i <= Taken
    BY <1>0 DEF InWork, OnceInv
  <2>4. i \in Answered => i <= Taken /\ i \notin InWork
    BY <1>0 DEF Answered, OnceInv, InWork
  <2>5. ~(i > Pushed /\ i \in Queued) /\ (i \in Queued <=> ~(i > Pushed) /\ i > Taken)
    BY <1>0, <2>1
  <2>6. i > Pushed => i > Taken
    BY <1>0, CountsAreNat
  <2>7. i > Taken => i \notin InWork /\ i \notin Answered
    BY <1>0, <2>3, <2>4
  <2> QED BY <2>2, <2>4, <2>5, <2>6, <2>7 DEF Place
<1> QED BY <1>1 DEF Stage

\* When a datagram changes its place and no other does, its stage changes so.
LEMMA StageMoves ==
    ASSUME TypeOK, OnceInv, TypeOK', OnceInv', NEW d \in 1..MaxDatagrams,
           \A i \in 1..MaxDatagrams : i # d => Place(i)' = Place(i)
    PROVE  Stage' = [Stage EXCEPT ![d] = Place(d)']
<1>1. Stage = [i \in 1..MaxDatagrams |-> Place(i)]
  BY StageIsPlace
<1>2. Stage' = [i \in 1..MaxDatagrams |-> Place(i)']
  <2>1. (TypeOK /\ OnceInv => Stage = [i \in 1..MaxDatagrams |-> Place(i)])'
    BY StageIsPlace, PTL
  <2> QED BY <2>1
<1> QED BY Zenon, <1>1, <1>2

\* An idle worker leaves room in the service.
LEMMA RoomForOne ==
    ASSUME NEW w \in Workers, ~Busy(w)
    PROVE  IsFiniteSet(InWork) /\ Cardinality(InWork) < Cardinality(Workers)
<1> DEFINE B == {v \in Workers : Busy(v)}
           f == [v \in B |-> job[v].id]
<1>1. IsFiniteSet(Workers) /\ Cardinality(Workers) \in Nat
  BY PoolAssumption, FS_CardinalityType
<1>2. IsFiniteSet(Workers \ {w}) /\ Cardinality(Workers \ {w}) = Cardinality(Workers) - 1
  BY <1>1, FS_RemoveElement
<1>3. B \subseteq Workers \ {w}
  OBVIOUS
<1>4. IsFiniteSet(B) /\ Cardinality(B) <= Cardinality(Workers \ {w}) /\ Cardinality(B) \in Nat
  BY ZenonT(30), <1>2, <1>3, FS_Subset, FS_CardinalityType
<1>5. f \in Surjection(B, InWork)
  BY DEF Surjection, InWork
<1>6. IsFiniteSet(InWork) /\ Cardinality(InWork) <= Cardinality(B)
  BY <1>4, <1>5, FS_Surjection
<1>7. Cardinality(InWork) \in Nat
  BY <1>6, FS_CardinalityType
<1> QED BY <1>1, <1>2, <1>4, <1>6, <1>7

\* Every step of the pipeline is a step of the service or leaves it alone.
LEMMA PipelineStep ==
    ASSUME TypeOK, OnceInv, TypeOK', OnceInv', [Next]_vars
    PROVE  [Service!Next]_Stage
<1>0. /\ Len(from) \in Nat /\ Len(queue) \in Nat /\ Pushed \in Nat /\ MaxDatagrams \in Nat
      /\ Taken \in Nat /\ Taken <= Pushed /\ Pushed <= Len(from) /\ Len(from) <= MaxDatagrams
  BY CountsAreNat, PoolAssumption DEF OnceInv
<1>1. Stage = [i \in 1..MaxDatagrams |-> Place(i)]
  BY StageIsPlace
<1>2. ASSUME UNCHANGED <<Pushed, Taken, InWork, sent>> PROVE Stage' = Stage
  <2>1. \A i \in 1..MaxDatagrams : Place(i)' = Place(i)
    BY <1>2 DEF Place, Answered
  <2>2. (TypeOK /\ OnceInv => Stage = [i \in 1..MaxDatagrams |-> Place(i)])'
    BY StageIsPlace, PTL
  <2> QED BY Zenon, <1>1, <2>1, <2>2
<1>3. CASE \/ CreatePool \/ OpenSocket \/ Received \/ LockQueue \/ \E c \in Clients : Receive(c)
           \/ Signal \/ SignalAgain \/ Shutdown \/ UNCHANGED vars
  <2>1. UNCHANGED <<queue, wpc, job, sent>> /\ Pushed' = Pushed
    BY Zenon, <1>3, MainSteps
  <2>2. UNCHANGED <<Taken, InWork>>
    BY <2>1 DEF Taken, InWork, Busy
  <2> QED BY <1>2, <2>1, <2>2
<1>4. CASE Push
  <2>1. /\ UNCHANGED <<wpc, job, sent>> /\ Len(from) = Pushed + 1 /\ Pushed' = Pushed + 1
        /\ Taken' = Taken
    BY <1>4, PushStep
  <2>2. InWork' = InWork
    BY <2>1 DEF InWork, Busy
  <2>3. PICK d \in 1..MaxDatagrams : d = Pushed + 1
    BY <1>0, <2>1
  <2>4. \A i \in 1..MaxDatagrams : i # d => Place(i)' = Place(i)
    BY <1>0, <2>1, <2>2, <2>3 DEF Place, Answered
  <2>5. Place(d) = "absent" /\ Place(d)' = "queued" /\ \A j \in 1..MaxDatagrams : j < d => Place(j) # "absent"
    BY <1>0, <2>1, <2>3 DEF Place
  <2>6. Stage' = [Stage EXCEPT ![d] = "queued"]
    BY <2>3, <2>4, <2>5, StageMoves
  <2>7. Service!Arrive(d)
    BY <1>1, <2>3, <2>5, <2>6 DEF Service!Arrive, Service!Move
  <2> QED BY <2>3, <2>7 DEF Service!Next
<1>5. ASSUME NEW w \in Workers, Take(w) PROVE [Service!Next]_Stage
  <2>1. /\ UNCHANGED <<sent>> /\ Pushed' = Pushed
        /\ ~Busy(w) /\ Busy(w)' /\ Taken' = Taken + 1 /\ Taken < Pushed /\ job'[w].id = Taken + 1
        /\ \A v \in Workers : v # w => wpc'[v] = wpc[v] /\ job'[v] = job[v]
    BY <1>5, TakeStep
  <2>2. PICK d \in 1..MaxDatagrams : d = Taken + 1
    BY <1>0, <2>1
  <2>3. InWork' = InWork \cup {d}
    BY <2>1, <2>2 DEF InWork, Busy
  <2>4. \A i \in 1..MaxDatagrams : i # d => Place(i)' = Place(i)
    BY <1>0, <2>1, <2>2, <2>3 DEF Place, Answered
  <2>5. Place(d) = "queued" /\ Place(d)' = "work" /\ \A j \in 1..MaxDatagrams : j < d => Place(j) # "queued"
    BY <1>0, <2>1, <2>2, <2>3 DEF Place
  <2>6. Stage' = [Stage EXCEPT ![d] = "work"]
    BY ZenonT(30), <2>3, <2>4, <2>5, StageMoves
  <2>7. Cardinality(Service!In("work")) < Cardinality(Workers)
    <3>1. Service!In("work") \subseteq InWork
      BY <1>1 DEF Service!In, Place
    <3>2. IsFiniteSet(InWork) /\ Cardinality(InWork) < Cardinality(Workers)
      BY <2>1, RoomForOne
    <3>3. IsFiniteSet(Service!In("work")) /\ Cardinality(Service!In("work")) <= Cardinality(InWork)
      BY <3>1, <3>2, FS_Subset
    <3>4. /\ Cardinality(Service!In("work")) \in Nat /\ Cardinality(InWork) \in Nat
          /\ Cardinality(Workers) \in Nat
      BY <3>2, <3>3, PoolAssumption, FS_CardinalityType
    <3> QED BY <3>2, <3>3, <3>4
  <2>8. Stage[d] = "queued" /\ \A j \in 1..MaxDatagrams : j < d => Stage[j] # "queued"
    BY <1>1, <2>5
  <2>9. Service!TakeUp(d)
    <3>1. Service!Cardinality(Service!In("work")) = Cardinality(Service!In("work"))
      BY Zenon DEF Service!Cardinality, Cardinality
    <3> QED BY Zenon, <2>6, <2>7, <2>8, <3>1 DEF Service!TakeUp, Service!Move
  <2> QED BY <2>3, <2>9 DEF Service!Next
<1>6. ASSUME NEW w \in Workers, Work(w) PROVE [Service!Next]_Stage
  <2>1. /\ Pushed' = Pushed /\ Taken' = Taken /\ Busy(w)
        /\ \A v \in Workers : v # w => wpc'[v] = wpc[v] /\ job'[v] = job[v]
        /\ \/ Busy(w)' /\ job'[w] = job[w] /\ sent' = sent
           \/ ~Busy(w)' /\ (sent' = sent \/ \E r \in Reads(w) : sent' = sent \cup {r})
    BY <1>6, WorkStep
  <2>2. CASE Busy(w)' /\ job'[w] = job[w] /\ sent' = sent
    <3>1. InWork' = InWork
      BY <2>1, <2>2 DEF InWork, Busy
    <3> QED BY ZenonT(30), <1>2, <2>1, <2>2, <3>1
  <2>3. CASE ~Busy(w)' /\ (sent' = sent \/ \E r \in Reads(w) : sent' = sent \cup {r})
    <3>0. PICK d \in 1..MaxDatagrams : d = job[w].id
      BY SMTT(30), <1>0, <2>1 DEF OnceInv
    <3>1. d \in 1..Taken /\ d \in InWork
      BY ZenonT(30), <2>1, <3>0 DEF OnceInv, InWork
    <3>2. InWork' = InWork \ {d}
      <4>1. \A v \in Workers : v # w /\ Busy(v) => job[v].id # d
        BY ZenonT(30), <2>1, <3>0 DEF OnceInv
      <4>2. \A v \in Workers : v # w => (Busy(v)' <=> Busy(v)) /\ job'[v] = job[v]
        BY <2>1 DEF Busy
      <4> QED BY ZenonT(30), <2>3, <3>0, <4>1, <4>2 DEF InWork
    <3>3. Answered' = Answered \/ Answered' = Answered \cup {d}
      BY <2>3, <3>0 DEF Answered, Reads
    <3>4. \A i \in 1..MaxDatagrams : i # d => Place(i)' = Place(i)
      BY ZenonT(30), <1>0, <2>1, <3>2, <3>3 DEF Place
    <3>5. Place(d) = "work" /\ Place(d)' \in {"answered", "silent"}
      BY <1>0, <2>1, <3>1, <3>2 DEF Place
    <3>6. Stage' = [Stage EXCEPT ![d] = Place(d)']
      BY <3>1, <3>4, StageMoves
    <3>7. Service!Finish(d)
      BY ZenonT(30), <1>1, <3>1, <3>5, <3>6 DEF Service!Finish, Service!Move
    <3> QED BY ZenonT(30), <3>1, <3>7 DEF Service!Next
  <2> QED BY <2>1, <2>2, <2>3
<1> QED BY Zenon, <1>3, <1>4, <1>5, <1>6 DEF Next, Main

\* The pipeline implements the first-come, first-served service.
THEOREM ImplementsRequestsHolds == Spec => ImplementsRequests
<1>1. Init => Service!Init
  <2> SUFFICES ASSUME Init PROVE Stage = [i \in 1..MaxDatagrams |-> "absent"]
    BY DEF Service!Init
  <2>1. Pushed = 0
    BY DEF Init, Pushed
  <2>2. \A i \in 1..MaxDatagrams : i > Pushed
    BY <2>1, PoolAssumption
  <2>3. Queued = {} /\ InWork = {} /\ sent = {}
    BY DEF Init, Queued, InWork, Busy
  <2> QED BY <2>2, <2>3 DEF Stage
<1>2. TypeOK /\ OnceInv /\ TypeOK' /\ OnceInv' /\ [Next]_vars => [Service!Next]_Stage
  BY PipelineStep
<1> QED BY <1>1, <1>2, TypeCorrect, OnceInvHolds, PTL DEF Spec, ImplementsRequests, Service!Spec

-----------------------------------------------------------------------------
\* How many connections to Redis the pool keeps open.

\* A function on a finite set has no more values than arguments.
LEMMA FewValues ==
    ASSUME NEW S, IsFiniteSet(S), NEW f, NEW T, T = {f[x] : x \in S}
    PROVE  IsFiniteSet(T) /\ Cardinality(T) <= Cardinality(S)
  <1> DEFINE g == [x \in S |-> f[x]]
  <1>1. g \in Surjection(S, T)
    BY DEF Surjection
  <1> QED
    BY ZenonT(30), <1>1, FS_Surjection

Replacing == {w \in Workers : wpc[w] = "replace"}
FewContexts == IsFiniteSet(live) /\ Cardinality(live) <= Cardinality(Workers) + Cardinality(Replacing)

\* However often Redis fails, is found dead by a ping and is connected to anew:
\* there is one connection per thread, and one more only for those of them that
\* are between redisConnectWithTimeout and g_private_replace.
THEOREM FewContextsHolds == Spec => []FewContexts
  <1>1. ContextOwnership => FewContexts
    <2> SUFFICES ASSUME ContextOwnership PROVE FewContexts
      OBVIOUS
    <2> DEFINE Kept == {tls[w] : w \in Workers}
               New == {redis[w] : w \in Replacing}
    <2>1. IsFiniteSet(Workers) /\ IsFiniteSet(Replacing)
      BY PoolAssumption, FS_Subset DEF Replacing
    <2>2. IsFiniteSet(Kept) /\ Cardinality(Kept) <= Cardinality(Workers)
      BY ZenonT(30), <2>1, FewValues
    <2>3. IsFiniteSet(New) /\ Cardinality(New) <= Cardinality(Replacing)
      BY ZenonT(30), <2>1, FewValues
    <2>4. live \subseteq Kept \cup New
      BY DEF ContextOwnership, Owned, Replacing
    <2> HIDE DEF Kept, New
    <2>5. /\ IsFiniteSet(Kept \cup New)
          /\ Cardinality(Kept \cup New) = Cardinality(Kept) + Cardinality(New) - Cardinality(Kept \cap New)
      BY ZenonT(30), <2>2, <2>3, FS_Union
    <2>6. IsFiniteSet(live) /\ Cardinality(live) <= Cardinality(Kept \cup New)
      BY ZenonT(30), <2>4, <2>5, FS_Subset
    <2>7. IsFiniteSet(Kept \cap New)
      BY <2>2, FS_Subset
    <2>8. /\ Cardinality(Kept \cap New) \in Nat /\ Cardinality(Kept) \in Nat /\ Cardinality(New) \in Nat
          /\ Cardinality(live) \in Nat /\ Cardinality(Workers) \in Nat /\ Cardinality(Replacing) \in Nat
      BY ZenonT(30), <2>1, <2>2, <2>3, <2>6, <2>7, FS_CardinalityType
    <2> QED
      BY <2>2, <2>3, <2>5, <2>6, <2>8 DEF FewContexts
  <1> QED
    BY <1>1, ContextOwnershipHolds, PTL
=============================================================================
