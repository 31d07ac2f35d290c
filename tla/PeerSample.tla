----------------------------- MODULE PeerSample -----------------------------
(***************************************************************************)
(* How bt_peer_list picks peers: the shuffle of the keys Redis has listed, *)
(* with the indices randr draws.  rand() is external: any value up to      *)
(* RandMax, which is RAND_MAX there.  randr divides doubles and truncates; *)
(* RAND_MAX is far from a double's precision, so integers say the same.    *)
(*                                                                         *)
(* An operator whose name ends in an underscore is the one that follows it *)
(* with one mistake.  No behaviour uses these.                             *)
(***************************************************************************)
EXTENDS Sampling, Functions

CONSTANTS
    Keys,      \* keys of the peers Redis may list
    RandMax,   \* bound: RAND_MAX
    MaxWant    \* bound: num_want

ASSUME SampleAssumption ==
    /\ IsFiniteSet(Keys)
    /\ RandMax \in Nat \ {0} /\ Cardinality(Keys) <= RandMax
    /\ MaxWant \in Nat

VARIABLES
    keys,      \* the keys in the reply
    element,   \* reply->element, from 0 on
    numWant,   \* num_want
    i,         \* the loop variable
    draws      \* history: calls of randr

vars == <<keys, element, numWant, i, draws>>

Total == Cardinality(keys)
Upper == UpperIndex(Total, numWant)
Slots == 0..(Total - 1)

Init ==
    /\ keys \in SUBSET Keys
    /\ element \in Bijection(Slots, keys)
    /\ numWant \in 0..MaxWant
    /\ i = 0
    /\ draws = {}

\* The two mistakes: to round, and to leave the + 1 out.
randr_(min, max, rand) == (2 * (max - min + 1) * rand + RandMax) \div (2 * RandMax) + min
randr__(min, max, rand) == ((max - min) * rand) \div RandMax + min
randr(min, max, rand) == ((max - min + 1) * rand) \div RandMax + min

\* A draw beyond the last slot.  What is read and overwritten there is not the
\* reply's, and nothing can be said of the rest of the loop.
Wild == \E d \in draws : d.value > d.max

Looping_ == ~Wild /\ i <= Upper /\ i < Total
Looping == ~Wild /\ i < Upper

Swapped_(j) == [element EXCEPT ![i] = element[j]]
Swapped(j) == [element EXCEPT ![i] = element[j], ![j] = element[i]]

\* One round of the loop.
Shuffle(rand) ==
    /\ Looping
    /\ LET j == randr(i, Total - 1, rand) IN
       /\ draws' = draws \cup {[rand |-> rand, min |-> i, max |-> Total - 1, value |-> j]}
       /\ IF j \in Slots THEN element' = Swapped(j) /\ i' = i + 1
                         ELSE UNCHANGED <<element, i>>
    /\ UNCHANGED <<keys, numWant>>

Next == \E rand \in 0..RandMax : Shuffle(rand)
Spec == Init /\ [][Next]_vars

-----------------------------------------------------------------------------
\* What the code keeps.

\* Every variable keeps its type; the loop stays within the keys it may pick.
TypeOK ==
    /\ keys \subseteq Keys
    /\ element \in [Slots -> keys]
    /\ numWant \in 0..MaxWant
    /\ i \in 0..Upper
    /\ draws \subseteq [rand : 0..RandMax, min : Nat, max : Nat, value : Nat]

\* After the loop, the first upper_index elements, for which bt_peer_list sends
\* its GETs, are different keys of the reply, as many as wanted or as there
\* are: the shuffle loses and repeats no peer.  Module Swarm rests on this.
SampleValid ==
    i = Upper /\ ~Wild => {element[k] : k \in 0..(Upper - 1)} \in Selections(keys, numWant)

\* randr leaves the array only when rand() returns exactly RAND_MAX, and then by
\* one slot.
WildOnlyAtRandMax ==
    \A d \in draws : IF d.rand = RandMax THEN d.value = d.max + 1 ELSE d.value \in d.min..d.max

\* "Shuffles the keys a little bit to ensure all peers have a chance": in every
\* round some value of rand() below RAND_MAX moves each key that is left to the
\* slot that is filled.
EveryPeerHasAChance ==
    Looping => \A k \in i..(Total - 1) : \E rand \in 0..(RandMax - 1) :
                  Swapped(randr(i, Total - 1, rand))[i] = element[k]

\* The values of rand() below RAND_MAX for which randr draws the slot k.
Draws(k) == {rand \in 0..(RandMax - 1) : randr(i, Total - 1, rand) = k}

\* The shuffle has no favourites: in every round the RAND_MAX values of rand()
\* that stay within the array are shared evenly, one more or less, among the
\* keys that are left.
EvenChances ==
    Looping => LET share == RandMax \div (Total - i) IN
               \A k \in i..(Total - 1) : Cardinality(Draws(k)) \in {share, share + 1}

-----------------------------------------------------------------------------
\* What a comment says and the code does not do.

\* random.h: "Returns a random number between min (inclusive) and max (inclusive)."
RandrInclusive == \A d \in draws : d.value \in d.min..d.max
=============================================================================
