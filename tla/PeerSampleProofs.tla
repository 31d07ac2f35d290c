-------------------------- MODULE PeerSampleProofs --------------------------
(* What module PeerSample keeps for every set of keys, every number of keys  *)
(* wanted and every RAND_MAX no smaller than the number of keys.             *)
EXTENDS PeerSample, TLAPS, FiniteSetTheorems, FunctionTheorems

-----------------------------------------------------------------------------
\* What randr draws.

\* The C truncation of a quotient, by multiplication.
LEMMA DivBounds ==
    ASSUME NEW a \in Nat, NEW b \in Nat \ {0}
    PROVE  a \div b \in Nat /\ b * (a \div b) <= a /\ a < b * (a \div b) + b
OBVIOUS

\* Products keep the order of their factors.
LEMMA TimesOrder ==
    ASSUME NEW a \in Nat, NEW b \in Nat, NEW c \in Nat, a <= b
    PROVE  c * a <= c * b
OBVIOUS

\* A quotient is known by the multiples around the dividend.
LEMMA DivIs ==
    ASSUME NEW a \in Nat, NEW b \in Nat \ {0}, NEW q \in Nat, b * q <= a, a < b * q + b
    PROVE  a \div b = q
<1> DEFINE d == a \div b
<1>1. d \in Nat /\ b * d <= a /\ a < b * d + b
  BY DivBounds
<1> HIDE DEF d
<1>2. CASE d + 1 <= q
  <2>1. b * (d + 1) <= b * q /\ b * (d + 1) = b * d + b
    BY <1>1, <1>2, TimesOrder
  <2>2. b * d \in Nat /\ b * q \in Nat
    BY <1>1
  <2> QED BY <1>1, <2>1, <2>2
<1>3. CASE q + 1 <= d
  <2>1. b * (q + 1) <= b * d /\ b * (q + 1) = b * q + b
    BY <1>1, <1>3, TimesOrder
  <2>2. b * d \in Nat /\ b * q \in Nat
    BY <1>1
  <2> QED BY <1>1, <2>1, <2>2
<1> QED BY <1>1, <1>2, <1>3 DEF d

\* Below RAND_MAX randr stays within its bounds; at RAND_MAX it is one too far.
LEMMA RandrRange ==
    ASSUME NEW min \in Nat, NEW max \in Nat, min <= max, NEW rand \in 0..RandMax
    PROVE  IF rand = RandMax THEN randr(min, max, rand) = max + 1
                             ELSE randr(min, max, rand) \in min..max
<1> DEFINE m == max - min + 1
           d == (m * rand) \div RandMax
<1>0. RandMax \in Nat \ {0} /\ m \in Nat \ {0} /\ rand \in Nat /\ m * rand \in Nat
  BY SampleAssumption
<1>1. randr(min, max, rand) = d + min
  BY DEF randr
<1>2. CASE rand = RandMax
  <2>1. RandMax * m <= m * rand /\ m * rand < RandMax * m + RandMax
    BY <1>0, <1>2
  <2>2. d = m
    <3> HIDE DEF m
    <3> QED BY <1>0, <2>1, DivIs
  <2> QED BY <1>1, <1>2, <2>2
<1>3. CASE rand # RandMax
  <2>1. d \in Nat /\ RandMax * d <= m * rand
    <3> HIDE DEF m
    <3> QED BY <1>0, DivBounds
  <2>2. m * rand < m * RandMax
    <3>1. rand + 1 <= RandMax
      BY <1>0, <1>3
    <3>2. m * (rand + 1) <= m * RandMax
      <4> HIDE DEF m
      <4> QED BY <1>0, <3>1, TimesOrder
    <3>3. m * (rand + 1) = m * rand + m
      <4> HIDE DEF m
      <4> QED BY <1>0
    <3>4. m * RandMax \in Nat
      <4> HIDE DEF m
      <4> QED BY <1>0
    <3> HIDE DEF m
    <3> QED BY <1>0, <3>2, <3>3, <3>4
  <2>3. d < m
    <3> HIDE DEF m, d
    <3>1. CASE m <= d
      <4>1. RandMax * m <= RandMax * d
        BY <1>0, <2>1, <3>1, TimesOrder
      <4>2. RandMax * m = m * RandMax /\ RandMax * m \in Nat /\ RandMax * d \in Nat
        BY <1>0, <2>1
      <4> QED BY <1>0, <2>1, <2>2, <4>1, <4>2
    <3> QED BY <1>0, <2>1, <3>1
  <2>4. d + min \in min..max
    <3> HIDE DEF d
    <3> QED BY <2>1, <2>3
  <2> QED BY <1>1, <1>3, <2>4
<1> QED BY <1>2, <1>3

\* Every index between the bounds is drawn by some value below RAND_MAX.
LEMMA RandrReaches ==
    ASSUME NEW min \in Nat, NEW max \in Nat, min <= max, max - min + 1 <= RandMax, NEW k \in min..max
    PROVE  \E rand \in 0..(RandMax - 1) : randr(min, max, rand) = k
<1> DEFINE m == max - min + 1
           p == k - min
           rand == (p * RandMax + (m - 1)) \div m
<1>0. RandMax \in Nat \ {0} /\ m \in Nat \ {0} /\ p \in Nat /\ p + 1 <= m /\ p * RandMax \in Nat /\ m <= RandMax
  BY SampleAssumption
<1>1. /\ rand \in Nat /\ m * rand \in Nat
      /\ m * rand <= p * RandMax + (m - 1) /\ p * RandMax + (m - 1) < m * rand + m
  <2>1. p * RandMax + (m - 1) \in Nat
    <3> HIDE DEF m, p
    <3> QED BY <1>0
  <2>2. rand \in Nat /\ m * rand <= p * RandMax + (m - 1) /\ p * RandMax + (m - 1) < m * rand + m
    <3> HIDE DEF m, p
    <3> QED BY <1>0, <2>1, DivBounds
  <2>3. m * rand \in Nat
    <3> HIDE DEF m, rand
    <3> QED BY <1>0, <2>2
  <2> QED BY <2>2, <2>3
<1> HIDE DEF rand
<1>2. RandMax * p <= m * rand /\ m * rand < RandMax * p + RandMax
  <2> HIDE DEF m, p
  <2>1. RandMax * p = p * RandMax
    BY <1>0
  <2> QED BY <1>0, <1>1, <2>1
<1>3. (m * rand) \div RandMax = p
  <2> HIDE DEF m, p
  <2> QED BY <1>0, <1>1, <1>2, DivIs
<1>4. rand < RandMax
  <2> HIDE DEF m, p
  <2>1. RandMax * (p + 1) <= RandMax * m /\ RandMax * (p + 1) = RandMax * p + RandMax
    BY <1>0, TimesOrder
  <2>2. m * rand < m * RandMax /\ m * RandMax \in Nat
    <3>1. RandMax * m = m * RandMax /\ m * RandMax \in Nat /\ RandMax * p \in Nat
      BY <1>0
    <3> QED BY <1>0, <1>1, <1>2, <2>1, <3>1
  <2>3. CASE RandMax <= rand
    <3>1. m * RandMax <= m * rand
      BY <1>0, <1>1, <2>3, TimesOrder
    <3> QED BY <1>1, <2>2, <3>1
  <2> QED BY <1>0, <1>1, <2>3
<1>5. randr(min, max, rand) = k
  BY <1>3 DEF randr
<1> QED BY <1>0, <1>1, <1>4, <1>5

\* Smaller products have smaller factors.
LEMMA TimesCancel ==
    ASSUME NEW a \in Nat, NEW b \in Nat, NEW c \in Nat \ {0}, c * a < c * b
    PROVE  a < b
<1>1. CASE b <= a
  <2>1. c * b <= c * a /\ c * a \in Nat /\ c * b \in Nat
    BY <1>1, TimesOrder
  <2> QED BY <2>1
<1> QED BY <1>1

\* A product reaches a bound from the quotient rounded up on.
LEMMA RoundedUp ==
    ASSUME NEW a \in Nat, NEW m \in Nat \ {0}
    PROVE  LET c == (a + (m - 1)) \div m IN
           c \in Nat /\ a <= m * c /\ m * c < a + m /\ \A x \in Nat : a <= m * x <=> c <= x
<1> DEFINE c == (a + (m - 1)) \div m
<1>1. c \in Nat /\ m * c \in Nat /\ m * c <= a + (m - 1) /\ a + (m - 1) < m * c + m
  <2>1. a + (m - 1) \in Nat
    OBVIOUS
  <2>2. c \in Nat /\ m * c <= a + (m - 1) /\ a + (m - 1) < m * c + m
    BY <2>1, DivBounds
  <2> HIDE DEF c
  <2> QED BY <2>2
<1> HIDE DEF c
<1>2. a <= m * c /\ m * c < a + m
  BY <1>1
<1>3. ASSUME NEW x \in Nat, c <= x PROVE a <= m * x
  <2>1. m * c <= m * x /\ m * x \in Nat
    BY <1>1, <1>3, TimesOrder
  <2> QED BY <1>1, <1>2, <2>1
<1>4. ASSUME NEW x \in Nat, a <= m * x PROVE c <= x
  <2>1. m * (x + 1) = m * x + m /\ m * x \in Nat
    OBVIOUS
  <2>2. m * c < m * (x + 1)
    BY <1>1, <1>2, <1>4, <2>1
  <2>3. c < x + 1
    BY <1>1, <2>2, TimesCancel
  <2> QED BY <1>1, <2>3
<1>5. \A x \in Nat : a <= m * x <=> c <= x
  BY <1>3, <1>4
<1> QED BY <1>1, <1>2, <1>5 DEF c

\* The values below RAND_MAX that draw an index are an interval, and of nearly
\* the same length for each index: RAND_MAX divided by their number, rounded
\* down or up.
LEMMA RandrShares ==
    ASSUME NEW min \in Nat, NEW max \in Nat, min <= max, NEW k \in min..max
    PROVE  LET share == RandMax \div (max - min + 1) IN
           \E lo, hi \in Nat :
              /\ {rand \in 0..(RandMax - 1) : randr(min, max, rand) = k} = lo..(hi - 1)
              /\ hi - lo \in {share, share + 1}
<1> DEFINE m == max - min + 1
           p == k - min
           q == RandMax \div m
           a == RandMax * p
           b == RandMax * p + RandMax
           lo == (a + (m - 1)) \div m
           hi == (b + (m - 1)) \div m
<1>0. RandMax \in Nat \ {0} /\ m \in Nat \ {0} /\ p \in Nat /\ p + 1 <= m /\ k = p + min
  BY SampleAssumption
<1>1. \A rand : randr(min, max, rand) = (m * rand) \div RandMax + min
  BY DEF randr
<1> HIDE DEF m, p
<1>2. a \in Nat /\ b \in Nat /\ b = RandMax * (p + 1)
  BY <1>0
<1> HIDE DEF a
<1>3. q \in Nat /\ m * q \in Nat /\ m * q <= RandMax /\ RandMax < m * q + m
  <2>1. q \in Nat /\ m * q <= RandMax /\ RandMax < m * q + m
    BY <1>0, DivBounds
  <2> HIDE DEF q
  <2> QED BY <1>0, <2>1
<1>4. lo \in Nat /\ a <= m * lo /\ m * lo < a + m /\ \A x \in Nat : a <= m * x <=> lo <= x
  <2> HIDE DEF a
  <2> QED BY ZenonT(30), <1>0, <1>2, RoundedUp
<1>5. hi \in Nat /\ b <= m * hi /\ m * hi < b + m /\ \A x \in Nat : b <= m * x <=> hi <= x
  <2> HIDE DEF b
  <2> QED BY ZenonT(30), <1>0, <1>2, RoundedUp
<1>6. hi <= RandMax
  <2>1. RandMax * (p + 1) <= RandMax * m /\ RandMax * m = m * RandMax
    BY <1>0, TimesOrder
  <2> HIDE DEF hi, b
  <2> QED BY <1>0, <1>2, <1>5, <2>1
<1>7. ASSUME NEW rand \in Nat
      PROVE  (m * rand) \div RandMax = p <=> lo <= rand /\ rand < hi
  <2> DEFINE t == m * rand
             d == t \div RandMax
  <2>1. t \in Nat /\ d \in Nat /\ RandMax * d <= t /\ t < RandMax * d + RandMax
    <3>1. t \in Nat
      BY <1>0
    <3> HIDE DEF t
    <3> QED BY <1>0, <3>1, DivBounds
  <2>2. d = p => a <= t /\ t < b
    <3> HIDE DEF t, d
    <3> QED BY <2>1 DEF a, b
  <2>3. a <= t /\ t < b => d = p
    <3> HIDE DEF t
    <3> QED BY <1>0, <2>1, DivIs DEF a
  <2>4. (a <= t <=> lo <= rand) /\ (b <= t <=> hi <= rand)
    <3> HIDE DEF lo, hi, a, b
    <3> QED BY <1>4, <1>5
  <2> HIDE DEF t, d, a, b, lo, hi
  <2>5. d = p <=> lo <= rand /\ rand < hi
    BY <1>2, <1>4, <1>5, <2>1, <2>2, <2>3, <2>4
  <2> QED BY <2>5 DEF t, d
<1>8. {rand \in 0..(RandMax - 1) : randr(min, max, rand) = k} = lo..(hi - 1)
  <2>1. ASSUME NEW rand \in 0..(RandMax - 1)
        PROVE  randr(min, max, rand) = k <=> lo <= rand /\ rand < hi
    <3>1. (m * rand) \div RandMax \in Int
      BY <1>0
    <3>2. rand \in Nat
      BY <1>0
    <3> HIDE DEF lo, hi
    <3> QED BY <1>0, <1>1, <1>7, <3>1, <3>2
  <2> HIDE DEF lo, hi
  <2> QED BY <1>0, <1>4, <1>5, <1>6, <2>1
<1>9. hi - lo \in {q, q + 1}
  <2>1. m * (lo + q) = m * lo + m * q /\ m * (hi + 1) = m * hi + m /\ m * lo \in Nat /\ m * hi \in Nat
    <3> HIDE DEF lo, hi, q
    <3> QED BY <1>0, <1>3, <1>4, <1>5
  <2>2. m * (lo + q + 2) = m * lo + m * q + m + m
    <3> HIDE DEF lo, q
    <3> QED BY <1>0, <1>3, <1>4
  <2>3. m * hi < m * (lo + q + 2) /\ m * (lo + q) < m * (hi + 1)
    <3> HIDE DEF lo, hi, q
    <3>1. b = a + RandMax
      BY DEF a
    <3> HIDE DEF b
    <3> QED BY <1>0, <1>2, <1>3, <1>4, <1>5, <2>1, <2>2, <3>1
  <2>4. hi < lo + q + 2 /\ lo + q < hi + 1
    <3> HIDE DEF lo, hi, q
    <3> QED BY <1>0, <1>3, <1>4, <1>5, <2>3, TimesCancel
  <2> HIDE DEF lo, hi, q
  <2> QED BY <1>3, <1>4, <1>5, <2>4
<1> HIDE DEF lo, hi
<1> QED BY ZenonT(30), <1>4, <1>5, <1>8, <1>9 DEF m, q

-----------------------------------------------------------------------------
\* The loop.

\* Inductive: the elements stay a permutation of the keys of the reply.
SampleInv ==
    /\ TypeOK
    /\ element \in Bijection(Slots, keys)
    /\ WildOnlyAtRandMax

\* The numbers of keys listed and picked.
LEMMA SizesAreNat ==
    ASSUME keys \subseteq Keys, numWant \in 0..MaxWant
    PROVE  /\ IsFiniteSet(keys) /\ Total \in Nat /\ Total <= RandMax
           /\ Upper \in Nat /\ Upper <= Total
<1>1. /\ IsFiniteSet(keys) /\ Cardinality(keys) \in Nat /\ Cardinality(keys) <= Cardinality(Keys)
      /\ Cardinality(Keys) \in Nat
  BY SampleAssumption, FS_Subset, FS_CardinalityType
<1>2. numWant \in Nat
  BY SampleAssumption
<1> QED BY <1>1, <1>2, SampleAssumption DEF Total, Upper, UpperIndex

\* Swapping two elements keeps the permutation.
LEMMA SwapPermutes ==
    ASSUME NEW S, NEW T, NEW e \in Bijection(S, T), NEW a \in S, NEW b \in S
    PROVE  [e EXCEPT ![a] = e[b], ![b] = e[a]] \in Bijection(S, T)
<1> DEFINE f == [e EXCEPT ![a] = e[b], ![b] = e[a]]
<1>1. /\ e \in [S -> T] /\ \A x, y \in S : e[x] = e[y] => x = y
      /\ \A t \in T : \E x \in S : e[x] = t
  BY DEF Bijection, Injection, IsInjective, Surjection
<1>2. /\ f \in [S -> T] /\ f[b] = e[a] /\ (a # b => f[a] = e[b])
      /\ \A x \in S \ {a, b} : f[x] = e[x]
  BY <1>1
<1> HIDE DEF f
<1>3. f[a] = e[b]
  BY <1>2
<1>4. \A x, y \in S : f[x] = f[y] => x = y
  BY <1>1, <1>2, <1>3
<1>5. ASSUME NEW t \in T PROVE \E x \in S : f[x] = t
  <2>1. PICK x \in S : e[x] = t
    BY <1>1
  <2> QED BY <1>2, <1>3, <2>1
<1>6. f \in Bijection(S, T)
  BY <1>2, <1>4, <1>5 DEF Bijection, Injection, IsInjective, Surjection
<1> QED BY <1>6 DEF f

\* The loop keeps the permutation and its bounds, and randr is as above.
LEMMA SampleInvHolds == Spec => []SampleInv
<1>1. Init => SampleInv
  <2> SUFFICES ASSUME Init PROVE SampleInv
    OBVIOUS
  <2>1. Upper \in Nat
    BY SizesAreNat DEF Init
  <2>2. element \in [Slots -> keys]
    BY DEF Init, Bijection, Injection
  <2> QED BY <2>1, <2>2 DEF Init, SampleInv, TypeOK, WildOnlyAtRandMax
<1>2. SampleInv /\ [Next]_vars => SampleInv'
  <2> SUFFICES ASSUME SampleInv, [Next]_vars PROVE SampleInv'
    OBVIOUS
  <2>0. /\ keys \subseteq Keys /\ numWant \in 0..MaxWant /\ i \in 0..Upper
        /\ element \in Bijection(Slots, keys) /\ WildOnlyAtRandMax
        /\ draws \subseteq [rand : 0..RandMax, min : Nat, max : Nat, value : Nat]
        /\ IsFiniteSet(keys) /\ Total \in Nat /\ Upper \in Nat /\ Upper <= Total
    BY SizesAreNat DEF SampleInv, TypeOK
  <2>1. CASE UNCHANGED vars
    BY <2>1 DEF vars, SampleInv, TypeOK, WildOnlyAtRandMax, Slots, Total, Upper
  <2>2. ASSUME NEW rand \in 0..RandMax, Shuffle(rand) PROVE SampleInv'
    <3> DEFINE j == randr(i, Total - 1, rand)
               d == [rand |-> rand, min |-> i, max |-> Total - 1, value |-> j]
    <3>1. /\ i < Upper /\ UNCHANGED <<keys, numWant>> /\ draws' = draws \cup {d}
          /\ IF j \in Slots THEN element' = Swapped(j) /\ i' = i + 1 ELSE UNCHANGED <<element, i>>
      BY <2>2 DEF Shuffle, Looping
    <3>2. Slots' = Slots /\ Upper' = Upper /\ Total' = Total
      BY <3>1 DEF Slots, Upper, Total
    <3>3. i \in Nat /\ Total - 1 \in Nat /\ i <= Total - 1 /\ i \in Slots
      BY <2>0, <3>1 DEF Slots
    <3>4. IF rand = RandMax THEN j = Total ELSE j \in i..(Total - 1)
      <4>1. IF rand = RandMax THEN j = (Total - 1) + 1 ELSE j \in i..(Total - 1)
        BY <3>3, RandrRange
      <4> QED BY <2>0, <4>1
    <3> HIDE DEF j
    <3>5. j \in Nat
      BY <2>0, <3>3, <3>4
    <3>6. draws' \subseteq [rand : 0..RandMax, min : Nat, max : Nat, value : Nat]
      BY <2>0, <3>1, <3>3, <3>5
    <3>7. WildOnlyAtRandMax'
      <4>1. IF d.rand = RandMax THEN d.value = d.max + 1 ELSE d.value \in d.min..d.max
        BY <2>0, <3>4
      <4> HIDE DEF d
      <4> QED BY <2>0, <3>1, <4>1 DEF WildOnlyAtRandMax
    <3>8. i' \in 0..Upper
      BY <2>0, <3>1, <3>3
    <3>9. element' \in Bijection(Slots, keys)
      <4>1. CASE j \in Slots
        BY <2>0, <3>1, <3>3, <4>1, SwapPermutes DEF Swapped
      <4>2. CASE j \notin Slots
        BY <2>0, <3>1, <4>2
      <4> QED BY <4>1, <4>2
    <3>10. element' \in [Slots -> keys]
      BY <3>9 DEF Bijection, Injection
    <3> QED BY <2>0, <3>1, <3>2, <3>6, <3>7, <3>8, <3>9, <3>10 DEF SampleInv, TypeOK
  <2> QED BY <2>1, <2>2 DEF Next
<1> QED BY <1>1, <1>2, PTL DEF Spec

\* In every behaviour, the variables of the loop keep their types.
THEOREM TypeCorrect == Spec => []TypeOK
<1>1. SampleInv => TypeOK
  BY DEF SampleInv
<1> QED BY <1>1, SampleInvHolds, PTL

\* In every behaviour, randr is out of its bounds exactly when rand() returns
\* RAND_MAX, and then by one.
THEOREM WildOnlyAtRandMaxHolds == Spec => []WildOnlyAtRandMax
<1>1. SampleInv => WildOnlyAtRandMax
  BY DEF SampleInv
<1> QED BY <1>1, SampleInvHolds, PTL

\* In every behaviour that draws no index beyond the reply, the elements picked
\* are different keys, as many as wanted or as there are.
THEOREM SampleValidHolds == Spec => []SampleValid
<1>1. SampleInv => SampleValid
  <2> SUFFICES ASSUME SampleInv PROVE {element[k] : k \in 0..(Upper - 1)} \in Selections(keys, numWant)
    BY DEF SampleValid
  <2> DEFINE P == 0..(Upper - 1)
             S == {element[k] : k \in P}
             f == [k \in P |-> element[k]]
  <2>1. Total \in Nat /\ Upper \in Nat /\ Upper <= Total
    BY SizesAreNat DEF SampleInv, TypeOK
  <2>2. P \subseteq Slots
    BY <2>1 DEF Slots
  <2>3. element \in [Slots -> keys] /\ \A x, y \in Slots : element[x] = element[y] => x = y
    BY DEF SampleInv, Bijection, Injection, IsInjective
  <2>4. S \subseteq keys
    BY <2>2, <2>3
  <2>5. IsFiniteSet(P) /\ Cardinality(P) = Upper
    <3>1. 0 \in Int /\ Upper - 1 \in Int
      BY <2>1
    <3>2. IsFiniteSet(P) /\ Cardinality(P) = IF 0 > Upper - 1 THEN 0 ELSE Upper - 1 - 0 + 1
      BY <3>1, FS_Interval
    <3> QED BY <2>1, <3>2
  <2>6. ExistsBijection(P, S)
    <3>1. f \in [P -> S]
      OBVIOUS
    <3>2. \A x, y \in P : f[x] = f[y] => x = y
      BY <2>2, <2>3
    <3>3. \A s \in S : \E x \in P : f[x] = s
      OBVIOUS
    <3> HIDE DEF f, S, P
    <3>4. f \in Bijection(P, S)
      BY <3>1, <3>2, <3>3 DEF Bijection, Injection, IsInjective, Surjection
    <3> QED BY <3>4 DEF ExistsBijection
  <2>7. Cardinality(S) = Upper
    BY <2>5, <2>6, FS_Bijection
  <2> QED BY <2>4, <2>7 DEF Selections, Upper, Total
<1> QED BY <1>1, SampleInvHolds, PTL

\* In every behaviour, each key that is left may be the next one picked.
THEOREM EveryPeerHasAChanceHolds == Spec => []EveryPeerHasAChance
<1>1. SampleInv => EveryPeerHasAChance
  <2> SUFFICES ASSUME SampleInv, Looping, NEW k \in i..(Total - 1)
               PROVE  \E rand \in 0..(RandMax - 1) : Swapped(randr(i, Total - 1, rand))[i] = element[k]
    BY DEF EveryPeerHasAChance
  <2>1. /\ Total \in Nat /\ Upper \in Nat /\ Upper <= Total /\ Total <= RandMax
        /\ i \in 0..Upper /\ i < Upper
    BY SizesAreNat DEF SampleInv, TypeOK, Looping
  <2>2. i \in Nat /\ Total - 1 \in Nat /\ i <= Total - 1 /\ (Total - 1) - i + 1 <= RandMax
    BY <2>1, SampleAssumption
  <2>3. PICK rand \in 0..(RandMax - 1) : randr(i, Total - 1, rand) = k
    BY <2>2, RandrReaches
  <2>4. i \in Slots /\ k \in Slots /\ element \in [Slots -> keys]
    BY <2>1, <2>2 DEF Slots, SampleInv, TypeOK
  <2>5. Swapped(k)[i] = element[k]
    BY <2>4 DEF Swapped
  <2> QED BY <2>3, <2>5
<1> QED BY <1>1, SampleInvHolds, PTL

\* In every behaviour, each key that is left is picked by as many values of
\* rand() as any other, give or take one.
THEOREM EvenChancesHolds == Spec => []EvenChances
<1>1. SampleInv => EvenChances
  <2> DEFINE share == RandMax \div (Total - i)
  <2> SUFFICES ASSUME SampleInv, Looping, NEW k \in i..(Total - 1)
               PROVE  Cardinality(Draws(k)) \in {share, share + 1}
    BY DEF EvenChances
  <2>1. /\ Total \in Nat /\ Upper \in Nat /\ Upper <= Total /\ Total <= RandMax
        /\ i \in 0..Upper /\ i < Upper
    BY SizesAreNat DEF SampleInv, TypeOK, Looping
  <2>2. i \in Nat /\ Total - 1 \in Nat /\ i <= Total - 1 /\ (Total - 1) - i + 1 = Total - i
    BY <2>1
  <2>3. PICK lo \in Nat, hi \in Nat : Draws(k) = lo..(hi - 1) /\ hi - lo \in {share, share + 1}
    BY ZenonT(30), <2>2, RandrShares DEF Draws
  <2>4. share \in Nat
    BY <2>1, <2>2, DivBounds, SampleAssumption
  <2> HIDE DEF share
  <2>5. Cardinality(lo..(hi - 1)) = IF lo > hi - 1 THEN 0 ELSE (hi - 1) - lo + 1
    BY FS_Interval
  <2> QED BY <2>3, <2>4, <2>5
<1> QED BY <1>1, SampleInvHolds, PTL
=============================================================================
