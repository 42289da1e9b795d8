--------------------------- MODULE Services_proofs ---------------------------
(***************************************************************************)
(* What the services beside the game promise, for every limit, window, age *)
(* limit and number of players, rooms, sockets, loads and commands.        *)
(*                                                                         *)
(* Each part has the inductive invariant of one service, the lemma that a  *)
(* step of that service keeps it, and the theorem of the composition.      *)
(***************************************************************************)
EXTENDS Services, SequenceTheorems, FiniteSetTheorems, WellFoundedInduction, TLAPS

\* A step of the composition is a step of one service, and none of the others.
LEMMA OneServiceSteps ==
  [Next]_vars =>
    /\ [Rates!Next]_rates /\ [Admission!Next]_admission /\ [Lifecycle!Next]_lifecycle
    /\ [Source!Next]_source /\ [Commands!Next]_commands
  BY DEF Next, vars, rates, admission, lifecycle, source, commands

\* A set of numbers that is not empty has a smallest one.
LEMMA LeastMember ==
  ASSUME NEW S \in SUBSET Nat, S # {}
  PROVE  LET least == CHOOSE k \in S : \A j \in S : k <= j
         IN  least \in S /\ \A j \in S : least <= j
<1> DEFINE Less == {ss \in Nat \X Nat : ss[1] < ss[2]}
<1>1. IsWellFoundedOn(Less, Nat)
  BY NatLessThanWellFounded, Zenon DEF OpToRel
<1>2. ASSUME NEW a \in Nat, NEW b \in Nat, a < b
      PROVE  <<a, b>> \in Less
  BY <1>2
<1> HIDE DEF Less
<1>3. PICK x \in S : \A y \in S : ~ (<<y, x>> \in Less)
  BY <1>1, WFMin, Zenon
<1>4. \A y \in S : x <= y
  <2> TAKE y \in S
  <2>1. x \in Nat /\ y \in Nat
    OBVIOUS
  <2>2. ~ (y < x)
    BY <2>1, <1>2, <1>3, Zenon
  <2> QED
    BY <2>1, <2>2
<1> QED
  BY <1>4

-----------------------------------------------------------------------------
(***************************************************************************)
(* RateWindow: a bucket is the end of the list of all calls that were let  *)
(* through, and what was dropped from it is old.                           *)
(***************************************************************************)

\* c is the end of the list of calls, and all calls before it are old
EndOfPassed(c) ==
  /\ c \in Seq(0 .. RateEnd)
  /\ Len(c) <= Len(passed)
  /\ \A i \in 1 .. Len(c) : c[i] = passed[Len(passed) - Len(c) + i]
  /\ \A i \in 1 .. Len(passed) - Len(c) : rNow - passed[i] >= Span

RatesInv ==
  /\ Rates!TypeOK
  /\ EndOfPassed(bucket)
  /\ \A i, j \in DOMAIN passed : i <= j => passed[i] <= passed[j]
  /\ \A i \in DOMAIN passed : passed[i] <= rNow
  /\ refused # Rates!Never => refused <= rNow
  /\ Rates!NoBurst
  /\ Rates!RefusalIsDue

\* What is left of the bucket is again such an end, and it is young
LEMMA CurrentShape ==
  ASSUME RatesInv
  PROVE  /\ EndOfPassed(Rates!Current(bucket))
         /\ \A i \in 1 .. Len(Rates!Current(bucket)) : rNow - Rates!Current(bucket)[i] < Span
<1> DEFINE young == {i \in DOMAIN bucket : rNow - bucket[i] < Span}
           least == CHOOSE k \in young : \A j \in young : k <= j
           c     == Rates!Current(bucket)
<1>0. /\ Span \in Nat \ {0} /\ rNow \in Nat /\ RateEnd \in Nat
      /\ bucket \in Seq(0 .. RateEnd) /\ passed \in Seq(0 .. RateEnd)
      /\ Len(bucket) \in Nat /\ Len(passed) \in Nat /\ Len(bucket) <= Len(passed)
      /\ DOMAIN bucket = 1 .. Len(bucket) /\ DOMAIN passed = 1 .. Len(passed)
      /\ \A i \in 1 .. Len(passed) : passed[i] \in Nat
      /\ \A i \in 1 .. Len(bucket) : bucket[i] \in 0 .. RateEnd /\ bucket[i] \in Nat
  <2>1. bucket \in Seq(0 .. RateEnd) /\ passed \in Seq(0 .. RateEnd) /\ rNow \in Nat
        /\ Span \in Nat \ {0} /\ RateEnd \in Nat /\ Len(bucket) <= Len(passed)
    BY Parameters DEF RatesInv, EndOfPassed, Rates!TypeOK, Rates!RateParameters
  <2>2. /\ Len(bucket) \in Nat /\ DOMAIN bucket = 1 .. Len(bucket)
        /\ \A i \in 1 .. Len(bucket) : bucket[i] \in 0 .. RateEnd
    BY <2>1, LenProperties, ElementOfSeq
  <2>3. /\ Len(passed) \in Nat /\ DOMAIN passed = 1 .. Len(passed)
        /\ \A i \in 1 .. Len(passed) : passed[i] \in 0 .. RateEnd
    BY <2>1, LenProperties, ElementOfSeq
  <2> QED
    BY <2>1, <2>2, <2>3
<1>1. \A i \in 1 .. Len(bucket) : bucket[i] = passed[Len(passed) - Len(bucket) + i]
  BY DEF RatesInv, EndOfPassed
<1>2. \A i, j \in 1 .. Len(bucket) : i <= j => bucket[i] <= bucket[j]
  <2> TAKE i, j \in 1 .. Len(bucket)
  <2>1. /\ Len(passed) - Len(bucket) + i \in DOMAIN passed
        /\ Len(passed) - Len(bucket) + j \in DOMAIN passed
    BY <1>0
  <2>2. i <= j => Len(passed) - Len(bucket) + i <= Len(passed) - Len(bucket) + j
    BY <1>0
  <2> QED
    BY <1>1, <2>1, <2>2 DEF RatesInv
<1>3. c = IF young = {} THEN <<>> ELSE SubSeq(bucket, least, Len(bucket))
  BY DEF Rates!Current, Rates!From
<1>4. CASE young = {}
  <2>1. c = <<>> /\ Len(c) = 0 /\ c \in Seq(0 .. RateEnd)
    BY <1>3, <1>4
  <2> HIDE DEF c
  <2>2. \A i \in 1 .. Len(bucket) : rNow - bucket[i] >= Span
    <3> TAKE i \in 1 .. Len(bucket)
    <3>1. ~ (rNow - bucket[i] < Span) /\ bucket[i] \in Nat
      BY <1>0, <1>4
    <3> QED
      BY <1>0, <3>1
  <2>3. \A i \in 1 .. Len(passed) : rNow - passed[i] >= Span
    <3> TAKE i \in 1 .. Len(passed)
    <3>1. CASE i <= Len(passed) - Len(bucket)
      BY <1>0, <3>1 DEF RatesInv, EndOfPassed
    <3>2. CASE i > Len(passed) - Len(bucket)
      <4> DEFINE k == i - (Len(passed) - Len(bucket))
      <4>1. k \in 1 .. Len(bucket) /\ i = Len(passed) - Len(bucket) + k
        BY <1>0, <3>2
      <4> HIDE DEF k
      <4> QED
        BY <1>1, <2>2, <4>1
    <3> QED
      BY <1>0, <3>1, <3>2
  <2> QED
    BY <1>0, <2>1, <2>3 DEF EndOfPassed, c
<1>5. CASE young # {}
  <2>1. young \in SUBSET Nat
    BY <1>0
  <2>2. least \in young /\ \A j \in young : least <= j
    BY <1>5, <2>1, LeastMember
  <2>3. c = SubSeq(bucket, least, Len(bucket))
    BY <1>3, <1>5
  <2> HIDE DEF least
  <2>4. least \in 1 .. Len(bucket) /\ rNow - bucket[least] < Span
    BY <1>0, <2>2
  <2>5. \A i \in 1 .. Len(bucket) : i < least => rNow - bucket[i] >= Span
    <3> SUFFICES ASSUME NEW i \in 1 .. Len(bucket), i < least, rNow - bucket[i] < Span
                 PROVE  FALSE
      BY <1>0
    <3>1. i \in young
      BY <1>0
    <3> QED
      BY <1>0, <2>2, <2>4, <3>1
  <2>6. /\ c \in Seq(0 .. RateEnd) /\ Len(c) = Len(bucket) - least + 1
        /\ \A i \in 1 .. Len(c) : c[i] = bucket[least + i - 1]
    <3>1. \A i \in least .. Len(bucket) : bucket[i] \in 0 .. RateEnd
      BY <1>0, <2>4
    <3>2. least \in Int /\ Len(bucket) \in Int
      BY <1>0, <2>4
    <3>3. /\ c \in Seq(0 .. RateEnd)
          /\ Len(c) = IF least <= Len(bucket) THEN Len(bucket) - least + 1 ELSE 0
          /\ \A i \in 1 .. Len(bucket) - least + 1 : c[i] = bucket[least + i - 1]
      BY <1>0, <2>3, <3>1, <3>2, SubSeqProperties
    <3> QED
      BY <1>0, <2>4, <3>3
  <2> HIDE DEF c
  <2>7. \A i \in 1 .. Len(c) : least + i - 1 \in 1 .. Len(bucket) /\ least <= least + i - 1
    BY <1>0, <2>4, <2>6
  <2>8. \A i \in 1 .. Len(c) : c[i] = passed[Len(passed) - Len(c) + i]
    <3> TAKE i \in 1 .. Len(c)
    <3>1. Len(passed) - Len(bucket) + (least + i - 1) = Len(passed) - Len(c) + i
      BY <1>0, <2>4, <2>6
    <3> QED
      BY <1>1, <2>6, <2>7, <3>1
  <2>9. \A i \in 1 .. Len(c) : rNow - c[i] < Span
    <3> TAKE i \in 1 .. Len(c)
    <3>1. bucket[least] <= bucket[least + i - 1]
      BY <1>2, <2>4, <2>7
    <3>2. bucket[least + i - 1] \in Nat /\ c[i] = bucket[least + i - 1]
      BY <1>0, <2>6, <2>7
    <3>3. bucket[least] \in Nat /\ rNow - bucket[least] < Span /\ rNow \in Nat /\ Span \in Nat
      BY <1>0, <2>4
    <3> QED
      BY <3>1, <3>2, <3>3
  <2>10. \A i \in 1 .. Len(passed) - Len(c) : rNow - passed[i] >= Span
    <3> TAKE i \in 1 .. Len(passed) - Len(c)
    <3>1. CASE i <= Len(passed) - Len(bucket)
      BY <1>0, <3>1 DEF RatesInv, EndOfPassed
    <3>2. CASE i > Len(passed) - Len(bucket)
      <4> DEFINE k == i - (Len(passed) - Len(bucket))
      <4>0. /\ Len(c) = Len(bucket) - least + 1 /\ least \in 1 .. Len(bucket)
            /\ Len(bucket) \in Nat /\ Len(passed) \in Nat
        BY <1>0, <2>4, <2>6
      <4>1. k \in 1 .. Len(bucket) /\ k < least /\ i = Len(passed) - Len(bucket) + k
        BY <3>2, <4>0
      <4> HIDE DEF k
      <4> QED
        BY <1>1, <2>5, <4>1
    <3> QED
      BY <1>0, <2>6, <3>1, <3>2
  <2> QED
    BY <1>0, <2>4, <2>6, <2>8, <2>9, <2>10 DEF EndOfPassed, c
<1> QED
  BY <1>4, <1>5

\* The numbers and lists of a state, spelled out for the lemmas below
LEMMA RatesTypes ==
  ASSUME RatesInv
  PROVE  /\ Limit \in Nat \ {0} /\ Span \in Nat \ {0} /\ RateEnd \in Nat
         /\ rNow \in 0 .. RateEnd /\ rNow \in Nat
         /\ passed \in Seq(0 .. RateEnd) /\ Len(passed) \in Nat
         /\ DOMAIN passed = 1 .. Len(passed)
         /\ \A i \in 1 .. Len(passed) : passed[i] \in Nat
         /\ refused \in {Rates!Never} \union 0 .. RateEnd
<1>1. /\ Limit \in Nat \ {0} /\ Span \in Nat \ {0} /\ RateEnd \in Nat
      /\ rNow \in 0 .. RateEnd /\ passed \in Seq(0 .. RateEnd)
      /\ refused \in {Rates!Never} \union 0 .. RateEnd
  BY Parameters DEF RatesInv, Rates!TypeOK, Rates!RateParameters
<1>2. /\ Len(passed) \in Nat /\ DOMAIN passed = 1 .. Len(passed)
      /\ \A i \in 1 .. Len(passed) : passed[i] \in 0 .. RateEnd
  BY <1>1, LenProperties, ElementOfSeq
<1> QED
  BY <1>1, <1>2

\* The instance counts with an operator of its own, which is the same
LEMMA RatesCardinality == \A S : Rates!Cardinality(S) = Cardinality(S)
  BY Zenon DEF Rates!Cardinality, Cardinality

\* A call that was refused stays a call that was refused with good reason:
\* the calls in its window are not forgotten
LEMMA RefusalStays ==
  ASSUME RatesInv, refused' = refused,
         passed' \in Seq(0 .. RateEnd), Len(passed) <= Len(passed'),
         \A i \in 1 .. Len(passed) : passed'[i] = passed[i]
  PROVE  Rates!RefusalIsDue'
<1> DEFINE before == {i \in DOMAIN passed : refused - Span < passed[i] /\ passed[i] <= refused}
           after  == {i \in DOMAIN passed' : refused - Span < passed'[i] /\ passed'[i] <= refused}
<1>1. Len(passed') \in Nat /\ DOMAIN passed' = 1 .. Len(passed')
  BY LenProperties
<1>2. Len(passed) \in Nat /\ DOMAIN passed = 1 .. Len(passed) /\ Limit \in Nat
  BY RatesTypes
<1>3. before \subseteq after
  BY <1>1, <1>2
<1>4. IsFiniteSet(1 .. Len(passed'))
  BY <1>1, FS_Interval
<1>5. IsFiniteSet(after)
  <2>1. after \subseteq 1 .. Len(passed')
    BY <1>1
  <2> QED
    BY <1>4, <2>1, FS_Subset
<1>6. Cardinality(before) <= Cardinality(after)
      /\ Cardinality(before) \in Nat /\ Cardinality(after) \in Nat
  <2> HIDE DEF before, after
  <2>1. Cardinality(before) <= Cardinality(after) /\ IsFiniteSet(before)
    BY <1>3, <1>5, FS_Subset
  <2> QED
    BY <1>5, <2>1, FS_CardinalityType
<1>7. refused # Rates!Never => Cardinality(before) >= Limit
  <2>1. before = Rates!PassedWithin(refused - Span, refused)
    BY DEF Rates!PassedWithin
  <2> HIDE DEF before
  <2> QED
    BY <2>1, RatesCardinality DEF RatesInv, Rates!RefusalIsDue
<1>8. refused # Rates!Never => Cardinality(after) >= Limit
  <2> HIDE DEF before, after
  <2> QED
    BY <1>2, <1>6, <1>7
<1>9. after = Rates!PassedWithin(refused - Span, refused)'
  BY DEF Rates!PassedWithin
<1> HIDE DEF after
<1> QED
  BY <1>8, <1>9, RatesCardinality DEF Rates!RefusalIsDue, Rates!Never

\* Time passes: what is old stays old
LEMMA RatesTick ==
  ASSUME RatesInv, Rates!Tick
  PROVE  RatesInv'
<1>1. /\ rNow' \in 0 .. RateEnd /\ rNow < rNow'
      /\ bucket' = bucket /\ passed' = passed /\ refused' = refused
  BY RatesTypes DEF Rates!Tick
<1>2. Rates!RefusalIsDue'
  BY <1>1, RatesTypes, RefusalStays
<1>3. EndOfPassed(bucket)'
  <2>1. \A i \in 1 .. Len(passed) - Len(bucket) : rNow' - passed[i] >= Span
    <3> TAKE i \in 1 .. Len(passed) - Len(bucket)
    <3>1. rNow - passed[i] >= Span
      BY DEF RatesInv, EndOfPassed
    <3>2. i \in 1 .. Len(passed)
      <4>1. Len(bucket) \in Nat
        BY LenProperties DEF RatesInv, EndOfPassed
      <4> QED
        BY <4>1, RatesTypes
    <3>3. passed[i] \in Nat /\ rNow \in Nat /\ Span \in Nat
      BY <3>2, RatesTypes
    <3> QED
      BY <1>1, <3>1, <3>3
  <2> QED
    BY <1>1, <2>1 DEF RatesInv, EndOfPassed
<1>4. \A i \in DOMAIN passed : passed[i] <= rNow'
  <2> TAKE i \in DOMAIN passed
  <2>1. passed[i] \in Nat /\ rNow \in Nat /\ passed[i] <= rNow
    BY RatesTypes DEF RatesInv
  <2> QED
    BY <1>1, <2>1
<1>5. refused' # Rates!Never => refused' <= rNow'
  BY <1>1, RatesTypes DEF RatesInv, Rates!Never
<1> QED
  BY <1>1, <1>2, <1>3, <1>4, <1>5 DEF RatesInv, Rates!TypeOK, Rates!NoBurst, Rates!Never

\* The cleanup task cuts the bucket
LEMMA RatesPrune ==
  ASSUME RatesInv, Rates!Prune
  PROVE  RatesInv'
<1>1. bucket' = Rates!Current(bucket)
      /\ rNow' = rNow /\ passed' = passed /\ refused' = refused
  BY DEF Rates!Prune
<1>2. EndOfPassed(bucket')
  BY <1>1, CurrentShape
<1>3. EndOfPassed(bucket)'
  BY <1>1, <1>2 DEF EndOfPassed
<1> QED
  BY <1>1, <1>3
  DEF RatesInv, Rates!TypeOK, Rates!NoBurst, Rates!Never, Rates!RefusalIsDue,
      Rates!PassedWithin, EndOfPassed

\* A call is let through: the call Limit calls before it was dropped, and is old
LEMMA RatesAllow ==
  ASSUME RatesInv, Rates!Allow
  PROVE  RatesInv'
<1> DEFINE c == Rates!Current(bucket)
           n == Len(passed)
<1>1. /\ Len(c) < Limit /\ bucket' = Append(c, rNow)
      /\ passed' = Append(passed, rNow) /\ rNow' = rNow /\ refused' = refused
  BY DEF Rates!Allow
<1>2. EndOfPassed(c)
  BY CurrentShape
<1> HIDE DEF c
<1>3. /\ c \in Seq(0 .. RateEnd) /\ Len(c) \in Nat /\ Len(c) <= n
      /\ \A i \in 1 .. Len(c) : c[i] = passed[n - Len(c) + i]
      /\ \A i \in 1 .. n - Len(c) : rNow - passed[i] >= Span
  BY <1>2, LenProperties DEF EndOfPassed
<1>4. /\ n \in Nat /\ DOMAIN passed = 1 .. n /\ Limit \in Nat \ {0} /\ Span \in Nat \ {0}
      /\ rNow \in 0 .. RateEnd /\ rNow \in Nat
      /\ passed \in Seq(0 .. RateEnd) /\ \A i \in 1 .. n : passed[i] \in Nat
  BY RatesTypes
<1>5. /\ passed' \in Seq(0 .. RateEnd) /\ Len(passed') = n + 1 /\ DOMAIN passed' = 1 .. n + 1
      /\ \A i \in 1 .. n : passed'[i] = passed[i]
      /\ passed'[n + 1] = rNow
  <2>1. /\ passed' \in Seq(0 .. RateEnd) /\ Len(passed') = n + 1
        /\ \A i \in 1 .. n : passed'[i] = passed[i]
        /\ passed'[n + 1] = rNow
    BY <1>1, <1>4, AppendProperties
  <2> QED
    BY <2>1, LenProperties
<1>6. /\ bucket' \in Seq(0 .. RateEnd) /\ Len(bucket') = Len(c) + 1
      /\ \A i \in 1 .. Len(c) : bucket'[i] = c[i]
      /\ bucket'[Len(c) + 1] = rNow
  BY <1>1, <1>3, <1>4, AppendProperties
<1> HIDE DEF n
<1>7. EndOfPassed(bucket)'
  <2>1. \A i \in 1 .. Len(bucket') : bucket'[i] = passed'[Len(passed') - Len(bucket') + i]
    <3> TAKE i \in 1 .. Len(bucket')
    <3>1. Len(passed') - Len(bucket') + i = n - Len(c) + i
      BY <1>3, <1>4, <1>5, <1>6
    <3>2. CASE i \in 1 .. Len(c)
      <4>1. n - Len(c) + i \in 1 .. n
        BY <1>3, <1>4, <3>2
      <4> QED
        BY <1>3, <1>5, <1>6, <3>1, <3>2, <4>1
    <3>3. CASE i = Len(c) + 1
      <4>1. n - Len(c) + i = n + 1
        BY <1>3, <1>4, <3>3
      <4> QED
        BY <1>5, <1>6, <3>1, <3>3, <4>1
    <3> QED
      BY <1>3, <1>6, <3>2, <3>3
  <2>2. \A i \in 1 .. Len(passed') - Len(bucket') : rNow - passed'[i] >= Span
    <3> TAKE i \in 1 .. Len(passed') - Len(bucket')
    <3>1. i \in 1 .. n - Len(c) /\ i \in 1 .. n
      BY <1>3, <1>4, <1>5, <1>6
    <3> QED
      BY <1>3, <1>5, <3>1
  <2>3. Len(bucket') <= Len(passed')
    BY <1>3, <1>4, <1>5, <1>6
  <2> QED
    BY <1>1, <1>6, <2>1, <2>2, <2>3 DEF EndOfPassed
<1>8. \A i \in DOMAIN passed' : passed'[i] <= rNow
  <2> TAKE i \in DOMAIN passed'
  <2>1. CASE i \in 1 .. n
    BY <1>4, <1>5, <2>1 DEF RatesInv
  <2>2. CASE i = n + 1
    BY <1>4, <1>5, <2>2
  <2> QED
    BY <1>4, <1>5, <2>1, <2>2
<1>9. \A i, j \in DOMAIN passed' : i <= j => passed'[i] <= passed'[j]
  <2> SUFFICES ASSUME NEW i \in DOMAIN passed', NEW j \in DOMAIN passed', i <= j
               PROVE  passed'[i] <= passed'[j]
    OBVIOUS
  <2>1. CASE j = n + 1
    BY <1>5, <1>8, <2>1
  <2>2. CASE j \in 1 .. n
    <3>1. i \in 1 .. n
      BY <1>4, <1>5, <2>2
    <3> QED
      BY <1>4, <1>5, <2>2, <3>1 DEF RatesInv
  <2> QED
    BY <1>4, <1>5, <2>1, <2>2
<1>10. Rates!NoBurst'
  <2>1. \A i \in DOMAIN passed' : i + Limit <= Len(passed') => passed'[i + Limit] - passed'[i] >= Span
    <3> SUFFICES ASSUME NEW i \in DOMAIN passed', i + Limit <= n + 1
                 PROVE  passed'[i + Limit] - passed'[i] >= Span
      BY <1>5
    <3>1. i \in 1 .. n /\ i + Limit \in 1 .. n + 1
      BY <1>4, <1>5
    <3>2. CASE i + Limit <= n
      <4>1. i + Limit \in 1 .. n
        BY <1>4, <3>1, <3>2
      <4>2. passed[i + Limit] - passed[i] >= Span
        BY <1>4, <3>1, <3>2 DEF RatesInv, Rates!NoBurst, n
      <4> QED
        BY <1>5, <3>1, <4>1, <4>2
    <3>3. CASE i + Limit = n + 1
      <4>1. i \in 1 .. n - Len(c)
        BY <1>1, <1>3, <1>4, <3>1, <3>3
      <4>2. rNow - passed[i] >= Span
        BY <1>3, <4>1
      <4> QED
        BY <1>5, <3>1, <3>3, <4>2
    <3> QED
      BY <1>4, <3>1, <3>2, <3>3
  <2> QED
    BY <2>1 DEF Rates!NoBurst
<1>11. Rates!RefusalIsDue'
  <2>1. Len(passed) <= Len(passed') /\ \A i \in 1 .. Len(passed) : passed'[i] = passed[i]
    BY <1>4, <1>5 DEF n
  <2> QED
    BY <1>1, <1>5, <2>1, RefusalStays
<1>12. Rates!TypeOK'
  BY <1>1, <1>5, <1>6 DEF RatesInv, Rates!TypeOK, Rates!Never
<1>13. refused' # Rates!Never => refused' <= rNow'
  BY <1>1 DEF RatesInv, Rates!Never
<1> QED
  BY <1>1, <1>7, <1>8, <1>9, <1>10, <1>11, <1>12, <1>13 DEF RatesInv, Rates!Never

\* A call is refused: the calls left in the bucket were let through in its window
LEMMA RatesRefuse ==
  ASSUME RatesInv, Rates!Refuse
  PROVE  RatesInv'
<1> DEFINE c == Rates!Current(bucket)
           n == Len(passed)
           within == {i \in DOMAIN passed : rNow - Span < passed[i] /\ passed[i] <= rNow}
           tail == n - Len(c) + 1 .. n
<1>1. /\ Len(c) >= Limit /\ bucket' = c
      /\ passed' = passed /\ rNow' = rNow /\ refused' = rNow
  BY DEF Rates!Refuse
<1>2. EndOfPassed(c) /\ \A i \in 1 .. Len(c) : rNow - c[i] < Span
  BY CurrentShape
<1> HIDE DEF c
<1>3. /\ c \in Seq(0 .. RateEnd) /\ Len(c) \in Nat /\ Len(c) <= n
      /\ \A i \in 1 .. Len(c) : c[i] = passed[n - Len(c) + i]
  BY <1>2, LenProperties DEF EndOfPassed
<1>4. /\ n \in Nat /\ DOMAIN passed = 1 .. n /\ Limit \in Nat \ {0} /\ Span \in Nat \ {0}
      /\ rNow \in 0 .. RateEnd /\ rNow \in Nat
      /\ \A i \in 1 .. n : passed[i] \in Nat
  BY RatesTypes
<1> HIDE DEF n
<1>5. tail \subseteq within
  <2> SUFFICES ASSUME NEW i \in tail
               PROVE  i \in within
    OBVIOUS
  <2> DEFINE k == i - (n - Len(c))
  <2>1. i \in 1 .. n /\ k \in 1 .. Len(c) /\ i = n - Len(c) + k
    BY <1>3, <1>4
  <2> HIDE DEF k
  <2>2. c[k] = passed[i] /\ rNow - c[k] < Span /\ passed[i] <= rNow /\ passed[i] \in Nat
    BY <1>2, <1>3, <1>4, <2>1 DEF RatesInv
  <2>3. rNow - Span < passed[i]
    BY <1>4, <2>2
  <2> QED
    BY <1>4, <2>1, <2>2, <2>3
<1>6. IsFiniteSet(within)
  <2>1. IsFiniteSet(1 .. n)
    BY <1>4, FS_Interval
  <2>2. within \subseteq 1 .. n
    BY <1>4
  <2> QED
    BY <2>1, <2>2, FS_Subset
<1>7. Cardinality(tail) = Len(c)
  <2>1. n - Len(c) + 1 \in Int /\ n \in Int
    BY <1>3, <1>4
  <2>2. Cardinality(tail) = IF n - Len(c) + 1 > n THEN 0 ELSE n - (n - Len(c) + 1) + 1
    BY <2>1, FS_Interval
  <2> QED
    BY <1>3, <1>4, <2>2
<1>8. Cardinality(within) >= Limit
  <2> HIDE DEF within, tail
  <2>1. Cardinality(tail) <= Cardinality(within) /\ Cardinality(within) \in Nat
    BY <1>5, <1>6, FS_Subset, FS_CardinalityType
  <2> QED
    BY <1>1, <1>3, <1>4, <1>7, <2>1
<1>9. Rates!RefusalIsDue'
  <2>1. within = Rates!PassedWithin(refused - Span, refused)'
    BY <1>1 DEF Rates!PassedWithin
  <2> HIDE DEF within
  <2> QED
    BY <1>8, <2>1, RatesCardinality DEF Rates!RefusalIsDue
<1>10. EndOfPassed(bucket)'
  BY <1>1, <1>2 DEF EndOfPassed
<1>11. Rates!TypeOK'
  BY <1>1, <1>3, <1>4 DEF RatesInv, Rates!TypeOK, Rates!Never
<1>12. refused' <= rNow'
  BY <1>1, <1>4
<1> QED
  BY <1>1, <1>9, <1>10, <1>11, <1>12 DEF RatesInv, Rates!NoBurst

LEMMA RatesInitially == Rates!Init => RatesInv
<1> SUFFICES ASSUME Rates!Init
             PROVE  RatesInv
  OBVIOUS
<1>1. rNow = 0 /\ bucket = <<>> /\ passed = <<>> /\ refused = -1
  BY DEF Rates!Init, Rates!Never
<1>2. 0 \in 0 .. RateEnd
  BY Parameters DEF Rates!RateParameters
<1>3. bucket \in Seq(0 .. RateEnd) /\ Len(bucket) = 0 /\ passed = bucket /\ DOMAIN passed = {}
  BY <1>1
<1> QED
  BY <1>1, <1>2, <1>3
  DEF RatesInv, EndOfPassed, Rates!TypeOK, Rates!Never, Rates!NoBurst, Rates!RefusalIsDue

\* Every step of every service keeps the invariant of the rate limit
LEMMA RatesStep ==
  ASSUME RatesInv, [Next]_vars
  PROVE  RatesInv'
<1>1. [Rates!Next]_rates
  BY OneServiceSteps
<1>2. CASE UNCHANGED rates
  BY <1>2 DEF rates, RatesInv, EndOfPassed, Rates!TypeOK, Rates!NoBurst, Rates!RefusalIsDue,
              Rates!PassedWithin, Rates!Never
<1> QED
  BY <1>1, <1>2, RatesTick, RatesPrune, RatesAllow, RatesRefuse DEF Rates!Next

\* The rate limit lets no more than Limit calls through in any window, and
\* refuses nobody who made fewer calls in the window before (_check_rate),
\* whenever the cleanup task cuts the buckets (prune_expired_buckets)
THEOREM RateLimitIsExact == Spec => []LimitIsExact
<1>1. Init => RatesInv
  BY RatesInitially DEF Init
<1>2. RatesInv /\ [Next]_vars => RatesInv'
  BY RatesStep
<1>3. RatesInv => LimitIsExact
  BY DEF RatesInv, LimitIsExact, Rates!LimitIsExact
<1> QED
  BY <1>1, <1>2, <1>3, PTL DEF Spec

-----------------------------------------------------------------------------
(***************************************************************************)
(* SocketAdmission: the two properties are inductive together with the     *)
(* types.  An entry carries the socket it was made for; a waiting endpoint *)
(* has none, so that an admission disturbs no other entry; and the end of  *)
(* an endpoint takes the entries of its own socket, of which there is at   *)
(* most one, its own player's.                                             *)
(***************************************************************************)

AdmissionInv == Admission!TypeOK /\ Admission!EntriesAreReleased /\ Admission!LatestIsCounted

\* Both keep a partial function one.
LEMMA PutPartial ==
  ASSUME NEW S, NEW T, NEW f, Admission!Partial(f, S, T), NEW x \in S, NEW v \in T
  PROVE  Admission!Partial(Admission!Put(f, x, v), S, T)
  BY DEF Admission!Put, Admission!Partial

LEMMA RestrictPartial ==
  ASSUME NEW S, NEW T, NEW f, Admission!Partial(f, S, T), NEW D, D \subseteq DOMAIN f
  PROVE  Admission!Partial(Admission!Restrict(f, D), S, T)
  BY DEF Admission!Restrict, Admission!Partial

LEMMA AdmissionInitially == Admission!Init => AdmissionInv
<1> SUFFICES ASSUME Admission!Init
             PROVE  AdmissionInv
  OBVIOUS
<1>1. endpoint = <<>> /\ sockets = <<>> /\ last = <<>> /\ store = Room
  BY DEF Admission!Init
<1>2. DOMAIN endpoint = {} /\ DOMAIN sockets = {} /\ DOMAIN last = {}
  BY <1>1
<1>3. Admission!TypeOK
  BY <1>1, <1>2 DEF Admission!TypeOK, Admission!Partial
<1> QED
  BY <1>2, <1>3 DEF AdmissionInv, Admission!EntriesAreReleased, Admission!LatestIsCounted, Admission!Principals

LEMMA OpenStep ==
  ASSUME AdmissionInv, NEW s \in Socket, NEW pr \in Admission!Principal, NEW ip \in Ip, Admission!Open(s, pr, ip)
  PROVE  AdmissionInv'
<1> DEFINE e == [stage |-> "waiting", who |-> pr, ip |-> ip]
<1>1. e \in Admission!Endpoint
  BY DEF Admission!Endpoint
<1>2. endpoint' = Admission!Put(endpoint, s, e) /\ s \notin Admission!Running /\ UNCHANGED <<store, sockets, last>>
  BY DEF Admission!Open
<1>3. Admission!TypeOK'
  BY <1>1, <1>2, PutPartial DEF AdmissionInv, Admission!TypeOK
<1>4. \A r \in Admission!Running : r \in (Admission!Running)' /\ endpoint'[r] = endpoint[r]
  BY <1>2 DEF Admission!Running, Admission!Put
<1>5. Admission!EntriesAreReleased'
  BY <1>2, <1>4 DEF AdmissionInv, Admission!EntriesAreReleased, Admission!Principals
<1>6. Admission!LatestIsCounted'
  BY <1>2 DEF AdmissionInv, Admission!LatestIsCounted, Admission!Principals
<1> QED
  BY <1>3, <1>5, <1>6 DEF AdmissionInv

LEMMA RejectStep ==
  ASSUME AdmissionInv, NEW s \in Socket, Admission!Reject(s)
  PROVE  AdmissionInv'
<1>1. /\ endpoint' = Admission!Restrict(endpoint, Admission!Running \ {s})
      /\ endpoint[s].stage = "waiting"
      /\ UNCHANGED <<store, sockets, last>>
  BY DEF Admission!Reject
<1>2. Admission!TypeOK'
  BY <1>1, RestrictPartial DEF AdmissionInv, Admission!TypeOK, Admission!Running
<1>3. \A r \in Admission!Running \ {s} : r \in (Admission!Running)' /\ endpoint'[r] = endpoint[r]
  BY <1>1 DEF Admission!Running, Admission!Restrict
<1>4. ASSUME NEW pr \in Admission!Principals
      PROVE  sockets[pr].id # s
  <2>1. endpoint[sockets[pr].id] = [stage |-> "served", who |-> pr, ip |-> sockets[pr].ip]
    BY DEF AdmissionInv, Admission!EntriesAreReleased
  <2>2. endpoint[sockets[pr].id].stage = "served"
    BY <2>1
  <2> QED
    BY <1>1, <2>2
<1>5. Admission!EntriesAreReleased'
  BY <1>1, <1>3, <1>4 DEF AdmissionInv, Admission!EntriesAreReleased, Admission!Principals
<1>6. Admission!LatestIsCounted'
  BY <1>1 DEF AdmissionInv, Admission!LatestIsCounted, Admission!Principals
<1> QED
  BY <1>2, <1>5, <1>6 DEF AdmissionInv

LEMMA AdmitStep ==
  ASSUME AdmissionInv, NEW s \in Socket, Admission!Admit(s)
  PROVE  AdmissionInv'
<1> DEFINE w == endpoint[s].who
           i == endpoint[s].ip
<1>1. /\ s \in Admission!Running
      /\ endpoint[s].stage = "waiting"
      /\ sockets' = Admission!Put(sockets, w, [ip |-> i, id |-> s])
      /\ last' = Admission!Put(last, w, s)
      /\ endpoint' = [endpoint EXCEPT ![s].stage = "served"]
      /\ UNCHANGED store
  BY DEF Admission!Admit
<1>2. endpoint[s] \in Admission!Endpoint /\ endpoint \in [Admission!Running -> Admission!Endpoint] /\ Admission!Running \subseteq Socket
  BY <1>1 DEF AdmissionInv, Admission!TypeOK, Admission!Partial, Admission!Running
<1>3. Admission!TypeOK'
  <2>1. Admission!Partial(endpoint', Socket, Admission!Endpoint)
    BY <1>1, <1>2 DEF Admission!Partial, Admission!Endpoint, Admission!Running
  <2>2. w \in Admission!Principal /\ [ip |-> i, id |-> s] \in Admission!Entry
    BY <1>2 DEF Admission!Endpoint, Admission!Entry
  <2>3. Admission!Partial(sockets', Admission!Principal, Admission!Entry) /\ Admission!Partial(last', Admission!Principal, Socket)
    BY <1>1, <2>2, PutPartial DEF AdmissionInv, Admission!TypeOK
  <2> QED
    BY <1>1, <2>1, <2>3 DEF AdmissionInv, Admission!TypeOK
<1>4. endpoint'[s] = [stage |-> "served", who |-> w, ip |-> i]
  BY <1>1, <1>2 DEF Admission!Endpoint
<1>5. \A r \in Admission!Running : r # s => endpoint'[r] = endpoint[r]
  BY <1>1, <1>2
<1>6. (Admission!Running)' = Admission!Running
  BY <1>1, <1>2 DEF Admission!Running
<1>7. /\ (Admission!Principals)' = Admission!Principals \union {w}
      /\ sockets'[w] = [ip |-> i, id |-> s]
      /\ \A q \in Admission!Principals : q # w => sockets'[q] = sockets[q]
  BY <1>1 DEF Admission!Principals, Admission!Put
<1>8. Admission!EntriesAreReleased'
  <2> SUFFICES ASSUME NEW q \in (Admission!Principals)'
               PROVE  /\ sockets'[q].id \in (Admission!Running)'
                      /\ endpoint'[sockets'[q].id] =
                           [stage |-> "served", who |-> q, ip |-> sockets'[q].ip]
    BY DEF Admission!EntriesAreReleased
  <2>1. CASE q = w
    BY <1>1, <1>4, <1>6, <1>7, <2>1
  <2>2. CASE q # w
    <3>1. /\ q \in Admission!Principals /\ sockets'[q] = sockets[q]
          /\ sockets[q].id \in Admission!Running
          /\ endpoint[sockets[q].id] = [stage |-> "served", who |-> q, ip |-> sockets[q].ip]
      BY <1>7, <2>2 DEF AdmissionInv, Admission!EntriesAreReleased
    <3>2. sockets[q].id # s
      BY <1>1, <3>1
    <3> QED
      BY <1>5, <1>6, <3>1, <3>2
  <2> QED
    BY <2>1, <2>2
<1>9. Admission!LatestIsCounted'
  <2>1. /\ DOMAIN last' = DOMAIN last \union {w}
        /\ last'[w] = s
        /\ \A q \in DOMAIN last : q # w => last'[q] = last[q]
    BY <1>1 DEF Admission!Put
  <2> QED
    BY <1>7, <2>1 DEF AdmissionInv, Admission!LatestIsCounted
<1> QED
  BY <1>3, <1>8, <1>9 DEF AdmissionInv

LEMMA EndStep ==
  ASSUME AdmissionInv, NEW s \in Socket, Admission!End(s)
  PROVE  AdmissionInv'
<1> DEFINE kept == {q \in Admission!Principals : ~ (q = endpoint[s].who /\ sockets[q].id = s)}
           latest == {q \in DOMAIN last : last[q] # s}
<1>1. /\ sockets' = Admission!Restrict(sockets, kept)
      /\ last' = Admission!Restrict(last, latest)
      /\ endpoint' = Admission!Restrict(endpoint, Admission!Running \ {s})
      /\ UNCHANGED store
  BY DEF Admission!End, Admission!Release
<1>2. kept \in SUBSET DOMAIN sockets /\ latest \in SUBSET DOMAIN last
  BY DEF Admission!Principals
<1>3. (Admission!Principals)' = kept /\ \A q \in kept : sockets'[q] = sockets[q]
  BY <1>1 DEF Admission!Principals, Admission!Restrict
<1>4. DOMAIN last' = latest /\ \A q \in latest : last'[q] = last[q]
  BY <1>1 DEF Admission!Restrict
<1>5. (Admission!Running)' = Admission!Running \ {s} /\ \A r \in Admission!Running \ {s} : endpoint'[r] = endpoint[r]
  BY <1>1 DEF Admission!Running, Admission!Restrict
<1>6. Admission!TypeOK'
  BY <1>1, <1>2, RestrictPartial DEF AdmissionInv, Admission!TypeOK, Admission!Running
<1>7. ASSUME NEW q \in kept
      PROVE  sockets[q].id # s
  <2>1. CASE q = endpoint[s].who
    BY <1>7, <2>1
  <2>2. CASE q # endpoint[s].who
    <3>1. endpoint[sockets[q].id] = [stage |-> "served", who |-> q, ip |-> sockets[q].ip]
      BY DEF AdmissionInv, Admission!EntriesAreReleased
    <3>2. endpoint[sockets[q].id].who = q
      BY <3>1
    <3> QED
      BY <2>2, <3>2
  <2> QED
    BY <2>1, <2>2
<1>8. Admission!EntriesAreReleased'
  BY <1>3, <1>5, <1>7 DEF AdmissionInv, Admission!EntriesAreReleased
<1>9. Admission!LatestIsCounted'
  BY <1>3, <1>4 DEF AdmissionInv, Admission!LatestIsCounted
<1> QED
  BY <1>6, <1>8, <1>9 DEF AdmissionInv

LEMMA DeleteRoomStep ==
  ASSUME AdmissionInv, NEW r \in Room, Admission!DeleteRoom(r)
  PROVE  AdmissionInv'
<1> DEFINE kept == {q \in Admission!Principals : q[1] # r}
           latest == {q \in DOMAIN last : q[1] # r}
<1>1. /\ sockets' = Admission!Restrict(sockets, kept)
      /\ last' = Admission!Restrict(last, latest)
      /\ store' = store \ {r}
      /\ endpoint' = endpoint
  BY DEF Admission!DeleteRoom, Admission!RemoveRoom
<1>2. kept \in SUBSET DOMAIN sockets /\ latest \in SUBSET DOMAIN last
  BY DEF Admission!Principals
<1>3. (Admission!Principals)' = kept /\ \A q \in kept : sockets'[q] = sockets[q]
  BY <1>1 DEF Admission!Principals, Admission!Restrict
<1>4. DOMAIN last' = latest /\ \A q \in latest : last'[q] = last[q]
  BY <1>1 DEF Admission!Restrict
<1>5. Admission!TypeOK'
  BY <1>1, <1>2, RestrictPartial DEF AdmissionInv, Admission!TypeOK
<1>6. Admission!EntriesAreReleased'
  BY <1>1, <1>3 DEF AdmissionInv, Admission!EntriesAreReleased, Admission!Running
<1>7. Admission!LatestIsCounted'
  BY <1>3, <1>4 DEF AdmissionInv, Admission!LatestIsCounted
<1> QED
  BY <1>5, <1>6, <1>7 DEF AdmissionInv

\* Every step of every service keeps the invariant of the sockets
LEMMA AdmissionStep ==
  ASSUME AdmissionInv, [Next]_vars
  PROVE  AdmissionInv'
<1>1. [Admission!Next]_admission
  BY OneServiceSteps
<1>2. CASE UNCHANGED admission
  BY <1>2 DEF admission, AdmissionInv, Admission!TypeOK, Admission!EntriesAreReleased,
              Admission!LatestIsCounted, Admission!Running, Admission!Principals
<1> QED
  BY <1>1, <1>2, OpenStep, RejectStep, AdmitStep, EndStep, DeleteRoomStep DEF Admission!Next

\* Every entry is that of a running endpoint, which will release it, for any
\* number of sockets (admit_socket, release_socket, remove_room).
THEOREM NothingStaysCharged == Spec => []EntriesAreReleased
<1>1. Init => AdmissionInv
  BY AdmissionInitially DEF Init
<1>2. AdmissionInv /\ [Next]_vars => AdmissionInv'
  BY AdmissionStep
<1>3. AdmissionInv => EntriesAreReleased
  BY DEF AdmissionInv, EntriesAreReleased
<1> QED
  BY <1>1, <1>2, <1>3, PTL DEF Spec

\* The late end of a replaced socket never uncounts the one that replaced it.
THEOREM LatestStaysCounted == Spec => []LatestIsCounted
<1>1. Init => AdmissionInv
  BY AdmissionInitially DEF Init
<1>2. AdmissionInv /\ [Next]_vars => AdmissionInv'
  BY AdmissionStep
<1>3. AdmissionInv => LatestIsCounted
  BY DEF AdmissionInv, LatestIsCounted
<1> QED
  BY <1>1, <1>2, <1>3, PTL DEF Spec

-----------------------------------------------------------------------------
(***************************************************************************)
(* RoomLifecycle: the clock runs at most one Interval ahead of the round   *)
(* of cleanup that comes next.  Where all_disconnected_at is missing from  *)
(* an empty room, somebody left since the last round; where it is set, it  *)
(* was set within an Interval of the last presence, and the last round     *)
(* found the room too young.                                               *)
(***************************************************************************)

LifecycleTypes ==
  /\ now \in Nat /\ sweep \in Nat /\ present \in Nat
  /\ emptySince \in Nat \union {Lifecycle!None}
  /\ stored \in BOOLEAN
  /\ status \in Lifecycle!Status
  /\ players \subseteq Player /\ connected \subseteq players

\* The cleanup task is not late
Clocks == now <= sweep /\ sweep <= now + Interval /\ present <= now

\* While somebody is connected the room is not taken to be empty
PresenceIsNow == stored /\ connected # {} => present = now /\ emptySince = Lifecycle!None

\* A time since when the room is empty is not before the last presence
EmptyAfterPresence ==
  stored /\ emptySince # Lifecycle!None => present <= emptySince /\ emptySince <= now

\* Without such a time, somebody left after the last round of cleanup
LeftLately ==
  stored /\ connected = {} /\ emptySince = Lifecycle!None => sweep <= present + Interval

\* With it, the last round found the room too young
TooYoungLately ==
  stored /\ connected = {} /\ emptySince # Lifecycle!None =>
    /\ emptySince <= present + Interval
    /\ sweep < emptySince + Lifecycle!LongestTTL + Interval

LifecycleInv ==
  /\ LifecycleTypes
  /\ Clocks
  /\ PresenceIsNow
  /\ EmptyAfterPresence
  /\ LeftLately
  /\ TooYoungLately

\* Three numbers have a largest one
LEMMA LargestOfThree ==
  ASSUME NEW a \in Nat \ {0}, NEW b \in Nat \ {0}, NEW c \in Nat \ {0}
  PROVE  LET m == CHOOSE t \in {a, b, c} : \A u \in {a, b, c} : u <= t
         IN  m \in Nat \ {0} /\ a <= m /\ b <= m /\ c <= m
<1>1. \E t \in {a, b, c} : \A u \in {a, b, c} : u <= t
  <2>1. CASE a <= c /\ b <= c
    BY <2>1
  <2>2. CASE a <= b /\ c <= b
    BY <2>2
  <2>3. CASE b <= a /\ c <= a
    BY <2>3
  <2> QED
    BY <2>1, <2>2, <2>3
<1> QED
  BY <1>1

\* No age limit is above the longest
LEMMA AgeLimits ==
  ASSUME NEW s \in Lifecycle!Status
  PROVE  /\ Lifecycle!TTL(s) \in Nat \ {0} /\ Lifecycle!LongestTTL \in Nat \ {0}
         /\ Lifecycle!TTL(s) <= Lifecycle!LongestTTL
<1>1. /\ WaitingTTL \in Nat \ {0} /\ PlayingTTL \in Nat \ {0} /\ FinishedTTL \in Nat \ {0}
  BY Parameters DEF Lifecycle!LifecycleParameters
<1>2. /\ Lifecycle!LongestTTL \in Nat \ {0}
      /\ WaitingTTL <= Lifecycle!LongestTTL /\ PlayingTTL <= Lifecycle!LongestTTL
      /\ FinishedTTL <= Lifecycle!LongestTTL
  BY <1>1, LargestOfThree DEF Lifecycle!LongestTTL
<1>3. Lifecycle!TTL(s) \in {WaitingTTL, PlayingTTL, FinishedTTL}
  BY DEF Lifecycle!TTL, Lifecycle!Status
<1> QED
  BY <1>1, <1>2, <1>3

LEMMA IntervalIsPositive == Interval \in Nat \ {0}
  BY Parameters DEF Lifecycle!LifecycleParameters

LEMMA LifecycleInitially == Lifecycle!Init => LifecycleInv
<1> SUFFICES ASSUME Lifecycle!Init
             PROVE  LifecycleInv
  OBVIOUS
<1>1. /\ now = 0 /\ sweep \in 1 .. Interval /\ present = 0 /\ emptySince = 0
      /\ stored = TRUE /\ status = "waiting" /\ connected = {} /\ players \subseteq Player
  BY DEF Lifecycle!Init
<1>2. Lifecycle!LongestTTL \in Nat \ {0} /\ "waiting" \in Lifecycle!Status
  BY AgeLimits DEF Lifecycle!Status
<1> QED
  BY <1>1, <1>2, IntervalIsPositive
  DEF LifecycleInv, LifecycleTypes, Clocks, PresenceIsNow, EmptyAfterPresence, LeftLately,
      TooYoungLately, Lifecycle!None

\* A refresh of a room that stays, with these players connected afterwards
LEMMA RefreshedStep ==
  ASSUME LifecycleInv, stored, stored' = stored,
         NEW s \in Lifecycle!Status, status' = s,
         NEW here, here \subseteq players', players' \subseteq Player, connected' = here,
         Lifecycle!Refresh(s, here), Lifecycle!Presence(here),
         now' = now, sweep' = sweep
  PROVE  LifecycleInv'
<1>1. /\ now \in Nat /\ sweep \in Nat /\ present \in Nat
      /\ emptySince \in Nat \union {-1}
      /\ now <= sweep /\ sweep <= now + Interval /\ present <= now
      /\ Interval \in Nat \ {0} /\ Lifecycle!LongestTTL \in Nat \ {0}
  BY IntervalIsPositive, AgeLimits DEF LifecycleInv, LifecycleTypes, Clocks, Lifecycle!None
<1>2. /\ connected # {} => present = now /\ emptySince = -1
      /\ emptySince # -1 => present <= emptySince /\ emptySince <= now
      /\ connected = {} /\ emptySince = -1 => sweep <= present + Interval
      /\ connected = {} /\ emptySince # -1 =>
           /\ emptySince <= present + Interval
           /\ sweep < emptySince + Lifecycle!LongestTTL + Interval
  BY DEF LifecycleInv, PresenceIsNow, EmptyAfterPresence, LeftLately, TooYoungLately,
         Lifecycle!None
<1>3. /\ emptySince' = IF here # {} THEN -1 ELSE IF emptySince = -1 THEN now ELSE emptySince
      /\ present' = IF connected # {} \/ here # {} THEN now ELSE present
  BY DEF Lifecycle!Refresh, Lifecycle!Presence, Lifecycle!None
<1>4. LifecycleTypes'
  BY <1>1, <1>3 DEF LifecycleInv, LifecycleTypes, Lifecycle!None
<1>5. Clocks'
  BY <1>1, <1>3 DEF Clocks
<1>6. PresenceIsNow'
  BY <1>3 DEF PresenceIsNow, Lifecycle!None
<1>7. EmptyAfterPresence'
  BY <1>1, <1>2, <1>3 DEF EmptyAfterPresence, Lifecycle!None
<1>8. LeftLately' /\ TooYoungLately'
  BY <1>1, <1>2, <1>3 DEF LeftLately, TooYoungLately, Lifecycle!LongestTTL, Lifecycle!None
<1> QED
  BY <1>4, <1>5, <1>6, <1>7, <1>8 DEF LifecycleInv

\* Where somebody is connected, that nothing happens to presence and that it is
\* taken again are the same
LEMMA PresenceStays ==
  ASSUME LifecycleInv, stored, present' = present
  PROVE  Lifecycle!Presence(connected)
  BY DEF LifecycleInv, PresenceIsNow, Lifecycle!Presence

LEMMA EvictStep ==
  ASSUME LifecycleInv, NEW S \in SUBSET Player, Lifecycle!Evict(S)
  PROVE  LifecycleInv'
<1>1. /\ stored /\ stored' = stored /\ status' = status /\ connected' = connected
      /\ now' = now /\ sweep' = sweep /\ present' = present
      /\ players' = players \ S /\ S \subseteq players \ connected
      /\ Lifecycle!Refresh(status, connected)
  BY DEF Lifecycle!Evict
<1>2. status \in Lifecycle!Status /\ players' \subseteq Player /\ connected \subseteq players'
  BY <1>1 DEF LifecycleInv, LifecycleTypes
<1> QED
  BY <1>1, <1>2, PresenceStays, RefreshedStep

LEMMA JoinStep ==
  ASSUME LifecycleInv, NEW p \in Player, Lifecycle!Join(p)
  PROVE  LifecycleInv'
<1>1. /\ stored /\ stored' = stored /\ status' = status /\ connected' = connected
      /\ now' = now /\ sweep' = sweep /\ present' = present
      /\ Lifecycle!Refresh(status, connected)
  BY DEF Lifecycle!Join
<1>2. PICK evicted \in {{}} \union {{q} : q \in players \ connected} :
        players' = (players \ evicted) \union {p}
  BY DEF Lifecycle!Join
<1>3. status \in Lifecycle!Status /\ players \subseteq Player /\ connected \subseteq players
  BY DEF LifecycleInv, LifecycleTypes
<1>4. players' \subseteq Player /\ connected \subseteq players'
  BY <1>2, <1>3
<1> QED
  BY <1>1, <1>3, <1>4, PresenceStays, RefreshedStep

LEMMA SaveStep ==
  ASSUME LifecycleInv, NEW s \in Lifecycle!Status, Lifecycle!SaveStatus(s)
  PROVE  LifecycleInv'
<1>1. /\ stored /\ stored' = stored /\ status' = s /\ connected' = connected
      /\ now' = now /\ sweep' = sweep /\ present' = present /\ players' = players
      /\ Lifecycle!Refresh(s, connected)
  BY DEF Lifecycle!SaveStatus
<1>2. players' \subseteq Player /\ connected \subseteq players'
  BY <1>1 DEF LifecycleInv, LifecycleTypes
<1> QED
  BY <1>1, <1>2, PresenceStays, RefreshedStep

LEMMA ConnectionStep ==
  ASSUME LifecycleInv, NEW p \in Player, Lifecycle!Connect(p) \/ Lifecycle!Disconnect(p)
  PROVE  LifecycleInv'
<1> DEFINE here == connected'
<1>1. /\ stored /\ stored' = stored /\ status' = status
      /\ now' = now /\ sweep' = sweep /\ players' = players /\ p \in players
      /\ Lifecycle!Presence(here) /\ Lifecycle!Refresh(status, here)
      /\ here = connected \union {p} \/ here = connected \ {p}
  BY DEF Lifecycle!Connect, Lifecycle!Disconnect
<1>2. /\ status \in Lifecycle!Status /\ players' \subseteq Player /\ here \subseteq players'
  BY <1>1 DEF LifecycleInv, LifecycleTypes
<1> QED
  BY <1>1, <1>2, RefreshedStep

\* The end of a grace period refreshes nothing, and nothing depends on it
LEMMA GraceStep ==
  ASSUME LifecycleInv, NEW p \in Player, Lifecycle!GraceExpires(p)
  PROVE  LifecycleInv'
<1>1. /\ emptySince' = emptySince /\ now' = now /\ sweep' = sweep /\ present' = present
      /\ stored' = stored /\ players' = players /\ connected' = connected
      /\ status' \in {status} \union {"finished"}
  BY DEF Lifecycle!GraceExpires, Lifecycle!NoRefresh
<1> QED
  BY <1>1
  DEF LifecycleInv, LifecycleTypes, Clocks, PresenceIsNow, EmptyAfterPresence, LeftLately,
      TooYoungLately, Lifecycle!LongestTTL, Lifecycle!None, Lifecycle!Status

\* Who leaves was there until now, if it was connected
LEMMA LeaverStep ==
  ASSUME LifecycleInv, NEW p \in Player, Lifecycle!Leave(p)
  PROVE  LifecycleInv'
<1>1. /\ emptySince' = emptySince /\ now' = now /\ sweep' = sweep
      /\ stored /\ stored' \in BOOLEAN
      /\ players' = players \ {p} /\ connected' = connected \ {p}
      /\ status' \in {status} \union {"finished"}
      /\ present' = IF connected # {} \/ connected' # {} THEN now ELSE present
  BY DEF Lifecycle!Leave, Lifecycle!NoRefresh, Lifecycle!Presence
<1>2. /\ now \in Nat /\ sweep \in Nat /\ present \in Nat
      /\ emptySince \in Nat \union {-1}
      /\ now <= sweep /\ sweep <= now + Interval /\ present <= now
      /\ Interval \in Nat \ {0}
      /\ players \subseteq Player /\ connected \subseteq players
  BY IntervalIsPositive DEF LifecycleInv, LifecycleTypes, Clocks, Lifecycle!None
<1>3. /\ connected # {} => present = now /\ emptySince = -1
      /\ emptySince # -1 => present <= emptySince /\ emptySince <= now
      /\ connected = {} /\ emptySince = -1 => sweep <= present + Interval
  BY <1>1 DEF LifecycleInv, PresenceIsNow, EmptyAfterPresence, LeftLately, Lifecycle!None
<1>4. present' = present
  BY <1>1, <1>3
<1>5. LifecycleTypes'
  BY <1>1, <1>2, <1>4 DEF LifecycleInv, LifecycleTypes, Lifecycle!None, Lifecycle!Status
<1>6. Clocks' /\ PresenceIsNow' /\ EmptyAfterPresence'
  BY <1>1, <1>2, <1>3, <1>4 DEF Clocks, PresenceIsNow, EmptyAfterPresence, Lifecycle!None
<1>7. LeftLately'
  BY <1>1, <1>2, <1>3, <1>4 DEF LeftLately, Lifecycle!None
<1>8. TooYoungLately'
  <2>1. connected # {} => emptySince = Lifecycle!None
    BY <1>3 DEF Lifecycle!None
  <2>2. Lifecycle!LongestTTL' = Lifecycle!LongestTTL /\ Lifecycle!None' = Lifecycle!None
    BY DEF Lifecycle!LongestTTL, Lifecycle!None
  <2> QED
    BY <1>1, <1>4, <2>1, <2>2 DEF LifecycleInv, TooYoungLately
<1> QED
  BY <1>5, <1>6, <1>7, <1>8 DEF LifecycleInv

\* A round of cleanup: it notes since when a room is empty, and keeps none that
\* is old
LEMMA CleanupStep ==
  ASSUME LifecycleInv, Lifecycle!Cleanup
  PROVE  LifecycleInv'
<1> DEFINE since == IF emptySince = -1 THEN now ELSE emptySince
<1>1. /\ now' = now /\ sweep = now /\ sweep' = now + Interval /\ present' = present
      /\ players' = players /\ connected' = connected /\ status' = status
      /\ stored' = (stored /\ ~ Lifecycle!Due)
      /\ emptySince' = IF stored /\ connected = {} THEN since ELSE emptySince
  BY DEF Lifecycle!Cleanup, Lifecycle!Refresh, Lifecycle!NoRefresh, Lifecycle!None
<1>2. /\ now \in Nat /\ present \in Nat /\ present <= now
      /\ emptySince \in Nat \union {-1}
      /\ Interval \in Nat \ {0}
      /\ Lifecycle!TTL(status) \in Nat \ {0} /\ Lifecycle!LongestTTL \in Nat \ {0}
      /\ Lifecycle!TTL(status) <= Lifecycle!LongestTTL
  BY IntervalIsPositive, AgeLimits DEF LifecycleInv, LifecycleTypes, Clocks, Lifecycle!None
<1>3. stored =>
      /\ connected # {} => present = now /\ emptySince = -1
      /\ emptySince # -1 => present <= emptySince /\ emptySince <= now
      /\ connected = {} /\ emptySince = -1 => sweep <= present + Interval
      /\ connected = {} /\ emptySince # -1 => emptySince <= present + Interval
  BY DEF LifecycleInv, PresenceIsNow, EmptyAfterPresence, LeftLately, TooYoungLately,
         Lifecycle!None
<1>4. stored' => stored /\ (connected = {} => now < since + Lifecycle!TTL(status))
  <2>1. since \in Nat
    BY <1>2
  <2>2. connected = {} /\ ~ Lifecycle!Due => ~ (now >= since + Lifecycle!TTL(status))
    BY DEF Lifecycle!Due, Lifecycle!None
  <2>3. stored' => stored /\ (connected = {} => ~ (now >= since + Lifecycle!TTL(status)))
    <3> HIDE DEF since
    <3> QED
      BY <1>1, <2>2, Zenon
  <2>4. ~ (now >= since + Lifecycle!TTL(status)) => now < since + Lifecycle!TTL(status)
    BY <1>2, <2>1
  <2> HIDE DEF since
  <2> QED
    BY <2>3, <2>4, Zenon
<1>5. stored' \in BOOLEAN
  BY <1>1
<1>6. LifecycleTypes'
  BY <1>1, <1>2, <1>5 DEF LifecycleInv, LifecycleTypes, Lifecycle!None
<1>7. Clocks'
  BY <1>1, <1>2 DEF Clocks
<1>8. PresenceIsNow' /\ EmptyAfterPresence' /\ LeftLately'
  BY <1>1, <1>2, <1>3, <1>4 DEF PresenceIsNow, EmptyAfterPresence, LeftLately, Lifecycle!None
<1>9. TooYoungLately'
  <2> SUFFICES ASSUME stored', connected' = {}
               PROVE  /\ emptySince' <= present' + Interval
                      /\ sweep' < emptySince' + Lifecycle!LongestTTL + Interval
    BY DEF TooYoungLately, Lifecycle!LongestTTL
  <2>1. emptySince' = since /\ now < since + Lifecycle!TTL(status)
    BY <1>1, <1>4
  <2> QED
    BY <1>1, <1>2, <1>3, <1>4, <2>1
<1> QED
  BY <1>6, <1>7, <1>8, <1>9 DEF LifecycleInv

LEMMA TickStep ==
  ASSUME LifecycleInv, Lifecycle!Tick
  PROVE  LifecycleInv'
<1>1. /\ now < sweep /\ now' = now + 1 /\ sweep' = sweep /\ stored' = stored
      /\ status' = status /\ players' = players /\ connected' = connected
      /\ emptySince' = emptySince
      /\ present' = IF connected # {} /\ stored THEN now' ELSE present
  BY DEF Lifecycle!Tick
<1>2. /\ now \in Nat /\ sweep \in Nat /\ present \in Nat
      /\ emptySince \in Nat \union {-1}
      /\ sweep <= now + Interval /\ present <= now
      /\ Interval \in Nat \ {0}
  BY IntervalIsPositive DEF LifecycleInv, LifecycleTypes, Clocks, Lifecycle!None
<1>3. LifecycleTypes'
  BY <1>1, <1>2 DEF LifecycleInv, LifecycleTypes, Lifecycle!None
<1>4. Clocks'
  BY <1>1, <1>2 DEF Clocks
<1>5. PresenceIsNow'
  BY <1>1 DEF LifecycleInv, PresenceIsNow, Lifecycle!None
<1>6. EmptyAfterPresence'
  <2>1. stored /\ connected # {} => emptySince = -1
    BY DEF LifecycleInv, PresenceIsNow, Lifecycle!None
  <2>2. stored /\ emptySince # -1 => present <= emptySince /\ emptySince <= now
    BY DEF LifecycleInv, EmptyAfterPresence, Lifecycle!None
  <2> QED
    BY <1>1, <1>2, <2>1, <2>2 DEF EmptyAfterPresence, Lifecycle!None
<1>7. LeftLately' /\ TooYoungLately'
  BY <1>1 DEF LifecycleInv, LeftLately, TooYoungLately, Lifecycle!None, Lifecycle!LongestTTL
<1> QED
  BY <1>3, <1>4, <1>5, <1>6, <1>7 DEF LifecycleInv

\* Every step of every service keeps the invariant of the lifecycle
LEMMA LifecycleStep ==
  ASSUME LifecycleInv, [Next]_vars
  PROVE  LifecycleInv'
<1>1. [Lifecycle!Next]_lifecycle
  BY OneServiceSteps
<1>2. CASE UNCHANGED lifecycle
  BY <1>2
  DEF lifecycle, LifecycleInv, LifecycleTypes, Clocks, PresenceIsNow, EmptyAfterPresence,
      LeftLately, TooYoungLately, Lifecycle!None, Lifecycle!LongestTTL, Lifecycle!Status
<1> QED
  BY <1>1, <1>2, EvictStep, JoinStep, SaveStep, ConnectionStep, GraceStep, LeaverStep,
     CleanupStep, TickStep
  DEF Lifecycle!Next

LEMMA LifecycleHolds == Spec => []LifecycleInv
<1>1. Init => LifecycleInv
  BY LifecycleInitially DEF Init
<1>2. LifecycleInv /\ [Next]_vars => LifecycleInv'
  BY LifecycleStep
<1> QED
  BY <1>1, <1>2, PTL DEF Spec

\* A room that nobody is connected to is kept for less than the longest age
\* limit and two rounds of cleanup, whatever was not refreshed on the way
\* (leave_room_with_result, expire_disconnected_player, expire_abandoned_rooms).
THEOREM NoEmptyRoomIsKept == Spec => []EmptyRoomGoes
<1>1. LifecycleInv => EmptyRoomGoes
  <2> SUFFICES ASSUME LifecycleInv, stored, connected = {}
               PROVE  now - present < Lifecycle!LongestTTL + 2 * Interval
    BY DEF EmptyRoomGoes, Lifecycle!EmptyRoomGoes
  <2>1. /\ now \in Nat /\ sweep \in Nat /\ present \in Nat
        /\ emptySince \in Nat \union {-1} /\ now <= sweep
        /\ Interval \in Nat \ {0} /\ Lifecycle!LongestTTL \in Nat \ {0}
    BY IntervalIsPositive, AgeLimits DEF LifecycleInv, LifecycleTypes, Clocks, Lifecycle!None
  <2>2. /\ emptySince = -1 => sweep <= present + Interval
        /\ emptySince # -1 => /\ emptySince <= present + Interval
                              /\ sweep < emptySince + Lifecycle!LongestTTL + Interval
    BY DEF LifecycleInv, LeftLately, TooYoungLately, Lifecycle!None
  <2> QED
    BY <2>1, <2>2
<1> QED
  BY <1>1, LifecycleHolds, PTL

\* A room is deleted only when nobody was connected for the time its status
\* allows, or when its last player leaves (expire_abandoned_rooms).
THEOREM NoRoomGoesEarly == Spec => DeletedOnlyWhenDue
<1>1. LifecycleInv /\ [Next]_vars =>
        [stored /\ ~ stored' /\ players' # {} =>
           connected = {} /\ now - present >= Lifecycle!TTL(status)]_(Lifecycle!vars)
  <2> SUFFICES ASSUME LifecycleInv, [Next]_vars, ~ UNCHANGED lifecycle,
                      stored, ~ stored', players' # {}
               PROVE  connected = {} /\ now - present >= Lifecycle!TTL(status)
    BY DEF lifecycle, Lifecycle!vars
  <2>1. Lifecycle!Next
    BY OneServiceSteps
  <2>2. Lifecycle!Cleanup
    BY <2>1
    DEF Lifecycle!Next, Lifecycle!Tick, Lifecycle!SaveStatus, Lifecycle!Evict, Lifecycle!Join,
        Lifecycle!Leave, Lifecycle!Connect, Lifecycle!Disconnect, Lifecycle!GraceExpires
  <2>3. Lifecycle!Due
    BY <2>2 DEF Lifecycle!Cleanup
  <2>4. /\ now \in Nat /\ present \in Nat /\ emptySince \in Nat \union {-1}
        /\ Lifecycle!TTL(status) \in Nat \ {0}
        /\ emptySince # -1 => present <= emptySince
    BY AgeLimits
    DEF LifecycleInv, LifecycleTypes, EmptyAfterPresence, Lifecycle!None
  <2>5. /\ connected = {}
        /\ now >= (IF emptySince = -1 THEN now ELSE emptySince) + Lifecycle!TTL(status)
    BY <2>3 DEF Lifecycle!Due, Lifecycle!None
  <2> QED
    BY <2>4, <2>5
<1> QED
  BY <1>1, LifecycleHolds, PTL
  DEF Spec, DeletedOnlyWhenDue, Lifecycle!DeletedOnlyWhenDue

-----------------------------------------------------------------------------
(***************************************************************************)
(* CardSource: an edition that was read for a request was the current one  *)
(* after the request was sent, and a request takes at most Timeout; so     *)
(* that the cached edition had not been replaced for longer than that when *)
(* it was cached.  Editions are never ahead of the current one.            *)
(***************************************************************************)

\* An edition had at this time not been replaced for longer than bound
Fresh(edition, at, bound) == edition \in DOMAIN edits => at <= edits[edition] + bound

SourceTypes ==
  /\ sNow \in Nat
  /\ edits \in Seq(Nat)
  /\ cache \in [edition : Nat, at : Nat]
  /\ load \in [Loader -> [stage : {"idle", "sent", "answered"}, since : Nat, edition : Nat]]
  /\ dealt \in [Loader -> [edition : Nat, at : Nat]]

\* Nothing is later than now, and no edition after the current one
NothingAhead ==
  /\ \A i \in DOMAIN edits : edits[i] <= sNow
  /\ cache.at <= sNow /\ cache.edition <= Len(edits) + 1
  /\ \A l \in Loader : load[l].since <= sNow /\ load[l].edition <= Len(edits) + 1
  /\ \A l \in Loader : dealt[l].at <= sNow /\ dealt[l].edition <= Len(edits) + 1

\* No request takes longer than Timeout
RequestsEnd == \A l \in Loader : load[l].stage # "idle" => sNow <= load[l].since + Timeout

\* What was read for a request was current after it was sent
AnswersAreCurrent == \A l \in Loader :
  load[l].stage = "answered" => Fresh(load[l].edition, load[l].since, 0)

CacheIsFresh == Fresh(cache.edition, cache.at, Timeout)

DealtAreFresh == \A l \in Loader : Fresh(dealt[l].edition, dealt[l].at, CacheTTL + Timeout)

SourceInv ==
  /\ SourceTypes
  /\ NothingAhead
  /\ RequestsEnd
  /\ AnswersAreCurrent
  /\ CacheIsFresh
  /\ DealtAreFresh

\* Types, spelled out for the lemmas below
LEMMA SourceFacts ==
  ASSUME SourceInv
  PROVE  /\ sNow \in Nat /\ Timeout \in Nat /\ CacheTTL \in Nat
         /\ edits \in Seq(Nat) /\ Len(edits) \in Nat /\ DOMAIN edits = 1 .. Len(edits)
         /\ \A i \in DOMAIN edits : edits[i] \in Nat /\ edits[i] <= sNow
         /\ cache.edition \in Nat /\ cache.at \in Nat
         /\ cache.at <= sNow /\ cache.edition <= Len(edits) + 1
         /\ \A l \in Loader : /\ load[l].since \in Nat /\ load[l].edition \in Nat
                              /\ load[l].since <= sNow /\ load[l].edition <= Len(edits) + 1
         /\ \A l \in Loader : /\ dealt[l].edition \in Nat /\ dealt[l].at \in Nat
                              /\ dealt[l].at <= sNow /\ dealt[l].edition <= Len(edits) + 1
<1>1. Timeout \in Nat /\ CacheTTL \in Nat
  BY Parameters DEF Source!SourceParameters
<1>2. sNow \in Nat /\ edits \in Seq(Nat) /\ cache.edition \in Nat /\ cache.at \in Nat
  BY DEF SourceInv, SourceTypes
<1>3. Len(edits) \in Nat /\ DOMAIN edits = 1 .. Len(edits) /\ \A i \in DOMAIN edits : edits[i] \in Nat
  BY <1>2, LenProperties, ElementOfSeq
<1>4. \A l \in Loader : /\ load[l].since \in Nat /\ load[l].edition \in Nat
                        /\ dealt[l].edition \in Nat /\ dealt[l].at \in Nat
  BY DEF SourceInv, SourceTypes
<1> QED
  BY <1>1, <1>2, <1>3, <1>4 DEF SourceInv, NothingAhead

LEMMA SourceInitially == Source!Init => SourceInv
<1> SUFFICES ASSUME Source!Init
             PROVE  SourceInv
  OBVIOUS
<1>1. /\ sNow = 0 /\ edits = <<>>
      /\ cache = [edition |-> 0, at |-> 0]
      /\ load = [l \in Loader |-> [stage |-> "idle", since |-> 0, edition |-> 0]]
      /\ dealt = [l \in Loader |-> [edition |-> 0, at |-> 0]]
  BY DEF Source!Init, Source!NoCache, Source!Idle, Source!BuiltIn
<1>2. edits \in Seq(Nat) /\ Len(edits) = 0 /\ DOMAIN edits = {}
  BY <1>1
<1>3. /\ cache.at = 0 /\ cache.edition = 0
      /\ \A l \in Loader : /\ load[l].since = 0 /\ load[l].edition = 0 /\ load[l].stage = "idle"
                           /\ dealt[l].at = 0 /\ dealt[l].edition = 0
  BY <1>1
<1>4. SourceTypes
  BY <1>1, <1>2 DEF SourceTypes
<1>5. NothingAhead
  BY <1>1, <1>2, <1>3 DEF NothingAhead
<1> QED
  BY <1>2, <1>3, <1>4, <1>5
  DEF SourceInv, RequestsEnd, AnswersAreCurrent, CacheIsFresh, DealtAreFresh, Fresh

\* The service replaces its cards: what was current until now is current enough
LEMMA EditStep ==
  ASSUME SourceInv, Source!Edit
  PROVE  SourceInv'
<1>1. edits' = Append(edits, sNow) /\ sNow' = sNow /\ cache' = cache /\ load' = load /\ dealt' = dealt
  BY DEF Source!Edit
<1> DEFINE n == Len(edits)
<1>2. /\ sNow \in Nat /\ Timeout \in Nat /\ CacheTTL \in Nat
      /\ n \in Nat /\ DOMAIN edits = 1 .. n /\ edits \in Seq(Nat)
  BY SourceFacts
<1>3. /\ edits' \in Seq(Nat) /\ Len(edits') = n + 1 /\ DOMAIN edits' = 1 .. n + 1
      /\ \A i \in 1 .. n : edits'[i] = edits[i]
      /\ edits'[n + 1] = sNow
  <2>1. /\ edits' \in Seq(Nat) /\ Len(edits') = n + 1
        /\ \A i \in 1 .. n : edits'[i] = edits[i]
        /\ edits'[n + 1] = sNow
    BY <1>1, <1>2, AppendProperties
  <2> QED
    BY <2>1, LenProperties
<1> HIDE DEF n
<1>4. ASSUME NEW e \in Nat, NEW at \in Nat, NEW b \in Nat, at <= sNow, Fresh(e, at, b)
      PROVE  e \in DOMAIN edits' => at <= edits'[e] + b
  <2> SUFFICES ASSUME e \in DOMAIN edits'
               PROVE  at <= edits'[e] + b
    OBVIOUS
  <2>1. CASE e \in 1 .. n
    <3>1. at <= edits[e] + b /\ edits'[e] = edits[e]
      BY <1>2, <1>3, <1>4, <2>1 DEF Fresh
    <3> QED
      BY <3>1
  <2>2. CASE e = n + 1
    BY <1>2, <1>3, <1>4, <2>2
  <2> QED
    BY <1>2, <1>3, <2>1, <2>2
<1>5. SourceTypes'
  BY <1>1, <1>3 DEF SourceInv, SourceTypes
<1>6. NothingAhead'
  <2>1. \A i \in DOMAIN edits' : edits'[i] <= sNow
    BY <1>2, <1>3, SourceFacts
  <2>2. cache.edition <= n + 1 + 1
        /\ \A l \in Loader : load[l].edition <= n + 1 + 1 /\ dealt[l].edition <= n + 1 + 1
    BY <1>2, SourceFacts DEF n
  <2>3. /\ cache.at <= sNow
        /\ \A l \in Loader : load[l].since <= sNow /\ dealt[l].at <= sNow
    BY SourceFacts
  <2> QED
    BY <1>1, <1>3, <2>1, <2>2, <2>3 DEF NothingAhead
<1>7. RequestsEnd'
  BY <1>1 DEF SourceInv, RequestsEnd
<1>8. AnswersAreCurrent'
  <2>1. \A l \in Loader : load[l].stage = "answered" =>
          (load[l].edition \in DOMAIN edits' => load[l].since <= edits'[load[l].edition] + 0)
    BY <1>4, SourceFacts DEF SourceInv, AnswersAreCurrent
  <2> QED
    BY <1>1, <2>1 DEF AnswersAreCurrent, Fresh
<1>9. CacheIsFresh'
  <2>1. cache.edition \in DOMAIN edits' => cache.at <= edits'[cache.edition] + Timeout
    BY <1>4, SourceFacts DEF SourceInv, CacheIsFresh
  <2> QED
    BY <1>1, <2>1 DEF CacheIsFresh, Fresh
<1>10. DealtAreFresh'
  <2>1. CacheTTL + Timeout \in Nat
    BY <1>2
  <2>2. \A l \in Loader : dealt[l].edition \in DOMAIN edits' =>
          dealt[l].at <= edits'[dealt[l].edition] + (CacheTTL + Timeout)
    BY <1>4, <2>1, SourceFacts DEF SourceInv, DealtAreFresh
  <2> QED
    BY <1>1, <2>2 DEF DealtAreFresh, Fresh
<1> QED
  BY <1>5, <1>6, <1>7, <1>8, <1>9, <1>10 DEF SourceInv

\* Time passes, but not for a request whose time is up
LEMMA SourceTick ==
  ASSUME SourceInv, Source!Tick
  PROVE  SourceInv'
<1>1. /\ sNow' = sNow + 1 /\ edits' = edits /\ cache' = cache /\ load' = load /\ dealt' = dealt
      /\ \A l \in Loader : load[l] # Source!Idle => sNow - load[l].since < Timeout
  BY DEF Source!Tick
<1>2. SourceTypes' /\ NothingAhead'
  <2>1. SourceTypes'
    BY <1>1 DEF SourceInv, SourceTypes
  <2> QED
    BY <1>1, <2>1, SourceFacts DEF NothingAhead
<1>3. RequestsEnd'
  <2> SUFFICES ASSUME NEW l \in Loader, load[l].stage # "idle"
               PROVE  sNow + 1 <= load[l].since + Timeout
    BY <1>1 DEF RequestsEnd
  <2>1. load[l] # Source!Idle
    BY DEF Source!Idle
  <2>2. sNow - load[l].since < Timeout
    BY <1>1, <2>1
  <2> QED
    BY <2>2, SourceFacts
<1>4. AnswersAreCurrent' /\ CacheIsFresh' /\ DealtAreFresh'
  BY <1>1 DEF SourceInv, AnswersAreCurrent, CacheIsFresh, DealtAreFresh, Fresh
<1> QED
  BY <1>2, <1>3, <1>4 DEF SourceInv

\* A step of one load that deals fresh cards or none, and leaves a fresh cache
LEMMA LoadStep ==
  ASSUME SourceInv, SourceTypes',
         sNow' = sNow, edits' = edits,
         cache'.at <= sNow, cache'.edition <= Len(edits) + 1,
         Fresh(cache'.edition, cache'.at, Timeout),
         NEW l \in Loader,
         \A k \in Loader \ {l} : load'[k] = load[k] /\ dealt'[k] = dealt[k],
         load'[l].since <= sNow, load'[l].edition <= Len(edits) + 1,
         load'[l].stage # "idle" => sNow <= load'[l].since + Timeout,
         load'[l].stage = "answered" => Fresh(load'[l].edition, load'[l].since, 0),
         dealt'[l].at <= sNow, dealt'[l].edition <= Len(edits) + 1,
         Fresh(dealt'[l].edition, dealt'[l].at, CacheTTL + Timeout)
  PROVE  SourceInv'
<1>1. NothingAhead'
  <2>1. \A k \in Loader : load'[k].since <= sNow /\ load'[k].edition <= Len(edits) + 1
    BY DEF SourceInv, NothingAhead
  <2>2. \A k \in Loader : dealt'[k].at <= sNow /\ dealt'[k].edition <= Len(edits) + 1
    BY DEF SourceInv, NothingAhead
  <2> QED
    BY <2>1, <2>2 DEF SourceInv, NothingAhead
<1>2. RequestsEnd'
  BY DEF SourceInv, RequestsEnd
<1>3. AnswersAreCurrent'
  BY DEF SourceInv, AnswersAreCurrent, Fresh
<1>4. CacheIsFresh' /\ DealtAreFresh'
  BY DEF SourceInv, CacheIsFresh, DealtAreFresh, Fresh
<1> QED
  BY <1>1, <1>2, <1>3, <1>4 DEF SourceInv

\* What a load is given now
LEMMA Given ==
  ASSUME SourceInv, NEW l \in Loader, NEW e \in Nat, Source!Give(l, e)
  PROVE  /\ dealt' \in [Loader -> [edition : Nat, at : Nat]]
         /\ dealt'[l].edition = e /\ dealt'[l].at = sNow
         /\ \A k \in Loader \ {l} : dealt'[k] = dealt[k]
<1>1. dealt' = [dealt EXCEPT ![l] = [edition |-> e, at |-> sNow]]
  BY DEF Source!Give
<1>2. dealt \in [Loader -> [edition : Nat, at : Nat]] /\ sNow \in Nat
  BY DEF SourceInv, SourceTypes
<1>3. dealt'[l] = [edition |-> e, at |-> sNow]
  BY <1>1, <1>2
<1> QED
  BY <1>1, <1>2, <1>3

\* A cache entry is used that is young enough
LEMMA CacheHitStep ==
  ASSUME SourceInv, NEW l \in Loader, Source!CacheHit(l)
  PROVE  SourceInv'
<1>1. /\ sNow' = sNow /\ edits' = edits /\ cache' = cache /\ load' = load
      /\ Source!Give(l, cache.edition) /\ sNow - cache.at <= CacheTTL
  BY DEF Source!CacheHit, Source!Cached
<1>2. /\ dealt' \in [Loader -> [edition : Nat, at : Nat]]
      /\ dealt'[l].edition = cache.edition /\ dealt'[l].at = sNow
      /\ \A k \in Loader \ {l} : dealt'[k] = dealt[k]
  BY <1>1, Given, SourceFacts
<1>3. Fresh(cache.edition, sNow, CacheTTL + Timeout)
  <2> SUFFICES ASSUME cache.edition \in DOMAIN edits
               PROVE  sNow <= edits[cache.edition] + (CacheTTL + Timeout)
    BY DEF Fresh
  <2>1. cache.at <= edits[cache.edition] + Timeout
    BY DEF SourceInv, CacheIsFresh, Fresh
  <2>2. edits[cache.edition] \in Nat /\ cache.at \in Nat /\ sNow \in Nat
        /\ CacheTTL \in Nat /\ Timeout \in Nat
    BY SourceFacts
  <2> QED
    BY <1>1, <2>1, <2>2
<1>4. SourceTypes'
  BY <1>1, <1>2 DEF SourceInv, SourceTypes
<1>5. Fresh(cache.edition, cache.at, Timeout)
  BY DEF SourceInv, CacheIsFresh
<1>6. /\ load[l].stage # "idle" => sNow <= load[l].since + Timeout
      /\ load[l].stage = "answered" => Fresh(load[l].edition, load[l].since, 0)
  BY DEF SourceInv, RequestsEnd, AnswersAreCurrent
<1>7. dealt'[l].at <= sNow /\ dealt'[l].edition <= Len(edits) + 1
  BY <1>2, SourceFacts
<1> QED
  BY <1>1, <1>2, <1>3, <1>4, <1>5, <1>6, <1>7, SourceFacts, LoadStep

\* A request is sent or is answered at the service: nothing is dealt
LEMMA RequestStep ==
  ASSUME SourceInv, NEW l \in Loader, Source!Request(l) \/ Source!Answered(l)
  PROVE  SourceInv'
<1>1. sNow' = sNow /\ edits' = edits /\ dealt' = dealt
  BY DEF Source!Request, Source!Answered
<1>2. load \in [Loader -> [stage : {"idle", "sent", "answered"}, since : Nat, edition : Nat]]
      /\ Len(edits) \in Nat /\ DOMAIN edits = 1 .. Len(edits) /\ Timeout \in Nat
      /\ sNow \in Nat /\ cache \in [edition : Nat, at : Nat]
  BY SourceFacts DEF SourceInv, SourceTypes
<1>3. Fresh(cache.edition, cache.at, Timeout) /\ cache.at <= sNow /\ cache.edition <= Len(edits) + 1
  BY SourceFacts DEF SourceInv, CacheIsFresh
<1>4. /\ dealt[l].at <= sNow /\ dealt[l].edition <= Len(edits) + 1
      /\ Fresh(dealt[l].edition, dealt[l].at, CacheTTL + Timeout)
  BY SourceFacts DEF SourceInv, DealtAreFresh
<1>5. CASE Source!Request(l)
  <2>1. /\ cache' = [edition |-> 0, at |-> 0]
        /\ load' = [load EXCEPT ![l] = [stage |-> "sent", since |-> sNow, edition |-> 0]]
    BY <1>5 DEF Source!Request, Source!NoCache, Source!BuiltIn
  <2>2. /\ load'[l].stage = "sent" /\ load'[l].since = sNow /\ load'[l].edition = 0
        /\ \A k \in Loader \ {l} : load'[k] = load[k]
        /\ cache'.at = 0 /\ cache'.edition = 0
    BY <1>2, <2>1
  <2>3. SourceTypes'
    BY <1>1, <1>2, <2>1 DEF SourceInv, SourceTypes
  <2>4. Fresh(cache'.edition, cache'.at, Timeout)
    BY <1>2, <2>2 DEF Fresh
  <2>5. /\ cache'.at <= sNow /\ cache'.edition <= Len(edits) + 1
        /\ load'[l].since <= sNow /\ load'[l].edition <= Len(edits) + 1
        /\ sNow <= load'[l].since + Timeout
    BY <1>2, <2>2
  <2> QED
    BY <1>1, <1>4, <2>2, <2>3, <2>4, <2>5, LoadStep
<1>6. CASE Source!Answered(l)
  <2>1. /\ cache' = cache /\ load[l].stage = "sent"
        /\ load' = [load EXCEPT ![l].stage = "answered", ![l].edition = Len(edits) + 1]
    BY <1>6 DEF Source!Answered, Source!Edition
  <2>2. /\ load'[l].stage = "answered" /\ load'[l].since = load[l].since
        /\ load'[l].edition = Len(edits) + 1
        /\ \A k \in Loader \ {l} : load'[k] = load[k]
        /\ load' \in [Loader -> [stage : {"idle", "sent", "answered"}, since : Nat, edition : Nat]]
    <3>1. load[l] \in [stage : {"idle", "sent", "answered"}, since : Nat, edition : Nat]
          /\ Len(edits) + 1 \in Nat
      BY <1>2
    <3>2. load' = [load EXCEPT ![l] = [load[l] EXCEPT !.stage = "answered", !.edition = Len(edits) + 1]]
      BY <1>2, <2>1
    <3> DEFINE r == [load[l] EXCEPT !.stage = "answered", !.edition = Len(edits) + 1]
    <3>3. /\ r \in [stage : {"idle", "sent", "answered"}, since : Nat, edition : Nat]
          /\ r.stage = "answered" /\ r.since = load[l].since /\ r.edition = Len(edits) + 1
      BY <3>1
    <3> HIDE DEF r
    <3>4. load' = [load EXCEPT ![l] = r]
      BY <3>2 DEF r
    <3> QED
      BY <1>2, <3>3, <3>4
  <2>3. SourceTypes'
    BY <1>1, <2>1, <2>2 DEF SourceInv, SourceTypes
  <2>4. Fresh(load'[l].edition, load'[l].since, 0)
    BY <1>2, <2>2 DEF Fresh
  <2>5. load[l].since <= sNow /\ sNow <= load[l].since + Timeout
    BY <2>1, SourceFacts DEF SourceInv, RequestsEnd
  <2> QED
    BY <1>1, <1>2, <1>3, <1>4, <2>1, <2>2, <2>3, <2>4, <2>5, LoadStep
<1> QED
  BY <1>5, <1>6

\* The answer arrives: what was read for it was current after the request
LEMMA ArrivesStep ==
  ASSUME SourceInv, NEW l \in Loader, Source!Arrives(l)
  PROVE  SourceInv'
<1> DEFINE e == load[l].edition
<1>1. /\ load[l].stage = "answered" /\ sNow' = sNow /\ edits' = edits
      /\ cache' = [edition |-> e, at |-> sNow] /\ Source!Give(l, e)
      /\ load' = [load EXCEPT ![l] = [stage |-> "idle", since |-> 0, edition |-> 0]]
  BY DEF Source!Arrives, Source!Idle, Source!BuiltIn
<1>2. /\ load \in [Loader -> [stage : {"idle", "sent", "answered"}, since : Nat, edition : Nat]]
      /\ e \in Nat /\ sNow \in Nat /\ Len(edits) \in Nat /\ e <= Len(edits) + 1
      /\ DOMAIN edits = 1 .. Len(edits)
  BY SourceFacts DEF SourceInv, SourceTypes
<1>3. /\ dealt' \in [Loader -> [edition : Nat, at : Nat]]
      /\ dealt'[l].edition = e /\ dealt'[l].at = sNow
      /\ \A k \in Loader \ {l} : dealt'[k] = dealt[k]
  BY <1>1, <1>2, Given
<1>4. e \in DOMAIN edits => sNow <= edits[e] + Timeout /\ sNow <= edits[e] + (CacheTTL + Timeout)
  <2> SUFFICES ASSUME e \in DOMAIN edits
               PROVE  sNow <= edits[e] + Timeout /\ sNow <= edits[e] + (CacheTTL + Timeout)
    OBVIOUS
  <2>1. load[l].since <= edits[e] + 0
    BY <1>1 DEF SourceInv, AnswersAreCurrent, Fresh
  <2>2. sNow <= load[l].since + Timeout
    BY <1>1 DEF SourceInv, RequestsEnd
  <2>3. edits[e] \in Nat /\ load[l].since \in Nat /\ Timeout \in Nat /\ CacheTTL \in Nat
    BY SourceFacts
  <2> QED
    BY <1>2, <2>1, <2>2, <2>3
<1> HIDE DEF e
<1>5. /\ load'[l].stage = "idle" /\ load'[l].since = 0 /\ load'[l].edition = 0
      /\ \A k \in Loader \ {l} : load'[k] = load[k]
      /\ cache'.at = sNow /\ cache'.edition = e
  BY <1>1, <1>2
<1>6. SourceTypes'
  BY <1>1, <1>2, <1>3 DEF SourceInv, SourceTypes
<1>7. /\ Fresh(cache'.edition, cache'.at, Timeout)
      /\ Fresh(dealt'[l].edition, dealt'[l].at, CacheTTL + Timeout)
  BY <1>3, <1>4, <1>5 DEF Fresh
<1>8. /\ cache'.at <= sNow /\ cache'.edition <= Len(edits) + 1
      /\ load'[l].since <= sNow /\ load'[l].edition <= Len(edits) + 1
      /\ dealt'[l].at <= sNow /\ dealt'[l].edition <= Len(edits) + 1
  BY <1>2, <1>3, <1>5
<1> QED
  BY <1>1, <1>3, <1>5, <1>6, <1>7, <1>8, LoadStep

\* No answer: the cards built in are dealt, the cache is left alone
LEMMA FailsStep ==
  ASSUME SourceInv, NEW l \in Loader, Source!Fails(l)
  PROVE  SourceInv'
<1>1. /\ sNow' = sNow /\ edits' = edits /\ cache' = cache /\ Source!Give(l, 0)
      /\ load' = [load EXCEPT ![l] = [stage |-> "idle", since |-> 0, edition |-> 0]]
  BY DEF Source!Fails, Source!Idle, Source!BuiltIn
<1>2. /\ load \in [Loader -> [stage : {"idle", "sent", "answered"}, since : Nat, edition : Nat]]
      /\ sNow \in Nat /\ Len(edits) \in Nat /\ DOMAIN edits = 1 .. Len(edits)
  BY SourceFacts DEF SourceInv, SourceTypes
<1>3. /\ dealt' \in [Loader -> [edition : Nat, at : Nat]]
      /\ dealt'[l].edition = 0 /\ dealt'[l].at = sNow
      /\ \A k \in Loader \ {l} : dealt'[k] = dealt[k]
  BY <1>1, Given
<1>4. /\ load'[l].stage = "idle" /\ load'[l].since = 0 /\ load'[l].edition = 0
      /\ \A k \in Loader \ {l} : load'[k] = load[k]
  BY <1>1, <1>2
<1>5. SourceTypes'
  BY <1>1, <1>2, <1>3 DEF SourceInv, SourceTypes
<1>6. /\ Fresh(cache.edition, cache.at, Timeout) /\ cache.at <= sNow
      /\ cache.edition <= Len(edits) + 1
  BY SourceFacts DEF SourceInv, CacheIsFresh
<1>7. Fresh(dealt'[l].edition, dealt'[l].at, CacheTTL + Timeout)
  BY <1>2, <1>3 DEF Fresh
<1>8. /\ load'[l].since <= sNow /\ load'[l].edition <= Len(edits) + 1
      /\ dealt'[l].at <= sNow /\ dealt'[l].edition <= Len(edits) + 1
  BY <1>2, <1>3, <1>4
<1> QED
  BY <1>1, <1>3, <1>4, <1>5, <1>6, <1>7, <1>8, LoadStep

\* Every step of every service keeps the invariant of the source of the cards
LEMMA SourceStep ==
  ASSUME SourceInv, [Next]_vars
  PROVE  SourceInv'
<1>1. [Source!Next]_source
  BY OneServiceSteps
<1>2. CASE UNCHANGED source
  BY <1>2 DEF source, SourceInv, SourceTypes, NothingAhead, RequestsEnd, AnswersAreCurrent,
              CacheIsFresh, DealtAreFresh, Fresh
<1> QED
  BY <1>1, <1>2, EditStep, SourceTick, CacheHitStep, RequestStep, ArrivesStep, FailsStep
  DEF Source!Next

\* No game is dealt cards that the service had replaced for longer than a cache
\* entry lives and a request takes, for any number of loads that overtake each
\* other (load_cards, _cached_remote_cards).
THEOREM NoOldCardsAreDealt == Spec => []DealtIsRecent
<1>1. Init => SourceInv
  BY SourceInitially DEF Init
<1>2. SourceInv /\ [Next]_vars => SourceInv'
  BY SourceStep
<1>3. SourceInv => DealtIsRecent
  <2> SUFFICES ASSUME SourceInv, NEW l \in Loader, dealt[l].edition \in DOMAIN edits
               PROVE  dealt[l].at - edits[dealt[l].edition] <= CacheTTL + Timeout
    BY DEF DealtIsRecent, Source!DealtIsRecent
  <2>1. dealt[l].at <= edits[dealt[l].edition] + (CacheTTL + Timeout)
    BY DEF SourceInv, DealtAreFresh, Fresh
  <2>2. /\ dealt[l].at \in Nat /\ edits[dealt[l].edition] \in Nat
        /\ CacheTTL \in Nat /\ Timeout \in Nat
    BY SourceFacts
  <2> QED
    BY <2>1, <2>2
<1> QED
  BY <1>1, <1>2, <1>3, PTL DEF Spec

-----------------------------------------------------------------------------
(***************************************************************************)
(* CommandWindow: the window is the end of the list of the commands that   *)
(* were carried out, and at most one shorter than it may be: of several    *)
(* rejected commands in a row only the first takes a place away.           *)
(***************************************************************************)

CommandsInv ==
  /\ window \in Seq(Command) /\ log \in Seq(Command)
  /\ told \in [Command -> Commands!Answer]
  /\ Len(window) <= Window /\ Len(window) <= Len(log)
  /\ \A i \in 1 .. Len(window) : window[i] = log[Len(log) - Len(window) + i]
  /\ Len(window) = Len(log) \/ Len(window) >= Window - 1

\* A stretch of a list
LEMMA Stretch ==
  ASSUME NEW S, NEW s \in Seq(S), NEW m \in Nat \ {0}, NEW n \in Nat, m <= n + 1, n <= Len(s)
  PROVE  /\ SubSeq(s, m, n) \in Seq(S)
         /\ Len(SubSeq(s, m, n)) = n - m + 1
         /\ \A i \in 1 .. n - m + 1 : SubSeq(s, m, n)[i] = s[m + i - 1]
<1>1. \A i \in m .. n : s[i] \in S
  <2> TAKE i \in m .. n
  <2>1. Len(s) \in Nat
    BY LenProperties
  <2>2. i \in 1 .. Len(s)
    BY <2>1
  <2> QED
    BY <2>2, ElementOfSeq
<1>2. m \in Int /\ n \in Int
  OBVIOUS
<1>3. /\ SubSeq(s, m, n) \in Seq(S)
      /\ Len(SubSeq(s, m, n)) = IF m <= n THEN n - m + 1 ELSE 0
      /\ \A i \in 1 .. n - m + 1 : SubSeq(s, m, n)[i] = s[m + i - 1]
  BY <1>1, <1>2, SubSeqProperties
<1>4. Len(SubSeq(s, m, n)) = n - m + 1
  BY <1>3
<1> QED
  BY <1>3, <1>4

\* The window with a new id: the end of the longer list
LEMMA Remembering ==
  ASSUME NEW w \in Seq(Command), NEW c \in Command, Len(w) <= Window
  PROVE  LET r == Commands!Remember(w, c)
             a == Append(w, c)
         IN  /\ r \in Seq(Command)
             /\ Len(r) = IF Len(w) < Window THEN Len(w) + 1 ELSE Window
             /\ \A i \in 1 .. Len(r) : r[i] = a[Len(w) + 1 - Len(r) + i]
<1> DEFINE r == Commands!Remember(w, c)
           a == Append(w, c)
<1>1. /\ a \in Seq(Command) /\ Len(a) = Len(w) + 1 /\ Len(w) \in Nat /\ Window \in Nat \ {0}
      /\ \A i \in 1 .. Len(a) : a[i] \in Command
  <2>1. a \in Seq(Command) /\ Len(a) = Len(w) + 1
    BY AppendProperties
  <2> HIDE DEF a
  <2>2. Len(w) \in Nat /\ \A i \in 1 .. Len(a) : a[i] \in Command
    BY <2>1, LenProperties, ElementOfSeq
  <2> QED
    BY <2>1, <2>2, Parameters DEF Commands!WindowParameters
<1>2. r = IF Len(a) <= Window THEN a ELSE SubSeq(a, Len(a) - Window + 1, Len(a))
  BY DEF Commands!Remember, Commands!LastOf
<1> HIDE DEF r, a
<1>3. /\ r \in Seq(Command)
      /\ Len(r) = IF Len(w) < Window THEN Len(w) + 1 ELSE Window
      /\ \A i \in 1 .. Len(r) : r[i] = a[Len(w) + 1 - Len(r) + i]
  <2>1. CASE Len(w) < Window
    <3>1. r = a /\ Len(r) = Len(w) + 1
      BY <1>1, <1>2, <2>1
    <3>2. \A i \in 1 .. Len(r) : Len(w) + 1 - Len(r) + i = i
      BY <1>1, <3>1
    <3> QED
      BY <1>1, <2>1, <3>1, <3>2
  <2>2. CASE Len(w) = Window
    <3>1. r = SubSeq(a, 2, Window + 1)
      BY <1>1, <1>2, <2>2
    <3>2. /\ r \in Seq(Command) /\ Len(r) = Window + 1 - 2 + 1
          /\ \A i \in 1 .. Window + 1 - 2 + 1 : r[i] = a[2 + i - 1]
      <4>1. /\ 2 \in Nat \ {0} /\ Window + 1 \in Nat /\ 2 <= Window + 1 + 1
            /\ Window + 1 <= Len(a)
        BY <1>1, <2>2
      <4> QED
        BY <1>1, <3>1, <4>1, Stretch
    <3>3. Len(r) = Window
      BY <1>1, <3>2
    <3>4. \A i \in 1 .. Len(r) : 2 + i - 1 = Len(w) + 1 - Len(r) + i /\ i \in 1 .. Window + 1 - 2 + 1
      BY <1>1, <2>2, <3>3
    <3> QED
      BY <1>1, <2>2, <3>2, <3>3, <3>4
  <2> QED
    BY <1>1, <2>1, <2>2
<1> QED
  BY <1>3 DEF r, a

\* A command that is not remembered has not been carried out recently
LEMMA RecentIsRemembered ==
  ASSUME CommandsInv
  PROVE  Commands!Promise!Recent \subseteq Commands!Remembered
<1>1. /\ Len(window) \in Nat /\ DOMAIN window = 1 .. Len(window)
      /\ Len(log) \in Nat /\ DOMAIN log = 1 .. Len(log) /\ Window \in Nat \ {0}
      /\ Len(window) <= Len(log)
  BY LenProperties, Parameters DEF CommandsInv, Commands!WindowParameters
<1> SUFFICES ASSUME NEW j \in DOMAIN log, Len(log) - j < Window - 1
             PROVE  log[j] \in Commands!Remembered
  BY DEF Commands!Promise!Recent
<1> DEFINE i == j - (Len(log) - Len(window))
<1>2. i \in 1 .. Len(window) /\ j = Len(log) - Len(window) + i
  <2>1. Len(window) = Len(log) \/ Len(window) >= Window - 1
    BY DEF CommandsInv
  <2>2. j \in 1 .. Len(log) /\ Window - 1 \in Int
    BY <1>1
  <2>3. CASE Len(window) = Len(log)
    BY <1>1, <2>2, <2>3
  <2>4. CASE Len(window) >= Window - 1
    <3>1. Len(log) - j < Len(window)
      BY <1>1, <2>2, <2>4
    <3> QED
      BY <1>1, <2>2, <3>1
  <2> QED
    BY <2>1, <2>3, <2>4
<1> HIDE DEF i
<1>3. window[i] = log[j]
  BY <1>2 DEF CommandsInv
<1> QED
  BY <1>1, <1>2, <1>3 DEF Commands!Remembered

\* A command is carried out and remembered
LEMMA SucceedStep ==
  ASSUME CommandsInv, NEW c \in Command, Commands!Succeed(c)
  PROVE  CommandsInv'
<1>1. /\ window' = Commands!Remember(window, c) /\ log' = Append(log, c)
      /\ told' \in {told, [told EXCEPT ![c] = "applied"]}
  BY DEF Commands!Succeed, Commands!Handle
<1> DEFINE a == Append(window, c)
           n == Len(log)
           k == Len(window)
<1>2. /\ window \in Seq(Command) /\ log \in Seq(Command) /\ k <= Window /\ k <= n
      /\ n \in Nat /\ k \in Nat /\ Window \in Nat \ {0}
      /\ \A i \in 1 .. k : window[i] = log[n - k + i]
      /\ k = n \/ k >= Window - 1
  BY LenProperties, Parameters DEF CommandsInv, Commands!WindowParameters
<1>3. /\ window' \in Seq(Command)
      /\ Len(window') = IF k < Window THEN k + 1 ELSE Window
      /\ \A i \in 1 .. Len(window') : window'[i] = a[k + 1 - Len(window') + i]
  BY <1>1, <1>2, Remembering
<1>4. /\ \A i \in 1 .. k : a[i] = window[i]
      /\ a[k + 1] = c
      /\ log' \in Seq(Command) /\ Len(log') = n + 1
      /\ \A i \in 1 .. n : log'[i] = log[i]
      /\ log'[n + 1] = c
  BY <1>1, <1>2, AppendProperties
<1> HIDE DEF a, n, k
<1>5. \A i \in 1 .. k + 1 : a[i] = log'[n - k + i]
  <2> TAKE i \in 1 .. k + 1
  <2>1. CASE i \in 1 .. k
    <3>1. n - k + i \in 1 .. n
      BY <1>2, <2>1
    <3> QED
      BY <1>2, <1>4, <2>1, <3>1
  <2>2. CASE i = k + 1
    <3>1. n - k + i = n + 1
      BY <1>2, <2>2
    <3> QED
      BY <1>4, <2>2, <3>1
  <2> QED
    BY <1>2, <2>1, <2>2
<1>6. \A i \in 1 .. Len(window') : window'[i] = log'[Len(log') - Len(window') + i]
  <2> TAKE i \in 1 .. Len(window')
  <2> DEFINE m == Len(window')
  <2>0. m \in 0 .. k + 1 /\ m \in Nat /\ i \in 1 .. m /\ Len(log') = n + 1
    BY <1>2, <1>3, <1>4
  <2> HIDE DEF m
  <2>1. k + 1 - m + i \in 1 .. k + 1 /\ n - k + (k + 1 - m + i) = Len(log') - m + i
    BY <1>2, <2>0
  <2>2. window'[i] = a[k + 1 - m + i]
    BY <1>3 DEF m
  <2>3. a[k + 1 - m + i] = log'[n - k + (k + 1 - m + i)]
    BY <1>5, <2>1
  <2>4. window'[i] = log'[Len(log') - m + i]
    BY <2>1, <2>2, <2>3
  <2> QED
    BY <2>4 DEF m
<1>7. /\ Len(window') <= Window /\ Len(window') <= Len(log')
      /\ Len(window') = Len(log') \/ Len(window') >= Window - 1
  BY <1>2, <1>3, <1>4
<1>8. told' \in [Command -> Commands!Answer]
  BY <1>1 DEF CommandsInv, Commands!Answer
<1> QED
  BY <1>3, <1>4, <1>6, <1>7, <1>8 DEF CommandsInv

\* A command is rejected: its id is taken back, the one that dropped out is not
LEMMA RejectedStep ==
  ASSUME CommandsInv, NEW c \in Command, Commands!Refuse(c) \/ Commands!RaiseLate(c)
  PROVE  CommandsInv'
<1> DEFINE r == Commands!Remember(window, c)
           a == Append(window, c)
           n == Len(log)
           k == Len(window)
<1>1. /\ window' = SubSeq(r, 1, Len(r) - 1) /\ log' = log
      /\ told' \in {told, [told EXCEPT ![c] = "rejected"]}
  BY DEF Commands!Refuse, Commands!RaiseLate, Commands!Handle, Commands!Forget
<1>2. /\ window \in Seq(Command) /\ log \in Seq(Command) /\ k <= Window /\ k <= n
      /\ n \in Nat /\ k \in Nat /\ Window \in Nat \ {0}
      /\ \A i \in 1 .. k : window[i] = log[n - k + i]
      /\ k = n \/ k >= Window - 1
  BY LenProperties, Parameters DEF CommandsInv, Commands!WindowParameters
<1>3. /\ r \in Seq(Command)
      /\ Len(r) = IF k < Window THEN k + 1 ELSE Window
      /\ \A i \in 1 .. Len(r) : r[i] = a[k + 1 - Len(r) + i]
  BY <1>2, Remembering
<1>4. \A i \in 1 .. k : a[i] = window[i]
  BY <1>2, AppendProperties
<1> HIDE DEF r, a, n, k
<1>5. /\ window' \in Seq(Command) /\ Len(window') = Len(r) - 1
      /\ \A i \in 1 .. Len(r) - 1 : window'[i] = r[i]
  <2> DEFINE l == Len(r) - 1
  <2>1. 1 \in Nat \ {0} /\ l \in Nat /\ 1 <= l + 1 /\ l <= Len(r) /\ l - 1 + 1 = l
    BY <1>2, <1>3
  <2>2. window' = SubSeq(r, 1, l)
    BY <1>1
  <2> HIDE DEF l
  <2>3. /\ window' \in Seq(Command) /\ Len(window') = l - 1 + 1
        /\ \A i \in 1 .. l - 1 + 1 : window'[i] = r[1 + i - 1]
    BY <1>3, <2>1, <2>2, Stretch
  <2>4. \A i \in 1 .. l : 1 + i - 1 = i
    BY <2>1
  <2>5. /\ window' \in Seq(Command) /\ Len(window') = l
        /\ \A i \in 1 .. l : window'[i] = r[i]
    BY <2>1, <2>3, <2>4
  <2> QED
    BY <2>5 DEF l
<1>6. \A i \in 1 .. Len(window') : window'[i] = log[n - Len(window') + i]
  <2> TAKE i \in 1 .. Len(window')
  <2> DEFINE p == k + 1 - Len(r) + i
  <2>1. i \in 1 .. Len(r) /\ p \in 1 .. k /\ n - k + p = n - Len(window') + i
    BY <1>2, <1>3, <1>5
  <2>2. window'[i] = a[p]
    BY <1>3, <1>5, <2>1
  <2> HIDE DEF p
  <2> QED
    BY <1>2, <1>4, <2>1, <2>2
<1>7. /\ Len(window') <= Window /\ Len(window') <= n
      /\ Len(window') = n \/ Len(window') >= Window - 1
  BY <1>2, <1>3, <1>5
<1>8. told' \in [Command -> Commands!Answer]
  BY <1>1 DEF CommandsInv, Commands!Answer
<1> QED
  BY <1>1, <1>2, <1>5, <1>6, <1>7, <1>8 DEF CommandsInv, n

LEMMA CommandsInitially == Commands!Init => CommandsInv /\ Commands!Promise!Init
<1> SUFFICES ASSUME Commands!Init
             PROVE  CommandsInv /\ Commands!Promise!Init
  OBVIOUS
<1>1. window = <<>> /\ log = <<>> /\ told = [c \in Command |-> "none"]
  BY DEF Commands!Init
<1>2. window \in Seq(Command) /\ log \in Seq(Command) /\ Len(window) = 0 /\ Len(log) = 0
  BY <1>1
<1>3. told \in [Command -> Commands!Answer]
  BY <1>1 DEF Commands!Answer
<1> QED
  BY <1>1, <1>2, <1>3, Parameters
  DEF CommandsInv, Commands!Promise!Init, Commands!WindowParameters

\* Every step of every service keeps the invariant of the window, and is a step
\* of the promise or none
LEMMA CommandsStep ==
  ASSUME CommandsInv, [Next]_vars
  PROVE  CommandsInv' /\ [Commands!Promise!Next]_(Commands!Promise!once)
<1>1. [Commands!Next]_commands
  BY OneServiceSteps
<1>2. CASE UNCHANGED <<window, log, told>>
  BY <1>2 DEF CommandsInv, Commands!Promise!once
<1>3. ASSUME NEW c \in Command, Commands!Send(c) \/ Commands!Lose(c)
      PROVE  UNCHANGED <<window, log, told>>
  BY <1>3 DEF Commands!Send, Commands!Lose
<1>4. ASSUME NEW c \in Command, Commands!Replay(c)
      PROVE  CommandsInv' /\ Commands!Promise!Next
  <2>1. /\ window' = window /\ log' = log /\ c \in Commands!Remembered
        /\ told' \in {told, [told EXCEPT ![c] = "applied"]}
    BY <1>4 DEF Commands!Replay, Commands!Handle
  <2>2. CommandsInv'
    BY <2>1 DEF CommandsInv, Commands!Answer
  <2>3. c \in Commands!Promise!Done
    <3>1. /\ Len(window) \in Nat /\ DOMAIN window = 1 .. Len(window)
          /\ Len(log) \in Nat /\ DOMAIN log = 1 .. Len(log) /\ Len(window) <= Len(log)
      BY LenProperties DEF CommandsInv
    <3>2. PICK i \in DOMAIN window : c = window[i]
      BY <2>1 DEF Commands!Remembered
    <3>3. Len(log) - Len(window) + i \in DOMAIN log
      BY <3>1
    <3>4. c = log[Len(log) - Len(window) + i]
      BY <3>1, <3>2 DEF CommandsInv
    <3> QED
      BY <3>3, <3>4 DEF Commands!Promise!Done
  <2> QED
    BY <2>1, <2>2, <2>3 DEF Commands!Promise!Next, Commands!Promise!Repeat, Commands!Promise!Tell
<1>5. ASSUME NEW c \in Command, Commands!Succeed(c)
      PROVE  CommandsInv' /\ Commands!Promise!Next
  <2>1. /\ c \notin Commands!Remembered /\ log' = Append(log, c)
        /\ told' \in {told, [told EXCEPT ![c] = "applied"]}
    BY <1>5 DEF Commands!Succeed, Commands!Handle
  <2>2. c \notin Commands!Promise!Recent
    BY <2>1, RecentIsRemembered
  <2> QED
    BY <1>5, <2>1, <2>2, SucceedStep
    DEF Commands!Promise!Next, Commands!Promise!Do, Commands!Promise!Tell
<1>6. ASSUME NEW c \in Command, Commands!Refuse(c) \/ Commands!RaiseLate(c)
      PROVE  CommandsInv' /\ Commands!Promise!Next
  <2>1. /\ c \notin Commands!Remembered /\ log' = log
        /\ told' \in {told, [told EXCEPT ![c] = "rejected"]}
    BY <1>6 DEF Commands!Refuse, Commands!RaiseLate, Commands!Handle
  <2>2. c \notin Commands!Promise!Recent
    BY <2>1, RecentIsRemembered
  <2> QED
    BY <1>6, <2>1, <2>2, RejectedStep
    DEF Commands!Promise!Next, Commands!Promise!Refuse, Commands!Promise!Tell
<1>7. UNCHANGED commands => UNCHANGED <<window, log, told>>
  BY DEF commands
<1> QED
  BY <1>1, <1>2, <1>3, <1>4, <1>5, <1>6, <1>7 DEF Commands!Next

\* A command is not carried out again before Window - 1 others have been, and a
\* client that is told that its command was applied is told the truth, for every
\* size of the window, however often commands are sent again, overtake each other
\* and are rejected in between (run_serialized_room_command).
THEOREM WindowKeepsPromise == Spec => ImplementsAtMostOnce
<1>1. Init => CommandsInv /\ Commands!Promise!Init
  BY CommandsInitially DEF Init
<1>2. CommandsInv /\ [Next]_vars => CommandsInv' /\ [Commands!Promise!Next]_(Commands!Promise!once)
  BY CommandsStep
<1> QED
  BY <1>1, <1>2, PTL
  DEF Spec, ImplementsAtMostOnce, Commands!ImplementsAtMostOnce, Commands!Promise!Spec

=============================================================================
