-------------------------- MODULE Presence_proofs --------------------------
(***************************************************************************)
(* What holds of the sockets, timers and broadcasts of a room, for every   *)
(* number of players and of sockets, whoever may leave and whatever sends  *)
(* may fail.                                                               *)
(***************************************************************************)
EXTENDS Presence, SequenceTheorems, WellFoundedInduction, TLAPS

\* What tells threads from one another.
LEMMA ThreadKinds ==
  /\ \A s \in Socket : Owner(s) \in Player /\ s[3] \in Nat /\ s \in Thread
  /\ \A t \in Timer : Owner(t) \in Player /\ t \in Thread
  /\ Rest \in Thread
  /\ Socket \intersect Timer = {}
  /\ None \notin Thread
  /\ Rest \notin Socket /\ Rest \notin Timer
  /\ \A t \in Thread : t \in Socket \/ t \in Timer \/ t = Rest
  /\ \A s, r \in Socket : Owner(s) = Owner(r) /\ s[3] = r[3] => s = r
  BY DEF Thread, Socket, Timer, Rest, None, Owner

\* A player has two grace tasks.
LEMMA TwoTasks ==
  ASSUME NEW p \in Player
  PROVE  \E t, u \in Timer : t # u /\ Owner(t) = p /\ Owner(u) = p
<1>1. /\ <<"timer", p, 1>> \in Timer /\ <<"timer", p, 2>> \in Timer
      /\ <<"timer", p, 1>> # <<"timer", p, 2>>
      /\ Owner(<<"timer", p, 1>>) = p /\ Owner(<<"timer", p, 2>>) = p
  BY DEF Timer, Owner
<1> QED
  BY <1>1

\* The least of some players.
LEMMA LeastPlayer ==
  ASSUME NEW S \in SUBSET Player, S # {}
  PROVE  Min(S) \in S /\ \A q \in S : Min(S) <= q
<1> DEFINE Less == {ss \in Nat \X Nat : ss[1] < ss[2]}
<1>1. IsWellFoundedOn(Less, Nat)
  BY NatLessThanWellFounded, Zenon DEF OpToRel
<1>2. ASSUME NEW a \in Nat, NEW b \in Nat, a < b
      PROVE  <<a, b>> \in Less
  BY <1>2
<1>3. S \subseteq Nat
  BY PresenceAssumption DEF Player
<1> HIDE DEF Less
<1>4. PICK x \in S : \A y \in S : ~ (<<y, x>> \in Less)
  BY <1>1, <1>3, WFMin, Zenon
<1>5. \A y \in S : x <= y
  <2> TAKE y \in S
  <2>1. x \in Nat /\ y \in Nat
    BY <1>3
  <2>2. ~ (y < x)
    BY <2>1, <1>2, <1>4, Zenon
  <2> QED
    BY <2>1, <2>2
<1> QED
  BY <1>5 DEF Min

\* Induction, for the members of a set.
LEMMA InductionInSet ==
  ASSUME NEW N, 0 \in N, \A n \in Nat : n \in N => n + 1 \in N
  PROVE  Nat \subseteq N
<1> DEFINE Less == {ss \in Nat \X Nat : ss[1] < ss[2]}
           Out  == Nat \ N
<1>1. IsWellFoundedOn(Less, Nat)
  BY NatLessThanWellFounded, Zenon DEF OpToRel
<1>2. ASSUME NEW a \in Nat, NEW b \in Nat, a < b
      PROVE  <<a, b>> \in Less
  BY <1>2
<1>3. SUFFICES ASSUME Out # {}
               PROVE  FALSE
  OBVIOUS
<1>4. Out \subseteq Nat
  OBVIOUS
<1> HIDE DEF Less, Out
<1>5. PICK x \in Out : \A y \in Out : ~ (<<y, x>> \in Less)
  BY <1>1, <1>3, <1>4, WFMin, Zenon
<1>6. x \in Nat /\ x \notin N
  BY DEF Out
<1>7. x - 1 \in Nat /\ x - 1 < x /\ (x - 1) + 1 = x
  <2>1. x # 0
    BY <1>6
  <2> QED
    BY <1>6, <2>1
<1>8. x - 1 \in Out
  BY <1>6, <1>7 DEF Out
<1> QED
  BY <1>2, <1>5, <1>6, <1>7, <1>8, Zenon

\* What the queue becomes is defined for every queue.
LEMMA RestOfQueueExists ==
  ASSUME NEW q \in Seq(Thread), NEW S
  PROVE  \E f : /\ f = [i \in 0 .. Len(q) |-> IF i = 0 THEN <<>>
                                            ELSE IF q[i] \in Tasks(S) THEN f[i - 1]
                                            ELSE Append(f[i - 1], q[i])]
                /\ WithoutTasks(q, S) = f[Len(q)]
<1> DEFINE Step(g, i) == IF i = 0 THEN <<>> ELSE IF q[i] \in Tasks(S) THEN g[i - 1]
                                            ELSE Append(g[i - 1], q[i])
           N == {n \in Nat : \E g : g = [i \in 0 .. n |-> Step(g, i)]}
<1>1. 0 \in N
  <2> DEFINE g == [i \in 0 .. 0 |-> <<>>]
  <2>1. g = [i \in 0 .. 0 |-> Step(g, i)]
    OBVIOUS
  <2> QED
    BY <2>1
<1>2. ASSUME NEW n \in Nat, n \in N
      PROVE  n + 1 \in N
  <2>1. PICK g : g = [i \in 0 .. n |-> Step(g, i)]
    BY <1>2
  <2> DEFINE h == [i \in 0 .. n + 1 |-> IF i \in 0 .. n THEN g[i] ELSE Step(g, i)]
  <2>2. \A i \in 0 .. n : Step(h, i) = Step(g, i)
    <3> TAKE i \in 0 .. n
    <3>1. i # 0 => i - 1 \in 0 .. n /\ h[i - 1] = g[i - 1]
      OBVIOUS
    <3> QED
      BY <3>1
  <2>3. Step(h, n + 1) = Step(g, n + 1)
    <3>1. (n + 1) - 1 = n /\ n \in 0 .. n /\ n \in 0 .. n + 1 /\ n + 1 # 0
      OBVIOUS
    <3>2. h[n] = g[n]
      BY <3>1
    <3> HIDE DEF h
    <3> QED
      BY <3>1, <3>2
  <2>4. \A i \in 0 .. n : g[i] = Step(g, i)
    BY <2>1
  <2>5. \A i \in 0 .. n + 1 : h[i] = Step(h, i)
    <3> TAKE i \in 0 .. n + 1
    <3>1. CASE i \in 0 .. n
      <4>1. h[i] = g[i]
        BY <3>1
      <4> HIDE DEF h, Step
      <4> QED
        BY <3>1, <4>1, <2>2, <2>4
    <3>2. CASE i \notin 0 .. n
      <4>1. h[i] = Step(g, i) /\ i = n + 1
        BY <3>2
      <4> HIDE DEF h, Step
      <4> QED
        BY <4>1, <2>3
    <3> QED
      BY <3>1, <3>2
  <2>6. h = [i \in 0 .. n + 1 |-> Step(h, i)]
    <3>1. h = [i \in 0 .. n + 1 |-> h[i]]
      OBVIOUS
    <3> HIDE DEF h, Step
    <3> QED
      BY <3>1, <2>5
  <2> HIDE DEF h, Step
  <2> QED
    BY <2>6
<1>3. Len(q) \in N
  <2>1. Len(q) \in Nat
    BY LenProperties
  <2> HIDE DEF N
  <2> QED
    BY <1>1, <1>2, <2>1, InductionInSet
<1>4. PICK g : g = [i \in 0 .. Len(q) |-> Step(g, i)]
  BY <1>3
<1> DEFINE f == CHOOSE h : h = [i \in 0 .. Len(q) |-> Step(h, i)]
<1>5. WithoutTasks(q, S) = f[Len(q)]
  BY Zenon DEF WithoutTasks
<1>6. f = [i \in 0 .. Len(q) |-> Step(f, i)]
  <2> HIDE DEF Step
  <2> QED
    BY <1>4, Zenon
<1> HIDE DEF f
<1> QED
  BY <1>5, <1>6

\* Who waits and is not cancelled still waits, behind nobody new; nobody else
\* waits.
Kept(w, q, S) ==
  /\ w \in Seq(Thread)
  /\ \A i \in 1 .. Len(q) : q[i] \notin Tasks(S) =>
       \E k \in 1 .. Len(w) : w[k] = q[i] /\ \A j \in 1 .. k : \E m \in 1 .. i : w[j] = q[m]
  /\ \A j \in 1 .. Len(w) : \E m \in 1 .. Len(q) : w[j] = q[m] /\ q[m] \notin Tasks(S)

LEMMA RestOfQueue ==
  ASSUME NEW q \in Seq(Thread), NEW S
  PROVE  Kept(WithoutTasks(q, S), q, S)
<1>1. PICK f : /\ f = [i \in 0 .. Len(q) |-> IF i = 0 THEN <<>>
                                            ELSE IF q[i] \in Tasks(S) THEN f[i - 1]
                                            ELSE Append(f[i - 1], q[i])]
               /\ WithoutTasks(q, S) = f[Len(q)]
  BY RestOfQueueExists
<1>2. Len(q) \in Nat /\ \A i \in 1 .. Len(q) : q[i] \in Thread
  BY LenProperties, ElementOfSeq
<1> DEFINE Good(w, n) ==
             /\ w \in Seq(Thread)
             /\ \A i \in 1 .. n : q[i] \notin Tasks(S) =>
                  \E k \in 1 .. Len(w) : w[k] = q[i] /\ \A j \in 1 .. k : \E m \in 1 .. i : w[j] = q[m]
             /\ \A j \in 1 .. Len(w) : \E m \in 1 .. n : w[j] = q[m] /\ q[m] \notin Tasks(S)
           N == {n \in Nat : n <= Len(q) => Good(f[n], n)}
<1>3. 0 \in N
  <2>1. f[0] = <<>>
    BY <1>1, <1>2
  <2>2. Good(<<>>, 0)
    BY EmptySeq
  <2> HIDE DEF Good
  <2> QED
    BY <2>1, <2>2
<1>4. ASSUME NEW n \in Nat, n \in N
      PROVE  n + 1 \in N
  <2> HIDE DEF Good
  <2> SUFFICES ASSUME n + 1 <= Len(q)
               PROVE  Good(f[n + 1], n + 1)
    OBVIOUS
  <2> USE DEF Good
  <2>1. n <= Len(q) /\ n + 1 \in 0 .. Len(q) /\ n + 1 # 0 /\ (n + 1) - 1 = n /\ n + 1 \in 1 .. Len(q)
    BY <1>2
  <2> DEFINE w == f[n]
             x == q[n + 1]
  <2>2. Good(w, n)
    BY <1>4, <2>1
  <2>3. f[n + 1] = IF x \in Tasks(S) THEN w ELSE Append(w, x)
    <3> HIDE DEF N, Good
    <3> QED
      BY <1>1, <2>1
  <2>4. x \in Thread
    BY <1>2, <2>1
  <2> HIDE DEF w, N
  <2>5. CASE x \in Tasks(S)
    <3>1. Good(w, n + 1)
      <4>1. \A i \in 1 .. n + 1 : i \in 1 .. n \/ i = n + 1
        OBVIOUS
      <4>2. \A i \in 1 .. n : i \in 1 .. n + 1
        OBVIOUS
      <4> QED
        BY <2>2, <2>5, <4>1, <4>2, Zenon DEF x
    <3> HIDE DEF Good
    <3> QED
      BY <2>3, <2>5, <3>1
  <2>6. CASE x \notin Tasks(S)
    <3> DEFINE v == Append(w, x)
    <3>1. /\ Len(w) \in Nat /\ v \in Seq(Thread) /\ Len(v) = Len(w) + 1
          /\ v[Len(w) + 1] = x /\ \A k \in 1 .. Len(w) : v[k] = w[k]
      BY <2>2, <2>4, AppendProperties, LenProperties
    <3> HIDE DEF v
    <3>2. /\ \A k \in 1 .. Len(w) : k \in 1 .. Len(v)
          /\ \A k \in 1 .. Len(v) : k \in 1 .. Len(w) \/ k = Len(w) + 1
          /\ Len(w) + 1 \in 1 .. Len(v)
          /\ \A i \in 1 .. n + 1 : i \in 1 .. n \/ i = n + 1
          /\ \A i \in 1 .. n : i \in 1 .. n + 1
          /\ n + 1 \in 1 .. n + 1
      BY <3>1
    <3>3. \A j \in 1 .. Len(v) : \E m \in 1 .. n + 1 : v[j] = q[m] /\ q[m] \notin Tasks(S)
      <4> TAKE j \in 1 .. Len(v)
      <4>1. CASE j \in 1 .. Len(w)
        <5>1. PICK m \in 1 .. n : w[j] = q[m] /\ q[m] \notin Tasks(S)
          BY <2>2, <4>1
        <5> QED
          BY <3>1, <3>2, <4>1, <5>1, Zenon
      <4>2. CASE j = Len(w) + 1
        BY <2>6, <3>1, <3>2, <4>2, Zenon DEF x
      <4> QED
        BY <3>2, <4>1, <4>2, Zenon
    <3>4. \A i \in 1 .. n + 1 : q[i] \notin Tasks(S) =>
            \E k \in 1 .. Len(v) : v[k] = q[i] /\ \A j \in 1 .. k : \E m \in 1 .. i : v[j] = q[m]
      <4> TAKE i \in 1 .. n + 1
      <4> HAVE q[i] \notin Tasks(S)
      <4>1. CASE i \in 1 .. n
        <5>1. PICK k \in 1 .. Len(w) : w[k] = q[i] /\ \A j \in 1 .. k : \E m \in 1 .. i : w[j] = q[m]
          BY <2>2, <4>1
        <5>2. \A j \in 1 .. k : j \in 1 .. Len(w)
          BY <3>1
        <5> QED
          BY <3>1, <3>2, <5>1, <5>2, Zenon
      <4>2. CASE i = n + 1
        BY <3>1, <3>2, <3>3, <4>2, Zenon DEF x
      <4> QED
        BY <3>2, <4>1, <4>2, Zenon
    <3>5. Good(v, n + 1)
      BY <3>1, <3>3, <3>4, Zenon
    <3> HIDE DEF Good
    <3> QED
      BY <2>3, <2>6, <3>5 DEF v
  <2> HIDE DEF Good
  <2> QED
    BY <2>5, <2>6
<1>5. Len(q) \in N
  <2> HIDE DEF N
  <2> QED
    BY <1>2, <1>3, <1>4, InductionInSet
<1>6. Good(f[Len(q)], Len(q))
  <2> HIDE DEF Good
  <2> QED
    BY <1>2, <1>5
<1>7. Good(WithoutTasks(q, S), Len(q))
  <2> HIDE DEF Good
  <2> QED
    BY <1>1, <1>6, Zenon
<1> QED
  BY <1>7, Zenon DEF Kept

-----------------------------------------------------------------------------
(***************************************************************************)
(* The inductive invariant of the tasks and the broadcasts.                *)
(***************************************************************************)

CastRecord == [ phase : {"none", "send", "mark", "inform"}, left : SUBSET Player,
                to : Player \union {0}, via : Socket \union {None},
                stale : SUBSET Player, unmarked : SUBSET Player ]
TimerRecord == [at : {"free", "asleep", "waiting", "announcing"}, epoch : Nat]

\* The grace tasks of p: grace_tasks knows the one that runs, which is about the
\* present absence of p, and is in a broadcast only after it has excluded p.
\* That broadcast never finds p lost, so that no task cancels itself.
TaskOf(p) ==
  /\ entry[p] # None => /\ entry[p] \in Timer /\ Owner(entry[p]) = p
                        /\ timer[entry[p]] # NoTimer
  /\ \A t \in Timer : Owner(t) = p =>
       /\ timer[t] # NoTimer => entry[p] = t /\ timer[t].epoch = epoch[p] /\ p \notin present
       /\ cast[t] # NoCast => /\ timer[t].at = "announcing"
                              /\ p \notin cast[t].stale \union cast[t].unmarked
       /\ timer[t].at = "announcing" => p \in excluded

\* The broadcast of t is at a place where t broadcasts.
CastOf(t) ==
  /\ cast[t].phase = "none" => cast[t] = NoCast
  /\ cast[t].phase = "mark" => cast[t].unmarked # {} /\ cast[t].via = None
  /\ t \in Socket /\ cast[t] # NoCast =>
       /\ pc[t] \in {"greeting", "commanding", "acking", "farewell"}
       /\ pc[t] = "acking" => cast[t].phase = "inform"
       /\ cast[t].phase = "mark" => pc[t] \in {"greeting", "farewell"}

TasksOK == \A p \in Player : TaskOf(p)
CastsOK == \A t \in Thread : CastOf(t)

Inv == TypeOK /\ TasksOK /\ CastsOK

LEMMA Records ==
  /\ NoCast \in CastRecord /\ NoTimer \in TimerRecord
  /\ NoCast.phase = "none" /\ NoCast.via = None /\ NoTimer.at = "free"
  /\ \A S \in SUBSET Player :
       /\ Sending(S) \in CastRecord /\ Sending(S).phase = "send"
       /\ Sending(S).left = S /\ Sending(S).stale = {} /\ Sending(S).unmarked = {}
  BY DEF NoCast, NoTimer, CastRecord, TimerRecord, Sending

LEMMA InformingRecord ==
  ASSUME NEW S \in SUBSET Player, NEW stale \in SUBSET Player
  PROVE  /\ Informing(S, stale) \in CastRecord /\ Informing(S, stale).phase = "inform"
         /\ Informing(S, stale).left = S /\ Informing(S, stale).stale = stale
         /\ Informing(S, stale).unmarked = {}
  BY DEF NoCast, CastRecord, Informing

\* The record of a thread that is to mark the players S.
Marking(stale, S) == [NoCast EXCEPT !.phase = "mark", !.stale = stale, !.unmarked = S]

LEMMA MarkingRecord ==
  ASSUME NEW stale \in SUBSET Player, NEW S \in SUBSET Player
  PROVE  /\ Marking(stale, S) \in CastRecord /\ Marking(stale, S).phase = "mark"
         /\ Marking(stale, S).stale = stale /\ Marking(stale, S).unmarked = S
         /\ Marking(stale, S).via = None
  BY DEF NoCast, CastRecord, Marking

\* What the type invariant says of one player or thread.
LEMMA Types ==
  ASSUME TypeOK
  PROVE  /\ \A p \in Player : entry[p] \in Timer \union {None} /\ epoch[p] \in Nat
         /\ \A t \in Timer : timer[t] \in TimerRecord /\ timer[t].epoch \in Nat
         /\ \A t \in Thread : /\ cast[t] \in CastRecord /\ cast[t].stale \subseteq Player
                              /\ cast[t].unmarked \subseteq Player /\ cast[t].left \subseteq Player
                              /\ cast[t].via \in Socket \union {None}
         /\ entry = [p \in Player |-> entry[p]]
         /\ timer = [t \in Timer |-> timer[t]]
         /\ cast = [t \in Thread |-> cast[t]]
         /\ member \subseteq Player /\ present \subseteq Player
  BY DEF TypeOK, CastRecord, TimerRecord

\* A thread that is in a broadcast of its own is not one that is free.
LEMMA FreeTask ==
  ASSUME TypeOK, TasksOK, NEW t \in Timer, timer[t] = NoTimer
  PROVE  cast[t] = NoCast
<1>1. Owner(t) \in Player
  BY ThreadKinds
<1>2. TaskOf(Owner(t))
  BY <1>1 DEF TasksOK
<1>3. timer[t].at = "free"
  BY Records
<1> QED
  BY <1>2, <1>3 DEF TaskOf

\* The tasks of some players are cancelled.
LEMMA Cancelling ==
  ASSUME TypeOK, TasksOK, NEW S \in SUBSET Player
  PROVE  /\ Tasks(S) \subseteq Timer
         /\ \A t \in Timer : Owner(t) \in S =>
              TimersWithout(S)[t] = NoTimer /\ CastsWithout(S)[t] = NoCast
         /\ \A t \in Timer : Owner(t) \notin S =>
              TimersWithout(S)[t] = timer[t] /\ CastsWithout(S)[t] = cast[t]
         /\ \A t \in Thread \ Timer : CastsWithout(S)[t] = cast[t]
         /\ TimersWithout(S) \in [Timer -> TimerRecord]
         /\ CastsWithout(S) \in [Thread -> CastRecord]
<1>1. \A p \in S : entry[p] # None => entry[p] \in Timer /\ Owner(entry[p]) = p
  BY DEF TasksOK, TaskOf
<1>2. Tasks(S) \subseteq Timer
  BY <1>1 DEF Tasks
<1>3. \A t \in Timer : Owner(t) \notin S => t \notin Tasks(S)
  BY <1>1 DEF Tasks
<1>4. \A t \in Timer : Owner(t) \in S /\ timer[t] # NoTimer => t \in Tasks(S)
  <2> TAKE t \in Timer
  <2> HAVE Owner(t) \in S /\ timer[t] # NoTimer
  <2>1. TaskOf(Owner(t))
    BY ThreadKinds DEF TasksOK
  <2>2. entry[Owner(t)] = t
    BY <2>1 DEF TaskOf
  <2>3. t # None
    BY ThreadKinds
  <2> QED
    BY <2>2, <2>3 DEF Tasks
<1>5. \A t \in Timer : timer[t] = NoTimer => cast[t] = NoCast
  BY FreeTask
<1>6. \A t \in Thread \ Timer : t \notin Tasks(S)
  BY <1>2
<1>7. Timer \subseteq Thread
  BY DEF Thread
<1>8. TimersWithout(S) \in [Timer -> TimerRecord] /\ CastsWithout(S) \in [Thread -> CastRecord]
  BY Types, Records DEF TimersWithout, CastsWithout
<1> QED
  BY <1>2, <1>3, <1>4, <1>5, <1>6, <1>7, <1>8 DEF TimersWithout, CastsWithout

\* Some players get new tasks.
LEMMA Restarting ==
  ASSUME TypeOK, TasksOK, NEW S \in SUBSET Player
  PROVE  /\ \A p \in S : /\ EntryAfter(S)[p] \in Timer /\ Owner(EntryAfter(S)[p]) = p
                         /\ TimerAfter(S)[EntryAfter(S)[p]] = [at |-> "asleep", epoch |-> epoch[p]]
                         /\ \A t \in Timer : Owner(t) = p /\ t # EntryAfter(S)[p] =>
                              TimerAfter(S)[t] = NoTimer
         /\ \A p \in Player \ S : EntryAfter(S)[p] = entry[p]
         /\ \A t \in Timer : Owner(t) \notin S => TimerAfter(S)[t] = timer[t]
         /\ EntryAfter(S) \in [Player -> Timer \union {None}]
         /\ TimerAfter(S) \in [Timer -> TimerRecord]
<1>1. \A p \in S : FreshTask(p) \in Timer /\ Owner(FreshTask(p)) = p
  <2> TAKE p \in S
  <2>1. PICK t \in Timer : Owner(t) = p
    BY TwoTasks
  <2>2. TimersWithout({p})[t] = NoTimer
    BY <2>1, Cancelling
  <2> QED
    BY <2>1, <2>2, Zenon DEF FreshTask
<1>2. \A p \in S : EntryAfter(S)[p] = FreshTask(p)
  BY DEF EntryAfter
<1>3. \A p \in Player \ S : EntryAfter(S)[p] = entry[p]
  BY DEF EntryAfter
<1>4. /\ \A t \in Timer : Owner(t) \in S => TimersWithout(S)[t] = NoTimer
      /\ \A t \in Timer : Owner(t) \notin S => TimersWithout(S)[t] = timer[t]
      /\ TimersWithout(S) \in [Timer -> TimerRecord]
  BY Cancelling
<1>5. \A p \in S : [at |-> "asleep", epoch |-> epoch[p]] \in TimerRecord
  BY Types DEF TimerRecord
<1>6. EntryAfter(S) \in [Player -> Timer \union {None}]
  BY <1>1, Types DEF EntryAfter
<1> HIDE DEF Owner, FreshTask, TimersWithout
<1>7. TimerAfter(S) \in [Timer -> TimerRecord]
  BY <1>4, <1>5 DEF TimerAfter
<1>8. \A t \in Timer : TimerAfter(S)[t] = IF Owner(t) \in S /\ t = FreshTask(Owner(t))
                                          THEN [at |-> "asleep", epoch |-> epoch[Owner(t)]]
                                          ELSE TimersWithout(S)[t]
  BY DEF TimerAfter
<1> QED
  BY <1>1, <1>2, <1>3, <1>4, <1>6, <1>7, <1>8
-----------------------------------------------------------------------------
(***************************************************************************)
(* What a step may do to the tasks of one player.                          *)
(***************************************************************************)

\* Nothing but the progress of a broadcast.
LEMMA TaskContinues ==
  ASSUME NEW p \in Player, TaskOf(p),
         entry'[p] = entry[p], epoch'[p] = epoch[p],
         p \in present' => p \in present, p \in excluded => p \in excluded',
         \A t \in Timer : Owner(t) = p =>
           /\ timer'[t] = timer[t]
           /\ \/ cast'[t] \in {cast[t], NoCast}
              \/ timer[t].at = "announcing" /\ p \notin cast'[t].stale \union cast'[t].unmarked
  PROVE  TaskOf(p)'
  BY DEF TaskOf

\* Its task is cancelled, or ends.
LEMMA TaskEnds ==
  ASSUME NEW p \in Player,
         entry'[p] = None,
         \A t \in Timer : Owner(t) = p => timer'[t] = NoTimer /\ cast'[t] = NoCast
  PROVE  TaskOf(p)'
  BY Records DEF TaskOf

\* It gets a new task.
LEMMA TaskBegins ==
  ASSUME TypeOK, NEW p \in Player, NEW u \in Timer, Owner(u) = p,
         entry'[p] = u, epoch'[p] = epoch[p], p \notin present',
         timer'[u] = [at |-> "asleep", epoch |-> epoch[p]],
         \A t \in Timer : Owner(t) = p /\ t # u => timer'[t] = NoTimer,
         \A t \in Timer : Owner(t) = p => cast'[t] = NoCast
  PROVE  TaskOf(p)'
<1>1. [at |-> "asleep", epoch |-> epoch[p]] # NoTimer
  BY DEF NoTimer
<1> QED
  BY <1>1, Records DEF TaskOf

\* What it does to the broadcast of one thread.
LEMMA CastContinues ==
  ASSUME NEW t \in Thread, CastOf(t),
         cast'[t] \in {cast[t], NoCast},
         t \in Socket => pc'[t] = pc[t] \/ cast[t] = NoCast
  PROVE  CastOf(t)'
  BY Records DEF CastOf

\* Without a broadcast, the place does not matter.
LEMMA CastEnds ==
  ASSUME NEW t \in Thread, cast'[t] = NoCast
  PROVE  CastOf(t)'
  BY Records DEF CastOf

\* The tasks when the players S are marked, and t goes on as c.
LEMMA MarkingTasks ==
  ASSUME TypeOK, TasksOK, NEW S \in SUBSET Player, NEW t \in Thread, NEW c \in CastRecord,
         present' = present \ S, excluded' = excluded, epoch' = epoch,
         t \in Timer => /\ Owner(t) \notin S /\ timer[t].at = "announcing"
                        /\ Owner(t) \notin c.stale \union c.unmarked,
         entry' = EntryAfter(S), timer' = TimerAfter(S),
         cast' = [CastsWithout(S) EXCEPT ![t] = c]
  PROVE  /\ TasksOK'
         /\ entry' \in [Player -> Timer \union {None}]
         /\ timer' \in [Timer -> TimerRecord]
         /\ cast' \in [Thread -> CastRecord]
<1>1. /\ CastsWithout(S) \in [Thread -> CastRecord]
      /\ \A u \in Timer : Owner(u) \in S => CastsWithout(S)[u] = NoCast
      /\ \A u \in Timer : Owner(u) \notin S => CastsWithout(S)[u] = cast[u]
  BY Cancelling
<1>2. /\ \A p \in S : /\ EntryAfter(S)[p] \in Timer /\ Owner(EntryAfter(S)[p]) = p
                      /\ TimerAfter(S)[EntryAfter(S)[p]] = [at |-> "asleep", epoch |-> epoch[p]]
                      /\ \A u \in Timer : Owner(u) = p /\ u # EntryAfter(S)[p] =>
                           TimerAfter(S)[u] = NoTimer
      /\ \A p \in Player \ S : EntryAfter(S)[p] = entry[p]
      /\ \A u \in Timer : Owner(u) \notin S => TimerAfter(S)[u] = timer[u]
      /\ EntryAfter(S) \in [Player -> Timer \union {None}]
      /\ TimerAfter(S) \in [Timer -> TimerRecord]
  BY Restarting
<1>3. Timer \subseteq Thread
  BY DEF Thread
<1>4. cast'[t] = c /\ \A u \in Timer : u # t => cast'[u] = CastsWithout(S)[u]
  BY <1>1, <1>3
<1> HIDE DEF Owner
<1>5. ASSUME NEW p \in Player
      PROVE  TaskOf(p)'
  <2>1. CASE p \in S
    <3>1. \A u \in Timer : Owner(u) = p => cast'[u] = NoCast
      BY <1>1, <1>4, <2>1
    <3> DEFINE u == EntryAfter(S)[p]
    <3>2. /\ u \in Timer /\ Owner(u) = p /\ entry'[p] = u
          /\ timer'[u] = [at |-> "asleep", epoch |-> epoch[p]]
          /\ \A v \in Timer : Owner(v) = p /\ v # u => timer'[v] = NoTimer
          /\ epoch'[p] = epoch[p] /\ p \notin present'
      BY <1>2, <2>1
    <3> HIDE DEF u
    <3> QED
      BY <3>1, <3>2, TaskBegins
  <2>2. CASE p \notin S
    <3>1. TaskOf(p)
      BY DEF TasksOK
    <3>2. \A u \in Timer : Owner(u) = p /\ u # t => cast'[u] = cast[u]
      BY <1>1, <1>4, <2>2
    <3>3. \A u \in Timer : Owner(u) = p => timer'[u] = timer[u]
      BY <1>2, <2>2
    <3>4. entry'[p] = entry[p]
      BY <1>2, <2>2
    <3> QED
      BY <1>4, <3>1, <3>2, <3>3, <3>4, TaskContinues
  <2> QED
    BY <2>1, <2>2
<1>6. TasksOK'
  BY <1>5 DEF TasksOK
<1> QED
  BY <1>1, <1>2, <1>6

\* The task t raises when some of S are marked, and ends.
LEMMA MarkingEndsTask ==
  ASSUME TypeOK, TasksOK, NEW S \in SUBSET Player, NEW t \in Timer,
         present' = present \ S, excluded' = excluded, epoch' = epoch,
         Owner(t) \notin S, timer[t] # NoTimer,
         entry' = [p \in Player |-> IF entry[p] = t THEN None ELSE EntryAfter(S)[p]],
         timer' = [u \in Timer |-> IF u = t THEN NoTimer ELSE TimerAfter(S)[u]],
         cast' = [CastsWithout(S) EXCEPT ![t] = NoCast]
  PROVE  /\ TasksOK'
         /\ entry' \in [Player -> Timer \union {None}]
         /\ timer' \in [Timer -> TimerRecord]
         /\ cast' \in [Thread -> CastRecord]
<1>1. /\ CastsWithout(S) \in [Thread -> CastRecord]
      /\ \A u \in Timer : Owner(u) \in S => CastsWithout(S)[u] = NoCast
      /\ \A u \in Timer : Owner(u) \notin S => CastsWithout(S)[u] = cast[u]
  BY Cancelling
<1>2. /\ \A p \in S : /\ EntryAfter(S)[p] \in Timer /\ Owner(EntryAfter(S)[p]) = p
                      /\ TimerAfter(S)[EntryAfter(S)[p]] = [at |-> "asleep", epoch |-> epoch[p]]
                      /\ \A u \in Timer : Owner(u) = p /\ u # EntryAfter(S)[p] =>
                           TimerAfter(S)[u] = NoTimer
      /\ \A p \in Player \ S : EntryAfter(S)[p] = entry[p]
      /\ \A u \in Timer : Owner(u) \notin S => TimerAfter(S)[u] = timer[u]
      /\ EntryAfter(S) \in [Player -> Timer \union {None}]
      /\ TimerAfter(S) \in [Timer -> TimerRecord]
  BY Restarting
<1>3. Timer \subseteq Thread /\ Owner(t) \in Player
  BY ThreadKinds DEF Thread
<1>4. cast'[t] = NoCast /\ \A u \in Timer : u # t => cast'[u] = CastsWithout(S)[u]
  BY <1>1, <1>3
<1>5. entry[Owner(t)] = t /\ \A p \in Player : p # Owner(t) => entry[p] # t
  <2>1. TaskOf(Owner(t)) /\ \A p \in Player : TaskOf(p)
    BY <1>3 DEF TasksOK
  <2>2. t # None
    BY ThreadKinds
  <2> HIDE DEF Owner
  <2> QED
    BY <2>1, <2>2 DEF TaskOf
<1> HIDE DEF Owner
<1>6. ASSUME NEW p \in Player
      PROVE  TaskOf(p)'
  <2>1. CASE p \in S
    <3>1. \A u \in Timer : Owner(u) = p => cast'[u] = NoCast /\ u # t
      BY <1>1, <1>4, <2>1
    <3>2. entry'[p] = EntryAfter(S)[p] /\ p # Owner(t)
      BY <1>5, <2>1
    <3>3. \A u \in Timer : u # t => timer'[u] = TimerAfter(S)[u]
      OBVIOUS
    <3>4. \A u \in Timer : Owner(u) = p => timer'[u] = TimerAfter(S)[u]
      BY <3>1, <3>3
    <3> DEFINE u == EntryAfter(S)[p]
    <3>5. u \in Timer /\ Owner(u) = p
      BY <1>2, <2>1
    <3>6. timer'[u] = [at |-> "asleep", epoch |-> epoch[p]]
      BY <1>2, <2>1, <3>4, <3>5
    <3>7. \A v \in Timer : Owner(v) = p /\ v # u => timer'[v] = NoTimer
      BY <1>2, <2>1, <3>4
    <3>8. entry'[p] = u /\ epoch'[p] = epoch[p] /\ p \notin present'
      BY <2>1, <3>2
    <3> HIDE DEF u
    <3> QED
      BY <3>1, <3>5, <3>6, <3>7, <3>8, TaskBegins
  <2>2. CASE p = Owner(t)
    <3>1. \A u \in Timer : Owner(u) = p /\ u # t => timer[u] = NoTimer
      <4>1. TaskOf(p)
        BY DEF TasksOK
      <4> QED
        BY <1>5, <2>2, <4>1 DEF TaskOf
    <3>2. \A u \in Timer : Owner(u) = p => timer'[u] = NoTimer
      BY <1>2, <2>2, <3>1
    <3>3. \A u \in Timer : Owner(u) = p => cast'[u] = NoCast
      BY <1>1, <1>4, <2>2, <3>1, FreeTask
    <3>4. entry'[p] = None
      BY <1>5, <2>2
    <3> QED
      BY <3>2, <3>3, <3>4, TaskEnds
  <2>3. CASE p \notin S /\ p # Owner(t)
    <3>1. TaskOf(p)
      BY DEF TasksOK
    <3>2. \A u \in Timer : Owner(u) = p => cast'[u] = cast[u]
      BY <1>1, <1>4, <2>3
    <3>3. \A u \in Timer : Owner(u) = p => timer'[u] = timer[u]
      BY <1>2, <2>3
    <3>4. entry'[p] = entry[p]
      BY <1>2, <1>5, <2>3
    <3> QED
      BY <3>1, <3>2, <3>3, <3>4, TaskContinues
  <2> QED
    BY <2>1, <2>2, <2>3
<1>7. TasksOK'
  BY <1>6 DEF TasksOK
<1> QED
  BY <1>1, <1>2, <1>3, <1>7, Records
-----------------------------------------------------------------------------
(***************************************************************************)
(* Every step keeps the invariant: broadcasts.                             *)
(***************************************************************************)

\* Every thread's broadcast but that of t stays or ends, and so does not change
\* what CastOf says of it.
LEMMA OtherCasts ==
  ASSUME CastsOK, NEW t \in Thread, CastOf(t)',
         \A u \in Thread : u # t => cast'[u] \in {cast[u], NoCast},
         \A u \in Socket : u # t => pc'[u] = pc[u]
  PROVE  CastsOK'
<1>1. \A u \in Thread : CastOf(u)'
  BY CastContinues DEF CastsOK
<1> QED
  BY <1>1 DEF CastsOK

\* The broadcast of t proceeds, as c.
LEMMA Sends ==
  ASSUME Inv, NEW t \in Thread, NEW c \in CastRecord,
         cast[t].phase \in {"send", "inform"}, c.phase = cast[t].phase,
         c.unmarked = cast[t].unmarked, c.stale \subseteq cast[t].stale \union present,
         cast' = [cast EXCEPT ![t] = c],
         UNCHANGED <<flags, pc, timers>>
  PROVE  TasksOK' /\ CastsOK' /\ cast' \in [Thread -> CastRecord]
<1>1. cast' \in [Thread -> CastRecord] /\ cast'[t] = c /\ \A u \in Thread : u # t => cast'[u] = cast[u]
  BY Types DEF Inv
<1>2. NoCast.phase = "none"
  BY Records
<1>3. CastOf(t)'
  <2>1. CastOf(t)
    BY DEF Inv, CastsOK
  <2> QED
    BY <1>1, <1>2, <2>1 DEF CastOf
<1>4. CastsOK'
  BY <1>1, <1>3, OtherCasts DEF Inv
<1> HIDE DEF Owner
<1>5. ASSUME NEW p \in Player
      PROVE  TaskOf(p)'
  <2>1. TaskOf(p)
    BY DEF Inv, TasksOK
  <2>2. ASSUME NEW u \in Timer, Owner(u) = p
        PROVE  \/ cast'[u] = cast[u]
               \/ timer[u].at = "announcing" /\ p \notin cast'[u].stale \union cast'[u].unmarked
    <3>1. CASE u = t
      <4>1. cast[u] # NoCast
        BY <1>2, <3>1
      <4>2. timer[u].at = "announcing" /\ p \notin cast[u].stale \union cast[u].unmarked
        BY <2>1, <2>2, <4>1 DEF TaskOf
      <4>3. timer[u] # NoTimer
        BY <4>2, Records
      <4>4. p \notin present
        BY <2>1, <2>2, <4>3 DEF TaskOf
      <4> QED
        BY <1>1, <3>1, <4>2, <4>4
    <3>2. CASE u # t
      <4>1. u \in Thread
        BY DEF Thread
      <4> QED
        BY <1>1, <3>2, <4>1
    <3> QED
      BY <3>1, <3>2
  <2>3. UNCHANGED <<present, excluded, epoch, timer, entry>>
    BY DEF flags, timers
  <2> QED
    BY <2>1, <2>2, <2>3, TaskContinues
<1> QED
  BY <1>1, <1>4, <1>5 DEF TasksOK

LEMMA SendBeginsKeepsInv ==
  ASSUME Inv, NEW t \in Thread, SendBegins(t)
  PROVE  Inv'
<1> DEFINE r    == cast[t]
           next == Min(Reachable(t))
           over == {p \in r.left : p < next}
           c    == [r EXCEPT !.to = next, !.via = registry[next],
                             !.left = @ \ (over \union {next}),
                             !.stale = IF r.phase = "send" THEN @ \union (over \intersect present)
                                       ELSE @]
<1>1. r \in CastRecord /\ r.left \subseteq Player /\ r.stale \subseteq Player
  BY Types DEF Inv
<1>2. next \in Player /\ registry[next] \in Socket
  <2>1. Reachable(t) \in SUBSET Player /\ Reachable(t) # {}
    BY <1>1 DEF Reachable, SendBegins
  <2>2. next \in Reachable(t)
    BY <2>1, LeastPlayer
  <2>3. registry[next] # None /\ next \in Player
    BY <2>1, <2>2 DEF Reachable
  <2> QED
    BY <2>3 DEF Inv, TypeOK
<1>3. r.phase \in {"send", "inform"} /\ cast' = [cast EXCEPT ![t] = c] /\ told' = told \union {next}
  BY DEF SendBegins, Lookup
<1>4. over \subseteq Player
  BY <1>1
<1> HIDE DEF r, next, over
<1>5. /\ c \in CastRecord /\ c.phase = r.phase /\ c.unmarked = r.unmarked
      /\ c.stale \subseteq r.stale \union present
  BY <1>1, <1>2, <1>4 DEF CastRecord
<1> HIDE DEF c
<1>6. UNCHANGED <<flags, sockets, timers, holder, queue, missed>>
  BY DEF SendBegins
<1>7. TasksOK' /\ CastsOK' /\ cast' \in [Thread -> CastRecord]
  BY <1>3, <1>5, <1>6, Sends DEF r, sockets
<1>8. TypeOK'
  BY <1>2, <1>3, <1>6, <1>7 DEF Inv, TypeOK, CastRecord, flags, sockets, timers
<1> QED
  BY <1>7, <1>8 DEF Inv

LEMMA SendEndsKeepsInv ==
  ASSUME Inv, NEW t \in Thread, NEW sent \in BOOLEAN, SendEnds(t, sent)
  PROVE  Inv'
<1> DEFINE r == cast[t]
           c == [r EXCEPT !.to = 0, !.via = None,
                          !.stale = IF ~sent /\ r.phase = "send" THEN @ \union ({r.to} \intersect present)
                                    ELSE @]
<1>1. r \in CastRecord /\ r.stale \subseteq Player /\ present \subseteq Player
  BY Types DEF Inv
<1>2. r.phase \in {"send", "inform"}
  <2>1. CastOf(t)
    BY DEF Inv, CastsOK
  <2>2. r.via # None
    BY DEF SendEnds
  <2>3. r.phase \in {"none", "send", "mark", "inform"}
    BY <1>1 DEF CastRecord
  <2> QED
    BY <2>1, <2>2, <2>3, Records DEF CastOf
<1>3. cast' = [cast EXCEPT ![t] = c]
  BY DEF SendEnds
<1> HIDE DEF r
<1>4. /\ c \in CastRecord /\ c.phase = r.phase /\ c.unmarked = r.unmarked
      /\ c.stale \subseteq r.stale \union present
  BY <1>1 DEF CastRecord
<1> HIDE DEF c
<1>5. UNCHANGED <<flags, admitted, open, pc, timers, holder, queue, missed>>
  BY DEF SendEnds
<1>6. TasksOK' /\ CastsOK' /\ cast' \in [Thread -> CastRecord]
  BY <1>2, <1>3, <1>4, <1>5, Sends DEF r
<1>7. registry' \in [Player -> Socket \union {None}] /\ told' \subseteq Player
  BY DEF SendEnds, Inv, TypeOK
<1>8. TypeOK'
  BY <1>5, <1>6, <1>7 DEF Inv, TypeOK, CastRecord, flags, timers
<1> QED
  BY <1>6, <1>8 DEF Inv

\* A task that is done.
LEMMA CastOverKeepsInv ==
  ASSUME Inv, NEW t \in Thread, CastOver(t)
  PROVE  Inv'
<1> DEFINE c == IF t \in Socket /\ pc[t] = "commanding" THEN Informing({Owner(t)}, {}) ELSE NoCast
<1>0. t \in Socket => t \notin Timer /\ Owner(t) \in Player
  BY ThreadKinds
<1>1. cast' = [cast EXCEPT ![t] = c] /\ cast[t] # NoCast
  BY Records DEF CastOver, SendsOver, Lookup
<1>2. t \in Socket => pc[t] \in {"greeting", "commanding", "acking", "farewell"}
  BY <1>1 DEF Inv, CastsOK, CastOf
<1>3. /\ c \in CastRecord
      /\ t \in Timer => c = NoCast
      /\ t \in Socket => \/ c = NoCast
                         \/ pc[t] = "commanding" /\ c.phase = "inform"
  <2>1. CASE t \in Socket /\ pc[t] = "commanding"
    <3>1. {Owner(t)} \in SUBSET Player /\ {} \in SUBSET Player
      BY <1>0, <2>1
    <3>2. c = Informing({Owner(t)}, {})
      BY <2>1
    <3> HIDE DEF c
    <3> QED
      BY <1>0, <2>1, <3>1, <3>2, Records, InformingRecord
  <2>2. CASE ~ (t \in Socket /\ pc[t] = "commanding")
    <3>1. c = NoCast
      BY <2>2
    <3> HIDE DEF c
    <3> QED
      BY <3>1, Records
  <2> QED
    BY <2>1, <2>2
<1> HIDE DEF c
<1>4. cast' \in [Thread -> CastRecord] /\ cast'[t] = c /\ \A u \in Thread : u # t => cast'[u] = cast[u]
  BY <1>1, <1>3, Types DEF Inv
<1>5. /\ pc' \in [Socket -> Place]
      /\ \A s \in Socket : s # t => pc'[s] = pc[s]
      /\ t \in Socket /\ pc[t] = "commanding" => pc'[t] = "acking"
  BY <1>2 DEF CastOver, Inv, TypeOK, Place, After
<1>6. CastsOK'
  <2>1. CASE c = NoCast
    BY <1>4, <1>5, <2>1, CastEnds, OtherCasts DEF Inv
  <2>2. CASE c # NoCast
    <3>1. t \in Socket
      BY <1>3, <2>2 DEF c
    <3>2. CastOf(t)'
      BY <1>3, <1>4, <1>5, <2>2, <3>1 DEF CastOf
    <3> QED
      BY <1>4, <1>5, <3>2, OtherCasts DEF Inv
  <2> QED
    BY <2>1, <2>2
<1>7. /\ timer' = IF t \in Timer THEN [timer EXCEPT ![t] = NoTimer] ELSE timer
      /\ entry' = IF t \in Timer /\ entry[Owner(t)] = t
                  THEN [entry EXCEPT ![Owner(t)] = None] ELSE entry
      /\ UNCHANGED <<flags, registry, admitted, open, queue, news>>
      /\ holder' = IF holder = t THEN None ELSE holder
  BY DEF CastOver
<1>8. UNCHANGED <<member, present, excluded, epoch, told, missed>>
  BY <1>7 DEF flags, news
<1>9. timer' \in [Timer -> TimerRecord] /\ entry' \in [Player -> Timer \union {None}]
  BY <1>7, Types, Records DEF Inv
<1>10. TypeOK'
  BY <1>4, <1>5, <1>7, <1>8, <1>9 DEF Inv, TypeOK, CastRecord, TimerRecord
<1> HIDE DEF Owner
<1>11. ASSUME NEW p \in Player
       PROVE  TaskOf(p)'
  <2>1. TaskOf(p) /\ Timer \subseteq Thread
    BY DEF Inv, TasksOK, Thread
  <2>2. CASE t \in Timer /\ Owner(t) = p
    <3>1. timer[t] # NoTimer
      <4>1. timer[t].at = "announcing"
        BY <1>1, <2>1, <2>2 DEF TaskOf
      <4> QED
        BY <4>1, Records
    <3>2. entry[p] = t /\ \A u \in Timer : Owner(u) = p /\ u # t => timer[u] = NoTimer
      BY <2>1, <2>2, <3>1 DEF TaskOf
    <3>3. entry'[p] = None
      BY <1>7, <2>2, <3>2, Types DEF Inv
    <3>4. \A u \in Timer : Owner(u) = p => timer'[u] = NoTimer
      BY <1>7, <2>2, <3>2, Types DEF Inv
    <3>5. \A u \in Timer : Owner(u) = p => cast'[u] = NoCast
      BY <1>3, <1>4, <2>1, <2>2, <3>2, FreeTask DEF Inv
    <3> QED
      BY <3>3, <3>4, <3>5, TaskEnds
  <2>3. CASE ~ (t \in Timer /\ Owner(t) = p)
    <3>1. entry'[p] = entry[p]
      BY <1>7, <2>3
    <3>2. \A u \in Timer : Owner(u) = p => timer'[u] = timer[u]
      BY <1>7, <2>3
    <3>3. \A u \in Timer : Owner(u) = p => cast'[u] = cast[u]
      BY <1>4, <2>1, <2>3
    <3> QED
      BY <1>8, <2>1, <3>1, <3>2, <3>3, TaskContinues
  <2> QED
    BY <2>2, <2>3
<1>12. TasksOK'
  BY <1>11 DEF TasksOK
<1> QED
  BY <1>6, <1>10, <1>12 DEF Inv
\* t is done with marking S and goes on as c: then the tasks are as they should
\* be, and so are the broadcasts when the place of t fits c.
LEMMA MarkedCasts ==
  ASSUME Inv, NEW S \in SUBSET Player, NEW t \in Thread, NEW c \in CastRecord,
         cast' = [CastsWithout(S) EXCEPT ![t] = c],
         \A s \in Socket : s # t => pc'[s] = pc[s],
         \/ c = NoCast
         \/ /\ c.phase \in {"send", "inform"}
            /\ t \in Socket => pc'[t] \in {"greeting", "commanding", "farewell"}
         \/ /\ c.phase = "mark" /\ c.unmarked # {} /\ c.via = None
            /\ t \in Socket => pc'[t] \in {"greeting", "farewell"}
  PROVE  CastsOK'
<1>1. /\ CastsWithout(S) \in [Thread -> CastRecord]
      /\ \A u \in Thread : CastsWithout(S)[u] \in {cast[u], NoCast}
  <2>1. Socket \union {Rest} \subseteq Thread \ Timer /\ \A u \in Thread : u \in Timer \/ u \in Thread \ Timer
    BY ThreadKinds
  <2> HIDE DEF Owner
  <2> QED
    BY <2>1, Cancelling DEF Inv
<1>2. cast'[t] = c /\ \A u \in Thread : u # t => cast'[u] \in {cast[u], NoCast}
  BY <1>1
<1>3. CastOf(t)'
  BY <1>2, Records DEF CastOf
<1> QED
  BY <1>2, <1>3, OtherCasts DEF Inv

\* Who of S a broadcast marks.
LEMMA MarkablePlayers ==
  ASSUME NEW S \in SUBSET Player
  PROVE  Markable(S) \in SUBSET Player /\ Markable(S) \subseteq S /\ Markable(S) \subseteq member
<1>1. Markable(S) \subseteq S
  BY DEF Markable
<1>2. ASSUME NEW p \in Markable(S)
      PROVE  p \in member
  <2>1. p \in S /\ \A q \in S : q <= p => q \in member
    BY DEF Markable
  <2>2. p \in Nat
    BY <2>1, PresenceAssumption DEF Player
  <2>3. p <= p
    BY <2>2
  <2> QED
    BY <2>1, <2>3
<1> QED
  BY <1>1, <1>2

LEMMA MarksKeepsInv ==
  ASSUME Inv, NEW t \in Thread, NEW stale \in SUBSET Player, NEW S \in SUBSET Player, S # {},
         NEW q \in Seq(Thread), Marks(t, stale, S, q),
         t \in Timer => timer[t].at = "announcing" /\ Owner(t) \notin stale \union S,
         t \in Socket => pc[t] \in {"greeting", "farewell"}
  PROVE  Inv'
<1> DEFINE first   == {Min(S)} \intersect member
           waiting == WithoutTasks(q, first)
           batch   == IF waiting = <<>> THEN Markable(S) ELSE first
           rest    == S \ batch
           raises  == rest # {} /\ (waiting = <<>> \/ batch = {})
           c       == IF raises THEN NoCast
                      ELSE IF rest = {} THEN Informing(member \ stale, stale)
                      ELSE Marking(stale, rest)
<1>1. batch \subseteq S /\ batch \subseteq member /\ member \subseteq Player
  <2>1. Min(S) \in S
    BY LeastPlayer
  <2>2. Markable(S) \subseteq S /\ Markable(S) \subseteq member
    BY MarkablePlayers
  <2>3. member \subseteq Player
    BY DEF Inv, TypeOK
  <2> QED
    BY <2>1, <2>2, <2>3
<1>2. waiting \in Seq(Thread) /\ WithoutTasks(q, batch) \in Seq(Thread)
  BY RestOfQueue DEF Kept
<1>3. /\ present' = present \ batch
      /\ told' = IF batch = {} THEN told ELSE {}
      /\ missed' = IF raises THEN Player ELSE IF rest = {} THEN stale \ batch ELSE {}
      /\ entry' = [p \in Player |-> IF raises /\ entry[p] = t THEN None ELSE EntryAfter(batch)[p]]
      /\ timer' = [u \in Timer |-> IF raises /\ u = t THEN NoTimer ELSE TimerAfter(batch)[u]]
      /\ cast' = [CastsWithout(batch) EXCEPT ![t] = c]
      /\ queue' = IF raises \/ rest = {} THEN WithoutTasks(q, batch) ELSE Append(waiting, t)
      /\ pc' = IF raises /\ t \in Socket THEN [pc EXCEPT ![t] = AfterRaise[@]] ELSE pc
      /\ UNCHANGED <<member, excluded, epoch, registry, admitted, open, holder>>
  BY DEF Marks, Marking
<1>4. raises => rest # {}
  OBVIOUS
<1>5. rest \subseteq Player /\ rest \subseteq S /\ batch \in SUBSET Player
  BY <1>1
<1> HIDE DEF first, waiting, batch, rest, raises
<1>6. /\ c \in CastRecord
      /\ raises => c = NoCast
      /\ ~raises => \/ c.phase = "inform"
                    \/ (c.phase = "mark" /\ c.unmarked # {} /\ c.via = None)
      /\ t \in Timer => Owner(t) \notin c.stale \union c.unmarked
  <2>1. CASE raises
    <3>1. c = NoCast
      BY <2>1
    <3>2. NoCast.stale = {} /\ NoCast.unmarked = {}
      BY DEF NoCast
    <3> HIDE DEF c
    <3> QED
      BY <2>1, <3>1, <3>2, Records
  <2>2. CASE ~raises /\ rest = {}
    <3>1. c = Informing(member \ stale, stale)
      BY <2>2
    <3>2. member \ stale \in SUBSET Player
      BY <1>1
    <3> DEFINE others == member \ stale
    <3> HIDE DEF c, others
    <3>3. /\ c \in CastRecord /\ c.phase = "inform" /\ c.stale = stale /\ c.unmarked = {}
      <4>1. c = Informing(others, stale) /\ others \in SUBSET Player
        BY <3>1, <3>2 DEF others
      <4> QED
        BY <4>1, InformingRecord
    <3> QED
      BY <2>2, <3>3
  <2>3. CASE ~raises /\ rest # {}
    <3>1. c = Marking(stale, rest)
      BY <2>3
    <3> HIDE DEF c
    <3> QED
      BY <1>5, <2>3, <3>1, MarkingRecord
  <2> QED
    BY <2>1, <2>2, <2>3
<1> HIDE DEF c
<1>7. /\ TasksOK'
      /\ entry' \in [Player -> Timer \union {None}]
      /\ timer' \in [Timer -> TimerRecord]
      /\ cast' \in [Thread -> CastRecord]
  <2>1. TypeOK /\ TasksOK
    BY DEF Inv
  <2>2. CASE raises /\ t \in Timer
    <3>1. timer[t] # NoTimer
      BY <2>2, Records
    <3>2. entry' = [p \in Player |-> IF entry[p] = t THEN None ELSE EntryAfter(batch)[p]]
      BY <1>3, <2>2, Zenon
    <3>3. timer' = [u \in Timer |-> IF u = t THEN NoTimer ELSE TimerAfter(batch)[u]]
      BY <1>3, <2>2, Zenon
    <3>4. Owner(t) \notin batch /\ cast' = [CastsWithout(batch) EXCEPT ![t] = NoCast]
      BY <1>1, <1>3, <1>6, <2>2
    <3>5. present' = present \ batch /\ excluded' = excluded /\ epoch' = epoch
      BY <1>3
    <3> QED
      BY <1>5, <2>1, <2>2, <3>1, <3>2, <3>3, <3>4, <3>5, MarkingEndsTask
  <2>3. CASE ~ (raises /\ t \in Timer)
    <3>1. EntryAfter(batch) = [p \in Player |-> EntryAfter(batch)[p]]
      BY DEF EntryAfter
    <3>2. TimerAfter(batch) = [u \in Timer |-> TimerAfter(batch)[u]]
      BY DEF TimerAfter
    <3>3. \A p \in Player : ~ (raises /\ entry[p] = t)
      <4>1. t # None
        BY ThreadKinds
      <4> QED
        BY <2>1, <2>3, <4>1, Types
    <3>4. entry' = EntryAfter(batch)
      BY <1>3, <3>1, <3>3
    <3>5. timer' = TimerAfter(batch)
      BY <1>3, <3>2, <2>3
    <3>6. t \in Timer => Owner(t) \notin batch
      BY <1>1
    <3>7. present' = present \ batch /\ excluded' = excluded /\ epoch' = epoch
          /\ cast' = [CastsWithout(batch) EXCEPT ![t] = c]
      BY <1>3
    <3> QED
      BY <1>5, <1>6, <2>1, <3>4, <3>5, <3>6, <3>7, MarkingTasks
  <2> QED
    BY <2>2, <2>3
<1>8. pc' \in [Socket -> Place] /\ \A s \in Socket : s # t => pc'[s] = pc[s]
  BY <1>3 DEF Inv, TypeOK, Place, AfterRaise
<1>9. CastsOK'
  <2>1. ~raises /\ t \in Socket => pc'[t] \in {"greeting", "farewell"}
    BY <1>3
  <2> QED
    BY <1>3, <1>5, <1>6, <1>8, <2>1, MarkedCasts
<1>10. queue' \in Seq(Thread)
  BY <1>2, <1>3, AppendProperties
<1>11. /\ present' \subseteq Player /\ told' \subseteq Player /\ missed' \subseteq Player
       /\ member' = member /\ excluded' = excluded /\ epoch' = epoch /\ registry' = registry
       /\ admitted' = admitted /\ open' = open /\ holder' = holder
  BY <1>3 DEF Inv, TypeOK
<1>12. TypeOK'
  BY <1>7, <1>8, <1>10, <1>11 DEF Inv, TypeOK, CastRecord, TimerRecord
<1> QED
  BY <1>7, <1>9, <1>12 DEF Inv

\* Who a broadcast has found lost.
LEMMA LostPlayers ==
  ASSUME Inv, NEW t \in Thread, SendsOver(t)
  PROVE  /\ Lost(t) \in SUBSET Player
         /\ cast[t] # NoCast
         /\ t \in Timer => timer[t].at = "announcing" /\ Owner(t) \notin Lost(t)
<1>1. cast[t].phase # "none" /\ cast[t] # NoCast
  BY Records DEF SendsOver, Lookup
<1>2. Lost(t) \in SUBSET Player
  BY Types DEF Lost, Inv
<1>3. ASSUME t \in Timer
      PROVE  timer[t].at = "announcing" /\ Owner(t) \notin Lost(t)
  <2>1. TaskOf(Owner(t))
    BY <1>3, ThreadKinds DEF Inv, TasksOK
  <2>2. timer[t].at = "announcing" /\ Owner(t) \notin cast[t].stale
    BY <1>1, <1>3, <2>1 DEF TaskOf
  <2>3. timer[t] # NoTimer
    BY <2>2, Records
  <2>4. Owner(t) \notin present
    BY <1>3, <2>1, <2>3 DEF TaskOf
  <2> QED
    BY <2>2, <2>4 DEF Lost
<1> QED
  BY <1>1, <1>2, <1>3

\* A thread that only enters the queue, or the next place, keeps the tasks.
LEMMA SameTasks ==
  ASSUME Inv, UNCHANGED <<present, excluded, epoch, timer, entry, cast>>
  PROVE  TasksOK'
BY DEF Inv, TasksOK, TaskOf

LEMMA GoMarkKeepsInv ==
  ASSUME Inv, NEW t \in Thread, GoMark(t)
  PROVE  Inv'
<1>1. /\ SendsOver(t) /\ Lost(t) # {}
      /\ t \in Timer \/ (t \in Socket /\ pc[t] \in {"greeting", "farewell"})
  BY DEF GoMark
<1>2. /\ Lost(t) \in SUBSET Player /\ cast[t] # NoCast
      /\ t \in Timer => timer[t].at = "announcing" /\ Owner(t) \notin Lost(t)
  BY <1>1, LostPlayers
<1>3. t \in Socket => pc[t] \in {"greeting", "farewell"}
  BY <1>1, ThreadKinds
<1>4. CASE LockIdle
  <2>1. Marks(t, Lost(t), Lost(t), <<>>)
    BY <1>4 DEF GoMark
  <2>2. <<>> \in Seq(Thread)
    BY EmptySeq
  <2> QED
    BY <1>1, <1>2, <1>3, <2>1, <2>2, MarksKeepsInv
<1>5. CASE ~LockIdle
  <2> DEFINE c == Marking(Lost(t), Lost(t))
  <2>1. /\ queue' = Append(queue, t)
        /\ cast' = [cast EXCEPT ![t] = c]
        /\ UNCHANGED <<flags, sockets, timers, holder, news>>
    BY <1>5 DEF GoMark, Enqueue, Marking
  <2>2. /\ c \in CastRecord /\ c.phase = "mark" /\ c.unmarked = Lost(t) /\ c.stale = Lost(t)
        /\ c.via = None
    BY <1>2, MarkingRecord
  <2> HIDE DEF c
  <2>3. cast' \in [Thread -> CastRecord] /\ cast'[t] = c /\ \A u \in Thread : u # t => cast'[u] = cast[u]
    BY <2>1, <2>2, Types DEF Inv
  <2>4. queue' \in Seq(Thread)
    BY <2>1, AppendProperties DEF Inv, TypeOK
  <2>5. TypeOK'
    BY <2>1, <2>3, <2>4 DEF Inv, TypeOK, CastRecord, flags, sockets, timers, news
  <2>6. CastsOK'
    <3>1. CastOf(t)'
      BY <1>1, <1>3, <2>1, <2>2, <2>3 DEF CastOf, sockets
    <3> QED
      BY <2>1, <2>3, <3>1, OtherCasts DEF Inv, sockets
  <2> HIDE DEF Owner
  <2>7. ASSUME NEW p \in Player
        PROVE  TaskOf(p)'
    <3>1. TaskOf(p) /\ Timer \subseteq Thread
      BY DEF Inv, TasksOK, Thread
    <3>2. UNCHANGED <<entry, epoch, present, excluded, timer>>
      BY <2>1 DEF flags, timers
    <3>3. \A u \in Timer : Owner(u) = p =>
            \/ cast'[u] = cast[u]
            \/ timer[u].at = "announcing" /\ p \notin cast'[u].stale \union cast'[u].unmarked
      BY <1>2, <2>2, <2>3, <3>1
    <3> QED
      BY <3>1, <3>2, <3>3, TaskContinues
  <2> QED
    BY <2>5, <2>6, <2>7 DEF Inv, TasksOK
<1> QED
  BY <1>4, <1>5

LEMMA MarkLostKeepsInv ==
  ASSUME Inv, NEW t \in Thread, MarkLost(t)
  PROVE  Inv'
<1>1. /\ Granted(t) /\ cast[t].phase = "mark"
      /\ Marks(t, cast[t].stale, cast[t].unmarked, Tail(queue))
  BY DEF MarkLost
<1>2. Tail(queue) \in Seq(Thread)
  BY <1>1, HeadTailProperties DEF Granted, Inv, TypeOK
<1>3. CastOf(t) /\ cast[t] # NoCast
  BY <1>1, Records DEF Inv, CastsOK
<1>4. cast[t].stale \in SUBSET Player /\ cast[t].unmarked \in SUBSET Player
  BY Types DEF Inv
<1>5. t \in Timer => timer[t].at = "announcing" /\ Owner(t) \notin cast[t].stale \union cast[t].unmarked
  BY <1>3, ThreadKinds DEF Inv, TasksOK, TaskOf
<1>6. cast[t].unmarked # {} /\ (t \in Socket => pc[t] \in {"greeting", "farewell"})
  BY <1>1, <1>3 DEF CastOf
<1> QED
  BY <1>1, <1>2, <1>4, <1>5, <1>6, MarksKeepsInv

LEMMA CommandMarksKeepsInv ==
  ASSUME Inv, NEW s \in Socket, CommandMarks(s)
  PROVE  Inv'
<1> DEFINE batch == Markable(Lost(s))
           c     == IF batch = Lost(s) THEN Informing(member \ batch, batch) ELSE NoCast
<1>1. s \in Thread /\ s \notin Timer /\ pc[s] = "commanding" /\ SendsOver(s)
  BY ThreadKinds DEF CommandMarks
<1>2. Lost(s) \in SUBSET Player
  BY <1>1, LostPlayers
<1>3. batch \in SUBSET Player
  BY <1>2, MarkablePlayers
<1>4. /\ present' = present \ batch
      /\ told' \in {told, {}} /\ missed' \in {Player, {}}
      /\ entry' = EntryAfter(batch) /\ timer' = TimerAfter(batch)
      /\ queue' = WithoutTasks(queue, batch)
      /\ cast' = [CastsWithout(batch) EXCEPT ![s] = c]
      /\ \/ pc' = pc
         \/ c = NoCast /\ pc' = [pc EXCEPT ![s] = AfterRaise[@]]
      /\ holder' \in {holder, None}
      /\ UNCHANGED <<member, excluded, epoch, registry, admitted, open>>
  BY DEF CommandMarks
<1> HIDE DEF batch
<1>5. c \in CastRecord /\ (c = NoCast \/ c.phase = "inform")
  <2> DEFINE others == member \ batch
  <2>1. others \in SUBSET Player
    BY DEF Inv, TypeOK
  <2>2. c = Informing(others, batch) \/ c = NoCast
    OBVIOUS
  <2> HIDE DEF c, others
  <2>3. Informing(others, batch) \in CastRecord /\ Informing(others, batch).phase = "inform"
    BY <1>3, <2>1, InformingRecord
  <2> QED
    BY <2>2, <2>3, Records
<1> HIDE DEF c
<1>6. /\ TasksOK'
      /\ entry' \in [Player -> Timer \union {None}]
      /\ timer' \in [Timer -> TimerRecord]
      /\ cast' \in [Thread -> CastRecord]
  BY <1>1, <1>3, <1>4, <1>5, MarkingTasks DEF Inv
<1>7. pc' \in [Socket -> Place] /\ \A r \in Socket : r # s => pc'[r] = pc[r]
  <2>1. AfterRaise[pc[s]] = "serving"
    BY <1>1 DEF AfterRaise
  <2>2. pc \in [Socket -> Place] /\ "serving" \in Place
    BY DEF Inv, TypeOK, Place
  <2>3. pc' = pc \/ pc' = [pc EXCEPT ![s] = "serving"]
    BY <1>4, <2>1
  <2> QED
    BY <2>2, <2>3
<1>8. CastsOK'
  <2>1. c # NoCast => pc'[s] = "commanding" /\ c.phase = "inform"
    BY <1>1, <1>4, <1>5
  <2> QED
    BY <1>1, <1>3, <1>4, <1>5, <1>7, <2>1, MarkedCasts
<1>9. queue' \in Seq(Thread)
  BY <1>4, RestOfQueue DEF Inv, TypeOK, Kept
<1>10. TypeOK'
  BY <1>4, <1>6, <1>7, <1>9 DEF Inv, TypeOK, CastRecord, TimerRecord
<1> QED
  BY <1>6, <1>8, <1>10 DEF Inv

LEMMA RestMarksKeepsInv ==
  ASSUME Inv, RestMarks
  PROVE  Inv'
<1> DEFINE batch == Markable(Lost(Rest))
           c     == IF batch = Lost(Rest) THEN Informing(member \ batch, batch) ELSE NoCast
<1>1. Rest \in Thread /\ Rest \notin Timer /\ Rest \notin Socket
  BY ThreadKinds
<1>2. Lost(Rest) \in SUBSET Player
  BY <1>1, LostPlayers DEF RestMarks
<1>3. batch \in SUBSET Player
  BY <1>2, MarkablePlayers
<1>4. /\ present' = present \ batch
      /\ told' \in {told, {}} /\ missed' \in {Player, {}}
      /\ cast' = [cast EXCEPT ![Rest] = c]
      /\ UNCHANGED <<member, excluded, epoch, registry, admitted, open, pc, timer, entry, holder, queue>>
  BY DEF RestMarks, sockets, timers
<1> HIDE DEF batch
<1>5. c \in CastRecord /\ (c = NoCast \/ c.phase = "inform")
  <2> DEFINE others == member \ batch
  <2>1. others \in SUBSET Player
    BY DEF Inv, TypeOK
  <2>2. c = Informing(others, batch) \/ c = NoCast
    OBVIOUS
  <2> HIDE DEF c, others
  <2>3. Informing(others, batch) \in CastRecord /\ Informing(others, batch).phase = "inform"
    BY <1>3, <2>1, InformingRecord
  <2> QED
    BY <2>2, <2>3, Records
<1> HIDE DEF c
<1>6. cast' \in [Thread -> CastRecord] /\ cast'[Rest] = c /\ \A u \in Thread : u # Rest => cast'[u] = cast[u]
  BY <1>1, <1>4, <1>5, Types DEF Inv
<1>7. CastsOK'
  <2>1. CastOf(Rest)'
    BY <1>1, <1>5, <1>6, Records DEF CastOf
  <2> QED
    BY <1>1, <1>4, <1>6, <2>1, OtherCasts DEF Inv
<1> HIDE DEF Owner
<1>8. ASSUME NEW p \in Player
      PROVE  TaskOf(p)'
  <2>1. TaskOf(p) /\ Timer \subseteq Thread
    BY DEF Inv, TasksOK, Thread
  <2>2. \A u \in Timer : cast'[u] = cast[u]
    BY <1>1, <1>6, <2>1
  <2> QED
    BY <1>4, <2>1, <2>2, TaskContinues
<1>9. TypeOK'
  BY <1>4, <1>6 DEF Inv, TypeOK, CastRecord
<1> QED
  BY <1>7, <1>8, <1>9 DEF Inv, TasksOK
-----------------------------------------------------------------------------
(***************************************************************************)
(* Every step keeps the invariant: endpoints.                              *)
(***************************************************************************)

Broadcasting == {"greeting", "commanding", "acking", "farewell"}

LEMMA NoCastThere ==
  ASSUME Inv, NEW s \in Socket, pc[s] \notin Broadcasting
  PROVE  cast[s] = NoCast
<1>1. CastOf(s)
  BY ThreadKinds DEF Inv, CastsOK
<1> QED
  BY <1>1 DEF CastOf, Broadcasting

\* An endpoint goes on to a place where it does not broadcast.
LEMMA PlaceKeepsInv ==
  ASSUME Inv, NEW s \in Socket, pc[s] \notin Broadcasting,
         NEW x \in Place, pc' = [pc EXCEPT ![s] = x],
         UNCHANGED <<flags, timers, cast, news>>,
         queue' \in Seq(Thread), holder' \in Socket \union {None}, open' \subseteq Socket,
         registry' \in [Player -> Socket \union {None}],
         admitted' \in [Player -> Socket \union {None}]
  PROVE  Inv'
<1>1. pc' \in [Socket -> Place] /\ \A r \in Socket : r # s => pc'[r] = pc[r]
  BY DEF Inv, TypeOK
<1>2. TypeOK'
  BY <1>1 DEF Inv, TypeOK, flags, timers, news
<1>3. cast'[s] = NoCast /\ s \in Thread
  BY NoCastThere, ThreadKinds
<1>4. CastsOK'
  BY <1>1, <1>3, CastEnds, OtherCasts DEF Inv
<1>5. TasksOK'
  BY SameTasks DEF flags, timers
<1> QED
  BY <1>2, <1>4, <1>5 DEF Inv

LEMMA JoinsKeepsInv ==
  ASSUME Inv, NEW s \in Socket, NEW q \in Seq(Thread), Joins(s, q),
         pc[s] \notin Broadcasting, open' \subseteq Socket,
         registry' \in [Player -> Socket \union {None}],
         admitted' \in [Player -> Socket \union {None}]
  PROVE  Inv'
<1> DEFINE p == Owner(s)
<1>1. p \in Player /\ s \in Thread /\ s \notin Timer
  BY ThreadKinds
<1>2. /\ queue' = WithoutTasks(q, {p}) /\ timer' = TimersWithout({p})
      /\ entry' = [entry EXCEPT ![p] = None]
      /\ UNCHANGED <<member, holder>>
  BY DEF Joins
<1>3. {p} \in SUBSET Player
  BY <1>1
<1>4. /\ \A t \in Timer : Owner(t) = p =>
           TimersWithout({p})[t] = NoTimer /\ CastsWithout({p})[t] = NoCast
      /\ \A t \in Timer : Owner(t) # p =>
           TimersWithout({p})[t] = timer[t] /\ CastsWithout({p})[t] = cast[t]
      /\ \A t \in Thread \ Timer : CastsWithout({p})[t] = cast[t]
      /\ TimersWithout({p}) \in [Timer -> TimerRecord]
      /\ CastsWithout({p}) \in [Thread -> CastRecord]
  BY <1>3, Cancelling DEF Inv
<1>5. entry' \in [Player -> Timer \union {None}] /\ entry'[p] = None
      /\ \A r \in Player : r # p => entry'[r] = entry[r]
  BY <1>1, <1>2, Types DEF Inv
<1>6. queue' \in Seq(Thread)
  BY <1>2, RestOfQueue DEF Kept
<1>7. cast[s] = NoCast
  BY NoCastThere
<1>8. Timer \subseteq Thread
  BY DEF Thread
<1> HIDE DEF p
\* the tasks, when the other players' flags stay
<1>9. ASSUME \A t \in Timer : cast'[t] = CastsWithout({p})[t],
             \A r \in Player : r # p => /\ epoch'[r] = epoch[r] /\ (r \in present' => r \in present)
                                        /\ (r \in excluded => r \in excluded')
      PROVE  TasksOK'
  <2> HIDE DEF Owner
  <2>1. ASSUME NEW r \in Player
        PROVE  TaskOf(r)'
    <3>1. CASE r = p
      BY <1>2, <1>4, <1>5, <1>9, <3>1, TaskEnds
    <3>2. CASE r # p
      <4>1. TaskOf(r)
        BY DEF Inv, TasksOK
      <4>2. \A t \in Timer : Owner(t) = r => timer'[t] = timer[t] /\ cast'[t] = cast[t]
        BY <1>2, <1>4, <1>9, <3>2
      <4> QED
        BY <1>5, <1>9, <3>2, <4>1, <4>2, TaskContinues
    <3> QED
      BY <3>1, <3>2
  <2> QED
    BY <2>1 DEF TasksOK
<1>10. CASE p \in member
  <2>1. /\ present' = present \union {p} /\ excluded' = excluded \ {p}
        /\ epoch' = [epoch EXCEPT ![p] = @ + 1]
        /\ pc' = [pc EXCEPT ![s] = "greeting"]
        /\ cast' = [CastsWithout({p}) EXCEPT ![s] = Sending(member)]
        /\ told' = {} /\ missed' = {}
    BY <1>10 DEF Joins, News, p
  <2>2. member \in SUBSET Player
    BY DEF Inv, TypeOK
  <2>3. Sending(member) \in CastRecord /\ Sending(member).phase = "send"
    BY <2>2, Records
  <2>4. cast' \in [Thread -> CastRecord] /\ \A t \in Timer : cast'[t] = CastsWithout({p})[t]
    BY <1>1, <1>4, <1>8, <2>1, <2>3
  <2>5. /\ pc' \in [Socket -> Place] /\ pc'[s] = "greeting"
        /\ \A r \in Socket : r # s => pc'[r] = pc[r]
    BY <2>1 DEF Inv, TypeOK, Place
  <2>6. /\ epoch' \in [Player -> Nat] /\ \A r \in Player : r # p => epoch'[r] = epoch[r]
    BY <1>1, <2>1 DEF Inv, TypeOK
  <2>7. TypeOK'
    BY <1>1, <1>2, <1>4, <1>5, <1>6, <2>1, <2>4, <2>5, <2>6 DEF Inv, TypeOK, CastRecord, TimerRecord
  <2>8. CastsOK'
    BY <1>1, <1>3, <2>1, <2>3, <2>5, MarkedCasts
  <2>9. TasksOK'
    BY <1>9, <2>1, <2>4, <2>6
  <2> QED
    BY <2>7, <2>8, <2>9 DEF Inv
<1>11. CASE p \notin member
  <2>1. /\ pc' = [pc EXCEPT ![s] = "closing"]
        /\ cast' = CastsWithout({p})
        /\ UNCHANGED <<present, excluded, epoch, told>> /\ missed' \in {missed, Player}
    BY <1>11 DEF Joins, p
  <2>2. /\ pc' \in [Socket -> Place]
        /\ \A r \in Socket : r # s => pc'[r] = pc[r]
    BY <2>1 DEF Inv, TypeOK, Place
  <2>3. TypeOK'
    BY <1>2, <1>4, <1>5, <1>6, <2>1, <2>2 DEF Inv, TypeOK, CastRecord, TimerRecord
  <2>4. cast'[s] = NoCast /\ \A t \in Thread : cast'[t] \in {cast[t], NoCast}
    <3> HIDE DEF Owner
    <3> QED
      BY <1>1, <1>4, <1>7, <2>1
  <2>5. CastsOK'
    BY <1>1, <2>2, <2>4, CastEnds, OtherCasts DEF Inv
  <2>6. TasksOK'
    BY <1>9, <2>1
  <2> QED
    BY <2>3, <2>5, <2>6 DEF Inv
<1> QED
  BY <1>10, <1>11

LEMMA GoJoinKeepsInv ==
  ASSUME Inv, NEW s \in Socket, GoJoin(s),
         pc[s] \notin Broadcasting, open' \subseteq Socket,
         registry' \in [Player -> Socket \union {None}],
         admitted' \in [Player -> Socket \union {None}]
  PROVE  Inv'
<1>1. CASE LockIdle
  BY <1>1, EmptySeq, JoinsKeepsInv DEF GoJoin
<1>2. CASE ~LockIdle
  <2>1. /\ queue' = Append(queue, s) /\ pc' = [pc EXCEPT ![s] = "joining"]
        /\ UNCHANGED <<flags, timers, holder, cast, news>>
    BY <1>2 DEF GoJoin, Enqueue
  <2>2. queue' \in Seq(Thread) /\ holder' \in Socket \union {None} /\ "joining" \in Place
    BY <2>1, AppendProperties, ThreadKinds DEF Inv, TypeOK, Place
  <2> QED
    BY <2>1, <2>2, PlaceKeepsInv
<1> QED
  BY <1>1, <1>2

LEMMA OpenKeepsInv ==
  ASSUME Inv, NEW s \in Socket, Open(s)
  PROVE  Inv'
<1>1. Owner(s) \in Player /\ pc[s] \notin Broadcasting
  BY ThreadKinds DEF Open, Broadcasting
<1>2. /\ registry' \in [Player -> Socket \union {None}]
      /\ admitted' \in [Player -> Socket \union {None}]
      /\ open' \subseteq Socket
  BY <1>1 DEF Open, OpenAfter, Inv, TypeOK
<1>3. CASE registry[Owner(s)] = None
  BY <1>1, <1>2, <1>3, GoJoinKeepsInv DEF Open
<1>4. CASE registry[Owner(s)] # None
  <2>1. pc' = [pc EXCEPT ![s] = "registered"] /\ UNCHANGED <<flags, timers, holder, queue, cast, news>>
    BY <1>4 DEF Open
  <2>2. queue' \in Seq(Thread) /\ holder' \in Socket \union {None} /\ "registered" \in Place
    BY <2>1 DEF Inv, TypeOK, Place
  <2> QED
    BY <1>1, <1>2, <2>1, <2>2, PlaceKeepsInv
<1> QED
  BY <1>3, <1>4

LEMMA JoinKeepsInv ==
  ASSUME Inv, NEW s \in Socket, PreviousClosed(s) \/ Join(s)
  PROVE  Inv'
<1>1. /\ open' \subseteq Socket
      /\ registry' \in [Player -> Socket \union {None}]
      /\ admitted' \in [Player -> Socket \union {None}]
  BY DEF PreviousClosed, Join, Inv, TypeOK
<1>2. pc[s] \notin Broadcasting
  BY DEF PreviousClosed, Join, Broadcasting
<1>3. CASE PreviousClosed(s)
  BY <1>1, <1>2, <1>3, GoJoinKeepsInv DEF PreviousClosed
<1>4. CASE Join(s)
  <2>1. Tail(queue) \in Seq(Thread)
    BY <1>4, HeadTailProperties DEF Join, Granted, Inv, TypeOK
  <2> QED
    BY <1>1, <1>2, <1>4, <2>1, JoinsKeepsInv DEF Join
<1> QED
  BY <1>3, <1>4

LEMMA CommandsKeepsInv ==
  ASSUME Inv, NEW s \in Socket, NEW q \in Seq(Thread), Commands(s, q), pc[s] \notin Broadcasting
  PROVE  Inv'
<1>1. queue' = q /\ UNCHANGED <<flags, registry, admitted, open, timers>> /\ s \in Thread /\ s \notin Timer
  BY ThreadKinds DEF Commands
<1>2. CASE Owner(s) \in member
  <2>1. /\ pc' = [pc EXCEPT ![s] = "commanding"] /\ holder' = s
        /\ cast' = [cast EXCEPT ![s] = Sending(member)]
        /\ told' = {} /\ missed' = {}
    BY <1>2 DEF Commands, News
  <2>2. member \in SUBSET Player
    BY DEF Inv, TypeOK
  <2>3. Sending(member) \in CastRecord /\ Sending(member).phase = "send"
    BY <2>2, Records
  <2>4. /\ cast' \in [Thread -> CastRecord] /\ cast'[s] = Sending(member)
        /\ \A t \in Thread : t # s => cast'[t] = cast[t]
    BY <1>1, <2>1, <2>3, Types DEF Inv
  <2>5. /\ pc' \in [Socket -> Place] /\ pc'[s] = "commanding"
        /\ \A r \in Socket : r # s => pc'[r] = pc[r]
    BY <2>1 DEF Inv, TypeOK, Place
  <2>6. TypeOK'
    BY <1>1, <2>1, <2>4, <2>5 DEF Inv, TypeOK, CastRecord, flags, timers
  <2>7. CastsOK'
    <3>1. CastOf(s)'
      BY <2>3, <2>4, <2>5 DEF CastOf
    <3> QED
      BY <1>1, <2>4, <2>5, <3>1, OtherCasts DEF Inv
  <2> HIDE DEF Owner
  <2>8. ASSUME NEW p \in Player
        PROVE  TaskOf(p)'
    <3>1. TaskOf(p) /\ Timer \subseteq Thread
      BY DEF Inv, TasksOK, Thread
    <3>2. \A u \in Timer : cast'[u] = cast[u]
      BY <1>1, <2>4, <3>1
    <3>3. UNCHANGED <<entry, epoch, present, excluded, timer>>
      BY <1>1 DEF flags, timers
    <3> QED
      BY <3>1, <3>2, <3>3, TaskContinues
  <2> QED
    BY <2>6, <2>7, <2>8 DEF Inv, TasksOK
<1>3. CASE Owner(s) \notin member
  <2>1. pc' = [pc EXCEPT ![s] = "serving"] /\ UNCHANGED <<holder, cast, news>>
    BY <1>3 DEF Commands
  <2>2. /\ queue' \in Seq(Thread) /\ holder' \in Socket \union {None} /\ "serving" \in Place
        /\ open' \subseteq Socket
        /\ registry' \in [Player -> Socket \union {None}]
        /\ admitted' \in [Player -> Socket \union {None}]
    BY <1>1, <2>1 DEF Inv, TypeOK, Place
  <2> QED
    BY <1>1, <2>1, <2>2, PlaceKeepsInv
<1> QED
  BY <1>2, <1>3

LEMMA CommandKeepsInv ==
  ASSUME Inv, NEW s \in Socket, Receive(s) \/ Command(s)
  PROVE  Inv'
<1>1. pc[s] \notin Broadcasting
  BY DEF Receive, Command, Broadcasting
<1>2. CASE Receive(s) /\ LockIdle
  BY <1>1, <1>2, EmptySeq, CommandsKeepsInv DEF Receive
<1>3. CASE Receive(s) /\ ~LockIdle
  <2>1. /\ queue' = Append(queue, s) /\ pc' = [pc EXCEPT ![s] = "queued"]
        /\ UNCHANGED <<flags, registry, admitted, open, timers, holder, cast, news>>
    BY <1>3 DEF Receive, Enqueue
  <2>2. /\ queue' \in Seq(Thread) /\ holder' \in Socket \union {None} /\ "queued" \in Place
        /\ open' \subseteq Socket
        /\ registry' \in [Player -> Socket \union {None}]
        /\ admitted' \in [Player -> Socket \union {None}]
    BY <2>1, AppendProperties, ThreadKinds DEF Inv, TypeOK, Place
  <2> QED
    BY <1>1, <2>1, <2>2, PlaceKeepsInv
<1>4. CASE Command(s)
  <2>1. Tail(queue) \in Seq(Thread)
    BY <1>4, HeadTailProperties DEF Command, Granted, Inv, TypeOK
  <2> QED
    BY <1>1, <1>4, <2>1, CommandsKeepsInv DEF Command
<1> QED
  BY <1>2, <1>3, <1>4

LEMMA LoseKeepsInv ==
  ASSUME Inv, NEW s \in Socket, Lose(s) \/ Notice(s)
  PROVE  Inv'
<1>1. CASE Lose(s)
  <2>1. open' = open \ {s} /\ UNCHANGED <<flags, registry, admitted, pc, timers, holder, queue, cast, news>>
    BY <1>1 DEF Lose
  <2>2. TypeOK'
    BY <2>1 DEF Inv, TypeOK, flags, timers, news
  <2>3. TasksOK' /\ CastsOK'
    BY <2>1, SameTasks DEF Inv, CastsOK, CastOf, flags, timers
  <2> QED
    BY <2>2, <2>3 DEF Inv
<1>2. CASE Notice(s)
  <2>1. /\ pc' = [pc EXCEPT ![s] = "closing"] /\ pc[s] \notin Broadcasting
        /\ UNCHANGED <<flags, registry, admitted, open, timers, holder, queue, cast, news>>
    BY <1>2 DEF Notice, Broadcasting
  <2>2. /\ queue' \in Seq(Thread) /\ holder' \in Socket \union {None} /\ "closing" \in Place
        /\ open' \subseteq Socket
        /\ registry' \in [Player -> Socket \union {None}]
        /\ admitted' \in [Player -> Socket \union {None}]
    BY <2>1 DEF Inv, TypeOK, Place
  <2> QED
    BY <2>1, <2>2, PlaceKeepsInv
<1> QED
  BY <1>1, <1>2
LEMMA MarksSelfKeepsInv ==
  ASSUME Inv, NEW s \in Socket, NEW q \in Seq(Thread), MarksSelf(s, q),
         pc[s] \notin Broadcasting, open' \subseteq Socket,
         registry' \in [Player -> Socket \union {None}],
         admitted' \in [Player -> Socket \union {None}]
  PROVE  Inv'
<1> DEFINE gone == {Owner(s)} \intersect member
           c    == IF gone = {} THEN NoCast ELSE Sending(member)
<1>1. Owner(s) \in Player /\ s \in Thread /\ s \notin Timer /\ member \in SUBSET Player /\ cast[s] = NoCast
  BY ThreadKinds, NoCastThere DEF Inv, TypeOK
<1>2. gone \in SUBSET Player
  BY <1>1
<1>3. /\ present' = present \ gone
      /\ entry' = EntryAfter(gone) /\ timer' = TimerAfter(gone)
      /\ queue' = WithoutTasks(q, gone)
      /\ pc' = [pc EXCEPT ![s] = IF gone = {} THEN "ended" ELSE "farewell"]
      /\ IF gone = {} THEN UNCHANGED news ELSE News
      /\ UNCHANGED <<member, excluded, epoch, holder>>
      /\ cast' = IF gone = {} THEN cast ELSE [CastsWithout(gone) EXCEPT ![s] = Sending(member)]
  BY DEF MarksSelf
<1> HIDE DEF gone
<1>4. c \in CastRecord /\ (c = NoCast \/ (c.phase = "send" /\ pc'[s] = "farewell"))
  <2>1. pc'[s] = IF gone = {} THEN "ended" ELSE "farewell"
    BY <1>3 DEF Inv, TypeOK
  <2> QED
    BY <1>1, <2>1, Records
<1>5. cast' = [CastsWithout(gone) EXCEPT ![s] = c]
  <2>1. CASE gone = {}
    <3>1. \A t \in Thread : CastsWithout(gone)[t] = cast[t]
      <4>1. Tasks(gone) = {}
        BY <2>1 DEF Tasks
      <4> QED
        BY <4>1 DEF CastsWithout
    <3>2. CastsWithout(gone) = [t \in Thread |-> CastsWithout(gone)[t]]
      BY DEF CastsWithout
    <3>3. cast = [t \in Thread |-> cast[t]]
      BY Types DEF Inv
    <3>4. cast = CastsWithout(gone)
      BY <3>1, <3>2, <3>3
    <3>5. c = cast[s]
      BY <1>1, <2>1
    <3> HIDE DEF c
    <3>6. cast' = cast
      BY <1>3, <2>1
    <3> QED
      BY <3>3, <3>4, <3>5, <3>6
  <2>2. CASE gone # {}
    BY <1>3, <2>2
  <2> QED
    BY <2>1, <2>2
<1> HIDE DEF c
<1>6. /\ TasksOK'
      /\ entry' \in [Player -> Timer \union {None}]
      /\ timer' \in [Timer -> TimerRecord]
      /\ cast' \in [Thread -> CastRecord]
  BY <1>1, <1>2, <1>3, <1>4, <1>5, MarkingTasks DEF Inv
<1>7. pc' \in [Socket -> Place] /\ \A r \in Socket : r # s => pc'[r] = pc[r]
  BY <1>3 DEF Inv, TypeOK, Place
<1>8. CastsOK'
  BY <1>1, <1>2, <1>4, <1>5, <1>7, MarkedCasts
<1>9. queue' \in Seq(Thread)
  BY <1>3, RestOfQueue DEF Kept
<1>10. told' \subseteq Player /\ missed' \subseteq Player
  BY <1>3 DEF Inv, TypeOK, News, news
<1>11. TypeOK'
  BY <1>3, <1>6, <1>7, <1>9, <1>10 DEF Inv, TypeOK, CastRecord, TimerRecord
<1> QED
  BY <1>6, <1>8, <1>11 DEF Inv

LEMMA EndKeepsInv ==
  ASSUME Inv, NEW s \in Socket, End(s) \/ MarkEnded(s)
  PROVE  Inv'
<1>1. pc[s] \notin Broadcasting
  BY DEF End, MarkEnded, Broadcasting
<1>2. CASE End(s)
  <2> DEFINE marks == Active(s) /\ Owner(s) \in member
  <2>1. /\ registry' \in [Player -> Socket \union {None}]
        /\ admitted' \in [Player -> Socket \union {None}]
        /\ open' \subseteq Socket
    BY <1>2, ThreadKinds DEF End, Forget, Inv, TypeOK
  <2>2. CASE marks /\ LockIdle
    <3>1. MarksSelf(s, <<>>)
      BY <1>2, <2>2 DEF End
    <3> QED
      BY <1>1, <2>1, <3>1, EmptySeq, MarksSelfKeepsInv
  <2>3. CASE ~ (marks /\ LockIdle)
    <3>1. /\ queue' \in {queue, Append(queue, s)}
          /\ pc' = [pc EXCEPT ![s] = IF marks THEN "marking" ELSE "ended"]
          /\ UNCHANGED <<flags, timers, holder, cast, news>>
      BY <1>2, <2>3 DEF End, Enqueue
    <3>2. queue' \in Seq(Thread) /\ holder' \in Socket \union {None}
      <4>1. queue \in Seq(Thread) /\ s \in Thread
        BY ThreadKinds DEF Inv, TypeOK
      <4>2. Append(queue, s) \in Seq(Thread)
        BY <4>1, AppendProperties
      <4>3. holder' \in Socket \union {None}
        BY <3>1 DEF Inv, TypeOK
      <4> QED
        BY <3>1, <4>1, <4>2, <4>3
    <3>3. (IF marks THEN "marking" ELSE "ended") \in Place
      BY DEF Place
    <3> HIDE DEF marks
    <3> QED
      BY <1>1, <2>1, <3>1, <3>2, <3>3, PlaceKeepsInv
  <2> QED
    BY <2>2, <2>3
<1>3. CASE MarkEnded(s)
  <2>1. Tail(queue) \in Seq(Thread)
    BY <1>3, HeadTailProperties DEF MarkEnded, Granted, Inv, TypeOK
  <2>2. MarksSelf(s, Tail(queue)) /\ UNCHANGED <<registry, admitted, open>>
    BY <1>3 DEF MarkEnded
  <2>3. /\ registry' \in [Player -> Socket \union {None}]
        /\ admitted' \in [Player -> Socket \union {None}]
        /\ open' \subseteq Socket
    BY <2>2 DEF Inv, TypeOK
  <2> QED
    BY <1>1, <2>1, <2>2, <2>3, MarksSelfKeepsInv
<1> QED
  BY <1>2, <1>3

-----------------------------------------------------------------------------
(***************************************************************************)
(* Every step keeps the invariant: grace tasks and REST calls.             *)
(***************************************************************************)

\* A task that sleeps or waits is not in a broadcast.
LEMMA ExpiresKeepsInv ==
  ASSUME Inv, NEW t \in Timer, NEW q \in Seq(Thread), Expires(t, q),
         timer[t].at \in {"asleep", "waiting"}
  PROVE  Inv'
<1> DEFINE p == Owner(t)
<1>1. p \in Player /\ t \in Thread /\ t \notin Socket /\ Timer \subseteq Thread
  BY ThreadKinds
<1>2. /\ queue' = q
      /\ UNCHANGED <<member, present, epoch, sockets, holder>>
  BY DEF Expires
<1>3. TaskOf(p) /\ timer[t] # NoTimer
  BY <1>1, Records DEF Inv, TasksOK
<1>4. /\ entry[p] = t /\ timer[t].epoch = epoch[p] /\ p \notin present /\ cast[t] = NoCast
      /\ \A u \in Timer : Owner(u) = p /\ u # t => timer[u] = NoTimer /\ cast[u] = NoCast
  <2>1. \A u \in Timer : Owner(u) = p /\ u # t => timer[u] = NoTimer
    BY <1>3 DEF TaskOf
  <2>2. /\ entry[p] = t /\ timer[t].epoch = epoch[p] /\ p \notin present /\ cast[t] = NoCast
    BY <1>3 DEF TaskOf
  <2> QED
    BY <2>1, <2>2, FreeTask DEF Inv
<1>5. CASE StillAbsent(t)
  <2>1. /\ excluded' = excluded \union {p} /\ timer' = [timer EXCEPT ![t].at = "announcing"]
        /\ cast' = [cast EXCEPT ![t] = Sending(member)]
        /\ told' = {} /\ missed' = {} /\ UNCHANGED entry
    BY <1>5 DEF Expires, News
  <2>2. member \in SUBSET Player
    BY DEF Inv, TypeOK
  <2>3. /\ Sending(member) \in CastRecord /\ Sending(member).phase = "send"
        /\ Sending(member).stale = {} /\ Sending(member).unmarked = {}
    BY <2>2, Records
  <2>4. /\ cast' \in [Thread -> CastRecord] /\ cast'[t] = Sending(member)
        /\ \A u \in Thread : u # t => cast'[u] = cast[u]
    BY <1>1, <2>1, <2>3, Types DEF Inv
  <2>5. /\ timer' \in [Timer -> TimerRecord]
        /\ timer'[t].at = "announcing" /\ timer'[t].epoch = timer[t].epoch
        /\ \A u \in Timer : u # t => timer'[u] = timer[u]
    <3>1. timer \in [Timer -> TimerRecord]
      BY Types DEF Inv
    <3> QED
      BY <2>1, <3>1 DEF TimerRecord
  <2>6. TypeOK'
    BY <1>1, <1>2, <2>1, <2>4, <2>5 DEF Inv, TypeOK, CastRecord, TimerRecord, sockets
  <2>7. CastsOK'
    <3>1. CastOf(t)'
      BY <1>1, <2>3, <2>4 DEF CastOf
    <3> QED
      BY <1>1, <1>2, <2>4, <3>1, OtherCasts DEF Inv, sockets
  <2>8. timer'[t] # NoTimer
    BY <2>5, Records
  <2> HIDE DEF Owner
  <2>9. ASSUME NEW r \in Player
        PROVE  TaskOf(r)'
    <3>1. TaskOf(r)
      BY DEF Inv, TasksOK
    <3>2. CASE r = p
      <4>1. entry'[r] = t /\ epoch'[r] = timer'[t].epoch /\ r \notin present' /\ r \in excluded'
        BY <1>2, <1>4, <2>1, <2>5, <3>2
      <4>2. \A u \in Timer : Owner(u) = r /\ u # t => timer'[u] = NoTimer /\ cast'[u] = NoCast
        BY <1>1, <1>4, <2>4, <2>5, <3>2
      <4>3. timer'[t].at = "announcing" /\ r \notin cast'[t].stale \union cast'[t].unmarked
        BY <2>3, <2>4, <2>5
      <4> QED
        BY <2>8, <3>2, <4>1, <4>2, <4>3, Records DEF TaskOf
    <3>3. CASE r # p
      <4>1. \A u \in Timer : Owner(u) = r => timer'[u] = timer[u] /\ cast'[u] = cast[u]
        BY <1>1, <2>4, <2>5, <3>3
      <4>2. r \in excluded => r \in excluded'
        BY <2>1
      <4>3. entry'[r] = entry[r] /\ epoch'[r] = epoch[r] /\ present' = present
        BY <1>2, <2>1
      <4> QED
        BY <3>1, <4>1, <4>2, <4>3, TaskContinues
    <3> QED
      BY <3>2, <3>3
  <2> QED
    BY <2>6, <2>7, <2>9 DEF Inv, TasksOK
<1>6. CASE ~StillAbsent(t)
  <2>1. /\ timer' = [timer EXCEPT ![t] = NoTimer]
        /\ entry' = [entry EXCEPT ![p] = None]
        /\ UNCHANGED <<excluded, cast, news>>
    BY <1>4, <1>6 DEF Expires
  <2>2. /\ timer' \in [Timer -> TimerRecord] /\ timer'[t] = NoTimer
        /\ \A u \in Timer : u # t => timer'[u] = timer[u]
    BY <2>1, Types, Records DEF Inv
  <2>3. /\ entry' \in [Player -> Timer \union {None}] /\ entry'[p] = None
        /\ \A r \in Player : r # p => entry'[r] = entry[r]
    BY <1>1, <2>1, Types DEF Inv
  <2>4. TypeOK'
    BY <1>2, <2>1, <2>2, <2>3 DEF Inv, TypeOK, TimerRecord, sockets, news
  <2>5. CastsOK'
    BY <1>2, <2>1 DEF Inv, CastsOK, CastOf, sockets
  <2> HIDE DEF Owner
  <2>6. ASSUME NEW r \in Player
        PROVE  TaskOf(r)'
    <3>1. TaskOf(r)
      BY DEF Inv, TasksOK
    <3>2. CASE r = p
      <4>1. \A u \in Timer : Owner(u) = r => timer'[u] = NoTimer /\ cast'[u] = NoCast
        BY <1>4, <2>1, <2>2, <3>2
      <4> QED
        BY <2>3, <3>2, <4>1, TaskEnds
    <3>3. CASE r # p
      <4>1. \A u \in Timer : Owner(u) = r => timer'[u] = timer[u] /\ cast'[u] = cast[u]
        BY <2>1, <2>2, <3>3
      <4>2. UNCHANGED <<epoch, present, excluded>> /\ entry'[r] = entry[r]
        BY <1>2, <2>1, <2>3, <3>3
      <4> QED
        BY <3>1, <4>1, <4>2, TaskContinues
    <3> QED
      BY <3>2, <3>3
  <2> QED
    BY <2>4, <2>5, <2>6 DEF Inv, TasksOK
<1> QED
  BY <1>5, <1>6

LEMMA ExpireKeepsInv ==
  ASSUME Inv, NEW t \in Timer, Wake(t) \/ Expire(t)
  PROVE  Inv'
<1>1. CASE Wake(t) /\ LockIdle
  BY <1>1, EmptySeq, ExpiresKeepsInv DEF Wake
<1>2. CASE Expire(t)
  <2>1. Tail(queue) \in Seq(Thread)
    BY <1>2, HeadTailProperties DEF Expire, Granted, Inv, TypeOK
  <2> QED
    BY <1>2, <2>1, ExpiresKeepsInv DEF Expire
<1>3. CASE Wake(t) /\ ~LockIdle
  <2>1. /\ timer[t].at = "asleep" /\ queue' = Append(queue, t)
        /\ timer' = [timer EXCEPT ![t].at = "waiting"]
        /\ UNCHANGED <<flags, sockets, entry, holder, cast, news>>
    BY <1>3 DEF Wake, Enqueue
  <2>2. t \in Thread /\ Owner(t) \in Player
    BY ThreadKinds
  <2>3. queue' \in Seq(Thread)
    BY <2>1, <2>2, AppendProperties DEF Inv, TypeOK
  <2>4. /\ timer' \in [Timer -> TimerRecord]
        /\ timer'[t].at = "waiting" /\ timer'[t].epoch = timer[t].epoch
        /\ \A u \in Timer : u # t => timer'[u] = timer[u]
    <3>1. timer \in [Timer -> TimerRecord]
      BY Types DEF Inv
    <3> QED
      BY <2>1, <3>1 DEF TimerRecord
  <2>5. TypeOK'
    BY <2>1, <2>3, <2>4 DEF Inv, TypeOK, TimerRecord, flags, sockets, news
  <2>6. CastsOK'
    BY <2>1 DEF Inv, CastsOK, CastOf, sockets
  <2>7. timer[t] # NoTimer /\ timer'[t] # NoTimer
    BY <2>1, <2>4, Records
  <2> HIDE DEF Owner
  <2>8. ASSUME NEW p \in Player
        PROVE  TaskOf(p)'
    <3>1. TaskOf(p)
      BY DEF Inv, TasksOK
    <3>2. UNCHANGED <<entry, epoch, present, excluded, cast>>
      BY <2>1 DEF flags
    <3>3. \A u \in Timer : timer'[u] # NoTimer <=> timer[u] # NoTimer
      BY <2>4, <2>7
    <3>4. \A u \in Timer : timer'[u].epoch = timer[u].epoch
      BY <2>4
    <3>5. \A u \in Timer : cast[u] # NoCast /\ Owner(u) = p => u # t
      BY <2>1, <3>1 DEF TaskOf
    <3>6. \A u \in Timer : u # t => timer'[u].at = timer[u].at
      BY <2>4
    <3> QED
      BY <2>4, <3>1, <3>2, <3>3, <3>4, <3>5, <3>6 DEF TaskOf
  <2> QED
    BY <2>5, <2>6, <2>8 DEF Inv, TasksOK
<1> QED
  BY <1>1, <1>2, <1>3

LEMMA LeaveKeepsInv ==
  ASSUME Inv, NEW p \in Player, LeaveByRest(p)
  PROVE  Inv'
<1> DEFINE rest == member \ {p}
<1>1. /\ member' = rest /\ registry' = [registry EXCEPT ![p] = None]
      /\ cast' = [cast EXCEPT ![Rest] = Sending(rest)] /\ told' = {} /\ missed' = {}
      /\ UNCHANGED <<present, excluded, epoch, admitted, open, pc, timers, holder, queue>>
  BY DEF LeaveByRest, News
<1>2. rest \in SUBSET Player
  BY DEF Inv, TypeOK
<1> HIDE DEF rest
<1>3. Sending(rest) \in CastRecord /\ Sending(rest).phase = "send" /\ Rest \in Thread
      /\ Rest \notin Timer /\ Rest \notin Socket
  BY <1>2, Records, ThreadKinds
<1>4. /\ cast' \in [Thread -> CastRecord] /\ cast'[Rest] = Sending(rest)
      /\ \A u \in Thread : u # Rest => cast'[u] = cast[u]
  BY <1>1, <1>3, Types DEF Inv
<1>5. TypeOK'
  BY <1>1, <1>2, <1>4 DEF Inv, TypeOK, CastRecord, timers
<1>6. CastsOK'
  <2>1. CastOf(Rest)'
    BY <1>3, <1>4 DEF CastOf
  <2> QED
    BY <1>1, <1>3, <1>4, <2>1, OtherCasts DEF Inv
<1> HIDE DEF Owner
<1>7. ASSUME NEW r \in Player
      PROVE  TaskOf(r)'
  <2>1. TaskOf(r) /\ Timer \subseteq Thread
    BY DEF Inv, TasksOK, Thread
  <2>2. \A u \in Timer : cast'[u] = cast[u]
    BY <1>3, <1>4, <2>1
  <2> QED
    BY <1>1, <2>1, <2>2, TaskContinues DEF timers
<1> QED
  BY <1>5, <1>6, <1>7 DEF Inv, TasksOK

LEMMA InitInv ==
  ASSUME Init
  PROVE  Inv
<1>1. TypeOK
  BY PresenceAssumption, Records, EmptySeq DEF Init, TypeOK, CastRecord, TimerRecord, Place
<1>2. \A t \in Thread : cast[t] = NoCast
  BY DEF Init
<1>3. \A t \in Timer : timer[t] = NoTimer /\ t \in Thread
  BY DEF Init, Thread
<1>4. \A p \in Player : entry[p] = None
  BY DEF Init
<1>5. TasksOK
  BY <1>2, <1>3, <1>4, Records DEF TasksOK, TaskOf
<1>6. CastsOK
  BY <1>2, Records DEF CastsOK, CastOf
<1> QED
  BY <1>1, <1>5, <1>6 DEF Inv

LEMMA BroadcastKeepsInv ==
  ASSUME Inv, NEW t \in Thread, BroadcastStep(t)
  PROVE  Inv'
<1>1. CASE SendBegins(t)
  BY <1>1, SendBeginsKeepsInv
<1>2. CASE \E sent \in BOOLEAN : SendEnds(t, sent)
  BY <1>2, SendEndsKeepsInv
<1>3. CASE CastOver(t)
  BY <1>3, CastOverKeepsInv
<1>4. CASE GoMark(t)
  BY <1>4, GoMarkKeepsInv
<1>5. CASE MarkLost(t)
  BY <1>5, MarkLostKeepsInv
<1> QED
  BY <1>1, <1>2, <1>3, <1>4, <1>5 DEF BroadcastStep

LEMMA NextKeepsInv ==
  ASSUME Inv, [Next]_vars
  PROVE  Inv'
<1>1. ASSUME NEW s \in Socket, Open(s) \/ Receive(s) \/ Lose(s)
      PROVE  Inv'
  BY <1>1, OpenKeepsInv, CommandKeepsInv, LoseKeepsInv
<1>2. ASSUME NEW p \in Player, LeaveByRest(p)
      PROVE  Inv'
  BY <1>2, LeaveKeepsInv
<1>3. ASSUME NEW s \in Socket, EndpointStep(s)
      PROVE  Inv'
  <2>1. s \in Thread
    BY ThreadKinds
  <2> QED
    BY <1>3, <2>1, JoinKeepsInv, CommandKeepsInv, LoseKeepsInv, EndKeepsInv, CommandMarksKeepsInv,
       BroadcastKeepsInv DEF EndpointStep
<1>4. ASSUME NEW t \in Timer, TimerStep(t)
      PROVE  Inv'
  <2>1. t \in Thread
    BY ThreadKinds
  <2> QED
    BY <1>4, <2>1, ExpireKeepsInv, BroadcastKeepsInv DEF TimerStep
<1>5. ASSUME RestStep
      PROVE  Inv'
  BY <1>5, ThreadKinds, RestMarksKeepsInv, BroadcastKeepsInv DEF RestStep
<1>6. ASSUME UNCHANGED vars
      PROVE  Inv'
  <2>1. UNCHANGED <<member, present, excluded, epoch, registry, admitted, open, pc, timer, entry,
                    holder, queue, cast, told, missed>>
    BY <1>6 DEF vars, flags, sockets, timers, news
  <2>2. TypeOK'
    BY <2>1 DEF Inv, TypeOK
  <2>3. CastsOK'
    BY <2>1 DEF Inv, CastsOK, CastOf
  <2> QED
    BY <2>1, <2>2, <2>3, SameTasks DEF Inv
<1> QED
  BY <1>1, <1>2, <1>3, <1>4, <1>5, <1>6 DEF Next, Client

\* At any time the types hold, every grace task is known and about the present
\* absence of its player, and threads broadcast only where they may.
THEOREM InvHolds == Spec => []Inv
  BY InitInv, NextKeepsInv, PTL DEF Spec

\* Every variable keeps its type, whatever sends fail and whoever leaves: the
\* code never looks up a task, a place after a broadcast or a record that is
\* not there.
THEOREM TypesHold == Spec => []TypeOK
<1>1. Inv => TypeOK
  BY DEF Inv
<1> QED
  BY <1>1, InvHolds, PTL

LEMMA TimersAreCurrent ==
  ASSUME Inv
  PROVE  TimerIsCurrent
<1>1. \A p \in Player : TaskOf(p)
  BY DEF Inv, TasksOK
<1>2. \A t \in Timer : Owner(t) \in Player
  BY ThreadKinds
<1> HIDE DEF Owner
<1> QED
  BY <1>1, <1>2 DEF TimerIsCurrent, Live, TaskOf

\* No task that sleeps or waits outlives the absence it was started for: a
\* player who comes back has cancelled it, so that it cannot exclude the player
\* early in the next absence.
THEOREM NoTimerIsLate == Spec => []TimerIsCurrent
<1>1. Inv => TimerIsCurrent
  BY TimersAreCurrent
<1> QED
  BY <1>1, InvHolds, PTL

\* grace_tasks knows every task that runs, and nothing else: cancel_grace can
\* end each, and no player has two; and each is about the absence that lasts.
THEOREM TasksStayKnown == Spec => []TasksAreKnown
<1>1. Inv => TasksAreKnown
  <2> SUFFICES ASSUME Inv
               PROVE  TasksAreKnown
    OBVIOUS
  <2>1. \A p \in Player : TaskOf(p)
    BY DEF Inv, TasksOK
  <2>2. \A t \in Timer : Owner(t) \in Player
    BY ThreadKinds
  <2> HIDE DEF Owner
  <2> QED
    BY <2>1, <2>2, TimersAreCurrent DEF TasksAreKnown, Live, TaskOf
<1> QED
  BY <1>1, InvHolds, PTL
-----------------------------------------------------------------------------
(***************************************************************************)
(* Where endpoints go, and who is registered.                              *)
(***************************************************************************)

\* The endpoint of s stays, or goes where the code takes it.
Moves(s) ==
  \/ pc'[s] = pc[s]
  \/ Open(s) /\ pc'[s] \in {"registered", "joining", "greeting", "closing"}
  \/ pc[s] = "registered" /\ pc'[s] \in {"joining", "greeting", "closing"} /\ PreviousClosed(s)
  \/ pc[s] = "joining" /\ pc'[s] \in {"greeting", "closing"} /\ Join(s)
  \/ pc[s] = "closing" /\ pc'[s] \in {"marking", "farewell", "ended"} /\ End(s)
  \/ pc[s] = "marking" /\ pc'[s] \in {"farewell", "ended"} /\ MarkEnded(s)
  \/ /\ pc[s] \in {"serving", "queued", "greeting", "commanding", "acking"}
     /\ pc'[s] \in {"serving", "queued", "commanding", "acking", "closing"}
  \/ pc[s] = "farewell" /\ pc'[s] = "ended"

\* An endpoint that goes from one place to the next is the only one.
LEMMA OneMoves ==
  ASSUME TypeOK, NEW s \in Socket, NEW x, pc' = [pc EXCEPT ![s] = x]
  PROVE  pc'[s] = x /\ \A r \in Socket : r # s => pc'[r] = pc[r]
  BY DEF TypeOK

LEMMA JoinsMoves ==
  ASSUME TypeOK, NEW s \in Socket, NEW q, Joins(s, q)
  PROVE  pc'[s] \in {"greeting", "closing"} /\ \A r \in Socket : r # s => pc'[r] = pc[r]
<1>1. pc' = [pc EXCEPT ![s] = "greeting"] \/ pc' = [pc EXCEPT ![s] = "closing"]
  BY DEF Joins
<1> QED
  BY <1>1, OneMoves

LEMMA GoJoinMoves ==
  ASSUME TypeOK, NEW s \in Socket, GoJoin(s)
  PROVE  /\ pc'[s] \in {"joining", "greeting", "closing"}
         /\ \A r \in Socket : r # s => pc'[r] = pc[r]
<1>1. CASE LockIdle
  BY <1>1, JoinsMoves DEF GoJoin
<1>2. CASE ~LockIdle
  BY <1>2, OneMoves DEF GoJoin
<1> QED
  BY <1>1, <1>2

LEMMA MarksMoves ==
  ASSUME Inv, NEW t \in Thread, NEW stale, NEW S, NEW q, Marks(t, stale, S, q),
         t \in Socket => pc[t] \in {"greeting", "farewell"}
  PROVE  \A s \in Socket : Moves(s)
<1>1. pc' = pc \/ (t \in Socket /\ pc' = [pc EXCEPT ![t] = AfterRaise[pc[t]]])
  BY DEF Marks
<1>2. CASE pc' = pc
  BY <1>2 DEF Moves
<1>3. CASE t \in Socket /\ pc' = [pc EXCEPT ![t] = AfterRaise[pc[t]]]
  <2>1. pc'[t] = AfterRaise[pc[t]] /\ \A r \in Socket : r # t => pc'[r] = pc[r]
    BY <1>3, OneMoves DEF Inv
  <2>2. \/ pc[t] = "greeting" /\ AfterRaise[pc[t]] = "closing"
        \/ pc[t] = "farewell" /\ AfterRaise[pc[t]] = "ended"
    BY <1>3 DEF AfterRaise
  <2> QED
    BY <2>1, <2>2 DEF Moves
<1> QED
  BY <1>1, <1>2, <1>3

LEMMA BroadcastMoves ==
  ASSUME Inv, NEW t \in Thread, BroadcastStep(t)
  PROVE  (\A s \in Socket : Moves(s)) /\ UNCHANGED <<admitted, open>>
<1>0. UNCHANGED <<admitted, open>>
  BY DEF BroadcastStep, SendBegins, SendEnds, CastOver, GoMark, MarkLost, Marks, sockets
<1>1. CASE SendBegins(t) \/ \E sent \in BOOLEAN : SendEnds(t, sent)
  <2>1. pc' = pc
    BY <1>1 DEF SendBegins, SendEnds, sockets
  <2> QED
    BY <1>0, <2>1 DEF Moves
<1>2. CASE CastOver(t)
  <2>1. cast[t] # NoCast
    BY <1>2, Records DEF CastOver, SendsOver, Lookup
  <2>2. CASE t \in Socket
    <3>1. pc[t] \in {"greeting", "commanding", "acking", "farewell"}
      BY <2>1, <2>2 DEF Inv, CastsOK, CastOf
    <3>2. pc'[t] = After[pc[t]] /\ \A r \in Socket : r # t => pc'[r] = pc[r]
      <4>1. pc' = [pc EXCEPT ![t] = After[pc[t]]]
        BY <1>2, <2>2 DEF CastOver
      <4> QED
        BY <2>2, <4>1, OneMoves DEF Inv
    <3>3. \/ pc[t] # "farewell" /\ After[pc[t]] \in {"serving", "acking"}
          \/ pc[t] = "farewell" /\ After[pc[t]] = "ended"
      BY <3>1 DEF After
    <3> QED
      BY <1>0, <3>1, <3>2, <3>3 DEF Moves
  <2>3. CASE t \notin Socket
    <3>1. pc' = pc
      BY <1>2, <2>3 DEF CastOver
    <3> QED
      BY <1>0, <3>1 DEF Moves
  <2> QED
    BY <2>2, <2>3
<1>3. CASE GoMark(t)
  <2>1. t \in Socket => pc[t] \in {"greeting", "farewell"}
    BY <1>3, ThreadKinds DEF GoMark
  <2>2. CASE LockIdle
    BY <1>0, <1>3, <2>1, <2>2, MarksMoves DEF GoMark
  <2>3. CASE ~LockIdle
    <3>1. pc' = pc
      BY <1>3, <2>3 DEF GoMark, sockets
    <3> QED
      BY <1>0, <3>1 DEF Moves
  <2> QED
    BY <2>2, <2>3
<1>4. CASE MarkLost(t)
  <2>1. CastOf(t) /\ cast[t] # NoCast /\ cast[t].phase = "mark"
    BY <1>4, Records DEF Inv, CastsOK, MarkLost
  <2>2. t \in Socket => pc[t] \in {"greeting", "farewell"}
    BY <2>1 DEF CastOf
  <2> QED
    BY <1>0, <1>4, <2>2, MarksMoves DEF MarkLost
<1> QED
  BY <1>1, <1>2, <1>3, <1>4 DEF BroadcastStep

LEMMA EndpointsMove ==
  ASSUME Inv, [Next]_vars
  PROVE  \A s \in Socket : Moves(s)
<1>0. TypeOK
  BY DEF Inv
<1>1. ASSUME NEW s \in Socket, Open(s)
      PROVE  \A r \in Socket : Moves(r)
  <2>1. CASE registry[Owner(s)] = None
    BY <1>0, <1>1, <2>1, GoJoinMoves DEF Open, Moves
  <2>2. CASE registry[Owner(s)] # None
    BY <1>0, <1>1, <2>2, OneMoves DEF Open, Moves
  <2> QED
    BY <2>1, <2>2
<1>2. ASSUME NEW s \in Socket, Receive(s) \/ Command(s)
      PROVE  \A r \in Socket : Moves(r)
  <2>1. \E x \in {"commanding", "serving", "queued"} : pc' = [pc EXCEPT ![s] = x]
    BY <1>2 DEF Receive, Command, Commands
  <2>2. pc[s] \in {"serving", "queued"}
    BY <1>2 DEF Receive, Command
  <2> QED
    BY <1>0, <2>1, <2>2, OneMoves DEF Moves
<1>3. ASSUME NEW s \in Socket, Lose(s)
      PROVE  \A r \in Socket : Moves(r)
  BY <1>3 DEF Lose, Moves
<1>4. ASSUME NEW p \in Player, LeaveByRest(p)
      PROVE  \A r \in Socket : Moves(r)
  BY <1>4 DEF LeaveByRest, Moves
<1>5. ASSUME NEW s \in Socket, PreviousClosed(s)
      PROVE  \A r \in Socket : Moves(r)
  BY <1>0, <1>5, GoJoinMoves DEF PreviousClosed, Moves
<1>6. ASSUME NEW s \in Socket, Join(s)
      PROVE  \A r \in Socket : Moves(r)
  BY <1>0, <1>6, JoinsMoves DEF Join, Moves
<1>7. ASSUME NEW s \in Socket, Notice(s)
      PROVE  \A r \in Socket : Moves(r)
  BY <1>0, <1>7, OneMoves DEF Notice, Moves
<1>8. ASSUME NEW s \in Socket, End(s)
      PROVE  \A r \in Socket : Moves(r)
  <2>1. \E x \in {"marking", "farewell", "ended"} : pc' = [pc EXCEPT ![s] = x]
    BY <1>8 DEF End, MarksSelf
  <2>2. pc[s] = "closing"
    BY <1>8 DEF End
  <2> QED
    BY <1>0, <1>8, <2>1, <2>2, OneMoves DEF Moves
<1>9. ASSUME NEW s \in Socket, MarkEnded(s)
      PROVE  \A r \in Socket : Moves(r)
  <2>1. \E x \in {"farewell", "ended"} : pc' = [pc EXCEPT ![s] = x]
    BY <1>9 DEF MarkEnded, MarksSelf
  <2>2. pc[s] = "marking"
    BY <1>9 DEF MarkEnded
  <2> QED
    BY <1>0, <1>9, <2>1, <2>2, OneMoves DEF Moves
<1>10. ASSUME NEW s \in Socket, CommandMarks(s)
       PROVE  \A r \in Socket : Moves(r)
  <2>1. pc' = pc \/ pc' = [pc EXCEPT ![s] = AfterRaise[pc[s]]]
    BY <1>10 DEF CommandMarks
  <2>2. pc[s] = "commanding" /\ AfterRaise[pc[s]] = "serving"
    BY <1>10 DEF CommandMarks, AfterRaise
  <2> QED
    BY <1>0, <2>1, <2>2, OneMoves DEF Moves
<1>11. ASSUME NEW t \in Timer, Wake(t) \/ Expire(t)
       PROVE  \A r \in Socket : Moves(r)
  BY <1>11 DEF Wake, Expire, Expires, sockets, Moves
<1>12. ASSUME RestMarks
       PROVE  \A r \in Socket : Moves(r)
  BY <1>12 DEF RestMarks, sockets, Moves
<1>13. ASSUME UNCHANGED vars
       PROVE  \A r \in Socket : Moves(r)
  BY <1>13 DEF vars, sockets, Moves
<1>14. /\ \A s \in Socket : s \in Thread
       /\ \A t \in Timer : t \in Thread
       /\ Rest \in Thread
  BY ThreadKinds
<1> QED
  BY <1>1, <1>2, <1>3, <1>4, <1>5, <1>6, <1>7, <1>8, <1>9, <1>10, <1>11, <1>12, <1>13, <1>14,
     BroadcastMoves, Zenon DEF Next, Client, EndpointStep, TimerStep, RestStep

\* The registry and the sockets that count change at a connect, at the end of an
\* endpoint, and when a player leaves; a failed send drops a socket.
RegistryStays == UNCHANGED <<member, registry, admitted>> /\ open' \subseteq open

LEMMA RegistrySteps ==
  ASSUME [Next]_vars
  PROVE  \/ RegistryStays
         \/ \E s \in Socket : Open(s) \/ End(s)
         \/ \E p \in Player : LeaveByRest(p)
         \/ \E t \in Thread : SendEnds(t, FALSE)
<1>1. ASSUME NEW t \in Thread, BroadcastStep(t)
      PROVE  RegistryStays \/ SendEnds(t, FALSE)
  BY <1>1 DEF BroadcastStep, SendBegins, SendEnds, CastOver, GoMark, MarkLost, Marks, RegistryStays,
              sockets, flags
<1>2. ASSUME NEW s \in Socket, Receive(s) \/ Command(s) \/ Lose(s) \/ Notice(s)
      PROVE  RegistryStays
  BY <1>2 DEF Receive, Command, Commands, Lose, Notice, RegistryStays, flags
<1>3. ASSUME NEW s \in Socket, PreviousClosed(s) \/ Join(s) \/ MarkEnded(s) \/ CommandMarks(s)
      PROVE  RegistryStays
  BY <1>3 DEF PreviousClosed, Join, GoJoin, Joins, MarkEnded, MarksSelf, CommandMarks, RegistryStays, flags
<1>4. ASSUME NEW t \in Timer, Wake(t) \/ Expire(t)
      PROVE  RegistryStays
  BY <1>4 DEF Wake, Expire, Expires, RegistryStays, flags, sockets
<1>5. RestMarks => RegistryStays
  BY DEF RestMarks, RegistryStays, sockets
<1>6. UNCHANGED vars => RegistryStays
  BY DEF vars, RegistryStays, flags, sockets
<1>7. /\ \A s \in Socket : s \in Thread
      /\ \A t \in Timer : t \in Thread
      /\ Rest \in Thread
  BY ThreadKinds
<1> QED
  BY <1>1, <1>2, <1>3, <1>4, <1>5, <1>6, <1>7, Zenon DEF Next, Client, EndpointStep, TimerStep, RestStep

LEMMA RegisteredRunKept ==
  ASSUME Inv, RegisteredRun, [Next]_vars
  PROVE  RegisteredRun'
<1> DEFINE Gone == {"unopened", "marking", "farewell", "ended"}
<1>1. \A s \in Socket : Moves(s)
  BY EndpointsMove
<1>2. /\ registry \in [Player -> Socket \union {None}] /\ admitted \in [Player -> Socket \union {None}]
      /\ \A s \in Socket : Owner(s) \in Player /\ s # None
  BY ThreadKinds DEF Inv, TypeOK
<1>3. /\ \A p \in Player : registry[p] # None => Owner(registry[p]) = p /\ pc[registry[p]] \notin Gone
      /\ \A p \in Player : admitted[p] # None => Owner(admitted[p]) = p /\ pc[admitted[p]] \notin Gone
  BY DEF RegisteredRun
<1> SUFFICES
      /\ \A p \in Player : registry'[p] # None => Owner(registry'[p]) = p /\ pc'[registry'[p]] \notin Gone
      /\ \A p \in Player : admitted'[p] # None => Owner(admitted'[p]) = p /\ pc'[admitted'[p]] \notin Gone
  BY DEF RegisteredRun
<1> HIDE DEF Owner
<1>4. ASSUME NEW s \in Socket, pc[s] \notin Gone, pc'[s] \in Gone
      PROVE  End(s)
  <2>1. Moves(s)
    BY <1>1
  <2> QED
    BY <1>4, <2>1 DEF Moves, Open
<1>5. ASSUME \A s \in Socket : ~End(s),
             \A p \in Player : registry'[p] \in {registry[p], None} /\ admitted'[p] \in {admitted[p], None}
      PROVE  /\ \A p \in Player : registry'[p] # None => Owner(registry'[p]) = p /\ pc'[registry'[p]] \notin Gone
             /\ \A p \in Player : admitted'[p] # None => Owner(admitted'[p]) = p /\ pc'[admitted'[p]] \notin Gone
  BY <1>2, <1>3, <1>4, <1>5
<1>6. ASSUME NEW s \in Socket, End(s)
      PROVE  /\ \A p \in Player : registry'[p] # None => Owner(registry'[p]) = p /\ pc'[registry'[p]] \notin Gone
             /\ \A p \in Player : admitted'[p] # None => Owner(admitted'[p]) = p /\ pc'[admitted'[p]] \notin Gone
  <2>1. /\ \A p \in Player : registry'[p] \in {registry[p], None} /\ registry'[p] # s
        /\ \A p \in Player : admitted'[p] \in {admitted[p], None} /\ admitted'[p] # s
    <3>1. registry' = Forget(registry, s) /\ admitted' = Forget(admitted, s)
      BY <1>6 DEF End
    <3>2. \A p \in Player : p # Owner(s) => registry[p] # s /\ admitted[p] # s
      BY <1>2, <1>3
    <3> QED
      BY <1>2, <3>1, <3>2 DEF Forget
  <2>2. \A r \in Socket : r # s => pc'[r] = pc[r]
    <3>1. \E x \in Place : pc' = [pc EXCEPT ![s] = x]
      BY <1>6 DEF End, MarksSelf, Place
    <3> QED
      BY <3>1, OneMoves DEF Inv
  <2> QED
    BY <1>2, <1>3, <2>1, <2>2
<1>7. ASSUME NEW s \in Socket, Open(s)
      PROVE  /\ \A p \in Player : registry'[p] # None => Owner(registry'[p]) = p /\ pc'[registry'[p]] \notin Gone
             /\ \A p \in Player : admitted'[p] # None => Owner(admitted'[p]) = p /\ pc'[admitted'[p]] \notin Gone
  <2>1. /\ registry' = [registry EXCEPT ![Owner(s)] = s] /\ admitted' = [admitted EXCEPT ![Owner(s)] = s]
        /\ pc[s] = "unopened"
    BY <1>7 DEF Open
  <2>2. pc'[s] \notin Gone /\ \A r \in Socket : r # s => pc'[r] = pc[r]
    <3>1. TypeOK
      BY DEF Inv
    <3>2. CASE registry[Owner(s)] = None
      BY <1>7, <3>1, <3>2, GoJoinMoves DEF Open
    <3>3. CASE registry[Owner(s)] # None
      BY <1>7, <3>1, <3>3, OneMoves DEF Open
    <3> QED
      BY <3>2, <3>3
  <2> QED
    BY <1>2, <1>3, <2>1, <2>2
<1>8. CASE \E s \in Socket : Open(s) \/ End(s)
  BY <1>6, <1>7, <1>8
<1>9. CASE ~ \E s \in Socket : Open(s) \/ End(s)
  <2>1. CASE RegistryStays
    BY <1>5, <1>9, <2>1 DEF RegistryStays
  <2>2. CASE \E p \in Player : LeaveByRest(p)
    BY <1>2, <1>5, <1>9, <2>2 DEF LeaveByRest
  <2>3. CASE \E t \in Thread : SendEnds(t, FALSE)
    BY <1>2, <1>5, <1>9, <2>3 DEF SendEnds
  <2> QED
    BY <1>9, <2>1, <2>2, <2>3, RegistrySteps
<1> QED
  BY <1>8, <1>9

\* A socket that is registered or counted belongs to its player and has an
\* endpoint that runs, and will unregister it.
THEOREM RegisteredSocketsRun == Spec => []RegisteredRun
<1>1. Init => RegisteredRun
  BY DEF Init, RegisteredRun
<1>2. Inv /\ RegisteredRun /\ [Next]_vars => RegisteredRun'
  BY RegisteredRunKept
<1> QED
  BY <1>1, <1>2, InvHolds, PTL DEF Spec
-----------------------------------------------------------------------------
(***************************************************************************)
(* Who waits for the lock.                                                 *)
(***************************************************************************)

\* s waits in q, and nobody of X before it.
Before(q, s, X) == \E i \in 1 .. Len(q) : q[i] = s /\ \A j \in 1 .. i : q[j] \notin X

LEMMA BeforeAppend ==
  ASSUME NEW q \in Seq(Thread), NEW t \in Thread, NEW s, NEW X, Before(q, s, X)
  PROVE  Before(Append(q, t), s, X)
<1>1. PICK i \in 1 .. Len(q) : q[i] = s /\ \A j \in 1 .. i : q[j] \notin X
  BY DEF Before
<1> DEFINE v == Append(q, t)
<1>2. Len(q) \in Nat /\ Len(v) = Len(q) + 1 /\ \A k \in 1 .. Len(q) : v[k] = q[k]
  BY AppendProperties, LenProperties
<1> HIDE DEF v
<1>3. i \in 1 .. Len(v) /\ \A j \in 1 .. i : j \in 1 .. Len(q)
  BY <1>2
<1>4. v[i] = s /\ \A j \in 1 .. i : v[j] \notin X
  BY <1>1, <1>2, <1>3
<1>5. Before(v, s, X)
  BY <1>3, <1>4 DEF Before
<1> QED
  BY <1>5 DEF v

LEMMA BeforeTail ==
  ASSUME NEW q \in Seq(Thread), NEW s, NEW X, Before(q, s, X)
  PROVE  /\ q # <<>> /\ Head(q) \notin X
         /\ Head(q) # s => Before(Tail(q), s, X)
<1>1. PICK i \in 1 .. Len(q) : q[i] = s /\ \A j \in 1 .. i : q[j] \notin X
  BY DEF Before
<1> DEFINE v == Tail(q)
<1>2. Len(q) \in Nat /\ 1 \in 1 .. i /\ i \in Nat /\ q # <<>>
  BY LenProperties, EmptySeq
<1>3. Head(q) = q[1] /\ v \in Seq(Thread) /\ Len(v) = Len(q) - 1
      /\ \A k \in 1 .. Len(v) : v[k] = q[k + 1]
  BY <1>2, HeadTailProperties
<1> HIDE DEF v
<1>4. Head(q) \notin X
  BY <1>1, <1>2, <1>3
<1>5. ASSUME Head(q) # s
      PROVE  Before(v, s, X)
  <2>1. i # 1
    BY <1>1, <1>3, <1>5
  <2>2. i - 1 \in 1 .. Len(v) /\ (i - 1) + 1 = i
    BY <1>2, <1>3, <2>1
  <2>3. \A j \in 1 .. i - 1 : j \in 1 .. Len(v) /\ j + 1 \in 1 .. i
    BY <1>2, <1>3
  <2>4. v[i - 1] = s /\ \A j \in 1 .. i - 1 : v[j] \notin X
    BY <1>1, <1>3, <2>2, <2>3
  <2> QED
    BY <2>2, <2>4 DEF Before
<1> QED
  BY <1>2, <1>4, <1>5 DEF v

LEMMA BeforeWithoutTasks ==
  ASSUME NEW q \in Seq(Thread), NEW S, NEW s \in Socket, NEW X, Before(q, s, X),
         Tasks(S) \subseteq Timer
  PROVE  Before(WithoutTasks(q, S), s, X)
<1>1. PICK i \in 1 .. Len(q) : q[i] = s /\ \A j \in 1 .. i : q[j] \notin X
  BY DEF Before
<1> DEFINE w == WithoutTasks(q, S)
<1>2. Kept(w, q, S)
  BY RestOfQueue
<1> HIDE DEF w
<1>3. s \notin Tasks(S)
  BY ThreadKinds
<1>4. PICK k \in 1 .. Len(w) : w[k] = q[i] /\ \A j \in 1 .. k : \E m \in 1 .. i : w[j] = q[m]
  BY <1>1, <1>2, <1>3 DEF Kept
<1>5. Before(w, s, X)
  BY <1>1, <1>4 DEF Before
<1> QED
  BY <1>5 DEF w

\* What is left of the queue q after the cancellations of a step.
Rests(w, q) == w = q \/ \E S \in SUBSET Player : w = WithoutTasks(q, S)

\* The lock is given to the head of the queue, if at all; somebody may ask for it.
QueueMoves ==
  \E q, w \in Seq(Thread) :
    /\ \/ q = queue
       \/ /\ queue # <<>> /\ q = Tail(queue)
          /\ Head(queue) \in Socket /\ pc[Head(queue)] \in {"joining", "marking"} =>
               pc'[Head(queue)] # pc[Head(queue)]
    /\ Rests(w, q)
    /\ \/ queue' = w
       \/ \E t \in Thread : queue' = Append(w, t) /\ (t \in Socket => pc'[t] # "unopened")

LEMMA MarksQueue ==
  ASSUME Inv, NEW t \in Thread, NEW stale, NEW S \in SUBSET Player, NEW q \in Seq(Thread),
         Marks(t, stale, S, q), t \in Socket => pc[t] \in {"greeting", "farewell"}
  PROVE  \E w \in Seq(Thread) :
           /\ Rests(w, q)
           /\ queue' = w \/ (queue' = Append(w, t) /\ (t \in Socket => pc'[t] # "unopened"))
<1> DEFINE first   == {Min(S)} \intersect member
           waiting == WithoutTasks(q, first)
           batch   == IF waiting = <<>> THEN Markable(S) ELSE first
           rest    == S \ batch
           raises  == rest # {} /\ (waiting = <<>> \/ batch = {})
<1>1. /\ queue' = IF raises \/ rest = {} THEN WithoutTasks(q, batch) ELSE Append(waiting, t)
      /\ ~raises => pc' = pc
  BY DEF Marks
<1>2. first \in SUBSET Player /\ batch \in SUBSET Player
  BY MarkablePlayers DEF Inv, TypeOK
<1>3. waiting \in Seq(Thread) /\ WithoutTasks(q, batch) \in Seq(Thread)
  BY RestOfQueue DEF Kept
<1> HIDE DEF first, batch, rest, raises
<1>4. Rests(waiting, q) /\ Rests(WithoutTasks(q, batch), q)
  BY <1>2, Zenon DEF Rests
<1>5. CASE raises \/ rest = {}
  BY <1>1, <1>3, <1>4, <1>5
<1>6. CASE ~ (raises \/ rest = {})
  <2>1. queue' = Append(waiting, t) /\ (t \in Socket => pc'[t] # "unopened")
    BY <1>1, <1>6
  <2> QED
    BY <1>3, <1>4, <2>1
<1> QED
  BY <1>5, <1>6

\* The head of the queue is t, and so a thread that waits with another place has
\* not been given the lock.
LEMMA GrantedQueue ==
  ASSUME Inv, NEW t \in Thread, Granted(t), NEW w \in Seq(Thread), Rests(w, Tail(queue)),
         t \in Socket /\ pc[t] \in {"joining", "marking"} => pc'[t] # pc[t],
         \/ queue' = w
         \/ queue' = Append(w, t) /\ (t \in Socket => pc'[t] # "unopened")
  PROVE  QueueMoves
<1>1. queue # <<>> /\ Head(queue) = t /\ Tail(queue) \in Seq(Thread)
  BY HeadTailProperties DEF Granted, Inv, TypeOK
<1> QED
  BY <1>1, Zenon DEF QueueMoves

LEMMA WaitingQueue ==
  ASSUME Inv, NEW w \in Seq(Thread), Rests(w, queue),
         \/ queue' = w
         \/ \E t \in Thread : queue' = Append(w, t) /\ (t \in Socket => pc'[t] # "unopened")
  PROVE  QueueMoves
<1>1. queue \in Seq(Thread)
  BY DEF Inv, TypeOK
<1> QED
  BY <1>1, Zenon DEF QueueMoves

\* t takes the lock at once, and nobody waits.
LEMMA IdleQueue ==
  ASSUME LockIdle
  PROVE  <<>> = queue
  BY DEF LockIdle

LEMMA BroadcastQueue ==
  ASSUME Inv, NEW t \in Thread, BroadcastStep(t)
  PROVE  QueueMoves
<1>0. queue \in Seq(Thread) /\ Rests(queue, queue)
  BY DEF Inv, TypeOK, Rests
<1>1. CASE SendBegins(t) \/ (\E sent \in BOOLEAN : SendEnds(t, sent)) \/ CastOver(t)
  <2>1. queue' = queue
    BY <1>1 DEF SendBegins, SendEnds, CastOver
  <2> QED
    BY <1>0, <2>1, WaitingQueue
<1>2. CASE GoMark(t)
  <2>1. t \in Socket => pc[t] \in {"greeting", "farewell"}
    BY <1>2, ThreadKinds DEF GoMark
  <2>2. CASE LockIdle
    <3>1. Marks(t, Lost(t), Lost(t), queue) /\ Lost(t) \in SUBSET Player
      BY <1>2, <2>2, IdleQueue, LostPlayers DEF GoMark
    <3> QED
      BY <1>0, <2>1, <3>1, MarksQueue, WaitingQueue
  <2>3. CASE ~LockIdle
    <3>1. queue' = Append(queue, t) /\ pc' = pc
      BY <1>2, <2>3 DEF GoMark, Enqueue, sockets
    <3>2. t \in Socket => pc'[t] # "unopened"
      BY <2>1, <3>1
    <3> QED
      BY <1>0, <3>1, <3>2, WaitingQueue
  <2> QED
    BY <2>2, <2>3
<1>3. CASE MarkLost(t)
  <2>1. CastOf(t) /\ cast[t] # NoCast /\ cast[t].phase = "mark"
    BY <1>3, Records DEF Inv, CastsOK, MarkLost
  <2>2. t \in Socket => pc[t] \in {"greeting", "farewell"}
    BY <2>1 DEF CastOf
  <2>3. /\ Granted(t) /\ Marks(t, cast[t].stale, cast[t].unmarked, Tail(queue))
        /\ cast[t].unmarked \in SUBSET Player /\ Tail(queue) \in Seq(Thread)
    BY <1>3, Types, HeadTailProperties DEF MarkLost, Granted, Inv, TypeOK
  <2>4. PICK w \in Seq(Thread) :
           /\ Rests(w, Tail(queue))
           /\ queue' = w \/ (queue' = Append(w, t) /\ (t \in Socket => pc'[t] # "unopened"))
    BY <2>2, <2>3, MarksQueue
  <2>5. t \in Socket => pc[t] \notin {"joining", "marking"}
    BY <2>2
  <2> QED
    BY <2>3, <2>4, <2>5, GrantedQueue
<1> QED
  BY <1>1, <1>2, <1>3 DEF BroadcastStep

LEMMA QueueSteps ==
  ASSUME Inv, [Next]_vars
  PROVE  QueueMoves
<1>0. queue \in Seq(Thread) /\ Rests(queue, queue) /\ TypeOK
  BY DEF Inv, TypeOK, Rests
<1>1. \A t \in Thread : Granted(t) => Tail(queue) \in Seq(Thread) /\ Rests(Tail(queue), Tail(queue))
  BY HeadTailProperties DEF Granted, Inv, TypeOK, Rests
<1>2. \A q \in Seq(Thread), S \in SUBSET Player :
        WithoutTasks(q, S) \in Seq(Thread) /\ Rests(WithoutTasks(q, S), q)
  BY RestOfQueue, Zenon DEF Kept, Rests
<1>3. \A s \in Socket : s \in Thread /\ Owner(s) \in Player /\ {Owner(s)} \in SUBSET Player
  BY ThreadKinds
<1>4. queue' = queue => QueueMoves
  BY <1>0, WaitingQueue
<1>5. ASSUME NEW s \in Socket, GoJoin(s)
      PROVE  QueueMoves
  <2>1. CASE LockIdle
    <3>1. queue' = WithoutTasks(queue, {Owner(s)})
      BY <1>5, <2>1, IdleQueue DEF GoJoin, Joins
    <3>2. queue' \in Seq(Thread) /\ Rests(queue', queue)
      BY <1>0, <1>2, <1>3, <3>1
    <3> QED
      BY <3>2, WaitingQueue
  <2>2. CASE ~LockIdle
    <3>1. queue' = Append(queue, s) /\ pc'[s] # "unopened"
      <4>1. queue' = Append(queue, s)
        BY <1>5, <2>2 DEF GoJoin, Enqueue
      <4>2. pc'[s] # "unopened"
        BY <1>0, <1>5, GoJoinMoves
      <4> QED
        BY <4>1, <4>2
    <3> QED
      BY <1>0, <1>3, <3>1, WaitingQueue
  <2> QED
    BY <2>1, <2>2
<1>6. ASSUME NEW s \in Socket, Open(s) \/ PreviousClosed(s)
      PROVE  QueueMoves
  BY <1>4, <1>5, <1>6 DEF Open, PreviousClosed
<1>7. ASSUME NEW s \in Socket, Join(s)
      PROVE  QueueMoves
  <2>1. /\ Granted(s) /\ pc[s] = "joining" /\ queue' = WithoutTasks(Tail(queue), {Owner(s)})
        /\ pc'[s] \in {"greeting", "closing"}
    BY <1>0, <1>7, JoinsMoves DEF Join, Joins
  <2>2. queue' \in Seq(Thread) /\ Rests(queue', Tail(queue))
    BY <1>1, <1>2, <1>3, <2>1
  <2> QED
    BY <1>3, <2>1, <2>2, GrantedQueue
<1>8. ASSUME NEW s \in Socket, Receive(s)
      PROVE  QueueMoves
  <2>1. CASE LockIdle
    BY <1>4, <1>8, <2>1, IdleQueue DEF Receive, Commands
  <2>2. CASE ~LockIdle
    <3>1. queue' = Append(queue, s) /\ pc'[s] # "unopened"
      BY <1>0, <1>8, <2>2, OneMoves DEF Receive, Enqueue
    <3> QED
      BY <1>0, <1>3, <3>1, WaitingQueue
  <2> QED
    BY <2>1, <2>2
<1>9. ASSUME NEW s \in Socket, Command(s)
      PROVE  QueueMoves
  <2>1. Granted(s) /\ pc[s] = "queued" /\ queue' = Tail(queue)
    BY <1>9 DEF Command, Commands
  <2>2. Tail(queue) \in Seq(Thread) /\ Rests(Tail(queue), Tail(queue))
    BY <1>1, <1>3, <2>1
  <2> QED
    BY <1>3, <2>1, <2>2, GrantedQueue
<1>10. ASSUME NEW s \in Socket, Lose(s) \/ Notice(s)
       PROVE  QueueMoves
  BY <1>4, <1>10 DEF Lose, Notice
<1>11. \A s \in Socket : {Owner(s)} \intersect member \in SUBSET Player
  BY DEF Inv, TypeOK
<1>12. ASSUME NEW s \in Socket, End(s)
       PROVE  QueueMoves
  <2>1. CASE queue' = queue
    BY <1>4, <2>1
  <2>2. CASE LockIdle /\ MarksSelf(s, <<>>)
    <3>1. queue' = WithoutTasks(queue, {Owner(s)} \intersect member)
      BY <2>2, IdleQueue DEF MarksSelf
    <3>2. queue' \in Seq(Thread) /\ Rests(queue', queue)
      BY <1>0, <1>2, <1>11, <3>1
    <3> QED
      BY <3>2, WaitingQueue
  <2>3. CASE queue' = Append(queue, s)
    <3>1. \E x \in {"marking", "farewell", "ended"} : pc' = [pc EXCEPT ![s] = x]
      BY <1>12 DEF End, MarksSelf
    <3>2. pc'[s] # "unopened"
      BY <1>0, <3>1, OneMoves
    <3> QED
      BY <1>0, <1>3, <2>3, <3>2, WaitingQueue
  <2> QED
    BY <1>12, <2>1, <2>2, <2>3 DEF End, Enqueue
<1>13. ASSUME NEW s \in Socket, MarkEnded(s)
       PROVE  QueueMoves
  <2>1. /\ Granted(s) /\ pc[s] = "marking"
        /\ queue' = WithoutTasks(Tail(queue), {Owner(s)} \intersect member)
        /\ \E x \in {"farewell", "ended"} : pc' = [pc EXCEPT ![s] = x]
    BY <1>13 DEF MarkEnded, MarksSelf
  <2>2. pc'[s] # pc[s]
    BY <1>0, <2>1, OneMoves
  <2>3. queue' \in Seq(Thread) /\ Rests(queue', Tail(queue))
    BY <1>1, <1>2, <1>3, <1>11, <2>1
  <2> QED
    BY <1>3, <2>1, <2>2, <2>3, GrantedQueue
<1>14. ASSUME NEW s \in Socket, CommandMarks(s)
       PROVE  QueueMoves
  <2>1. Lost(s) \in SUBSET Player
    BY <1>3, <1>14, LostPlayers DEF CommandMarks
  <2>2. Markable(Lost(s)) \in SUBSET Player
    BY <2>1, MarkablePlayers
  <2>3. queue' = WithoutTasks(queue, Markable(Lost(s)))
    BY <1>14 DEF CommandMarks
  <2>4. queue' \in Seq(Thread) /\ Rests(queue', queue)
    BY <1>0, <1>2, <2>2, <2>3
  <2> QED
    BY <2>4, WaitingQueue
<1>15. ASSUME NEW t \in Timer, Wake(t)
       PROVE  QueueMoves
  <2>1. t \in Thread /\ t \notin Socket
    BY ThreadKinds
  <2>2. queue' = queue \/ queue' = Append(queue, t)
    BY <1>15, IdleQueue DEF Wake, Expires, Enqueue
  <2> QED
    BY <1>0, <1>4, <2>1, <2>2, WaitingQueue
<1>16. ASSUME NEW t \in Timer, Expire(t)
       PROVE  QueueMoves
  <2>1. t \in Thread /\ t \notin Socket
    BY ThreadKinds
  <2>2. Granted(t) /\ queue' = Tail(queue)
    BY <1>16 DEF Expire, Expires
  <2>3. Tail(queue) \in Seq(Thread) /\ Rests(Tail(queue), Tail(queue))
    BY <1>1, <2>1, <2>2
  <2> QED
    BY <2>1, <2>2, <2>3, GrantedQueue
<1>17. RestMarks \/ (\E p \in Player : LeaveByRest(p)) \/ UNCHANGED vars => QueueMoves
  BY <1>4 DEF RestMarks, LeaveByRest, vars
<1>18. /\ \A s \in Socket : s \in Thread
       /\ \A t \in Timer : t \in Thread
       /\ Rest \in Thread
  BY ThreadKinds
<1> QED
  BY <1>6, <1>7, <1>8, <1>9, <1>10, <1>12, <1>13, <1>14, <1>15, <1>16, <1>17, <1>18,
     BroadcastQueue, Zenon DEF Next, Client, EndpointStep, TimerStep, RestStep

\* A thread that waits keeps its place before those who come later.
LEMMA StillBefore ==
  ASSUME Inv, [Next]_vars, NEW s \in Socket, NEW X, Before(queue, s, X),
         pc[s] \in {"joining", "marking"}, pc'[s] = pc[s]
  PROVE  Before(queue', s, X)
<1>1. PICK q, w \in Seq(Thread) :
        /\ \/ q = queue
           \/ /\ queue # <<>> /\ q = Tail(queue)
              /\ Head(queue) \in Socket /\ pc[Head(queue)] \in {"joining", "marking"} =>
                   pc'[Head(queue)] # pc[Head(queue)]
        /\ Rests(w, q)
        /\ \/ queue' = w
           \/ \E t \in Thread : queue' = Append(w, t) /\ (t \in Socket => pc'[t] # "unopened")
  BY QueueSteps, Zenon DEF QueueMoves
<1>2. queue \in Seq(Thread)
  BY DEF Inv, TypeOK
<1>3. Before(q, s, X)
  <2>1. CASE q = queue
    BY <2>1
  <2>2. CASE q # queue
    <3>1. Head(queue) # s /\ q = Tail(queue)
      BY <1>1, <2>2
    <3> QED
      BY <1>2, <3>1, BeforeTail
  <2> QED
    BY <2>1, <2>2
<1>4. Before(w, s, X)
  <2>1. \A S \in SUBSET Player : Tasks(S) \subseteq Timer
    BY Cancelling DEF Inv
  <2>2. CASE w = q
    BY <1>3, <2>2
  <2>3. CASE \E S \in SUBSET Player : w = WithoutTasks(q, S)
    BY <1>3, <2>1, <2>3, BeforeWithoutTasks
  <2> QED
    BY <1>1, <2>2, <2>3 DEF Rests
<1> QED
  BY <1>1, <1>4, BeforeAppend

\* Whoever waits has waited, or has been opened.
LEMMA WaitersAreOpened ==
  ASSUME Inv, [Next]_vars, NEW i \in 1 .. Len(queue'), queue'[i] \in Socket
  PROVE  \/ \E j \in 1 .. Len(queue) : queue'[i] = queue[j]
         \/ pc'[queue'[i]] # "unopened"
<1>1. PICK q, w \in Seq(Thread) :
        /\ \/ q = queue
           \/ /\ queue # <<>> /\ q = Tail(queue)
              /\ Head(queue) \in Socket /\ pc[Head(queue)] \in {"joining", "marking"} =>
                   pc'[Head(queue)] # pc[Head(queue)]
        /\ Rests(w, q)
        /\ \/ queue' = w
           \/ \E t \in Thread : queue' = Append(w, t) /\ (t \in Socket => pc'[t] # "unopened")
  BY QueueSteps, Zenon DEF QueueMoves
<1>2. queue \in Seq(Thread) /\ Len(queue) \in Nat
  BY LenProperties DEF Inv, TypeOK
<1>3. \A j \in 1 .. Len(q) : \E m \in 1 .. Len(queue) : q[j] = queue[m]
  <2>1. CASE q = queue
    BY <2>1
  <2>2. CASE queue # <<>> /\ q = Tail(queue)
    <3>1. Len(q) = Len(queue) - 1 /\ \A k \in 1 .. Len(q) : q[k] = queue[k + 1]
      BY <1>2, <2>2, HeadTailProperties
    <3>2. \A k \in 1 .. Len(q) : k + 1 \in 1 .. Len(queue)
      BY <1>2, <3>1
    <3> QED
      BY <3>1, <3>2
  <2> QED
    BY <1>1, <2>1, <2>2
<1>4. \A j \in 1 .. Len(w) : \E m \in 1 .. Len(q) : w[j] = q[m]
  <2>1. CASE w = q
    BY <2>1
  <2>2. CASE \E S \in SUBSET Player : w = WithoutTasks(q, S)
    <3>1. PICK S \in SUBSET Player : w = WithoutTasks(q, S)
      BY <2>2
    <3>2. Kept(w, q, S)
      BY <3>1, RestOfQueue
    <3> QED
      BY <3>2 DEF Kept
  <2> QED
    BY <1>1, <2>1, <2>2 DEF Rests
<1>5. CASE queue' = w
  BY <1>3, <1>4, <1>5
<1>6. ASSUME NEW t \in Thread, queue' = Append(w, t), t \in Socket => pc'[t] # "unopened"
      PROVE  \/ \E j \in 1 .. Len(queue) : queue'[i] = queue[j]
             \/ pc'[queue'[i]] # "unopened"
  <2> DEFINE v == Append(w, t)
  <2>1. Len(w) \in Nat /\ Len(v) = Len(w) + 1 /\ v[Len(w) + 1] = t /\ \A k \in 1 .. Len(w) : v[k] = w[k]
    BY AppendProperties, LenProperties
  <2>2. v = queue'
    BY <1>6
  <2> HIDE DEF v
  <2>3. CASE i = Len(w) + 1
    BY <1>6, <2>1, <2>2, <2>3
  <2>4. CASE i # Len(w) + 1
    <3>1. i \in 1 .. Len(w)
      BY <2>1, <2>2, <2>4
    <3> QED
      BY <1>3, <1>4, <2>1, <2>2, <3>1
  <2> QED
    BY <2>3, <2>4
<1> QED
  BY <1>1, <1>5, <1>6
-----------------------------------------------------------------------------
(***************************************************************************)
(* A player's sockets in their order.                                      *)
(***************************************************************************)

\* The sockets the player of s opens after s.
LaterThan(s) == {r \in Socket : Owner(r) = Owner(s) /\ r[3] > s[3]}

\* Sockets are opened in their order, the registered one is the last that was,
\* and whoever waits to mark its player absent waits before all later sockets,
\* of which none has joined.
OrderInv ==
  /\ \A r, s \in Socket : s \in LaterThan(r) /\ pc[s] # "unopened" => pc[r] # "unopened"
  /\ \A p \in Player : registry[p] # None => \A r \in LaterThan(registry[p]) : pc[r] = "unopened"
  /\ \A i \in 1 .. Len(queue) : queue[i] \in Socket => pc[queue[i]] # "unopened"
  /\ \A s \in Socket : pc[s] = "marking" =>
       /\ Before(queue, s, LaterThan(s))
       /\ \A r \in LaterThan(s) : pc[r] \in {"unopened", "registered", "joining"}

\* With the lock taken, or somebody waiting, a new socket has to wait.
LEMMA NewSocketsWait ==
  ASSUME TypeOK, NEW r \in Socket, queue # <<>>, Open(r) \/ PreviousClosed(r)
  PROVE  pc'[r] \in {"registered", "joining"}
<1>1. ~LockIdle
  BY DEF LockIdle
<1>2. GoJoin(r) => pc'[r] = "joining"
  BY <1>1, OneMoves DEF GoJoin
<1>3. pc' = [pc EXCEPT ![r] = "registered"] => pc'[r] = "registered"
  BY OneMoves
<1> QED
  BY <1>2, <1>3 DEF Open, PreviousClosed

LEMMA OrderKept ==
  ASSUME Inv, RegisteredRun, OrderInv, [Next]_vars
  PROVE  OrderInv'
<1>1. \A s \in Socket : Moves(s)
  BY EndpointsMove
<1>2. TypeOK /\ queue \in Seq(Thread) /\ Len(queue) \in Nat
  BY LenProperties DEF Inv, TypeOK
<1>3. \A s \in Socket : Owner(s) \in Player /\ s[3] \in Nat /\ s \in Thread /\ s \notin LaterThan(s)
  BY ThreadKinds DEF LaterThan
<1>4. \A s \in Socket : pc[s] # "unopened" => pc'[s] # "unopened"
  BY <1>1 DEF Moves
<1>5. \A s \in Socket : pc[s] = "unopened" /\ pc'[s] # "unopened" => Open(s)
  BY <1>1 DEF Moves
<1>6. ASSUME NEW s \in Socket, Open(s)
      PROVE  /\ pc[s] = "unopened"
             /\ \A r \in Socket : s \in LaterThan(r) => pc[r] # "unopened"
             /\ registry' = [registry EXCEPT ![Owner(s)] = s]
             /\ \A r \in Socket : r # s => pc'[r] = pc[r]
  <2>1. /\ pc[s] = "unopened" /\ registry' = [registry EXCEPT ![Owner(s)] = s]
        /\ \A r \in Socket : Owner(r) = Owner(s) /\ r[3] < s[3] => pc[r] # "unopened"
    BY <1>6 DEF Open
  <2>2. \A r \in Socket : s \in LaterThan(r) => Owner(r) = Owner(s) /\ r[3] < s[3]
    BY <1>3 DEF LaterThan
  <2>3. \A r \in Socket : r # s => pc'[r] = pc[r]
    BY <1>2, <1>6, GoJoinMoves, OneMoves DEF Open
  <2> QED
    BY <2>1, <2>2, <2>3
<1>7. \A r, s \in Socket : s \in LaterThan(r) /\ pc'[s] # "unopened" => pc'[r] # "unopened"
  BY <1>4, <1>5, <1>6 DEF OrderInv
<1>8. \A p \in Player : registry'[p] # None => \A r \in LaterThan(registry'[p]) : pc'[r] = "unopened"
  <2>0. /\ registry \in [Player -> Socket \union {None}]
        /\ \A p \in Player : registry[p] # None => Owner(registry[p]) = p
    BY DEF Inv, TypeOK, RegisteredRun
  <2>1. ASSUME NEW s \in Socket, Open(s)
        PROVE  \A p \in Player : registry'[p] # None => \A r \in LaterThan(registry'[p]) : pc'[r] = "unopened"
    <3> TAKE p \in Player
    <3> HAVE registry'[p] # None
    <3> TAKE r \in LaterThan(registry'[p])
    <3>1. r \in Socket
      BY DEF LaterThan
    <3>2. CASE p = Owner(s)
      <4>1. registry'[p] = s
        BY <1>3, <1>6, <2>0, <2>1, <3>2
      <4>2. r # s /\ r \in LaterThan(s)
        BY <1>3, <4>1
      <4> QED
        BY <1>6, <2>1, <3>1, <4>2 DEF OrderInv
    <3>3. CASE p # Owner(s)
      <4>1. registry'[p] = registry[p]
        BY <1>3, <1>6, <2>0, <2>1, <3>3
      <4>2. Owner(r) = p
        BY <2>0, <4>1 DEF LaterThan
      <4>3. r # s
        BY <3>3, <4>2
      <4> QED
        BY <1>6, <2>1, <3>1, <4>1, <4>3 DEF OrderInv
    <3> QED
      BY <3>2, <3>3
  <2>2. ASSUME \A s \in Socket : ~Open(s)
        PROVE  \A p \in Player : registry'[p] # None => \A r \in LaterThan(registry'[p]) : pc'[r] = "unopened"
    <3>1. \A p \in Player : registry'[p] \in {registry[p], None}
      <4>1. CASE RegistryStays
        BY <4>1 DEF RegistryStays
      <4>2. CASE \E s \in Socket : End(s)
        BY <1>3, <2>0, <4>2 DEF End, Forget
      <4>3. CASE \E p \in Player : LeaveByRest(p)
        BY <2>0, <4>3 DEF LeaveByRest
      <4>4. CASE \E t \in Thread : SendEnds(t, FALSE)
        BY <2>0, <4>4 DEF SendEnds
      <4> QED
        BY <2>2, <4>1, <4>2, <4>3, <4>4, RegistrySteps
    <3>2. \A r \in Socket : pc[r] = "unopened" => pc'[r] = "unopened"
      BY <1>5, <2>2
    <3>3. \A s \in Socket : LaterThan(s) \subseteq Socket
      BY DEF LaterThan
    <3> QED
      BY <2>0, <3>1, <3>2, <3>3 DEF OrderInv
  <2> QED
    BY <2>1, <2>2
<1>9. \A i \in 1 .. Len(queue') : queue'[i] \in Socket => pc'[queue'[i]] # "unopened"
  <2> TAKE i \in 1 .. Len(queue')
  <2> HAVE queue'[i] \in Socket
  <2>1. CASE pc'[queue'[i]] # "unopened"
    BY <2>1
  <2>2. CASE \E j \in 1 .. Len(queue) : queue'[i] = queue[j]
    BY <1>4, <2>2 DEF OrderInv
  <2> QED
    BY <2>1, <2>2, WaitersAreOpened
<1>10. ASSUME NEW s \in Socket, pc'[s] = "marking", pc[s] = "marking"
       PROVE  /\ Before(queue', s, LaterThan(s))
              /\ \A r \in LaterThan(s) : pc'[r] \in {"unopened", "registered", "joining"}
  <2>1. Before(queue, s, LaterThan(s)) /\ \A r \in LaterThan(s) : pc[r] \in {"unopened", "registered", "joining"}
    BY <1>10 DEF OrderInv
  <2>2. Before(queue', s, LaterThan(s))
    BY <1>10, <2>1, StillBefore
  <2>3. queue # <<>> /\ Head(queue) \notin LaterThan(s)
    BY <1>2, <2>1, BeforeTail
  <2>4. ASSUME NEW r \in LaterThan(s)
        PROVE  pc'[r] \in {"unopened", "registered", "joining"}
    <3>1. r \in Socket /\ Moves(r) /\ pc[r] \in {"unopened", "registered", "joining"}
      BY <1>1, <2>1 DEF LaterThan
    <3>2. ~Join(r)
      BY <2>3 DEF Join, Granted
    <3>3. Open(r) \/ PreviousClosed(r) => pc'[r] \in {"registered", "joining"}
      BY <1>2, <2>3, <3>1, NewSocketsWait
    <3> QED
      BY <3>1, <3>2, <3>3 DEF Moves
  <2> QED
    BY <2>2, <2>4
<1>11. ASSUME NEW s \in Socket, pc'[s] = "marking", pc[s] # "marking"
       PROVE  /\ Before(queue', s, LaterThan(s))
              /\ \A r \in LaterThan(s) : pc'[r] \in {"unopened", "registered", "joining"}
  <2>1. End(s)
    <3>1. Moves(s)
      BY <1>1
    <3> QED
      BY <1>11, <3>1 DEF Moves
  <2>2. Active(s) /\ ~LockIdle /\ queue' = Append(queue, s) /\ pc' = [pc EXCEPT ![s] = "marking"]
    <3>1. CASE Active(s) /\ Owner(s) \in member /\ LockIdle
      <4>1. \E x \in {"farewell", "ended"} : pc' = [pc EXCEPT ![s] = x]
        BY <2>1, <3>1 DEF End, MarksSelf
      <4> QED
        BY <1>2, <1>11, <4>1, OneMoves
    <3>2. CASE Active(s) /\ Owner(s) \in member /\ ~LockIdle
      BY <2>1, <3>2 DEF End, Enqueue
    <3>3. CASE ~ (Active(s) /\ Owner(s) \in member)
      <4>1. pc' = [pc EXCEPT ![s] = "ended"]
        BY <2>1, <3>3 DEF End
      <4> QED
        BY <1>2, <1>11, <4>1, OneMoves
    <3> QED
      BY <3>1, <3>2, <3>3
  <2>3. \A r \in LaterThan(s) : r \in Socket /\ r # s /\ pc[r] = "unopened"
    <3>1. registry[Owner(s)] = s /\ s # None /\ Owner(s) \in Player
      BY <1>3, <2>2, ThreadKinds DEF Active
    <3> QED
      BY <1>3, <3>1 DEF OrderInv, LaterThan
  <2>4. \A j \in 1 .. Len(queue) : queue[j] \notin LaterThan(s)
    BY <2>3 DEF OrderInv
  <2>5. /\ Len(queue') = Len(queue) + 1 /\ queue'[Len(queue) + 1] = s
        /\ \A j \in 1 .. Len(queue) : queue'[j] = queue[j]
    BY <1>2, <1>3, <2>2, AppendProperties
  <2>6. Len(queue) + 1 \in 1 .. Len(queue') /\ \A j \in 1 .. Len(queue) + 1 : queue'[j] \notin LaterThan(s)
    <3>1. \A j \in 1 .. Len(queue) + 1 : j \in 1 .. Len(queue) \/ j = Len(queue) + 1
      BY <1>2
    <3>2. Len(queue) + 1 \in 1 .. Len(queue')
      BY <1>2, <2>5
    <3> QED
      BY <1>3, <2>4, <2>5, <3>1, <3>2
  <2>7. Before(queue', s, LaterThan(s))
    BY <2>5, <2>6 DEF Before
  <2>8. \A r \in Socket : r # s => pc'[r] = pc[r]
    BY <1>2, <2>2, OneMoves
  <2> QED
    BY <2>3, <2>7, <2>8
<1> QED
  BY <1>7, <1>8, <1>9, <1>10, <1>11 DEF OrderInv, Before, LaterThan

LEMMA InitOrder ==
  ASSUME Init
  PROVE  OrderInv
<1>1. pc = [s \in Socket |-> "unopened"] /\ registry = [p \in Player |-> None] /\ queue = <<>>
  BY DEF Init
<1>2. \A i \in 1 .. Len(queue) : FALSE
  BY <1>1
<1>3. \A s \in Socket : pc[s] = "unopened"
  BY <1>1
<1>4. \A p \in Player : registry[p] = None
  BY <1>1
<1> QED
  BY <1>2, <1>3, <1>4 DEF OrderInv

THEOREM OrderHolds == Spec => []OrderInv
<1>1. Init => OrderInv
  BY InitOrder
<1>2. Inv /\ RegisteredRun /\ OrderInv /\ [Next]_vars => OrderInv'
  BY OrderKept
<1> QED
  BY <1>1, <1>2, InvHolds, RegisteredSocketsRun, PTL DEF Spec

\* The clean-up of an endpoint whose player has a newer socket comes before that
\* socket joins: it never marks absent whom the newer one has marked connected.
THEOREM CleanupIsFirst == Spec => []CleanupPrecedesReturn
<1>1. OrderInv => CleanupPrecedesReturn
  <2> SUFFICES ASSUME OrderInv, NEW s \in Socket, NEW r \in Socket,
                      Owner(s) = Owner(r), s[3] < r[3], pc[s] = "marking"
               PROVE  pc[r] \in {"unopened", "registered", "joining"}
    BY DEF CleanupPrecedesReturn
  <2>1. r \in LaterThan(s)
    BY ThreadKinds DEF LaterThan
  <2> QED
    BY <2>1 DEF OrderInv
<1> QED
  BY <1>1, OrderHolds, PTL
-----------------------------------------------------------------------------
(***************************************************************************)
(* One served socket, when no send fails.                                  *)
(***************************************************************************)

\* The open socket of a player is the registered one, unless the player left.
OpenInv ==
  /\ \A s \in open : registry[Owner(s)] = s \/ Owner(s) \notin member
  /\ \A r, s \in open : Owner(r) = Owner(s) => r = s

LEMMA OpenKept ==
  ASSUME Inv, OpenInv, Lossy = {}, [Next]_vars
  PROVE  OpenInv'
<1>1. /\ registry \in [Player -> Socket \union {None}] /\ open \subseteq Socket
      /\ \A s \in Socket : Owner(s) \in Player
  BY ThreadKinds DEF Inv, TypeOK
<1> HIDE DEF Owner
<1>2. CASE RegistryStays
  BY <1>2 DEF OpenInv, RegistryStays
<1>3. ASSUME NEW s \in Socket, Open(s)
      PROVE  OpenInv'
  <2>1. /\ Owner(s) \in member /\ registry' = [registry EXCEPT ![Owner(s)] = s]
        /\ open' = (open \union {s}) \ {registry[Owner(s)]}
        /\ member' = member
    BY <1>3 DEF Open, OpenAfter, GoJoin, Joins, flags
  <2>2. \A r \in open' : Owner(r) = Owner(s) => r = s
    BY <1>1, <2>1 DEF OpenInv
  <2>3. \A r \in open' : Owner(r) # Owner(s) => r \in open /\ registry'[Owner(r)] = registry[Owner(r)]
    BY <1>1, <2>1
  <2>4. registry'[Owner(s)] = s
    BY <1>1, <2>1
  <2> QED
    BY <2>1, <2>2, <2>3, <2>4 DEF OpenInv
<1>4. ASSUME NEW s \in Socket, End(s)
      PROVE  OpenInv'
  <2>1. registry' = Forget(registry, s) /\ open' = open \ {s} /\ member' = member
    BY <1>4 DEF End, MarksSelf, flags
  <2>2. \A r \in open' : registry[Owner(r)] = r => registry'[Owner(r)] = r
    BY <1>1, <2>1 DEF Forget
  <2> QED
    BY <2>1, <2>2 DEF OpenInv
<1>5. ASSUME NEW p \in Player, LeaveByRest(p)
      PROVE  OpenInv'
  <2>1. member' = member \ {p} /\ registry' = [registry EXCEPT ![p] = None] /\ open' = open
    BY <1>5 DEF LeaveByRest
  <2> QED
    BY <1>1, <2>1 DEF OpenInv
<1>6. \A t \in Thread : ~SendEnds(t, FALSE)
  BY DEF SendEnds
<1> QED
  BY <1>2, <1>3, <1>4, <1>5, <1>6, RegistrySteps

\* When no send fails, a player has one open socket at most, and so is served on
\* one: connect closes the one before.
THEOREM OneIsServed ==
  ASSUME Lossy = {}
  PROVE  Spec => []OneSocketServed
<1>1. Init => OpenInv
  BY DEF Init, OpenInv
<1>2. Inv /\ OpenInv /\ [Next]_vars => OpenInv'
  BY OpenKept
<1>3. OpenInv => OneSocketServed
  BY DEF OpenInv, OneSocketServed
<1> QED
  BY <1>1, <1>2, <1>3, InvHolds, PTL DEF Spec

\* An open socket that is not registered: nothing is sent to it, its player may
\* open another beside it, and its end marks nobody.
Forgotten(s) == s \in open /\ registry[Owner(s)] # s

\* Whatever sends fail: an open socket is forgotten only by a send that failed
\* on it, or when its player leaves by REST.  A replacement closes it, and the end
\* of another socket of its player leaves it registered.
THEOREM OnlyFailuresForget ==
  Spec => [][\A s \in Socket : Forgotten(s)' =>
               \/ Forgotten(s)
               \/ \E t \in Thread : SendEnds(t, FALSE) /\ cast[t].via = s
               \/ LeaveByRest(Owner(s))]_vars
<1> DEFINE Reason(s) == \/ Forgotten(s)
                        \/ \E t \in Thread : SendEnds(t, FALSE) /\ cast[t].via = s
                        \/ LeaveByRest(Owner(s))
<1>1. ASSUME Inv, [Next]_vars, NEW s \in Socket, Forgotten(s)'
      PROVE  Reason(s)
  <2>1. /\ registry \in [Player -> Socket \union {None}] /\ open \subseteq Socket
        /\ \A r \in Socket : Owner(r) \in Player
    BY <1>1, ThreadKinds DEF Inv, TypeOK
  <2> HIDE DEF Owner
  <2>2. CASE RegistryStays
    BY <1>1, <2>2 DEF Forgotten, RegistryStays
  <2>3. ASSUME NEW r \in Socket, Open(r)
        PROVE  Reason(s)
    <3>1. /\ registry' = [registry EXCEPT ![Owner(r)] = r]
          /\ open' = (open \union {r}) \ {registry[Owner(r)]}
      BY <2>3 DEF Open, OpenAfter
    <3>2. s # r
      BY <1>1, <2>1, <3>1 DEF Forgotten
    <3> QED
      BY <1>1, <2>1, <3>1, <3>2 DEF Forgotten
  <2>4. ASSUME NEW r \in Socket, End(r)
        PROVE  Reason(s)
    <3>1. registry' = Forget(registry, r) /\ open' = open \ {r}
      BY <2>4 DEF End
    <3> QED
      BY <1>1, <2>1, <3>1 DEF Forgotten, Forget
  <2>5. ASSUME NEW p \in Player, LeaveByRest(p)
        PROVE  Reason(s)
    <3>1. registry' = [registry EXCEPT ![p] = None] /\ open' = open
      BY <2>5 DEF LeaveByRest
    <3>2. CASE Owner(s) = p
      BY <2>5, <3>2
    <3>3. CASE Owner(s) # p
      BY <1>1, <2>1, <3>1, <3>3 DEF Forgotten
    <3> QED
      BY <3>2, <3>3
  <2>6. ASSUME NEW t \in Thread, SendEnds(t, FALSE)
        PROVE  Reason(s)
    <3> DEFINE c == cast[t]
    <3>1. /\ registry' = IF registry[c.to] # c.via THEN registry
                         ELSE [registry EXCEPT ![c.to] = None]
          /\ open' = open
      BY <2>6 DEF SendEnds
    <3> HIDE DEF c
    <3>2. CASE registry[c.to] = c.via /\ Owner(s) = c.to
      <4>1. CASE registry[Owner(s)] = s
        <5>1. cast[t].via = s
          BY <3>2, <4>1 DEF c
        <5> QED
          BY <2>6, <5>1
      <4>2. CASE registry[Owner(s)] # s
        BY <1>1, <3>1, <4>2 DEF Forgotten
      <4> QED
        BY <4>1, <4>2
    <3>3. CASE ~(registry[c.to] = c.via /\ Owner(s) = c.to)
      <4>1. registry'[Owner(s)] = registry[Owner(s)]
        BY <2>1, <3>1, <3>3
      <4> QED
        BY <1>1, <3>1, <4>1 DEF Forgotten
    <3> QED
      BY <3>2, <3>3
  <2> QED
    BY <1>1, <2>2, <2>3, <2>4, <2>5, <2>6, RegistrySteps
<1>2. Inv /\ [Next]_vars => [\A s \in Socket : Forgotten(s)' => Reason(s)]_vars
  BY <1>1
<1> QED
  BY <1>2, InvHolds, PTL DEF Spec

-----------------------------------------------------------------------------
(***************************************************************************)
(* Every absence is timed, but for those that a REST call's marks begin.   *)
(***************************************************************************)

\* Without calls of leave there are no broadcasts of REST calls.
NoRest == member = Player /\ cast[Rest] = NoCast

Timed(p) == ~Untimed(p)

\* The flags and the task of p stay, or p is excluded.
LEMMA StaysTimed ==
  ASSUME NEW p, Timed(p),
         member' \subseteq member, p \in present => p \in present', p \in excluded => p \in excluded',
         epoch'[p] = epoch[p], entry'[p] = entry[p] \/ p \in excluded'
  PROVE  Timed(p)'
  BY DEF Timed, Untimed

LEMMA MarkedTimed ==
  ASSUME Inv, NEW S \in SUBSET Player, NEW p \in Player, Timed(p),
         present' = present \ S, UNCHANGED <<member, excluded, epoch>>,
         entry'[p] = EntryAfter(S)[p] \/ p \in excluded
  PROVE  Timed(p)'
<1>1. p \in S => EntryAfter(S)[p] # None
  BY Restarting, ThreadKinds DEF Inv
<1>2. p \notin S => EntryAfter(S)[p] = entry[p]
  BY Restarting DEF Inv
<1> QED
  BY <1>1, <1>2 DEF Timed, Untimed

LEMMA MarksTimed ==
  ASSUME Inv, NEW t \in Thread, NEW stale, NEW S \in SUBSET Player, NEW q, Marks(t, stale, S, q),
         t \in Timer => timer[t].at = "announcing",
         NEW p \in Player, Timed(p)
  PROVE  Timed(p)'
<1> DEFINE first   == {Min(S)} \intersect member
           waiting == WithoutTasks(q, first)
           batch   == IF waiting = <<>> THEN Markable(S) ELSE first
           raises  == S \ batch # {} /\ (waiting = <<>> \/ batch = {})
<1>1. /\ present' = present \ batch /\ UNCHANGED <<member, excluded, epoch>>
      /\ entry' = [r \in Player |-> IF raises /\ entry[r] = t THEN None ELSE EntryAfter(batch)[r]]
  BY DEF Marks
<1>2. batch \in SUBSET Player
  BY MarkablePlayers DEF Inv, TypeOK
<1> HIDE DEF first, batch, raises
<1>3. entry[p] = t => p \in excluded
  <2> SUFFICES ASSUME entry[p] = t
               PROVE  p \in excluded
    OBVIOUS
  <2>1. TaskOf(p) /\ t # None
    BY ThreadKinds DEF Inv, TasksOK
  <2>2. t \in Timer /\ Owner(t) = p
    BY <2>1 DEF TaskOf
  <2> QED
    BY <2>1, <2>2 DEF TaskOf
<1> QED
  BY <1>1, <1>2, <1>3, MarkedTimed

LEMMA JoinsTimed ==
  ASSUME Inv, NEW s \in Socket, NEW q, Joins(s, q), NEW p \in Player, Timed(p)
  PROVE  Timed(p)'
<1>1. entry \in [Player -> Timer \union {None}] /\ epoch \in [Player -> Nat]
  BY DEF Inv, TypeOK
<1> HIDE DEF Owner
<1>2. CASE Owner(s) \in member
  <2>1. /\ present' = present \union {Owner(s)} /\ excluded' = excluded \ {Owner(s)}
        /\ epoch' = [epoch EXCEPT ![Owner(s)] = @ + 1]
        /\ entry' = [entry EXCEPT ![Owner(s)] = None] /\ member' = member
    BY <1>2 DEF Joins
  <2>2. CASE p = Owner(s)
    BY <2>1, <2>2 DEF Timed, Untimed
  <2>3. CASE p # Owner(s)
    BY <1>1, <2>1, <2>3 DEF Timed, Untimed
  <2> QED
    BY <2>2, <2>3
<1>3. CASE Owner(s) \notin member
  <2>1. /\ UNCHANGED <<member, present, excluded, epoch>>
        /\ entry' = [entry EXCEPT ![Owner(s)] = None]
    BY <1>3 DEF Joins
  <2>2. CASE p = Owner(s)
    BY <1>3, <2>1, <2>2 DEF Timed, Untimed
  <2>3. CASE p # Owner(s)
    BY <1>1, <2>1, <2>3 DEF Timed, Untimed
  <2> QED
    BY <2>2, <2>3
<1> QED
  BY <1>2, <1>3

LEMMA ExpiresTimed ==
  ASSUME Inv, NEW t \in Timer, NEW q, Expires(t, q), timer[t] # NoTimer, NEW p \in Player, Timed(p)
  PROVE  Timed(p)'
<1>1. entry \in [Player -> Timer \union {None}] /\ Owner(t) \in Player
  BY ThreadKinds DEF Inv, TypeOK
<1>2. UNCHANGED <<member, present, epoch>>
  BY DEF Expires
<1>3. timer[t].epoch = epoch[Owner(t)] /\ Owner(t) \notin present
  BY <1>1 DEF Inv, TasksOK, TaskOf
<1> HIDE DEF Owner
<1>4. CASE StillAbsent(t)
  BY <1>2, <1>4, StaysTimed DEF Expires
<1>5. CASE ~StillAbsent(t)
  <2>1. Owner(t) \notin member
    BY <1>3, <1>5 DEF StillAbsent
  <2>2. excluded' = excluded /\ (p # Owner(t) => entry'[p] = entry[p])
    BY <1>1, <1>5 DEF Expires
  <2> QED
    BY <1>2, <2>1, <2>2 DEF Timed, Untimed
<1> QED
  BY <1>4, <1>5

LEMMA BroadcastTimed ==
  ASSUME Inv, NEW t \in Thread, BroadcastStep(t), NEW p \in Player, Timed(p)
  PROVE  Timed(p)'
<1>1. CASE SendBegins(t) \/ \E sent \in BOOLEAN : SendEnds(t, sent)
  BY <1>1, StaysTimed DEF SendBegins, SendEnds, flags, timers
<1>2. CASE CastOver(t)
  <2>1. UNCHANGED flags /\ cast[t] # NoCast
    BY <1>2, Records DEF CastOver, SendsOver, Lookup
  <2>2. entry'[p] = entry[p] \/ (t \in Timer /\ Owner(t) = p)
    <3>1. entry \in [Player -> Timer \union {None}]
      BY DEF Inv, TypeOK
    <3> HIDE DEF Owner
    <3> QED
      BY <1>2, <3>1 DEF CastOver
  <2>3. t \in Timer /\ Owner(t) = p => p \in excluded
    BY <2>1 DEF Inv, TasksOK, TaskOf
  <2> QED
    BY <2>1, <2>2, <2>3, StaysTimed DEF flags
<1>3. CASE GoMark(t)
  <2>1. SendsOver(t)
    BY <1>3 DEF GoMark
  <2>2. Lost(t) \in SUBSET Player /\ (t \in Timer => timer[t].at = "announcing")
    BY <2>1, LostPlayers
  <2>3. CASE LockIdle
    BY <1>3, <2>2, <2>3, MarksTimed DEF GoMark
  <2>4. CASE ~LockIdle
    BY <1>3, <2>4, StaysTimed DEF GoMark, flags, timers
  <2> QED
    BY <2>3, <2>4
<1>4. CASE MarkLost(t)
  <2>1. cast[t] # NoCast /\ cast[t].unmarked \in SUBSET Player
    BY <1>4, Records, Types DEF MarkLost, Inv
  <2>2. t \in Timer => timer[t].at = "announcing"
    BY <2>1, ThreadKinds DEF Inv, TasksOK, TaskOf
  <2> QED
    BY <1>4, <2>1, <2>2, MarksTimed DEF MarkLost
<1> QED
  BY <1>1, <1>2, <1>3, <1>4 DEF BroadcastStep

\* Every step but the marks of a REST call keeps every absence timed.
LEMMA TimedKept ==
  ASSUME Inv, ~RestMarks, [Next]_vars, NEW p \in Player, Timed(p)
  PROVE  Timed(p)'
<1>1. ASSUME NEW s \in Socket, Open(s) \/ PreviousClosed(s) \/ Join(s)
      PROVE  Timed(p)'
  <2>1. ASSUME GoJoin(s)
        PROVE  Timed(p)'
    <3>1. CASE LockIdle
      BY <2>1, <3>1, JoinsTimed DEF GoJoin
    <3>2. CASE ~LockIdle
      BY <2>1, <3>2, StaysTimed DEF GoJoin, flags, timers
    <3> QED
      BY <3>1, <3>2
  <2>2. CASE Join(s)
    BY <2>2, JoinsTimed DEF Join
  <2>3. CASE Open(s) \/ PreviousClosed(s)
    BY <2>1, <2>3, StaysTimed DEF Open, PreviousClosed, flags, timers
  <2> QED
    BY <1>1, <2>2, <2>3
<1>2. ASSUME NEW s \in Socket, Receive(s) \/ Command(s) \/ Lose(s) \/ Notice(s)
      PROVE  Timed(p)'
  BY <1>2, StaysTimed DEF Receive, Command, Commands, Lose, Notice, flags, timers
<1>3. ASSUME NEW r \in Player, LeaveByRest(r)
      PROVE  Timed(p)'
  BY <1>3, StaysTimed DEF LeaveByRest, timers
<1>4. ASSUME NEW s \in Socket, NEW q, MarksSelf(s, q)
      PROVE  Timed(p)'
  <2>1. {Owner(s)} \intersect member \in SUBSET Player
    BY DEF Inv, TypeOK
  <2> QED
    BY <1>4, <2>1, MarkedTimed DEF MarksSelf
<1>5. ASSUME NEW s \in Socket, End(s) \/ MarkEnded(s)
      PROVE  Timed(p)'
  BY <1>4, <1>5, StaysTimed DEF End, MarkEnded, flags, timers
<1>6. ASSUME NEW s \in Socket, CommandMarks(s)
      PROVE  Timed(p)'
  <2>1. s \in Thread /\ SendsOver(s)
    BY <1>6, ThreadKinds DEF CommandMarks
  <2>2. Markable(Lost(s)) \in SUBSET Player
    BY <2>1, LostPlayers, MarkablePlayers
  <2> QED
    BY <1>6, <2>2, MarkedTimed DEF CommandMarks
<1>7. ASSUME NEW t \in Timer, Wake(t) \/ Expire(t)
      PROVE  Timed(p)'
  <2>1. timer[t] # NoTimer
    BY <1>7, Records DEF Wake, Expire
  <2>2. CASE \E q : Expires(t, q)
    BY <2>1, <2>2, ExpiresTimed
  <2>3. CASE Wake(t) /\ ~LockIdle
    BY <2>3, StaysTimed DEF Wake, flags
  <2> QED
    BY <1>7, <2>2, <2>3 DEF Wake, Expire
<1>8. ASSUME UNCHANGED vars
      PROVE  Timed(p)'
  BY <1>8, StaysTimed DEF vars, flags, timers
<1>9. /\ \A s \in Socket : s \in Thread
      /\ \A t \in Timer : t \in Thread
      /\ Rest \in Thread
  BY ThreadKinds
<1> QED
  BY <1>1, <1>2, <1>3, <1>5, <1>6, <1>7, <1>8, <1>9, BroadcastTimed, Zenon
     DEF Next, Client, EndpointStep, TimerStep, RestStep

\* AbsencesAreTimed, whoever leaves and whatever sends fail.
THEOREM AbsencesRunOut == Spec => AbsencesAreTimed
<1>1. Inv /\ [Next]_vars =>
        [\A p \in Player : Untimed(p)' => Untimed(p) \/ RestMarks]_vars
  BY TimedKept DEF Timed
<1> QED
  BY <1>1, InvHolds, PTL DEF Spec, AbsencesAreTimed

\* The broadcast of another thread goes on as c, and cancels the tasks of S.
LEMMA CastsAfter ==
  ASSUME Inv, NEW S \in SUBSET Player, NEW t \in Thread, NEW c,
         cast' = [CastsWithout(S) EXCEPT ![t] = c]
  PROVE  cast'[t] = c /\ \A u \in Thread \ Timer : u # t => cast'[u] = cast[u]
<1>1. /\ CastsWithout(S) \in [Thread -> CastRecord]
      /\ \A u \in Thread \ Timer : CastsWithout(S)[u] = cast[u]
  BY Cancelling DEF Inv
<1> QED
  BY <1>1

LEMMA MarksCasts ==
  ASSUME Inv, NEW t \in Thread, NEW stale, NEW S \in SUBSET Player, NEW q, Marks(t, stale, S, q)
  PROVE  \A u \in Thread \ Timer : u # t => cast'[u] = cast[u]
<1>1. \E B \in SUBSET Player : \E c : cast' = [CastsWithout(B) EXCEPT ![t] = c]
  <2> DEFINE first   == {Min(S)} \intersect member
             waiting == WithoutTasks(q, first)
             batch   == IF waiting = <<>> THEN Markable(S) ELSE first
             rest    == S \ batch
             raises  == rest # {} /\ (waiting = <<>> \/ batch = {})
             c       == IF raises THEN NoCast
                        ELSE IF rest = {} THEN Informing(member \ stale, stale)
                        ELSE [NoCast EXCEPT !.phase = "mark", !.stale = stale, !.unmarked = rest]
  <2>1. cast' = [CastsWithout(batch) EXCEPT ![t] = c]
    BY DEF Marks
  <2>2. batch \in SUBSET Player
    BY MarkablePlayers DEF Inv, TypeOK
  <2> HIDE DEF batch, c
  <2> QED
    BY <2>1, <2>2
<1>2. PICK B \in SUBSET Player : \E c : cast' = [CastsWithout(B) EXCEPT ![t] = c]
  BY <1>1
<1>3. PICK c : cast' = [CastsWithout(B) EXCEPT ![t] = c]
  BY <1>2
<1> QED
  BY <1>3, CastsAfter

LEMMA NoRestKept ==
  ASSUME Inv, NoRest, Leavers = {}, [Next]_vars
  PROVE  NoRest'
<1>1. Rest \in Thread \ Timer /\ \A s \in Socket : s \in Thread /\ s # Rest
  BY ThreadKinds
<1>2. /\ cast \in [Thread -> CastRecord]
      /\ \A p \in Player : {p} \in SUBSET Player
      /\ \A S \in SUBSET Player : \A u \in Thread \ Timer : CastsWithout(S)[u] = cast[u]
      /\ \A s \in Socket : Owner(s) \in Player /\ {Owner(s)} \intersect member \in SUBSET Player
  BY Types, Cancelling, ThreadKinds DEF Inv
<1> HIDE DEF Owner
<1>3. ASSUME NEW t \in Thread, BroadcastStep(t)
      PROVE  NoRest'
  <2>1. t # Rest
    <3> SUFFICES ASSUME t = Rest
                 PROVE  FALSE
      OBVIOUS
    <3>1. cast[t].phase = "none" /\ cast[t].via = None
      BY Records DEF NoRest
    <3> QED
      BY <1>3, <3>1 DEF BroadcastStep, SendBegins, SendEnds, CastOver, GoMark, MarkLost, SendsOver, Lookup
  <2>2. member' = member
    BY <1>3 DEF BroadcastStep, SendBegins, SendEnds, CastOver, GoMark, MarkLost, Marks, flags
  <2>3. ASSUME NEW stale, NEW S \in SUBSET Player, NEW q, Marks(t, stale, S, q)
        PROVE  cast'[Rest] = cast[Rest]
    BY <1>1, <2>1, <2>3, MarksCasts
  <2>4. CASE SendBegins(t) \/ (\E sent \in BOOLEAN : SendEnds(t, sent)) \/ CastOver(t)
    <3>1. \E c : cast' = [cast EXCEPT ![t] = c]
      BY <2>4, Zenon DEF SendBegins, SendEnds, CastOver
    <3> QED
      BY <1>1, <1>2, <2>1, <2>2, <3>1 DEF NoRest
  <2>5. CASE GoMark(t)
    <3>1. CASE LockIdle
      BY <2>2, <2>3, <2>5, <3>1, LostPlayers DEF GoMark, NoRest
    <3>2. CASE ~LockIdle
      <4>1. \E c : cast' = [cast EXCEPT ![t] = c]
        BY <2>5, <3>2, Zenon DEF GoMark
      <4> QED
        BY <1>1, <1>2, <2>1, <2>2, <4>1 DEF NoRest
    <3> QED
      BY <3>1, <3>2
  <2>6. CASE MarkLost(t)
    BY <2>2, <2>3, <2>6, Types DEF MarkLost, NoRest, Inv
  <2> QED
    BY <1>3, <2>4, <2>5, <2>6 DEF BroadcastStep
<1>4. ASSUME NEW s \in Socket, NEW q, Joins(s, q)
      PROVE  NoRest'
  <2>1. {Owner(s)} \in SUBSET Player
    BY <1>2
  <2>2. member' = member
    BY <1>4 DEF Joins
  <2>3. CASE cast' = [CastsWithout({Owner(s)}) EXCEPT ![s] = Sending(member)]
    BY <1>1, <2>1, <2>2, <2>3, CastsAfter DEF NoRest
  <2>4. CASE cast' = CastsWithout({Owner(s)})
    BY <1>1, <1>2, <2>1, <2>2, <2>4 DEF NoRest
  <2> QED
    BY <1>4, <2>3, <2>4 DEF Joins
<1>5. ASSUME NEW s \in Socket, NEW q, MarksSelf(s, q)
      PROVE  NoRest'
  <2> DEFINE gone == {Owner(s)} \intersect member
  <2>1. gone \in SUBSET Player
    BY <1>2
  <2>2. member' = member /\ (cast' = [CastsWithout(gone) EXCEPT ![s] = Sending(member)]
                             \/ cast' = cast)
    BY <1>5 DEF MarksSelf
  <2> HIDE DEF gone
  <2> QED
    BY <1>1, <2>1, <2>2, CastsAfter DEF NoRest
<1>6. ASSUME NEW s \in Socket, Open(s) \/ PreviousClosed(s) \/ Join(s)
      PROVE  NoRest'
  BY <1>4, <1>6 DEF Open, PreviousClosed, Join, GoJoin, NoRest, flags
<1>7. ASSUME NEW s \in Socket, Receive(s) \/ Command(s) \/ Lose(s) \/ Notice(s)
      PROVE  NoRest'
  <2>1. member' = member /\ (cast' = cast \/ cast' = [cast EXCEPT ![s] = Sending(member)])
    BY <1>7 DEF Receive, Command, Commands, Lose, Notice, flags
  <2> QED
    BY <1>1, <1>2, <2>1 DEF NoRest
<1>8. ASSUME NEW s \in Socket, End(s) \/ MarkEnded(s)
      PROVE  NoRest'
  BY <1>5, <1>8 DEF End, MarkEnded, NoRest, flags
<1>9. ASSUME NEW s \in Socket, CommandMarks(s)
      PROVE  NoRest'
  <2> DEFINE batch == Markable(Lost(s))
             c     == Informing(member \ batch, batch)
  <2>1. batch \in SUBSET Player
    BY <1>1, <1>9, LostPlayers, MarkablePlayers DEF CommandMarks
  <2>2. member' = member /\ (cast' = [CastsWithout(batch) EXCEPT ![s] = c]
                             \/ cast' = [CastsWithout(batch) EXCEPT ![s] = NoCast])
    BY <1>9 DEF CommandMarks
  <2> HIDE DEF batch, c
  <2> QED
    BY <1>1, <2>1, <2>2, CastsAfter DEF NoRest
<1>10. ASSUME NEW t \in Timer, Wake(t) \/ Expire(t)
       PROVE  NoRest'
  <2>1. t \in Thread /\ t # Rest
    BY <1>1, ThreadKinds
  <2>2. member' = member /\ (cast' = cast \/ cast' = [cast EXCEPT ![t] = Sending(member)])
    BY <1>10 DEF Wake, Expire, Expires, flags
  <2> QED
    BY <1>1, <1>2, <2>1, <2>2 DEF NoRest
<1>11. ~RestMarks
  BY Records DEF RestMarks, SendsOver, Lookup, NoRest
<1>12. \A p \in Player : ~LeaveByRest(p)
  BY DEF LeaveByRest
<1>13. UNCHANGED vars => NoRest'
  BY DEF vars, flags, NoRest
<1>14. /\ \A s \in Socket : s \in Thread
       /\ \A t \in Timer : t \in Thread
       /\ Rest \in Thread
  BY ThreadKinds
<1> QED
  BY <1>3, <1>6, <1>7, <1>8, <1>9, <1>10, <1>11, <1>12, <1>13, <1>14, Zenon
     DEF Next, Client, EndpointStep, TimerStep, RestStep

\* When nobody leaves by REST, there are no such marks: whoever was there and
\* is absent has a task, or is excluded already.
THEOREM EveryAbsenceIsTimed ==
  ASSUME Leavers = {}
  PROVE  Spec => [](\A p \in Player : ~Untimed(p))
<1> DEFINE TimedInv == NoRest /\ \A p \in Player : Timed(p)
<1>1. Init => TimedInv
  <2> SUFFICES ASSUME Init
               PROVE  TimedInv
    OBVIOUS
  <2>1. Rest \in Thread
    BY ThreadKinds
  <2>2. NoRest
    BY <2>1 DEF Init, NoRest
  <2>3. \A p \in Player : epoch[p] = 0
    BY DEF Init
  <2> QED
    BY <2>2, <2>3 DEF Timed, Untimed
<1>2. Inv /\ TimedInv /\ [Next]_vars => TimedInv'
  <2>1. NoRest => ~RestMarks
    BY Records DEF RestMarks, SendsOver, Lookup, NoRest
  <2> QED
    BY <2>1, NoRestKept, TimedKept
<1>3. TimedInv => \A p \in Player : ~Untimed(p)
  BY DEF Timed
<1> HIDE DEF TimedInv
<1> QED
  BY <1>1, <1>2, <1>3, InvHolds, PTL DEF Spec

-----------------------------------------------------------------------------
(***************************************************************************)
(* Each player sees one attendance.                                        *)
(***************************************************************************)

\* Nobody is waited for no longer and there at the same time.
Apart == present \intersect excluded = {}

\* A step that gives the players S their place, and leaves all others theirs.
Takes(S, place) ==
  \A p \in Player : SeatOf(p)' = IF p \in S THEN place ELSE SeatOf(p)

\* A step that leaves everybody where they are.
SeatsStay == \A p \in Player : SeatOf(p)' = SeatOf(p)

Attends == Apart' /\ (Attendance!Next \/ SeatsStay)

LEMMA SeatsTaken ==
  ASSUME NEW S, NEW place, Takes(S, place)
  PROVE  Attendance!To(S, place)
  BY DEF Attendance!To, Takes

LEMMA SeatsIn ==
  ASSUME NEW places
  PROVE  Attendance!In(places) = {p \in Player : SeatOf(p) \in places}
  BY DEF Attendance!In

\* Only tasks of those end who are excluded or have left.
LEMMA FlagsAttend ==
  ASSUME Apart, UNCHANGED <<member, present, excluded>>,
         \A p \in Player : entry'[p] = entry[p] \/ p \in excluded \/ p \notin member
  PROVE  Attends
<1>1. ASSUME NEW p \in Player PROVE SeatOf(p)' = SeatOf(p)
  BY DEF SeatOf, Apart
<1> QED
  BY <1>1 DEF Attends, Apart, SeatsStay

\* The players S are marked, and get a task each.
LEMMA MarkedAttend ==
  ASSUME Inv, Apart, NEW S \in SUBSET Player, S \subseteq member,
         present' = present \ S, UNCHANGED <<member, excluded>>,
         \A p \in Player : entry'[p] = EntryAfter(S)[p] \/ p \in excluded
  PROVE  Attends
<1> DEFINE T == {p \in S : SeatOf(p) \in {"here", "untimed"}}
<1>1. /\ \A p \in S : EntryAfter(S)[p] # None
      /\ \A p \in Player \ S : EntryAfter(S)[p] = entry[p]
  BY Restarting, ThreadKinds DEF Inv
<1>2. ASSUME NEW p \in Player
      PROVE  SeatOf(p)' = IF p \in T THEN "timed" ELSE SeatOf(p)
  <2>1. CASE p \in S
    BY <1>1, <2>1 DEF SeatOf, Apart
  <2>2. CASE p \notin S
    BY <1>1, <2>2 DEF SeatOf, Apart
  <2> QED
    BY <2>1, <2>2
<1>3. T \in SUBSET Attendance!In({"here", "untimed"})
  BY SeatsIn
<1> HIDE DEF T
<1>4. Attendance!Go
  BY <1>2, <1>3, SeatsTaken DEF Takes, Attendance!Go
<1>5. Apart'
  BY DEF Apart
<1> QED
  BY <1>4, <1>5 DEF Attends, Attendance!Next

\* A broadcast marks those it has found lost, and its task may end for it.
LEMMA MarksAttend ==
  ASSUME Inv, Apart, NEW t \in Thread, NEW stale, NEW S \in SUBSET Player, NEW q,
         Marks(t, stale, S, q), t \in Timer => timer[t].at = "announcing"
  PROVE  Attends
<1> DEFINE first   == {Min(S)} \intersect member
           waiting == WithoutTasks(q, first)
           batch   == IF waiting = <<>> THEN Markable(S) ELSE first
           raises  == S \ batch # {} /\ (waiting = <<>> \/ batch = {})
<1>1. /\ present' = present \ batch /\ UNCHANGED <<member, excluded>>
      /\ entry' = [r \in Player |-> IF raises /\ entry[r] = t THEN None ELSE EntryAfter(batch)[r]]
  BY DEF Marks
<1>2. batch \in SUBSET Player /\ batch \subseteq member
  BY MarkablePlayers DEF Inv, TypeOK
<1> HIDE DEF first, batch, raises
<1>3. ASSUME NEW p \in Player, entry[p] = t
      PROVE  p \in excluded
  <2>1. TaskOf(p) /\ t # None
    BY ThreadKinds DEF Inv, TasksOK
  <2>2. t \in Timer /\ Owner(t) = p
    BY <1>3, <2>1 DEF TaskOf
  <2> QED
    BY <2>1, <2>2 DEF TaskOf
<1> QED
  BY <1>1, <1>2, <1>3, MarkedAttend

\* A REST call's broadcast marks players too, and starts no tasks.
LEMMA RestMarksAttend ==
  ASSUME Inv, Apart, RestMarks
  PROVE  Attends
<1> DEFINE S == Markable(Lost(Rest))
           T == {p \in S : SeatOf(p) = "here"}
<1>1. S \in SUBSET Player /\ S \subseteq member
  <2>1. Lost(Rest) \in SUBSET Player
    BY ThreadKinds, LostPlayers DEF RestMarks
  <2> QED
    BY <2>1, MarkablePlayers
<1>2. present' = present \ S /\ UNCHANGED <<member, excluded, entry>>
  BY DEF RestMarks, timers
<1> HIDE DEF S
<1>3. \A p \in present : p \in Player => entry[p] = None
  BY DEF Inv, TasksOK, TaskOf
<1>4. ASSUME NEW p \in Player
      PROVE  SeatOf(p)' = IF p \in T THEN "untimed" ELSE SeatOf(p)
  <2>1. CASE p \in S
    BY <1>1, <1>2, <1>3, <2>1 DEF SeatOf, Apart
  <2>2. CASE p \notin S
    BY <1>2, <2>2 DEF SeatOf
  <2> QED
    BY <2>1, <2>2
<1>5. T \in SUBSET Attendance!In({"here"})
  BY <1>1, SeatsIn
<1> HIDE DEF T
<1>6. Attendance!Drop
  BY <1>4, <1>5, SeatsTaken DEF Takes, Attendance!Drop
<1>7. Apart'
  BY <1>2 DEF Apart
<1> QED
  BY <1>6, <1>7 DEF Attends, Attendance!Next

\* Whoever joins is there, unless it has left.
LEMMA JoinsAttend ==
  ASSUME Inv, Apart, NEW s \in Socket, NEW q, Joins(s, q)
  PROVE  Attends
<1> DEFINE p == Owner(s)
<1>1. entry \in [Player -> Timer \union {None}] /\ p \in Player
  BY ThreadKinds DEF Inv, TypeOK
<1>2. /\ entry' = [entry EXCEPT ![p] = None] /\ member' = member
      /\ p \in member => present' = present \union {p} /\ excluded' = excluded \ {p}
      /\ p \notin member => UNCHANGED <<present, excluded>>
  BY DEF Joins
<1> HIDE DEF p
<1>3. CASE p \notin member
  BY <1>1, <1>2, <1>3, FlagsAttend
<1>4. CASE p \in member
  <2>1. Takes({p}, "here")
    BY <1>1, <1>2, <1>4 DEF Takes, SeatOf
  <2>2. p \in Attendance!Members
    BY <1>1, <1>4, SeatsIn DEF Attendance!Members, SeatOf
  <2>3. Apart'
    BY <1>2, <1>4 DEF Apart
  <2> QED
    BY <2>1, <2>2, <2>3, SeatsTaken DEF Attends, Attendance!Next, Attendance!Come
<1> QED
  BY <1>3, <1>4

\* A grace period ends: its player is excluded, or has left.
LEMMA ExpiresAttend ==
  ASSUME Inv, Apart, NEW t \in Timer, NEW q, Expires(t, q), timer[t] # NoTimer
  PROVE  Attends
<1> DEFINE p == Owner(t)
<1>1. entry \in [Player -> Timer \union {None}] /\ p \in Player
  BY ThreadKinds DEF Inv, TypeOK
<1>2. UNCHANGED <<member, present, epoch>>
  BY DEF Expires
<1>3. timer[t].epoch = epoch[p] /\ p \notin present /\ entry[p] = t /\ t # None
  BY <1>1, ThreadKinds DEF Inv, TasksOK, TaskOf
<1>4. CASE StillAbsent(t)
  <2>1. p \in member /\ excluded' = excluded \union {p} /\ entry' = entry
    BY <1>4 DEF Expires, StillAbsent
  <2> HIDE DEF p
  <2>2. Apart'
    BY <1>2, <1>3, <2>1 DEF Apart
  <2>3. CASE p \in excluded
    <3>1. excluded' = excluded
      BY <2>1, <2>3
    <3> QED
      BY <1>2, <2>1, <3>1, FlagsAttend
  <2>4. CASE p \notin excluded
    <3>1. Takes({p}, "excluded")
      BY <1>1, <1>2, <1>3, <2>1 DEF Takes, SeatOf
    <3>2. p \in Attendance!In({"timed"})
      BY <1>1, <1>3, <2>1, <2>4, SeatsIn DEF SeatOf
    <3> QED
      BY <2>2, <3>1, <3>2, SeatsTaken DEF Attends, Attendance!Next, Attendance!Exclude
  <2> QED
    BY <2>3, <2>4
<1>5. CASE ~StillAbsent(t)
  <2>1. p \notin member
    BY <1>3, <1>5 DEF StillAbsent
  <2>2. excluded' = excluded /\ \A r \in Player : r # p => entry'[r] = entry[r]
    BY <1>1, <1>5 DEF Expires
  <2> HIDE DEF p
  <2> QED
    BY <1>2, <2>1, <2>2, FlagsAttend
<1> QED
  BY <1>4, <1>5

\* A player leaves.
LEMMA LeaveAttends ==
  ASSUME Inv, Apart, NEW p \in Player, LeaveByRest(p)
  PROVE  Attends
<1>1. p \in member /\ member' = member \ {p} /\ UNCHANGED <<present, excluded, entry>>
  BY DEF LeaveByRest, timers
<1>2. Takes({p}, "gone")
  BY <1>1 DEF Takes, SeatOf
<1>3. p \in Attendance!Members
  BY <1>1, SeatsIn DEF Attendance!Members, SeatOf
<1>4. Apart'
  BY <1>1 DEF Apart
<1> QED
  BY <1>2, <1>3, <1>4, SeatsTaken DEF Attends, Attendance!Next, Attendance!Leave

\* A broadcast sends, is over, or marks.
LEMMA BroadcastAttends ==
  ASSUME Inv, Apart, NEW t \in Thread, BroadcastStep(t)
  PROVE  Attends
<1>1. CASE SendBegins(t) \/ \E sent \in BOOLEAN : SendEnds(t, sent)
  BY <1>1, FlagsAttend DEF SendBegins, SendEnds, flags, timers
<1>2. CASE CastOver(t)
  <2>1. UNCHANGED flags /\ cast[t] # NoCast
    BY <1>2, Records DEF CastOver, SendsOver, Lookup
  <2>2. ASSUME NEW p \in Player
        PROVE  entry'[p] = entry[p] \/ (t \in Timer /\ Owner(t) = p)
    <3>1. entry \in [Player -> Timer \union {None}]
      BY DEF Inv, TypeOK
    <3> HIDE DEF Owner
    <3> QED
      BY <1>2, <3>1 DEF CastOver
  <2>3. ASSUME NEW p \in Player, t \in Timer, Owner(t) = p
        PROVE  p \in excluded
    BY <2>1, <2>3 DEF Inv, TasksOK, TaskOf
  <2> QED
    BY <2>1, <2>2, <2>3, FlagsAttend DEF flags
<1>3. CASE GoMark(t)
  <2>1. SendsOver(t)
    BY <1>3 DEF GoMark
  <2>2. Lost(t) \in SUBSET Player /\ (t \in Timer => timer[t].at = "announcing")
    BY <2>1, LostPlayers
  <2>3. CASE LockIdle
    BY <1>3, <2>2, <2>3, MarksAttend DEF GoMark
  <2>4. CASE ~LockIdle
    BY <1>3, <2>4, FlagsAttend DEF GoMark, flags, timers
  <2> QED
    BY <2>3, <2>4
<1>4. CASE MarkLost(t)
  <2>1. cast[t] # NoCast /\ cast[t].unmarked \in SUBSET Player
    BY <1>4, Records, Types DEF MarkLost, Inv
  <2>2. t \in Timer => timer[t].at = "announcing"
    BY <2>1, ThreadKinds DEF Inv, TasksOK, TaskOf
  <2> QED
    BY <1>4, <2>1, <2>2, MarksAttend DEF MarkLost
<1> QED
  BY <1>1, <1>2, <1>3, <1>4 DEF BroadcastStep

\* Every step is one of Attendance, or leaves everybody where they are.
LEMMA StepAttends ==
  ASSUME Inv, Apart, [Next]_vars
  PROVE  Attends
<1>1. ASSUME NEW s \in Socket, Open(s) \/ PreviousClosed(s) \/ Join(s)
      PROVE  Attends
  <2>1. ASSUME GoJoin(s)
        PROVE  Attends
    <3>1. CASE LockIdle
      BY <2>1, <3>1, JoinsAttend DEF GoJoin
    <3>2. CASE ~LockIdle
      BY <2>1, <3>2, FlagsAttend DEF GoJoin, flags, timers
    <3> QED
      BY <3>1, <3>2
  <2>2. CASE Join(s)
    BY <2>2, JoinsAttend DEF Join
  <2>3. CASE Open(s) \/ PreviousClosed(s)
    BY <2>1, <2>3, FlagsAttend DEF Open, PreviousClosed, flags, timers
  <2> QED
    BY <1>1, <2>2, <2>3
<1>2. ASSUME NEW s \in Socket, Receive(s) \/ Command(s) \/ Lose(s) \/ Notice(s)
      PROVE  Attends
  BY <1>2, FlagsAttend DEF Receive, Command, Commands, Lose, Notice, flags, timers
<1>3. ASSUME NEW s \in Socket, NEW q, MarksSelf(s, q)
      PROVE  Attends
  <2>1. {Owner(s)} \intersect member \in SUBSET Player
    BY DEF Inv, TypeOK
  <2> QED
    BY <1>3, <2>1, MarkedAttend DEF MarksSelf
<1>4. ASSUME NEW s \in Socket, End(s) \/ MarkEnded(s)
      PROVE  Attends
  BY <1>3, <1>4, FlagsAttend DEF End, MarkEnded, flags, timers
<1>5. ASSUME NEW s \in Socket, CommandMarks(s)
      PROVE  Attends
  <2>1. s \in Thread /\ SendsOver(s)
    BY <1>5, ThreadKinds DEF CommandMarks
  <2>2. Markable(Lost(s)) \in SUBSET Player /\ Markable(Lost(s)) \subseteq member
    BY <2>1, LostPlayers, MarkablePlayers
  <2> QED
    BY <1>5, <2>2, MarkedAttend DEF CommandMarks
<1>6. ASSUME NEW t \in Timer, Wake(t) \/ Expire(t)
      PROVE  Attends
  <2>1. timer[t] # NoTimer
    BY <1>6, Records DEF Wake, Expire
  <2>2. CASE \E q : Expires(t, q)
    BY <2>1, <2>2, ExpiresAttend
  <2>3. CASE Wake(t) /\ ~LockIdle
    BY <2>3, FlagsAttend DEF Wake, flags
  <2> QED
    BY <1>6, <2>2, <2>3 DEF Wake, Expire
<1>7. ASSUME UNCHANGED vars
      PROVE  Attends
  BY <1>7, FlagsAttend DEF vars, flags, timers
<1>8. /\ \A s \in Socket : s \in Thread
      /\ \A t \in Timer : t \in Thread
      /\ Rest \in Thread
  BY ThreadKinds
<1> QED
  BY <1>1, <1>2, <1>4, <1>5, <1>6, <1>7, <1>8, BroadcastAttends, RestMarksAttend, LeaveAttends,
     Zenon DEF Next, Client, EndpointStep, TimerStep, RestStep

LEMMA InitAttends == Init => Apart /\ Attendance!Init
  BY DEF Init, Apart, Attendance!Init, SeatOf

\* Whatever sockets, timers and broadcasts there are, and whichever of them end,
\* are cancelled or fail: players come, go, are timed, excluded only when their
\* time is over, and leave for good.
THEOREM PresenceKeepsAttendance == Spec => ImplementsAttendance
<1>1. Inv /\ Apart /\ [Next]_vars =>
        Apart' /\ [Attendance!Next]_([p \in Player |-> SeatOf(p)])
  BY StepAttends DEF Attends, SeatsStay
<1> QED
  BY <1>1, InitAttends, InvHolds, PTL DEF Spec, ImplementsAttendance, Attendance!Spec
-----------------------------------------------------------------------------
(***************************************************************************)
(* Who is served hears of everything.                                      *)
(***************************************************************************)

\* Who is to join waits for the lock.
JoinersWait == \A s \in Socket : pc[s] = "joining" => Before(queue, s, {})

LEMMA BeforeAtEnd ==
  ASSUME NEW q \in Seq(Thread), NEW t \in Thread
  PROVE  Before(Append(q, t), t, {})
<1> DEFINE v == Append(q, t)
<1>1. Len(q) \in Nat /\ Len(v) = Len(q) + 1 /\ v[Len(q) + 1] = t
  BY AppendProperties, LenProperties
<1> HIDE DEF v
<1>2. Len(v) \in 1 .. Len(v) /\ v[Len(v)] = t
  BY <1>1
<1>3. Before(v, t, {})
  BY <1>2 DEF Before
<1> QED
  BY <1>3 DEF v

LEMMA JoinersWaitKept ==
  ASSUME Inv, JoinersWait, [Next]_vars
  PROVE  JoinersWait'
<1> SUFFICES ASSUME NEW s \in Socket, pc'[s] = "joining"
             PROVE  Before(queue', s, {})
  BY DEF JoinersWait, Before
<1>1. CASE pc[s] = "joining"
  BY <1>1, StillBefore DEF JoinersWait
<1>2. CASE pc[s] # "joining"
  <2>1. Moves(s)
    BY EndpointsMove
  <2>2. Open(s) \/ PreviousClosed(s)
    BY <1>2, <2>1 DEF Moves
  <2>3. TypeOK /\ queue \in Seq(Thread) /\ s \in Thread
    BY ThreadKinds DEF Inv, TypeOK
  <2>4. GoJoin(s)
    <3>1. pc' = [pc EXCEPT ![s] = "registered"] => pc'[s] = "registered"
      BY <2>3, OneMoves
    <3>2. pc'[s] # "registered"
      OBVIOUS
    <3> QED
      BY <2>2, <3>1, <3>2 DEF Open, PreviousClosed
  <2>5. ~LockIdle
    BY <2>3, <2>4, JoinsMoves DEF GoJoin
  <2>6. queue' = Append(queue, s)
    BY <2>4, <2>5 DEF GoJoin, Enqueue
  <2> QED
    BY <2>3, <2>6, BeforeAtEnd
<1> QED
  BY <1>1, <1>2

\* The thread t is going to send the room to p, or to begin a broadcast that does.
Announces(t, p) ==
  \/ cast[t].phase = "mark"
  \/ cast[t].phase \in {"send", "inform"} /\ p \in cast[t].left

\* The latest state of the room is on its way to p.
OnTheWay(p) ==
  \/ \E t \in Thread : Announces(t, p)
  \/ \E s \in Socket : Owner(s) = p /\ pc[s] = "joining"

Hears(p) ==
  p \in member \intersect present /\ registry[p] # None /\ p \notin told \union missed
    => OnTheWay(p)

\* What is on the way stays there.
LEMMA StillHears ==
  ASSUME NEW p, Hears(p),
         member' \subseteq member,
         p \in present' => p \in present, registry'[p] # None => registry[p] # None,
         p \in told => p \in told' \/ registry'[p] = None, missed' = missed,
         \A t \in Thread : Announces(t, p) => Announces(t, p)' \/ registry'[p] = None
                                              \/ p \in told',
         \A s \in Socket : Owner(s) = p /\ pc[s] = "joining" => pc'[s] = "joining"
  PROVE  Hears(p)'
  BY DEF Hears, OnTheWay

\* Nobody need hear of a state whose broadcast raises.
LEMMA NowMissed ==
  ASSUME NEW p \in Player, missed' = Player
  PROVE  Hears(p)'
  BY DEF Hears

\* A new state is announced by the thread that made it.
LEMMA NowAnnounced ==
  ASSUME NEW p, NEW t \in Thread,
         \/ cast'[t].phase = "mark"
         \/ cast'[t].phase \in {"send", "inform"} /\ p \in cast'[t].left
  PROVE  Hears(p)'
  BY DEF Hears, OnTheWay, Announces

LEMMA SentToAll ==
  ASSUME Inv, NEW t \in Thread, NEW S \in SUBSET Player, NEW p \in Player, member' = member,
         cast' = [CastsWithout(S) EXCEPT ![t] = Sending(member)]
  PROVE  Hears(p)'
<1>1. cast'[t] = Sending(member)
  BY CastsAfter
<1>2. member \in SUBSET Player
  BY DEF Inv, TypeOK
<1>3. cast'[t].phase = "send" /\ cast'[t].left = member
  BY <1>1, <1>2, Records
<1>4. CASE p \in member
  BY <1>3, <1>4, NowAnnounced
<1>5. CASE p \notin member
  BY <1>5 DEF Hears
<1> QED
  BY <1>4, <1>5

LEMMA MarksHears ==
  ASSUME Inv, NEW t \in Thread, NEW stale \in SUBSET Player,
         NEW S \in SUBSET Player, S # {}, NEW q, Marks(t, stale, S, q), NEW p \in Player
  PROVE  Hears(p)'
<1> DEFINE first   == {Min(S)} \intersect member
           waiting == WithoutTasks(q, first)
           batch   == IF waiting = <<>> THEN Markable(S) ELSE first
           rest    == S \ batch
           raises  == rest # {} /\ (waiting = <<>> \/ batch = {})
           c       == IF raises THEN NoCast
                      ELSE IF rest = {} THEN Informing(member \ stale, stale)
                      ELSE Marking(stale, rest)
<1>1. Min(S) \in S /\ Min(S) \in Player
  BY LeastPlayer
<1>2. batch \in SUBSET Player /\ rest \in SUBSET Player /\ (rest = {} => S \subseteq batch)
  BY MarkablePlayers DEF Inv, TypeOK
<1>3. /\ present' = present \ batch /\ member' = member
      /\ missed' = IF raises THEN Player ELSE IF rest = {} THEN stale \ batch ELSE {}
      /\ cast' = [CastsWithout(batch) EXCEPT ![t] = c]
  BY DEF Marks, Marking
<1> DEFINE others == member \ stale
<1>4. ~raises => c = IF rest = {} THEN Informing(others, stale) ELSE Marking(stale, rest)
  OBVIOUS
<1>5. others \in SUBSET Player /\ (p \in member => p \in others \/ p \in stale)
  BY DEF Inv, TypeOK
<1> HIDE DEF batch, rest, c, others, raises
<1>6. cast'[t] = c
  BY <1>2, <1>3, CastsAfter
<1>7. CASE raises
  BY <1>3, <1>7, NowMissed
<1>8. CASE ~raises /\ rest # {}
  <2>1. cast'[t].phase = "mark"
    <3>1. Marking(stale, rest).phase = "mark"
      BY <1>2, MarkingRecord
    <3>2. cast'[t] = Marking(stale, rest)
      BY <1>4, <1>6, <1>8
    <3> QED
      BY <3>1, <3>2
  <2> QED
    BY <2>1, NowAnnounced
<1>9. CASE ~raises /\ rest = {}
  <2>1. cast'[t].phase = "inform" /\ cast'[t].left = others
    <3>1. Informing(others, stale).phase = "inform" /\ Informing(others, stale).left = others
      BY <1>5, InformingRecord
    <3>2. cast'[t] = Informing(others, stale)
      BY <1>4, <1>6, <1>9
    <3> QED
      BY <3>1, <3>2
  <2>2. CASE p \in others
    BY <2>1, <2>2, NowAnnounced
  <2>3. CASE p \in stale
    BY <1>3, <1>9, <2>3 DEF Hears
  <2>4. CASE p \notin member
    BY <1>3, <2>4 DEF Hears
  <2> QED
    BY <1>5, <2>2, <2>3, <2>4
<1> QED
  BY <1>7, <1>8, <1>9

LEMMA BroadcastHears ==
  ASSUME Inv, NEW t \in Thread, BroadcastStep(t), NEW p \in Player, Hears(p)
  PROVE  Hears(p)'
<1>1. /\ cast \in [Thread -> CastRecord] /\ cast[t] \in CastRecord
      /\ registry \in [Player -> Socket \union {None}] /\ TypeOK
  BY Types DEF Inv, TypeOK
<1>2. CASE SendBegins(t)
  <2> DEFINE c    == cast[t]
             next == Min(Reachable(t))
             over == {q \in c.left : q < next}
  <2>1. /\ cast' = [cast EXCEPT ![t] =
              [c EXCEPT !.to = next, !.via = registry[next], !.left = @ \ (over \union {next}),
                        !.stale = IF c.phase = "send" THEN @ \union (over \intersect present)
                                  ELSE @]]
        /\ told' = told \union {next}
        /\ UNCHANGED <<member, present, registry, pc, missed>>
        /\ c.phase \in {"send", "inform"} /\ Reachable(t) # {}
    BY <1>2 DEF SendBegins, Lookup, flags, sockets
  <2>2. Reachable(t) \in SUBSET Player /\ \A q \in Reachable(t) : next <= q
    <3>1. Reachable(t) \in SUBSET Player
      BY Types DEF Reachable, Inv
    <3> QED
      BY <2>1, <3>1, LeastPlayer
  <2>3. p \in over => registry[p] = None
    <3> SUFFICES ASSUME p \in Reachable(t), p < next
                 PROVE  FALSE
      BY DEF Reachable
    <3>1. next <= p /\ p \in Nat /\ next \in Nat
      <4>1. next \in Reachable(t)
        BY <2>1, <2>2, LeastPlayer
      <4> QED
        BY <2>2, <4>1, PresenceAssumption DEF Player
    <3> HIDE DEF next
    <3> QED
      BY <3>1
  <2>4. /\ cast'[t].phase = c.phase /\ cast'[t].left = c.left \ (over \union {next})
        /\ \A u \in Thread : u # t => cast'[u] = cast[u]
    <3> HIDE DEF over, next
    <3> QED
      BY <1>1, <2>1 DEF CastRecord
  <2> HIDE DEF c, next, over
  <2>5. ASSUME NEW u \in Thread, Announces(u, p)
        PROVE  Announces(u, p)' \/ registry'[p] = None \/ p \in told'
    <3>1. CASE u # t
      BY <2>4, <2>5, <3>1 DEF Announces
    <3>2. CASE u = t
      BY <2>1, <2>3, <2>4, <2>5, <3>2 DEF Announces, c
    <3> QED
      BY <3>1, <3>2
  <2> QED
    BY <2>1, <2>5, StillHears
<1>3. ASSUME NEW sent \in BOOLEAN, SendEnds(t, sent)
      PROVE  Hears(p)'
  <2> DEFINE c == cast[t]
             dropped == ~ (sent \/ registry[c.to] # c.via)
  <2>1. /\ cast' = [cast EXCEPT ![t] =
              [c EXCEPT !.to = 0, !.via = None,
                        !.stale = IF ~sent /\ c.phase = "send" THEN @ \union ({c.to} \intersect present)
                                  ELSE @]]
        /\ registry' = IF ~dropped THEN registry ELSE [registry EXCEPT ![c.to] = None]
        /\ told' = IF ~dropped THEN told ELSE told \ {c.to}
        /\ UNCHANGED <<member, present, pc, missed>>
    BY <1>3 DEF SendEnds, flags
  <2>2. /\ cast'[t].phase = c.phase /\ cast'[t].left = c.left
        /\ \A u \in Thread : u # t => cast'[u] = cast[u]
    <3> HIDE DEF dropped
    <3> QED
      BY <1>1, <2>1 DEF CastRecord
  <2> HIDE DEF dropped
  <2>3. /\ registry'[p] # None => registry[p] # None
        /\ p \in told => p \in told' \/ registry'[p] = None
    BY <1>1, <2>1
  <2>4. \A u \in Thread : Announces(u, p) => Announces(u, p)'
    BY <2>2 DEF Announces
  <2> HIDE DEF c
  <2> QED
    BY <2>1, <2>3, <2>4, StillHears
<1>4. CASE CastOver(t)
  <2>1. /\ Reachable(t) = {} /\ cast[t].phase \in {"send", "inform"}
        /\ UNCHANGED <<member, present, registry, told, missed>>
    BY <1>4 DEF CastOver, SendsOver, Lookup, flags, news
  <2>2. \A u \in Thread : u # t => cast'[u] = cast[u]
    <3>1. \E c : cast' = [cast EXCEPT ![t] = c]
      BY <1>4, Zenon DEF CastOver
    <3> QED
      BY <1>1, <3>1
  <2>3. ASSUME NEW u \in Thread, Announces(u, p)
        PROVE  Announces(u, p)' \/ registry'[p] = None
    <3>1. CASE u # t
      BY <2>2, <2>3, <3>1 DEF Announces
    <3>2. CASE u = t
      BY <2>1, <2>3, <3>2 DEF Announces, Reachable
    <3> QED
      BY <3>1, <3>2
  <2>4. \A s \in Socket : pc[s] = "joining" => pc'[s] = "joining"
    <3>1. t \in Socket => pc[t] # "joining"
      <4>1. cast[t] # NoCast /\ CastOf(t)
        BY <2>1, Records DEF Inv, CastsOK
      <4> QED
        BY <4>1 DEF CastOf
    <3>2. pc' = pc \/ (t \in Socket /\ \E x : pc' = [pc EXCEPT ![t] = x])
      BY <1>4, Zenon DEF CastOver
    <3> QED
      BY <1>1, <3>1, <3>2, OneMoves
  <2> QED
    BY <2>1, <2>3, <2>4, StillHears
<1>5. CASE GoMark(t)
  <2>1. Lost(t) \in SUBSET Player /\ Lost(t) # {}
    BY <1>5, LostPlayers DEF GoMark
  <2>2. CASE LockIdle
    BY <1>5, <2>1, <2>2, MarksHears DEF GoMark
  <2>3. CASE ~LockIdle
    <3> DEFINE c == Marking(Lost(t), Lost(t))
    <3>1. cast' = [cast EXCEPT ![t] = c]
      BY <1>5, <2>3 DEF GoMark, Marking
    <3>2. c.phase = "mark"
      BY <2>1, MarkingRecord
    <3> HIDE DEF c
    <3>3. cast'[t].phase = "mark"
      BY <1>1, <3>1, <3>2
    <3> QED
      BY <3>3, NowAnnounced
  <2> QED
    BY <2>2, <2>3
<1>6. CASE MarkLost(t)
  <2>1. cast[t].unmarked # {} /\ cast[t].stale \in SUBSET Player /\ cast[t].unmarked \in SUBSET Player
    BY <1>6, Types DEF MarkLost, Inv, CastsOK, CastOf
  <2>2. Marks(t, cast[t].stale, cast[t].unmarked, Tail(queue))
    BY <1>6 DEF MarkLost
  <2> QED
    BY <2>1, <2>2, MarksHears
<1> QED
  BY <1>2, <1>3, <1>4, <1>5, <1>6 DEF BroadcastStep
\* Every step keeps the state on its way to whoever has not been sent it.
LEMMA HearsKept ==
  ASSUME Inv, [Next]_vars, NEW p \in Player, Hears(p)
  PROVE  Hears(p)'
<1>1. /\ TypeOK /\ member \in SUBSET Player
      /\ registry \in [Player -> Socket \union {None}]
      /\ cast \in [Thread -> CastRecord]
      /\ {} \in SUBSET Player
  BY Types DEF Inv, TypeOK
<1>2. \A s \in Socket : s \in Thread /\ Owner(s) \in Player /\ {Owner(s)} \in SUBSET Player
  BY ThreadKinds
<1>3. \A t \in Timer : t \in Thread /\ Owner(t) \in Player
  BY ThreadKinds
<1> HIDE DEF Owner
\* a step that leaves the broadcasts and the latest state alone
<1>4. ASSUME UNCHANGED <<member, cast, told, missed>>, p \in present' => p \in present,
             registry'[p] # None => registry[p] # None,
             \A s \in Socket : Owner(s) = p /\ pc[s] = "joining" => pc'[s] = "joining"
      PROVE  Hears(p)'
  <2>1. \A t \in Thread : Announces(t, p) => Announces(t, p)'
    BY <1>4 DEF Announces
  <2> QED
    BY <1>4, <2>1, StillHears
<1>5. ASSUME NEW t \in Thread, cast' = [cast EXCEPT ![t] = Sending(member)], member' = member
      PROVE  Hears(p)'
  <2>1. cast'[t] = Sending(member)
    BY <1>1, <1>5
  <2>2. cast'[t].phase = "send" /\ cast'[t].left = member
    BY <1>1, <2>1, Records
  <2>3. CASE p \in member
    BY <2>2, <2>3, NowAnnounced
  <2>4. CASE p \notin member
    BY <1>5, <2>4 DEF Hears
  <2> QED
    BY <2>3, <2>4
<1>6. ASSUME NEW s \in Socket, NEW q, Joins(s, q), Owner(s) \in member \/ registry' = registry
      PROVE  Hears(p)'
  <2>1. CASE Owner(s) \in member
    <3>1. cast' = [CastsWithout({Owner(s)}) EXCEPT ![s] = Sending(member)] /\ member' = member
      BY <1>6, <2>1 DEF Joins
    <3> QED
      BY <1>1, <1>2, <3>1, SentToAll
  <2>2. CASE Owner(s) \notin member
    <3>1. /\ UNCHANGED <<member, present, told, registry>>
          /\ missed' = IF cast' = cast THEN missed ELSE Player
          /\ pc' = [pc EXCEPT ![s] = "closing"]
      BY <1>6, <2>2 DEF Joins
    <3>2. \A r \in Socket : r # s => pc'[r] = pc[r]
      BY <1>1, <3>1, OneMoves
    <3>3. CASE Owner(s) = p
      BY <2>2, <3>1, <3>3 DEF Hears
    <3>4. CASE Owner(s) # p /\ cast' = cast
      BY <1>4, <3>1, <3>2, <3>4
    <3>5. CASE cast' # cast
      BY <3>1, <3>5, NowMissed
    <3> QED
      BY <3>3, <3>4, <3>5
  <2> QED
    BY <2>1, <2>2
<1>7. ASSUME NEW s \in Socket, Open(s) \/ PreviousClosed(s)
      PROVE  Hears(p)'
  <2>0. Owner(s) \in member \/ registry' = registry
    BY <1>7 DEF Open, PreviousClosed
  <2>1. CASE GoJoin(s) /\ LockIdle
    BY <1>6, <2>0, <2>1 DEF GoJoin
  <2>2. CASE GoJoin(s) /\ ~LockIdle
    <3>1. pc' = [pc EXCEPT ![s] = "joining"] /\ UNCHANGED <<member, cast, told, missed, present>>
      BY <2>2 DEF GoJoin, flags, news
    <3>2. pc'[s] = "joining" /\ \A r \in Socket : r # s => pc'[r] = pc[r]
      BY <1>1, <3>1, OneMoves
    <3>3. CASE Owner(s) = p
      BY <3>2, <3>3 DEF Hears, OnTheWay
    <3>4. CASE Owner(s) # p
      <4>1. registry'[p] = registry[p]
        BY <1>1, <1>2, <1>7, <3>4 DEF Open, PreviousClosed
      <4> QED
        BY <1>4, <3>1, <3>2, <4>1
    <3> QED
      BY <3>3, <3>4
  <2>3. CASE ~GoJoin(s)
    <3>1. /\ pc' = [pc EXCEPT ![s] = "registered"] /\ UNCHANGED <<member, cast, told, missed, present>>
          /\ registry' = [registry EXCEPT ![Owner(s)] = s] /\ registry[Owner(s)] # None
          /\ pc[s] = "unopened"
      BY <1>7, <2>3 DEF Open, PreviousClosed, flags, news
    <3>2. \A r \in Socket : pc[r] = "joining" => pc'[r] = "joining"
      BY <1>1, <3>1, OneMoves
    <3>3. registry'[p] # None => registry[p] # None
      BY <1>1, <1>2, <3>1
    <3> QED
      BY <1>4, <3>1, <3>2, <3>3
  <2> QED
    BY <2>1, <2>2, <2>3
<1>8. ASSUME NEW s \in Socket, Join(s)
      PROVE  Hears(p)'
  BY <1>6, <1>8 DEF Join
<1>9. ASSUME NEW s \in Socket, Receive(s) \/ Command(s)
      PROVE  Hears(p)'
  <2>1. CASE cast' = [cast EXCEPT ![s] = Sending(member)]
    <3>1. member' = member
      BY <1>9 DEF Receive, Command, Commands, flags
    <3> QED
      BY <1>2, <1>5, <2>1, <3>1
  <2>2. CASE cast' # [cast EXCEPT ![s] = Sending(member)]
    <3>1. /\ UNCHANGED <<member, cast, told, missed, present, registry>> /\ pc[s] \in {"serving", "queued"}
          /\ \E x : pc' = [pc EXCEPT ![s] = x]
      BY Zenon, <1>1, <1>2, <1>9, <2>2 DEF Receive, Command, Commands, flags, news
    <3>2. \A r \in Socket : pc[r] = "joining" => pc'[r] = "joining"
      BY <1>1, <3>1, OneMoves
    <3> QED
      BY <1>4, <3>1, <3>2
  <2> QED
    BY <2>1, <2>2
<1>10. ASSUME NEW s \in Socket, Lose(s) \/ Notice(s)
       PROVE  Hears(p)'
  <2>1. UNCHANGED <<member, cast, told, missed, present, registry>>
    BY <1>10 DEF Lose, Notice, flags, news
  <2>2. \A r \in Socket : pc[r] = "joining" => pc'[r] = "joining"
    BY <1>1, <1>10, OneMoves DEF Lose, Notice
  <2> QED
    BY <1>4, <2>1, <2>2
<1>11. ASSUME NEW s \in Socket, NEW q, MarksSelf(s, q), pc[s] # "joining",
              registry' \in {registry, Forget(registry, s)}
       PROVE  Hears(p)'
  <2> DEFINE gone == {Owner(s)} \intersect member
  <2>1. gone \in SUBSET Player /\ member' = member
    BY <1>1, <1>2, <1>11 DEF MarksSelf
  <2>2. cast' = IF gone = {} THEN cast ELSE [CastsWithout(gone) EXCEPT ![s] = Sending(member)]
    BY <1>11 DEF MarksSelf
  <2>3. gone = {} => /\ UNCHANGED <<told, missed, present>>
                     /\ pc' = [pc EXCEPT ![s] = "ended"]
    BY <1>11 DEF MarksSelf, news
  <2> HIDE DEF gone
  <2>4. CASE gone # {}
    BY <1>2, <2>1, <2>2, <2>4, SentToAll
  <2>5. CASE gone = {}
    <3>1. \A r \in Socket : pc[r] = "joining" => pc'[r] = "joining"
      BY <1>1, <1>11, <2>3, <2>5, OneMoves
    <3>2. registry'[p] # None => registry[p] # None
      BY <1>1, <1>2, <1>11 DEF Forget
    <3> QED
      BY <1>4, <2>1, <2>2, <2>3, <2>5, <3>1, <3>2
  <2> QED
    BY <2>4, <2>5
<1>12. ASSUME NEW s \in Socket, End(s) \/ MarkEnded(s)
       PROVE  Hears(p)'
  <2>1. pc[s] # "joining" /\ registry' \in {registry, Forget(registry, s)}
    BY <1>12 DEF End, MarkEnded
  <2>2. CASE \E q : MarksSelf(s, q)
    BY <1>11, <2>1, <2>2
  <2>3. CASE ~ \E q : MarksSelf(s, q)
    <3>1. /\ UNCHANGED <<member, cast, told, missed, present>>
          /\ \E x : pc' = [pc EXCEPT ![s] = x]
      BY <1>12, <2>3, Zenon DEF End, MarkEnded, flags, news
    <3>2. \A r \in Socket : pc[r] = "joining" => pc'[r] = "joining"
      BY <1>1, <2>1, <3>1, OneMoves
    <3>3. registry'[p] # None => registry[p] # None
      BY <1>1, <1>2, <2>1 DEF Forget
    <3> QED
      BY <1>4, <3>1, <3>2, <3>3
  <2> QED
    BY <2>2, <2>3
\* the marks of a thread in one go
<1>13. ASSUME NEW t \in Thread, NEW S \in SUBSET Player, SendsOver(t), member' = member,
              NEW lost, lost = Lost(t),
              missed' = IF S = lost THEN {} ELSE Player,
              present' = present \ S,
              S = lost => cast' \in {[cast EXCEPT ![t] = Informing(member \ S, S)],
                                     [CastsWithout(S) EXCEPT ![t] = Informing(member \ S, S)]}
       PROVE  Hears(p)'
  <2> DEFINE others == member \ S
             c      == Informing(others, S)
  <2>1. others \in SUBSET Player
    BY <1>1
  <2> HIDE DEF others
  <2>2. c.phase = "inform" /\ c.left = others
    BY <2>1, InformingRecord, Zenon
  <2> HIDE DEF c
  <2>3. CASE S # lost
    BY <1>13, <2>3, NowMissed
  <2>4. CASE S = lost /\ p \in others
    <3>1. cast' \in {[cast EXCEPT ![t] = c], [CastsWithout(S) EXCEPT ![t] = c]}
      BY <1>13, <2>4 DEF c, others
    <3>2. cast' = [cast EXCEPT ![t] = c] => cast'[t] = c
      BY <1>1, <1>13
    <3>3. ASSUME cast' = [CastsWithout(S) EXCEPT ![t] = c]
          PROVE  cast'[t] = c
      <4>1. CastsWithout(S) \in [Thread -> CastRecord]
        BY <1>13, Cancelling DEF Inv
      <4> QED
        BY <1>13, <3>3, <4>1
    <3>4. cast'[t] = c
      BY <3>1, <3>2, <3>3
    <3> QED
      BY <2>2, <2>4, <3>4, NowAnnounced
  <2>5. CASE p \in S
    BY <1>13, <2>5 DEF Hears
  <2>6. CASE p \notin member
    BY <1>13, <2>6 DEF Hears
  <2> QED
    BY <2>3, <2>4, <2>5, <2>6 DEF others
<1>14. ASSUME NEW t \in Timer, Wake(t) \/ Expire(t)
       PROVE  Hears(p)'
  <2>1. CASE cast' = [cast EXCEPT ![t] = Sending(member)]
    <3>1. member' = member
      BY <1>14 DEF Wake, Expire, Expires, flags
    <3> QED
      BY <1>3, <1>5, <2>1, <3>1
  <2>2. CASE cast' # [cast EXCEPT ![t] = Sending(member)]
    <3>1. UNCHANGED <<member, cast, told, missed, present, registry, pc>>
      BY <1>14, <2>2 DEF Wake, Expire, Expires, flags, sockets, news
    <3> QED
      BY <1>4, <3>1
  <2> QED
    BY <2>1, <2>2
<1>15. ASSUME NEW s \in Socket, CommandMarks(s)
       PROVE  Hears(p)'
  <2> DEFINE S == Markable(Lost(s))
  <2>1. s \in Thread /\ SendsOver(s) /\ S \in SUBSET Player
    BY <1>2, <1>15, LostPlayers, MarkablePlayers DEF CommandMarks
  <2>2. /\ member' = member /\ present' = present \ S
        /\ missed' = IF S = Lost(s) THEN {} ELSE Player
        /\ S = Lost(s) => cast' = [CastsWithout(S) EXCEPT ![s] = Informing(member \ S, S)]
    BY <1>15 DEF CommandMarks
  <2> HIDE DEF S
  <2> QED
    BY <1>13, <2>1, <2>2
<1>16. CASE RestMarks
  <2> DEFINE S == Markable(Lost(Rest))
  <2>1. Rest \in Thread /\ SendsOver(Rest) /\ S \in SUBSET Player
    BY <1>16, ThreadKinds, LostPlayers, MarkablePlayers DEF RestMarks
  <2>2. /\ member' = member /\ present' = present \ S
        /\ missed' = IF S = Lost(Rest) THEN {} ELSE Player
        /\ S = Lost(Rest) => cast' = [cast EXCEPT ![Rest] = Informing(member \ S, S)]
    BY <1>16 DEF RestMarks
  <2> HIDE DEF S
  <2> QED
    BY <1>13, <2>1, <2>2
<1>17. ASSUME NEW r \in Player, LeaveByRest(r)
        PROVE  Hears(p)'
  <2> DEFINE others == member \ {r}
  <2>1. Rest \in Thread /\ others \in SUBSET Player
    BY <1>1, ThreadKinds
  <2>2. cast' = [cast EXCEPT ![Rest] = Sending(others)] /\ member' = others
    BY <1>17 DEF LeaveByRest
  <2> HIDE DEF others
  <2>3. cast'[Rest].phase = "send" /\ cast'[Rest].left = others
    BY <1>1, <2>1, <2>2, Records
  <2>4. CASE p \in others
    BY <2>1, <2>3, <2>4, NowAnnounced
  <2>5. CASE p \notin others
    BY <2>2, <2>5 DEF Hears
  <2> QED
    BY <2>4, <2>5
<1>18. UNCHANGED vars => Hears(p)'
  BY <1>4 DEF vars, flags, sockets, news
<1>19. \A t \in Thread : BroadcastStep(t) => Hears(p)'
  BY BroadcastHears
<1>20. Rest \in Thread
  BY ThreadKinds
<1> QED
  BY <1>2, <1>3, <1>7, <1>8, <1>9, <1>10, <1>12, <1>14, <1>15, <1>16, <1>17, <1>18, <1>19, <1>20, Zenon
     DEF Next, Client, EndpointStep, TimerStep, RestStep

\* When all broadcasts are over, every connected player who is served has been
\* sent the latest state, whatever sends failed and whoever left, unless the
\* broadcast that was to send it raised: however broadcasts overlap and cancel
\* one another, somebody always still has it to send.
THEOREM WhoIsServedHears == Spec => []EverybodyHears
<1> DEFINE HearInv == JoinersWait /\ \A p \in Player : Hears(p)
<1>1. Init => HearInv
  BY DEF Init, Hears, JoinersWait
<1>2. Inv /\ HearInv /\ [Next]_vars => HearInv'
  BY JoinersWaitKept, HearsKept
<1>3. Inv /\ HearInv => EverybodyHears
  <2> SUFFICES ASSUME Inv, HearInv, Quiet, NEW p \in member \intersect present, registry[p] # None
               PROVE  p \in told \union missed
    BY DEF EverybodyHears
  <2>1. \A t \in Thread : ~Announces(t, p)
    BY Records DEF Quiet, Announces
  <2>2. \A s \in Socket : pc[s] # "joining"
    <3>1. \A s : ~Before(<<>>, s, {})
      BY DEF Before
    <3> QED
      BY <3>1 DEF JoinersWait, Quiet
  <2>3. p \in Player
    BY DEF Inv, TypeOK
  <2> QED
    BY <2>1, <2>2, <2>3 DEF Hears, OnTheWay
<1> HIDE DEF HearInv
<1> QED
  BY <1>1, <1>2, <1>3, InvHolds, PTL DEF Spec
=============================================================================
