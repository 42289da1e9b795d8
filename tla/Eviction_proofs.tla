-------------------------- MODULE Eviction_proofs --------------------------
(***************************************************************************)
(* The loop of remove_expired_lobby_players and the closed form of what it *)
(* leaves behind, for every lobby, however many of its players expired.    *)
(*                                                                         *)
(* Room is a record: two rooms are equal when they agree on every field.   *)
(* The fields of EvictAll(r) are stated once, and an eviction is shown not *)
(* to change any of them; so the closed form is an invariant of the loop.  *)
(* It is the room itself when nobody is expired any more, which the loop   *)
(* reaches in time: the n-th eviction leaves only numbers greater than n.  *)
(***************************************************************************)
EXTENDS RoomSafety_proofs

-----------------------------------------------------------------------------
\* The induction of the naturals, for one set.
LEMMA InductionInSet ==
  ASSUME NEW N, 0 \in N, \A n \in Nat : n \in N => n + 1 \in N
  PROVE  Nat \subseteq N
<1> DEFINE Less == {ss \in Nat \X Nat : ss[1] < ss[2]}
           Out  == Nat \ N
<1>1. IsWellFoundedOn(Less, Nat)
  BY NatLessThanWellFounded, Zenon DEF OpToRel
<1>2. ASSUME NEW a \in Nat, NEW b \in Nat, a < b
      PROVE  <<a, b>> \in Less
  BY <1>2
<1>3. SUFFICES ASSUME Out # {}
               PROVE  FALSE
  OBVIOUS
<1>4. Out \subseteq Nat
  OBVIOUS
<1> HIDE DEF Less, Out
<1>5. PICK x \in Out : \A y \in Out : ~ (<<y, x>> \in Less)
  BY <1>1, <1>3, <1>4, WFMin, Zenon
<1>6. x \in Nat /\ x \notin N
  BY DEF Out
<1>7. x - 1 \in Nat /\ x - 1 < x /\ (x - 1) + 1 = x
  <2>1. x # 0
    BY <1>6
  <2> QED
    BY <1>6, <2>1
<1>8. x - 1 \in Out
  BY <1>6, <1>7 DEF Out
<1>9. <<x - 1, x>> \in Less
  BY <1>2, <1>6, <1>7
<1> QED
  BY <1>5, <1>8, <1>9

\* The smallest and the largest member are the only ones there are.
LEMMA FirstIs ==
  ASSUME NEW S \in SUBSET Player, NEW p \in S, \A q \in S : p <= q
  PROVE  First(S) = p
<1> DEFINE f == First(S)
<1>1. f \in S /\ \A q \in S : f <= q
  BY FirstMember
<1> HIDE DEF f
<1>2. f <= p /\ p <= f /\ p \in Int /\ f \in Int
  BY <1>1, OpsAssumption DEF Player
<1>3. f = p
  BY <1>2
<1> QED
  BY <1>3 DEF f

LEMMA LastIs ==
  ASSUME NEW S \in SUBSET Player, NEW p \in S, \A q \in S : q <= p
  PROVE  Last(S) = p
<1>1. p \in S /\ \A q \in S : q <= p
  OBVIOUS
<1> DEFINE L == Last(S)
<1>2. L \in S /\ \A q \in S : q <= L
  BY <1>1 DEF Last
<1> HIDE DEF L
<1>3. L <= p /\ p <= L /\ p \in Int /\ L \in Int
  BY <1>1, <1>2, OpsAssumption DEF Player
<1>4. L = p
  BY <1>3
<1> QED
  BY <1>4 DEF L

\* A list that loses its first member, and one that loses others.
LEMMA FirstOfSmaller ==
  ASSUME NEW S \in SUBSET Player, NEW T \in SUBSET S, First(S) \in T, S # {}
  PROVE  First(T) = First(S)
<1>1. \A q \in S : First(S) <= q
  BY FirstMember
<1> DEFINE f == First(S)
<1>2. f \in T /\ \A q \in T : f <= q
  BY <1>1
<1>3. T \in SUBSET Player
  OBVIOUS
<1> HIDE DEF f
<1>4. First(T) = f
  BY <1>2, <1>3, FirstIs
<1> QED
  BY <1>4 DEF f

LEMMA LastOfSmaller ==
  ASSUME NEW S \in SUBSET Player, S # {}, NEW T, T = S \ {First(S)}, T # {}
  PROVE  Last(T) = Last(S)
<1>1. PICK x \in T : TRUE
  OBVIOUS
<1>2. T \in SUBSET Player
  OBVIOUS
<1> DEFINE f == First(S)
<1>3. f \in S /\ \A q \in S : f <= q
  BY FirstMember
<1> DEFINE L == Last(S)
<1>4. L \in S /\ \A q \in S : q <= L
  BY LastMaximal
<1>5. S \subseteq Int
  BY OpsAssumption DEF Player
<1>6. T = S \ {f}
  OBVIOUS
<1> HIDE DEF f, L
<1>7. L # f
  BY <1>1, <1>3, <1>4, <1>5, <1>6
<1>8. L \in T /\ \A q \in T : q <= L
  BY <1>4, <1>6, <1>7
<1>9. Last(T) = L
  BY <1>2, <1>8, LastIs
<1> QED
  BY <1>9 DEF L

-----------------------------------------------------------------------------
(***************************************************************************)
(* One eviction.                                                           *)
(***************************************************************************)

\* What remove_expired_lobby_players leaves behind of the room r: the members
\* who are not expired, with their flags and hands; a host and a turn.
NewHost(r, gone, kept) ==
  IF r.host \notin gone THEN r.host
  ELSE IF kept = {} THEN Last(gone)
  ELSE First(IF r.connected # {} THEN r.connected ELSE kept)

NewFlags(r, gone, kept) ==
  IF r.host \in gone /\ kept # {} THEN {NewHost(r, gone, kept)} ELSE r.isHost \ gone

NewTurn(r, kept) ==
  IF kept = {} THEN NoPlayer ELSE IF r.turn \in kept THEN r.turn ELSE First(kept)

Cleared(r, s, gone, kept) ==
  /\ s.players = kept /\ s.connected = r.connected
  /\ s.ready = r.ready \ gone /\ s.excluded = r.excluded \ gone
  /\ s.host = NewHost(r, gone, kept) /\ s.isHost = NewFlags(r, gone, kept)
  /\ s.turn = NewTurn(r, kept)
  /\ s.hand = [p \in Player |-> IF p \in gone THEN 0 ELSE r.hand[p]]
  /\ s.status = r.status /\ s.maxPlayers = r.maxPlayers /\ s.wrongAnswer = r.wrongAnswer
  /\ s.pending = r.pending /\ s.votes = r.votes
  /\ s.lastRound = r.lastRound /\ s.lastPass = r.lastPass

\* Two rooms that agree on every field are the same room.
LEMMA SameRoom ==
  ASSUME NEW r \in Room, NEW s \in Room, NEW t \in Room, NEW gone, NEW kept,
         Cleared(r, s, gone, kept), Cleared(r, t, gone, kept)
  PROVE  s = t
<1>1. /\ s.players = t.players /\ s.connected = t.connected
      /\ s.ready = t.ready /\ s.excluded = t.excluded
      /\ s.host = t.host /\ s.isHost = t.isHost /\ s.turn = t.turn /\ s.hand = t.hand
      /\ s.status = t.status /\ s.maxPlayers = t.maxPlayers
      /\ s.wrongAnswer = t.wrongAnswer /\ s.pending = t.pending /\ s.votes = t.votes
      /\ s.lastRound = t.lastRound /\ s.lastPass = t.lastPass
  BY Zenon DEF Cleared
<1> QED
  BY <1>1 DEF Room

\* The closed form has these fields.
LEMMA EvictAllClears ==
  ASSUME NEW r, Fit(r), r.status = "waiting", Expired(r) # {}
  PROVE  Cleared(r, EvictAll(r), Expired(r), r.players \ Expired(r))
<1> DEFINE gone == Expired(r)
           kept == r.players \ gone
           rest == [r EXCEPT !.players  = kept,
                             !.isHost   = @ \ gone,
                             !.ready    = @ \ gone,
                             !.excluded = @ \ gone,
                             !.hand     = [p \in Player |-> IF p \in gone THEN 0 ELSE @[p]]]
           next   == NextHost(rest)
           hosted == IF r.host \notin gone THEN rest
                     ELSE IF kept # {} THEN AssignHost(rest, next)
                     ELSE [rest EXCEPT !.host = Last(gone)]
<1>0. r \in Room /\ FlagsFit(r)
  BY DEF Fit, Settled
<1>1. /\ gone \in SUBSET Player /\ gone \subseteq r.players /\ gone # {}
      /\ gone \intersect r.connected = {}
  BY <1>0 DEF Expired, Room
<1>2. EvictAll(r) = ResolveTurn(hosted)
  BY DEF EvictAll
<1> HIDE DEF gone
<1>3. rest \in Room
  BY <1>0, <1>1 DEF Room
<1>4. /\ rest.players = kept /\ rest.connected = r.connected
      /\ rest.ready = r.ready \ gone /\ rest.excluded = r.excluded \ gone
      /\ rest.host = r.host /\ rest.isHost = r.isHost \ gone /\ rest.turn = r.turn
      /\ rest.hand = [p \in Player |-> IF p \in gone THEN 0 ELSE r.hand[p]]
      /\ rest.status = r.status /\ rest.maxPlayers = r.maxPlayers
      /\ rest.wrongAnswer = r.wrongAnswer /\ rest.pending = r.pending /\ rest.votes = r.votes
      /\ rest.lastRound = r.lastRound /\ rest.lastPass = r.lastPass
  BY <1>0 DEF Room
<1> HIDE DEF rest
<1>5. next = First(IF r.connected # {} THEN r.connected ELSE kept)
  BY <1>4 DEF NextHost
<1>6. kept # {} => next \in kept
  BY <1>0, <1>1, <1>3, <1>4, NextHostMember DEF FlagsFit
<1> HIDE DEF next
<1>7. /\ hosted.host = NewHost(r, gone, kept) /\ hosted.isHost = NewFlags(r, gone, kept)
      /\ \E h, f : hosted = [rest EXCEPT !.host = h, !.isHost = f]
  <2>1. CASE r.host \notin gone
    <3>1. rest = [rest EXCEPT !.host = rest.host, !.isHost = rest.isHost]
      BY <1>3 DEF Room
    <3>2. hosted = rest
      BY <2>1
    <3>3. hosted = [rest EXCEPT !.host = rest.host, !.isHost = rest.isHost]
      BY <3>1, <3>2
    <3>4. hosted.host = NewHost(r, gone, kept) /\ hosted.isHost = NewFlags(r, gone, kept)
      BY <1>4, <2>1, <3>2 DEF NewHost, NewFlags
    <3> HIDE DEF hosted
    <3> QED
      BY <3>3, <3>4
  <2>2. CASE r.host \in gone /\ kept # {}
    <3>1. next # r.host
      BY <1>6, <2>2
    <3>2. AssignHost(rest, next) = [rest EXCEPT !.host = next, !.isHost = {next}]
      BY <1>4, <3>1 DEF AssignHost
    <3> QED
      BY <1>3, <1>5, <2>2, <3>2 DEF NewHost, NewFlags, Room
  <2>3. CASE r.host \in gone /\ kept = {}
    <3>1. [rest EXCEPT !.host = Last(gone)]
            = [rest EXCEPT !.host = Last(gone), !.isHost = rest.isHost]
      BY <1>3 DEF Room
    <3>2. hosted = [rest EXCEPT !.host = Last(gone)]
      BY <2>3
    <3>3. hosted = [rest EXCEPT !.host = Last(gone), !.isHost = rest.isHost]
      BY <3>1, <3>2
    <3>4. NewHost(r, gone, kept) = Last(gone) /\ NewFlags(r, gone, kept) = rest.isHost
      BY <1>4, <2>3 DEF NewHost, NewFlags
    <3> DEFINE h == Last(gone)
               f == rest.isHost
    <3> HIDE DEF hosted, h, f
    <3>5. hosted = [rest EXCEPT !.host = h, !.isHost = f]
      BY <3>3 DEF h, f
    <3>6. hosted.host = h /\ hosted.isHost = f
      BY <1>3, <3>5 DEF Room
    <3> QED
      BY <3>4, <3>5, <3>6 DEF h, f
  <2> QED
    BY <2>1, <2>2, <2>3
<1>8. hosted \in Room
  <2>1. CASE r.host \notin gone
    BY <1>3, <2>1
  <2>2. CASE r.host \in gone /\ kept # {}
    <3>1. next \in Player
      BY <1>0, <1>6, <2>2 DEF Room
    <3> QED
      BY <1>3, <2>2, <3>1, AssignHostType
  <2>3. CASE r.host \in gone /\ kept = {}
    <3>1. Last(gone) \in Player
      BY <1>1, LastMaximal
    <3> QED
      BY <1>3, <2>3, <3>1 DEF Room
  <2> QED
    BY <2>1, <2>2, <2>3
<1> HIDE DEF hosted
<1>9. /\ hosted.players = kept /\ hosted.connected = r.connected
      /\ hosted.ready = r.ready \ gone /\ hosted.excluded = r.excluded \ gone
      /\ hosted.turn = r.turn
      /\ hosted.hand = [p \in Player |-> IF p \in gone THEN 0 ELSE r.hand[p]]
      /\ hosted.status = r.status /\ hosted.maxPlayers = r.maxPlayers
      /\ hosted.wrongAnswer = r.wrongAnswer
      /\ hosted.pending = r.pending /\ hosted.votes = r.votes
      /\ hosted.lastRound = r.lastRound /\ hosted.lastPass = r.lastPass
  BY <1>3, <1>4, <1>7 DEF Room
<1>10. Cleared(r, ResolveTurn(hosted), gone, kept)
  <2>1. ResolveTurn(hosted) = [hosted EXCEPT !.turn = NewTurn(r, kept)]
    BY <1>9 DEF ResolveTurn, NewTurn
  <2> QED
    BY <1>7, <1>8, <1>9, <2>1 DEF Cleared, Room
<1> QED
  BY <1>2, <1>10 DEF gone
\* _evict_expired_lobby_player has them for the one player it evicts.
LEMMA EvictOneClears ==
  ASSUME NEW r, Fit(r), r.status = "waiting", Expired(r) # {},
         NEW c, c = First(Expired(r))
  PROVE  Cleared(r, EvictOne(r), {c}, r.players \ {c})
<1> DEFINE rest   == Without(r, c)
           next   == NextHost(rest)
           hosted == IF r.host = c /\ rest.players # {} THEN AssignHost(rest, next) ELSE rest
           kept   == r.players \ {c}
<1>0. r \in Room /\ FlagsFit(r)
  BY DEF Fit, Settled
<1>1. c \in Expired(r)
  BY <1>0, FirstMember DEF Expired, Room
<1>2. c \in r.players /\ c \notin r.connected /\ c \in Player
  BY <1>0, <1>1 DEF Expired, Room
<1>3. EvictOne(r) = ResolveTurn(hosted)
  BY DEF EvictOne
<1>4. rest \in Room
  BY <1>0, <1>2, WithoutType
<1>5. /\ rest.players = kept /\ rest.connected = r.connected
      /\ rest.ready = r.ready \ {c} /\ rest.excluded = r.excluded \ {c}
      /\ rest.host = r.host /\ rest.isHost = r.isHost \ {c} /\ rest.turn = r.turn
      /\ rest.hand = [r.hand EXCEPT ![c] = 0]
      /\ rest.status = r.status /\ rest.maxPlayers = r.maxPlayers
      /\ rest.wrongAnswer = r.wrongAnswer /\ rest.pending = r.pending /\ rest.votes = r.votes
      /\ rest.lastRound = r.lastRound /\ rest.lastPass = r.lastPass
  BY <1>0, <1>2 DEF Without, Room
<1>6. [r.hand EXCEPT ![c] = 0] = [p \in Player |-> IF p \in {c} THEN 0 ELSE r.hand[p]]
  BY <1>0 DEF Room
<1> HIDE DEF rest
<1>7. next = First(IF r.connected # {} THEN r.connected ELSE kept)
  BY <1>5 DEF NextHost
<1>8. kept # {} => next \in kept
  BY <1>0, <1>2, <1>4, <1>5, NextHostMember DEF FlagsFit
<1> HIDE DEF next
<1>9. /\ hosted.host = NewHost(r, {c}, kept) /\ hosted.isHost = NewFlags(r, {c}, kept)
      /\ \E h, f : hosted = [rest EXCEPT !.host = h, !.isHost = f]
  <2>1. CASE r.host = c /\ kept # {}
    <3>1. next # r.host
      BY <1>8, <2>1
    <3>2. AssignHost(rest, next) = [rest EXCEPT !.host = next, !.isHost = {next}]
      BY <1>5, <3>1 DEF AssignHost
    <3>3. hosted = [rest EXCEPT !.host = next, !.isHost = {next}]
      BY <1>5, <2>1, <3>2
    <3>4. NewHost(r, {c}, kept) = next /\ NewFlags(r, {c}, kept) = {next}
      BY <1>7, <2>1 DEF NewHost, NewFlags
    <3> HIDE DEF hosted
    <3>5. hosted.host = next /\ hosted.isHost = {next}
      BY <1>4, <3>3 DEF Room
    <3> QED
      BY <3>3, <3>4, <3>5
  <2>2. CASE ~(r.host = c /\ kept # {})
    <3>1. rest = [rest EXCEPT !.host = rest.host, !.isHost = rest.isHost]
      BY <1>4 DEF Room
    <3>2. hosted = rest
      BY <1>5, <2>2
    <3>3. Last({c}) = c
      BY <1>2, LastMaximal
    <3>4. rest.host = NewHost(r, {c}, kept) /\ rest.isHost = NewFlags(r, {c}, kept)
      BY <1>5, <2>2, <3>3 DEF NewHost, NewFlags
    <3> HIDE DEF hosted
    <3> QED
      BY <3>1, <3>2, <3>4
  <2> QED
    BY <2>1, <2>2
<1>10. hosted \in Room
  <2>1. CASE r.host = c /\ kept # {}
    <3>1. next \in Player
      BY <1>0, <1>8, <2>1 DEF Room
    <3> QED
      BY <1>4, <1>5, <2>1, <3>1, AssignHostType
  <2>2. CASE ~(r.host = c /\ kept # {})
    BY <1>4, <1>5, <2>2
  <2> QED
    BY <2>1, <2>2
<1> HIDE DEF hosted
<1>11. /\ hosted.players = kept /\ hosted.connected = r.connected
       /\ hosted.ready = r.ready \ {c} /\ hosted.excluded = r.excluded \ {c}
       /\ hosted.turn = r.turn
       /\ hosted.hand = [p \in Player |-> IF p \in {c} THEN 0 ELSE r.hand[p]]
       /\ hosted.status = r.status /\ hosted.maxPlayers = r.maxPlayers
       /\ hosted.wrongAnswer = r.wrongAnswer
       /\ hosted.pending = r.pending /\ hosted.votes = r.votes
       /\ hosted.lastRound = r.lastRound /\ hosted.lastPass = r.lastPass
  <2>1. PICK h, f : hosted = [rest EXCEPT !.host = h, !.isHost = f]
    BY <1>9
  <2> QED
    BY <1>4, <1>5, <1>6, <2>1 DEF Room
<1>12. Cleared(r, ResolveTurn(hosted), {c}, kept)
  <2>1. ResolveTurn(hosted) = [hosted EXCEPT !.turn = NewTurn(r, kept)]
    BY <1>11 DEF ResolveTurn, NewTurn
  <2> QED
    BY <1>9, <1>10, <1>11, <2>1 DEF Cleared, Room
<1> QED
  BY <1>3, <1>12 DEF kept

\* Who is expired after it: everybody who was, but the one evicted.
LEMMA OneFewerExpired ==
  ASSUME NEW r, Fit(r), NEW c \in Expired(r), NEW s, Cleared(r, s, {c}, r.players \ {c})
  PROVE  /\ Expired(s) = Expired(r) \ {c}
         /\ s.players \ Expired(s) = r.players \ Expired(r)
<1>1. s.players = r.players \ {c} /\ s.connected = r.connected /\ s.excluded = r.excluded \ {c}
  BY DEF Cleared
<1>2. c \in r.players
  BY DEF Expired
<1>3. Expired(s) = Expired(r) \ {c}
  BY <1>1 DEF Expired
<1> QED
  BY <1>1, <1>2, <1>3
\* Evicting c and then the rest is evicting everybody: the host role may pass
\* through several hands, and the turn over several members, and both end where
\* the closed form puts them.
LEMMA ClearedInTwo ==
  ASSUME NEW r, Fit(r), NEW c, Expired(r) # {}, c = First(Expired(r)),
         NEW s, s \in Room, Cleared(r, s, {c}, r.players \ {c}),
         NEW t, Cleared(s, t, Expired(r) \ {c}, r.players \ Expired(r))
  PROVE  Cleared(r, t, Expired(r), r.players \ Expired(r))
<1> DEFINE gone == Expired(r)
           kept == r.players \ gone
           later == gone \ {c}
           left  == r.players \ {c}
<1>0. r \in Room /\ FlagsFit(r) /\ RolesFit(r)
  BY DEF Fit, Settled
<1>1. /\ gone \in SUBSET Player /\ gone \subseteq r.players /\ gone # {}
      /\ gone \intersect r.connected = {} /\ r.connected \subseteq kept
      /\ left \in SUBSET Player /\ kept \in SUBSET Player
  BY <1>0 DEF Expired, Room, FlagsFit
<1>2. c \in gone /\ gone = later \union {c} /\ kept = left \ later /\ later \subseteq left
      /\ kept \subseteq left /\ c \notin left /\ c \notin later
  BY <1>1, FirstMember
<1>3. later # {} => Last(later) = Last(gone)
  BY <1>1, LastOfSmaller
<1>4. Last({c}) = c
  BY <1>1, <1>2, LastMaximal
<1>5. First(left) \in kept => First(kept) = First(left)
  BY <1>1, <1>2, FirstOfSmaller
<1>6. left # {} => First(left) \in left
  BY <1>1, FirstMember
<1>7. r.connected # {} => First(r.connected) \in kept
  BY <1>1, FirstMember
<1>8. kept # {} => First(kept) \in kept
  BY <1>1, FirstMember
<1>9. NoPlayer \notin left
  BY <1>1, OpsAssumption DEF Player, NoPlayer
<1>10. Cleared(r, s, {c}, left) /\ Cleared(s, t, later, kept)
  OBVIOUS
<1>11. r.host \in gone => r.isHost = {r.host}
  BY <1>0, <1>1 DEF RolesFit
<1> HIDE DEF gone, kept, later, left
<1>12. s.host = NewHost(r, {c}, left) /\ s.isHost = NewFlags(r, {c}, left)
      /\ s.turn = NewTurn(r, left) /\ s.connected = r.connected
  BY <1>10 DEF Cleared
<1>13. NewTurn(s, kept) = NewTurn(r, kept)
  BY <1>2, <1>5, <1>6, <1>9, <1>12 DEF NewTurn
<1>14. NewHost(s, later, kept) = NewHost(r, gone, kept)
  <2>1. CASE r.host \notin gone
    <3>1. s.host = r.host
      BY <1>2, <1>12, <2>1 DEF NewHost
    <3> QED
      BY <1>2, <2>1, <3>1 DEF NewHost
  <2>2. CASE r.host \in later
    <3>1. s.host = r.host
      BY <1>2, <1>12, <2>2 DEF NewHost
    <3> QED
      BY <1>2, <1>3, <1>12, <2>2, <3>1 DEF NewHost
  <2>3. CASE r.host = c
    <3>1. CASE left = {}
      <4>1. s.host = c /\ later = {} /\ kept = {} /\ gone = {c}
        BY <1>2, <1>4, <1>12, <2>3, <3>1 DEF NewHost
      <4> QED
        BY <1>2, <1>4, <2>3, <4>1 DEF NewHost
    <3>2. CASE left # {} /\ r.connected # {}
      <4>1. s.host = First(r.connected)
        BY <1>12, <2>3, <3>2 DEF NewHost
      <4>2. s.host \in kept /\ s.host \notin later /\ kept # {}
        BY <1>2, <1>7, <3>2, <4>1
      <4> QED
        BY <1>2, <2>3, <3>2, <4>1, <4>2 DEF NewHost
    <3>3. CASE left # {} /\ r.connected = {}
      <4>1. s.host = First(left)
        BY <1>12, <2>3, <3>3 DEF NewHost
      <4>2. CASE First(left) \in kept
        BY <1>2, <1>5, <2>3, <3>3, <4>1, <4>2 DEF NewHost
      <4>3. CASE First(left) \in later
        <5>1. s.host \in later /\ later # {} /\ r.host \in gone
          BY <1>2, <2>3, <4>1, <4>3
        <5> QED
          BY <1>3, <1>12, <3>3, <5>1 DEF NewHost
      <4> QED
        BY <1>2, <1>6, <3>3, <4>2, <4>3
    <3> QED
      BY <3>1, <3>2, <3>3
  <2> QED
    BY <1>2, <2>1, <2>2, <2>3
<1>15. NewFlags(s, later, kept) = NewFlags(r, gone, kept)
  <2>1. CASE r.host \notin gone
    <3>1. s.host = r.host /\ s.isHost = r.isHost \ {c}
      BY <1>2, <1>12, <2>1 DEF NewHost, NewFlags
    <3> QED
      BY <1>2, <2>1, <3>1 DEF NewFlags
  <2>2. CASE r.host \in later
    <3>1. s.host = r.host /\ s.isHost = r.isHost \ {c} /\ r.host \in gone
      BY <1>2, <1>12, <2>2 DEF NewHost, NewFlags
    <3> QED
      BY <1>2, <1>14, <2>2, <3>1 DEF NewFlags
  <2>3. CASE r.host = c /\ kept # {}
    <3>1. left # {} /\ r.host \in gone
      BY <1>2, <2>3
    <3>2. s.isHost = {s.host}
      BY <1>12, <2>3, <3>1 DEF NewFlags
    <3>3. s.host \in later => NewFlags(s, later, kept) = {NewHost(s, later, kept)}
      BY <2>3 DEF NewFlags
    <3>4. s.host \notin later => /\ NewFlags(s, later, kept) = {s.host}
                                 /\ NewHost(s, later, kept) = s.host
      BY <3>2 DEF NewFlags, NewHost
    <3>5. NewFlags(r, gone, kept) = {NewHost(r, gone, kept)}
      BY <2>3, <3>1 DEF NewFlags
    <3> QED
      BY <1>14, <3>3, <3>4, <3>5
  <2>4. CASE r.host = c /\ kept = {}
    <3>1. left \subseteq later
      BY <1>2, <2>4
    <3>2. NewFlags(r, gone, kept) = {}
      BY <1>2, <1>11, <2>4 DEF NewFlags
    <3>3. NewFlags(s, later, kept) = s.isHost \ later
      BY <2>4 DEF NewFlags
    <3>4. CASE left = {}
      <4>1. s.isHost = r.isHost \ {c}
        BY <1>12, <3>4 DEF NewFlags
      <4> QED
        BY <1>2, <1>11, <2>4, <3>2, <3>3, <4>1
    <3>5. CASE left # {}
      <4>1. s.isHost = {s.host} /\ s.host = First(IF r.connected # {} THEN r.connected ELSE left)
        BY <1>12, <2>4, <3>5 DEF NewFlags, NewHost
      <4>2. s.host \in later
        BY <1>6, <1>7, <2>4, <3>1, <3>5, <4>1
      <4> QED
        BY <3>2, <3>3, <4>1, <4>2
    <3> QED
      BY <3>4, <3>5
  <2> QED
    BY <1>2, <2>1, <2>2, <2>3, <2>4
<1>16. t.hand = [p \in Player |-> IF p \in gone THEN 0 ELSE r.hand[p]]
  BY <1>2, <1>10 DEF Cleared
<1>17. Cleared(r, t, gone, kept)
  BY <1>2, <1>10, <1>13, <1>14, <1>15, <1>16 DEF Cleared
<1> QED
  BY <1>17 DEF gone, kept
\* The closed form and the members who will stay are invariants of the loop,
\* and each pass evicts the first of the expired ones.
LEMMA EvictionStep ==
  ASSUME NEW r, Fit(r), r.status = "waiting", Expired(r) # {}
  PROVE  LET s == EvictOne(r)
         IN  /\ Fit(s) /\ s.status = "waiting"
             /\ Expired(s) = Expired(r) \ {First(Expired(r))}
             /\ EvictAll(s) = EvictAll(r)
<1> DEFINE s    == EvictOne(r)
           c    == First(Expired(r))
           kept == r.players \ Expired(r)
<1>1. Fit(s) /\ s.status = "waiting"
  BY EvictOneFits
<1>2. r \in Room /\ s \in Room /\ EvictAll(r) \in Room /\ EvictAll(s) \in Room
  <2>1. Fit(EvictAll(r)) /\ Fit(EvictAll(s))
    BY <1>1, EvictAllFits
  <2> QED
    BY <1>1, <2>1 DEF Fit, Settled
<1>3. Cleared(r, s, {c}, r.players \ {c})
  BY EvictOneClears
<1>4. c \in Expired(r)
  BY <1>2, FirstMember DEF Expired, Room
<1> HIDE DEF s, c
<1>5. Expired(s) = Expired(r) \ {c} /\ s.players \ Expired(s) = kept
  BY <1>3, <1>4, OneFewerExpired
<1>6. Cleared(s, EvictAll(s), Expired(s), kept)
  <2>1. CASE Expired(s) # {}
    BY <1>1, <1>5, <2>1, EvictAllClears
  <2>2. CASE Expired(s) = {}
    <3>1. EvictAll(s) = s
      BY <2>2 DEF EvictAll
    <3>2. s.players = kept
      BY <1>5, <2>2
    <3>3. s.turn = NewTurn(s, kept)
      <4>1. s.turn = NewTurn(r, s.players) /\ s.players \subseteq r.players
        BY <1>3 DEF Cleared
      <4>2. s.players # {} => First(s.players) \in s.players
        BY <1>2, FirstMember DEF Room
      <4> QED
        BY <3>2, <4>1, <4>2 DEF NewTurn
    <3>4. s.hand = [p \in Player |-> IF p \in {} THEN 0 ELSE s.hand[p]]
      BY <1>2 DEF Room
    <3>5. s.host = NewHost(s, {}, kept) /\ s.isHost = NewFlags(s, {}, kept)
      BY DEF NewHost, NewFlags
    <3> QED
      BY <2>2, <3>1, <3>2, <3>3, <3>4, <3>5 DEF Cleared
  <2> QED
    BY <2>1, <2>2
<1>7. Cleared(r, EvictAll(s), Expired(r), kept)
  <2>1. c = First(Expired(r))
    BY DEF c
  <2> QED
    BY <1>2, <1>3, <1>5, <1>6, <2>1, ClearedInTwo
<1>8. Cleared(r, EvictAll(r), Expired(r), kept)
  BY EvictAllClears
<1>9. EvictAll(s) = EvictAll(r)
  <2> HIDE DEF kept
  <2> QED
    BY <1>2, <1>7, <1>8, SameRoom
<1> QED
  BY <1>1, <1>5, <1>9 DEF s, c

-----------------------------------------------------------------------------
(***************************************************************************)
(* The loop.                                                               *)
(***************************************************************************)

\* The rooms the loop passes through.
Passes(r, m, f) ==
  f = [n \in 0 .. m |-> IF n = 0 THEN r ELSE EvictOne(f[n - 1])]

\* There are such rooms, for any number of evictions.
LEMMA PassesExist ==
  ASSUME NEW r, NEW m \in Nat
  PROVE  \E f : Passes(r, m, f)
<1> DEFINE N == {n \in Nat : \E f : Passes(r, n, f)}
<1>1. 0 \in N
  <2> DEFINE f == [n \in 0 .. 0 |-> r]
  <2>1. f = [n \in 0 .. 0 |-> IF n = 0 THEN r ELSE EvictOne(f[n - 1])]
    OBVIOUS
  <2> QED
    BY <2>1 DEF Passes
<1>2. ASSUME NEW n \in Nat, n \in N
      PROVE  n + 1 \in N
  <2>1. PICK f : Passes(r, n, f)
    BY <1>2
  <2> DEFINE g == [i \in 0 .. n + 1 |-> IF i \in 0 .. n THEN f[i] ELSE EvictOne(f[n])]
  <2>2. \A i \in 0 .. n + 1 : g[i] = IF i = 0 THEN r ELSE EvictOne(g[i - 1])
    <3> TAKE i \in 0 .. n + 1
    <3>1. CASE i = 0
      BY <2>1, <3>1 DEF Passes
    <3>2. CASE i \in 1 .. n
      <4>1. i \in 0 .. n /\ i - 1 \in 0 .. n /\ i # 0 /\ i \in 0 .. n + 1 /\ i - 1 \in 0 .. n + 1
        BY <3>2
      <4>2. f[i] = EvictOne(f[i - 1])
        BY <2>1, <4>1 DEF Passes
      <4> QED
        BY <4>1, <4>2
    <3>3. CASE i = n + 1
      <4>1. i \notin 0 .. n /\ i - 1 = n /\ n \in 0 .. n /\ n \in 0 .. n + 1 /\ i # 0
        BY <3>3
      <4> QED
        BY <4>1
    <3> QED
      BY <3>1, <3>2, <3>3
  <2>3. g = [i \in 0 .. n + 1 |-> g[i]]
    OBVIOUS
  <2> HIDE DEF g
  <2>4. Passes(r, n + 1, g)
    BY <2>2, <2>3 DEF Passes
  <2> QED
    BY <2>4
<1>3. m \in N
  <2> HIDE DEF N
  <2> QED
    BY <1>1, <1>2, InductionInSet
<1> QED
  BY <1>3

\* The loop goes through them.
LEMMA LoopPasses ==
  ASSUME NEW r
  PROVE  \E f : Passes(r, MaxJoins, f) /\ EvictLoop(r) = f[MaxJoins]
<1>1. PICK g : Passes(r, MaxJoins, g)
  BY PassesExist, OpsAssumption
<1> DEFINE Is(f) == f = [n \in 0 .. MaxJoins |-> IF n = 0 THEN r ELSE EvictOne(f[n - 1])]
           after == CHOOSE f : Is(f)
<1>2. Is(g)
  BY <1>1 DEF Passes
<1>3. EvictLoop(r) = after[MaxJoins]
  BY Zenon DEF EvictLoop
<1>4. Is(after)
  <2> HIDE DEF Is
  <2> QED
    BY <1>2, Zenon
<1>5. Passes(r, MaxJoins, after)
  BY <1>4, Zenon DEF Passes
<1> HIDE DEF after
<1> QED
  BY <1>3, <1>5

\* It ends with the closed form, and with nobody expired.
LEMMA LoopIsClosedForm ==
  ASSUME NEW r, Fit(r), r.status = "waiting"
  PROVE  EvictLoop(r) = EvictAll(r) /\ Expired(EvictLoop(r)) = {}
<1>1. PICK f : Passes(r, MaxJoins, f) /\ EvictLoop(r) = f[MaxJoins]
  BY LoopPasses
<1> DEFINE Good(s, n) == /\ Fit(s) /\ s.status = "waiting" /\ EvictAll(s) = EvictAll(r)
                         /\ \A p \in Expired(s) : n < p
           N == {n \in Nat : n <= MaxJoins => Good(f[n], n)}
<1>2. MaxJoins \in Nat
  BY OpsAssumption
<1>3. ASSUME NEW s, Fit(s)
      PROVE  Expired(s) \in SUBSET Player
  BY <1>3 DEF Expired, Fit, Settled, Room
<1>4. 0 \in N
  <2>1. f[0] = r
    BY <1>1, <1>2 DEF Passes
  <2>2. \A p \in Expired(r) : 0 < p
    BY <1>2, <1>3 DEF Player
  <2> QED
    BY <2>1, <2>2
<1>5. ASSUME NEW n \in Nat, n \in N
      PROVE  n + 1 \in N
  <2> HIDE DEF Good
  <2> SUFFICES ASSUME n + 1 <= MaxJoins
               PROVE  Good(f[n + 1], n + 1)
    OBVIOUS
  <2>1. n <= MaxJoins /\ n + 1 \in 0 .. MaxJoins /\ n + 1 # 0 /\ (n + 1) - 1 = n
    BY <1>2
  <2> DEFINE s == f[n]
             t == EvictOne(s)
  <2>2. f[n + 1] = t
    BY <1>1, <2>1 DEF Passes
  <2>3. Good(s, n)
    BY <1>5, <2>1
  <2> HIDE DEF s
  <2> USE DEF Good
  <2>4. CASE Expired(s) = {}
    <3>1. t = s
      BY <2>4 DEF EvictOne
    <3> HIDE DEF t
    <3>2. Good(t, n + 1)
      BY <2>3, <2>4, <3>1
    <3> QED
      BY <2>2, <3>2
  <2>5. CASE Expired(s) # {}
    <3> DEFINE c == First(Expired(s))
    <3>1. Fit(t) /\ t.status = "waiting" /\ Expired(t) = Expired(s) \ {c} /\ EvictAll(t) = EvictAll(s)
      BY <2>3, <2>5, EvictionStep
    <3>2. c \in Expired(s) /\ (\A p \in Expired(s) : c <= p) /\ Expired(s) \subseteq Nat
      BY <1>2, <1>3, <2>3, <2>5, FirstMember DEF Player
    <3> HIDE DEF c, t
    <3>3. \A p \in Expired(t) : n + 1 < p
      BY <2>3, <3>1, <3>2
    <3>4. Good(t, n + 1)
      BY <2>3, <3>1, <3>3
    <3> QED
      BY <2>2, <3>4
  <2> QED
    BY <2>4, <2>5
<1>6. MaxJoins \in N
  <2> HIDE DEF N
  <2> QED
    BY <1>2, <1>4, <1>5, InductionInSet
<1> DEFINE last == f[MaxJoins]
<1>7. Good(last, MaxJoins)
  <2> HIDE DEF Good
  <2> QED
    BY <1>2, <1>6
<1> HIDE DEF last
<1>8. Expired(last) = {}
  BY <1>2, <1>3, <1>7 DEF Player
<1>9. EvictAll(last) = last
  BY <1>8 DEF EvictAll
<1> QED
  BY <1>1, <1>7, <1>8, <1>9 DEF last

\* EvictAllIsTheLoop: in every reachable lobby the closed form of start_game's
\* evictions is what the loop of remove_expired_lobby_players ends with, and
\* it ends with nobody expired in the room.
THEOREM EvictionsAreTheLoop == Spec => []EvictAllIsTheLoop
<1>1. SafetyInv => EvictAllIsTheLoop
  BY LoopIsClosedForm DEF SafetyInv, EvictAllIsTheLoop
<1> QED
  BY <1>1, SafetyHolds, PTL
=============================================================================
