-------------------------- MODULE RoomGame_proofs --------------------------
(***************************************************************************)
(* Type correctness of RoomGame, for every number of joins, every set of   *)
(* capacities, either rule and any hand size.                              *)
(*                                                                         *)
(* What is not obvious about it is that the host and the turn are always   *)
(* numbers of players: each is computed by indexing into a list that       *)
(* shrank, was filtered or wraps around.  Each operator on rooms is shown  *)
(* to return a room; TypeNext puts them together, action by action.        *)
(***************************************************************************)
EXTENDS RoomGame, WellFoundedInduction, TLAPS

\* players[0] of a nonempty list is its smallest number: the CHOOSE of First has
\* a witness, by well-foundedness of the numbers.
LEMMA FirstMember ==
  ASSUME NEW S \in SUBSET Player, S # {}
  PROVE  First(S) \in S /\ \A q \in S : First(S) <= q
<1> DEFINE Less == {ss \in Nat \X Nat : ss[1] < ss[2]}
<1>1. S \subseteq Nat
  BY OpsAssumption DEF Player
<1>2. IsWellFoundedOn(Less, Nat)
  BY NatLessThanWellFounded, Zenon DEF OpToRel
<1>3. ASSUME NEW a \in Nat, NEW b \in Nat, a < b
      PROVE  <<a, b>> \in Less
  BY <1>3
<1> HIDE DEF Less
<1>4. PICK x \in S : \A y \in S : ~ (<<y, x>> \in Less)
  BY <1>1, <1>2, WFMin, Zenon
<1>5. \A y \in S : x <= y
  <2> TAKE y \in S
  <2>1. x \in Nat /\ y \in Nat
    BY <1>1
  <2>2. ~ (y < x)
    BY <2>1, <1>3, <1>4, Zenon
  <2> QED
    BY <2>1, <2>2
<1> QED
  BY <1>5 DEF First

\* The last of a nonempty list is its largest number: Last is First, counted
\* from the end.
LEMMA LastMaximal ==
  ASSUME NEW S \in SUBSET Player, S # {}
  PROVE  Last(S) \in S /\ \A q \in S : q <= Last(S)
<1> DEFINE mirrored == {MaxJoins + 1 - q : q \in S}
<1>1. mirrored \in SUBSET Player /\ mirrored # {}
  <2>1. \A q \in S : MaxJoins + 1 - q \in Player
    BY OpsAssumption DEF Player
  <2>2. PICK q \in S : TRUE
    OBVIOUS
  <2>3. MaxJoins + 1 - q \in mirrored
    BY <2>2
  <2> QED
    BY <2>1, <2>3
<1> HIDE DEF mirrored
<1>2. First(mirrored) \in mirrored /\ \A m \in mirrored : First(mirrored) <= m
  BY <1>1, FirstMember
<1>3. PICK x \in S : First(mirrored) = MaxJoins + 1 - x
  BY <1>2 DEF mirrored
<1>4. \A q \in S : MaxJoins + 1 - q \in mirrored
  BY DEF mirrored
<1>5. \A q \in S : q <= x
  <2> TAKE q \in S
  <2>1. MaxJoins + 1 - x <= MaxJoins + 1 - q
    BY <1>2, <1>3, <1>4
  <2> QED
    BY <2>1, OpsAssumption DEF Player
<1> QED
  BY <1>5 DEF Last

\* The player after any other, wrapped around, is in the turn order.
LEMMA SuccessorMember ==
  ASSUME NEW S \in SUBSET Player, S # {}, NEW p \in Player
  PROVE  Successor(S, p) \in S
<1> DEFINE after == {q \in S : p < q}
<1>1. after \in SUBSET S
  OBVIOUS
<1>2. after # {} => First(after) \in S
  BY <1>1, FirstMember
<1>3. First(S) \in S
  BY FirstMember
<1> QED
  BY <1>2, <1>3 DEF Successor

\* The empty ballot is a ballot.
LEMMA NoVotesType == NoVotes \in [Player -> VoteChoice \union {NoVote}]
  BY DEF NoVotes

\* A room from which a player was taken is a room.
LEMMA WithoutType ==
  ASSUME NEW r \in Room, NEW p \in Player
  PROVE  Without(r, p) \in Room
  BY DEF Room, Without

\* _assign_host gives the role to a player.
LEMMA AssignHostType ==
  ASSUME NEW r \in Room, NEW p \in Player
  PROVE  AssignHost(r, p) \in Room
  BY DEF Room, AssignHost

\* A room with members has a next host.
LEMMA NextHostType ==
  ASSUME NEW r \in Room, r.players # {}
  PROVE  NextHost(r) \in Player
  BY FirstMember DEF Room, NextHost

\* _resolve_current_turn gives the turn to a player or to nobody.
LEMMA ResolveTurnType ==
  ASSUME NEW r \in Room
  PROVE  ResolveTurn(r) \in Room
<1>1. r.players # {} => First(r.players) \in Player
  BY FirstMember DEF Room
<1> QED
  BY <1>1 DEF Room, ResolveTurn

\* _advance_turn computes a player id from an index into the turn order: the
\* index is always in range.
LEMMA AdvanceTurnType ==
  ASSUME NEW r \in Room
  PROVE  AdvanceTurn(r) \in Room
<1> DEFINE present == r.players \ r.excluded
           order   == IF present # {} THEN present ELSE r.players
<1>1. order \in SUBSET Player
  BY DEF Room
<1> HIDE DEF order
<1>2. order # {} => First(order) \in Player
  BY <1>1, FirstMember
<1>3. ASSUME order # {}, r.turn \in order
      PROVE  Successor(order, r.turn) \in Player
  BY <1>1, <1>3, SuccessorMember
<1>4. AdvanceTurn(r) = [r EXCEPT !.turn =
                          IF order = {} THEN NoPlayer
                          ELSE IF @ \notin order THEN First(order)
                          ELSE Successor(order, @)]
  BY DEF AdvanceTurn, order
<1>5. (IF order = {} THEN NoPlayer
       ELSE IF r.turn \notin order THEN First(order)
       ELSE Successor(order, r.turn)) \in Player \union {NoPlayer}
  BY <1>2, <1>3
<1> QED
  BY <1>4, <1>5 DEF Room

\* Resolving a round keeps hands, votes and status in their types.
LEMMA ResolveRoundType ==
  ASSUME NEW r \in Room, r.pending # NoPlayer
  PROVE  ResolveRound(r) \in Room
<1> DEFINE gain == IF Accepted(r.votes) THEN 0 ELSE Penalty(r)
           hand == [r.hand EXCEPT ![r.pending] = @ + gain]
<1>1. gain \in Nat
  BY DEF Penalty
<1> HIDE DEF gain
<1>2. hand \in [Player -> Nat]
  BY <1>1 DEF Room
<1> HIDE DEF hand
<1>3. ResolveRound(r) = [r EXCEPT !.hand      = hand,
                                  !.lastRound = r.pending,
                                  !.pending   = NoPlayer,
                                  !.votes     = NoVotes,
                                  !.status    = IF \E p \in r.players : hand[p] = 0
                                                THEN "finished" ELSE @]
  BY DEF ResolveRound, hand, gain
<1> QED
  BY <1>2, <1>3, NoVotesType DEF Room, RoomStatus

\* reconcile_pending_round returns a room.
LEMMA ReconcilePendingType ==
  ASSUME NEW r \in Room
  PROVE  ReconcilePendingRound(r) \in Room
<1> DEFINE eligible == EligibleVoters(r)
           counted  == [r EXCEPT !.votes =
                          [v \in Player |-> IF v \in eligible THEN @[v] ELSE NoVote]]
<1>1. counted \in Room
  BY DEF Room
<1>2. counted.pending = r.pending
  BY DEF Room
<1> HIDE DEF counted
<1>3. r.pending # NoPlayer => ResolveRound(counted) \in Room
  BY <1>1, <1>2, ResolveRoundType
<1>4. ReconcilePendingRound(r) \in {r, counted, ResolveRound(counted)}
  BY DEF ReconcilePendingRound, counted
<1>5. r.pending = NoPlayer => ReconcilePendingRound(r) = r
  BY DEF ReconcilePendingRound
<1> QED
  BY <1>1, <1>3, <1>4, <1>5

\* continue_round_result returns a room.
LEMMA ContinueRoundType ==
  ASSUME NEW r \in Room
  PROVE  ContinueRoundResult(r) \in Room
<1> DEFINE seen == [r EXCEPT !.lastRound = NoPlayer]
<1>1. seen \in Room
  BY DEF Room
<1> HIDE DEF seen
<1>2. AdvanceTurn(seen) \in Room
  BY <1>1, AdvanceTurnType
<1>3. ContinueRoundResult(r) \in {r, seen, AdvanceTurn(seen)}
  BY DEF ContinueRoundResult, seen
<1> QED
  BY <1>1, <1>2, <1>3

\* continue_pass_result returns a room.
LEMMA ContinuePassType ==
  ASSUME NEW r \in Room
  PROVE  ContinuePassResult(r) \in Room
<1> DEFINE seen == [r EXCEPT !.lastPass = NoPlayer]
<1>1. seen \in Room
  BY DEF Room
<1> HIDE DEF seen
<1>2. AdvanceTurn(seen) \in Room
  BY <1>1, AdvanceTurnType
<1>3. ContinuePassResult(r) \in {r, AdvanceTurn(seen)}
  BY DEF ContinuePassResult, seen
<1> QED
  BY <1>2, <1>3

\* reconcile_disconnected_player returns a room.
LEMMA ReconcileDisconnectedType ==
  ASSUME NEW r \in Room, NEW p \in Player
  PROVE  ReconcileDisconnectedPlayer(r, p) \in Room
<1> DEFINE settled == ReconcilePendingRound(r)
<1>1. settled \in Room
  BY ReconcilePendingType
<1> HIDE DEF settled
<1>2. ReconcileDisconnectedPlayer(r, p) \in
        {r, ContinueRoundResult(r), ContinuePassResult(r), settled, AdvanceTurn(settled)}
  BY DEF ReconcileDisconnectedPlayer, settled
<1> QED
  BY <1>1, <1>2, AdvanceTurnType, ContinueRoundType, ContinuePassType

\* _remove_player_from_game returns a room.
LEMMA RemovePlayerType ==
  ASSUME NEW r \in Room, NEW p \in Player
  PROVE  RemovePlayerFromGame(r, p) \in Room
<1>1. [r EXCEPT !.status = "finished", !.pending = NoPlayer,
                !.votes = NoVotes, !.lastPass = NoPlayer] \in Room
  BY NoVotesType DEF Room, RoomStatus
<1>2. [r EXCEPT !.pending = NoPlayer, !.votes = NoVotes, !.lastPass = NoPlayer] \in Room
  BY NoVotesType DEF Room
<1>3. [r EXCEPT !.votes[p] = NoVote] \in Room
  BY DEF Room
<1> QED
  BY <1>1, <1>2, <1>3 DEF RemovePlayerFromGame

\* leave_room_with_result returns a room.
LEMMA LeaveRoomType ==
  ASSUME NEW r \in Room, NEW p \in Player
  PROVE  LeaveRoom(r, p) \in Room
<1> DEFINE rest   == Without(r, p)
           hosted == IF r.host = p THEN AssignHost(rest, NextHost(rest)) ELSE rest
<1>1. rest \in Room
  BY WithoutType
<1> HIDE DEF rest
<1>2. rest.players # {} => hosted \in Room
  BY <1>1, AssignHostType, NextHostType
<1>3. LeaveRoom(r, p) =
        IF rest.players = {} THEN rest
        ELSE ResolveTurn(ReconcileDisconnectedPlayer(RemovePlayerFromGame(hosted, p), p))
  BY DEF LeaveRoom, rest
<1> HIDE DEF hosted
<1>4. rest.players # {} =>
        ResolveTurn(ReconcileDisconnectedPlayer(RemovePlayerFromGame(hosted, p), p)) \in Room
  BY <1>2, RemovePlayerType, ReconcileDisconnectedType, ResolveTurnType
<1> QED
  BY <1>1, <1>3, <1>4

\* expire_disconnected_player returns a room.
LEMMA ExpirePlayerType ==
  ASSUME NEW r \in Room, NEW p \in Player
  PROVE  ExpirePlayer(r, p) \in Room
<1> DEFINE out    == [r EXCEPT !.excluded = @ \union {p}]
           others == r.connected \ {p}
           hosted == IF r.host = p /\ others # {} THEN AssignHost(out, First(others)) ELSE out
<1>1. out \in Room
  BY DEF Room
<1>2. others \in SUBSET Player
  BY DEF Room
<1> HIDE DEF out, others
<1>3. others # {} => First(others) \in Player
  BY <1>2, FirstMember
<1>4. hosted \in Room
  BY <1>1, <1>3, AssignHostType
<1> HIDE DEF hosted
<1>5. ExpirePlayer(r, p) = ReconcileDisconnectedPlayer(hosted, p)
  BY DEF ExpirePlayer, hosted, out, others
<1> QED
  BY <1>4, <1>5, ReconcileDisconnectedType

\* _evict_expired_lobby_player returns a room.
LEMMA EvictOneType ==
  ASSUME NEW r \in Room
  PROVE  EvictOne(r) \in Room
<1> DEFINE candidate == First(Expired(r))
           rest      == Without(r, candidate)
           hosted    == IF r.host = candidate /\ rest.players # {}
                        THEN AssignHost(rest, NextHost(rest)) ELSE rest
<1>1. CASE Expired(r) # {}
  <2>1. candidate \in Player
    BY <1>1, FirstMember DEF Expired, Room
  <2> HIDE DEF candidate
  <2>2. rest \in Room
    BY <2>1, WithoutType
  <2> HIDE DEF rest
  <2>3. hosted \in Room
    BY <2>2, AssignHostType, NextHostType
  <2> HIDE DEF hosted
  <2>4. EvictOne(r) \in {r, ResolveTurn(hosted)}
    BY DEF EvictOne, hosted, rest, candidate
  <2> QED
    BY <2>3, <2>4, ResolveTurnType
<1>2. CASE Expired(r) = {}
  BY <1>2 DEF EvictOne
<1> QED
  BY <1>1, <1>2

\* remove_expired_lobby_players returns a room.
LEMMA EvictAllType ==
  ASSUME NEW r \in Room
  PROVE  EvictAll(r) \in Room
<1> DEFINE gone == Expired(r)
           kept == r.players \ gone
           rest == [r EXCEPT !.players  = kept,
                             !.isHost   = @ \ gone,
                             !.ready    = @ \ gone,
                             !.excluded = @ \ gone,
                             !.hand     = [p \in Player |-> IF p \in gone THEN 0 ELSE @[p]]]
           hosted == IF r.host \notin gone THEN rest
                     ELSE IF kept # {} THEN AssignHost(rest, NextHost(rest))
                     ELSE [rest EXCEPT !.host = Last(gone)]
<1>1. gone \in SUBSET Player
  BY DEF Expired, Room
<1> HIDE DEF gone
<1>2. rest \in Room /\ rest.players = kept
  BY <1>1 DEF Room
<1> HIDE DEF kept, rest
<1>3. kept # {} => AssignHost(rest, NextHost(rest)) \in Room
  BY <1>2, AssignHostType, NextHostType
<1>4. r.host \in gone => [rest EXCEPT !.host = Last(gone)] \in Room
  BY <1>1, <1>2, LastMaximal DEF Room
<1>5. hosted \in Room
  BY <1>2, <1>3, <1>4
<1> HIDE DEF hosted
<1>6. EvictAll(r) \in {r, ResolveTurn(hosted)}
  BY DEF EvictAll, hosted, rest, kept, gone
<1> QED
  BY <1>5, <1>6, ResolveTurnType

\* create_room returns a room.
LEMMA NewRoomType ==
  ASSUME NEW max \in MaxPlayersChoices, NEW wrong \in WrongAnswerChoices
  PROVE  NewRoom(max, wrong) \in Room
<1>1. 1 \in Player
  BY OpsAssumption DEF Player
<1> QED
  BY <1>1, NoVotesType DEF NewRoom, Room, RoomStatus

\* start_game returns a room.
LEMMA DealGameType ==
  ASSUME NEW r \in Room
  PROVE  DealGame(r) \in Room
<1>1. r.players # {} => First(r.players) \in Player
  BY FirstMember DEF Room
<1> QED
  BY <1>1, OpsAssumption, NoVotesType DEF DealGame, Room, RoomStatus

\* reset_game returns a room.
LEMMA ResetGameType ==
  ASSUME NEW r \in Room
  PROVE  ResetGame(r) \in Room
<1>1. r.players # {} => First(r.players) \in Player
  BY FirstMember DEF Room
<1> QED
  BY <1>1, NoVotesType DEF ResetGame, Room, RoomStatus

\* submit_answer takes a card off a hand that has one.
LEMMA SubmitAnswerType ==
  ASSUME NEW r \in Room, NEW p \in Player, r.hand[p] > 0
  PROVE  SubmitAnswer(r, p) \in Room
<1>1. [r.hand EXCEPT ![p] = @ - 1] \in [Player -> Nat]
  BY DEF Room
<1> QED
  BY <1>1, NoVotesType DEF SubmitAnswer, Room

\* pass_turn returns a room.
LEMMA PassTurnType ==
  ASSUME NEW r \in Room, NEW p \in Player
  PROVE  PassTurn(r, p) \in Room
<1>1. [r.hand EXCEPT ![p] = @ + 1] \in [Player -> Nat]
  BY DEF Room
<1> QED
  BY <1>1, NoVotesType DEF PassTurn, Room

\* cast_vote returns a room.
LEMMA CastVoteType ==
  ASSUME NEW r \in Room, NEW p \in Player, NEW choice \in VoteChoice
  PROVE  CastVote(r, p, choice) \in Room
<1>1. [r EXCEPT !.votes[p] = choice] \in Room
  BY DEF Room
<1> QED
  BY <1>1, ReconcilePendingType DEF CastVote

\* mark_connected returns a room, whichever way it is called.
LEMMA PresenceType ==
  ASSUME NEW r \in Room, NEW p \in Player
  PROVE  /\ MarkPresent(r, p) \in Room
         /\ TakeOverHost(r, p) \in Room
         /\ MarkAbsent(r, p) \in Room
  BY AssignHostType DEF MarkPresent, TakeOverHost, MarkAbsent, Room

-----------------------------------------------------------------------------
(***************************************************************************)
(* Type correctness.                                                       *)
(***************************************************************************)

\* A new room has the declared types.
LEMMA TypeInit == Init => TypeOK
<1> SUFFICES ASSUME Init PROVE TypeOK
  OBVIOUS
<1>1. room \in Room
  BY NewRoomType DEF Init
<1>2. joined \in 1..MaxJoins
  BY OpsAssumption DEF Init
<1> QED
  BY <1>1, <1>2 DEF Init, TypeOK, StartState, Idle

\* Every step keeps the declared types.
LEMMA TypeNext == TypeOK /\ [Next]_vars => TypeOK'
<1> SUFFICES ASSUME TypeOK, [Next]_vars PROVE TypeOK'
  OBVIOUS
<1> USE DEF TypeOK
<1>1. CASE RestNext
  <2>1. CASE JoinRoom
    <3>1. (IF Cardinality(room.players) >= room.maxPlayers
           THEN EvictOne(room) ELSE room) \in Room
      BY EvictOneType
    <3>2. joined + 1 \in Player
      BY <2>1, OpsAssumption DEF JoinRoom, Player
    <3> QED
      BY <2>1, <3>1, <3>2 DEF JoinRoom, Room, Player
  <2>2. ASSUME NEW p \in Player, LeaveByRest(p) PROVE TypeOK'
    <3>1. LeaveRoom(room, p) \in Room
      BY LeaveRoomType
    <3>2. start' \in StartState
      BY <2>2 DEF LeaveByRest, StartState
    <3> QED
      BY <2>2, <3>1, <3>2 DEF LeaveByRest, Depart
  <2>3. ASSUME NEW p \in Player, RestBroadcastLoses(p) PROVE TypeOK'
    BY <2>3, PresenceType DEF RestBroadcastLoses
  <2>4. CASE RestBroadcastEnds
    BY <2>4 DEF RestBroadcastEnds
  <2>5. CASE ExpireAbandonedRoom
    BY <2>5 DEF ExpireAbandonedRoom
  <2> QED
    BY <1>1, <2>1, <2>2, <2>3, <2>4, <2>5 DEF RestNext
<1>2. CASE ConnectionNext
  <2> SUFFICES ASSUME NEW p \in Player,
                      \/ Connect(p)
                      \/ \E open \in BOOLEAN : Disconnect(p, open)
                      \/ CloseForgottenSocket(p)
                      \/ GraceExpires(p)
               PROVE  TypeOK'
    BY <1>2 DEF ConnectionNext
  <2>1. CASE Connect(p)
    <3>1. MarkPresent(room, p) \in Room /\ TakeOverHost(MarkPresent(room, p), p) \in Room
      BY PresenceType
    <3> QED
      BY <2>1, <3>1 DEF Connect
  <2>2. ASSUME NEW open \in BOOLEAN, Disconnect(p, open) PROVE TypeOK'
    BY <2>2, PresenceType DEF Disconnect
  <2>3. CASE CloseForgottenSocket(p)
    BY <2>3 DEF CloseForgottenSocket
  <2>4. CASE GraceExpires(p)
    BY <2>4, ExpirePlayerType DEF GraceExpires
  <2> QED
    BY <2>1, <2>2, <2>3, <2>4
<1>3. CASE StartNext
  <2>1. EvictAll(room) \in Room
    BY EvictAllType
  <2>2. ASSUME NEW p \in Player, StartRefused(p) PROVE TypeOK'
    BY <2>1, <2>2 DEF StartRefused, Apply
  <2>3. ASSUME NEW p \in Player, StartGame(p) PROVE TypeOK'
    <3>1. [EvictAll(room) EXCEPT !.status = "starting"] \in Room
      BY <2>1 DEF Room, RoomStatus
    <3> QED
      BY <2>3, <3>1 DEF StartGame, StartState
  <2>4. CASE StartLoadsCards
    BY <2>4 DEF StartLoadsCards, StartState
  <2>5. CASE StartBroadcastRaises
    BY <2>5 DEF StartBroadcastRaises, StartState, Idle
  <2>6. CASE StartDeals
    BY <2>6, DealGameType DEF StartDeals, StartState, Idle
  <2>7. CASE StartFails
    <3>1. [room EXCEPT !.status = "waiting"] \in Room
      BY DEF Room, RoomStatus
    <3> QED
      BY <2>7, <3>1 DEF StartFails, StartState, Idle
  <2> QED
    BY <1>3, <2>2, <2>3, <2>4, <2>5, <2>6, <2>7 DEF StartNext
<1>4. CASE CommandNext
  <2>1. ASSUME NEW p \in Player, NEW ready \in BOOLEAN, SetReady(p, ready) PROVE TypeOK'
    <3>1. [room EXCEPT !.ready = IF ready THEN @ \union {p} ELSE @ \ {p}] \in Room
      BY DEF Room
    <3> QED
      BY <2>1, <3>1 DEF SetReady, Apply
  <2>2. ASSUME NEW p \in Player, NEW max \in MaxPlayersChoices,
               NEW wrong \in WrongAnswerChoices, UpdateLobbySettings(p, max, wrong)
        PROVE  TypeOK'
    <3>1. [room EXCEPT !.maxPlayers = max, !.wrongAnswer = wrong] \in Room
      BY DEF Room
    <3> QED
      BY <2>2, <3>1 DEF UpdateLobbySettings, Apply
  <2>3. ASSUME NEW p \in Player, ReplayGame(p) PROVE TypeOK'
    BY <2>3, ResetGameType DEF ReplayGame, Apply
  <2>4. ASSUME NEW p \in Player, Submit(p) PROVE TypeOK'
    <3>1. room.hand[p] > 0
      BY <2>4, GameAssumption DEF Submit
    <3> QED
      BY <2>4, <3>1, SubmitAnswerType DEF Submit, Apply
  <2>5. ASSUME NEW p \in Player, Pass(p) PROVE TypeOK'
    BY <2>5, PassTurnType DEF Pass, Apply
  <2>6. ASSUME NEW p \in Player, ContinuePass(p) PROVE TypeOK'
    BY <2>6, ContinuePassType DEF ContinuePass, Apply
  <2>7. ASSUME NEW p \in Player, NEW choice \in VoteChoice, Vote(p, choice) PROVE TypeOK'
    BY <2>7, CastVoteType DEF Vote, Apply
  <2>8. ASSUME NEW p \in Player, ContinueRound(p) PROVE TypeOK'
    BY <2>8, ContinueRoundType DEF ContinueRound, Apply
  <2>9. ASSUME NEW p \in Player, LeaveByCommand(p) PROVE TypeOK'
    BY <2>9, LeaveRoomType DEF LeaveByCommand, Depart
  <2> QED
    BY <1>4, <2>1, <2>2, <2>3, <2>4, <2>5, <2>6, <2>7, <2>8, <2>9 DEF CommandNext
<1>5. CASE UNCHANGED vars
  BY <1>5 DEF vars
<1> QED
  BY <1>1, <1>2, <1>3, <1>4, <1>5 DEF Next

\* Every reachable state has the declared types, for any number of players,
\* any capacities, either rule and any hand size.
THEOREM TypeCorrect == Spec => []TypeOK
  BY TypeInit, TypeNext, PTL DEF Spec
=============================================================================
