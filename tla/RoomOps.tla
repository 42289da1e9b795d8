------------------------------ MODULE RoomOps ------------------------------
(***************************************************************************)
(* The Room object and the synchronous methods of RoomService and          *)
(* GameService that change it, as operators from rooms to rooms.           *)
(*                                                                         *)
(* Between two awaits a coroutine runs alone, so each of these methods is  *)
(* one atomic change of the room it is given; the module RoomGame says who *)
(* calls them and when.                                                    *)
(*                                                                         *)
(* Players are numbered in the order in which they joined.  room.players   *)
(* is only ever appended to (join_room) and filtered (leave, evict), so    *)
(* its list order is the order of these numbers, and the list is           *)
(* represented by the set of its members: room.players[0] is First(...).   *)
(* Player ids are fresh UUIDs: a number is never used twice.               *)
(*                                                                         *)
(* A hand is the number of its cards; the identity of cards, the texts of  *)
(* answers, names, scores, region and language are abstracted away.        *)
(***************************************************************************)
EXTENDS Integers, FiniteSets

CONSTANTS
  MaxJoins,           \* how many player ids a room hands out (a bound)
  MaxPlayersChoices,  \* the values max_players may take
  WrongAnswerChoices, \* the values wrong_answer_behavior may take
  CardsPerPlayer      \* settings.cards_per_player

ASSUME OpsAssumption ==
  /\ MaxJoins \in Nat \ {0}
  /\ MaxPlayersChoices \subseteq 2..8
  /\ MaxPlayersChoices # {}
  /\ WrongAnswerChoices \subseteq {"discardCard", "returnToHand"}
  /\ WrongAnswerChoices # {}
  /\ CardsPerPlayer \in Nat \ {0}

Player == 1..MaxJoins

\* None of currentTurnPlayerId, pendingRound, lastRound and lastPass.
NoPlayer == 0

RoomStatus == {"waiting", "starting", "playing", "finished"}

NoVote == "none"
VoteChoice == {"correct", "wrong"}
NoVotes == [v \in Player |-> NoVote]

\* pending, lastRound and lastPass hold the player id of the pending round,
\* the round result and the pass result (or NoPlayer); votes are those of the
\* pending round.
Room == [ players    : SUBSET Player,
          host       : Player,
          isHost     : SUBSET Player,
          turn       : Player \union {NoPlayer},
          status     : RoomStatus,
          maxPlayers : MaxPlayersChoices,
          wrongAnswer: WrongAnswerChoices,
          connected  : SUBSET Player,
          ready      : SUBSET Player,
          excluded   : SUBSET Player,
          hand       : [Player -> Nat],
          pending    : Player \union {NoPlayer},
          votes      : [Player -> VoteChoice \union {NoVote}],
          lastRound  : Player \union {NoPlayer},
          lastPass   : Player \union {NoPlayer} ]

(***************************************************************************)
(* Order of the players list.                                              *)
(***************************************************************************)

\* players[0] of a list of players
First(S) == CHOOSE p \in S : \A q \in S : p <= q

\* the last of a list of players
Last(S) == CHOOSE p \in S : \A q \in S : q <= p

\* mutant of Successor: the index does not wrap around
SuccessorWithoutWrap(S, p) == p + 1

\* the player after p in the list of S, from the end back to the start
Successor(S, p) ==
  LET after == {q \in S : p < q}
  IN  IF after = {} THEN First(S) ELSE First(after)

(***************************************************************************)
(* RoomService: membership and host.                                       *)
(***************************************************************************)

\* create_room: the creator is player 1, host, first in turn, not connected.
NewRoom(max, wrong) ==
  [ players |-> {1}, host |-> 1, isHost |-> {1}, turn |-> 1,
    status |-> "waiting", maxPlayers |-> max, wrongAnswer |-> wrong,
    connected |-> {}, ready |-> {}, excluded |-> {},
    hand |-> [p \in Player |-> 0],
    pending |-> NoPlayer, votes |-> NoVotes,
    lastRound |-> NoPlayer, lastPass |-> NoPlayer ]

\* A player leaves the list, and its flags, score and hand go with it.
Without(r, p) ==
  [r EXCEPT !.players   = @ \ {p},
            !.isHost    = @ \ {p},
            !.connected = @ \ {p},
            !.ready     = @ \ {p},
            !.excluded  = @ \ {p},
            !.hand      = [@ EXCEPT ![p] = 0]]

AssignHost(r, p) ==
  IF r.host = p /\ p \in r.isHost
  THEN r
  ELSE [r EXCEPT !.host = p, !.isHost = {p}]

\* (connected_players or room.players)[0]
NextHost(r) == First(IF r.connected # {} THEN r.connected ELSE r.players)

ResolveTurn(r) ==
  [r EXCEPT !.turn = IF r.players = {} THEN NoPlayer
                     ELSE IF @ \in r.players THEN @ ELSE First(r.players)]

\* The disconnected players whose grace period has run out.
Expired(r) == {p \in r.players : p \notin r.connected /\ p \in r.excluded}

\* _evict_expired_lobby_player
EvictOne(r) ==
  IF r.status # "waiting" \/ Expired(r) = {} THEN r
  ELSE LET candidate == First(Expired(r))
           rest      == Without(r, candidate)
       IN  ResolveTurn(IF r.host = candidate /\ rest.players # {}
                       THEN AssignHost(rest, NextHost(rest))
                       ELSE rest)

\* remove_expired_lobby_players as it is written: one eviction after the other
\* while somebody is expired, which EvictOne leaves the room to when nobody is.
EvictLoop(r) ==
  LET after[n \in 0 .. MaxJoins] == IF n = 0 THEN r ELSE EvictOne(after[n - 1])
  IN  after[MaxJoins]

\* mutant of EvictAll: an if where the loop is
EvictAllOnce(r) == EvictOne(r)

\* The room that the loop ends with, in closed form: the host is handed on at most to the
\* first player who stays, or ends with the last one evicted if nobody stays.
EvictAll(r) ==
  LET gone == Expired(r)
      kept == r.players \ gone
      rest == [r EXCEPT !.players  = kept,
                        !.isHost   = @ \ gone,
                        !.ready    = @ \ gone,
                        !.excluded = @ \ gone,
                        !.hand     = [p \in Player |-> IF p \in gone THEN 0 ELSE @[p]]]
  IN  IF r.status # "waiting" \/ gone = {} THEN r
      ELSE ResolveTurn(IF r.host \notin gone THEN rest
                       ELSE IF kept # {} THEN AssignHost(rest, NextHost(rest))
                       ELSE [rest EXCEPT !.host = Last(gone)])

(***************************************************************************)
(* GameService: rounds and turns.                                          *)
(***************************************************************************)

AdvanceTurn(r) ==
  LET present == r.players \ r.excluded
      order   == IF present # {} THEN present ELSE r.players
  IN  [r EXCEPT !.turn = IF order = {} THEN NoPlayer
                         ELSE IF @ \notin order THEN First(order)
                         ELSE Successor(order, @)]

ContinueRoundResult(r) ==
  LET seen == [r EXCEPT !.lastRound = NoPlayer]
  IN  IF r.lastRound = NoPlayer THEN r
      ELSE IF r.status = "finished" THEN seen ELSE AdvanceTurn(seen)

ContinuePassResult(r) ==
  IF r.lastPass = NoPlayer THEN r
  ELSE AdvanceTurn([r EXCEPT !.lastPass = NoPlayer])

EligibleVoters(r) ==
  IF r.pending = NoPlayer THEN {}
  ELSE {p \in r.players : p # r.pending /\ p \notin r.excluded}

Accepted(votes) ==
  Cardinality({v \in Player : votes[v] = "correct"})
    > Cardinality({v \in Player : votes[v] = "wrong"})

\* What a round that is not accepted brings to its owner's hand: two cards
\* drawn, and the played card again when the room returns it.
Penalty(r) == IF r.wrongAnswer = "returnToHand" THEN 3 ELSE 2

\* mutant of ResolveRound: the hand of the round's owner is not looked at
ResolveRoundForOthers(r) ==
  LET gain == IF Accepted(r.votes) THEN 0 ELSE Penalty(r)
      hand == [r.hand EXCEPT ![r.pending] = @ + gain]
  IN  [r EXCEPT !.hand      = hand,
                !.lastRound = r.pending,
                !.pending   = NoPlayer,
                !.votes     = NoVotes,
                !.status    = IF \E p \in r.players \ {r.pending} : hand[p] = 0
                              THEN "finished" ELSE @]

\* mutant of ResolveRound: the hands are looked at before the cards are drawn
ResolveRoundBeforeDraw(r) ==
  LET gain == IF Accepted(r.votes) THEN 0 ELSE Penalty(r)
  IN  [r EXCEPT !.hand      = [@ EXCEPT ![r.pending] = @ + gain],
                !.lastRound = r.pending,
                !.pending   = NoPlayer,
                !.votes     = NoVotes,
                !.status    = IF \E p \in r.players : r.hand[p] = 0
                              THEN "finished" ELSE @]

\* The part of reconcile_pending_round that runs once every vote is in.
ResolveRound(r) ==
  LET gain == IF Accepted(r.votes) THEN 0 ELSE Penalty(r)
      hand == [r.hand EXCEPT ![r.pending] = @ + gain]
  IN  [r EXCEPT !.hand      = hand,
                !.lastRound = r.pending,
                !.pending   = NoPlayer,
                !.votes     = NoVotes,
                !.status    = IF \E p \in r.players : hand[p] = 0
                              THEN "finished" ELSE @]

\* mutant of ReconcilePendingRound: one vote settles the round
ReconcileOnFirstVote(r) ==
  LET eligible == EligibleVoters(r)
      counted  == [r EXCEPT !.votes =
                     [v \in Player |-> IF v \in eligible THEN @[v] ELSE NoVote]]
  IN  IF r.pending = NoPlayer THEN r
      ELSE IF \A v \in eligible : r.votes[v] = NoVote THEN counted
      ELSE ResolveRound(counted)

ReconcilePendingRound(r) ==
  LET eligible == EligibleVoters(r)
      counted  == [r EXCEPT !.votes =
                     [v \in Player |-> IF v \in eligible THEN @[v] ELSE NoVote]]
  IN  IF r.pending = NoPlayer THEN r
      ELSE IF \E v \in eligible : r.votes[v] = NoVote THEN counted
      ELSE ResolveRound(counted)

\* mutant of ReconcileDisconnectedPlayer: anybody's expiry moves the turn on
ReconcileAndAlwaysAdvance(r, p) ==
  LET settled == ReconcilePendingRound(r)
  IN  IF r.status # "playing" THEN r
      ELSE IF r.lastRound = p THEN ContinueRoundResult(r)
      ELSE IF r.lastPass = p THEN ContinuePassResult(r)
      ELSE IF settled.pending = NoPlayer THEN AdvanceTurn(settled) ELSE settled

ReconcileDisconnectedPlayer(r, p) ==
  LET settled  == ReconcilePendingRound(r)
      resolved == r.pending # NoPlayer /\ settled.pending = NoPlayer
  IN  IF r.status # "playing" THEN r
      ELSE IF r.lastRound = p THEN ContinueRoundResult(r)
      ELSE IF r.lastPass = p THEN ContinuePassResult(r)
      ELSE IF ~resolved /\ settled.turn = p /\ settled.pending = NoPlayer
           THEN AdvanceTurn(settled)
           ELSE settled

\* start_game after the cards are loaded
DealGame(r) ==
  [r EXCEPT !.hand      = [p \in Player |-> IF p \in r.players THEN CardsPerPlayer ELSE 0],
            !.pending   = NoPlayer,
            !.votes     = NoVotes,
            !.lastRound = NoPlayer,
            !.lastPass  = NoPlayer,
            !.turn      = IF r.players = {} THEN NoPlayer ELSE First(r.players),
            !.status    = "playing"]

ResetGame(r) ==
  [r EXCEPT !.hand      = [p \in Player |-> 0],
            !.pending   = NoPlayer,
            !.votes     = NoVotes,
            !.lastRound = NoPlayer,
            !.lastPass  = NoPlayer,
            !.turn      = IF r.players = {} THEN NoPlayer ELSE First(r.players),
            !.status    = "waiting",
            !.ready     = {}]

SubmitAnswer(r, p) ==
  [r EXCEPT !.hand[p] = @ - 1, !.pending = p, !.votes = NoVotes,
            !.lastRound = NoPlayer, !.lastPass = NoPlayer]

PassTurn(r, p) ==
  [r EXCEPT !.hand[p] = @ + 1, !.pending = NoPlayer, !.votes = NoVotes,
            !.lastRound = NoPlayer, !.lastPass = p]

CastVote(r, p, choice) ==
  ReconcilePendingRound([r EXCEPT !.votes[p] = choice])

(***************************************************************************)
(* RoomService: leaving, presence and the end of the grace period.         *)
(***************************************************************************)

\* mutant of RemovePlayerFromGame: the round of the player who left goes on
RemovePlayerKeepingRound(r, p) ==
  IF r.status # "playing" THEN r
  ELSE IF Cardinality(r.players) < 2
  THEN [r EXCEPT !.status = "finished", !.pending = NoPlayer,
                 !.votes = NoVotes, !.lastPass = NoPlayer]
  ELSE [r EXCEPT !.votes[p] = NoVote]

\* _remove_player_from_game, after p has left the list of players
RemovePlayerFromGame(r, p) ==
  IF r.status # "playing" THEN r
  ELSE IF Cardinality(r.players) < 2
  THEN [r EXCEPT !.status = "finished", !.pending = NoPlayer,
                 !.votes = NoVotes, !.lastPass = NoPlayer]
  ELSE IF r.pending = p
  THEN [r EXCEPT !.pending = NoPlayer, !.votes = NoVotes, !.lastPass = NoPlayer]
  ELSE [r EXCEPT !.votes[p] = NoVote]

\* mutant of LeaveRoom: the turn stays with the player who left the lobby
LeaveRoomKeepingTurn(r, p) ==
  LET rest   == Without(r, p)
      hosted == IF r.host = p THEN AssignHost(rest, NextHost(rest)) ELSE rest
  IN  IF rest.players = {} THEN rest
      ELSE ReconcileDisconnectedPlayer(RemovePlayerFromGame(hosted, p), p)

\* leave_room_with_result; when the last player leaves, the caller deletes
\* the room and nothing else of it changes.
LeaveRoom(r, p) ==
  LET rest   == Without(r, p)
      hosted == IF r.host = p THEN AssignHost(rest, NextHost(rest)) ELSE rest
  IN  IF rest.players = {} THEN rest
      ELSE ResolveTurn(ReconcileDisconnectedPlayer(RemovePlayerFromGame(hosted, p), p))

\* The changes mark_connected(..., True) makes to the player.
MarkPresent(r, p) ==
  [r EXCEPT !.connected = @ \union {p}, !.excluded = @ \ {p}]

\* mutant of TakeOverHost: the host who is merely disconnected loses the role
TakeOverHostAtOnce(r, p) == IF r.host \notin r.connected THEN AssignHost(r, p) ELSE r

\* mutant of TakeOverHost: an expired host keeps the role
TakeOverHostNever(r, p) == r

\* ... and to the host, when the host's grace period has run out
TakeOverHost(r, p) ==
  IF r.host \in r.excluded /\ r.host \notin r.connected THEN AssignHost(r, p) ELSE r

\* mark_connected(..., False)
MarkAbsent(r, p) == [r EXCEPT !.connected = @ \ {p}]

\* mutant of ExpirePlayer: the open ballot is not counted again
ExpirePlayerUncounted(r, p) ==
  LET out    == [r EXCEPT !.excluded = @ \union {p}]
      others == r.connected \ {p}
  IN  IF r.host = p /\ others # {} THEN AssignHost(out, First(others)) ELSE out

\* expire_disconnected_player, for a player who is still disconnected
ExpirePlayer(r, p) ==
  LET out    == [r EXCEPT !.excluded = @ \union {p}]
      others == r.connected \ {p}
      hosted == IF r.host = p /\ others # {} THEN AssignHost(out, First(others)) ELSE out
  IN  ReconcileDisconnectedPlayer(hosted, p)
=============================================================================
