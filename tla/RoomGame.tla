------------------------------ MODULE RoomGame ------------------------------
(***************************************************************************)
(* One room from its creation to its deletion: who may change it, and in   *)
(* which order the changes may come.                                       *)
(*                                                                         *)
(* Three kinds of callers change the room:                                 *)
(*   - commands on a player's WebSocket, which hold the room's lock for    *)
(*     the whole handler;                                                  *)
(*   - the connection bookkeeping of the WebSocket endpoint and the grace  *)
(*     timers, which hold the lock for one call;                           *)
(*   - the REST endpoints, their broadcasts and the cleanup task, which do *)
(*     not take the lock.                                                  *)
(* Every handler but start_game changes the room before its first await,   *)
(* so it is one action.  start_game changes it again after its awaits: it  *)
(* is split there, and the callers without the lock run in between.        *)
(***************************************************************************)
EXTENDS RoomOps

CONSTANT HandLimit    \* the largest hand a player may move with (a bound)

ASSUME GameAssumption == HandLimit \in Nat

VARIABLES
  room,      \* the Room object
  stored,    \* is it in the store?
  joined,    \* number of player ids handed out so far
  grace,     \* players with a running grace timer (grace_tasks)
  loops,     \* players with a socket whose command loop is running
  start,     \* the start_game handler in progress, which holds the lock
  restCast   \* is a broadcast of a REST join or leave under way?

vars == <<room, stored, joined, grace, loops, start, restCast>>

\* "announcing": in the broadcast of game_starting; "dealing": in load_cards.
\* lost: a player that broadcast still lists as connected has left the room.
Idle == [phase |-> "idle", lost |-> FALSE]
StartState == [phase : {"idle", "announcing", "dealing"}, lost : BOOLEAN]

Init ==
  /\ \E max \in MaxPlayersChoices, wrong \in WrongAnswerChoices :
       room = NewRoom(max, wrong)
  /\ stored = TRUE
  /\ joined = 1
  /\ grace = {}
  /\ loops = {}
  /\ start = Idle
  /\ restCast = FALSE

LockFree == start.phase = "idle"

-----------------------------------------------------------------------------
(***************************************************************************)
(* REST join and leave, and the cleanup task: no lock.                     *)
(***************************************************************************)

\* POST /rooms/join.  A full lobby evicts one expired player to make room.
JoinRoom ==
  /\ stored
  /\ joined < MaxJoins
  /\ room.status = "waiting"
  /\ LET lobby == IF Cardinality(room.players) >= room.maxPlayers
                  THEN EvictOne(room) ELSE room
     IN  /\ Cardinality(lobby.players) < lobby.maxPlayers
         /\ room' = [lobby EXCEPT !.players = @ \union {joined + 1}]
  /\ joined' = joined + 1
  /\ restCast' = TRUE
  /\ UNCHANGED <<stored, grace, loops, start>>

\* What both ways to leave share: the last player takes the room along, and
\* remove_deleted_room cancels its grace timers.
Depart(p) ==
  /\ stored
  /\ p \in room.players
  /\ room' = LeaveRoom(room, p)
  /\ stored' = (room'.players # {})

\* POST /rooms/{code}/leave.  The player's socket is forgotten but not closed,
\* and its grace timer is not cancelled.
LeaveByRest(p) ==
  /\ Depart(p)
  /\ grace' = IF stored' THEN grace ELSE {}
  /\ restCast' = (restCast \/ stored')
  /\ start' = [start EXCEPT !.lost = @ \/ (start.phase = "announcing" /\ p \in room.connected)]
  /\ UNCHANGED <<joined, loops>>

\* That endpoint's broadcast, or that of a join, fails to reach a player: it
\* calls room_service.mark_connected itself, without lock and without timer.
RestBroadcastLoses(p) ==
  /\ restCast
  /\ stored
  /\ p \in room.players
  /\ p \in room.connected
  /\ room' = MarkAbsent(room, p)
  /\ UNCHANGED <<stored, joined, grace, loops, start, restCast>>

RestBroadcastEnds ==
  /\ restCast
  /\ restCast' = FALSE
  /\ UNCHANGED <<room, stored, joined, grace, loops, start>>

\* expire_abandoned_rooms, for a room whose deadline has passed: nobody is
\* connected.  How long that takes is left open here.
ExpireAbandonedRoom ==
  /\ stored
  /\ room.connected = {}
  /\ stored' = FALSE
  /\ grace' = {}
  /\ UNCHANGED <<room, joined, loops, start, restCast>>

-----------------------------------------------------------------------------
(***************************************************************************)
(* Connections and grace timers: the lock, for one call.                   *)
(***************************************************************************)

\* A player's socket is authenticated and registered and the player marked
\* connected.  If the host has left the list, mark_connected raises after it
\* changed the player: the socket never reaches its command loop.
Connect(p) ==
  /\ stored
  /\ LockFree
  /\ p \in room.players
  /\ grace' = grace \ {p}
  /\ IF room.host \in room.players
     THEN /\ room' = TakeOverHost(MarkPresent(room, p), p)
          /\ loops' = loops \union {p}
     ELSE /\ room' = MarkPresent(room, p)
          /\ UNCHANGED loops
  /\ UNCHANGED <<stored, joined, start, restCast>>

\* mark_disconnected arms a new timer.  The socket was closed by the client,
\* or, when its loop stays open, a send to it failed and it was dropped from
\* the registry.  An unlocked broadcast may have marked the player absent
\* before its socket is closed.  While start_game holds the lock, only its own
\* broadcast can do this.
Disconnect(p, open) ==
  /\ stored
  /\ p \in room.players
  /\ p \in room.connected \union loops
  /\ LockFree \/ (start.phase = "announcing" /\ open)
  /\ room' = MarkAbsent(room, p)
  /\ grace' = grace \union {p}
  /\ loops' = IF open THEN loops ELSE loops \ {p}
  /\ UNCHANGED <<stored, joined, start, restCast>>

\* A socket the registry no longer knows is closed: nobody is marked.
CloseForgottenSocket(p) ==
  /\ p \in loops
  /\ p \notin room.connected
  /\ loops' = loops \ {p}
  /\ UNCHANGED <<room, stored, joined, grace, start, restCast>>

\* The timer of p runs out.  It finds p gone (its owner left by REST), or
\* disconnected ever since: a reconnection would have cancelled it.
GraceExpires(p) ==
  /\ stored
  /\ LockFree
  /\ p \in grace
  /\ room' = IF p \in room.players /\ p \notin room.connected
             THEN ExpirePlayer(room, p) ELSE room
  /\ grace' = grace \ {p}
  /\ UNCHANGED <<stored, joined, loops, start, restCast>>

-----------------------------------------------------------------------------
(***************************************************************************)
(* Commands: the lock, for the whole handler.  A command comes from any    *)
(* open command loop: its player may be marked disconnected by now, or may *)
(* have left the room by REST.                                             *)
(***************************************************************************)

MayCommand(p) == stored /\ LockFree /\ p \in loops

\* A command that only changes the room.
Apply(newRoom) ==
  /\ room' = newRoom
  /\ UNCHANGED <<stored, joined, grace, loops, start, restCast>>

SetReady(p, ready) ==
  /\ MayCommand(p)
  /\ room.status = "waiting"
  /\ p \in room.players
  /\ Apply([room EXCEPT !.ready = IF ready THEN @ \union {p} ELSE @ \ {p}])

\* mutant of UpdateLobbySettings: any limit is accepted
UpdateLobbySettingsUnchecked(p, max, wrong) ==
  /\ MayCommand(p)
  /\ room.host = p
  /\ room.status = "waiting"
  /\ Apply([room EXCEPT !.maxPlayers = max, !.wrongAnswer = wrong])

UpdateLobbySettings(p, max, wrong) ==
  /\ MayCommand(p)
  /\ room.host = p
  /\ room.status = "waiting"
  /\ max >= Cardinality(room.players)
  /\ Apply([room EXCEPT !.maxPlayers = max, !.wrongAnswer = wrong])

Startable(r) ==
  /\ Cardinality(r.players) >= 2
  /\ r.players \subseteq r.connected
  /\ r.players \subseteq r.ready

\* start_game, refused: the evictions it began with stay.
StartRefused(p) ==
  /\ MayCommand(p)
  /\ room.host = p
  /\ room.status = "waiting"
  /\ ~Startable(EvictAll(room))
  /\ Apply(EvictAll(room))

\* start_game, up to its first await.
StartGame(p) ==
  /\ MayCommand(p)
  /\ room.host = p
  /\ room.status = "waiting"
  /\ Startable(EvictAll(room))
  /\ room' = [EvictAll(room) EXCEPT !.status = "starting"]
  /\ start' = [phase |-> "announcing", lost |-> FALSE]
  /\ UNCHANGED <<stored, joined, grace, loops, restCast>>

\* The broadcast of game_starting is over, load_cards begins.
StartLoadsCards ==
  /\ start.phase = "announcing"
  /\ start' = [phase |-> "dealing", lost |-> FALSE]
  /\ UNCHANGED <<room, stored, joined, grace, loops, restCast>>

\* That broadcast could not reach a player who has left meanwhile, tries to
\* mark it disconnected, and the exception ends the handler.
StartBroadcastRaises ==
  /\ start.phase = "announcing"
  /\ start.lost
  /\ start' = Idle
  /\ UNCHANGED <<room, stored, joined, grace, loops, restCast>>

\* The cards are there: they are dealt, and the room is saved.
StartDeals ==
  /\ start.phase = "dealing"
  /\ room' = DealGame(room)
  /\ stored' = TRUE
  /\ start' = Idle
  /\ UNCHANGED <<joined, grace, loops, restCast>>

\* No cards: back to the lobby, and the room is saved.
StartFails ==
  /\ start.phase = "dealing"
  /\ room' = [room EXCEPT !.status = "waiting"]
  /\ stored' = TRUE
  /\ start' = Idle
  /\ UNCHANGED <<joined, grace, loops, restCast>>

ReplayGame(p) ==
  /\ MayCommand(p)
  /\ room.host = p
  /\ room.status = "finished"
  /\ Apply(ResetGame(room))

\* What submit_answer and pass_turn ask of the player; submit_answer needs a
\* card besides.  The last conjunct is the bound: a player with more cards
\* than that only waits.
HasMove(p) ==
  /\ MayCommand(p)
  /\ room.status = "playing"
  /\ room.lastRound = NoPlayer
  /\ room.pending = NoPlayer
  /\ room.turn = p
  /\ p \in room.players
  /\ room.hand[p] <= HandLimit

Submit(p) ==
  /\ HasMove(p)
  /\ room.hand[p] > 0
  /\ Apply(SubmitAnswer(room, p))

Pass(p) ==
  /\ HasMove(p)
  /\ Apply(PassTurn(room, p))

ContinuePass(p) ==
  /\ MayCommand(p)
  /\ room.status = "playing"
  /\ room.lastPass = p
  /\ Apply(ContinuePassResult(room))

Vote(p, choice) ==
  /\ MayCommand(p)
  /\ room.status = "playing"
  /\ room.pending # NoPlayer
  /\ p \in EligibleVoters(room)
  /\ Apply(CastVote(room, p, choice))

ContinueRound(p) ==
  /\ MayCommand(p)
  /\ room.status \in {"playing", "finished"}
  /\ room.lastRound = p
  /\ Apply(ContinueRoundResult(room))

\* leave_room: the timer is cancelled and the socket closed.
LeaveByCommand(p) ==
  /\ MayCommand(p)
  /\ Depart(p)
  /\ grace' = IF stored' THEN grace \ {p} ELSE {}
  /\ loops' = loops \ {p}
  /\ UNCHANGED <<joined, start, restCast>>

-----------------------------------------------------------------------------
RestNext ==
  \/ JoinRoom
  \/ \E p \in Player : LeaveByRest(p)
  \/ \E p \in Player : RestBroadcastLoses(p)
  \/ RestBroadcastEnds
  \/ ExpireAbandonedRoom

ConnectionNext == \E p \in Player :
  \/ Connect(p)
  \/ \E open \in BOOLEAN : Disconnect(p, open)
  \/ CloseForgottenSocket(p)
  \/ GraceExpires(p)

StartNext ==
  \/ \E p \in Player : StartRefused(p)
  \/ \E p \in Player : StartGame(p)
  \/ StartLoadsCards
  \/ StartBroadcastRaises
  \/ StartDeals
  \/ StartFails

CommandNext == \E p \in Player :
  \/ \E ready \in BOOLEAN : SetReady(p, ready)
  \/ \E max \in MaxPlayersChoices, wrong \in WrongAnswerChoices :
       UpdateLobbySettings(p, max, wrong)
  \/ ReplayGame(p)
  \/ Submit(p)
  \/ Pass(p)
  \/ ContinuePass(p)
  \/ \E choice \in VoteChoice : Vote(p, choice)
  \/ ContinueRound(p)
  \/ LeaveByCommand(p)

Next == RestNext \/ ConnectionNext \/ StartNext \/ CommandNext

Spec == Init /\ [][Next]_vars

-----------------------------------------------------------------------------
(***************************************************************************)
(* Properties.                                                             *)
(***************************************************************************)

\* Every variable has its type: in particular the host and the turn are
\* always player ids the room has handed out a number for.
TypeOK ==
  /\ room \in Room
  /\ stored \in BOOLEAN
  /\ joined \in 1..MaxJoins
  /\ grace \subseteq Player
  /\ loops \subseteq Player
  /\ start \in StartState
  /\ restCast \in BOOLEAN

\* A lobby whose host evicted itself: whoever joins it never gets a command
\* loop, since mark_connected raises on the missing host.
Orphaned ==
  /\ room.status = "waiting"
  /\ room.players \intersect loops = {}
  /\ room.players \intersect room.ready = {}

\* The host and the player in turn are members whatever sequence of leaves,
\* evictions and expiries came before, and exactly the host carries the
\* is_host flag; only an orphaned lobby has no host (leave_room_with_result,
\* _evict_expired_lobby_player, _assign_host, _resolve_current_turn).
MembersHoldRoles ==
  room.players # {} =>
    IF room.host \in room.players
    THEN room.turn \in room.players /\ room.isHost = {room.host}
    ELSE Orphaned

\* While somebody is connected, the host is not a player whose grace period
\* ran out: expiry hands the host on, and if nobody was there to take it, the
\* next connection does (expire_disconnected_player, mark_connected).
HostNotAbandoned ==
  room.connected # {} => ~(room.host \in room.excluded /\ room.host \notin room.connected)

\* A pending round, a round result and a pass result exclude each other and
\* belong to the player in turn; there are none outside a game, and of a
\* finished game only the result is left.  Leaves and expiries in the middle
\* of a round must keep it so (_remove_player_from_game,
\* reconcile_disconnected_player, continue_round_result, continue_pass_result).
RoundOwnerHoldsTurn ==
  LET owners == {room.pending, room.lastRound, room.lastPass} \ {NoPlayer}
  IN  /\ room.status \in {"waiting", "starting"} => owners = {}
      /\ room.status = "finished" => room.pending = NoPlayer /\ room.lastPass = NoPlayer
      /\ room.status = "playing" =>
           /\ owners \subseteq {room.turn}
           /\ room.pending # NoPlayer => room.lastRound = NoPlayer /\ room.lastPass = NoPlayer
           /\ room.lastRound # NoPlayer => room.lastPass = NoPlayer

\* A ballot holds votes of its eligible voters only, and it never stays open
\* once all of them have voted, also when the last one missing left or was
\* excluded (reconcile_pending_round after every vote, leave and expiry).
NoDecidedBallotOpen ==
  LET eligible == EligibleVoters(room)
      voted    == {v \in Player : room.votes[v] # NoVote}
  IN  voted \subseteq eligible /\ (eligible # {} => voted # eligible)

\* In a running game a player without cards is the one whose last card is
\* being voted on: a hand emptied by an accepted answer ends the game, and a
\* rejected one brings cards (reconcile_pending_round).
EmptyHandIsOnTheTable ==
  room.status = "playing" =>
    \A p \in room.players : room.hand[p] = 0 => room.pending = p

\* A lobby never holds more players than max_players, also when the host
\* lowers the limit and when joins evict expired players (join_room,
\* update_lobby_settings).
WithinCapacity == Cardinality(room.players) <= room.maxPlayers

\* start_game in the lobby evicts exactly as its loop does, and leaves nobody
\* behind who is expired: who stays, who is host and who is in turn depend on
\* every intermediate step (remove_expired_lobby_players).
EvictAllIsTheLoop ==
  room.status = "waiting" =>
    EvictAll(room) = EvictLoop(room) /\ Expired(EvictLoop(room)) = {}

\* During a game the turn is taken from a player who stays in it only by
\* continuing from a result that player owns; otherwise it moves only away
\* from a player who left or whose grace period ran out (_advance_turn and
\* its callers, _resolve_current_turn).
TurnMovesOnlyWhenReleased ==
  [][room.status = "playing" /\ room'.status = "playing" /\ room'.turn # room.turn =>
       \/ room.turn \notin room'.players
       \/ room.turn \in room'.excluded
       \/ room.turn \in {room.lastRound, room.lastPass}]_vars

\* A host who stays in the room loses the role only after its grace period
\* ran out: a short disconnection, or somebody else's arrival or departure,
\* never moves it (_assign_host and its callers).
HostMovesOnlyFromAbsent ==
  [][room'.host # room.host =>
       \/ room.host \notin room'.players
       \/ room.host \in room'.excluded /\ room.host \notin room'.connected]_vars

\* A pending round ends with a result only when every member who is not
\* excluded has voted, the vote being cast counted; else its owner left, or
\* the game has no opponents any more (reconcile_pending_round).
ResultNeedsEveryVoter ==
  [][room.pending # NoPlayer /\ room'.pending = NoPlayer =>
       \/ room.pending \notin room'.players
       \/ Cardinality(room'.players) < 2
       \/ /\ room'.lastRound = room.pending
          /\ \A p, q \in room'.players \ (room'.excluded \union {room.pending}) :
               room.votes[p] = NoVote /\ room.votes[q] = NoVote => p = q]_vars

\* A game ends in two ways: a member has played its last card and the answer
\* was accepted, or one player alone is left (reconcile_pending_round,
\* _remove_player_from_game).
GameEndsForAReason ==
  [][room.status = "playing" /\ room'.status = "finished" =>
       \/ Cardinality(room'.players) < 2
       \/ /\ room.pending \in room'.players
          /\ room.hand[room.pending] = 0
          /\ room'.hand[room.pending] = 0]_vars

-----------------------------------------------------------------------------
(***************************************************************************)
(* What the tests and the README say of the room, and the code does not    *)
(* keep: TLC refutes each of them.                                         *)
(***************************************************************************)

\* A room is in STARTING only while the start_game handler that put it there
\* runs: a start that fails puts the room back to WAITING.
StartingIsOwned == stored /\ room.status = "starting" => ~LockFree

\* A room that was deleted with its last player stays deleted.
DeletedStaysDeleted == [][~stored => ~stored']_vars

\* The owner of a round result does not block the others once its grace
\* period has run out.
ResultOwnerNeverBlocks ==
  stored /\ room.status = "playing" /\ room.connected # {} =>
    room.lastRound \notin room.excluded

\* Nor does the player in turn, when there is no round and no result.
TurnHolderNeverBlocks ==
  /\ stored /\ room.status = "playing" /\ room.connected # {}
  /\ {room.pending, room.lastRound, room.lastPass} = {NoPlayer}
  => room.turn \notin room.excluded

\* Expired voters do not block a round: a round that waits, waits for the
\* vote of somebody who is still counted.
RoundIsVotable ==
  stored /\ room.pending # NoPlayer /\ Cardinality(room.players) >= 2 =>
    EligibleVoters(room) # {}

\* A game is played by at least two players.
PlayingHasTwo == stored /\ room.status = "playing" => Cardinality(room.players) >= 2

\* The host is a member of the room.
HostIsMember == stored => room.host \in room.players

\* A player is missed only for its grace period: in a game, who is absent and
\* not excluded has a running timer.
AbsenceIsTimed ==
  stored /\ room.status = "playing" =>
    room.players \subseteq room.connected \union room.excluded \union grace
=============================================================================
