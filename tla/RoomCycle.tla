------------------------------ MODULE RoomCycle ------------------------------
(***************************************************************************)
(* The room implements the cycle of a game, and the attendance of its      *)
(* players: the refinement mappings from RoomGame to TurnCycle and to      *)
(* Attendance.                                                             *)
(***************************************************************************)
EXTENDS RoomGame

\* What the game of a room waits for.
PhaseOf(r) ==
  IF r.status \in {"waiting", "starting"} THEN "lobby"
  ELSE IF r.status = "finished" THEN "over"
  ELSE IF r.pending # NoPlayer THEN "voting"
  ELSE IF r.lastRound # NoPlayer THEN "result"
  ELSE IF r.lastPass # NoPlayer THEN "pass"
  ELSE "move"

\* The eligible voters without a vote.
MissingOf(r) ==
  IF r.status = "playing" THEN {v \in EligibleVoters(r) : r.votes[v] = NoVote} ELSE {}

Cycle == INSTANCE TurnCycle WITH
  phase   <- PhaseOf(room),
  holder  <- room.turn,
  missing <- MissingOf(room)

\* Whatever leaves, losses, expiries and returns come between the steps of a
\* round, the players see one game: a move of the player in turn, a ballot
\* that is decided when nobody is missing, a result for the same player, and
\* only then the next turn (game_service.py and its callers).
ImplementsTurnCycle == Cycle!Spec

\* Where the room has the player p.
SeatOf(p) ==
  IF p > joined THEN "unknown"
  ELSE IF p \notin room.players THEN "gone"
  ELSE IF p \in room.connected THEN "here"
  ELSE IF p \in room.excluded THEN "excluded"
  ELSE IF p \in grace THEN "timed" ELSE "untimed"

Attendance == INSTANCE Attendance WITH seat <- [p \in Player |-> SeatOf(p)]

\* Also what the room does with its players' flags, through games, evictions
\* and changes of host, is one attendance (room_service.py and its callers).
ImplementsAttendance == Attendance!Spec
=============================================================================
