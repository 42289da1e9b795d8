------------------------------ MODULE TurnCycle ------------------------------
(***************************************************************************)
(* What a game of the room promises to its players, with nothing of        *)
(* connections, timers, hands and locks: somebody holds the turn, makes    *)
(* one move, everybody who is counted votes on it, the holder reads the    *)
(* result, and the turn goes on.  Players come and go at any moment.       *)
(*                                                                         *)
(* RoomCycle shows that the room implements this cycle.                    *)
(***************************************************************************)
EXTENDS Naturals

CONSTANTS Player, NoPlayer

VARIABLES
  phase,    \* what the game waits for
  holder,   \* the player in turn
  missing   \* the voters the open ballot still waits for

cycle == <<phase, holder, missing>>

Running == {"move", "voting", "result", "pass"}
Phase == Running \union {"lobby", "over"}

Init ==
  /\ phase = "lobby"
  /\ holder \in Player
  /\ missing = {}

\* The game goes from one of the phases in from to the phase to; a ballot that
\* was open is closed.
Move(from, to) ==
  /\ phase \in from
  /\ phase' = to
  /\ missing' = {}

SomebodyHolds == holder' \in Player \union {NoPlayer}

\* Outside a game the turn is a seat that is handed on as players leave.
Reseat ==
  /\ phase \in {"lobby", "over"}
  /\ SomebodyHolds
  /\ UNCHANGED <<phase, missing>>

Deal == Move({"lobby"}, "move") /\ SomebodyHolds

\* A pass result does not keep its owner from answering after all.
Answer ==
  /\ phase \in {"move", "pass"}
  /\ phase' = "voting"
  /\ missing' \in SUBSET (Player \ {holder})
  /\ UNCHANGED holder

Pass == Move({"move"}, "pass") /\ UNCHANGED holder

\* One voter fewer is missing: it voted, left, or is not waited for any more.
Vote ==
  /\ phase = "voting"
  /\ \E v \in missing : missing' = missing \ {v}
  /\ missing' # {}
  /\ UNCHANGED <<phase, holder>>

\* A voter who was not counted comes back.
Return ==
  /\ phase = "voting"
  /\ \E v \in Player \ {holder} : missing' = missing \union {v}
  /\ UNCHANGED <<phase, holder>>

\* At most one voter was missing: the ballot is decided, for the holder.
Resolve ==
  /\ \E v \in Player : missing \subseteq {v}
  /\ Move({"voting"}, "result") \/ Move({"voting"}, "over")
  /\ UNCHANGED holder

\* The holder of a result goes on, or does not come back to it.
Continue == Move({"result", "pass"}, "move") /\ SomebodyHolds

\* The holder is gone: the turn, and the round if there was one, is given up.
Release ==
  /\ Move({"move", "voting"}, "move")
  /\ SomebodyHolds
  /\ holder' # holder

\* One player alone is left.
Abandon == Move(Running, "over") /\ SomebodyHolds

Replay == Move({"over"}, "lobby") /\ SomebodyHolds

Next ==
  \/ Reseat \/ Deal \/ Answer \/ Pass \/ Vote \/ Return
  \/ Resolve \/ Continue \/ Release \/ Abandon \/ Replay

Spec == Init /\ [][Next]_cycle
=============================================================================
