--------------------------- MODULE RoomCycle_proofs ---------------------------
(***************************************************************************)
(* The room implements the cycle of a game, and the action properties of   *)
(* rounds, for every number of joins, capacity, rule and hand size.        *)
(*                                                                         *)
(* All four results say something of a room and its successor.  GameStep   *)
(* puts them together; each method of the services is shown to take such a *)
(* step from a room that satisfies the invariant of RoomSafety_proofs.     *)
(***************************************************************************)
EXTENDS RoomCycle, Eviction_proofs

\* TurnMovesOnlyWhenReleased, ResultNeedsEveryVoter and GameEndsForAReason, of
\* any room and its successor
TurnKept(r, s) ==
  r.status = "playing" /\ s.status = "playing" /\ s.turn # r.turn =>
    \/ r.turn \notin s.players
    \/ r.turn \in s.excluded
    \/ r.turn \in {r.lastRound, r.lastPass}

Decided(r, s) ==
  r.pending # NoPlayer /\ s.pending = NoPlayer =>
    \/ r.pending \notin s.players
    \/ Cardinality(s.players) < 2
    \/ /\ s.lastRound = r.pending
       /\ \A p, q \in s.players \ (s.excluded \union {r.pending}) :
            r.votes[p] = NoVote /\ r.votes[q] = NoVote => p = q

EndsRightly(r, s) ==
  r.status = "playing" /\ s.status = "finished" =>
    \/ Cardinality(s.players) < 2
    \/ /\ r.pending \in s.players
       /\ r.hand[r.pending] = 0
       /\ s.hand[r.pending] = 0

\* The steps of TurnCycle, in its order, between the images of two rooms
CycleStep(r, s) ==
  LET from == PhaseOf(r)    to == PhaseOf(s)
      lack == MissingOf(r)  left == MissingOf(s)
  IN  \/ from = to /\ left = lack /\ (s.turn = r.turn \/ from \in {"lobby", "over"})
      \/ from = "lobby" /\ to = "move" /\ left = {}
      \/ /\ from \in {"move", "pass"} /\ to = "voting"
         /\ left \in SUBSET (Player \ {r.turn}) /\ s.turn = r.turn
      \/ from = "move" /\ to = "pass" /\ left = {} /\ s.turn = r.turn
      \/ /\ from = "voting" /\ to = "voting" /\ s.turn = r.turn
         /\ \E v \in lack : left = lack \ {v}
         /\ left # {}
      \/ /\ from = "voting" /\ to = "voting" /\ s.turn = r.turn
         /\ \E v \in Player \ {r.turn} : left = lack \union {v}
      \/ /\ from = "voting" /\ to \in {"result", "over"} /\ left = {} /\ s.turn = r.turn
         /\ \E v \in Player : lack \subseteq {v}
      \/ from \in {"result", "pass"} /\ to = "move" /\ left = {}
      \/ from \in {"move", "voting"} /\ to = "move" /\ left = {} /\ s.turn # r.turn
      \/ from \in Cycle!Running /\ to = "over" /\ left = {}
      \/ from = "over" /\ to = "lobby" /\ left = {}

GameStep(r, s) == TurnKept(r, s) /\ Decided(r, s) /\ EndsRightly(r, s) /\ CycleStep(r, s)

\* The eligible voters without a vote
Missing(r) == {v \in EligibleVoters(r) : r.votes[v] = NoVote}

\* What a room shows of its game.
LEMMA PhaseIs ==
  ASSUME NEW r \in Room
  PROVE  /\ r.status \in {"waiting", "starting"} => PhaseOf(r) = "lobby" /\ MissingOf(r) = {}
         /\ r.status = "finished" => PhaseOf(r) = "over" /\ MissingOf(r) = {}
         /\ r.status = "playing" =>
              /\ r.pending # NoPlayer => PhaseOf(r) = "voting" /\ MissingOf(r) = Missing(r)
              /\ r.pending = NoPlayer =>
                   /\ MissingOf(r) = {}
                   /\ r.lastRound # NoPlayer => PhaseOf(r) = "result"
                   /\ r.lastRound = NoPlayer /\ r.lastPass # NoPlayer => PhaseOf(r) = "pass"
                   /\ r.lastRound = NoPlayer /\ r.lastPass = NoPlayer => PhaseOf(r) = "move"
<1>1. r.status \in RoomStatus
  BY DEF Room
<1>2. r.status # "playing" => MissingOf(r) = {}
  BY DEF MissingOf
<1>3. r.status = "playing" => MissingOf(r) = Missing(r)
  BY DEF MissingOf, Missing
<1>4. r.pending = NoPlayer => Missing(r) = {}
  BY DEF Missing, EligibleVoters
<1>5. /\ r.status \in {"waiting", "starting"} => PhaseOf(r) = "lobby"
      /\ r.status = "finished" => PhaseOf(r) = "over"
  BY DEF PhaseOf
<1>6. r.status = "playing" =>
        /\ r.pending # NoPlayer => PhaseOf(r) = "voting"
        /\ r.pending = NoPlayer =>
             /\ r.lastRound # NoPlayer => PhaseOf(r) = "result"
             /\ r.lastRound = NoPlayer /\ r.lastPass # NoPlayer => PhaseOf(r) = "pass"
             /\ r.lastRound = NoPlayer /\ r.lastPass = NoPlayer => PhaseOf(r) = "move"
  BY DEF PhaseOf
<1> QED
  BY <1>1, <1>2, <1>3, <1>4, <1>5, <1>6

-----------------------------------------------------------------------------
(***************************************************************************)
(* Steps by their shape.                                                   *)
(***************************************************************************)

\* Outside a game the only way into one is a deal, and a finished game stays
\* or goes back to the lobby.
LEMMA OutsideGame ==
  ASSUME NEW r \in Room, OwnersFit(r), r.status # "playing",
         NEW s \in Room,
         \/ r.status \in {"waiting", "starting"} /\ s.status \in {"waiting", "starting"}
         \/ /\ r.status \in {"waiting", "starting"} /\ s.status = "playing"
            /\ s.pending = NoPlayer /\ s.lastRound = NoPlayer /\ s.lastPass = NoPlayer
         \/ r.status = "finished" /\ s.status \in {"finished", "waiting"}
  PROVE  GameStep(r, s)
<1>1. r.pending = NoPlayer
  BY DEF OwnersFit, Room, RoomStatus
<1>2. TurnKept(r, s) /\ Decided(r, s) /\ EndsRightly(r, s)
  BY <1>1 DEF TurnKept, Decided, EndsRightly
<1>3. CycleStep(r, s)
  BY PhaseIs DEF CycleStep
<1> QED
  BY <1>2, <1>3 DEF GameStep

\* The game of the room is as it was
SameGame(r, s) ==
  /\ s.status = r.status /\ s.turn = r.turn /\ s.pending = r.pending
  /\ s.lastRound = r.lastRound /\ s.lastPass = r.lastPass

\* A step that leaves the game and the missing voters alone shows nothing.
LEMMA QuietStep ==
  ASSUME NEW r \in Room, NEW s \in Room, SameGame(r, s), Missing(s) = Missing(r)
  PROVE  GameStep(r, s)
<1>1. TurnKept(r, s) /\ Decided(r, s) /\ EndsRightly(r, s)
  BY DEF SameGame, TurnKept, Decided, EndsRightly
<1>2. PhaseOf(s) = PhaseOf(r) /\ MissingOf(s) = MissingOf(r)
  BY PhaseIs DEF SameGame, Room, RoomStatus
<1>3. CycleStep(r, s)
  BY <1>2 DEF SameGame, CycleStep
<1> QED
  BY <1>1, <1>3 DEF GameStep

\* _advance_turn, or a round given up: from a result or a pass, or because the
\* player in turn is gone or not counted any more.
LEMMA AdvanceStep ==
  ASSUME NEW r \in Room, r.status = "playing", NEW s \in Room, s.status = "playing",
         s.pending = NoPlayer, s.lastRound = NoPlayer, s.lastPass = NoPlayer,
         \/ r.turn \notin s.players \/ r.turn \in s.excluded
         \/ r.turn \in {r.lastRound, r.lastPass},
         r.pending # NoPlayer => s.turn # r.turn /\ r.pending \notin s.players
  PROVE  GameStep(r, s)
<1>1. TurnKept(r, s) /\ Decided(r, s) /\ EndsRightly(r, s)
  BY DEF TurnKept, Decided, EndsRightly
<1>2. PhaseOf(s) = "move" /\ MissingOf(s) = {}
  BY PhaseIs
<1>3. CycleStep(r, s)
  BY <1>2, PhaseIs DEF CycleStep
<1> QED
  BY <1>1, <1>3 DEF GameStep

\* The room m is r, in which the voter p is no longer waited for
Uncounted(r, m, p) ==
  /\ SameGame(r, m)
  /\ m.players \subseteq r.players
  /\ \A q \in m.players : m.hand[q] = r.hand[q]
  /\ EligibleVoters(m) \subseteq EligibleVoters(r)
  /\ Missing(m) = Missing(r) \ {p}

\* What reconcile_pending_round does to a round: it stays open for the voters
\* who are missing, or, when nobody is, it is resolved.
LEMMA ReconcilePendingShape ==
  ASSUME NEW m \in Room
  PROVE  LET s == ReconcilePendingRound(m)
         IN  \/ m.pending = NoPlayer /\ s = m
             \/ /\ m.pending # NoPlayer /\ SameGame(m, s)
                /\ Missing(s) = Missing(m) /\ Missing(m) # {}
             \/ /\ m.pending # NoPlayer /\ Missing(m) = {}
                /\ s.pending = NoPlayer /\ s.lastRound = m.pending /\ s.turn = m.turn
                /\ s.status \in {m.status, "finished"}
                /\ \A q \in Player : q # m.pending => s.hand[q] = m.hand[q]
                /\ s.hand[m.pending] = 0 => m.hand[m.pending] = 0
                /\ s.status = m.status \/ \E q \in m.players : s.hand[q] = 0
<1> DEFINE eligible == EligibleVoters(m)
           counted  == [m EXCEPT !.votes =
                          [v \in Player |-> IF v \in eligible THEN @[v] ELSE NoVote]]
<1>0. eligible \subseteq Player
  BY DEF EligibleVoters, Room
<1>1. counted \in Room /\ SameGame(m, counted) /\ counted.players = m.players
      /\ counted.excluded = m.excluded /\ counted.hand = m.hand
      /\ \A v \in eligible : counted.votes[v] = m.votes[v]
  BY <1>0 DEF Room, SameGame
<1>2. EligibleVoters(counted) = eligible
  BY <1>1 DEF EligibleVoters, SameGame
<1>3. Missing(counted) = Missing(m)
  BY <1>1, <1>2 DEF Missing
<1>4. CASE m.pending = NoPlayer
  BY <1>4 DEF ReconcilePendingRound
<1>5. CASE m.pending # NoPlayer /\ \E v \in eligible : m.votes[v] = NoVote
  <2>1. ReconcilePendingRound(m) = counted
    BY <1>5 DEF ReconcilePendingRound
  <2>2. Missing(m) # {}
    BY <1>5 DEF Missing
  <2> HIDE DEF counted
  <2> QED
    BY <1>1, <1>3, <1>5, <2>1, <2>2
<1>6. CASE m.pending # NoPlayer /\ ~ \E v \in eligible : m.votes[v] = NoVote
  <2>1. ReconcilePendingRound(m) = ResolveRound(counted)
    BY <1>6 DEF ReconcilePendingRound
  <2>2. Missing(m) = {}
    BY <1>6 DEF Missing
  <2> HIDE DEF counted
  <2> DEFINE s == ResolveRound(counted)
             gain == IF Accepted(counted.votes) THEN 0 ELSE Penalty(counted)
  <2>3. gain \in Nat
    BY DEF Penalty
  <2>4. m.pending \in Player
    BY <1>6 DEF Room
  <2>5. s = [counted EXCEPT !.hand      = [counted.hand EXCEPT ![counted.pending] = @ + gain],
                            !.lastRound = counted.pending,
                            !.pending   = NoPlayer,
                            !.votes     = NoVotes,
                            !.status    = IF \E p \in counted.players :
                                               [counted.hand EXCEPT ![counted.pending] = @ + gain][p] = 0
                                          THEN "finished" ELSE @]
    BY DEF ResolveRound
  <2> HIDE DEF gain, s
  <2>6. /\ s.hand = [counted.hand EXCEPT ![counted.pending] = @ + gain]
        /\ s.lastRound = counted.pending /\ s.pending = NoPlayer /\ s.turn = counted.turn
        /\ s.status = IF \E p \in counted.players : s.hand[p] = 0
                      THEN "finished" ELSE counted.status
    BY <1>1, <2>5 DEF Room
  <2>7. /\ \A q \in Player : q # m.pending => s.hand[q] = m.hand[q]
        /\ s.hand[m.pending] = m.hand[m.pending] + gain
    BY <1>1, <2>4, <2>6 DEF Room, SameGame
  <2>8. m.hand[m.pending] \in Nat
    BY <2>4 DEF Room
  <2>9. s.hand[m.pending] = 0 => m.hand[m.pending] = 0
    BY <2>3, <2>7, <2>8
  <2> QED
    BY <1>1, <1>6, <2>1, <2>2, <2>6, <2>7, <2>9 DEF s, SameGame
<1> QED
  BY <1>4, <1>5, <1>6

\* The count after p is no longer waited for.
LEMMA RecountStep ==
  ASSUME NEW r, Settled(r), r.status = "playing", NEW p \in Player,
         NEW m \in Room, Uncounted(r, m, p),
         NEW s \in Room, s = ReconcilePendingRound(m), s.players = m.players,
         s.excluded = m.excluded
  PROVE  GameStep(r, s)
<1>0. r \in Room /\ HandsFit(r)
  BY DEF Settled
<1>1. CASE m.pending = NoPlayer /\ s = m
  <2>1. Missing(m) = {} /\ Missing(r) = {}
    BY <1>1 DEF Uncounted, SameGame, Missing, EligibleVoters
  <2> QED
    BY <1>0, <1>1, <2>1, QuietStep DEF Uncounted
<1>2. CASE /\ m.pending # NoPlayer /\ SameGame(m, s)
           /\ Missing(s) = Missing(m) /\ Missing(m) # {}
  <2>1. /\ PhaseOf(r) = "voting" /\ MissingOf(r) = Missing(r)
        /\ PhaseOf(s) = "voting" /\ MissingOf(s) = Missing(r) \ {p}
        /\ MissingOf(s) # {} /\ s.turn = r.turn
    BY <1>0, <1>2, PhaseIs DEF Uncounted, SameGame
  <2>2. CycleStep(r, s)
    <3>1. CASE p \in Missing(r)
      BY <2>1, <3>1 DEF CycleStep
    <3>2. CASE p \notin Missing(r)
      <4>1. Missing(r) \ {p} = Missing(r)
        BY <3>2
      <4> QED
        BY <2>1, <4>1 DEF CycleStep
    <3> QED
      BY <3>1, <3>2
  <2>3. TurnKept(r, s) /\ Decided(r, s) /\ EndsRightly(r, s)
    BY <1>2 DEF Uncounted, SameGame, TurnKept, Decided, EndsRightly
  <2> QED
    BY <2>2, <2>3 DEF GameStep
<1>3. CASE /\ m.pending # NoPlayer /\ Missing(m) = {}
           /\ s.pending = NoPlayer /\ s.lastRound = m.pending /\ s.turn = m.turn
           /\ s.status \in {m.status, "finished"}
           /\ \A q \in Player : q # m.pending => s.hand[q] = m.hand[q]
           /\ s.hand[m.pending] = 0 => m.hand[m.pending] = 0
           /\ s.status = m.status \/ \E q \in m.players : s.hand[q] = 0
  <2>1. /\ r.pending # NoPlayer /\ m.pending = r.pending /\ m.status = "playing"
        /\ s.turn = r.turn
    BY <1>3 DEF Uncounted, SameGame
  <2>2. Missing(r) \subseteq {p}
    BY <1>3 DEF Uncounted
  <2>3. CycleStep(r, s)
    <3>1. PhaseOf(r) = "voting" /\ MissingOf(r) = Missing(r)
      BY <1>0, <2>1, PhaseIs
    <3>2. PhaseOf(s) \in {"result", "over"} /\ MissingOf(s) = {}
      BY <1>3, <2>1, PhaseIs
    <3>3. \E v \in Player : MissingOf(r) \subseteq {v}
      BY <2>2, <3>1
    <3> QED
      BY <2>1, <3>1, <3>2, <3>3 DEF CycleStep
  <2>4. TurnKept(r, s)
    BY <2>1 DEF TurnKept
  <2>5. Decided(r, s)
    <3>1. ASSUME NEW a \in s.players \ (s.excluded \union {r.pending}), r.votes[a] = NoVote
          PROVE  a = p
      <4>1. a \in EligibleVoters(m)
        BY <2>1, <3>1 DEF EligibleVoters
      <4>2. a \in Missing(r)
        BY <3>1, <4>1 DEF Uncounted, Missing
      <4> QED
        BY <2>2, <4>2
    <3>2. s.lastRound = r.pending
      BY <1>3, <2>1
    <3> QED
      BY <3>1, <3>2 DEF Decided
  <2>6. EndsRightly(r, s)
    <3>1. SUFFICES ASSUME s.status = "finished"
                   PROVE  /\ r.pending \in s.players
                          /\ r.hand[r.pending] = 0
                          /\ s.hand[r.pending] = 0
      BY DEF EndsRightly
    <3>2. PICK q \in m.players : s.hand[q] = 0
      BY <1>3, <2>1, <3>1
    <3>3. q \in r.players /\ m.hand[q] = r.hand[q] /\ q \in Player
      BY <1>0, <3>2 DEF Uncounted, Room
    <3>4. q = r.pending
      BY <1>0, <1>3, <2>1, <3>2, <3>3 DEF HandsFit
    <3> QED
      BY <1>3, <2>1, <3>2, <3>3, <3>4
  <2> QED
    BY <2>3, <2>4, <2>5, <2>6 DEF GameStep
<1> QED
  BY <1>1, <1>2, <1>3, ReconcilePendingShape

\* _advance_turn, once the owner of a result or a pass is through with it
LEMMA AdvanceGame ==
  ASSUME NEW m \in Room
  PROVE  LET s == AdvanceTurn(m)
         IN  /\ s \in Room /\ s.players = m.players /\ s.excluded = m.excluded
             /\ s.status = m.status /\ s.pending = m.pending
             /\ s.lastRound = m.lastRound /\ s.lastPass = m.lastPass
             /\ m.players # {} => s.turn \in m.players
<1> DEFINE t == AdvanceTurn(m).turn
<1>1. AdvanceTurn(m) = [m EXCEPT !.turn = t] /\ AdvanceTurn(m) \in Room
      /\ (m.players # {} => t \in m.players)
  BY AdvanceTurnShape, AdvanceTurnType
<1> HIDE DEF t
<1>2. LET s == [m EXCEPT !.turn = t]
      IN  /\ s.players = m.players /\ s.excluded = m.excluded
          /\ s.status = m.status /\ s.pending = m.pending
          /\ s.lastRound = m.lastRound /\ s.lastPass = m.lastPass /\ s.turn = t
  BY DEF Room
<1> QED
  BY <1>1, <1>2

\* continue_round_result in a game, and continue_pass_result: the result is
\* gone and the turn has moved on.
LEMMA ContinueGame ==
  ASSUME NEW m \in Room, m.status = "playing"
  PROVE  /\ m.lastRound # NoPlayer =>
              LET s == ContinueRoundResult(m)
              IN  /\ s \in Room /\ s.players = m.players /\ s.status = "playing"
                  /\ s.pending = m.pending /\ s.lastRound = NoPlayer
                  /\ s.lastPass = m.lastPass
         /\ m.lastPass # NoPlayer =>
              LET s == ContinuePassResult(m)
              IN  /\ s \in Room /\ s.players = m.players /\ s.status = "playing"
                  /\ s.pending = m.pending /\ s.lastRound = m.lastRound
                  /\ s.lastPass = NoPlayer
<1> DEFINE seen  == [m EXCEPT !.lastRound = NoPlayer]
           acked == [m EXCEPT !.lastPass = NoPlayer]
<1>1. /\ seen \in Room /\ seen.players = m.players /\ seen.status = "playing"
      /\ seen.pending = m.pending /\ seen.lastRound = NoPlayer /\ seen.lastPass = m.lastPass
  BY DEF Room
<1>2. /\ acked \in Room /\ acked.players = m.players /\ acked.status = "playing"
      /\ acked.pending = m.pending /\ acked.lastRound = m.lastRound /\ acked.lastPass = NoPlayer
  BY DEF Room
<1>3. /\ m.lastRound # NoPlayer => ContinueRoundResult(m) = AdvanceTurn(seen)
      /\ m.lastPass # NoPlayer => ContinuePassResult(m) = AdvanceTurn(acked)
  BY DEF ContinueRoundResult, ContinuePassResult
<1> HIDE DEF seen, acked
<1> QED
  BY <1>1, <1>2, <1>3, AdvanceGame

-----------------------------------------------------------------------------
(***************************************************************************)
(* Steps by their method, in a game.                                       *)
(***************************************************************************)

\* reconcile_disconnected_player, for a voter p who left or is excluded
LEMMA ReconcileGameStep ==
  ASSUME NEW r, Settled(r), r.status = "playing", NEW p \in Player,
         NEW m, Unsettled(m), Uncounted(r, m, p), p \notin m.players \/ p \in m.excluded
  PROVE  GameStep(r, ReconcileDisconnectedPlayer(m, p))
<1> DEFINE settled == ReconcilePendingRound(m)
           s       == ReconcileDisconnectedPlayer(m, p)
<1>0. /\ r \in Room /\ OwnersFit(r) /\ m \in Room /\ OwnersFit(m) /\ p # NoPlayer
      /\ m.status = "playing" /\ m.turn = r.turn /\ m.pending = r.pending
      /\ m.lastRound = r.lastRound /\ m.lastPass = r.lastPass
  BY DEF Settled, Unsettled, Uncounted, SameGame, Player, NoPlayer
<1>1. CASE m.lastRound = p
  <2>1. s = ContinueRoundResult(m)
    BY <1>0, <1>1 DEF ReconcileDisconnectedPlayer
  <2>2. m.pending = NoPlayer /\ m.lastPass = NoPlayer /\ r.turn = p
    BY <1>0, <1>1 DEF OwnersFit
  <2>3. /\ s \in Room /\ s.status = "playing" /\ s.pending = NoPlayer
        /\ s.lastRound = NoPlayer /\ s.lastPass = NoPlayer
    BY <1>0, <1>1, <2>1, <2>2, ContinueGame
  <2> HIDE DEF s
  <2>4. GameStep(r, s)
    BY <1>0, <1>1, <2>2, <2>3, AdvanceStep
  <2> QED
    BY <2>4 DEF s
<1>2. CASE m.lastRound # p /\ m.lastPass = p
  <2>1. s = ContinuePassResult(m)
    BY <1>0, <1>2 DEF ReconcileDisconnectedPlayer
  <2>2. m.pending = NoPlayer /\ m.lastRound = NoPlayer /\ r.turn = p
    BY <1>0, <1>2 DEF OwnersFit
  <2>3. /\ s \in Room /\ s.status = "playing" /\ s.pending = NoPlayer
        /\ s.lastRound = NoPlayer /\ s.lastPass = NoPlayer
    BY <1>0, <1>2, <2>1, <2>2, ContinueGame
  <2> HIDE DEF s
  <2>4. GameStep(r, s)
    BY <1>0, <1>2, <2>2, <2>3, AdvanceStep
  <2> QED
    BY <2>4 DEF s
<1>3. CASE /\ m.lastRound # p /\ m.lastPass # p
           /\ ~(m.pending # NoPlayer /\ settled.pending = NoPlayer)
           /\ settled.turn = p /\ settled.pending = NoPlayer
  <2>1. s = AdvanceTurn(settled)
    BY <1>0, <1>3 DEF ReconcileDisconnectedPlayer
  <2>2. m.pending = NoPlayer /\ settled = m
    BY <1>3 DEF ReconcilePendingRound
  <2>3. m.lastRound = NoPlayer /\ m.lastPass = NoPlayer /\ r.turn = p
    BY <1>0, <1>3, <2>2 DEF OwnersFit
  <2>4. /\ s \in Room /\ s.status = "playing" /\ s.players = m.players
        /\ s.excluded = m.excluded /\ s.pending = NoPlayer
        /\ s.lastRound = NoPlayer /\ s.lastPass = NoPlayer
    BY <1>0, <2>1, <2>2, <2>3, AdvanceGame
  <2> HIDE DEF s
  <2>5. GameStep(r, s)
    BY <1>0, <2>2, <2>3, <2>4, AdvanceStep
  <2> QED
    BY <2>5 DEF s
<1>4. CASE /\ m.lastRound # p /\ m.lastPass # p
           /\ ~(/\ ~(m.pending # NoPlayer /\ settled.pending = NoPlayer)
                /\ settled.turn = p /\ settled.pending = NoPlayer)
  <2>1. s = settled
    BY <1>0, <1>4 DEF ReconcileDisconnectedPlayer
  <2>2. settled \in Room /\ settled.players = m.players /\ settled.excluded = m.excluded
    BY <1>0, ReconcilePendingType, ReconcilePendingFrame DEF SameMembers
  <2> QED
    BY <1>0, <2>1, <2>2, RecountStep
<1> QED
  BY <1>1, <1>2, <1>3, <1>4

\* expire_disconnected_player
LEMMA ExpireGameStep ==
  ASSUME NEW r, Fit(r), r.status = "playing", NEW p \in r.players, p \notin r.connected
  PROVE  GameStep(r, ExpirePlayer(r, p))
<1> DEFINE out    == [r EXCEPT !.excluded = @ \union {p}]
           next   == First(r.connected \ {p})
           hosted == IF r.host = p /\ r.connected \ {p} # {} THEN AssignHost(out, next) ELSE out
<1>0. r \in Room /\ p \in Player /\ Settled(r) /\ FlagsFit(r)
  BY DEF Fit, Settled, Room
<1>1. /\ out \in Room /\ SameGame(r, out) /\ out.players = r.players
      /\ out.connected = r.connected /\ out.ready = r.ready /\ out.isHost = r.isHost
      /\ out.excluded = r.excluded \union {p} /\ out.votes = r.votes /\ out.hand = r.hand
  BY <1>0 DEF Room, SameGame
<1>2. ExpirePlayer(r, p) = ReconcileDisconnectedPlayer(hosted, p)
  BY DEF ExpirePlayer
<1> HIDE DEF out
<1>3. r.connected \ {p} # {} => next \in Player /\ next \in r.players
  <2>1. r.connected \ {p} \in SUBSET Player
    BY <1>0 DEF Room
  <2> QED
    BY <1>0, <2>1, FirstMember DEF FlagsFit
<1> HIDE DEF next
<1>4. /\ hosted \in Room /\ SameGame(r, hosted) /\ hosted.players = r.players
      /\ hosted.connected = r.connected /\ hosted.ready = r.ready
      /\ hosted.isHost \subseteq r.players
      /\ hosted.excluded = r.excluded \union {p} /\ hosted.votes = r.votes
      /\ hosted.hand = r.hand
  <2>1. CASE r.host = p /\ r.connected \ {p} # {}
    <3>1. AssignHost(out, next) \in Room
      BY <1>1, <1>3, <2>1, AssignHostType
    <3>2. AssignHost(out, next) \in {out, [out EXCEPT !.host = next, !.isHost = {next}]}
      BY DEF AssignHost
    <3>3. out.isHost \subseteq r.players
      BY <1>0, <1>1 DEF FlagsFit
    <3>4. LET t == [out EXCEPT !.host = next, !.isHost = {next}]
          IN  /\ SameGame(r, t) /\ t.players = out.players /\ t.connected = out.connected
              /\ t.ready = out.ready /\ t.isHost = {next} /\ t.excluded = out.excluded
              /\ t.votes = out.votes /\ t.hand = out.hand
      BY <1>1 DEF Room, SameGame
    <3> QED
      BY <1>1, <1>3, <2>1, <3>1, <3>2, <3>3, <3>4
  <2>2. CASE ~(r.host = p /\ r.connected \ {p} # {})
    BY <1>0, <1>1, <2>2 DEF FlagsFit
  <2> QED
    BY <2>1, <2>2
<1> HIDE DEF hosted
<1>5. Uncounted(r, hosted, p)
  <2>1. EligibleVoters(hosted) = EligibleVoters(r) \ {p}
    BY <1>4 DEF EligibleVoters, SameGame
  <2>2. Missing(hosted) = Missing(r) \ {p}
    BY <1>4, <2>1 DEF Missing
  <2> QED
    BY <1>4, <2>1, <2>2 DEF Uncounted
<1>6. OwnersFit(hosted) /\ HandsFit(hosted) /\ NoStrayBallot(hosted)
  BY <1>0, <1>4, NoRoundNoVotes DEF Settled, OwnersFit, HandsFit, NoStrayBallot, SameGame
<1>7. FlagsFit(hosted)
  BY <1>0, <1>4 DEF FlagsFit
<1>8. Unsettled(hosted)
  BY <1>4, <1>6, <1>7 DEF Unsettled
<1> QED
  BY <1>0, <1>2, <1>4, <1>5, <1>8, ReconcileGameStep

\* leave_room_with_result
LEMMA LeaveGameStep ==
  ASSUME NEW r, Fit(r), r.status = "playing", NEW p \in r.players
  PROVE  GameStep(r, LeaveRoom(r, p))
<1> DEFINE rest   == Without(r, p)
           hosted == IF r.host = p THEN AssignHost(rest, NextHost(rest)) ELSE rest
           left   == RemovePlayerFromGame(hosted, p)
           done   == ReconcileDisconnectedPlayer(left, p)
<1>0. /\ r \in Room /\ p \in Player /\ p # NoPlayer /\ Settled(r) /\ OwnersFit(r)
      /\ r.turn \in r.players
  <2>1. r \in Room /\ p \in Player /\ Settled(r) /\ OwnersFit(r)
    BY DEF Fit, Settled, Room
  <2> QED
    BY <2>1 DEF Fit, Led, RolesFit, Player, NoPlayer
<1>1. rest.players = r.players \ {p} /\ HandedOver(r, IF rest.players # {} THEN hosted ELSE rest, p)
  BY HandOver
<1>2. CASE rest.players = {}
  <2>1. LeaveRoom(r, p) = rest
    BY <1>2 DEF LeaveRoom
  <2>2. HandedOver(r, rest, p)
    BY <1>1, <1>2
  <2>3. EligibleVoters(r) = {}
    BY <1>0, <1>1, <1>2 DEF OwnersFit, EligibleVoters
  <2> HIDE DEF rest
  <2>4. rest \in Room /\ SameGame(r, rest) /\ Missing(rest) = {} /\ Missing(r) = {}
    BY <1>2, <2>2, <2>3 DEF HandedOver, SameGame, Missing, EligibleVoters
  <2> QED
    BY <1>0, <2>1, <2>4, QuietStep
<1>3. CASE rest.players # {}
  <2>1. HandedOver(r, hosted, p) /\ LeaveRoom(r, p) = ResolveTurn(done)
    BY <1>1, <1>3 DEF LeaveRoom
  <2> HIDE DEF rest, hosted
  <2>2. hosted \in Room /\ hosted.players = r.players \ {p} /\ hosted.players # {}
        /\ hosted.excluded = r.excluded \ {p} /\ SameGame(r, hosted)
        /\ hosted.votes = r.votes
        /\ \A q \in r.players : q # p => hosted.hand[q] = r.hand[q]
    BY <1>0, <1>1, <1>3, <2>1 DEF HandedOver, SameGame, Room, rest
  <2>3. Unsettled(left) /\ SameMembers(hosted, left) /\ left.turn = r.turn /\ left.pending # p
    BY <2>1, <2>2, RemovePlayerUnsettles DEF SameGame
  <2>4. CASE Cardinality(hosted.players) < 2
    <3>1. left = [hosted EXCEPT !.status = "finished", !.pending = NoPlayer,
                                !.votes = NoVotes, !.lastPass = NoPlayer]
      BY <2>2, <2>4 DEF RemovePlayerFromGame, SameGame
    <3>2. left.status = "finished" /\ left.players = hosted.players
      BY <2>2, <3>1 DEF Room
    <3>3. done = left
      BY <3>2 DEF ReconcileDisconnectedPlayer
    <3> HIDE DEF left, done
    <3> DEFINE t == ResolveTurn(done).turn
    <3> HIDE DEF t
    <3>4. ResolveTurn(done) \in Room /\ ResolveTurn(done) = [left EXCEPT !.turn = t]
      BY <2>3, <3>3, ResolveTurnShape, ResolveTurnType DEF Unsettled, t
    <3> DEFINE s == ResolveTurn(done)
    <3>5. s.status = "finished" /\ s.players = hosted.players
      BY <2>3, <3>2, <3>4 DEF Unsettled, Room
    <3> HIDE DEF s
    <3>6. TurnKept(r, s) /\ Decided(r, s) /\ EndsRightly(r, s)
      BY <2>4, <3>5 DEF TurnKept, Decided, EndsRightly
    <3>7. PhaseOf(s) = "over" /\ MissingOf(s) = {} /\ PhaseOf(r) \in Cycle!Running
      BY <1>0, <3>4, <3>5, PhaseIs DEF Cycle!Running, s
    <3>8. CycleStep(r, s)
      BY <3>7 DEF CycleStep
    <3> QED
      BY <2>1, <3>6, <3>8 DEF GameStep, s
  <2>5. CASE ~(Cardinality(hosted.players) < 2) /\ hosted.pending = p
    <3>1. left = [hosted EXCEPT !.pending = NoPlayer, !.votes = NoVotes, !.lastPass = NoPlayer]
      BY <2>2, <2>5 DEF RemovePlayerFromGame, SameGame
    <3>2. /\ left.status = "playing" /\ left.players = hosted.players
          /\ left.pending = NoPlayer /\ left.lastPass = NoPlayer
          /\ left.lastRound = r.lastRound /\ left.turn = r.turn
      BY <2>2, <3>1 DEF Room, SameGame
    <3>3. r.pending = p /\ r.turn = p /\ left.lastRound = NoPlayer
      BY <1>0, <2>2, <2>5, <3>2 DEF OwnersFit, SameGame
    <3>4. ReconcilePendingRound(left) = left
      BY <3>2 DEF ReconcilePendingRound
    <3>5. done = AdvanceTurn(left)
      BY <1>0, <3>2, <3>3, <3>4 DEF ReconcileDisconnectedPlayer
    <3> HIDE DEF left
    <3>6. /\ done \in Room /\ done.players = hosted.players /\ done.status = "playing"
          /\ done.pending = NoPlayer /\ done.lastRound = NoPlayer /\ done.lastPass = NoPlayer
          /\ done.turn \in hosted.players
      BY <2>2, <2>3, <3>2, <3>3, <3>5, AdvanceGame DEF Unsettled
    <3> HIDE DEF done
    <3>7. ResolveTurn(done) = done
      BY <3>6, ResolveTurnShape
    <3>8. GameStep(r, done)
      BY <1>0, <2>2, <3>3, <3>6, AdvanceStep
    <3> QED
      BY <2>1, <3>7, <3>8
  <2>6. CASE ~(Cardinality(hosted.players) < 2) /\ hosted.pending # p
    <3>1. left = [hosted EXCEPT !.votes[p] = NoVote]
      BY <2>2, <2>6 DEF RemovePlayerFromGame, SameGame
    <3>2. /\ SameGame(r, left) /\ left.players = hosted.players
          /\ left.excluded = hosted.excluded /\ left.hand = hosted.hand
          /\ \A q \in Player : q # p => left.votes[q] = r.votes[q]
      BY <1>0, <2>2, <3>1 DEF Room, SameGame
    <3> HIDE DEF left
    <3>3. EligibleVoters(left) = EligibleVoters(r) \ {p} /\ EligibleVoters(r) \subseteq Player
      BY <1>0, <2>2, <3>2 DEF EligibleVoters, SameGame, Room
    <3>4. Missing(left) = Missing(r) \ {p}
      BY <3>2, <3>3 DEF Missing
    <3>5. Uncounted(r, left, p)
      BY <2>2, <3>2, <3>3, <3>4 DEF Uncounted
    <3>6. GameStep(r, done)
      BY <1>0, <2>2, <2>3, <3>2, <3>5, ReconcileGameStep
    <3>7. done.turn \in left.players
      BY <1>0, <2>2, <2>3, <3>2, ReconcileDisconnectedTurn DEF SameGame
    <3>8. done \in Room /\ done.players = left.players
      BY <1>0, <2>3, ReconcileDisconnectedType, ReconcileDisconnectedFrame
      DEF Unsettled, SameMembers
    <3> HIDE DEF done
    <3>9. ResolveTurn(done) = done
      BY <3>7, <3>8, ResolveTurnShape
    <3> QED
      BY <2>1, <3>6, <3>9
  <2> QED
    BY <2>4, <2>5, <2>6
<1> QED
  BY <1>2, <1>3

\* submit_answer and pass_turn, by the player in turn
LEMMA MoveGameStep ==
  ASSUME NEW r, Fit(r), r.status = "playing", NEW p \in r.players, r.turn = p,
         r.pending = NoPlayer, r.lastRound = NoPlayer
  PROVE  /\ r.hand[p] > 0 => GameStep(r, SubmitAnswer(r, p))
         /\ GameStep(r, PassTurn(r, p))
<1>0. r \in Room /\ p \in Player /\ p # NoPlayer
  <2>1. r \in Room /\ p \in Player
    BY DEF Fit, Settled, Room
  <2> QED
    BY <2>1 DEF Player, NoPlayer
<1>1. PhaseOf(r) \in {"move", "pass"} /\ MissingOf(r) = {}
      /\ (r.lastPass = NoPlayer => PhaseOf(r) = "move")
  BY <1>0, PhaseIs
<1>2. ASSUME r.hand[p] > 0 PROVE GameStep(r, SubmitAnswer(r, p))
  <2> DEFINE s == SubmitAnswer(r, p)
  <2>1. s \in Room
    BY <1>0, <1>2, SubmitAnswerType
  <2>2. s.status = "playing" /\ s.turn = p /\ s.pending = p
    BY <1>0 DEF SubmitAnswer, Room
  <2> HIDE DEF s
  <2>3. Missing(s) \in SUBSET (Player \ {p})
    BY <2>1, <2>2 DEF Missing, EligibleVoters, Room
  <2>4. PhaseOf(s) = "voting" /\ MissingOf(s) = Missing(s)
    BY <1>0, <2>1, <2>2, PhaseIs
  <2>5. CycleStep(r, s)
    BY <1>1, <2>2, <2>3, <2>4 DEF CycleStep
  <2>6. TurnKept(r, s) /\ Decided(r, s) /\ EndsRightly(r, s)
    BY <2>2 DEF TurnKept, Decided, EndsRightly
  <2> QED
    BY <2>5, <2>6 DEF GameStep, s
<1>3. GameStep(r, PassTurn(r, p))
  <2> DEFINE s == PassTurn(r, p)
  <2>1. s \in Room
    BY <1>0, PassTurnType
  <2>2. /\ s.status = "playing" /\ s.turn = p /\ s.pending = NoPlayer
        /\ s.lastRound = NoPlayer /\ s.lastPass = p
    BY <1>0 DEF PassTurn, Room
  <2> HIDE DEF s
  <2>3. PhaseOf(s) = "pass" /\ MissingOf(s) = {}
    BY <1>0, <2>1, <2>2, PhaseIs
  <2>4. CycleStep(r, s)
    BY <1>1, <2>2, <2>3 DEF CycleStep
  <2>5. TurnKept(r, s) /\ Decided(r, s) /\ EndsRightly(r, s)
    BY <2>2 DEF TurnKept, Decided, EndsRightly
  <2> QED
    BY <2>4, <2>5 DEF GameStep, s
<1> QED
  BY <1>2, <1>3

\* cast_vote, by an eligible voter
LEMMA VoteGameStep ==
  ASSUME NEW r, Fit(r), r.status = "playing", r.pending # NoPlayer,
         NEW p \in EligibleVoters(r), NEW choice \in VoteChoice
  PROVE  GameStep(r, CastVote(r, p, choice))
<1> DEFINE m == [r EXCEPT !.votes[p] = choice]
           s == ReconcilePendingRound(m)
<1>0. r \in Room /\ Settled(r) /\ p \in Player /\ choice # NoVote
      /\ EligibleVoters(r) \subseteq Player
  BY DEF Fit, Settled, EligibleVoters, Room, VoteChoice, NoVote
<1>1. m \in Room
  BY <1>0 DEF Room
<1>2. /\ SameGame(r, m) /\ m.players = r.players /\ m.excluded = r.excluded /\ m.hand = r.hand
      /\ m.votes[p] = choice /\ \A q \in Player : q # p => m.votes[q] = r.votes[q]
  BY <1>0 DEF Room, SameGame
<1>3. CastVote(r, p, choice) = s
  BY DEF CastVote
<1> HIDE DEF m
<1>4. EligibleVoters(m) = EligibleVoters(r)
  BY <1>2 DEF EligibleVoters, SameGame
<1>5. Missing(m) = Missing(r) \ {p}
  BY <1>0, <1>2, <1>4 DEF Missing
<1>6. Uncounted(r, m, p)
  BY <1>2, <1>4, <1>5 DEF Uncounted
<1>7. s \in Room /\ s.players = m.players /\ s.excluded = m.excluded
  BY <1>1, ReconcilePendingType, ReconcilePendingFrame DEF SameMembers
<1> QED
  BY <1>0, <1>1, <1>3, <1>6, <1>7, RecountStep

\* continue_round_result and continue_pass_result, by the owner
LEMMA ContinueGameStep ==
  ASSUME NEW r, Fit(r), r.status = "playing", NEW p \in Player
  PROVE  /\ r.lastRound = p => GameStep(r, ContinueRoundResult(r))
         /\ r.lastPass = p => GameStep(r, ContinuePassResult(r))
<1>0. r \in Room /\ OwnersFit(r) /\ p # NoPlayer
  BY DEF Fit, Settled, Player, NoPlayer
<1>1. ASSUME r.lastRound = p PROVE GameStep(r, ContinueRoundResult(r))
  <2> DEFINE s == ContinueRoundResult(r)
  <2>1. r.pending = NoPlayer /\ r.lastPass = NoPlayer /\ r.turn = p
    BY <1>0, <1>1 DEF OwnersFit
  <2>2. /\ s \in Room /\ s.status = "playing" /\ s.pending = NoPlayer
        /\ s.lastRound = NoPlayer /\ s.lastPass = NoPlayer
    BY <1>0, <1>1, <2>1, ContinueGame
  <2> HIDE DEF s
  <2>3. GameStep(r, s)
    BY <1>0, <1>1, <2>1, <2>2, AdvanceStep
  <2> QED
    BY <2>3 DEF s
<1>2. ASSUME r.lastPass = p PROVE GameStep(r, ContinuePassResult(r))
  <2> DEFINE s == ContinuePassResult(r)
  <2>1. r.pending = NoPlayer /\ r.lastRound = NoPlayer /\ r.turn = p
    BY <1>0, <1>2 DEF OwnersFit
  <2>2. /\ s \in Room /\ s.status = "playing" /\ s.pending = NoPlayer
        /\ s.lastRound = NoPlayer /\ s.lastPass = NoPlayer
    BY <1>0, <1>2, <2>1, ContinueGame
  <2> HIDE DEF s
  <2>3. GameStep(r, s)
    BY <1>0, <1>2, <2>1, <2>2, AdvanceStep
  <2> QED
    BY <2>3 DEF s
<1> QED
  BY <1>1, <1>2

\* mark_connected(..., True): an excluded voter is waited for again.
LEMMA PresentGameStep ==
  ASSUME NEW r, Fit(r), r.status = "playing", NEW p \in r.players,
         NEW s \in Room, SameGame(r, s), s.players = r.players,
         s.excluded = r.excluded \ {p}, s.votes = r.votes
  PROVE  GameStep(r, s)
<1>0. r \in Room /\ OwnersFit(r) /\ p \in Player /\ BallotFits(r)
  BY DEF Fit, Settled, Room
<1>1. CASE p \in EligibleVoters(r) \/ p \notin r.excluded \/ r.pending \in {NoPlayer, p}
  <2>1. EligibleVoters(s) = EligibleVoters(r)
    BY <1>1 DEF EligibleVoters, SameGame
  <2>2. Missing(s) = Missing(r)
    BY <2>1 DEF Missing
  <2> QED
    BY <1>0, <2>2, QuietStep
<1>2. CASE p \notin EligibleVoters(r) /\ p \in r.excluded /\ r.pending \notin {NoPlayer, p}
  <2>1. EligibleVoters(s) = EligibleVoters(r) \union {p}
    BY <1>2 DEF EligibleVoters, SameGame
  <2>2. r.votes[p] = NoVote
    BY <1>0, <1>2 DEF BallotFits
  <2>3. Missing(s) = Missing(r) \union {p}
    BY <2>1, <2>2 DEF Missing
  <2>4. r.turn = r.pending
    BY <1>0, <1>2 DEF OwnersFit
  <2>5. /\ PhaseOf(r) = "voting" /\ MissingOf(r) = Missing(r)
        /\ PhaseOf(s) = "voting" /\ MissingOf(s) = Missing(s) /\ s.turn = r.turn
    BY <1>0, <1>2, PhaseIs DEF SameGame
  <2>6. p \in Player \ {r.turn}
    BY <1>0, <1>2, <2>4
  <2>7. CycleStep(r, s)
    BY <2>3, <2>5, <2>6 DEF CycleStep
  <2>8. TurnKept(r, s) /\ Decided(r, s) /\ EndsRightly(r, s)
    BY DEF SameGame, TurnKept, Decided, EndsRightly
  <2> QED
    BY <2>7, <2>8 DEF GameStep
<1> QED
  BY <1>1, <1>2

\* mark_connected(..., False) does not touch the game.
LEMMA AbsentGameStep ==
  ASSUME NEW r \in Room, NEW p \in Player
  PROVE  GameStep(r, MarkAbsent(r, p))
<1> DEFINE s == MarkAbsent(r, p)
<1>1. s \in Room
  BY PresenceType
<1>2. SameGame(r, s) /\ s.players = r.players /\ s.excluded = r.excluded /\ s.votes = r.votes
  BY DEF MarkAbsent, Room, SameGame
<1> HIDE DEF s
<1>3. Missing(s) = Missing(r)
  BY <1>2 DEF Missing, EligibleVoters, SameGame
<1>4. GameStep(r, s)
  BY <1>1, <1>2, <1>3, QuietStep
<1> QED
  BY <1>4 DEF s

-----------------------------------------------------------------------------
(***************************************************************************)
(* Every step of a room is such a step.                                    *)
(***************************************************************************)

\* What the lobby, the start of a game and its end do to the status.
LEMMA StatusOutsideGame ==
  SafetyInv /\ SafetyInv' /\ [Next]_vars /\ room.status # "playing" => GameStep(room, room')
<1> SUFFICES ASSUME SafetyInv, SafetyInv', [Next]_vars, room.status # "playing"
             PROVE  GameStep(room, room')
  OBVIOUS
<1>0. /\ Fit(room) /\ room \in Room /\ OwnersFit(room) /\ room' \in Room /\ OwnersFit(room')
      /\ StartingHeld
  BY DEF SafetyInv, TypeOK, Fit, Settled
<1>1. CASE room'.status = room.status
  BY <1>0, <1>1, OutsideGame DEF Room, RoomStatus
<1>2. CASE room'.status # room.status
  <2>1. CASE JoinRoom
    <3> DEFINE lobby == IF Cardinality(room.players) >= room.maxPlayers
                        THEN EvictOne(room) ELSE room
    <3>1. lobby.status = room.status /\ lobby \in Room
      BY <1>0, EvictOneFits DEF Fit, Settled
    <3>2. room' = [lobby EXCEPT !.players = @ \union {joined + 1}]
      BY <2>1 DEF JoinRoom
    <3> HIDE DEF lobby
    <3>3. room'.status = room.status
      BY <3>1, <3>2 DEF Room
    <3> QED
      BY <1>2, <3>3
  <2>2. ASSUME NEW p \in Player, LeaveByRest(p) \/ LeaveByCommand(p)
        PROVE  FALSE
    BY <1>0, <1>2, <2>2, LeaveRoomFits DEF LeaveByRest, LeaveByCommand, Depart
  <2>3. ASSUME NEW p \in Player, \/ RestBroadcastLoses(p)
                                 \/ \E open \in BOOLEAN : Disconnect(p, open)
        PROVE  FALSE
    BY <1>0, <1>2, <2>3, MarkAbsentFits DEF RestBroadcastLoses, Disconnect
  <2>4. ASSUME NEW p \in Player, Connect(p)
        PROVE  FALSE
    BY <1>0, <1>2, <2>4, MarkPresentFits DEF Connect
  <2>5. ASSUME NEW p \in Player, GraceExpires(p)
        PROVE  FALSE
    BY <1>0, <1>2, <2>5, ExpirePlayerFits DEF GraceExpires
  <2>6. ASSUME NEW p \in Player, StartRefused(p)
        PROVE  FALSE
    BY <1>0, <1>2, <2>6, EvictAllFits DEF StartRefused, Apply
  <2>7. ASSUME NEW p \in Player, StartGame(p)
        PROVE  GameStep(room, room')
    <3>1. EvictAll(room) \in Room /\ room.status = "waiting"
      BY <1>0, <2>7, EvictAllFits DEF Fit, Settled, StartGame
    <3>2. room'.status = "starting"
      BY <2>7, <3>1 DEF StartGame, Room
    <3> QED
      BY <1>0, <3>1, <3>2, OutsideGame
  <2>8. CASE StartDeals \/ StartFails
    <3>1. room.status = "starting"
      BY <1>0, <2>8 DEF StartDeals, StartFails, StartingHeld, LockFree
    <3>2. \/ /\ room'.status = "playing" /\ room'.pending = NoPlayer
             /\ room'.lastRound = NoPlayer /\ room'.lastPass = NoPlayer
          \/ room'.status = "waiting"
      BY <1>0, <2>8 DEF StartDeals, StartFails, DealGame, Room
    <3> QED
      BY <1>0, <3>1, <3>2, OutsideGame
  <2>9. ASSUME NEW p \in Player, \/ \E ready \in BOOLEAN : SetReady(p, ready)
                                 \/ \E max \in MaxPlayersChoices, wrong \in WrongAnswerChoices :
                                      UpdateLobbySettings(p, max, wrong)
        PROVE  FALSE
    BY <1>0, <1>2, <2>9 DEF SetReady, UpdateLobbySettings, Apply, Room
  <2>10. ASSUME NEW p \in Player, ReplayGame(p)
         PROVE  GameStep(room, room')
    <3>1. room.status = "finished" /\ room'.status = "waiting"
      BY <1>0, <2>10 DEF ReplayGame, Apply, ResetGame, Room
    <3> QED
      BY <1>0, <3>1, OutsideGame
  <2>11. ASSUME NEW p \in Player, ContinueRound(p)
         PROVE  FALSE
    BY <1>0, <1>2, <2>11, ContinueFrame DEF ContinueRound, Apply
  <2>12. CASE \/ RestBroadcastEnds \/ ExpireAbandonedRoom \/ StartLoadsCards
              \/ StartBroadcastRaises \/ UNCHANGED vars
              \/ \E p \in Player : CloseForgottenSocket(p)
    BY <1>2, <2>12 DEF RestBroadcastEnds, ExpireAbandonedRoom, StartLoadsCards,
                       StartBroadcastRaises, CloseForgottenSocket, vars
  <2>13. ASSUME NEW p \in Player, \/ Submit(p) \/ Pass(p) \/ ContinuePass(p)
                                  \/ \E choice \in VoteChoice : Vote(p, choice)
         PROVE  FALSE
    BY <2>13 DEF Submit, Pass, HasMove, ContinuePass, Vote
  <2> QED
    BY <2>1, <2>2, <2>3, <2>4, <2>5, <2>6, <2>7, <2>8, <2>9, <2>10, <2>11, <2>12, <2>13
    DEF Next, RestNext, ConnectionNext, StartNext, CommandNext
<1> QED
  BY <1>1, <1>2

\* What a running game sees of mark_connected(..., True).
LEMMA PresentShape ==
  ASSUME NEW r \in Room, NEW p \in Player
  PROVE  \A s \in {MarkPresent(r, p), TakeOverHost(MarkPresent(r, p), p)} :
           /\ s \in Room /\ SameGame(r, s) /\ s.players = r.players
           /\ s.excluded = r.excluded \ {p} /\ s.votes = r.votes
           /\ s.connected = r.connected \union {p}
<1> DEFINE m == MarkPresent(r, p)
<1>1. /\ m \in Room /\ SameGame(r, m) /\ m.players = r.players
      /\ m.excluded = r.excluded \ {p} /\ m.votes = r.votes
      /\ m.connected = r.connected \union {p}
  BY PresenceType DEF MarkPresent, Room, SameGame
<1> HIDE DEF m
<1>2. TakeOverHost(m, p) \in {m, [m EXCEPT !.host = p, !.isHost = {p}]}
  BY DEF TakeOverHost, AssignHost
<1>3. LET t == [m EXCEPT !.host = p, !.isHost = {p}]
      IN  /\ t \in Room /\ SameGame(m, t) /\ t.players = m.players
          /\ t.excluded = m.excluded /\ t.votes = m.votes /\ t.connected = m.connected
  BY <1>1 DEF Room, SameGame
<1> QED
  BY <1>1, <1>2, <1>3 DEF SameGame, m

\* The steps of a running game.
LEMMA StepInGame ==
  SafetyInv /\ [Next]_vars /\ room.status = "playing" => GameStep(room, room')
<1> SUFFICES ASSUME SafetyInv, [Next]_vars, room.status = "playing"
             PROVE  GameStep(room, room')
  OBVIOUS
<1>0. /\ Fit(room) /\ room \in Room /\ room.players \subseteq Player /\ LockFree
      /\ FlagsFit(room) /\ room.connected \subseteq room.players
  BY DEF SafetyInv, TypeOK, Fit, Settled, FlagsFit, Room, StartingHeld
<1>1. ASSUME NEW p \in Player, LeaveByRest(p) \/ LeaveByCommand(p)
      PROVE  GameStep(room, room')
  BY <1>0, <1>1, LeaveGameStep DEF LeaveByRest, LeaveByCommand, Depart
<1>2. ASSUME NEW p \in Player, \/ RestBroadcastLoses(p)
                               \/ \E open \in BOOLEAN : Disconnect(p, open)
      PROVE  GameStep(room, room')
  BY <1>0, <1>2, AbsentGameStep DEF RestBroadcastLoses, Disconnect
<1>3. ASSUME NEW p \in Player, Connect(p)
      PROVE  GameStep(room, room')
  <2>1. p \in room.players
           /\ room' \in {MarkPresent(room, p), TakeOverHost(MarkPresent(room, p), p)}
    BY <1>3 DEF Connect
  <2> QED
    BY <1>0, <2>1, PresentShape, PresentGameStep
<1>4. CASE room' = room
  BY <1>0, <1>4, QuietStep DEF SameGame
<1>5. ASSUME NEW p \in Player, GraceExpires(p)
      PROVE  GameStep(room, room')
  <2>1. CASE p \in room.players /\ p \notin room.connected
    <3>1. room' = ExpirePlayer(room, p)
      BY <1>5, <2>1 DEF GraceExpires
    <3> QED
      BY <1>0, <2>1, <3>1, ExpireGameStep
  <2>2. CASE ~(p \in room.players /\ p \notin room.connected)
    BY <1>4, <1>5, <2>2 DEF GraceExpires
  <2> QED
    BY <2>1, <2>2
<1>6. ASSUME NEW p \in Player, Submit(p) \/ Pass(p)
      PROVE  GameStep(room, room')
  <2>1. HasMove(p) /\ p \in room.players /\ room.turn = p /\ room.pending = NoPlayer
        /\ room.lastRound = NoPlayer
    BY <1>6 DEF Submit, Pass, HasMove
  <2>2. \/ room.hand[p] > 0 /\ room' = SubmitAnswer(room, p)
        \/ room' = PassTurn(room, p)
    BY <1>6 DEF Submit, Pass, Apply
  <2> QED
    BY <1>0, <2>1, <2>2, MoveGameStep
<1>7. ASSUME NEW p \in Player, ContinuePass(p) \/ ContinueRound(p)
      PROVE  GameStep(room, room')
  BY <1>0, <1>7, ContinueGameStep DEF ContinuePass, ContinueRound, Apply
<1>8. ASSUME NEW p \in Player, NEW choice \in VoteChoice, Vote(p, choice)
      PROVE  GameStep(room, room')
  BY <1>0, <1>8, VoteGameStep DEF Vote, Apply
<1>9. CASE \/ RestBroadcastEnds \/ ExpireAbandonedRoom \/ StartLoadsCards
           \/ StartBroadcastRaises \/ UNCHANGED vars
           \/ \E p \in Player : CloseForgottenSocket(p)
  BY <1>4, <1>9 DEF RestBroadcastEnds, ExpireAbandonedRoom, StartLoadsCards,
                    StartBroadcastRaises, CloseForgottenSocket, vars
<1>10. ASSUME \/ JoinRoom \/ StartDeals \/ StartFails
              \/ \E p \in Player : StartRefused(p) \/ StartGame(p) \/ ReplayGame(p)
              \/ \E p \in Player, ready \in BOOLEAN : SetReady(p, ready)
              \/ \E p \in Player, max \in MaxPlayersChoices, wrong \in WrongAnswerChoices :
                   UpdateLobbySettings(p, max, wrong)
       PROVE  FALSE
  BY <1>0, <1>10 DEF JoinRoom, StartRefused, StartGame, ReplayGame, SetReady,
                     UpdateLobbySettings, StartDeals, StartFails, LockFree
<1> QED
  BY <1>1, <1>2, <1>3, <1>5, <1>6, <1>7, <1>8, <1>9, <1>10
  DEF Next, RestNext, ConnectionNext, StartNext, CommandNext

\* Every step of the room is a step of its game.
LEMMA EveryStepIsAGameStep == SafetyInv /\ [Next]_vars => GameStep(room, room')
  BY SafetyNext, StatusOutsideGame, StepInGame

-----------------------------------------------------------------------------
(***************************************************************************)
(* The results.                                                            *)
(***************************************************************************)

\* During a game, of any number of players, nobody who stays and is counted
\* loses the turn but by continuing from a result of its own: no leave,
\* expiry, vote or reconnection of somebody else moves it.
THEOREM TurnIsKept == Spec => TurnMovesOnlyWhenReleased
<1>1. SafetyInv /\ [Next]_vars =>
        [room.status = "playing" /\ room'.status = "playing" /\ room'.turn # room.turn =>
           \/ room.turn \notin room'.players
           \/ room.turn \in room'.excluded
           \/ room.turn \in {room.lastRound, room.lastPass}]_vars
  BY EveryStepIsAGameStep DEF GameStep, TurnKept
<1> QED
  BY <1>1, SafetyHolds, PTL DEF Spec, TurnMovesOnlyWhenReleased

\* A round is decided only when all members who are counted have voted, the
\* vote being cast included, unless its owner left or no opponent is there.
THEOREM EveryVoterIsHeard == Spec => ResultNeedsEveryVoter
<1>1. SafetyInv /\ [Next]_vars =>
        [room.pending # NoPlayer /\ room'.pending = NoPlayer =>
           \/ room.pending \notin room'.players
           \/ Cardinality(room'.players) < 2
           \/ /\ room'.lastRound = room.pending
              /\ \A p, q \in room'.players \ (room'.excluded \union {room.pending}) :
                   room.votes[p] = NoVote /\ room.votes[q] = NoVote => p = q]_vars
  BY EveryStepIsAGameStep DEF GameStep, Decided
<1> QED
  BY <1>1, SafetyHolds, PTL DEF Spec, ResultNeedsEveryVoter

\* A game ends only with an accepted last card of a member, or because one
\* player alone is left; for any number of cards dealt and either rule.
THEOREM GamesEndRightly == Spec => GameEndsForAReason
<1>1. SafetyInv /\ [Next]_vars =>
        [room.status = "playing" /\ room'.status = "finished" =>
           \/ Cardinality(room'.players) < 2
           \/ /\ room.pending \in room'.players
              /\ room.hand[room.pending] = 0
              /\ room'.hand[room.pending] = 0]_vars
  BY EveryStepIsAGameStep DEF GameStep, EndsRightly
<1> QED
  BY <1>1, SafetyHolds, PTL DEF Spec, GameEndsForAReason

\* A room starts in the lobby of the cycle.
LEMMA CycleInit == Init => Cycle!Init
<1> SUFFICES ASSUME Init PROVE Cycle!Init
  OBVIOUS
<1>1. room \in Room
  BY TypeInit DEF TypeOK
<1>2. room.status = "waiting" /\ room.turn = 1
  BY DEF Init, NewRoom
<1>3. 1 \in Player
  BY OpsAssumption DEF Player
<1> QED
  BY <1>1, <1>2, <1>3, PhaseIs DEF Cycle!Init

\* A step of a game is a step of the cycle, or none.
LEMMA CycleNext == SafetyInv /\ [Next]_vars => [Cycle!Next]_(Cycle!cycle)
<1> SUFFICES ASSUME SafetyInv, [Next]_vars PROVE [Cycle!Next]_(Cycle!cycle)
  OBVIOUS
<1>1. CycleStep(room, room') /\ room \in Room /\ room' \in Room
  BY EveryStepIsAGameStep, SafetyNext DEF GameStep, SafetyInv, TypeOK
<1>2. room'.turn \in Player \union {NoPlayer}
  BY <1>1 DEF Room
<1> DEFINE from == PhaseOf(room)    to == PhaseOf(room')
           lack == MissingOf(room)  left == MissingOf(room')
<1>3. PhaseOf(room)' = to /\ MissingOf(room)' = left /\ (room.turn)' = room'.turn
  BY DEF PhaseOf, MissingOf, EligibleVoters
<1> QED
  BY <1>1, <1>2, <1>3
  DEF CycleStep, Cycle!Next, Cycle!cycle, Cycle!Reseat, Cycle!Deal, Cycle!Answer, Cycle!Pass,
      Cycle!Vote, Cycle!Return, Cycle!Resolve, Cycle!Continue, Cycle!Release, Cycle!Abandon,
      Cycle!Replay, Cycle!Move, Cycle!SomebodyHolds, Cycle!Running

\* The room implements the cycle: whatever joins, leaves, losses, expiries and
\* returns come between, each of its steps is one of the cycle, or invisible.
THEOREM RoomImplementsCycle == Spec => ImplementsTurnCycle
  BY CycleInit, CycleNext, SafetyHolds, PTL DEF Spec, ImplementsTurnCycle, Cycle!Spec
-----------------------------------------------------------------------------
(***************************************************************************)
(* Attendance.                                                             *)
(***************************************************************************)

\* A timer is that of a player who was given a number, and never of one who is
\* connected.
TimersFit == grace \subseteq 1..joined /\ grace \intersect room.connected = {}

AttendInv == SafetyInv /\ TimersFit

\* Where a room that n players have joined has p, if those of g are timed.
PlaceIn(r, n, g, p) ==
  IF p > n THEN "unknown"
  ELSE IF p \notin r.players THEN "gone"
  ELSE IF p \in r.connected THEN "here"
  ELSE IF p \in r.excluded THEN "excluded"
  ELSE IF p \in g THEN "timed" ELSE "untimed"

LEMMA SeatsAre ==
  ASSUME NEW p
  PROVE  /\ SeatOf(p) = PlaceIn(room, joined, grace, p)
         /\ SeatOf(p)' = PlaceIn(room', joined', grace', p)
  BY DEF SeatOf, PlaceIn

LEMMA PlaceIs ==
  ASSUME NEW p
  PROVE  SeatOf(p) \in {"unknown", "gone", "here", "excluded", "timed", "untimed"}
  BY DEF SeatOf

\* A step that gives the players S their place, and leaves all others theirs.
Takes(S, place) ==
  \A p \in Player : SeatOf(p)' = IF p \in S THEN place ELSE SeatOf(p)

\* A step that leaves everybody where they are.
Stays == \A p \in Player : SeatOf(p)' = SeatOf(p)

LEMMA SeatsTaken ==
  ASSUME NEW S, NEW place, Takes(S, place)
  PROVE  Attendance!To(S, place)
  BY DEF Attendance!To, Takes

LEMMA SeatsIn ==
  ASSUME NEW places
  PROVE  Attendance!In(places) = {p \in Player : SeatOf(p) \in places}
  BY DEF Attendance!In

\* What is known of a member before the step.
LEMMA MemberSeats ==
  ASSUME AttendInv
  PROVE  /\ room \in Room /\ FlagsFit(room) /\ joined \in 1..MaxJoins /\ grace \subseteq Player
         /\ room.players \subseteq Player /\ room.connected \subseteq room.players
         /\ room.excluded \subseteq room.players /\ room.excluded \intersect room.connected = {}
         /\ \A p \in Player : p \in room.players \union grace => ~(p > joined)
         /\ MaxJoins \in Nat /\ Player \subseteq Nat /\ joined \in Nat
<1>1. /\ room \in Room /\ FlagsFit(room) /\ joined \in 1..MaxJoins /\ grace \subseteq Player
      /\ room.players \subseteq 1..joined /\ grace \subseteq 1..joined
  BY DEF AttendInv, SafetyInv, TypeOK, Fit, Settled, Numbered, TimersFit
<1>2. MaxJoins \in Nat /\ Player \subseteq Nat
  BY OpsAssumption DEF Player
<1> QED
  BY <1>1, <1>2 DEF FlagsFit, Room

\* Most handlers leave the flags of the members and their timers alone.
SameFlags(r, s) ==
  s.players = r.players /\ s.connected = r.connected /\ s.excluded = r.excluded

LEMMA FlagsStay ==
  ASSUME AttendInv, SameFlags(room, room'), joined' = joined, grace' = grace
  PROVE  TimersFit' /\ Stays
<1>1. \A p : SeatOf(p)' = SeatOf(p)
  BY SeatsAre DEF SameFlags, PlaceIn
<1> QED
  BY <1>1 DEF AttendInv, TimersFit, SameFlags, Stays

\* One player leaves, and all timers with the last one.
LEMMA LeaveAttends ==
  ASSUME AttendInv, NEW p \in Player, LeaveByRest(p) \/ LeaveByCommand(p)
  PROVE  TimersFit' /\ Attendance!Next
<1>1. p \in room.players /\ room' = LeaveRoom(room, p) /\ joined' = joined
      /\ (stored' = (room'.players # {})) /\ Fit(room)
  BY DEF LeaveByRest, LeaveByCommand, Depart, AttendInv, SafetyInv
<1>2. /\ room'.players = room.players \ {p} /\ room'.connected = room.connected \ {p}
      /\ room'.excluded = room.excluded \ {p}
  BY <1>1, LeaveRoomFits
<1>3. /\ grace' \subseteq grace
      /\ \A q \in room'.players : q \in grace => q \in grace'
  BY <1>1, <1>2 DEF LeaveByRest, LeaveByCommand, Depart
<1>4. Takes({p}, "gone")
  <2> SUFFICES ASSUME NEW q \in Player
               PROVE  SeatOf(q)' = IF q \in {p} THEN "gone" ELSE SeatOf(q)
    BY DEF Takes
  <2>1. ~(p > joined)
    BY <1>1, MemberSeats
  <2> QED
    BY <1>1, <1>2, <1>3, <2>1, SeatsAre DEF PlaceIn
<1>5. p \in Attendance!Members
  <2>1. SeatOf(p) \in {"untimed", "timed", "excluded", "here"}
    BY <1>1, MemberSeats, SeatsAre DEF PlaceIn
  <2> QED
    BY <2>1, SeatsIn DEF Attendance!Members
<1>6. TimersFit'
  BY <1>1, <1>2, <1>3 DEF AttendInv, TimersFit
<1> QED
  BY <1>4, <1>5, <1>6, SeatsTaken DEF Attendance!Next, Attendance!Leave

\* A newcomer, and the one who was evicted for it.
LEMMA JoinAttends ==
  ASSUME AttendInv, JoinRoom
  PROVE  TimersFit' /\ Attendance!Next
<1> DEFINE lobby == IF Cardinality(room.players) >= room.maxPlayers THEN EvictOne(room) ELSE room
           p     == joined + 1
<1>1. /\ room' = [lobby EXCEPT !.players = @ \union {p}] /\ joined' = p /\ grace' = grace
      /\ joined < MaxJoins /\ room.status = "waiting" /\ Fit(room)
  BY DEF JoinRoom, AttendInv, SafetyInv
<1>2. PICK S \in SUBSET Expired(room) :
        /\ \A q, r \in S : q = r
        /\ lobby.players = room.players \ S /\ lobby.connected = room.connected
        /\ lobby.excluded = room.excluded \ S /\ lobby \in Room
  <2>1. CASE lobby = room
    <3>1. room \in Room
      BY MemberSeats
    <3>2. /\ {} \in SUBSET Expired(room)
          /\ room.players \ {} = room.players /\ room.excluded \ {} = room.excluded
      OBVIOUS
    <3> HIDE DEF lobby
    <3> QED
      BY <2>1, <3>1, <3>2
  <2>2. CASE lobby = EvictOne(room) /\ Expired(room) # {}
    <3> DEFINE c == First(Expired(room))
    <3>1. c \in Expired(room)
      BY <2>2, MemberSeats, FirstMember DEF Expired
    <3>2. Cleared(room, EvictOne(room), {c}, room.players \ {c})
      BY <1>1, <2>2, EvictOneClears
    <3>3. EvictOne(room) \in Room
      BY <1>1, EvictOneFits DEF Fit, Settled
    <3> HIDE DEF c, lobby
    <3>4. {c} \in SUBSET Expired(room)
      BY <3>1
    <3> QED
      BY <2>2, <3>2, <3>3, <3>4 DEF Cleared
  <2>3. CASE Expired(room) = {}
    BY <2>1, <2>3 DEF EvictOne
  <2> QED
    BY <2>1, <2>2, <2>3
<1> HIDE DEF lobby
<1>3. /\ room'.players = (room.players \ S) \union {p} /\ room'.connected = room.connected
      /\ room'.excluded = room.excluded \ S
  BY <1>1, <1>2 DEF Room
<1>4. /\ p \in Player /\ p \notin room.players /\ p \notin grace /\ p \notin room.connected
      /\ p \notin room.excluded /\ p \in Nat
      /\ \A q \in Player : q # p => (q > p <=> q > joined)
  <2>1. p \in Player /\ p > joined
    BY <1>1, MemberSeats DEF Player
  <2>2. \A q \in Player : q # p => (q > p <=> q > joined)
    BY MemberSeats
  <2> QED
    BY <2>1, <2>2, MemberSeats
<1>5. \A q \in S : SeatOf(q) = "excluded" /\ q \in Player /\ q \in room.players /\ q # p
  BY <1>4, MemberSeats, SeatsAre DEF Expired, PlaceIn
<1>6. SeatOf(p) = "unknown"
  BY <1>4, MemberSeats, SeatsAre DEF PlaceIn
<1>7. ASSUME NEW q \in Player
      PROVE  SeatOf(q)' = IF q = p THEN "untimed" ELSE IF q \in S THEN "gone" ELSE SeatOf(q)
  <2>1. SeatOf(q)' = PlaceIn(room', p, grace, q) /\ SeatOf(q) = PlaceIn(room, joined, grace, q)
    BY <1>1, SeatsAre
  <2>2. CASE q = p
    BY <1>3, <1>4, <2>1, <2>2 DEF PlaceIn
  <2>3. CASE q # p
    BY <1>3, <1>4, <1>5, <2>1, <2>3, MemberSeats DEF PlaceIn
  <2> QED
    BY <2>2, <2>3
<1> HIDE DEF p
<1>8. Attendance!Enter
  <2>1. p \in Attendance!In({"unknown"}) /\ S \in SUBSET Attendance!In({"excluded"})
    BY <1>4, <1>5, <1>6, SeatsIn
  <2> QED
    BY <1>2, <1>7, <2>1 DEF Attendance!Enter
<1>9. TimersFit'
  <2>1. grace \subseteq 1..joined /\ grace \intersect room.connected = {}
    BY DEF AttendInv, TimersFit
  <2>2. 1..joined \subseteq 1..p
    BY MemberSeats DEF p
  <2> QED
    BY <1>1, <1>3, <2>1, <2>2 DEF TimersFit
<1> QED
  BY <1>8, <1>9 DEF Attendance!Next
\* Somebody is marked present, and the timer cancelled.
LEMMA ConnectAttends ==
  ASSUME AttendInv, NEW p \in Player, Connect(p)
  PROVE  TimersFit' /\ Attendance!Next
<1>1. /\ room' \in {MarkPresent(room, p), TakeOverHost(MarkPresent(room, p), p)}
      /\ grace' = grace \ {p} /\ joined' = joined /\ p \in room.players
  BY DEF Connect
<1>2. /\ room'.players = room.players /\ room'.excluded = room.excluded \ {p}
      /\ room'.connected = room.connected \union {p}
  BY <1>1, MemberSeats, PresentShape
<1>3. Takes({p}, "here")
  <2> SUFFICES ASSUME NEW q \in Player
               PROVE  SeatOf(q)' = IF q \in {p} THEN "here" ELSE SeatOf(q)
    BY DEF Takes
  <2>1. ~(p > joined)
    BY <1>1, MemberSeats
  <2> QED
    BY <1>1, <1>2, <2>1, SeatsAre DEF PlaceIn
<1>4. p \in Attendance!Members
  <2>1. SeatOf(p) \in {"untimed", "timed", "excluded", "here"}
    BY <1>1, MemberSeats, SeatsAre DEF PlaceIn
  <2> QED
    BY <2>1, SeatsIn DEF Attendance!Members
<1>5. TimersFit'
  BY <1>1, <1>2 DEF AttendInv, TimersFit
<1> QED
  BY <1>3, <1>4, <1>5, SeatsTaken DEF Attendance!Next, Attendance!Come

\* mark_connected(..., False) leaves the others alone, and the exclusions.
LEMMA AbsentShape ==
  ASSUME NEW r \in Room, NEW p
  PROVE  LET s == MarkAbsent(r, p)
         IN  /\ s.players = r.players /\ s.excluded = r.excluded
             /\ s.connected = r.connected \ {p}
  BY DEF MarkAbsent, Room

\* Somebody is marked absent by the bookkeeping, which arms a timer, or by a
\* broadcast without the lock, which does not.
LEMMA AbsentAttends ==
  ASSUME AttendInv, NEW p \in Player,
         RestBroadcastLoses(p) \/ \E open \in BOOLEAN : Disconnect(p, open)
  PROVE  TimersFit' /\ (Attendance!Next \/ Stays)
<1>1. /\ room' = MarkAbsent(room, p) /\ joined' = joined /\ p \in room.players
      /\ \/ grace' = grace /\ p \in room.connected
         \/ grace' = grace \union {p}
  BY DEF RestBroadcastLoses, Disconnect
<1>2. /\ room'.players = room.players /\ room'.excluded = room.excluded
      /\ room'.connected = room.connected \ {p}
  BY <1>1, MemberSeats, AbsentShape
<1>3. ~(p > joined) /\ p \in 1..joined
  BY <1>1, MemberSeats DEF AttendInv, SafetyInv, Numbered
<1>4. TimersFit'
  BY <1>1, <1>2, <1>3 DEF AttendInv, TimersFit
<1>5. CASE grace' = grace /\ p \in room.connected
  <2>1. Takes({p}, "untimed") /\ SeatOf(p) = "here"
    BY <1>1, <1>2, <1>3, <1>5, SeatsAre, MemberSeats DEF AttendInv, TimersFit, PlaceIn, Takes
  <2>2. {p} \in SUBSET Attendance!In({"here"})
    BY <2>1, SeatsIn
  <2> QED
    BY <1>4, <2>1, <2>2, SeatsTaken DEF Attendance!Next, Attendance!Drop
<1>6. CASE grace' = grace \union {p} /\ SeatOf(p) \in {"here", "untimed"}
  <2>1. Takes({p}, "timed")
    BY <1>1, <1>2, <1>3, <1>6, SeatsAre, MemberSeats DEF PlaceIn, Takes
  <2>2. {p} \in SUBSET Attendance!In({"here", "untimed"})
    BY <1>6, SeatsIn
  <2> QED
    BY <1>4, <2>1, <2>2, SeatsTaken DEF Attendance!Next, Attendance!Go
<1>7. CASE grace' = grace \union {p} /\ SeatOf(p) \notin {"here", "untimed"}
  <2>1. Stays
    BY <1>1, <1>2, <1>3, <1>7, SeatsAre, MemberSeats DEF PlaceIn, Stays
  <2> QED
    BY <1>4, <2>1
<1> QED
  BY <1>1, <1>5, <1>6, <1>7

\* A timer runs out: its player is excluded, or has left.
LEMMA ExpiryAttends ==
  ASSUME AttendInv, NEW p \in Player, GraceExpires(p)
  PROVE  TimersFit' /\ (Attendance!Next \/ Stays)
<1>1. joined' = joined /\ grace' = grace \ {p} /\ p \in grace /\ p \notin room.connected
  BY DEF GraceExpires, AttendInv, TimersFit
<1>2. CASE p \in room.players
  <2>1. room' = ExpirePlayer(room, p) /\ Fit(room)
    BY <1>1, <1>2 DEF GraceExpires, AttendInv, SafetyInv
  <2>2. /\ room'.players = room.players /\ room'.connected = room.connected
        /\ room'.excluded = room.excluded \union {p}
    BY <1>1, <1>2, <2>1, ExpirePlayerFits
  <2>3. TimersFit'
    BY <1>1, <2>2 DEF AttendInv, TimersFit
  <2>4. SeatOf(p) \in {"timed", "excluded"} /\ Takes({p}, "excluded")
    BY <1>1, <1>2, <2>2, SeatsAre, MemberSeats DEF PlaceIn, Takes
  <2>5. CASE SeatOf(p) = "timed"
    <3>1. p \in Attendance!In({"timed"})
      BY <2>5, SeatsIn
    <3> QED
      BY <2>3, <2>4, <3>1, SeatsTaken DEF Attendance!Next, Attendance!Exclude
  <2>6. CASE SeatOf(p) = "excluded"
    BY <2>3, <2>4, <2>6 DEF Takes, Stays
  <2> QED
    BY <2>4, <2>5, <2>6
<1>3. CASE p \notin room.players
  <2>1. room' = room
    BY <1>3 DEF GraceExpires
  <2>2. TimersFit' /\ Stays
    BY <1>1, <1>3, <2>1, SeatsAre, MemberSeats DEF PlaceIn, Stays, AttendInv, TimersFit
  <2> QED
    BY <2>2
<1> QED
  BY <1>2, <1>3

\* The cleanup task deletes the room, and cancels every timer.
LEMMA CloseAttends ==
  ASSUME AttendInv, ExpireAbandonedRoom
  PROVE  TimersFit' /\ Attendance!Next
<1>1. room' = room /\ joined' = joined /\ grace' = {}
  BY DEF ExpireAbandonedRoom
<1> DEFINE S == Attendance!In({"timed"})
<1>2. Takes(S, "untimed")
  BY <1>1, SeatsAre, SeatsIn DEF PlaceIn, Takes
<1>3. TimersFit'
  BY <1>1 DEF TimersFit
<1> QED
  BY <1>2, <1>3, SeatsTaken DEF Attendance!Next, Attendance!Close
\* start_game evicts everybody who is expired, whether it goes on or not.
LEMMA EvictAllShape ==
  ASSUME NEW r, Fit(r), r.status = "waiting"
  PROVE  LET s == EvictAll(r)
         IN  /\ s \in Room /\ s.players = r.players \ Expired(r)
             /\ s.connected = r.connected /\ s.excluded = r.excluded \ Expired(r)
<1>1. EvictAll(r) \in Room
  BY EvictAllFits DEF Fit, Settled
<1>2. CASE Expired(r) = {}
  BY <1>1, <1>2 DEF EvictAll
<1>3. CASE Expired(r) # {}
  BY <1>1, <1>3, EvictAllClears DEF Cleared
<1> QED
  BY <1>2, <1>3

LEMMA StartAttends ==
  ASSUME AttendInv, NEW p \in Player, StartRefused(p) \/ StartGame(p)
  PROVE  TimersFit' /\ Attendance!Next
<1> DEFINE S == Expired(room)
<1>1. /\ room.status = "waiting" /\ Fit(room) /\ joined' = joined /\ grace' = grace
      /\ room' \in {EvictAll(room), [EvictAll(room) EXCEPT !.status = "starting"]}
  BY DEF StartRefused, StartGame, Apply, AttendInv, SafetyInv
<1>2. /\ room'.players = room.players \ S /\ room'.connected = room.connected
      /\ room'.excluded = room.excluded \ S
  <2> DEFINE s == EvictAll(room)
  <2>1. /\ s \in Room /\ s.players = room.players \ S
        /\ s.connected = room.connected /\ s.excluded = room.excluded \ S
    BY <1>1, EvictAllShape
  <2> HIDE DEF s
  <2>2. LET t == [s EXCEPT !.status = "starting"]
        IN  t.players = s.players /\ t.connected = s.connected /\ t.excluded = s.excluded
    BY <2>1 DEF Room
  <2> QED
    BY <1>1, <2>1, <2>2 DEF s
<1>3. \A q \in S : q \in Player /\ q \in room.players /\ SeatOf(q) = "excluded"
  BY MemberSeats, SeatsAre DEF Expired, PlaceIn
<1>4. Takes(S, "gone")
  <2> SUFFICES ASSUME NEW q \in Player
               PROVE  SeatOf(q)' = IF q \in S THEN "gone" ELSE SeatOf(q)
    BY DEF Takes
  <2>1. CASE q \in S
    BY <1>1, <1>2, <1>3, <2>1, SeatsAre, MemberSeats DEF PlaceIn
  <2>2. CASE q \notin S
    BY <1>1, <1>2, <2>2, SeatsAre DEF PlaceIn
  <2> QED
    BY <2>1, <2>2
<1>5. S \in SUBSET Attendance!In({"excluded"})
  BY <1>3, SeatsIn
<1>6. TimersFit'
  BY <1>1, <1>2 DEF AttendInv, TimersFit
<1> QED
  BY <1>4, <1>5, <1>6, SeatsTaken DEF Attendance!Next, Attendance!Evict

\* The game goes on, or the lobby changes, without anybody coming or going.
LEMMA GameAttends ==
  ASSUME AttendInv,
         NEW p \in Player,
         \/ StartDeals \/ StartFails \/ ReplayGame(p)
         \/ \E ready \in BOOLEAN : SetReady(p, ready)
         \/ \E max \in MaxPlayersChoices, wrong \in WrongAnswerChoices :
              UpdateLobbySettings(p, max, wrong)
         \/ Submit(p) \/ Pass(p) \/ ContinuePass(p) \/ ContinueRound(p)
         \/ \E choice \in VoteChoice : Vote(p, choice)
  PROVE  TimersFit' /\ Stays
<1>1. room \in Room /\ joined' = joined /\ grace' = grace
  BY MemberSeats DEF StartDeals, StartFails, ReplayGame, SetReady, UpdateLobbySettings,
                     Submit, Pass, ContinuePass, ContinueRound, Vote, Apply
<1>2. CASE ContinuePass(p) \/ ContinueRound(p)
  <2>1. SameFlags(room, room')
    BY <1>1, <1>2, ContinueFrame DEF ContinuePass, ContinueRound, Apply, SameMembers, SameFlags
  <2> QED
    BY <1>1, <2>1, FlagsStay
<1>3. ASSUME NEW choice \in VoteChoice, Vote(p, choice)
      PROVE  TimersFit' /\ Stays
  <2> DEFINE cast == [room EXCEPT !.votes[p] = choice]
  <2>1. cast \in Room /\ SameFlags(room, cast)
    BY <1>1 DEF Room, SameFlags
  <2>2. room' = ReconcilePendingRound(cast)
    BY <1>3 DEF Vote, Apply, CastVote
  <2> HIDE DEF cast
  <2>3. SameFlags(room, room')
    BY <2>1, <2>2, ReconcilePendingFrame DEF SameMembers, SameFlags
  <2> QED
    BY <1>1, <2>3, FlagsStay
<1>4. ASSUME \/ StartDeals \/ StartFails \/ ReplayGame(p)
             \/ \E ready \in BOOLEAN : SetReady(p, ready)
             \/ \E max \in MaxPlayersChoices, wrong \in WrongAnswerChoices :
                  UpdateLobbySettings(p, max, wrong)
             \/ Submit(p) \/ Pass(p)
      PROVE  TimersFit' /\ Stays
  <2>1. SameFlags(room, room')
    BY <1>1, <1>4 DEF StartDeals, StartFails, ReplayGame, SetReady, UpdateLobbySettings,
       Submit, Pass, Apply, DealGame, ResetGame, SubmitAnswer, PassTurn, Room, SameFlags
  <2> QED
    BY <1>1, <2>1, FlagsStay
<1> QED
  BY <1>2, <1>3, <1>4

LEMMA AttendInit == Init => AttendInv /\ Attendance!Init
<1> SUFFICES ASSUME Init PROVE AttendInv /\ Attendance!Init
  OBVIOUS
<1>1. PICK max \in MaxPlayersChoices, wrong \in WrongAnswerChoices : room = NewRoom(max, wrong)
  BY DEF Init
<1>2. /\ room.players = {1} /\ room.connected = {} /\ room.excluded = {}
      /\ joined = 1 /\ grace = {}
  BY <1>1 DEF Init, NewRoom
<1>3. AttendInv
  BY <1>2, SafetyInit DEF AttendInv, TimersFit
<1>4. ASSUME NEW p \in Player PROVE SeatOf(p) \in {"unknown", "untimed"}
  <2>1. p \in Nat /\ p # 0
    BY MemberSeats, <1>3 DEF Player
  <2> QED
    BY <1>2, <2>1, SeatsAre DEF PlaceIn
<1> QED
  BY <1>3, <1>4 DEF Attendance!Init

LEMMA AttendNext == AttendInv /\ [Next]_vars => AttendInv' /\ (Attendance!Next \/ Stays)
<1> SUFFICES ASSUME AttendInv, [Next]_vars PROVE AttendInv' /\ (Attendance!Next \/ Stays)
  OBVIOUS
<1>1. SafetyInv'
  BY SafetyNext DEF AttendInv
<1>2. TimersFit' /\ (Attendance!Next \/ Stays)
  <2>1. CASE RestNext
    <3>1. CASE RestBroadcastEnds
      BY <3>1, FlagsStay DEF RestBroadcastEnds, SameFlags
    <3> QED
      BY <2>1, <3>1, JoinAttends, LeaveAttends, AbsentAttends, CloseAttends DEF RestNext
  <2>2. CASE ConnectionNext
    <3>1. ASSUME NEW p \in Player, CloseForgottenSocket(p)
          PROVE  TimersFit' /\ Stays
      BY <3>1, FlagsStay DEF CloseForgottenSocket, SameFlags
    <3> QED
      BY <2>2, <3>1, ConnectAttends, AbsentAttends, ExpiryAttends DEF ConnectionNext
  <2>3. CASE StartNext
    <3>1. CASE StartLoadsCards \/ StartBroadcastRaises
      BY <3>1, FlagsStay DEF StartLoadsCards, StartBroadcastRaises, SameFlags
    <3>2. 1 \in Player
      BY OpsAssumption DEF Player
    <3> QED
      BY <2>3, <3>1, <3>2, StartAttends, GameAttends DEF StartNext
  <2>4. CASE CommandNext
    BY <2>4, GameAttends, LeaveAttends DEF CommandNext
  <2>5. CASE UNCHANGED vars
    BY <2>5, FlagsStay DEF vars, SameFlags
  <2> QED
    BY <2>1, <2>2, <2>3, <2>4, <2>5 DEF Next
<1> QED
  BY <1>1, <1>2 DEF AttendInv

\* The room keeps the attendance it promises: whatever a handler does to the
\* game, the host and the flags, its players only enter, come, go, run out of
\* time, leave, are evicted, or are waited for no longer with the whole room.
THEOREM RoomKeepsAttendance == Spec => ImplementsAttendance
<1>1. AttendInv /\ [Next]_vars => [Attendance!Next]_([p \in Player |-> SeatOf(p)])
  BY AttendNext DEF Stays
<1> QED
  BY <1>1, AttendInit, AttendNext, PTL DEF Spec, ImplementsAttendance, Attendance!Spec
=============================================================================
