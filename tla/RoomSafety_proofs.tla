-------------------------- MODULE RoomSafety_proofs --------------------------
(***************************************************************************)
(* The safety invariants of RoomGame, for every number of joins, capacity, *)
(* rule and hand size.                                                     *)
(*                                                                         *)
(* None of them is inductive.  The first part states what one operator on  *)
(* rooms preserves; the second puts the parts together as IInv and shows   *)
(* that every step keeps it.                                               *)
(***************************************************************************)
EXTENDS RoomGame_proofs, FiniteSetTheorems

-----------------------------------------------------------------------------
(***************************************************************************)
(* The parts of the invariant that speak of the room alone.                *)
(***************************************************************************)

\* The flags are flags of members, and nobody is both connected and excluded.
FlagsFit(r) ==
  /\ r.connected \subseteq r.players
  /\ r.ready \subseteq r.players
  /\ r.excluded \subseteq r.players
  /\ r.isHost \subseteq r.players
  /\ r.excluded \intersect r.connected = {}

\* RoundOwnerHoldsTurn, of any room
OwnersFit(r) ==
  /\ r.status \in {"waiting", "starting"} =>
       r.pending = NoPlayer /\ r.lastRound = NoPlayer /\ r.lastPass = NoPlayer
  /\ r.status = "finished" => r.pending = NoPlayer /\ r.lastPass = NoPlayer
  /\ r.status = "playing" =>
       /\ r.pending \in {NoPlayer, r.turn}
       /\ r.lastRound \in {NoPlayer, r.turn}
       /\ r.lastPass \in {NoPlayer, r.turn}
       /\ r.pending # NoPlayer => r.lastRound = NoPlayer /\ r.lastPass = NoPlayer
       /\ r.lastRound # NoPlayer => r.lastPass = NoPlayer

\* NoDecidedBallotOpen, of any room
BallotFits(r) ==
  LET eligible == EligibleVoters(r)
  IN  /\ \A v \in Player : r.votes[v] # NoVote => v \in eligible
      /\ eligible # {} => \E v \in eligible : r.votes[v] = NoVote

\* What holds of the ballot between a departure and its recount
NoStrayBallot(r) == r.pending = NoPlayer => r.votes = NoVotes

\* EmptyHandIsOnTheTable, of any room
HandsFit(r) ==
  r.status = "playing" => \A p \in r.players : r.hand[p] = 0 => r.pending = p

\* A room in which a round may just have lost a voter, and one that is settled
Unsettled(r) == r \in Room /\ FlagsFit(r) /\ OwnersFit(r) /\ NoStrayBallot(r) /\ HandsFit(r)
Settled(r)   == r \in Room /\ FlagsFit(r) /\ OwnersFit(r) /\ BallotFits(r) /\ HandsFit(r)

\* MembersHoldRoles for a host who is a member, HostNotAbandoned, and: only a
\* lobby in which nobody is ready can be without a host
RolesFit(r) == r.host \in r.players => r.turn \in r.players /\ r.isHost = {r.host}
HostFits(r) == r.connected # {} => r.host \notin r.excluded
Led(r) ==
  r.players # {} =>
    r.host \in r.players \/ (r.status = "waiting" /\ r.players \intersect r.ready = {})

Fit(r) == Settled(r) /\ RolesFit(r) /\ HostFits(r) /\ Led(r)

\* What every change of the room but a join does to its members: none is
\* added, and the host role passes to a member, unless nobody is left, and
\* only from one who is gone or excluded.
Follows(r, s) ==
  /\ s.players \subseteq r.players
  /\ s.host \in {r.host} \union r.players
  /\ r.host \in r.players => s.host \in s.players \/ s.players = {}
  /\ s.host # r.host =>
       r.host \notin s.players \/ (r.host \in s.excluded /\ r.host \notin s.connected)

\* A settled room is in particular one that may be counted again.
LEMMA SettledIsUnsettled ==
  ASSUME NEW r, Settled(r)
  PROVE  Unsettled(r)
<1>1. r.pending = NoPlayer => EligibleVoters(r) = {}
  BY DEF EligibleVoters
<1>2. r.pending = NoPlayer => \A v \in Player : r.votes[v] = NoVote
  BY <1>1 DEF Settled, BallotFits
<1>3. r.votes \in [Player -> VoteChoice \union {NoVote}]
  BY DEF Settled, Room
<1>4. r.pending = NoPlayer => r.votes = NoVotes
  BY <1>2, <1>3 DEF NoVotes
<1> QED
  BY <1>4 DEF Settled, Unsettled, NoStrayBallot

\* _advance_turn changes the turn and nothing else.
LEMMA AdvanceTurnShape ==
  ASSUME NEW r \in Room
  PROVE  /\ AdvanceTurn(r) = [r EXCEPT !.turn = AdvanceTurn(r).turn]
         /\ r.players # {} => AdvanceTurn(r).turn \in r.players
<1> DEFINE present == r.players \ r.excluded
           order   == IF present # {} THEN present ELSE r.players
           next    == IF order = {} THEN NoPlayer
                      ELSE IF r.turn \notin order THEN First(order)
                      ELSE Successor(order, r.turn)
<1>1. order \in SUBSET Player /\ order \subseteq r.players /\ (r.players # {} => order # {})
  BY DEF Room
<1> HIDE DEF order
<1>2. order # {} => First(order) \in order
  BY <1>1, FirstMember
<1>3. ASSUME order # {}, r.turn \in order
      PROVE  Successor(order, r.turn) \in order
  BY <1>1, <1>3, SuccessorMember
<1>4. r.players # {} => next \in r.players
  BY <1>1, <1>2, <1>3
<1>5. AdvanceTurn(r) = [r EXCEPT !.turn = next]
  BY DEF AdvanceTurn, order
<1> HIDE DEF next
<1> QED
  BY <1>4, <1>5 DEF Room

\* A ballot is settled when no round is pending.
LEMMA NoRoundNoBallot ==
  ASSUME NEW r \in Room, r.pending = NoPlayer, r.votes = NoVotes
  PROVE  BallotFits(r)
  BY DEF BallotFits, EligibleVoters, NoVotes

\* reconcile_pending_round settles a room that lost a voter.
LEMMA ReconcilePendingSettles ==
  ASSUME NEW r, Unsettled(r)
  PROVE  Settled(ReconcilePendingRound(r))
<1> DEFINE eligible == EligibleVoters(r)
           counted  == [r EXCEPT !.votes =
                          [v \in Player |-> IF v \in eligible THEN @[v] ELSE NoVote]]
<1>0. r \in Room
  BY DEF Unsettled
<1>1. CASE r.pending = NoPlayer
  <2>1. ReconcilePendingRound(r) = r
    BY <1>1 DEF ReconcilePendingRound
  <2> QED
    BY <1>0, <1>1, <2>1, NoRoundNoBallot DEF Unsettled, Settled, NoStrayBallot
<1>2. CASE r.pending # NoPlayer /\ \E v \in eligible : r.votes[v] = NoVote
  <2>1. ReconcilePendingRound(r) = counted
    BY <1>2 DEF ReconcilePendingRound
  <2>2. counted \in Room
    BY <1>0 DEF Room
  <2>3. EligibleVoters(counted) = eligible
    BY <1>0 DEF EligibleVoters, Room
  <2>4. eligible \subseteq Player
    BY <1>0 DEF EligibleVoters, Room
  <2>5. \A v \in Player : counted.votes[v] = IF v \in eligible THEN r.votes[v] ELSE NoVote
    BY <1>0 DEF Room
  <2>6. BallotFits(counted)
    BY <1>2, <2>3, <2>4, <2>5 DEF BallotFits
  <2>7. FlagsFit(counted) /\ OwnersFit(counted) /\ HandsFit(counted)
    BY <1>0 DEF Unsettled, FlagsFit, OwnersFit, HandsFit, Room
  <2> QED
    BY <2>1, <2>2, <2>6, <2>7 DEF Settled
<1>3. CASE r.pending # NoPlayer /\ ~ \E v \in eligible : r.votes[v] = NoVote
  <2>1. ReconcilePendingRound(r) = ResolveRound(counted)
    BY <1>3 DEF ReconcilePendingRound
  <2>2. counted \in Room /\ counted.pending = r.pending
    BY <1>0 DEF Room
  <2>3. FlagsFit(counted) /\ OwnersFit(counted) /\ HandsFit(counted)
    BY <1>0 DEF Unsettled, FlagsFit, OwnersFit, HandsFit, Room
  <2> HIDE DEF counted
  <2>4. ResolveRound(counted) \in Room
    BY <1>3, <2>2, ResolveRoundType
  <2>5. counted.status = "playing"
    BY <1>3, <2>2, <2>3 DEF OwnersFit, Room, RoomStatus
  <2>6. /\ FlagsFit(ResolveRound(counted))
        /\ OwnersFit(ResolveRound(counted))
    BY <1>3, <2>2, <2>3, <2>5 DEF FlagsFit, OwnersFit, ResolveRound, Room
  <2>7. HandsFit(ResolveRound(counted))
    BY <2>2 DEF HandsFit, ResolveRound, Room
  <2>8. BallotFits(ResolveRound(counted))
    <3>1. ResolveRound(counted).pending = NoPlayer /\ ResolveRound(counted).votes = NoVotes
      BY <2>2 DEF ResolveRound, Room
    <3> QED
      BY <2>4, <3>1, NoRoundNoBallot
  <2> QED
    BY <2>1, <2>4, <2>6, <2>7, <2>8 DEF Settled
<1> QED
  BY <1>1, <1>2, <1>3

\* continue_round_result and continue_pass_result release the owner and keep
\* a settled room settled.
LEMMA ContinueRoundSettles ==
  ASSUME NEW r, Unsettled(r), r.pending = NoPlayer, r.lastPass = NoPlayer
  PROVE  /\ Settled(ContinueRoundResult(r))
         /\ ContinueRoundResult(r).players = r.players
         /\ ContinueRoundResult(r).status = r.status
<1> DEFINE seen == [r EXCEPT !.lastRound = NoPlayer]
<1>0. r \in Room
  BY DEF Unsettled
<1>1. seen \in Room
  BY <1>0 DEF Room
<1>2. FlagsFit(seen) /\ OwnersFit(seen) /\ HandsFit(seen)
  BY <1>0 DEF Unsettled, FlagsFit, OwnersFit, HandsFit, Room
<1>3. /\ seen.pending = NoPlayer /\ seen.lastRound = NoPlayer /\ seen.lastPass = NoPlayer
      /\ seen.votes = NoVotes /\ seen.players = r.players /\ seen.status = r.status
  BY <1>0 DEF Unsettled, NoStrayBallot, Room
<1> HIDE DEF seen
<1>4. BallotFits(seen)
  BY <1>1, <1>3, NoRoundNoBallot
<1> DEFINE on == AdvanceTurn(seen)
<1>5. on \in Room /\ on = [seen EXCEPT !.turn = on.turn]
  BY <1>1, AdvanceTurnType, AdvanceTurnShape
<1> HIDE DEF on
<1>6. /\ FlagsFit(on) /\ OwnersFit(on) /\ HandsFit(on)
      /\ on.pending = NoPlayer /\ on.votes = NoVotes
      /\ on.players = r.players /\ on.status = r.status
  BY <1>1, <1>2, <1>3, <1>5 DEF FlagsFit, OwnersFit, HandsFit, Room
<1>7. BallotFits(on)
  BY <1>5, <1>6, NoRoundNoBallot
<1>8. \/ ContinueRoundResult(r) = r /\ r.lastRound = NoPlayer
      \/ ContinueRoundResult(r) = seen
      \/ ContinueRoundResult(r) = on
  BY DEF ContinueRoundResult, seen, on
<1>9. BallotFits(r)
  BY <1>0, NoRoundNoBallot DEF Unsettled, NoStrayBallot
<1> QED
  BY <1>0, <1>1, <1>2, <1>3, <1>4, <1>5, <1>6, <1>7, <1>8, <1>9 DEF Settled, Unsettled

\* The same of continue_pass_result.
LEMMA ContinuePassSettles ==
  ASSUME NEW r, Unsettled(r), r.pending = NoPlayer, r.lastRound = NoPlayer
  PROVE  /\ Settled(ContinuePassResult(r))
         /\ ContinuePassResult(r).players = r.players
         /\ ContinuePassResult(r).status = r.status
<1> DEFINE seen == [r EXCEPT !.lastPass = NoPlayer]
<1>0. r \in Room
  BY DEF Unsettled
<1>1. seen \in Room
  BY <1>0 DEF Room
<1>2. FlagsFit(seen) /\ OwnersFit(seen) /\ HandsFit(seen)
  BY <1>0 DEF Unsettled, FlagsFit, OwnersFit, HandsFit, Room
<1>3. /\ seen.pending = NoPlayer /\ seen.lastRound = NoPlayer /\ seen.lastPass = NoPlayer
      /\ seen.votes = NoVotes /\ seen.players = r.players /\ seen.status = r.status
  BY <1>0 DEF Unsettled, NoStrayBallot, Room
<1> HIDE DEF seen
<1> DEFINE on == AdvanceTurn(seen)
<1>4. on \in Room /\ on = [seen EXCEPT !.turn = on.turn]
  BY <1>1, AdvanceTurnType, AdvanceTurnShape
<1> HIDE DEF on
<1>5. /\ FlagsFit(on) /\ OwnersFit(on) /\ HandsFit(on)
      /\ on.pending = NoPlayer /\ on.votes = NoVotes
      /\ on.players = r.players /\ on.status = r.status
  BY <1>1, <1>2, <1>3, <1>4 DEF FlagsFit, OwnersFit, HandsFit, Room
<1>6. BallotFits(on)
  BY <1>4, <1>5, NoRoundNoBallot
<1>7. BallotFits(r)
  BY <1>0, NoRoundNoBallot DEF Unsettled, NoStrayBallot
<1>8. ContinuePassResult(r) \in {r, on}
  BY DEF ContinuePassResult, seen, on
<1> QED
  BY <1>0, <1>4, <1>5, <1>6, <1>7, <1>8 DEF Settled, Unsettled

\* What the operators on rounds leave alone: members, their flags and the host
SameMembers(r, s) ==
  /\ s.players = r.players /\ s.host = r.host /\ s.isHost = r.isHost
  /\ s.connected = r.connected /\ s.excluded = r.excluded /\ s.ready = r.ready
  /\ s.maxPlayers = r.maxPlayers

\* _advance_turn leaves members and status alone.
LEMMA AdvanceTurnFrame ==
  ASSUME NEW r \in Room
  PROVE  SameMembers(r, AdvanceTurn(r)) /\ AdvanceTurn(r).status = r.status
<1>1. AdvanceTurn(r) = [r EXCEPT !.turn = AdvanceTurn(r).turn]
  BY AdvanceTurnShape
<1> DEFINE t == AdvanceTurn(r).turn
<1> HIDE DEF t
<1>2. SameMembers(r, [r EXCEPT !.turn = t]) /\ [r EXCEPT !.turn = t].status = r.status
  BY DEF SameMembers, Room
<1> QED
  BY <1>1, <1>2 DEF t

\* ... so do continue_round_result and continue_pass_result
LEMMA ContinueFrame ==
  ASSUME NEW r \in Room
  PROVE  /\ SameMembers(r, ContinueRoundResult(r)) /\ ContinueRoundResult(r).status = r.status
         /\ SameMembers(r, ContinuePassResult(r)) /\ ContinuePassResult(r).status = r.status
<1> DEFINE seen  == [r EXCEPT !.lastRound = NoPlayer]
           acked == [r EXCEPT !.lastPass = NoPlayer]
<1>1. /\ seen \in Room /\ SameMembers(r, seen) /\ seen.status = r.status
      /\ acked \in Room /\ SameMembers(r, acked) /\ acked.status = r.status
      /\ SameMembers(r, r)
  BY DEF SameMembers, Room
<1>2. /\ ContinueRoundResult(r) \in {r, seen, AdvanceTurn(seen)}
      /\ ContinuePassResult(r) \in {r, AdvanceTurn(acked)}
  BY DEF ContinueRoundResult, ContinuePassResult
<1> HIDE DEF seen, acked
<1>3. /\ SameMembers(seen, AdvanceTurn(seen)) /\ AdvanceTurn(seen).status = seen.status
      /\ SameMembers(acked, AdvanceTurn(acked)) /\ AdvanceTurn(acked).status = acked.status
  BY <1>1, AdvanceTurnFrame
<1> QED
  BY <1>1, <1>2, <1>3 DEF SameMembers

\* ... and reconcile_pending_round, which may end the game, but then resolves
\* the round
LEMMA ReconcilePendingFrame ==
  ASSUME NEW r \in Room
  PROVE  LET s == ReconcilePendingRound(r)
         IN  /\ SameMembers(r, s)
             /\ s.turn = r.turn
             /\ s.lastPass = r.lastPass
             /\ s.status \in {r.status, "finished"}
             /\ s.pending \in {r.pending, NoPlayer}
             /\ s.pending = r.pending => s.lastRound = r.lastRound /\ s.status = r.status
<1> DEFINE counted == [r EXCEPT !.votes =
                         [v \in Player |-> IF v \in EligibleVoters(r) THEN @[v] ELSE NoVote]]
<1>1. counted \in Room
  BY DEF Room
<1>2. /\ SameMembers(r, counted) /\ counted.turn = r.turn /\ counted.lastPass = r.lastPass
      /\ counted.status = r.status /\ counted.pending = r.pending
      /\ counted.lastRound = r.lastRound
  BY DEF SameMembers, Room
<1>3. \/ ReconcilePendingRound(r) = r
      \/ ReconcilePendingRound(r) = counted
      \/ r.pending # NoPlayer /\ ReconcilePendingRound(r) = ResolveRound(counted)
  BY DEF ReconcilePendingRound
<1> HIDE DEF counted
<1>4. LET s == ResolveRound(counted)
      IN  /\ SameMembers(counted, s) /\ s.turn = counted.turn /\ s.lastPass = counted.lastPass
          /\ s.status \in {counted.status, "finished"} /\ s.pending = NoPlayer
  BY <1>1 DEF ResolveRound, SameMembers, Room
<1> QED
  BY <1>2, <1>3, <1>4 DEF SameMembers

\* ... and reconcile_disconnected_player, whoever it is called for
LEMMA ReconcileDisconnectedFrame ==
  ASSUME NEW r \in Room, NEW p \in Player
  PROVE  LET s == ReconcileDisconnectedPlayer(r, p)
         IN  /\ SameMembers(r, s)
             /\ s.status \in {r.status, "finished"}
             /\ r.status # "playing" => s = r
<1> DEFINE settled == ReconcilePendingRound(r)
<1>1. settled \in Room /\ SameMembers(r, settled) /\ settled.status \in {r.status, "finished"}
  BY ReconcilePendingType, ReconcilePendingFrame
<1>2. \/ r.status # "playing" /\ ReconcileDisconnectedPlayer(r, p) = r
      \/ /\ r.status = "playing"
         /\ ReconcileDisconnectedPlayer(r, p) \in
              {ContinueRoundResult(r), ContinuePassResult(r), settled, AdvanceTurn(settled)}
  BY DEF ReconcileDisconnectedPlayer
<1> HIDE DEF settled
<1>3. SameMembers(settled, AdvanceTurn(settled)) /\ AdvanceTurn(settled).status = settled.status
  BY <1>1, AdvanceTurnFrame
<1>4. SameMembers(r, r)
  BY DEF SameMembers
<1>5. SameMembers(r, AdvanceTurn(settled))
  BY <1>1, <1>3 DEF SameMembers
<1> QED
  BY <1>1, <1>2, <1>3, <1>4, <1>5, ContinueFrame

\* reconcile_disconnected_player settles a room that lost the voter p.
LEMMA ReconcileDisconnectedSettles ==
  ASSUME NEW r, Unsettled(r), NEW p \in Player
  PROVE  Settled(ReconcileDisconnectedPlayer(r, p))
<1> DEFINE settled == ReconcilePendingRound(r)
           on      == AdvanceTurn(settled)
<1>0. r \in Room
  BY DEF Unsettled
<1>1. Settled(settled)
  BY ReconcilePendingSettles
<1>2. CASE r.status # "playing"
  <2>1. r.pending = NoPlayer /\ r.votes = NoVotes
    BY <1>0, <1>2 DEF Unsettled, OwnersFit, NoStrayBallot, Room, RoomStatus
  <2>2. BallotFits(r)
    BY <1>0, <2>1, NoRoundNoBallot
  <2>3. ReconcileDisconnectedPlayer(r, p) = r
    BY <1>2 DEF ReconcileDisconnectedPlayer
  <2> QED
    BY <2>2, <2>3 DEF Settled, Unsettled
<1>3. CASE r.status = "playing" /\ r.lastRound = p
  <2>1. p # NoPlayer
    BY DEF Player, NoPlayer
  <2>2. r.pending = NoPlayer /\ r.lastPass = NoPlayer
    BY <1>3, <2>1 DEF Unsettled, OwnersFit
  <2>3. ReconcileDisconnectedPlayer(r, p) = ContinueRoundResult(r)
    BY <1>3 DEF ReconcileDisconnectedPlayer
  <2> QED
    BY <2>2, <2>3, ContinueRoundSettles
<1>4. CASE r.status = "playing" /\ r.lastRound # p /\ r.lastPass = p
  <2>1. p # NoPlayer
    BY DEF Player, NoPlayer
  <2>2. r.pending = NoPlayer /\ r.lastRound = NoPlayer
    BY <1>4, <2>1 DEF Unsettled, OwnersFit
  <2>3. ReconcileDisconnectedPlayer(r, p) = ContinuePassResult(r)
    BY <1>4 DEF ReconcileDisconnectedPlayer
  <2> QED
    BY <2>2, <2>3, ContinuePassSettles
<1>5. CASE /\ r.status = "playing" /\ r.lastRound # p /\ r.lastPass # p
           /\ ~(r.pending # NoPlayer /\ settled.pending = NoPlayer)
           /\ settled.turn = p /\ settled.pending = NoPlayer
  <2>1. ReconcileDisconnectedPlayer(r, p) = on
    BY <1>5 DEF ReconcileDisconnectedPlayer
  <2>2. /\ settled \in Room /\ settled.status = "playing"
        /\ settled.lastRound = NoPlayer /\ settled.lastPass = NoPlayer
    BY <1>0, <1>1, <1>5, ReconcilePendingFrame DEF Settled, OwnersFit
  <2>3. on = [settled EXCEPT !.turn = on.turn] /\ on \in Room
    BY <2>2, AdvanceTurnShape, AdvanceTurnType
  <2>4. settled.votes = NoVotes
    BY <1>1, <1>5, SettledIsUnsettled DEF Unsettled, NoStrayBallot
  <2> HIDE DEF settled
  <2>5. /\ on.pending = NoPlayer /\ on.votes = NoVotes
        /\ FlagsFit(on) /\ OwnersFit(on) /\ HandsFit(on)
    <3> DEFINE t == on.turn
    <3> HIDE DEF t
    <3>1. LET o == [settled EXCEPT !.turn = t]
          IN  /\ o.pending = NoPlayer /\ o.votes = NoVotes
              /\ FlagsFit(o) /\ OwnersFit(o) /\ HandsFit(o)
      BY <1>1, <1>5, <2>2, <2>4 DEF Settled, FlagsFit, OwnersFit, HandsFit, Room
    <3> QED
      BY <2>3, <3>1 DEF t
  <2> HIDE DEF on
  <2>6. BallotFits(on)
    BY <2>3, <2>5, NoRoundNoBallot
  <2> QED
    BY <2>1, <2>3, <2>5, <2>6 DEF Settled
<1>6. CASE /\ r.status = "playing" /\ r.lastRound # p /\ r.lastPass # p
           /\ ~(/\ ~(r.pending # NoPlayer /\ settled.pending = NoPlayer)
                /\ settled.turn = p /\ settled.pending = NoPlayer)
  <2>1. ReconcileDisconnectedPlayer(r, p) = settled
    BY <1>6 DEF ReconcileDisconnectedPlayer
  <2> QED
    BY <1>1, <2>1
<1> QED
  BY <1>2, <1>3, <1>4, <1>5, <1>6
-----------------------------------------------------------------------------
(***************************************************************************)
(* Each method of the services keeps Fit.                                  *)
(***************************************************************************)

\* Fit depends on the game part only through OwnersFit, BallotFits, HandsFit
\* and the turn: a settled room with the members of r is Fit if its turn is.
LEMMA SameMembersFit ==
  ASSUME NEW r, Fit(r), NEW s, Settled(s), SameMembers(r, s),
         r.status = "waiting" => s.status = "waiting" \/ r.host \in r.players,
         r.host \in r.players => s.turn \in r.players
  PROVE  Fit(s) /\ Follows(r, s)
  BY DEF Fit, SameMembers, RolesFit, HostFits, Led, Follows

\* A host who hands the role on: the next one is a member, and connected if
\* anybody is.
LEMMA NextHostMember ==
  ASSUME NEW r \in Room, r.players # {}, r.connected \subseteq r.players
  PROVE  /\ NextHost(r) \in r.players
         /\ r.connected # {} => NextHost(r) \in r.connected
<1>1. r.players \in SUBSET Player /\ r.connected \in SUBSET Player
  BY DEF Room
<1> QED
  BY <1>1, FirstMember DEF NextHost

\* _resolve_current_turn changes the turn and nothing else, and not even that
\* if the player in turn is a member.
LEMMA ResolveTurnShape ==
  ASSUME NEW r \in Room
  PROVE  /\ ResolveTurn(r) = [r EXCEPT !.turn = ResolveTurn(r).turn]
         /\ r.players # {} => ResolveTurn(r).turn \in r.players
         /\ r.turn \in r.players => ResolveTurn(r) = r
<1> DEFINE turn == IF r.players = {} THEN NoPlayer
                   ELSE IF r.turn \in r.players THEN r.turn ELSE First(r.players)
<1>1. r.players # {} => First(r.players) \in r.players
  BY FirstMember DEF Room
<1>2. ResolveTurn(r) = [r EXCEPT !.turn = turn]
  BY DEF ResolveTurn
<1>3. r.players # {} => turn \in r.players
  BY <1>1
<1>4. r.turn \in r.players => turn = r.turn
  OBVIOUS
<1> HIDE DEF turn
<1> QED
  BY <1>2, <1>3, <1>4 DEF Room

\* In a room that is not playing, the turn does not matter to Settled.
LEMMA ResolveTurnSettles ==
  ASSUME NEW r, Settled(r), r.status # "playing"
  PROVE  /\ Settled(ResolveTurn(r)) /\ SameMembers(r, ResolveTurn(r))
         /\ ResolveTurn(r).status = r.status
         /\ r.players # {} => ResolveTurn(r).turn \in r.players
<1>1. r \in Room /\ ResolveTurn(r) \in Room
  BY ResolveTurnType DEF Settled
<1> DEFINE t == ResolveTurn(r).turn
<1> HIDE DEF t
<1>2. ResolveTurn(r) = [r EXCEPT !.turn = t]
  BY <1>1, ResolveTurnShape DEF t
<1>3. SameMembers(r, [r EXCEPT !.turn = t])
  BY <1>1 DEF SameMembers, Room
<1>4. LET s == [r EXCEPT !.turn = t]
      IN  /\ s.status = r.status /\ s.pending = r.pending /\ s.votes = r.votes
          /\ s.lastRound = r.lastRound /\ s.lastPass = r.lastPass /\ s.hand = r.hand
  BY <1>1 DEF Room
<1> DEFINE s == ResolveTurn(r)
<1>5. /\ SameMembers(r, s)
      /\ s.status = r.status /\ s.pending = r.pending /\ s.votes = r.votes
      /\ s.lastRound = r.lastRound /\ s.lastPass = r.lastPass /\ s.hand = r.hand
  BY <1>2, <1>3, <1>4
<1>6. s \in Room /\ (r.players # {} => s.turn \in r.players)
  BY <1>1, ResolveTurnShape
<1> HIDE DEF s
<1>7. EligibleVoters(s) = EligibleVoters(r)
  BY <1>5 DEF EligibleVoters, SameMembers
<1>8. FlagsFit(s) /\ OwnersFit(s) /\ BallotFits(s) /\ HandsFit(s)
  BY <1>5, <1>7 DEF Settled, FlagsFit, OwnersFit, BallotFits, HandsFit, SameMembers
<1> QED
  BY <1>5, <1>6, <1>8 DEF Settled, s

\* reconcile_disconnected_player leaves the turn with a member, also when it
\* is called for a player who held the turn and is no member any more.
LEMMA ReconcileDisconnectedTurn ==
  ASSUME NEW r, Unsettled(r), NEW p \in Player,
         r.players # {}, r.turn \in r.players \union {p},
         r.status = "playing", p \notin r.players => r.pending # p
  PROVE  ReconcileDisconnectedPlayer(r, p).turn \in r.players
<1> DEFINE settled == ReconcilePendingRound(r)
<1>0. r \in Room
  BY DEF Unsettled
<1>1. /\ settled \in Room /\ settled.players = r.players /\ settled.turn = r.turn
      /\ settled.pending = r.pending => settled.status = r.status
  BY <1>0, ReconcilePendingType, ReconcilePendingFrame DEF SameMembers
<1>2. r.pending = NoPlayer => settled = r
  BY DEF ReconcilePendingRound
<1>3. AdvanceTurn(settled).turn \in r.players
  BY <1>1, AdvanceTurnShape
<1>4. CASE r.turn \in r.players
  <2> DEFINE seen  == [r EXCEPT !.lastRound = NoPlayer]
             acked == [r EXCEPT !.lastPass = NoPlayer]
  <2>1. /\ seen \in Room /\ seen.players = r.players /\ seen.turn = r.turn
        /\ acked \in Room /\ acked.players = r.players /\ acked.turn = r.turn
    BY <1>0 DEF Room
  <2>2. /\ ContinueRoundResult(r) \in {r, seen, AdvanceTurn(seen)}
        /\ ContinuePassResult(r) \in {r, AdvanceTurn(acked)}
    BY DEF ContinueRoundResult, ContinuePassResult
  <2> HIDE DEF seen, acked
  <2>3. /\ ContinueRoundResult(r).turn \in r.players
        /\ ContinuePassResult(r).turn \in r.players
    BY <1>4, <2>1, <2>2, AdvanceTurnShape
  <2>4. ReconcileDisconnectedPlayer(r, p) \in
          {ContinueRoundResult(r), ContinuePassResult(r), settled, AdvanceTurn(settled)}
    BY DEF ReconcileDisconnectedPlayer
  <2> HIDE DEF settled
  <2> QED
    BY <1>1, <1>3, <1>4, <2>3, <2>4
<1>5. CASE r.turn \notin r.players
  <2>1. r.turn = p /\ p # NoPlayer
    BY <1>5 DEF Player, NoPlayer
  <2>2. r.pending = NoPlayer
    BY <1>5, <2>1 DEF Unsettled, OwnersFit
  <2>3. settled = r
    BY <1>2, <2>2
  <2>4. CASE r.lastRound = p
    <3> DEFINE seen == [r EXCEPT !.lastRound = NoPlayer]
    <3>1. seen \in Room /\ seen.players = r.players
      BY <1>0 DEF Room
    <3>2. ReconcileDisconnectedPlayer(r, p) = AdvanceTurn(seen)
      BY <2>1, <2>4 DEF ReconcileDisconnectedPlayer, ContinueRoundResult
    <3> HIDE DEF seen
    <3> QED
      BY <3>1, <3>2, AdvanceTurnShape
  <2>5. CASE r.lastRound # p /\ r.lastPass = p
    <3> DEFINE acked == [r EXCEPT !.lastPass = NoPlayer]
    <3>1. acked \in Room /\ acked.players = r.players
      BY <1>0 DEF Room
    <3>2. ReconcileDisconnectedPlayer(r, p) = AdvanceTurn(acked)
      BY <2>1, <2>5 DEF ReconcileDisconnectedPlayer, ContinuePassResult
    <3> HIDE DEF acked
    <3> QED
      BY <3>1, <3>2, AdvanceTurnShape
  <2>6. CASE r.lastRound # p /\ r.lastPass # p
    <3>1. ReconcileDisconnectedPlayer(r, p) = AdvanceTurn(settled)
      BY <2>1, <2>2, <2>3, <2>6 DEF ReconcileDisconnectedPlayer
    <3> QED
      BY <1>3, <3>1
  <2> QED
    BY <2>4, <2>5, <2>6
<1> QED
  BY <1>4, <1>5
\* The room after p was taken off the list and the host role handed on: what
\* leave_room_with_result and _evict_expired_lobby_player have in common.
HandedOver(r, s, p) ==
  /\ s \in Room
  /\ s.players = r.players \ {p} /\ s.connected = r.connected \ {p}
  /\ s.ready = r.ready \ {p} /\ s.excluded = r.excluded \ {p}
  /\ s.turn = r.turn /\ s.status = r.status /\ s.maxPlayers = r.maxPlayers
  /\ s.pending = r.pending /\ s.votes = r.votes
  /\ s.lastRound = r.lastRound /\ s.lastPass = r.lastPass
  /\ \A q \in Player : q # p => s.hand[q] = r.hand[q]
  /\ FlagsFit(s)
  /\ HostFits(s)
  /\ r.host \notin r.players => s.host = r.host
  /\ r.host \in r.players /\ s.players # {} => s.host \in s.players /\ s.isHost = {s.host}
  /\ s.players = {} => s.host = r.host
  /\ s.host # r.host => r.host = p

\* Taking p off the list and handing the role on gives such a room.
LEMMA HandOver ==
  ASSUME NEW r, Fit(r), NEW p \in r.players
  PROVE  LET rest == Without(r, p)
         IN  /\ rest.players = r.players \ {p}
             /\ HandedOver(r, IF r.host = p /\ rest.players # {}
                              THEN AssignHost(rest, NextHost(rest)) ELSE rest, p)
<1> DEFINE rest == Without(r, p)
<1>0. r \in Room /\ p \in Player /\ FlagsFit(r)
  BY DEF Fit, Settled, Room
<1>1. rest \in Room
  BY <1>0, WithoutType
<1>2. /\ rest.players = r.players \ {p} /\ rest.connected = r.connected \ {p}
      /\ rest.ready = r.ready \ {p} /\ rest.excluded = r.excluded \ {p}
      /\ rest.isHost = r.isHost \ {p} /\ rest.host = r.host
      /\ rest.turn = r.turn /\ rest.status = r.status /\ rest.maxPlayers = r.maxPlayers
      /\ rest.pending = r.pending /\ rest.votes = r.votes
      /\ rest.lastRound = r.lastRound /\ rest.lastPass = r.lastPass
      /\ \A q \in Player : q # p => rest.hand[q] = r.hand[q]
  BY <1>0 DEF Without, Room
<1> HIDE DEF rest
<1>3. FlagsFit(rest)
  BY <1>0, <1>2 DEF FlagsFit
<1>4. CASE r.host = p /\ rest.players # {}
  <2> DEFINE next == NextHost(rest)
  <2>1. /\ next \in rest.players
        /\ rest.connected # {} => next \in rest.connected
    BY <1>1, <1>3, <1>4, NextHostMember DEF FlagsFit
  <2> HIDE DEF next
  <2>2. AssignHost(rest, next) = [rest EXCEPT !.host = next, !.isHost = {next}]
    BY <1>2, <1>4, <2>1 DEF AssignHost
  <2>3. AssignHost(rest, next) \in Room
    BY <1>1, <2>1, AssignHostType DEF Room
  <2> DEFINE s == AssignHost(rest, next)
  <2>4. /\ s.players = rest.players /\ s.connected = rest.connected
        /\ s.ready = rest.ready /\ s.excluded = rest.excluded
        /\ s.isHost = {next} /\ s.host = next
        /\ s.turn = rest.turn /\ s.status = rest.status /\ s.maxPlayers = rest.maxPlayers
        /\ s.pending = rest.pending /\ s.votes = rest.votes
        /\ s.lastRound = rest.lastRound /\ s.lastPass = rest.lastPass
        /\ s.hand = rest.hand
    BY <1>1, <2>2 DEF Room
  <2> HIDE DEF s
  <2>5. FlagsFit(s) /\ HostFits(s)
    BY <1>3, <2>1, <2>4 DEF FlagsFit, HostFits
  <2>6. HandedOver(r, s, p)
    BY <1>2, <1>4, <2>1, <2>3, <2>4, <2>5 DEF HandedOver, s
  <2> QED
    BY <1>2, <1>4, <2>6 DEF rest, next, s
<1>5. CASE ~(r.host = p /\ rest.players # {})
  <2>1. HostFits(rest)
    BY <1>2, <1>3, <1>5 DEF Fit, HostFits, FlagsFit
  <2>2. r.host \in r.players /\ rest.players # {} => rest.host \in rest.players /\ rest.isHost = {rest.host}
    BY <1>2, <1>5 DEF Fit, RolesFit
  <2>3. HandedOver(r, rest, p)
    BY <1>1, <1>2, <1>3, <2>1, <2>2 DEF HandedOver
  <2> QED
    BY <1>2, <1>5, <2>3 DEF rest
<1> QED
  BY <1>4, <1>5

\* Without a member list there is no ballot, and outside a game no round.
LEMMA LobbySettles ==
  ASSUME NEW s \in Room, FlagsFit(s), OwnersFit(s), s.pending = NoPlayer, s.votes = NoVotes,
         s.status # "playing" \/ s.players = {}
  PROVE  Settled(s)
  BY NoRoundNoBallot DEF Settled, HandsFit

\* In a settled room without a round the ballot is empty.
LEMMA NoRoundNoVotes ==
  ASSUME NEW r, Settled(r), r.pending = NoPlayer
  PROVE  r.votes = NoVotes
  BY SettledIsUnsettled DEF Unsettled, NoStrayBallot
\* _remove_player_from_game after p was taken off the list: its round, its
\* vote and its last pass are gone, and the rest is as it was.
LEMMA RemovePlayerUnsettles ==
  ASSUME NEW r, Fit(r), NEW p \in r.players, NEW h, HandedOver(r, h, p), h.players # {}
  PROVE  LET s == RemovePlayerFromGame(h, p)
         IN  /\ Unsettled(s)
             /\ SameMembers(h, s)
             /\ s.turn = h.turn
             /\ s.pending # p
             /\ s.status \in {h.status, "finished"}
             /\ h.status # "playing" => s = h
<1> DEFINE over == [h EXCEPT !.status = "finished", !.pending = NoPlayer,
                             !.votes = NoVotes, !.lastPass = NoPlayer]
           void == [h EXCEPT !.pending = NoPlayer, !.votes = NoVotes, !.lastPass = NoPlayer]
           fewer == [h EXCEPT !.votes[p] = NoVote]
<1>0. /\ h \in Room /\ FlagsFit(h) /\ Settled(r) /\ r \in Room /\ p \in Player /\ p # NoPlayer
      /\ h.status = r.status
  <2>1. h \in Room /\ FlagsFit(h) /\ Settled(r) /\ h.status = r.status
    BY DEF HandedOver, Fit
  <2>2. r \in Room /\ p \in Player
    BY <2>1 DEF Settled, Room
  <2>3. p # NoPlayer
    BY <2>2 DEF Player, NoPlayer
  <2> QED
    BY <2>1, <2>2, <2>3
<1>1. r.status # "playing" => r.pending = NoPlayer
  BY <1>0 DEF Settled, OwnersFit, Room, RoomStatus
<1>2. OwnersFit(h)
  BY <1>0 DEF HandedOver, Settled, OwnersFit
<1>3. r.pending = NoPlayer => h.pending = NoPlayer /\ h.votes = NoVotes
  BY <1>0, NoRoundNoVotes DEF HandedOver
<1>4. r.pending # p => HandsFit(h)
  BY <1>0 DEF HandedOver, Settled, HandsFit, Room
<1>5. CASE h.status # "playing"
  <2>1. RemovePlayerFromGame(h, p) = h
    BY <1>5 DEF RemovePlayerFromGame
  <2>2. h.pending = NoPlayer /\ h.votes = NoVotes
    BY <1>0, <1>1, <1>3, <1>5
  <2>3. Unsettled(h) /\ SameMembers(h, h)
    BY <1>0, <1>2, <1>5, <2>2 DEF Unsettled, NoStrayBallot, HandsFit, SameMembers
  <2> QED
    BY <1>0, <2>1, <2>2, <2>3
<1>6. CASE h.status = "playing" /\ Cardinality(h.players) < 2
  <2>1. RemovePlayerFromGame(h, p) = over
    BY <1>6 DEF RemovePlayerFromGame
  <2>2. over \in Room
    BY <1>0, NoVotesType DEF Room, RoomStatus
  <2>3. /\ SameMembers(h, over) /\ over.turn = h.turn /\ over.status = "finished"
        /\ over.pending = NoPlayer /\ over.votes = NoVotes /\ over.lastPass = NoPlayer
    BY <1>0 DEF SameMembers, Room
  <2> HIDE DEF over
  <2>4. Unsettled(over)
    BY <1>0, <2>2, <2>3 DEF Unsettled, NoStrayBallot, HandsFit, OwnersFit, FlagsFit, SameMembers
  <2> QED
    BY <1>0, <1>6, <2>1, <2>3, <2>4
<1>7. CASE h.status = "playing" /\ ~(Cardinality(h.players) < 2) /\ h.pending = p
  <2>1. RemovePlayerFromGame(h, p) = void
    BY <1>7 DEF RemovePlayerFromGame
  <2>2. void \in Room
    BY <1>0, NoVotesType DEF Room
  <2>3. /\ SameMembers(h, void) /\ void.turn = h.turn /\ void.status = "playing"
        /\ void.pending = NoPlayer /\ void.votes = NoVotes /\ void.lastPass = NoPlayer
        /\ void.lastRound = h.lastRound /\ void.hand = h.hand
    BY <1>0, <1>7 DEF SameMembers, Room
  <2> HIDE DEF void
  <2>4. void.lastRound = NoPlayer
    BY <1>0, <1>2, <1>7, <2>3 DEF OwnersFit
  <2>5. HandsFit(void)
    <3>1. \A q \in h.players : q \in Player /\ q \in r.players /\ q # p
      BY <1>0 DEF HandedOver, Room
    <3>2. \A q \in h.players : h.hand[q] # 0
      BY <1>0, <1>7, <3>1 DEF HandedOver, Settled, HandsFit
    <3> QED
      BY <2>3, <3>2 DEF HandsFit, SameMembers
  <2>6. Unsettled(void)
    BY <1>0, <2>2, <2>3, <2>4, <2>5 DEF Unsettled, NoStrayBallot, OwnersFit, FlagsFit, SameMembers
  <2> QED
    BY <1>0, <1>7, <2>1, <2>3, <2>6
<1>8. CASE h.status = "playing" /\ ~(Cardinality(h.players) < 2) /\ h.pending # p
  <2>1. RemovePlayerFromGame(h, p) = fewer
    BY <1>8 DEF RemovePlayerFromGame
  <2>2. fewer \in Room
    BY <1>0 DEF Room
  <2>3. /\ SameMembers(h, fewer) /\ fewer.turn = h.turn /\ fewer.status = h.status
        /\ fewer.pending = h.pending /\ fewer.lastPass = h.lastPass
        /\ fewer.lastRound = h.lastRound /\ fewer.hand = h.hand
    BY <1>0 DEF SameMembers, Room
  <2>4. NoStrayBallot(fewer)
    BY <1>0, <1>3 DEF NoStrayBallot, HandedOver, NoVotes, Room
  <2> HIDE DEF fewer
  <2>5. HandsFit(h)
    BY <1>4, <1>8 DEF HandedOver
  <2>6. Unsettled(fewer)
    BY <1>0, <1>2, <2>2, <2>3, <2>4, <2>5
    DEF Unsettled, HandsFit, OwnersFit, FlagsFit, SameMembers
  <2> QED
    BY <1>8, <2>1, <2>3, <2>6
<1> QED
  BY <1>5, <1>6, <1>7, <1>8

\* leave_room_with_result: of one player among others, and of the last one.
LEMMA LeaveRoomFits ==
  ASSUME NEW r, Fit(r), NEW p \in r.players
  PROVE  LET s == LeaveRoom(r, p)
         IN  /\ Fit(s) /\ Follows(r, s)
             /\ s.maxPlayers = r.maxPlayers
             /\ r.status # "playing" => s.status = r.status
             /\ s.players = r.players \ {p} /\ s.connected = r.connected \ {p}
             /\ s.excluded = r.excluded \ {p}
<1> DEFINE rest   == Without(r, p)
           hosted == IF r.host = p THEN AssignHost(rest, NextHost(rest)) ELSE rest
           left   == RemovePlayerFromGame(hosted, p)
           done   == ReconcileDisconnectedPlayer(left, p)
<1>0. r \in Room /\ p \in Player /\ Settled(r)
  BY DEF Fit, Settled, Room
<1>1. rest.players = r.players \ {p} /\ HandedOver(r, IF rest.players # {} THEN hosted ELSE rest, p)
  BY HandOver
<1>2. CASE rest.players = {}
  <2>1. LeaveRoom(r, p) = rest
    BY <1>2 DEF LeaveRoom
  <2>2. HandedOver(r, rest, p)
    BY <1>1, <1>2
  <2> HIDE DEF rest
  <2>3. r.players = {p}
    BY <1>1, <1>2
  <2>4. r.status = "playing" => r.pending \in {NoPlayer, p}
    BY <1>0, <2>3 DEF Fit, Led, RolesFit, Settled, OwnersFit
  <2>5. r.status # "playing" => r.pending = NoPlayer
    BY <1>0 DEF Settled, OwnersFit, Room, RoomStatus
  <2>6. EligibleVoters(r) = {}
    BY <2>3, <2>4, <2>5 DEF EligibleVoters
  <2>7. \A v \in Player : rest.votes[v] = NoVote
    BY <1>0, <2>2, <2>6 DEF HandedOver, Settled, BallotFits
  <2>8. EligibleVoters(rest) = {}
    BY <1>2 DEF EligibleVoters
  <2>9. Settled(rest)
    BY <1>0, <1>2, <2>2, <2>7, <2>8
    DEF Settled, HandedOver, OwnersFit, BallotFits, HandsFit
  <2>10. Fit(rest) /\ Follows(r, rest)
    BY <1>2, <2>2, <2>9 DEF Fit, Follows, HandedOver, RolesFit, Led
  <2> QED
    BY <2>1, <2>2, <2>10 DEF HandedOver
<1>3. CASE rest.players # {}
  <2>1. HandedOver(r, hosted, p)
    BY <1>1, <1>3
  <2>2. LeaveRoom(r, p) = ResolveTurn(done)
    BY <1>3 DEF LeaveRoom
  <2>3. hosted.players = r.players \ {p} /\ hosted.players # {}
    BY <1>1, <1>3, <2>1 DEF HandedOver
  <2> HIDE DEF rest, hosted
  <2>4. /\ Unsettled(left) /\ SameMembers(hosted, left)
        /\ left.turn = r.turn /\ left.pending # p
        /\ left.status \in {r.status, "finished"}
        /\ r.status # "playing" => left.status = r.status
    BY <2>1, <2>3, RemovePlayerUnsettles DEF HandedOver
  <2> HIDE DEF left
  <2>5. /\ Settled(done) /\ SameMembers(hosted, done)
        /\ done.status \in {left.status, "finished"}
        /\ left.status # "playing" => done = left
    <3>1. SameMembers(left, done)
      BY <1>0, <2>4, ReconcileDisconnectedFrame DEF Unsettled
    <3> QED
      BY <1>0, <2>4, <3>1, ReconcileDisconnectedSettles, ReconcileDisconnectedFrame
      DEF SameMembers, Unsettled
  <2>6. done.status = "playing" => done.turn \in done.players
    <3>1. SUFFICES ASSUME done.status = "playing"
                   PROVE  done.turn \in done.players
      OBVIOUS
    <3>2. left.status = "playing" /\ r.status = "playing"
      BY <2>4, <2>5, <3>1
    <3>3. r.turn \in r.players
      BY <1>0, <3>2 DEF Fit, Led, RolesFit
    <3>4. left.players = r.players \ {p} /\ left.players # {} /\ done.players = left.players
      BY <2>3, <2>4, <2>5 DEF SameMembers
    <3> HIDE DEF done
    <3> QED
      BY <1>0, <2>4, <3>2, <3>3, <3>4, ReconcileDisconnectedTurn DEF done
  <2> HIDE DEF done
  <2>7. done \in Room /\ done.players # {}
    BY <2>3, <2>5 DEF Settled, SameMembers
  <2>8. /\ Settled(ResolveTurn(done)) /\ SameMembers(done, ResolveTurn(done))
        /\ ResolveTurn(done).status = done.status
        /\ ResolveTurn(done).turn \in done.players
    <3>1. CASE done.status = "playing"
      <4>1. ResolveTurn(done) = done
        BY <2>6, <2>7, <3>1, ResolveTurnShape
      <4> QED
        BY <2>5, <2>6, <3>1, <4>1 DEF SameMembers
    <3>2. CASE done.status # "playing"
      BY <2>5, <2>7, <3>2, ResolveTurnSettles
    <3> QED
      BY <3>1, <3>2
  <2> DEFINE s == ResolveTurn(done)
  <2>9. Settled(s) /\ SameMembers(hosted, s) /\ s.turn \in s.players /\ s.status = done.status
    BY <2>5, <2>8 DEF SameMembers
  <2> HIDE DEF s
  <2>10. r.status # "playing" => s.status = r.status
    BY <2>4, <2>5, <2>9
  <2>11. RolesFit(s) /\ HostFits(s)
    BY <2>1, <2>3, <2>9 DEF SameMembers, HandedOver, RolesFit, HostFits, Fit, Led
  <2>12. Led(s)
    BY <2>1, <2>3, <2>9, <2>10 DEF SameMembers, HandedOver, Fit, Led
  <2>13. Follows(r, s) /\ s.maxPlayers = r.maxPlayers
    BY <2>1, <2>3, <2>9 DEF SameMembers, HandedOver, Follows
  <2>14. /\ s.players = r.players \ {p} /\ s.connected = r.connected \ {p}
         /\ s.excluded = r.excluded \ {p}
    BY <2>1, <2>9 DEF SameMembers, HandedOver
  <2> QED
    BY <2>2, <2>9, <2>10, <2>11, <2>12, <2>13, <2>14 DEF Fit, s
<1> QED
  BY <1>2, <1>3
\* A room with the round, the ballot and the status of a lobby, and members
\* who fit: all that is left to see is the turn.
LEMMA LobbyFits ==
  ASSUME NEW s \in Room, FlagsFit(s), s.status = "waiting",
         s.pending = NoPlayer, s.votes = NoVotes,
         s.lastRound = NoPlayer, s.lastPass = NoPlayer,
         HostFits(s), Led(s), s.host \in s.players => s.isHost = {s.host}
  PROVE  Fit(ResolveTurn(s)) /\ SameMembers(s, ResolveTurn(s))
         /\ ResolveTurn(s).status = "waiting"
<1>1. Settled(s)
  BY LobbySettles DEF OwnersFit
<1>2. /\ Settled(ResolveTurn(s)) /\ SameMembers(s, ResolveTurn(s))
      /\ ResolveTurn(s).status = "waiting"
      /\ s.players # {} => ResolveTurn(s).turn \in s.players
  BY <1>1, ResolveTurnSettles
<1> DEFINE t == ResolveTurn(s)
<1> HIDE DEF t
<1>3. RolesFit(t) /\ HostFits(t) /\ Led(t)
  BY <1>2 DEF RolesFit, HostFits, Led, SameMembers, t
<1> QED
  BY <1>2, <1>3 DEF Fit, t

\* A lobby, and a room about to start, has no round, result, pass or vote.
LEMMA LobbyHasNoRound ==
  ASSUME NEW r, Fit(r), r.status \in {"waiting", "starting"}
  PROVE  /\ r.pending = NoPlayer /\ r.lastRound = NoPlayer /\ r.lastPass = NoPlayer
         /\ r.votes = NoVotes
  BY NoRoundNoVotes DEF Fit, Settled, OwnersFit

\* _evict_expired_lobby_player
LEMMA EvictOneFits ==
  ASSUME NEW r, Fit(r)
  PROVE  LET s == EvictOne(r)
         IN  Fit(s) /\ Follows(r, s) /\ s.maxPlayers = r.maxPlayers /\ s.status = r.status
<1>1. CASE r.status # "waiting" \/ Expired(r) = {}
  BY <1>1 DEF EvictOne, Follows
<1>2. CASE r.status = "waiting" /\ Expired(r) # {}
  <2> DEFINE candidate == First(Expired(r))
             rest      == Without(r, candidate)
             hosted    == IF r.host = candidate /\ rest.players # {}
                          THEN AssignHost(rest, NextHost(rest)) ELSE rest
  <2>0. r \in Room
    BY DEF Fit, Settled
  <2>1. Expired(r) \in SUBSET Player /\ Expired(r) \subseteq r.players
    BY <2>0 DEF Expired, Room
  <2>2. candidate \in r.players
    BY <1>2, <2>1, FirstMember
  <2>3. EvictOne(r) = ResolveTurn(hosted)
    BY <1>2 DEF EvictOne
  <2> HIDE DEF candidate
  <2>4. rest.players = r.players \ {candidate} /\ HandedOver(r, hosted, candidate)
    BY <2>2, HandOver
  <2> HIDE DEF rest, hosted
  <2>5. /\ hosted.status = "waiting" /\ hosted.pending = NoPlayer /\ hosted.votes = NoVotes
        /\ hosted.lastRound = NoPlayer /\ hosted.lastPass = NoPlayer
    BY <1>2, <2>4, LobbyHasNoRound DEF HandedOver
  <2>6. Led(hosted)
    BY <2>4, <2>5 DEF HandedOver, Fit, Led
  <2>7. hosted.host \in hosted.players => hosted.isHost = {hosted.host}
    BY <2>4 DEF HandedOver
  <2>8. /\ Fit(ResolveTurn(hosted)) /\ SameMembers(hosted, ResolveTurn(hosted))
        /\ ResolveTurn(hosted).status = "waiting"
    BY <2>4, <2>5, <2>6, <2>7, LobbyFits DEF HandedOver
  <2> QED
    BY <1>2, <2>3, <2>4, <2>8 DEF HandedOver, SameMembers, Follows
<1> QED
  BY <1>1, <1>2

\* remove_expired_lobby_players
LEMMA EvictAllFits ==
  ASSUME NEW r, Fit(r)
  PROVE  LET s == EvictAll(r)
         IN  Fit(s) /\ Follows(r, s) /\ s.maxPlayers = r.maxPlayers /\ s.status = r.status
<1>1. CASE r.status # "waiting" \/ Expired(r) = {}
  BY <1>1 DEF EvictAll, Follows
<1>2. CASE r.status = "waiting" /\ Expired(r) # {}
  <2> DEFINE gone == Expired(r)
             kept == r.players \ gone
             rest == [r EXCEPT !.players  = kept,
                               !.isHost   = @ \ gone,
                               !.ready    = @ \ gone,
                               !.excluded = @ \ gone,
                               !.hand     = [p \in Player |-> IF p \in gone THEN 0 ELSE @[p]]]
             next   == NextHost(rest)
             hosted == IF r.host \notin gone THEN rest
                       ELSE IF kept # {} THEN AssignHost(rest, next)
                       ELSE [rest EXCEPT !.host = Last(gone)]
  <2>0. r \in Room /\ FlagsFit(r) /\ RolesFit(r) /\ HostFits(r) /\ Led(r)
    BY DEF Fit, Settled
  <2>1. /\ gone \in SUBSET Player /\ gone \subseteq r.players /\ gone # {}
        /\ gone \intersect r.connected = {}
    BY <1>2, <2>0 DEF Expired, Room
  <2>2. EvictAll(r) = ResolveTurn(hosted)
    BY <1>2 DEF EvictAll
  <2> HIDE DEF gone
  <2>3. rest \in Room
    BY <2>0, <2>1 DEF Room
  <2>4. /\ rest.players = kept /\ rest.isHost = r.isHost \ gone
        /\ rest.connected = r.connected /\ rest.ready = r.ready \ gone
        /\ rest.excluded = r.excluded \ gone /\ rest.host = r.host
        /\ rest.status = "waiting" /\ rest.maxPlayers = r.maxPlayers
        /\ rest.pending = NoPlayer /\ rest.votes = NoVotes
        /\ rest.lastRound = NoPlayer /\ rest.lastPass = NoPlayer
    BY <1>2, <2>0, LobbyHasNoRound DEF Room
  <2> HIDE DEF rest
  <2>5. FlagsFit(rest)
    BY <2>0, <2>1, <2>4 DEF FlagsFit
  <2>6. kept # {} => next \in kept /\ (r.connected # {} => next \in r.connected)
    BY <2>3, <2>4, <2>5, NextHostMember DEF FlagsFit
  <2> HIDE DEF next
  <2>7. /\ hosted \in Room /\ hosted.players = kept /\ hosted.connected = r.connected
        /\ hosted.ready = rest.ready /\ hosted.excluded = rest.excluded
        /\ hosted.status = "waiting" /\ hosted.maxPlayers = r.maxPlayers
        /\ hosted.pending = NoPlayer /\ hosted.votes = NoVotes
        /\ hosted.lastRound = NoPlayer /\ hosted.lastPass = NoPlayer
        /\ \/ r.host \notin gone /\ hosted.host = r.host /\ hosted.isHost = rest.isHost
           \/ r.host \in gone /\ kept # {} /\ hosted.host = next /\ hosted.isHost = {next}
           \/ r.host \in gone /\ kept = {} /\ hosted.host \in gone /\ hosted.isHost = rest.isHost
    <3>1. CASE r.host \notin gone
      BY <2>3, <2>4, <3>1
    <3>2. CASE r.host \in gone /\ kept # {}
      <4>1. next \in Player /\ next # r.host
        BY <2>0, <2>6, <3>2 DEF Room
      <4>2. AssignHost(rest, next) = [rest EXCEPT !.host = next, !.isHost = {next}]
        BY <2>4, <4>1 DEF AssignHost
      <4>3. AssignHost(rest, next) \in Room
        BY <2>3, <4>1, AssignHostType
      <4> QED
        BY <2>3, <2>4, <3>2, <4>2, <4>3 DEF Room
    <3>3. CASE r.host \in gone /\ kept = {}
      <4>1. Last(gone) \in gone
        BY <2>1, LastMaximal
      <4> QED
        BY <2>1, <2>3, <2>4, <3>3, <4>1 DEF Room
    <3> QED
      BY <3>1, <3>2, <3>3
  <2> HIDE DEF hosted
  <2>8. FlagsFit(hosted)
    BY <2>4, <2>5, <2>6, <2>7 DEF FlagsFit
  <2>9. HostFits(hosted)
    BY <2>0, <2>1, <2>4, <2>6, <2>7 DEF HostFits, FlagsFit
  <2>10. Led(hosted)
    BY <2>0, <2>4, <2>6, <2>7 DEF Led
  <2>11. hosted.host \in hosted.players => hosted.isHost = {hosted.host}
    BY <2>0, <2>4, <2>6, <2>7 DEF RolesFit
  <2>12. /\ Fit(ResolveTurn(hosted)) /\ SameMembers(hosted, ResolveTurn(hosted))
         /\ ResolveTurn(hosted).status = "waiting"
    BY <2>7, <2>8, <2>9, <2>10, <2>11, LobbyFits
  <2>13. Follows(r, hosted)
    BY <2>1, <2>6, <2>7 DEF Follows
  <2> QED
    BY <1>2, <2>2, <2>7, <2>12, <2>13 DEF SameMembers, Follows
<1> QED
  BY <1>1, <1>2

\* expire_disconnected_player: the open round counts one voter less, the turn
\* moves on if p held it, and the host role is handed on.
LEMMA ExpirePlayerFits ==
  ASSUME NEW r, Fit(r), NEW p \in r.players, p \notin r.connected
  PROVE  LET s == ExpirePlayer(r, p)
         IN  /\ Fit(s) /\ Follows(r, s) /\ s.maxPlayers = r.maxPlayers
             /\ (r.status # "playing" => s.status = r.status)
             /\ s.players = r.players /\ s.connected = r.connected
             /\ s.excluded = r.excluded \union {p}
<1> DEFINE out    == [r EXCEPT !.excluded = @ \union {p}]
           next   == First(r.connected \ {p})
           hosted == IF r.host = p /\ r.connected \ {p} # {} THEN AssignHost(out, next) ELSE out
           done   == ReconcileDisconnectedPlayer(hosted, p)
<1>0. r \in Room /\ p \in Player /\ Settled(r) /\ FlagsFit(r)
  BY DEF Fit, Settled, Room
<1>1. out \in Room
  BY <1>0 DEF Room
<1>2. /\ out.players = r.players /\ out.isHost = r.isHost /\ out.host = r.host
      /\ out.connected = r.connected /\ out.ready = r.ready
      /\ out.excluded = r.excluded \union {p}
      /\ out.status = r.status /\ out.maxPlayers = r.maxPlayers /\ out.turn = r.turn
      /\ out.pending = r.pending /\ out.votes = r.votes /\ out.hand = r.hand
      /\ out.lastRound = r.lastRound /\ out.lastPass = r.lastPass
  BY <1>0 DEF Room
<1> HIDE DEF out
<1>3. r.connected \ {p} # {} => next \in r.connected /\ next \in r.players /\ next # p
  <2>1. r.connected \ {p} \in SUBSET Player
    BY <1>0 DEF Room
  <2> QED
    BY <1>0, <2>1, FirstMember DEF FlagsFit
<1> HIDE DEF next
<1>4. /\ hosted \in Room
      /\ hosted.players = r.players /\ hosted.connected = r.connected
      /\ hosted.ready = r.ready /\ hosted.excluded = r.excluded \union {p}
      /\ hosted.status = r.status /\ hosted.maxPlayers = r.maxPlayers /\ hosted.turn = r.turn
      /\ hosted.pending = r.pending /\ hosted.votes = r.votes /\ hosted.hand = r.hand
      /\ hosted.lastRound = r.lastRound /\ hosted.lastPass = r.lastPass
      /\ \/ r.connected # {} /\ r.host = p /\ hosted.host = next /\ hosted.isHost = {next}
         \/ ~(r.connected # {} /\ r.host = p) /\ hosted.host = r.host /\ hosted.isHost = r.isHost
  <2>1. CASE r.host = p /\ r.connected \ {p} # {}
    <3>1. next \in Player
      BY <1>0, <1>3, <2>1 DEF Room
    <3>2. AssignHost(out, next) = [out EXCEPT !.host = next, !.isHost = {next}]
      BY <1>2, <1>3, <2>1 DEF AssignHost
    <3>3. AssignHost(out, next) \in Room
      BY <1>1, <3>1, AssignHostType
    <3> QED
      BY <1>1, <1>2, <2>1, <3>2, <3>3 DEF Room
  <2>2. CASE ~(r.host = p /\ r.connected \ {p} # {})
    BY <1>1, <1>2, <2>2
  <2> QED
    BY <2>1, <2>2
<1>5. ExpirePlayer(r, p) = done
  BY DEF ExpirePlayer, hosted, out, next
<1> HIDE DEF hosted
<1>6. FlagsFit(hosted)
  BY <1>0, <1>3, <1>4 DEF FlagsFit
<1>7. Unsettled(hosted)
  <2>1. OwnersFit(hosted) /\ HandsFit(hosted)
    BY <1>0, <1>4 DEF Settled, OwnersFit, HandsFit
  <2>2. NoStrayBallot(hosted)
    BY <1>0, <1>4, NoRoundNoVotes DEF NoStrayBallot
  <2> QED
    BY <1>4, <1>6, <2>1, <2>2 DEF Unsettled
<1>8. /\ Settled(done) /\ SameMembers(hosted, done)
      /\ done.status \in {r.status, "finished"}
      /\ r.status # "playing" => done = hosted
  BY <1>0, <1>4, <1>7, ReconcileDisconnectedSettles, ReconcileDisconnectedFrame
<1>9. r.host \in r.players => done.turn \in done.players
  <2>1. r.host \in r.players => r.turn \in r.players
    BY DEF Fit, RolesFit
  <2>2. CASE r.status = "playing"
    BY <1>0, <1>4, <1>7, <1>8, <2>1, <2>2, ReconcileDisconnectedTurn DEF SameMembers
  <2>3. CASE r.status # "playing"
    BY <1>4, <1>8, <2>1, <2>3
  <2> QED
    BY <2>2, <2>3
<1> HIDE DEF done
<1>10. RolesFit(done)
  BY <1>3, <1>4, <1>8, <1>9 DEF Fit, RolesFit, SameMembers
<1>11. HostFits(done)
  BY <1>0, <1>3, <1>4, <1>8 DEF Fit, HostFits, FlagsFit, SameMembers
<1>12. r.status # "playing" => done.status = r.status
  BY <1>4, <1>8
<1>13. Led(done)
  BY <1>3, <1>4, <1>8, <1>12 DEF Fit, Led, SameMembers
<1>14. Follows(r, done) /\ done.maxPlayers = r.maxPlayers
  BY <1>3, <1>4, <1>8 DEF Follows, SameMembers
<1>15. /\ done.players = r.players /\ done.connected = r.connected
       /\ done.excluded = r.excluded \union {p}
  BY <1>4, <1>8 DEF SameMembers
<1> QED
  BY <1>5, <1>8, <1>10, <1>11, <1>12, <1>13, <1>14, <1>15 DEF Fit

\* create_room
LEMMA NewRoomFits ==
  ASSUME NEW max \in MaxPlayersChoices, NEW wrong \in WrongAnswerChoices
  PROVE  Fit(NewRoom(max, wrong))
<1> DEFINE r == NewRoom(max, wrong)
<1>1. r \in Room
  BY NewRoomType
<1>2. /\ r.players = {1} /\ r.host = 1 /\ r.isHost = {1} /\ r.turn = 1
      /\ r.status = "waiting" /\ r.connected = {} /\ r.ready = {} /\ r.excluded = {}
      /\ r.pending = NoPlayer /\ r.votes = NoVotes
      /\ r.lastRound = NoPlayer /\ r.lastPass = NoPlayer
  BY DEF NewRoom
<1> HIDE DEF r
<1>3. FlagsFit(r) /\ OwnersFit(r)
  BY <1>2 DEF FlagsFit, OwnersFit
<1>4. Settled(r)
  BY <1>1, <1>2, <1>3, LobbySettles
<1> QED
  BY <1>2, <1>4 DEF Fit, RolesFit, HostFits, Led, r

\* start_game deals to a room that was started: every member gets cards, and
\* the first one the turn.
LEMMA DealGameFits ==
  ASSUME NEW r, Fit(r), r.status = "starting"
  PROVE  Fit(DealGame(r)) /\ Follows(r, DealGame(r)) /\ DealGame(r).maxPlayers = r.maxPlayers
<1> DEFINE s == DealGame(r)
<1>0. r \in Room /\ Settled(r)
  BY DEF Fit, Settled
<1>1. s \in Room
  BY <1>0, DealGameType
<1>2. r.players # {} => First(r.players) \in r.players
  BY <1>0, FirstMember DEF Room
<1>3. /\ SameMembers(r, s) /\ s.status = "playing"
      /\ s.pending = NoPlayer /\ s.votes = NoVotes
      /\ s.lastRound = NoPlayer /\ s.lastPass = NoPlayer
      /\ s.players # {} => s.turn \in s.players
      /\ \A p \in s.players : s.hand[p] = CardsPerPlayer
  BY <1>0, <1>2 DEF DealGame, SameMembers, Room
<1> HIDE DEF s
<1>4. FlagsFit(s) /\ OwnersFit(s) /\ BallotFits(s)
  BY <1>0, <1>1, <1>3, NoRoundNoBallot DEF Settled, FlagsFit, OwnersFit, SameMembers
<1>5. HandsFit(s)
  <2>1. CardsPerPlayer # 0
    BY OpsAssumption
  <2> QED
    BY <1>3, <2>1 DEF HandsFit
<1>6. Settled(s)
  BY <1>1, <1>4, <1>5 DEF Settled
<1>7. Fit(s) /\ Follows(r, s)
  BY <1>3, <1>6 DEF Fit, SameMembers, RolesFit, HostFits, Led, Follows
<1> QED
  BY <1>3, <1>7 DEF s, SameMembers

\* reset_game
LEMMA ResetGameFits ==
  ASSUME NEW r, Fit(r), r.status = "finished"
  PROVE  Fit(ResetGame(r)) /\ Follows(r, ResetGame(r)) /\ ResetGame(r).maxPlayers = r.maxPlayers
<1> DEFINE s == ResetGame(r)
<1>0. r \in Room /\ Settled(r)
  BY DEF Fit, Settled
<1>1. s \in Room
  BY <1>0, ResetGameType
<1>2. r.players # {} => First(r.players) \in r.players
  BY <1>0, FirstMember DEF Room
<1>3. /\ s.players = r.players /\ s.host = r.host /\ s.isHost = r.isHost
      /\ s.connected = r.connected /\ s.excluded = r.excluded /\ s.ready = {}
      /\ s.maxPlayers = r.maxPlayers /\ s.status = "waiting"
      /\ s.pending = NoPlayer /\ s.votes = NoVotes
      /\ s.lastRound = NoPlayer /\ s.lastPass = NoPlayer
      /\ s.players # {} => s.turn \in s.players
  BY <1>0, <1>2 DEF ResetGame, Room
<1> HIDE DEF s
<1>4. FlagsFit(s) /\ OwnersFit(s)
  BY <1>0, <1>3 DEF Settled, FlagsFit, OwnersFit
<1>5. Settled(s)
  BY <1>1, <1>3, <1>4, LobbySettles
<1>6. Fit(s) /\ Follows(r, s)
  BY <1>3, <1>5 DEF Fit, RolesFit, HostFits, Led, Follows
<1> QED
  BY <1>3, <1>6 DEF s

\* submit_answer, by the player in turn, when nothing is open
LEMMA SubmitAnswerFits ==
  ASSUME NEW r, Fit(r), NEW p \in r.players, r.status = "playing", r.turn = p,
         r.pending = NoPlayer, r.lastRound = NoPlayer, r.hand[p] > 0
  PROVE  LET s == SubmitAnswer(r, p) IN Settled(s) /\ SameMembers(r, s) /\ s.turn = r.turn
                                        /\ s.status = r.status
<1> DEFINE s == SubmitAnswer(r, p)
<1>0. r \in Room /\ Settled(r) /\ p \in Player /\ p # NoPlayer
  <2>1. r \in Room /\ Settled(r) /\ p \in Player
    BY DEF Fit, Settled, Room
  <2> QED
    BY <2>1 DEF Player, NoPlayer
<1>1. s \in Room
  BY <1>0, SubmitAnswerType
<1>2. /\ SameMembers(r, s) /\ s.turn = r.turn /\ s.status = r.status
      /\ s.pending = p /\ s.votes = NoVotes /\ s.lastRound = NoPlayer /\ s.lastPass = NoPlayer
      /\ \A q \in Player : q # p => s.hand[q] = r.hand[q]
  BY <1>0 DEF SubmitAnswer, SameMembers, Room
<1> HIDE DEF s
<1>3. FlagsFit(s) /\ OwnersFit(s)
  BY <1>0, <1>2 DEF Settled, FlagsFit, OwnersFit, SameMembers
<1>4. BallotFits(s)
  <2>1. EligibleVoters(s) \subseteq Player
    BY <1>1 DEF EligibleVoters, Room
  <2> QED
    BY <1>2, <2>1 DEF BallotFits, NoVotes
<1>5. HandsFit(s)
  <2>1. \A q \in r.players : q \in Player /\ r.hand[q] # 0
    BY <1>0 DEF Settled, HandsFit, Room, Player, NoPlayer
  <2>2. \A q \in r.players : q # p => s.hand[q] # 0
    BY <1>2, <2>1
  <2> QED
    BY <1>2, <2>2 DEF HandsFit, SameMembers
<1> QED
  BY <1>1, <1>2, <1>3, <1>4, <1>5 DEF Settled, s

\* pass_turn, by the player in turn, when nothing is open
LEMMA PassTurnFits ==
  ASSUME NEW r, Fit(r), NEW p \in r.players, r.status = "playing", r.turn = p,
         r.pending = NoPlayer, r.lastRound = NoPlayer
  PROVE  LET s == PassTurn(r, p) IN Settled(s) /\ SameMembers(r, s) /\ s.turn = r.turn
                                    /\ s.status = r.status
<1> DEFINE s == PassTurn(r, p)
<1>0. r \in Room /\ Settled(r) /\ p \in Player /\ p # NoPlayer
  <2>1. r \in Room /\ Settled(r) /\ p \in Player
    BY DEF Fit, Settled, Room
  <2> QED
    BY <2>1 DEF Player, NoPlayer
<1>1. s \in Room
  BY <1>0, PassTurnType
<1>2. /\ SameMembers(r, s) /\ s.turn = r.turn /\ s.status = r.status
      /\ s.pending = NoPlayer /\ s.votes = NoVotes
      /\ s.lastRound = NoPlayer /\ s.lastPass = p
      /\ s.hand = [r.hand EXCEPT ![p] = @ + 1]
  BY <1>0 DEF PassTurn, SameMembers, Room
<1> HIDE DEF s
<1>3. FlagsFit(s) /\ OwnersFit(s) /\ BallotFits(s)
  BY <1>0, <1>1, <1>2, NoRoundNoBallot DEF Settled, FlagsFit, OwnersFit, SameMembers
<1>4. HandsFit(s)
  <2>1. \A q \in r.players : q \in Player /\ r.hand[q] # 0
    BY <1>0 DEF Settled, HandsFit, Room, Player, NoPlayer
  <2>2. \A q \in r.players : s.hand[q] # 0
    BY <1>0, <1>2, <2>1 DEF Room
  <2> QED
    BY <1>2, <2>2 DEF HandsFit, SameMembers
<1> QED
  BY <1>1, <1>2, <1>3, <1>4 DEF Settled, s

\* cast_vote: the vote is entered, and the ballot counted
LEMMA CastVoteFits ==
  ASSUME NEW r, Fit(r), NEW p \in Player, NEW choice \in VoteChoice,
         r.pending # NoPlayer, r.status = "playing"
  PROVE  LET s == CastVote(r, p, choice)
         IN  /\ Settled(s) /\ SameMembers(r, s) /\ s.turn = r.turn
             /\ s.status \in {"playing", "finished"}
<1> DEFINE v == [r EXCEPT !.votes[p] = choice]
<1>0. r \in Room /\ Settled(r)
  BY DEF Fit, Settled
<1>1. v \in Room
  BY <1>0 DEF Room
<1>2. /\ SameMembers(r, v) /\ v.turn = r.turn /\ v.status = r.status /\ v.pending = r.pending
      /\ v.hand = r.hand /\ v.lastRound = r.lastRound /\ v.lastPass = r.lastPass
  BY <1>0 DEF SameMembers, Room
<1>3. CastVote(r, p, choice) = ReconcilePendingRound(v)
  BY DEF CastVote
<1> HIDE DEF v
<1>4. Unsettled(v)
  BY <1>0, <1>1, <1>2
  DEF Settled, Unsettled, NoStrayBallot, FlagsFit, OwnersFit, HandsFit, SameMembers
<1>5. /\ Settled(ReconcilePendingRound(v))
      /\ SameMembers(v, ReconcilePendingRound(v))
      /\ ReconcilePendingRound(v).turn = v.turn
      /\ ReconcilePendingRound(v).status \in {v.status, "finished"}
  BY <1>1, <1>4, ReconcilePendingSettles, ReconcilePendingFrame
<1> QED
  BY <1>2, <1>3, <1>5 DEF SameMembers

\* continue_round_result and continue_pass_result
LEMMA ContinueFits ==
  ASSUME NEW r, Fit(r), NEW p \in Player
  PROVE  /\ r.lastRound = p =>
              Fit(ContinueRoundResult(r)) /\ Follows(r, ContinueRoundResult(r))
         /\ r.lastPass = p /\ r.status = "playing" =>
              Fit(ContinuePassResult(r)) /\ Follows(r, ContinuePassResult(r))
<1> DEFINE seen  == [r EXCEPT !.lastRound = NoPlayer]
           acked == [r EXCEPT !.lastPass = NoPlayer]
<1>0. r \in Room /\ Settled(r) /\ Unsettled(r) /\ p # NoPlayer
  BY SettledIsUnsettled DEF Fit, Settled, Player, NoPlayer
<1>1. /\ seen \in Room /\ seen.players = r.players /\ seen.turn = r.turn
      /\ acked \in Room /\ acked.players = r.players /\ acked.turn = r.turn
  BY <1>0 DEF Room
<1>2. /\ ContinueRoundResult(r) \in {r, seen, AdvanceTurn(seen)}
      /\ ContinuePassResult(r) \in {r, AdvanceTurn(acked)}
  BY DEF ContinueRoundResult, ContinuePassResult
<1> HIDE DEF seen, acked
<1>3. r.host \in r.players =>
        /\ ContinueRoundResult(r).turn \in r.players
        /\ ContinuePassResult(r).turn \in r.players
  BY <1>0, <1>1, <1>2, AdvanceTurnShape DEF Fit, RolesFit
<1>4. r.lastRound = p => Settled(ContinueRoundResult(r))
  <2>1. r.lastRound = p => r.pending = NoPlayer /\ r.lastPass = NoPlayer
    BY <1>0 DEF Settled, OwnersFit, Room, RoomStatus
  <2> QED
    BY <1>0, <2>1, ContinueRoundSettles
<1>5. r.lastPass = p /\ r.status = "playing" => Settled(ContinuePassResult(r))
  <2>1. r.lastPass = p /\ r.status = "playing" => r.pending = NoPlayer /\ r.lastRound = NoPlayer
    BY <1>0 DEF Settled, OwnersFit
  <2> QED
    BY <1>0, <2>1, ContinuePassSettles
<1> QED
  BY <1>0, <1>3, <1>4, <1>5, ContinueFrame, SameMembersFit
\* mark_connected(..., True): the ballot may gain a voter, who has not voted,
\* and a host whose grace period ran out loses the role to the player.
LEMMA MarkPresentFits ==
  ASSUME NEW r, Fit(r), NEW p \in r.players
  PROVE  LET s == IF r.host \in r.players
                  THEN TakeOverHost(MarkPresent(r, p), p) ELSE MarkPresent(r, p)
         IN  /\ Fit(s) /\ Follows(r, s)
             /\ s.maxPlayers = r.maxPlayers /\ s.status = r.status /\ s.players = r.players
<1> DEFINE m == MarkPresent(r, p)
<1>0. r \in Room /\ Settled(r) /\ FlagsFit(r) /\ p \in Player
  BY DEF Fit, Settled, Room
<1>1. m \in Room
  BY <1>0, PresenceType
<1>2. /\ m.players = r.players /\ m.host = r.host /\ m.isHost = r.isHost /\ m.ready = r.ready
      /\ m.connected = r.connected \union {p} /\ m.excluded = r.excluded \ {p}
      /\ m.turn = r.turn /\ m.status = r.status /\ m.maxPlayers = r.maxPlayers
      /\ m.pending = r.pending /\ m.votes = r.votes /\ m.hand = r.hand
      /\ m.lastRound = r.lastRound /\ m.lastPass = r.lastPass
  BY <1>0 DEF MarkPresent, Room
<1> HIDE DEF m
<1>3. FlagsFit(m) /\ OwnersFit(m) /\ HandsFit(m)
  BY <1>0, <1>2 DEF Settled, FlagsFit, OwnersFit, HandsFit
<1>4. BallotFits(m)
  <2>1. EligibleVoters(m) \in {EligibleVoters(r), EligibleVoters(r) \union {p}}
    BY <1>0, <1>2 DEF EligibleVoters
  <2>2. p \notin EligibleVoters(r) => r.votes[p] = NoVote
    BY <1>0 DEF Settled, BallotFits
  <2> QED
    BY <1>0, <1>2, <2>1, <2>2 DEF Settled, BallotFits
<1>5. Settled(m)
  BY <1>1, <1>3, <1>4 DEF Settled
<1>6. CASE r.host \notin r.players
  <2>1. HostFits(m)
    BY <1>0, <1>2, <1>6 DEF HostFits, FlagsFit
  <2>2. RolesFit(m) /\ Led(m) /\ Follows(r, m)
    BY <1>2, <1>6 DEF Fit, RolesFit, Led, Follows
  <2> QED
    BY <1>2, <1>5, <1>6, <2>1, <2>2 DEF Fit, m
<1>7. CASE r.host \in r.players /\ m.host \in m.excluded /\ m.host \notin m.connected
  <2> DEFINE s == AssignHost(m, p)
  <2>1. r.host # p
    BY <1>2, <1>7
  <2>2. s = [m EXCEPT !.host = p, !.isHost = {p}]
    BY <1>2, <2>1 DEF AssignHost
  <2>3. s \in Room
    BY <1>0, <1>1, AssignHostType
  <2>4. /\ s.players = m.players /\ s.host = p /\ s.isHost = {p} /\ s.ready = m.ready
        /\ s.connected = m.connected /\ s.excluded = m.excluded
        /\ s.turn = m.turn /\ s.status = m.status /\ s.maxPlayers = m.maxPlayers
        /\ s.pending = m.pending /\ s.votes = m.votes /\ s.hand = m.hand
        /\ s.lastRound = m.lastRound /\ s.lastPass = m.lastPass
    BY <1>1, <2>2 DEF Room
  <2>5. TakeOverHost(m, p) = s
    BY <1>7 DEF TakeOverHost
  <2> HIDE DEF s
  <2>6. FlagsFit(s) /\ OwnersFit(s) /\ HandsFit(s)
    BY <1>2, <1>3, <2>4 DEF FlagsFit, OwnersFit, HandsFit
  <2>7. EligibleVoters(s) = EligibleVoters(m)
    BY <2>4 DEF EligibleVoters
  <2>8. BallotFits(s)
    BY <1>4, <2>4, <2>7 DEF BallotFits
  <2>9. RolesFit(s) /\ HostFits(s) /\ Led(s) /\ Follows(r, s)
    BY <1>2, <1>7, <2>4 DEF Fit, RolesFit, HostFits, Led, Follows
  <2> QED
    BY <1>2, <1>7, <2>3, <2>4, <2>5, <2>6, <2>8, <2>9 DEF Fit, Settled, m
<1>8. CASE r.host \in r.players /\ ~(m.host \in m.excluded /\ m.host \notin m.connected)
  <2>1. TakeOverHost(m, p) = m
    BY <1>8 DEF TakeOverHost
  <2>2. HostFits(m)
    BY <1>3, <1>8 DEF HostFits, FlagsFit
  <2>3. RolesFit(m) /\ Led(m) /\ Follows(r, m)
    BY <1>2, <1>8 DEF Fit, RolesFit, Led, Follows
  <2> QED
    BY <1>2, <1>5, <1>8, <2>1, <2>2, <2>3 DEF Fit, m
<1> QED
  BY <1>6, <1>7, <1>8

\* mark_connected(..., False)
LEMMA MarkAbsentFits ==
  ASSUME NEW r, Fit(r), NEW p \in r.players
  PROVE  LET s == MarkAbsent(r, p)
         IN  /\ Fit(s) /\ Follows(r, s)
             /\ s.maxPlayers = r.maxPlayers /\ s.status = r.status
<1> DEFINE m == MarkAbsent(r, p)
<1>0. r \in Room /\ Settled(r) /\ FlagsFit(r) /\ p \in Player
  BY DEF Fit, Settled, Room
<1>1. m \in Room
  BY <1>0, PresenceType
<1>2. /\ m.players = r.players /\ m.host = r.host /\ m.isHost = r.isHost /\ m.ready = r.ready
      /\ m.connected = r.connected \ {p} /\ m.excluded = r.excluded
      /\ m.turn = r.turn /\ m.status = r.status /\ m.maxPlayers = r.maxPlayers
      /\ m.pending = r.pending /\ m.votes = r.votes /\ m.hand = r.hand
      /\ m.lastRound = r.lastRound /\ m.lastPass = r.lastPass
  BY <1>0 DEF MarkAbsent, Room
<1> HIDE DEF m
<1>3. FlagsFit(m) /\ OwnersFit(m) /\ HandsFit(m)
  BY <1>0, <1>2 DEF Settled, FlagsFit, OwnersFit, HandsFit
<1>4. EligibleVoters(m) = EligibleVoters(r)
  BY <1>2 DEF EligibleVoters
<1>5. BallotFits(m)
  BY <1>0, <1>2, <1>4 DEF Settled, BallotFits
<1>6. RolesFit(m) /\ HostFits(m) /\ Led(m) /\ Follows(r, m)
  BY <1>2 DEF Fit, RolesFit, HostFits, Led, Follows
<1> QED
  BY <1>1, <1>2, <1>3, <1>5, <1>6 DEF Fit, Settled, m

\* join_room, after the eviction: a newcomer at the end of a lobby's list
LEMMA JoinFits ==
  ASSUME NEW r, Fit(r), r.status = "waiting", NEW q \in Player, q \notin r.players, q # r.host
  PROVE  Fit([r EXCEPT !.players = @ \union {q}])
<1> DEFINE s == [r EXCEPT !.players = @ \union {q}]
<1>0. r \in Room /\ FlagsFit(r) /\ OwnersFit(r)
  BY DEF Fit, Settled
<1>1. s \in Room
  BY <1>0 DEF Room
<1>2. /\ s.players = r.players \union {q} /\ s.host = r.host /\ s.isHost = r.isHost
      /\ s.connected = r.connected /\ s.ready = r.ready /\ s.excluded = r.excluded
      /\ s.turn = r.turn /\ s.status = "waiting"
      /\ s.pending = NoPlayer /\ s.votes = NoVotes
      /\ s.lastRound = NoPlayer /\ s.lastPass = NoPlayer
  BY <1>0, LobbyHasNoRound DEF Room
<1> HIDE DEF s
<1>3. FlagsFit(s) /\ OwnersFit(s)
  BY <1>0, <1>2 DEF FlagsFit, OwnersFit
<1>4. Settled(s)
  BY <1>1, <1>2, <1>3, LobbySettles
<1>5. RolesFit(s) /\ HostFits(s)
  BY <1>2 DEF Fit, RolesFit, HostFits
<1>6. Led(s)
  BY <1>0, <1>2 DEF Fit, Led, FlagsFit
<1> QED
  BY <1>4, <1>5, <1>6 DEF Fit, s

\* set_ready, update_lobby_settings and the status changes of start_game touch
\* nothing that Fit speaks of but the flag and the status.
LEMMA LobbyChangeFits ==
  ASSUME NEW r, Fit(r), r.status \in {"waiting", "starting"},
         NEW s \in Room, s.status \in {"waiting", "starting"},
         s.ready \subseteq s.players,
         s.players = r.players, s.host = r.host, s.isHost = r.isHost,
         s.connected = r.connected, s.excluded = r.excluded, s.turn = r.turn,
         s.pending = r.pending, s.votes = r.votes,
         s.lastRound = r.lastRound, s.lastPass = r.lastPass,
         r.host \in r.players \/ (s.status = "waiting" /\ s.ready \subseteq r.ready)
                              \/ r.players = {}
  PROVE  Fit(s) /\ Follows(r, s)
<1>1. /\ s.pending = NoPlayer /\ s.votes = NoVotes
      /\ s.lastRound = NoPlayer /\ s.lastPass = NoPlayer
  BY LobbyHasNoRound
<1>2. FlagsFit(s) /\ OwnersFit(s)
  BY <1>1 DEF Fit, Settled, FlagsFit, OwnersFit
<1>3. Settled(s)
  BY <1>1, <1>2, LobbySettles
<1>4. RolesFit(s) /\ HostFits(s) /\ Led(s) /\ Follows(r, s)
  BY DEF Fit, RolesFit, HostFits, Led, Follows
<1> QED
  BY <1>3, <1>4 DEF Fit
-----------------------------------------------------------------------------
(***************************************************************************)
(* The inductive invariant.  Beyond the parts that speak of the room, it   *)
(* says where ids come from, that a room without host has no command loop  *)
(* of a member, and that a start in progress keeps the room in STARTING.   *)
(***************************************************************************)

Numbered == /\ room.players \subseteq 1..joined
            /\ room.host \in 1..joined
            /\ loops \subseteq 1..joined

Unmanned == room.host \notin room.players => room.players \intersect loops = {}

StartingHeld == ~LockFree => room.status = "starting"

\* HostMovesOnlyFromAbsent, of one step
HostKept ==
  room'.host # room.host =>
    \/ room.host \notin room'.players
    \/ room.host \in room'.excluded /\ room.host \notin room'.connected

SafetyInv == TypeOK /\ Fit(room) /\ Numbered /\ Unmanned /\ StartingHeld /\ WithinCapacity

\* There are finitely many players.
LEMMA PlayersFinite ==
  ASSUME NEW S \in SUBSET Player
  PROVE  IsFiniteSet(S) /\ Cardinality(S) \in Nat
<1>1. IsFiniteSet(Player)
  BY FS_Interval, OpsAssumption DEF Player
<1> QED
  BY <1>1, FS_Subset, FS_CardinalityType

\* A capacity is a number, and leaves room for two.
LEMMA MaxPlayersType ==
  ASSUME NEW max \in MaxPlayersChoices
  PROVE  max \in Nat /\ 2 <= max
<1>1. max \in 2..8
  BY OpsAssumption
<1> QED
  BY <1>1

\* Fewer members are not more.
LEMMA FewerPlayers ==
  ASSUME NEW S \in SUBSET Player, NEW U \in SUBSET S
  PROVE  Cardinality(U) <= Cardinality(S)
  BY PlayersFinite, FS_Subset

\* A step after which the room is Fit and has no new members keeps the rest.
LEMMA FollowStep ==
  ASSUME SafetyInv, TypeOK', Fit(room'), Follows(room, room'),
         room'.maxPlayers = room.maxPlayers, joined' = joined, StartingHeld',
         \/ loops' \subseteq loops
         \/ room'.host \in room'.players /\ loops' \subseteq 1..joined
  PROVE  SafetyInv' /\ HostKept
<1>1. Numbered'
  BY DEF SafetyInv, Numbered, Follows
<1>2. Unmanned'
  BY DEF SafetyInv, Unmanned, Follows
<1>3. WithinCapacity'
  <2>1. Cardinality(room'.players) <= Cardinality(room.players)
    BY FewerPlayers DEF Follows, SafetyInv, TypeOK, Room
  <2>2. Cardinality(room.players) <= room.maxPlayers
    BY DEF SafetyInv, WithinCapacity
  <2>3. room.players \in SUBSET Player /\ room'.players \in SUBSET Player
    BY DEF SafetyInv, TypeOK, Room
  <2>4. Cardinality(room'.players) \in Nat /\ Cardinality(room.players) \in Nat
    BY <2>3, PlayersFinite
  <2>5. room.maxPlayers \in Nat
    BY MaxPlayersType DEF SafetyInv, TypeOK, Room
  <2>6. Cardinality(room'.players) <= room.maxPlayers
    BY <2>1, <2>2, <2>4, <2>5
  <2> QED
    BY <2>6 DEF WithinCapacity
<1>4. HostKept
  BY DEF Follows, HostKept
<1> QED
  BY <1>1, <1>2, <1>3, <1>4 DEF SafetyInv

\* A new room satisfies the invariant.
LEMMA SafetyInit == Init => SafetyInv
<1> SUFFICES ASSUME Init PROVE SafetyInv
  OBVIOUS
<1>1. TypeOK
  BY TypeInit
<1>2. Fit(room)
  BY NewRoomFits DEF Init
<1>3. room.players = {1} /\ room.host = 1 /\ room.maxPlayers \in MaxPlayersChoices
  BY DEF Init, NewRoom
<1>4. Numbered /\ Unmanned /\ StartingHeld
  BY <1>3 DEF Init, Numbered, Unmanned, StartingHeld, LockFree, Idle
<1>5. WithinCapacity
  <2>1. Cardinality(room.players) = 1
    BY <1>3, FS_Singleton
  <2> QED
    BY <1>3, <2>1, MaxPlayersType DEF WithinCapacity
<1> QED
  BY <1>1, <1>2, <1>4, <1>5 DEF SafetyInv

\* The steps that do not take the lock.
LEMMA SafetyRest == SafetyInv /\ TypeOK' /\ RestNext => SafetyInv' /\ HostKept
<1> SUFFICES ASSUME SafetyInv, TypeOK', RestNext PROVE SafetyInv' /\ HostKept
  OBVIOUS
<1>0. /\ Fit(room) /\ room \in Room /\ StartingHeld /\ Numbered /\ Unmanned
      /\ joined \in Nat
  BY OpsAssumption DEF SafetyInv, TypeOK
<1>1. CASE JoinRoom
  <2> DEFINE lobby == IF Cardinality(room.players) >= room.maxPlayers
                      THEN EvictOne(room) ELSE room
             q     == joined + 1
  <2>1. room.status = "waiting" /\ joined < MaxJoins /\ joined' = q
    BY <1>1 DEF JoinRoom
  <2>2. /\ Fit(lobby) /\ Follows(room, lobby) /\ lobby.status = "waiting"
        /\ lobby.maxPlayers = room.maxPlayers
    BY <1>0, <2>1, EvictOneFits DEF Follows
  <2>3. Cardinality(lobby.players) < lobby.maxPlayers
        /\ room' = [lobby EXCEPT !.players = @ \union {q}]
    BY <1>1 DEF JoinRoom
  <2> HIDE DEF lobby
  <2>4. lobby \in Room
    BY <2>2 DEF Fit, Settled
  <2>5. q \in Player /\ q \notin lobby.players /\ q # lobby.host /\ q \notin loops
    <3>1. q \in Player
      BY <1>0, <2>1, OpsAssumption DEF Player
    <3>2. q \notin 1..joined
      BY <1>0
    <3> QED
      BY <1>0, <2>2, <3>1, <3>2 DEF Numbered, Follows
  <2>6. Fit(room')
    BY <2>2, <2>3, <2>5, JoinFits
  <2>7. /\ room'.players = lobby.players \union {q} /\ room'.host = lobby.host
        /\ room'.maxPlayers = room.maxPlayers /\ room'.status = "waiting"
        /\ room'.excluded = lobby.excluded /\ room'.connected = lobby.connected
    BY <2>2, <2>3, <2>4 DEF Room
  <2>8. loops' = loops /\ start' = start
    BY <1>1 DEF JoinRoom
  <2>9. Numbered'
    <3>1. 1..joined \subseteq 1..q /\ q \in 1..q
      BY <1>0
    <3> QED
      BY <1>0, <2>1, <2>2, <2>7, <2>8, <3>1 DEF Numbered, Follows
  <2>10. Unmanned'
    BY <1>0, <2>2, <2>5, <2>7, <2>8 DEF Unmanned, Follows
  <2>11. StartingHeld'
    BY <1>0, <2>1, <2>8 DEF StartingHeld, LockFree
  <2>12. WithinCapacity'
    <3>1. lobby.players \in SUBSET Player /\ room.maxPlayers \in Nat
      BY <1>0, <2>4, MaxPlayersType DEF Room
    <3>2. IsFiniteSet(lobby.players) /\ Cardinality(lobby.players) \in Nat
      BY <3>1, PlayersFinite
    <3>3. Cardinality(room'.players) = Cardinality(lobby.players) + 1
      BY <2>5, <2>7, <3>2, FS_AddElement
    <3>4. Cardinality(room'.players) <= room.maxPlayers
      BY <2>2, <2>3, <3>1, <3>2, <3>3
    <3> QED
      BY <2>7, <3>4 DEF WithinCapacity
  <2>13. HostKept
    <3>1. q # room.host
      BY <1>0 DEF Numbered
    <3> QED
      BY <2>2, <2>7, <3>1 DEF HostKept, Follows
  <2> QED
    BY <2>6, <2>9, <2>10, <2>11, <2>12, <2>13 DEF SafetyInv
<1>2. ASSUME NEW p \in Player, LeaveByRest(p) PROVE SafetyInv' /\ HostKept
  <2>1. p \in room.players /\ room' = LeaveRoom(room, p)
    BY <1>2 DEF LeaveByRest, Depart
  <2>2. /\ Fit(room') /\ Follows(room, room') /\ room'.maxPlayers = room.maxPlayers
        /\ room.status # "playing" => room'.status = room.status
    BY <1>0, <2>1, LeaveRoomFits
  <2>3. joined' = joined /\ loops' = loops /\ start'.phase = start.phase
    <3>1. start \in StartState
      BY DEF SafetyInv, TypeOK
    <3> QED
      BY <1>2, <3>1 DEF LeaveByRest, StartState
  <2>4. StartingHeld'
    BY <1>0, <2>2, <2>3 DEF StartingHeld, LockFree
  <2> QED
    BY <2>2, <2>3, <2>4, FollowStep
<1>3. ASSUME NEW p \in Player, RestBroadcastLoses(p) PROVE SafetyInv' /\ HostKept
  <2>1. /\ p \in room.players /\ room' = MarkAbsent(room, p)
        /\ joined' = joined /\ loops' = loops /\ start' = start
    BY <1>3 DEF RestBroadcastLoses
  <2>2. /\ Fit(room') /\ Follows(room, room') /\ room'.maxPlayers = room.maxPlayers
        /\ room'.status = room.status
    BY <1>0, <2>1, MarkAbsentFits
  <2>3. StartingHeld'
    BY <1>0, <2>1, <2>2 DEF StartingHeld, LockFree
  <2> QED
    BY <2>1, <2>2, <2>3, FollowStep
<1>4. CASE RestBroadcastEnds \/ ExpireAbandonedRoom
  <2>1. room' = room /\ joined' = joined /\ loops' = loops /\ start' = start
    BY <1>4 DEF RestBroadcastEnds, ExpireAbandonedRoom
  <2>2. Follows(room, room') /\ StartingHeld'
    BY <1>0, <2>1 DEF Follows, StartingHeld, LockFree
  <2> QED
    BY <1>0, <2>1, <2>2, FollowStep
<1> QED
  BY <1>1, <1>2, <1>3, <1>4 DEF RestNext

\* Connections and grace timers.
LEMMA SafetyConnection == SafetyInv /\ TypeOK' /\ ConnectionNext => SafetyInv' /\ HostKept
<1> SUFFICES ASSUME SafetyInv, TypeOK', ConnectionNext PROVE SafetyInv' /\ HostKept
  OBVIOUS
<1>0. /\ Fit(room) /\ room \in Room /\ StartingHeld /\ Numbered /\ Unmanned
  BY DEF SafetyInv, TypeOK
<1>1. ASSUME NEW p \in Player, Connect(p) PROVE SafetyInv' /\ HostKept
  <2>1. /\ p \in room.players /\ joined' = joined /\ start' = start /\ LockFree
        /\ room' = IF room.host \in room.players
                   THEN TakeOverHost(MarkPresent(room, p), p) ELSE MarkPresent(room, p)
        /\ loops' = IF room.host \in room.players THEN loops \union {p} ELSE loops
    BY <1>1 DEF Connect
  <2>2. /\ Fit(room') /\ Follows(room, room') /\ room'.maxPlayers = room.maxPlayers
        /\ room'.players = room.players
    BY <1>0, <2>1, MarkPresentFits
  <2>3. StartingHeld'
    BY <2>1 DEF StartingHeld, LockFree
  <2>4. \/ loops' \subseteq loops
        \/ room'.host \in room'.players /\ loops' \subseteq 1..joined
    BY <1>0, <2>1, <2>2 DEF Follows, Numbered
  <2> QED
    BY <2>1, <2>2, <2>3, <2>4, FollowStep
<1>2. ASSUME NEW p \in Player, NEW open \in BOOLEAN, Disconnect(p, open) PROVE SafetyInv' /\ HostKept
  <2>1. /\ p \in room.players /\ room' = MarkAbsent(room, p)
        /\ joined' = joined /\ loops' \subseteq loops /\ start' = start
    BY <1>2 DEF Disconnect
  <2>2. /\ Fit(room') /\ Follows(room, room') /\ room'.maxPlayers = room.maxPlayers
        /\ room'.status = room.status
    BY <1>0, <2>1, MarkAbsentFits
  <2>3. StartingHeld'
    BY <1>0, <2>1, <2>2 DEF StartingHeld, LockFree
  <2> QED
    BY <2>1, <2>2, <2>3, FollowStep
<1>3. ASSUME NEW p \in Player, CloseForgottenSocket(p) PROVE SafetyInv' /\ HostKept
  <2>1. room' = room /\ joined' = joined /\ loops' \subseteq loops /\ start' = start
    BY <1>3 DEF CloseForgottenSocket
  <2>2. Follows(room, room') /\ StartingHeld'
    BY <1>0, <2>1 DEF Follows, StartingHeld, LockFree
  <2> QED
    BY <1>0, <2>1, <2>2, FollowStep
<1>4. ASSUME NEW p \in Player, GraceExpires(p) PROVE SafetyInv' /\ HostKept
  <2>1. /\ room' = IF p \in room.players /\ p \notin room.connected
                   THEN ExpirePlayer(room, p) ELSE room
        /\ joined' = joined /\ loops' = loops /\ start' = start /\ LockFree
    BY <1>4 DEF GraceExpires
  <2>2. Fit(room') /\ Follows(room, room') /\ room'.maxPlayers = room.maxPlayers
    BY <1>0, <2>1, ExpirePlayerFits DEF Follows
  <2>3. StartingHeld'
    BY <2>1 DEF StartingHeld, LockFree
  <2> QED
    BY <2>1, <2>2, <2>3, FollowStep
<1> QED
  BY <1>1, <1>2, <1>3, <1>4 DEF ConnectionNext
\* start_game.  Only a host who is a member can start, since a started lobby
\* has members who are ready.
LEMMA SafetyStart == SafetyInv /\ TypeOK' /\ StartNext => SafetyInv' /\ HostKept
<1> SUFFICES ASSUME SafetyInv, TypeOK', StartNext PROVE SafetyInv' /\ HostKept
  OBVIOUS
<1> DEFINE lobby == EvictAll(room)
<1>0. /\ Fit(room) /\ room \in Room /\ StartingHeld /\ Numbered /\ Unmanned
      /\ start.phase # "idle" => room.status = "starting"
  BY DEF SafetyInv, TypeOK, StartingHeld, LockFree
<1>1. /\ Fit(lobby) /\ Follows(room, lobby) /\ lobby.maxPlayers = room.maxPlayers
      /\ lobby.status = room.status /\ lobby \in Room
  BY <1>0, EvictAllFits DEF Fit, Settled
<1> HIDE DEF lobby
<1>2. ASSUME NEW p \in Player, StartRefused(p) PROVE SafetyInv' /\ HostKept
  <2>1. room' = lobby /\ joined' = joined /\ loops' = loops /\ start' = start /\ LockFree
    BY <1>2 DEF StartRefused, Apply, MayCommand, lobby
  <2>2. StartingHeld'
    BY <2>1 DEF StartingHeld, LockFree
  <2> QED
    BY <1>1, <2>1, <2>2, FollowStep
<1>3. ASSUME NEW p \in Player, StartGame(p) PROVE SafetyInv' /\ HostKept
  <2>1. /\ room' = [lobby EXCEPT !.status = "starting"] /\ joined' = joined
        /\ loops' = loops /\ room.status = "waiting" /\ Startable(lobby)
    BY <1>3 DEF StartGame, lobby
  <2>2. lobby.host \in lobby.players
    <3>1. lobby.players # {}
      <4>1. Cardinality({}) = 0
        BY FS_EmptySet
      <4> QED
        BY <2>1, <4>1 DEF Startable
    <3>2. lobby.players \intersect lobby.ready # {}
      BY <2>1, <3>1 DEF Startable
    <3> QED
      BY <1>1, <3>1, <3>2 DEF Fit, Led
  <2>3. /\ room'.status = "starting" /\ room'.ready = lobby.ready
        /\ room'.players = lobby.players /\ room'.host = lobby.host
        /\ room'.isHost = lobby.isHost /\ room'.connected = lobby.connected
        /\ room'.excluded = lobby.excluded /\ room'.turn = lobby.turn
        /\ room'.pending = lobby.pending /\ room'.votes = lobby.votes
        /\ room'.lastRound = lobby.lastRound /\ room'.lastPass = lobby.lastPass
        /\ room'.maxPlayers = lobby.maxPlayers /\ room' \in Room
    BY <1>1, <2>1 DEF Room, RoomStatus
  <2>4. lobby.ready \subseteq lobby.players
    BY <1>1 DEF Fit, Settled, FlagsFit
  <2>5. Fit(room') /\ Follows(lobby, room')
    BY <1>1, <2>1, <2>2, <2>3, <2>4, LobbyChangeFits
  <2>6. Follows(room, room') /\ StartingHeld'
    BY <1>1, <2>3 DEF Follows, StartingHeld
  <2> QED
    BY <1>1, <2>1, <2>3, <2>5, <2>6, FollowStep
<1>4. CASE StartLoadsCards \/ StartBroadcastRaises
  <2>1. room' = room /\ joined' = joined /\ loops' = loops /\ start.phase = "announcing"
    BY <1>4 DEF StartLoadsCards, StartBroadcastRaises
  <2>2. Follows(room, room') /\ StartingHeld'
    BY <1>0, <2>1 DEF Follows, StartingHeld
  <2> QED
    BY <1>0, <2>1, <2>2, FollowStep
<1>5. CASE StartDeals
  <2>1. /\ room' = DealGame(room) /\ room.status = "starting" /\ start' = Idle
        /\ joined' = joined /\ loops' = loops
    BY <1>0, <1>5 DEF StartDeals
  <2>2. Fit(room') /\ Follows(room, room') /\ room'.maxPlayers = room.maxPlayers
    BY <1>0, <2>1, DealGameFits
  <2>3. StartingHeld'
    BY <2>1 DEF StartingHeld, LockFree, Idle
  <2> QED
    BY <2>1, <2>2, <2>3, FollowStep
<1>6. CASE StartFails
  <2>1. /\ room' = [room EXCEPT !.status = "waiting"] /\ room.status = "starting"
        /\ start' = Idle /\ joined' = joined /\ loops' = loops
    BY <1>0, <1>6 DEF StartFails
  <2>2. room.host \in room.players \/ room.players = {}
    BY <1>0, <2>1 DEF Fit, Led
  <2>3. /\ room'.status = "waiting" /\ room'.ready = room.ready
        /\ room'.players = room.players /\ room'.host = room.host
        /\ room'.isHost = room.isHost /\ room'.connected = room.connected
        /\ room'.excluded = room.excluded /\ room'.turn = room.turn
        /\ room'.pending = room.pending /\ room'.votes = room.votes
        /\ room'.lastRound = room.lastRound /\ room'.lastPass = room.lastPass
        /\ room'.maxPlayers = room.maxPlayers /\ room' \in Room
    BY <1>0, <2>1 DEF Room, RoomStatus
  <2>4. room.ready \subseteq room.players
    BY <1>0 DEF Fit, Settled, FlagsFit
  <2>5. Fit(room') /\ Follows(room, room')
    BY <1>0, <2>1, <2>2, <2>3, <2>4, LobbyChangeFits
  <2>6. StartingHeld'
    BY <2>1 DEF StartingHeld, LockFree, Idle
  <2> QED
    BY <2>1, <2>3, <2>5, <2>6, FollowStep
<1> QED
  BY <1>2, <1>3, <1>4, <1>5, <1>6 DEF StartNext

\* A command that only changes the room, and not its list of members.
LEMMA ApplyStep ==
  ASSUME SafetyInv, TypeOK', NEW newRoom, Apply(newRoom), LockFree,
         Fit(newRoom), Follows(room, newRoom), newRoom.maxPlayers = room.maxPlayers
  PROVE  SafetyInv' /\ HostKept
<1>1. room' = newRoom /\ joined' = joined /\ loops' = loops /\ start' = start
  BY DEF Apply
<1>2. StartingHeld'
  BY <1>1 DEF StartingHeld, LockFree
<1> QED
  BY <1>1, <1>2, FollowStep

\* The other commands.
LEMMA SafetyCommand == SafetyInv /\ TypeOK' /\ CommandNext => SafetyInv' /\ HostKept
<1> SUFFICES ASSUME SafetyInv, TypeOK', NEW p \in Player,
                    \/ \E ready \in BOOLEAN : SetReady(p, ready)
                    \/ \E max \in MaxPlayersChoices, wrong \in WrongAnswerChoices :
                         UpdateLobbySettings(p, max, wrong)
                    \/ ReplayGame(p)
                    \/ Submit(p)
                    \/ Pass(p)
                    \/ ContinuePass(p)
                    \/ \E choice \in VoteChoice : Vote(p, choice)
                    \/ ContinueRound(p)
                    \/ LeaveByCommand(p)
             PROVE  SafetyInv' /\ HostKept
  BY DEF CommandNext
<1>0. /\ Fit(room) /\ room \in Room /\ Settled(room) /\ StartingHeld /\ Numbered /\ Unmanned
      /\ room.ready \subseteq room.players
  BY DEF SafetyInv, TypeOK, Fit, Settled, FlagsFit
<1>1. ASSUME NEW ready \in BOOLEAN, SetReady(p, ready) PROVE SafetyInv' /\ HostKept
  <2> DEFINE s == [room EXCEPT !.ready = IF ready THEN @ \union {p} ELSE @ \ {p}]
  <2>1. Apply(s) /\ LockFree /\ room.status = "waiting" /\ p \in room.players /\ p \in loops
    BY <1>1 DEF SetReady, MayCommand
  <2>2. room.host \in room.players
    BY <1>0, <2>1 DEF Unmanned
  <2>3. s \in Room
    BY <1>0 DEF Room
  <2>4. /\ s.status = "waiting" /\ s.ready \subseteq s.players
        /\ s.players = room.players /\ s.host = room.host /\ s.isHost = room.isHost
        /\ s.connected = room.connected /\ s.excluded = room.excluded /\ s.turn = room.turn
        /\ s.pending = room.pending /\ s.votes = room.votes
        /\ s.lastRound = room.lastRound /\ s.lastPass = room.lastPass
        /\ s.maxPlayers = room.maxPlayers
    BY <1>0, <2>1 DEF Room
  <2> HIDE DEF s
  <2>5. Fit(s) /\ Follows(room, s)
    BY <1>0, <2>1, <2>2, <2>3, <2>4, LobbyChangeFits
  <2> QED
    BY <2>1, <2>4, <2>5, ApplyStep
<1>2. ASSUME NEW max \in MaxPlayersChoices, NEW wrong \in WrongAnswerChoices,
             UpdateLobbySettings(p, max, wrong)
      PROVE  SafetyInv' /\ HostKept
  <2> DEFINE s == [room EXCEPT !.maxPlayers = max, !.wrongAnswer = wrong]
  <2>1. room' = s /\ joined' = joined /\ loops' = loops /\ start' = start
        /\ LockFree /\ room.status = "waiting" /\ max >= Cardinality(room.players)
    BY <1>2 DEF UpdateLobbySettings, MayCommand, Apply
  <2>2. s \in Room
    BY <1>0 DEF Room
  <2>3. /\ s.status = "waiting" /\ s.ready = room.ready
        /\ s.players = room.players /\ s.host = room.host /\ s.isHost = room.isHost
        /\ s.connected = room.connected /\ s.excluded = room.excluded /\ s.turn = room.turn
        /\ s.pending = room.pending /\ s.votes = room.votes
        /\ s.lastRound = room.lastRound /\ s.lastPass = room.lastPass
        /\ s.maxPlayers = max
    BY <1>0, <2>1 DEF Room
  <2> HIDE DEF s
  <2>4. Fit(s) /\ Follows(room, s)
    BY <1>0, <2>1, <2>2, <2>3, LobbyChangeFits
  <2>5. Numbered' /\ Unmanned' /\ StartingHeld'
    BY <1>0, <2>1, <2>3 DEF Numbered, Unmanned, StartingHeld, LockFree
  <2>6. WithinCapacity'
    <3>1. Cardinality(room.players) \in Nat /\ max \in Nat
      BY <1>0, PlayersFinite, MaxPlayersType DEF Room
    <3>2. Cardinality(room.players) <= max
      BY <2>1, <3>1
    <3> QED
      BY <2>1, <2>3, <3>2 DEF WithinCapacity
  <2>7. HostKept
    BY <2>1, <2>3 DEF HostKept
  <2> QED
    BY <2>1, <2>4, <2>5, <2>6, <2>7 DEF SafetyInv
<1>3. CASE ReplayGame(p)
  <2>1. Apply(ResetGame(room)) /\ LockFree /\ room.status = "finished"
    BY <1>3 DEF ReplayGame, MayCommand
  <2> QED
    BY <1>0, <2>1, ResetGameFits, ApplyStep
<1>4. CASE Submit(p)
  <2> DEFINE s == SubmitAnswer(room, p)
  <2>1. /\ Apply(s) /\ LockFree /\ p \in room.players /\ room.status = "playing"
        /\ room.turn = p /\ room.pending = NoPlayer /\ room.lastRound = NoPlayer
        /\ room.hand[p] > 0
    BY <1>4, GameAssumption DEF Submit, HasMove, MayCommand
  <2>2. Settled(s) /\ SameMembers(room, s) /\ s.turn = room.turn /\ s.status = room.status
    BY <1>0, <2>1, SubmitAnswerFits
  <2> HIDE DEF s
  <2>3. Fit(s) /\ Follows(room, s)
    BY <1>0, <2>1, <2>2, SameMembersFit
  <2> QED
    BY <2>1, <2>2, <2>3, ApplyStep DEF SameMembers
<1>5. CASE Pass(p)
  <2> DEFINE s == PassTurn(room, p)
  <2>1. /\ Apply(s) /\ LockFree /\ p \in room.players /\ room.status = "playing"
        /\ room.turn = p /\ room.pending = NoPlayer /\ room.lastRound = NoPlayer
    BY <1>5 DEF Pass, HasMove, MayCommand
  <2>2. Settled(s) /\ SameMembers(room, s) /\ s.turn = room.turn /\ s.status = room.status
    BY <1>0, <2>1, PassTurnFits
  <2> HIDE DEF s
  <2>3. Fit(s) /\ Follows(room, s)
    BY <1>0, <2>1, <2>2, SameMembersFit
  <2> QED
    BY <2>1, <2>2, <2>3, ApplyStep DEF SameMembers
<1>6. CASE ContinuePass(p)
  <2>1. /\ Apply(ContinuePassResult(room)) /\ LockFree
        /\ room.status = "playing" /\ room.lastPass = p
    BY <1>6 DEF ContinuePass, MayCommand
  <2>2. SameMembers(room, ContinuePassResult(room))
    BY <1>0, ContinueFrame
  <2> QED
    BY <1>0, <2>1, <2>2, ContinueFits, ApplyStep DEF SameMembers
<1>7. ASSUME NEW choice \in VoteChoice, Vote(p, choice) PROVE SafetyInv' /\ HostKept
  <2> DEFINE s == CastVote(room, p, choice)
  <2>1. /\ Apply(s) /\ LockFree /\ room.status = "playing" /\ room.pending # NoPlayer
        /\ p \in EligibleVoters(room)
    BY <1>7 DEF Vote, MayCommand
  <2>2. /\ Settled(s) /\ SameMembers(room, s) /\ s.turn = room.turn
        /\ s.status \in {"playing", "finished"}
    BY <1>0, <2>1, CastVoteFits
  <2> HIDE DEF s
  <2>3. room.host \in room.players => s.turn \in room.players
    BY <1>0, <2>2 DEF Fit, RolesFit
  <2>4. Fit(s) /\ Follows(room, s)
    BY <1>0, <2>1, <2>2, <2>3, SameMembersFit
  <2> QED
    BY <2>1, <2>2, <2>4, ApplyStep DEF SameMembers
<1>8. CASE ContinueRound(p)
  <2>1. Apply(ContinueRoundResult(room)) /\ LockFree /\ room.lastRound = p
    BY <1>8 DEF ContinueRound, MayCommand
  <2>2. SameMembers(room, ContinueRoundResult(room))
    BY <1>0, ContinueFrame
  <2> QED
    BY <1>0, <2>1, <2>2, ContinueFits, ApplyStep DEF SameMembers
<1>9. CASE LeaveByCommand(p)
  <2>1. /\ p \in room.players /\ room' = LeaveRoom(room, p) /\ LockFree
        /\ joined' = joined /\ loops' \subseteq loops /\ start' = start
    BY <1>9 DEF LeaveByCommand, Depart, MayCommand
  <2>2. Fit(room') /\ Follows(room, room') /\ room'.maxPlayers = room.maxPlayers
    BY <1>0, <2>1, LeaveRoomFits
  <2>3. StartingHeld'
    BY <2>1 DEF StartingHeld, LockFree
  <2> QED
    BY <2>1, <2>2, <2>3, FollowStep
<1> QED
  BY <1>1, <1>2, <1>3, <1>4, <1>5, <1>6, <1>7, <1>8, <1>9

\* Every step keeps the invariant, and the host.
LEMMA SafetyNext == SafetyInv /\ [Next]_vars => SafetyInv' /\ HostKept
<1> SUFFICES ASSUME SafetyInv, [Next]_vars PROVE SafetyInv' /\ HostKept
  OBVIOUS
<1>1. TypeOK'
  BY TypeNext DEF SafetyInv
<1>2. CASE Next
  BY <1>1, <1>2, SafetyRest, SafetyConnection, SafetyStart, SafetyCommand DEF Next
<1>3. CASE UNCHANGED vars
  <2>1. room' = room /\ joined' = joined /\ loops' = loops /\ start' = start
    BY <1>3 DEF vars
  <2>2. Follows(room, room') /\ StartingHeld'
    BY <2>1 DEF SafetyInv, Follows, StartingHeld, LockFree
  <2> QED
    BY <1>1, <2>1, <2>2, FollowStep DEF SafetyInv
<1> QED
  BY <1>2, <1>3
\* The conjuncts of the invariant are what the properties say.
LEMMA SafetyGives ==
  SafetyInv =>
    /\ MembersHoldRoles /\ HostNotAbandoned /\ RoundOwnerHoldsTurn
    /\ NoDecidedBallotOpen /\ EmptyHandIsOnTheTable /\ WithinCapacity
<1> SUFFICES ASSUME SafetyInv
             PROVE  /\ MembersHoldRoles /\ HostNotAbandoned /\ RoundOwnerHoldsTurn
                    /\ NoDecidedBallotOpen /\ EmptyHandIsOnTheTable /\ WithinCapacity
  OBVIOUS
<1>0. Fit(room) /\ Settled(room) /\ room \in Room /\ Unmanned /\ WithinCapacity
  BY DEF SafetyInv, Fit, Settled
<1>1. MembersHoldRoles
  BY <1>0 DEF Fit, RolesFit, Led, Unmanned, MembersHoldRoles, Orphaned
<1>2. HostNotAbandoned
  BY <1>0 DEF Fit, HostFits, HostNotAbandoned
<1>3. RoundOwnerHoldsTurn
  BY <1>0 DEF Settled, OwnersFit, RoundOwnerHoldsTurn
<1>4. NoDecidedBallotOpen
  BY <1>0 DEF Settled, BallotFits, NoDecidedBallotOpen
<1>5. EmptyHandIsOnTheTable
  BY <1>0 DEF Settled, HandsFit, EmptyHandIsOnTheTable
<1> QED
  BY <1>0, <1>1, <1>2, <1>3, <1>4, <1>5

\* The invariant holds in every reachable state.
LEMMA SafetyHolds == Spec => []SafetyInv
  BY SafetyInit, SafetyNext, PTL DEF Spec

\* For every number of joins, whatever leaves, evictions and expiries came
\* before: the host and the player in turn are members and exactly the host
\* is marked as host, or the lobby is orphaned.
THEOREM RolesStayWithMembers == Spec => []MembersHoldRoles
  BY SafetyHolds, SafetyGives, PTL

\* The host role is taken only from a host who left or whose grace period ran
\* out, in every step of every room.
THEOREM HostKeepsTheRole == Spec => HostMovesOnlyFromAbsent
<1>1. SafetyInv /\ [Next]_vars =>
        [room'.host # room.host =>
           \/ room.host \notin room'.players
           \/ room.host \in room'.excluded /\ room.host \notin room'.connected]_vars
  BY SafetyNext DEF HostKept
<1> QED
  BY <1>1, SafetyHolds, PTL DEF Spec, HostMovesOnlyFromAbsent

\* While somebody is connected, no excluded player is host.
THEOREM HostIsNeverAbandoned == Spec => []HostNotAbandoned
  BY SafetyHolds, SafetyGives, PTL

\* A pending round, a result and a pass exclude each other and belong to the
\* player in turn, in every game of any number of players.
THEOREM RoundBelongsToTurn == Spec => []RoundOwnerHoldsTurn
  BY SafetyHolds, SafetyGives, PTL

\* No ballot is left open that every eligible voter has voted on, and none
\* holds a vote of somebody else.
THEOREM BallotsAreCounted == Spec => []NoDecidedBallotOpen
  BY SafetyHolds, SafetyGives, PTL

\* A running game has no player without cards but the one being voted on, for
\* any number of cards dealt, any hand and either rule for rejected cards.
THEOREM EmptyHandsEndTheGame == Spec => []EmptyHandIsOnTheTable
  BY SafetyHolds, SafetyGives, PTL

\* No sequence of joins, evictions and changes of the limit overfills a lobby.
THEOREM CapacityIsKept == Spec => []WithinCapacity
  BY SafetyHolds, SafetyGives, PTL
=============================================================================
