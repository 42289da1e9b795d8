-------------------------------- MODULE Cards --------------------------------
(***************************************************************************)
(* Which card is where, and which answers are remembered for a pair of     *)
(* cards.                                                                  *)
(*                                                                         *)
(* A card is its id: the parts of the id of a source card, joined by "_"   *)
(* in the code; one part more if it is a copy that fills up the deck; and  *)
(* a number if it was drawn, where the code appends "_draw_" and two       *)
(* numbers, a random one among them, which are taken to be fresh.          *)
(*                                                                         *)
(* Who may play, and how a vote ends, is in RoomGame; here any player may  *)
(* play when no round is open, and the vote may go either way.             *)
(***************************************************************************)
EXTENDS Integers, Sequences, FiniteSets

CONSTANTS
  Player,
  Source,        \* the source cards: a sequence of sequences of parts
  Number,        \* the parts of ids that consist of digits, in order
  HandSize,      \* cards_per_player
  Behaviors,     \* wrong_answer_behavior: those that are tried
  Answer,        \* texts of answers
  MaxDrawn       \* drawn cards in a behaviour (a bound)

Digits == {Number[i] : i \in DOMAIN Number}
Sources == {Source[i] : i \in DOMAIN Source}
NoAnswer == "none"

Parts == (UNION {{s[i] : i \in DOMAIN s} : s \in Sources}) \union Digits

\* _ensure_deck_size is asked for that many cards.
Required == Cardinality(Player) * (HandSize + 3) + 2

ASSUME CardsAssumption ==
  /\ Source \in Seq(Sources) /\ Sources \subseteq Seq(Parts)
  /\ Len(Source) >= 2 /\ \A i, j \in DOMAIN Source : Source[i] = Source[j] => i = j
  /\ Number \in Seq(Digits) /\ \A i, j \in DOMAIN Number : Number[i] = Number[j] => i = j
  /\ \A i \in 0 .. Required - 1 : i \div Len(Source) < Len(Number)   \* one for each copy
  /\ IsFiniteSet(Player)
  /\ HandSize \in Nat \ {0}
  /\ Behaviors \subseteq {"discardCard", "returnToHand"}
  /\ NoAnswer \notin Answer

VARIABLES
  behavior,  \* wrong_answer_behavior of the game
  running,   \* has the game begun, and not ended?
  hands,     \* the cards of the players who are in the room
  table,     \* game.table_cards
  discard,   \* game.discard_pile
  round,     \* game.pending_round
  accepted,  \* game.accepted_answers
  drawn,     \* cards drawn so far
  truth      \* the answer accepted last for two source cards

vars == <<behavior, running, hands, table, discard, round, accepted, drawn, truth>>

Here == DOMAIN hands
OnTable == {table[i] : i \in DOMAIN table}
NoRound == [player |-> "nobody"]

-----------------------------------------------------------------------------
(***************************************************************************)
(* Ids.                                                                    *)
(***************************************************************************)

Card(parts) == [parts |-> parts, draw |-> 0]

\* The source card that c is, or is a copy of.
SourceOf(c) == CHOOSE s \in Sources : c.parts = s \/ \E d \in Digits : c.parts = Append(s, d)

\* _canonical_card_id: what "_draw_" appended is cut off, and one number.
Canonical(c) ==
  LET n == Len(c.parts) IN
  IF n > 1 /\ c.parts[n] \in Digits THEN SubSeq(c.parts, 1, n - 1) ELSE c.parts

\* mutant of PairKey: the ids are compared as they are
PairKeyOfIds(c, d) == {c.parts, d.parts}

PairKey(c, d) == {Canonical(c), Canonical(d)}

Copy(s, k) == Card(Append(s, Number[1 + k]))

\* _ensure_deck_size: with too few cards, every card of the deck is a copy.
Deck ==
  IF Len(Source) >= Required THEN {Card(s) : s \in Sources}
  ELSE {Copy(Source[(i % Len(Source)) + 1], i \div Len(Source)) : i \in 0 .. Required - 1}

\* mutant of Drawn: the card of the pool itself is drawn
DrawnItself(s, n) == Card(s)

\* _copy_drawn_card; the pool holds the source cards.
Drawn(s, n) == [parts |-> s, draw |-> n]

\* All ways to draw n cards from the pool.
Draws(n) == {{Drawn(f[i], drawn + i) : i \in 1..n} : f \in [1..n -> Sources]}

-----------------------------------------------------------------------------
\* start_game: any cards of the shuffled deck.
Init ==
  /\ behavior \in Behaviors
  /\ running = TRUE
  /\ hands \in [Player -> {h \in SUBSET Deck : Cardinality(h) = HandSize}]
  /\ \A p, q \in Player : p # q => hands[p] \cap hands[q] = {}
  /\ LET left == Deck \ UNION {hands[p] : p \in Player} IN
       \E c, d \in left : c # d /\ table = <<c, d>>
  /\ discard = {}
  /\ round = NoRound
  /\ accepted = {}
  /\ drawn = 0
  /\ truth = {}

\* The answer that a set of pairs holds for a key.
Lookup(pairs, key) ==
  IF \E a \in Answer : <<key, a>> \in pairs
    THEN CHOOSE a \in Answer : <<key, a>> \in pairs
    ELSE NoAnswer

Store(pairs, key, a) == {pr \in pairs : pr[1] # key} \union {<<key, a>>}

\* mutant of Submit: the card stays in the hand
SubmitKeepingCard(p, c, t, a) ==
  /\ running /\ round = NoRound
  /\ c \in hands[p] /\ t \in OnTable
  /\ round' = [player |-> p, played |-> c, related |-> t, answer |-> a,
               previous |-> Lookup(accepted, PairKey(c, t))]
  /\ UNCHANGED <<behavior, running, hands, table, discard, accepted, drawn, truth>>

Submit(p, c, t, a) ==
  /\ running /\ round = NoRound
  /\ c \in hands[p] /\ t \in OnTable
  /\ hands' = [hands EXCEPT ![p] = @ \ {c}]
  /\ round' = [player |-> p, played |-> c, related |-> t, answer |-> a,
               previous |-> Lookup(accepted, PairKey(c, t))]
  /\ UNCHANGED <<behavior, running, table, discard, accepted, drawn, truth>>

\* The cards of q but c.
Without(q, c) ==
  LET rest[i \in 0 .. Len(q)] == IF i = 0 THEN <<>>
                                ELSE IF q[i] = c THEN rest[i - 1]
                                ELSE Append(rest[i - 1], q[i])
  IN  rest[Len(q)]

\* mutant of Replace: the card is put down beside the one it was played on
ReplaceNothing(played, related) ==
  /\ table' = Append(table, played)
  /\ discard' = discard \union {related}

\* mutant of Replace: the card played is not put down
ReplaceByNothing(played, related) ==
  /\ table' = Without(table, related)
  /\ discard' = discard \union {related}

\* The card played takes the place of the one it was played on: whatever has
\* its id goes from the table.
Replace(played, related) ==
  /\ table' = Append(Without(table, related), played)
  /\ discard' = discard \union {related}

Ends(h) == \E p \in DOMAIN h : h[p] = {}

Accept ==
  /\ running /\ round # NoRound
  /\ Replace(round.played, round.related)
  /\ accepted' = Store(accepted, PairKey(round.played, round.related), round.answer)
  /\ truth' = Store(truth, {SourceOf(round.played), SourceOf(round.related)}, round.answer)
  /\ round' = NoRound
  /\ running' = ~ Ends(hands)
  /\ UNCHANGED <<behavior, hands, drawn>>

Reject ==
  /\ running /\ round # NoRound
  /\ drawn + 2 <= MaxDrawn
  /\ Replace(round.played, round.related)
  /\ \E new \in Draws(2) :
       hands' = [hands EXCEPT ![round.player] =
                   @ \union new \union (IF behavior = "returnToHand" THEN {round.played} ELSE {})]
  /\ drawn' = drawn + 2
  /\ round' = NoRound
  /\ running' = ~ Ends(hands')
  /\ UNCHANGED <<behavior, accepted, truth>>

Pass(p) ==
  /\ running /\ round = NoRound
  /\ drawn + 1 <= MaxDrawn
  /\ \E new \in Draws(1) : hands' = [hands EXCEPT ![p] = @ \union new]
  /\ drawn' = drawn + 1
  /\ UNCHANGED <<behavior, running, table, discard, round, accepted, truth>>

\* Cards of a player who leaves are gone, the one being voted on included.  A
\* game of one is over.
Leave(p) ==
  /\ running
  /\ hands' = [q \in Here \ {p} |-> hands[q]]
  /\ round' = IF round.player = p THEN NoRound ELSE round
  /\ running' = (Cardinality(Here) > 2)
  /\ UNCHANGED <<behavior, table, discard, accepted, drawn, truth>>

Next ==
  \/ Accept \/ Reject
  \/ \E p \in Here :
       \/ Pass(p) \/ Leave(p)
       \/ \E c \in hands[p], t \in OnTable, a \in Answer : Submit(p, c, t, a)

Spec == Init /\ [][Next]_vars

-----------------------------------------------------------------------------
(***************************************************************************)
(* Properties.                                                             *)
(***************************************************************************)

\* No card is in two hands: copies and drawn cards never repeat an id, so that
\* a player who plays a card, which goes by its id, plays no other
\* (_ensure_deck_size, _draw_unlimited_cards, submit_answer).
HandsAreDisjoint == \A p, q \in Here : p # q => hands[p] \cap hands[q] = {}

InPlay == UNION {hands[p] : p \in Here}
Played == IF round = NoRound THEN {} ELSE {round.played}

\* While rejected cards are discarded, a card is in one place: in a hand, being
\* voted on, on the table or discarded.
NoCardTwice == behavior = "discardCard" =>
  /\ Played \cap InPlay = {}
  /\ (InPlay \union Played) \cap (OnTable \union discard) = {}
  /\ OnTable \cap discard = {}

\* Whatever is played, somebody can always play on: the table is never empty,
\* and while rejected cards are discarded two different cards lie on it.  (Those
\* that return to the hand lie on the table as well, and may be put there
\* twice; the next card on one of them takes both away, and a single card is
\* left; reconcile_pending_round.)
TableStaysPlayable ==
  /\ Len(table) \in 1..2
  /\ behavior = "discardCard" => Len(table) = 2 /\ table[1] # table[2]

\* The answer that a round shows as accepted before is the one accepted last for
\* the same two cards, in whichever copies they were played, and there is none
\* if they were never paired (_pair_key, accepted_answers).
AnswerIsRecalled ==
  round # NoRound =>
    round.previous = Lookup(truth, {SourceOf(round.played), SourceOf(round.related)})
=============================================================================
