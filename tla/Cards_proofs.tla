---------------------------- MODULE Cards_proofs ----------------------------
(***************************************************************************)
(* Where cards are, and which answers are remembered, for any number of    *)
(* players, source cards, cards per player and cards drawn.                *)
(***************************************************************************)
EXTENDS Cards, FiniteSetTheorems, SequenceTheorems, TLAPS

-----------------------------------------------------------------------------
(***************************************************************************)
(* Ids.                                                                    *)
(***************************************************************************)

\* The ids of the cards that can be met: of the deck, and drawn from the pool.
Ids == {c.parts : c \in Deck} \union Sources
AnyCard == [parts : Ids, draw : Nat]

LEMMA DeckCards ==
  ASSUME NEW c \in Deck
  PROVE  c \in AnyCard /\ c.draw = 0
<1>1. \A x : Card(x).draw = 0 /\ Card(x).parts = x /\ Card(x) = [parts |-> x, draw |-> 0]
  BY DEF Card
<1>2. \E x : c = Card(x)
  BY DEF Deck, Copy
<1>3. PICK x : c = Card(x)
  BY <1>2
<1>4. x \in Ids
  BY <1>1, <1>3 DEF Ids
<1> QED
  BY <1>1, <1>3, <1>4 DEF AnyCard

\* Drawn cards are new: their numbers were not used before.
LEMMA DrawnCards ==
  ASSUME drawn \in Nat, NEW n \in Nat, NEW new \in Draws(n), NEW c \in new
  PROVE  c \in AnyCard /\ c.draw > drawn /\ c.draw <= drawn + n
<1>1. PICK f \in [1 .. n -> Sources] : new = {Drawn(f[i], drawn + i) : i \in 1 .. n}
  BY DEF Draws
<1>2. PICK i \in 1 .. n : c = Drawn(f[i], drawn + i)
  BY <1>1
<1>3. f[i] \in Ids
  BY DEF Ids
<1> QED
  BY <1>2, <1>3 DEF Drawn, AnyCard

-----------------------------------------------------------------------------
(***************************************************************************)
(* The table.                                                              *)
(***************************************************************************)

\* The cards of a table of one or two, but c, in their order.
LEMMA WithoutCard ==
  ASSUME NEW q \in Seq(AnyCard), Len(q) \in 1 .. 2, NEW c
  PROVE  Without(q, c) =
           LET first == IF q[1] = c THEN <<>> ELSE <<q[1]>>
           IN  IF Len(q) = 1 \/ q[2] = c THEN first ELSE Append(first, q[2])
<1> DEFINE Step(g, i) == IF i = 0 THEN <<>> ELSE IF q[i] = c THEN g[i - 1]
                                            ELSE Append(g[i - 1], q[i])
           first  == IF q[1] = c THEN <<>> ELSE <<q[1]>>
           second == IF q[2] = c THEN first ELSE Append(first, q[2])
           g == [i \in 0 .. Len(q) |-> IF i = 0 THEN <<>> ELSE IF i = 1 THEN first ELSE second]
           f == CHOOSE h : h = [i \in 0 .. Len(q) |-> Step(h, i)]
<1>0. Len(q) = 1 \/ Len(q) = 2
  OBVIOUS
<1>1. \A i \in 0 .. Len(q) : g[i] = Step(g, i)
  <2>1. \A i \in 0 .. Len(q) : i = 0 \/ i = 1 \/ i = 2
    <3> HIDE DEF g, Step, f, first, second
    <3>1. \A i \in 0 .. 1 : i = 0 \/ i = 1
      OBVIOUS
    <3>2. \A i \in 0 .. 2 : i = 0 \/ i = 1 \/ i = 2
      OBVIOUS
    <3> QED
      BY <1>0, <3>1, <3>2
  <2>2. 0 \in 0 .. Len(q) /\ 1 \in 0 .. Len(q) /\ 1 - 1 = 0 /\ 2 - 1 = 1
    OBVIOUS
  <2>3. g[0] = <<>> /\ g[1] = first /\ (2 \in 0 .. Len(q) => g[2] = second)
    OBVIOUS
  <2>4. Append(<<>>, q[1]) = <<q[1]>>
    OBVIOUS
  <2> HIDE DEF g
  <2>5. g[0] = Step(g, 0)
    BY <2>3
  <2>6. g[1] = Step(g, 1)
    BY <2>2, <2>3, <2>4
  <2>7. 2 \in 0 .. Len(q) => g[2] = Step(g, 2)
    BY <2>2, <2>3
  <2> QED
    BY <2>1, <2>5, <2>6, <2>7
<1>2. g = [i \in 0 .. Len(q) |-> Step(g, i)]
  <2>1. g = [i \in 0 .. Len(q) |-> g[i]]
    OBVIOUS
  <2> HIDE DEF g, Step
  <2> QED
    BY <1>1, <2>1
<1>3. f = [i \in 0 .. Len(q) |-> Step(f, i)]
  <2> HIDE DEF g, Step
  <2> QED
    BY <1>2, Zenon
<1>4. Without(q, c) = f[Len(q)]
  BY Zenon DEF Without
<1> HIDE DEF f, g
<1>5. f[0] = <<>>
  BY <1>3
<1>6. f[1] = first
  <2>1. 1 \in 0 .. Len(q) /\ 1 - 1 = 0 /\ 1 # 0 /\ Append(<<>>, q[1]) = <<q[1]>>
    OBVIOUS
  <2> QED
    BY <1>3, <1>5, <2>1
<1>7. Len(q) = 2 => f[2] = second
  <2>1. Len(q) = 2 => 2 \in 0 .. Len(q) /\ 2 - 1 = 1 /\ 2 # 0
    OBVIOUS
  <2> HIDE DEF first
  <2> QED
    BY <1>3, <1>6, <2>1
<1>8. CASE Len(q) = 1
  BY <1>4, <1>6, <1>8
<1>9. CASE Len(q) = 2
  BY <1>4, <1>7, <1>9
<1> QED
  BY <1>0, <1>8, <1>9

\* What a card that takes the place of another makes of the table.
LEMMA Replaced ==
  ASSUME table \in Seq(AnyCard), Len(table) \in 1 .. 2, discard \subseteq AnyCard,
         NEW played \in AnyCard, NEW related \in OnTable, Replace(played, related)
  PROVE  /\ table' \in Seq(AnyCard) /\ Len(table') \in 1 .. 2
         /\ OnTable' = (OnTable \ {related}) \union {played}
         /\ Len(table) = 2 /\ table[1] # table[2] /\ played \notin OnTable =>
              Len(table') = 2 /\ table'[1] # table'[2]
         /\ discard' = discard \union {related} /\ related \in AnyCard
<1>0. Len(table) = 1 \/ Len(table) = 2
  OBVIOUS
<1>1. /\ OnTable = {table[i] : i \in 1 .. Len(table)}
      /\ Len(table) = 1 => OnTable = {table[1]}
      /\ Len(table) = 2 => OnTable = {table[1], table[2]}
  BY DEF OnTable
<1>2. table[1] \in AnyCard /\ (Len(table) = 2 => table[2] \in AnyCard)
  OBVIOUS
<1> DEFINE rest == Without(table, related)
<1>3. table' = Append(rest, played) /\ discard' = discard \union {related}
  BY DEF Replace
<1>4. rest = LET first == IF table[1] = related THEN <<>> ELSE <<table[1]>>
             IN  IF Len(table) = 1 \/ table[2] = related THEN first ELSE Append(first, table[2])
  BY WithoutCard
<1> HIDE DEF rest
<1>5. \/ rest = <<>> /\ OnTable = {related} /\ ~ (Len(table) = 2 /\ table[1] # table[2])
      \/ \E c \in AnyCard : rest = <<c>> /\ OnTable = {c, related} /\ c # related
  <2>1. CASE Len(table) = 1
    BY <1>1, <1>2, <1>4, <2>1
  <2>2. CASE Len(table) = 2 /\ table[1] = table[2]
    BY <1>1, <1>2, <1>4, <2>2
  <2>3. CASE Len(table) = 2 /\ table[1] = related /\ table[2] # related
    <3>1. rest = Append(<<>>, table[2])
      BY <1>4, <2>3
    <3>2. rest = <<table[2]>>
      BY <3>1
    <3> QED
      BY <1>1, <1>2, <2>3, <3>2
  <2>4. CASE Len(table) = 2 /\ table[2] = related /\ table[1] # related
    BY <1>1, <1>2, <1>4, <2>4
  <2> QED
    BY <1>0, <1>1, <2>1, <2>2, <2>3, <2>4
<1>6. related \in AnyCard
  BY <1>0, <1>1, <1>2
<1>7. CASE rest = <<>> /\ OnTable = {related} /\ ~ (Len(table) = 2 /\ table[1] # table[2])
  <2>1. table' = <<played>>
    BY <1>3, <1>7
  <2>2. OnTable' = {played}
    BY <2>1 DEF OnTable
  <2> QED
    BY <1>3, <1>6, <1>7, <2>1, <2>2
<1>8. ASSUME NEW c \in AnyCard, rest = <<c>>, OnTable = {c, related}, c # related
      PROVE  /\ table' \in Seq(AnyCard) /\ Len(table') = 2
             /\ OnTable' = {c, played} /\ table'[1] = c /\ table'[2] = played
  <2>1. rest \in Seq(AnyCard) /\ Len(rest) = 1 /\ rest[1] = c
    BY <1>8
  <2>2. Append(rest, played) \in Seq(AnyCard) /\ Len(Append(rest, played)) = Len(rest) + 1
    BY <2>1, AppendProperties
  <2>3. \A k \in 1 .. Len(rest) : Append(rest, played)[k] = rest[k]
    BY <2>1, AppendProperties
  <2>4. Append(rest, played)[Len(rest) + 1] = played
    BY <2>1, AppendProperties
  <2>5. table' \in Seq(AnyCard) /\ Len(table') = 2 /\ table'[1] = c /\ table'[2] = played
    BY <1>3, <2>1, <2>2, <2>3, <2>4
  <2> QED
    BY <2>5 DEF OnTable
<1> QED
  BY <1>3, <1>5, <1>6, <1>7, <1>8

-----------------------------------------------------------------------------
(***************************************************************************)
(* The inductive invariant.                                                *)
(***************************************************************************)

\* Every card has been dealt or drawn.
Met(S) == S \subseteq AnyCard /\ \A c \in S : c.draw <= drawn

\* The card voted on has left its hand, and was played on a card of the table.
RoundFits ==
  round # NoRound =>
    /\ round.player \in Here
    /\ round.played \in AnyCard /\ round.played.draw <= drawn /\ round.played \notin InPlay
    /\ round.related \in OnTable

CardsInv ==
  /\ drawn \in Nat
  /\ hands \in [Here -> SUBSET AnyCard]
  /\ \A p \in Here : Met(hands[p])
  /\ table \in Seq(AnyCard) /\ Met(OnTable)
  /\ Met(discard)
  /\ RoundFits
  /\ HandsAreDisjoint /\ NoCardTwice /\ TableStaysPlayable

LEMMA InitCards ==
  ASSUME Init
  PROVE  CardsInv
<1>1. /\ hands \in [Player -> SUBSET Deck] /\ HandsAreDisjoint
      /\ Here = Player
  BY DEF Init, HandsAreDisjoint, Here
<1>2. /\ discard = {} /\ round = NoRound /\ drawn = 0
  BY DEF Init
<1>3. PICK c, d \in Deck \ UNION {hands[p] : p \in Player} : c # d /\ table = <<c, d>>
  BY DEF Init
<1>4. \A b \in Deck : b \in AnyCard /\ b.draw = 0
  BY DeckCards
<1>5. table \in Seq(AnyCard) /\ Len(table) = 2 /\ table[1] # table[2] /\ OnTable = {c, d}
  BY <1>3, <1>4 DEF OnTable
<1>6. InPlay \intersect OnTable = {}
  BY <1>1, <1>3, <1>5 DEF InPlay
<1> QED
  BY <1>1, <1>2, <1>4, <1>5, <1>6 DEF CardsInv, Met, RoundFits, NoCardTwice, Played, TableStaysPlayable

LEMMA SubmitKeepsCards ==
  ASSUME CardsInv, NEW p \in Here, NEW c \in hands[p], NEW t \in OnTable, NEW a, Submit(p, c, t, a)
  PROVE  CardsInv'
<1>1. /\ hands' = [hands EXCEPT ![p] = @ \ {c}]
      /\ round = NoRound
      /\ round'.player = p /\ round'.played = c /\ round'.related = t
      /\ UNCHANGED <<behavior, table, discard, drawn>>
  BY DEF Submit
<1>2. Here' = Here /\ OnTable' = OnTable
  BY <1>1 DEF Here, OnTable, CardsInv
<1>3. /\ hands' \in [Here -> SUBSET AnyCard]
      /\ \A q \in Here : hands'[q] = IF q = p THEN hands[p] \ {c} ELSE hands[q]
  BY <1>1 DEF CardsInv
<1>4. InPlay' = InPlay \ {c} /\ c \in InPlay
  BY <1>2, <1>3 DEF InPlay, CardsInv, HandsAreDisjoint
<1>5. RoundFits'
  BY <1>1, <1>2, <1>4 DEF RoundFits, CardsInv, Met
<1>6. Played' \subseteq {c} /\ Played = {}
  BY <1>1 DEF Played
<1>7. NoCardTwice'
  BY <1>1, <1>2, <1>4, <1>6 DEF NoCardTwice, CardsInv
<1>8. HandsAreDisjoint'
  BY <1>2, <1>3 DEF HandsAreDisjoint, CardsInv
<1> QED
  BY <1>1, <1>2, <1>3, <1>5, <1>7, <1>8 DEF CardsInv, Met, TableStaysPlayable

\* The card voted on takes the place of the one it was played on; its player gets
\* the cards new, or gets it back.
LEMMA ReplaceKeepsCards ==
  ASSUME CardsInv, round # NoRound, Replace(round.played, round.related),
         NEW new \in SUBSET AnyCard, NEW back \in SUBSET {round.played},
         \A c \in new : c.draw > drawn /\ c.draw <= drawn',
         behavior = "discardCard" => back = {},
         hands' = [hands EXCEPT ![round.player] = @ \union new \union back],
         round' = NoRound, drawn' \in Nat, drawn' >= drawn, behavior' = behavior
  PROVE  CardsInv'
<1> DEFINE p == round.player
           c == round.played
           t == round.related
<1>1. /\ p \in Here /\ c \in AnyCard /\ c.draw <= drawn /\ c \notin InPlay /\ t \in OnTable
      /\ Replace(c, t) /\ drawn \in Nat
      /\ back = {} \/ back = {c}
  BY DEF CardsInv, RoundFits
<1>2. hands' = [hands EXCEPT ![p] = @ \union new \union back]
  OBVIOUS
<1>3. Played = {c}
  BY DEF Played
<1> HIDE DEF p, c, t
<1>4. /\ table' \in Seq(AnyCard) /\ Len(table') \in 1 .. 2
      /\ OnTable' = (OnTable \ {t}) \union {c}
      /\ Len(table) = 2 /\ table[1] # table[2] /\ c \notin OnTable =>
           Len(table') = 2 /\ table'[1] # table'[2]
      /\ discard' = discard \union {t} /\ t \in AnyCard
  <2>1. discard \subseteq AnyCard /\ table \in Seq(AnyCard) /\ Len(table) \in 1 .. 2
    BY DEF CardsInv, Met, TableStaysPlayable
  <2> QED
    BY <1>1, <2>1, Replaced
<1>5. /\ Here' = Here /\ hands' \in [Here -> SUBSET AnyCard]
      /\ \A q \in Here : hands'[q] = IF q = p THEN hands[p] \union new \union back ELSE hands[q]
  <2>1. back \subseteq AnyCard
    BY <1>1
  <2>2. hands' \in [Here -> SUBSET AnyCard]
    BY <1>1, <1>2, <2>1 DEF CardsInv
  <2>3. Here' = Here
    BY <2>2 DEF Here
  <2>4. \A q \in Here : hands'[q] = IF q = p THEN hands[p] \union new \union back ELSE hands[q]
    BY <1>1, <1>2 DEF CardsInv
  <2> QED
    BY <2>2, <2>3, <2>4
<1>6. InPlay' = InPlay \union new \union back
  BY <1>1, <1>5 DEF InPlay
<1>7. \A q \in Here : Met(hands[q])
  BY DEF CardsInv
<1>8. /\ \A b \in InPlay \union OnTable \union discard \union {c} : b.draw <= drawn /\ b \notin new
      /\ \A b \in new : b.draw \in Nat
  <2>1. \A b \in InPlay \union OnTable \union discard \union {c} : b \in AnyCard /\ b.draw <= drawn
    BY <1>1, <1>7 DEF CardsInv, Met, InPlay
  <2>2. \A b \in AnyCard : b.draw \in Nat
    BY DEF AnyCard
  <2> QED
    BY <1>1, <2>1, <2>2
<1>9. \A q \in Here : Met(hands[q])'
  <2> TAKE q \in Here
  <2>1. \A b \in hands'[q] : b \in AnyCard /\ (b \in InPlay \union {c} \/ b \in new)
    BY <1>1, <1>5 DEF InPlay
  <2>2. \A b \in InPlay \union {c} : b.draw \in Nat /\ b.draw <= drawn'
    <3>1. \A b \in InPlay \union {c} : b \in AnyCard
      BY <1>1, <1>7 DEF InPlay, Met
    <3> QED
      BY <1>1, <1>8, <3>1 DEF AnyCard
  <2> QED
    BY <2>1, <2>2 DEF Met
<1>10. Met(OnTable)' /\ Met(discard)'
  <2>1. \A b \in OnTable' \union discard' : b \in AnyCard /\ b.draw <= drawn
    BY <1>1, <1>4, <1>8 DEF CardsInv, Met
  <2>2. \A b \in OnTable' \union discard' : b.draw <= drawn'
    BY <1>1, <2>1 DEF AnyCard
  <2> QED
    BY <2>1, <2>2 DEF Met
<1>11. HandsAreDisjoint'
  <2> SUFFICES ASSUME NEW q \in Here, NEW r \in Here, q # r, NEW b \in hands'[q], b \in hands'[r]
               PROVE  FALSE
    BY <1>5 DEF HandsAreDisjoint
  <2>1. \A s \in Here : hands[s] \subseteq InPlay
    BY DEF InPlay
  <2>2. hands[q] \intersect hands[r] = {}
    BY DEF CardsInv, HandsAreDisjoint
  <2> QED
    BY <1>1, <1>5, <1>8, <2>1, <2>2
<1>12. behavior = "discardCard" =>
         /\ c \notin OnTable /\ c \notin discard /\ InPlay \cap (OnTable \union discard) = {}
         /\ OnTable \cap discard = {}
  BY <1>3 DEF CardsInv, NoCardTwice
<1>13. NoCardTwice'
  <2>1. Played' = {}
    BY DEF Played
  <2> SUFFICES ASSUME behavior = "discardCard"
               PROVE  /\ InPlay' \cap (OnTable' \union discard') = {}
                      /\ OnTable' \cap discard' = {}
    BY <2>1 DEF NoCardTwice
  <2> QED
    BY <1>1, <1>4, <1>6, <1>8, <1>12
<1>14. TableStaysPlayable'
  BY <1>4, <1>12 DEF TableStaysPlayable, CardsInv
<1>15. RoundFits'
  BY DEF RoundFits
<1> QED
  BY <1>4, <1>5, <1>9, <1>10, <1>11, <1>13, <1>14, <1>15 DEF CardsInv
LEMMA PassKeepsCards ==
  ASSUME CardsInv, NEW p \in Here, Pass(p)
  PROVE  CardsInv'
<1>1. drawn \in Nat /\ drawn' = drawn + 1 /\ drawn' \in Nat /\ drawn <= drawn'
  BY DEF Pass, CardsInv
<1>2. PICK new \in Draws(1) : hands' = [hands EXCEPT ![p] = @ \union new]
  BY DEF Pass
<1>3. \A c \in new : c \in AnyCard /\ c.draw > drawn /\ c.draw <= drawn' /\ c.draw \in Nat
  <2>1. \A c \in new : c \in AnyCard /\ c.draw > drawn /\ c.draw <= drawn'
    BY <1>1, DrawnCards
  <2> QED
    BY <2>1 DEF AnyCard
<1>4. /\ Here' = Here /\ hands' \in [Here -> SUBSET AnyCard]
      /\ \A q \in Here : hands'[q] = IF q = p THEN hands[p] \union new ELSE hands[q]
  BY <1>2, <1>3 DEF CardsInv, Here
<1>5. round = NoRound /\ round' = NoRound /\ UNCHANGED <<behavior, table, discard>>
  BY DEF Pass
<1>6. ASSUME NEW S, Met(S)
      PROVE  /\ \A b \in S : b \in AnyCard /\ b.draw <= drawn' /\ b.draw <= drawn /\ b \notin new
  <2>1. \A b \in S : b \in AnyCard /\ b.draw <= drawn /\ b.draw \in Nat
    BY <1>6 DEF Met, AnyCard
  <2> QED
    BY <1>1, <1>3, <2>1
<1>7. /\ \A q \in Here : \A b \in hands[q] : b \in AnyCard /\ b.draw <= drawn' /\ b \notin new
      /\ \A b \in OnTable \union discard : b \in AnyCard /\ b.draw <= drawn' /\ b \notin new
  BY <1>6 DEF CardsInv
<1>8. OnTable' = OnTable
  BY <1>5 DEF OnTable
<1>9. (\A q \in Here : Met(hands[q])') /\ Met(OnTable)' /\ Met(discard)'
  BY <1>3, <1>4, <1>5, <1>7, <1>8 DEF Met
<1>10. HandsAreDisjoint'
  BY <1>4, <1>7 DEF HandsAreDisjoint, CardsInv
<1>11. InPlay' = InPlay \union new
  BY <1>4 DEF InPlay
<1>12. NoCardTwice'
  BY <1>5, <1>7, <1>8, <1>11 DEF NoCardTwice, Played, CardsInv
<1> QED
  BY <1>1, <1>4, <1>5, <1>9, <1>10, <1>12 DEF CardsInv, RoundFits, TableStaysPlayable

LEMMA LeaveKeepsCards ==
  ASSUME CardsInv, NEW p \in Here, Leave(p)
  PROVE  CardsInv'
<1>1. /\ hands' = [q \in Here \ {p} |-> hands[q]]
      /\ round' = (IF round.player = p THEN NoRound ELSE round)
      /\ UNCHANGED <<behavior, table, discard, drawn>>
  BY DEF Leave
<1>2. /\ Here' = Here \ {p} /\ hands' \in [Here' -> SUBSET AnyCard]
      /\ \A q \in Here' : hands'[q] = hands[q]
  BY <1>1 DEF Here, CardsInv
<1>3. InPlay' \subseteq InPlay /\ OnTable' = OnTable /\ Played' \subseteq Played
  BY <1>1, <1>2 DEF InPlay, OnTable, Played
<1>4. RoundFits'
  <2> SUFFICES ASSUME round' # NoRound
               PROVE  /\ round'.player \in Here'
                      /\ round'.played \in AnyCard /\ round'.played.draw <= drawn
                      /\ round'.played \notin InPlay'
                      /\ round'.related \in OnTable
    BY <1>1, <1>3 DEF RoundFits
  <2>1. round' = round /\ round.player # p
    BY <1>1
  <2> QED
    BY <1>2, <1>3, <2>1 DEF RoundFits, CardsInv
<1>5. HandsAreDisjoint'
  BY <1>2 DEF HandsAreDisjoint, CardsInv
<1>6. NoCardTwice'
  BY <1>1, <1>3 DEF NoCardTwice, CardsInv
<1> QED
  BY <1>1, <1>2, <1>3, <1>4, <1>5, <1>6 DEF CardsInv, Met, TableStaysPlayable

LEMMA NextKeepsCards ==
  ASSUME CardsInv, [Next]_vars
  PROVE  CardsInv'
<1>1. drawn \in Nat
  BY DEF CardsInv
<1>2. ASSUME Accept
      PROVE  CardsInv'
  <2> DEFINE none == {}
  <2>0. none \in SUBSET AnyCard /\ none \in SUBSET {round.played} /\ \A c \in none : FALSE
    OBVIOUS
  <2>1. hands' = [hands EXCEPT ![round.player] = @ \union none \union none]
    BY <1>2 DEF Accept, CardsInv, RoundFits
  <2> HIDE DEF none
  <2>2. /\ round # NoRound /\ Replace(round.played, round.related)
        /\ round' = NoRound /\ drawn' = drawn /\ behavior' = behavior
    BY <1>2 DEF Accept
  <2>3. drawn' \in Nat /\ drawn' >= drawn
    BY <1>1, <2>2
  <2>4. \A c \in none : c.draw > drawn /\ c.draw <= drawn'
    BY <2>0
  <2>5. none = {}
    BY DEF none
  <2> QED
    BY <2>0, <2>1, <2>2, <2>3, <2>4, <2>5, ReplaceKeepsCards
<1>3. ASSUME Reject
      PROVE  CardsInv'
  <2> DEFINE back == IF behavior = "returnToHand" THEN {round.played} ELSE {}
  <2>1. PICK new \in Draws(2) : hands' = [hands EXCEPT ![round.player] = @ \union new \union back]
    BY <1>3 DEF Reject
  <2>2. /\ round # NoRound /\ Replace(round.played, round.related)
        /\ round' = NoRound /\ drawn' = drawn + 2 /\ behavior' = behavior
    BY <1>3 DEF Reject
  <2>3. drawn' \in Nat /\ drawn' >= drawn
    BY <1>1, <2>2
  <2>4. new \in SUBSET AnyCard /\ \A c \in new : c.draw > drawn /\ c.draw <= drawn'
    BY <1>1, <2>2, DrawnCards
  <2>5. back \in SUBSET {round.played} /\ (behavior = "discardCard" => back = {})
    OBVIOUS
  <2> HIDE DEF back
  <2> QED
    BY <2>1, <2>2, <2>3, <2>4, <2>5, ReplaceKeepsCards
<1>4. ASSUME UNCHANGED vars
      PROVE  CardsInv'
  <2>1. UNCHANGED <<behavior, hands, table, discard, round, drawn>>
    BY <1>4 DEF vars
  <2>2. UNCHANGED <<Here, InPlay, Played, OnTable>>
    BY <2>1 DEF Here, InPlay, Played, OnTable
  <2>3. RoundFits' /\ HandsAreDisjoint' /\ NoCardTwice' /\ TableStaysPlayable'
    BY <2>1, <2>2 DEF CardsInv, RoundFits, HandsAreDisjoint, NoCardTwice, TableStaysPlayable
  <2> QED
    BY <2>1, <2>2, <2>3 DEF CardsInv, Met
<1> QED
  BY <1>2, <1>3, <1>4, PassKeepsCards, LeaveKeepsCards, SubmitKeepsCards DEF Next

THEOREM CardsHold == Spec => []CardsInv
<1>1. Init => CardsInv
  BY InitCards
<1>2. CardsInv /\ [Next]_vars => CardsInv'
  BY NextKeepsCards
<1> QED
  BY <1>1, <1>2, PTL DEF Spec

\* No two players hold a card with the same id, whichever cards are dealt, drawn
\* and returned: a player who plays a card plays one card.
THEOREM NobodySharesACard == Spec => []HandsAreDisjoint
<1>1. CardsInv => HandsAreDisjoint
  BY DEF CardsInv
<1> QED
  BY <1>1, CardsHold, PTL

\* Where rejected cards are discarded, a card is in one place.
THEOREM CardsHaveOnePlace == Spec => []NoCardTwice
<1>1. CardsInv => NoCardTwice
  BY DEF CardsInv
<1> QED
  BY <1>1, CardsHold, PTL

\* There is always a card to play on, and two of them where rejected cards are
\* discarded.
THEOREM TableIsNeverEmpty == Spec => []TableStaysPlayable
<1>1. CardsInv => TableStaysPlayable
  BY DEF CardsInv
<1> QED
  BY <1>1, CardsHold, PTL
-----------------------------------------------------------------------------
(***************************************************************************)
(* The answers, when ids of source cards do not end in a number.           *)
(***************************************************************************)

NamesOnly == \A s \in Sources : Len(s) > 0 /\ s[Len(s)] \notin Digits

\* The parts of an id are those of a source card, or those and a copy's number.
LEMMA IdForms ==
  ASSUME NEW x \in Ids
  PROVE  x \in Sources \/ \E s \in Sources, d \in Digits : x = Append(s, d)
<1>1. CASE x \in Sources
  BY <1>1
<1>2. ASSUME NEW c \in Deck, x = c.parts
      PROVE  x \in Sources \/ \E s \in Sources, d \in Digits : x = Append(s, d)
  <2>1. \A y : Card(y).parts = y
    BY DEF Card
  <2>2. CASE Len(Source) >= Required
    BY <1>2, <2>1, <2>2 DEF Deck
  <2>3. CASE ~ (Len(Source) >= Required)
    <3>1. PICK i \in 0 .. Required - 1 :
            c = Copy(Source[(i % Len(Source)) + 1], i \div Len(Source))
      BY <2>3 DEF Deck
    <3>2. Len(Source) \in Nat /\ Len(Source) > 0 /\ Len(Number) \in Nat
      BY CardsAssumption
    <3>3. i \in Nat
      BY <3>1
    <3>4. (i % Len(Source)) + 1 \in DOMAIN Source
      BY <3>2, <3>3, CardsAssumption
    <3>5. 1 + (i \div Len(Source)) \in DOMAIN Number
      <4>1. i \div Len(Source) \in Nat
        BY <3>2, <3>3
      <4>2. i \div Len(Source) < Len(Number)
        BY <3>1, CardsAssumption
      <4>3. DOMAIN Number = 1 .. Len(Number)
        BY CardsAssumption
      <4> QED
        BY <3>2, <4>1, <4>2, <4>3
    <3> QED
      BY <1>2, <2>1, <3>1, <3>4, <3>5 DEF Copy, Sources, Digits
  <2> QED
    BY <2>2, <2>3
<1> QED
  BY <1>1, <1>2 DEF Ids

LEMMA SourceTypes ==
  /\ \A s \in Sources : s \in Seq(Parts) /\ Len(s) \in Nat /\ \A i \in 1 .. Len(s) : s[i] \in Parts
  /\ Digits \subseteq Parts
<1>1. Sources \subseteq Seq(Parts)
  BY CardsAssumption
<1>2. Digits \subseteq Parts
  BY DEF Parts
<1> HIDE DEF Parts
<1> QED
  BY <1>1, <1>2, LenProperties, ElementOfSeq

\* What a copy's number appended looks like.
LEMMA Numbered ==
  ASSUME NEW s \in Sources, NEW d \in Digits
  PROVE  /\ Append(s, d) \in Seq(Parts) /\ Len(Append(s, d)) = Len(s) + 1
         /\ Append(s, d)[Len(s) + 1] = d
         /\ SubSeq(Append(s, d), 1, Len(s)) = s
<1>1. s \in Seq(Parts) /\ d \in Parts /\ Len(s) \in Nat
  BY SourceTypes
<1> DEFINE v == Append(s, d)
<1>2. /\ v \in Seq(Parts) /\ Len(v) = Len(s) + 1 /\ v[Len(s) + 1] = d
      /\ \A i \in 1 .. Len(s) : v[i] = s[i]
  BY <1>1, AppendProperties
<1> HIDE DEF v
<1> DEFINE w == SubSeq(v, 1, Len(s))
<1>3. /\ w \in Seq(Parts) /\ Len(w) = Len(s) /\ \A i \in 1 .. Len(s) : w[i] = v[i]
  BY <1>1, <1>2, SubSeqProperties
<1> HIDE DEF w
<1>4. w = s
  BY <1>1, <1>2, <1>3, SeqEqual
<1> QED
  BY <1>2, <1>4 DEF v, w

\* Under that assumption the key of a card is the source card it comes from.
LEMMA CanonicalIsSource ==
  ASSUME NamesOnly, NEW c \in AnyCard
  PROVE  Canonical(c) = SourceOf(c)
<1> DEFINE x == c.parts
           Comes(s) == x = s \/ \E d \in Digits : x = Append(s, d)
<1>1. x \in Sources \/ \E s \in Sources, d \in Digits : x = Append(s, d)
  BY IdForms DEF AnyCard
<1> HIDE DEF x
<1>2. ASSUME NEW s \in Sources, NEW d \in Digits
      PROVE  Append(s, d) \notin Sources
  <2>1. Append(s, d)[Len(Append(s, d))] = d
    BY Numbered
  <2> QED
    BY <2>1 DEF NamesOnly
<1>3. CASE x \in Sources
  <2>1. Canonical(c) = x
    BY <1>3 DEF Canonical, NamesOnly, x
  <2>2. \A s \in Sources : Comes(s) => s = x
    BY <1>2, <1>3
  <2>3. Comes(x)
    OBVIOUS
  <2>4. SourceOf(c) = CHOOSE s \in Sources : Comes(s)
    BY DEF SourceOf, x
  <2> HIDE DEF Comes
  <2> QED
    BY <1>3, <2>1, <2>2, <2>3, <2>4
<1>4. ASSUME NEW r \in Sources, NEW e \in Digits, x = Append(r, e)
      PROVE  Canonical(c) = SourceOf(c)
  <2>1. Canonical(c) = r
    <3>1. Len(x) = Len(r) + 1 /\ x[Len(x)] = e /\ Len(r) \in Nat /\ Len(r) > 0
          /\ SubSeq(x, 1, Len(r)) = r
      BY <1>4, Numbered, SourceTypes DEF NamesOnly
    <3>2. Len(x) > 1 /\ Len(x) - 1 = Len(r)
      BY <3>1
    <3> QED
      BY <3>1, <3>2 DEF Canonical, x
  <2>2. \A s \in Sources : Comes(s) => s = r
    <3> SUFFICES ASSUME NEW s \in Sources, Comes(s)
                 PROVE  s = r
      OBVIOUS
    <3>1. s # x
      BY <1>2, <1>4
    <3>2. PICK d \in Digits : x = Append(s, d)
      BY <3>1
    <3>3. Len(x) = Len(s) + 1 /\ SubSeq(x, 1, Len(s)) = s /\ Len(s) \in Nat
      BY <3>2, Numbered, SourceTypes
    <3>4. Len(x) = Len(r) + 1 /\ SubSeq(x, 1, Len(r)) = r /\ Len(r) \in Nat
      BY <1>4, Numbered, SourceTypes
    <3>5. \A i, j \in Nat : i + 1 = j + 1 => i = j
      OBVIOUS
    <3>6. Len(s) = Len(r)
      BY <3>3, <3>4, <3>5, Zenon
    <3> QED
      BY <3>3, <3>4, <3>6
  <2>3. Comes(r)
    BY <1>4
  <2>4. SourceOf(c) = CHOOSE s \in Sources : Comes(s)
    BY DEF SourceOf, x
  <2> HIDE DEF Comes
  <2> QED
    BY <2>1, <2>2, <2>3, <2>4
<1> QED
  BY <1>1, <1>3, <1>4

\* The answers the game remembers are those accepted last for two source cards.
AnswersInv ==
  /\ accepted = truth
  /\ round # NoRound => round.previous = Lookup(accepted, PairKey(round.played, round.related))

\* A round shows the answer accepted last for the same two source cards, however
\* often they were copied and drawn.  (Ids of source cards that end in a number
\* break it: then the number of a card is taken for a copy's.)
THEOREM AnswersAreRecalled ==
  ASSUME NamesOnly
  PROVE  Spec => []AnswerIsRecalled
<1>1. ASSUME NEW c \in AnyCard, NEW d \in AnyCard
      PROVE  PairKey(c, d) = {SourceOf(c), SourceOf(d)}
  BY CanonicalIsSource DEF PairKey
<1>2. ASSUME CardsInv, round # NoRound
      PROVE  PairKey(round.played, round.related) = {SourceOf(round.played), SourceOf(round.related)}
  <2>1. round.played \in AnyCard /\ round.related \in AnyCard
    BY <1>2 DEF CardsInv, RoundFits, Met
  <2> QED
    BY <1>1, <2>1
<1>3. Init => AnswersInv
  BY DEF Init, AnswersInv
<1>4. CardsInv /\ AnswersInv /\ [Next]_vars => AnswersInv'
  <2> SUFFICES ASSUME CardsInv, AnswersInv, [Next]_vars
               PROVE  AnswersInv'
    OBVIOUS
  <2>1. CASE Accept
    <3>1. accepted' = truth' /\ round' = NoRound
      BY <1>2, <2>1 DEF Accept, AnswersInv
    <3> QED
      BY <3>1 DEF AnswersInv
  <2>2. CASE Reject
    BY <2>2 DEF Reject, AnswersInv
  <2>3. ASSUME NEW p \in Here, Pass(p) \/ Leave(p)
        PROVE  AnswersInv'
    <3>1. UNCHANGED <<accepted, truth>> /\ (round' = round \/ round' = NoRound)
      BY <2>3 DEF Pass, Leave
    <3> QED
      BY <3>1 DEF AnswersInv, Lookup
  <2>4. ASSUME NEW p, NEW c, NEW t, NEW a, Submit(p, c, t, a)
        PROVE  AnswersInv'
    <3>1. /\ UNCHANGED <<accepted, truth>>
          /\ round'.previous = Lookup(accepted, PairKey(c, t))
          /\ round'.played = c /\ round'.related = t
      BY <2>4 DEF Submit
    <3> QED
      BY <3>1 DEF AnswersInv, Lookup
  <2>5. CASE UNCHANGED vars
    BY <2>5 DEF vars, AnswersInv, Lookup
  <2> QED
    BY <2>1, <2>2, <2>3, <2>4, <2>5 DEF Next
<1>5. CardsInv /\ AnswersInv => AnswerIsRecalled
  BY <1>2 DEF AnswersInv, AnswerIsRecalled
<1> QED
  BY <1>3, <1>4, <1>5, CardsHold, PTL DEF Spec
-----------------------------------------------------------------------------
(***************************************************************************)
(* The deck.                                                               *)
(***************************************************************************)

LEMMA Division ==
  ASSUME NEW n \in Nat, n > 0, NEW i \in Nat, NEW j \in Nat,
         i % n = j % n, i \div n = j \div n
  PROVE  i = j
<1>1. i = n * (i \div n) + (i % n)
  OBVIOUS
<1>2. j = n * (j \div n) + (j % n)
  OBVIOUS
<1> QED
  BY <1>1, <1>2

\* Two copies with one id are copies of one card, of the same number.
LEMMA CopiesDiffer ==
  ASSUME NEW s \in Sources, NEW r \in Sources, NEW d \in Digits, NEW e \in Digits,
         Append(s, d) = Append(r, e)
  PROVE  s = r /\ d = e
<1>1. /\ Len(Append(s, d)) = Len(s) + 1 /\ Append(s, d)[Len(s) + 1] = d
      /\ SubSeq(Append(s, d), 1, Len(s)) = s /\ Len(s) \in Nat
  BY Numbered, SourceTypes
<1>2. /\ Len(Append(r, e)) = Len(r) + 1 /\ Append(r, e)[Len(r) + 1] = e
      /\ SubSeq(Append(r, e), 1, Len(r)) = r /\ Len(r) \in Nat
  BY Numbered, SourceTypes
<1>3. \A i, j \in Nat : i + 1 = j + 1 => i = j
  OBVIOUS
<1>4. Len(s) = Len(r)
  BY <1>1, <1>2, <1>3, Zenon
<1> QED
  BY <1>1, <1>2, <1>4, Zenon

\* The deck has as many different cards as hands, table and reserve need, however
\* few source cards it is made from: no two copies get the same id, so that a
\* game can always be dealt (_ensure_deck_size, start_game).
THEOREM DeckSuffices == IsFiniteSet(Deck) /\ Cardinality(Deck) >= Required
<1> DEFINE n == Len(Source)
           Made == 0 .. Required - 1
           CopyOf(i) == Copy(Source[(i % n) + 1], i \div n)
           f == [i \in Made |-> CopyOf(i)]
           g == [i \in 1 .. n |-> Card(Source[i])]
<1>1. n \in Nat /\ n > 0 /\ DOMAIN Source = 1 .. n
  BY CardsAssumption
<1>2. Required \in Nat /\ Required > 0
  <2>1. Cardinality(Player) \in Nat
    BY CardsAssumption, FS_CardinalityType
  <2>2. HandSize + 3 \in Nat
    BY CardsAssumption
  <2>3. \A a, b \in Nat : a * b \in Nat
    OBVIOUS
  <2>4. Cardinality(Player) * (HandSize + 3) \in Nat
    BY <2>1, <2>2, <2>3
  <2> QED
    BY <2>4 DEF Required
<1>3. IsFiniteSet(Made) /\ Cardinality(Made) = Required
  BY <1>2, FS_Interval
<1>4. IsFiniteSet(1 .. n) /\ Cardinality(1 .. n) = n
  BY <1>1, FS_Interval
<1>5. \A s, r : Card(s) = Card(r) => s = r
  BY DEF Card
<1>6. CASE n >= Required
  <2>1. Deck = {Card(s) : s \in Sources}
    BY <1>6 DEF Deck
  <2>2. g \in [1 .. n -> Deck]
    BY <1>1, <2>1 DEF Sources
  <2>3. \A i, j \in 1 .. n : g[i] = g[j] => i = j
    BY <1>1, <1>5, CardsAssumption
  <2>4. \A c \in Deck : \E i \in 1 .. n : g[i] = c
    BY <1>1, <2>1 DEF Sources
  <2> HIDE DEF g
  <2>5. g \in Surjection(1 .. n, Deck) /\ g \in Injection(1 .. n, Deck)
    BY <2>2, <2>3, <2>4 DEF Surjection, Injection, IsInjective
  <2>6. IsFiniteSet(Deck) /\ Cardinality(Deck) = Cardinality(1 .. n)
    BY <1>4, <2>5, FS_Surjection
  <2> QED
    BY <1>4, <1>6, <2>6
<1>7. CASE ~ (n >= Required)
  <2>1. Deck = {CopyOf(i) : i \in Made}
    BY <1>7 DEF Deck
  <2>2. f \in [Made -> Deck]
    BY <2>1
  <2>3. ASSUME NEW i \in Made
        PROVE  /\ (i % n) + 1 \in DOMAIN Source /\ Source[(i % n) + 1] \in Sources
               /\ 1 + (i \div n) \in DOMAIN Number /\ Number[1 + (i \div n)] \in Digits
    <3>1. i \in Nat
      BY <1>2
    <3>2. (i % n) + 1 \in DOMAIN Source
      BY <1>1, <3>1
    <3>3. 1 + (i \div n) \in DOMAIN Number
      <4>1. i \div n \in Nat
        BY <1>1, <3>1
      <4>2. i \div n < Len(Number) /\ DOMAIN Number = 1 .. Len(Number) /\ Len(Number) \in Nat
        BY CardsAssumption
      <4> QED
        BY <4>1, <4>2
    <3> QED
      BY <3>2, <3>3 DEF Sources, Digits
  <2>4. ASSUME NEW i \in Made, NEW j \in Made, CopyOf(i) = CopyOf(j)
        PROVE  i = j
    <3>1. Append(Source[(i % n) + 1], Number[1 + (i \div n)])
            = Append(Source[(j % n) + 1], Number[1 + (j \div n)])
      BY <1>5, <2>4 DEF Copy
    <3>2. Source[(i % n) + 1] = Source[(j % n) + 1] /\ Number[1 + (i \div n)] = Number[1 + (j \div n)]
      <4> DEFINE s == Source[(i % n) + 1]
                 r == Source[(j % n) + 1]
                 d == Number[1 + (i \div n)]
                 e == Number[1 + (j \div n)]
      <4>1. s \in Sources /\ r \in Sources /\ d \in Digits /\ e \in Digits
        BY <2>3
      <4>2. Append(s, d) = Append(r, e)
        BY <3>1
      <4> HIDE DEF s, r, d, e
      <4>3. s = r /\ d = e
        BY <4>1, <4>2, CopiesDiffer
      <4> QED
        BY <4>3 DEF s, r, d, e
    <3>3. (i % n) + 1 = (j % n) + 1 /\ 1 + (i \div n) = 1 + (j \div n)
      BY <2>3, <3>2, CardsAssumption
    <3>4. i \in Nat /\ j \in Nat
      BY <1>2
    <3>5. i % n \in Int /\ j % n \in Int /\ i \div n \in Int /\ j \div n \in Int
      BY <1>1, <3>4
    <3>6. i % n = j % n /\ i \div n = j \div n
      BY <3>3, <3>5
    <3> QED
      BY <1>1, <3>4, <3>6, Division
  <2>5. \A i, j \in Made : f[i] = f[j] => i = j
    BY <2>4
  <2>6. \A c \in Deck : \E i \in Made : f[i] = c
    BY <2>1
  <2> HIDE DEF f, Made
  <2>7. f \in Surjection(Made, Deck) /\ f \in Injection(Made, Deck)
    BY <2>2, <2>5, <2>6 DEF Surjection, Injection, IsInjective
  <2>8. IsFiniteSet(Deck) /\ Cardinality(Deck) = Cardinality(Made)
    BY <1>3, <2>7, FS_Surjection
  <2> QED
    BY <1>2, <1>3, <2>8
<1> QED
  BY <1>6, <1>7
=============================================================================
