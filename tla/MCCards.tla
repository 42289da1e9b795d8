------------------------------- MODULE MCCards -------------------------------
(***************************************************************************)
(* Card ids for TLC: like club_est, and like number_7, as in app/data.     *)
(* With two source cards every number is used for as many copies as any    *)
(* other: they are interchangeable, and so are players and answers.        *)
(***************************************************************************)
EXTENDS Cards, TLC

CONSTANTS d0, d1, d2, d3, d4, x, y

Clubs == << <<"club", "est">>, <<"club", "css">> >>
Jerseys == << <<"number", d0>>, <<"number", d1>> >>
Numerals == <<d0, d1, d2, d3, d4>>
Answers == {x, y}

Symmetry ==
  Permutations(Player) \union Permutations(Answers)
    \union Permutations({d0, d1, d2, d3, d4})
=============================================================================
