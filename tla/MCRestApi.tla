----------------------------- MODULE MCRestApi -----------------------------
(***************************************************************************)
(* TLC: keys, forms and addresses are interchangeable.                     *)
(***************************************************************************)
EXTENDS RestApi, TLC

Symmetry == Permutations(Key) \union Permutations(Form) \union Permutations(Ip)
=============================================================================
