----------------------------- MODULE MCPresence -----------------------------
(***************************************************************************)
(* Presence for TLC: how many sockets the players open.                    *)
(***************************************************************************)
EXTENDS Presence

\* The first player reconnects, the others connect once.
FirstReconnects == [p \in 1..Players |-> IF p = 1 THEN 2 ELSE 1]

\* Everybody connects once.
Once == [p \in 1..Players |-> 1]

\* The first player reconnects, and is alone.
FirstTwice == [p \in 1..Players |-> IF p = 1 THEN 2 ELSE 0]
=============================================================================
