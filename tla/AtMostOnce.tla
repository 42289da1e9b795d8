----------------------------- MODULE AtMostOnce -----------------------------
(***************************************************************************)
(* What a client can rely on when it sends commands again: a command that  *)
(* was carried out is not carried out a second time before Window - 1      *)
(* others have been, and the client is told that it was applied only when  *)
(* it was, and never of one of these that it was rejected.                 *)
(*                                                                         *)
(* CommandWindow shows that the window of command ids keeps this promise.  *)
(***************************************************************************)
EXTENDS Integers, Sequences

CONSTANTS Command, Window

VARIABLES
  order,  \* the commands that were carried out, in this order
  told    \* the last answer the client has got to each command

once == <<order, told>>

Init ==
  /\ order = <<>>
  /\ told = [c \in Command |-> "none"]

Done == {order[i] : i \in DOMAIN order}

\* The commands carried out last, one fewer than Window.
Recent == {order[i] : i \in {j \in DOMAIN order : Len(order) - j < Window - 1}}

\* An answer may be lost.
Tell(c, answer) == told' \in {told, [told EXCEPT ![c] = answer]}

Do(c) ==
  /\ c \notin Recent
  /\ order' = Append(order, c)
  /\ Tell(c, "applied")

Repeat(c) ==
  /\ c \in Done
  /\ Tell(c, "applied")
  /\ UNCHANGED order

Refuse(c) ==
  /\ c \notin Recent
  /\ Tell(c, "rejected")
  /\ UNCHANGED order

Next == \E c \in Command : Do(c) \/ Repeat(c) \/ Refuse(c)

Spec == Init /\ [][Next]_once
=============================================================================
