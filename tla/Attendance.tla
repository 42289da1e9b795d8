----------------------------- MODULE Attendance -----------------------------
(***************************************************************************)
(* What the server promises about who is there, with nothing of sockets,   *)
(* locks, broadcasts, games and hosts.  A player who is not connected is   *)
(* waited for, and given up only after a grace period that began with its  *)
(* absence; whoever comes back in time, or late, is there again; and who   *)
(* has left does not return.                                               *)
(*                                                                         *)
(* RoomCycle shows that the room keeps the promise, and Presence that its  *)
(* sockets, timers and broadcasts do.                                      *)
(***************************************************************************)
CONSTANT Player

VARIABLE seat   \* where the room has each player

Seat == { "unknown",    \* has not joined yet
          "untimed",    \* not connected, and nothing counts how long
          "timed",      \* not connected, and its grace period runs
          "excluded",   \* not connected, and not waited for any more
          "here",       \* connected
          "gone" }      \* was in the room, and has left

Init == seat \in [Player -> {"unknown", "untimed"}]

In(places) == {p \in Player : seat[p] \in places}
Members == In({"untimed", "timed", "excluded", "here"})

\* The players S take the place, all others keep theirs.
To(S, place) == seat' = [p \in Player |-> IF p \in S THEN place ELSE seat[p]]

\* A newcomer.  Somebody who is excluded may have to go for it.
Enter ==
  \E p \in In({"unknown"}), S \in SUBSET In({"excluded"}) :
    /\ \A q, r \in S : q = r
    /\ seat' = [q \in Player |-> IF q = p THEN "untimed"
                                 ELSE IF q \in S THEN "gone" ELSE seat[q]]

Come == \E p \in Members : To({p}, "here")

\* Players are found to be lost, and are timed from now on.
Go == \E S \in SUBSET In({"here", "untimed"}) : To(S, "timed")

\* Players are found to be lost, and are not timed.
Drop == \E S \in SUBSET In({"here"}) : To(S, "untimed")

\* The grace period of a player is over.
Exclude == \E p \in In({"timed"}) : To({p}, "excluded")

Leave == \E p \in Members : To({p}, "gone")

Evict == \E S \in SUBSET In({"excluded"}) : To(S, "gone")

\* The room is closed, and nobody is timed any more.
Close == To(In({"timed"}), "untimed")

Next == Enter \/ Come \/ Go \/ Drop \/ Exclude \/ Leave \/ Evict \/ Close

Spec == Init /\ [][Next]_seat
=============================================================================
