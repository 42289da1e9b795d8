---------------------------- MODULE RoomLifecycle ----------------------------
(***************************************************************************)
(* When a room nobody is connected to is deleted.                          *)
(*                                                                         *)
(* _refresh_lifecycle computes the deadline of a room from its status and  *)
(* the time all_disconnected_at.  Some operations call it and some do not: *)
(* leaving and the end of a grace period do not, so that the deadline of a *)
(* room may be missing, or belong to an earlier status, until the cleanup  *)
(* task comes round and refreshes it, and only then compares it with the   *)
(* time.                                                                   *)
(***************************************************************************)
EXTENDS Integers

CONSTANTS
  Player,
  WaitingTTL, PlayingTTL, FinishedTTL,   \* age limits by status
  AbandonedTTL,                          \* abandoned_room_ttl_seconds
  Interval,                              \* between two rounds of cleanup
  MaxNow                                 \* length of a behaviour (a bound)

\* The age limits and the interval are positive (config.py).
LifecycleParameters ==
  /\ {WaitingTTL, PlayingTTL, FinishedTTL, AbandonedTTL} \subseteq Nat \ {0}
  /\ Interval \in Nat \ {0}
  /\ MaxNow \in Nat

VARIABLES
  now,        \* the wall clock, which is taken to be monotonic
  stored,     \* is the room in the store?
  status,
  players,
  connected,  \* those of them with is_connected
  emptySince, \* all_disconnected_at
  expires,    \* expires_at
  sweep,      \* when the cleanup task comes next
  present     \* when somebody was last connected, or the room was made

vars == <<now, stored, status, players, connected, emptySince, expires, sweep, present>>

None == -1
Time == 0 .. MaxNow
Status == {"waiting", "starting", "playing", "finished"}

TTL(s) ==
  CASE s = "waiting"  -> WaitingTTL
    [] s = "finished" -> FinishedTTL
    [] OTHER          -> PlayingTTL

Init ==
  /\ now = 0
  /\ stored = TRUE
  /\ status = "waiting"
  /\ \E host \in Player : players = {host}
  /\ connected = {}
  /\ emptySince = 0
  /\ expires = WaitingTTL
  /\ sweep \in 1 .. Interval
  /\ present = 0

-----------------------------------------------------------------------------
\* _refresh_lifecycle of a room with status s in which the players here are
\* connected.
Refresh(s, here) ==
  LET since == IF here # {} THEN None
               ELSE IF emptySince = None THEN now ELSE emptySince IN
  /\ emptySince' = since
  /\ expires' = IF since = None THEN None ELSE since + TTL(s)

NoRefresh == UNCHANGED <<emptySince, expires>>

Presence(here) == present' = IF connected # {} \/ here # {} THEN now ELSE present

\* _evict_expired_lobby_player, once or, in a start that is then refused, often
\* enough: players who are not connected.
Evict(S) ==
  /\ stored /\ status = "waiting"
  /\ S # {} /\ S \subseteq players \ connected
  /\ players' = players \ S
  /\ Refresh(status, connected)
  /\ UNCHANGED <<now, stored, status, connected, sweep, present>>

\* join_room; the newcomer is not connected yet.  In a full room it takes the
\* place of a player who is evicted.
Join(p) ==
  /\ stored /\ status = "waiting" /\ p \notin players
  /\ \E evicted \in {{}} \union {{q} : q \in players \ connected} :
       players' = (players \ evicted) \union {p}
  /\ Refresh(status, connected)
  /\ UNCHANGED <<now, stored, status, connected, sweep, present>>

\* mutant of Connect: the lifecycle is not refreshed
ConnectUnrefreshed(p) ==
  /\ stored /\ p \in players
  /\ connected' = connected \union {p}
  /\ Presence(connected')
  /\ NoRefresh
  /\ UNCHANGED <<now, stored, status, players, sweep>>

\* mark_connected, to True and to False.
Connect(p) ==
  /\ stored /\ p \in players
  /\ connected' = connected \union {p}
  /\ Presence(connected')
  /\ Refresh(status, connected')
  /\ UNCHANGED <<now, stored, status, players, sweep>>

Disconnect(p) ==
  /\ stored /\ p \in players
  /\ connected' = connected \ {p}
  /\ Presence(connected')
  /\ Refresh(status, connected')
  /\ UNCHANGED <<now, stored, status, players, sweep>>

\* A command that ends in RoomService.save: also of a player whom the room
\* holds for disconnected, because its command loop is still open.
Moves == {<<"waiting", "starting">>, <<"starting", "playing">>, <<"starting", "waiting">>,
          <<"playing", "finished">>, <<"finished", "waiting">>}

SaveStatus(s) ==
  /\ stored
  /\ s = status \/ <<status, s>> \in Moves
  /\ status' = s
  /\ Refresh(s, connected)
  /\ UNCHANGED <<now, stored, players, connected, sweep, present>>

\* expire_disconnected_player: it may end a game, and refreshes nothing.
GraceExpires(p) ==
  /\ stored /\ p \in players \ connected
  /\ status' \in {status} \union (IF status = "playing" THEN {"finished"} ELSE {})
  /\ NoRefresh
  /\ UNCHANGED <<now, stored, players, connected, sweep, present>>

\* leave_room_with_result: it may end a game and refreshes nothing; the last
\* player closes the room.
Leave(p) ==
  /\ stored /\ p \in players
  /\ players' = players \ {p}
  /\ connected' = connected \ {p}
  /\ stored' = (players' # {})
  /\ status' \in {status} \union (IF status = "playing" THEN {"finished"} ELSE {})
  /\ Presence(connected')
  /\ NoRefresh
  /\ UNCHANGED <<now, sweep>>

\* expire_abandoned_rooms, in the cleanup task.
Due == connected = {} /\ now >= (IF emptySince = None THEN now ELSE emptySince) + TTL(status)

\* mutant of Cleanup: the deadline of before is compared, not the refreshed one
CleanupUnrefreshed ==
  /\ sweep = now
  /\ sweep' = now + Interval
  /\ stored' = (stored /\ ~ (connected = {} /\ expires # None /\ now >= expires))
  /\ NoRefresh
  /\ UNCHANGED <<now, status, players, connected, present>>

Cleanup ==
  /\ sweep = now
  /\ sweep' = now + Interval
  /\ stored' = (stored /\ ~ Due)
  /\ IF stored /\ connected = {} THEN Refresh(status, {}) ELSE NoRefresh
  /\ UNCHANGED <<now, status, players, connected, present>>

\* Time passes.  The cleanup task is not late.
Tick ==
  /\ now < MaxNow /\ now < sweep
  /\ now' = now + 1
  /\ present' = IF connected # {} /\ stored THEN now' ELSE present
  /\ UNCHANGED <<stored, status, players, connected, emptySince, expires, sweep>>

Next ==
  \/ Tick \/ Cleanup
  \/ \E s \in Status : SaveStatus(s)
  \/ \E S \in SUBSET Player : Evict(S)
  \/ \E p \in Player :
       \/ Join(p) \/ Leave(p)
       \/ Connect(p) \/ Disconnect(p) \/ GraceExpires(p)

Spec == Init /\ [][Next]_vars

-----------------------------------------------------------------------------
(***************************************************************************)
(* Properties.                                                             *)
(***************************************************************************)

\* A room with players (the last to leave closes it at once) is deleted only
\* when nobody was connected to it for as long as its status allows, although
\* statuses change and players come and go with and without a refresh
\* (expire_abandoned_rooms, _refresh_lifecycle).
DeletedOnlyWhenDue == [][
  stored /\ ~ stored' /\ players' # {} =>
    connected = {} /\ now - present >= TTL(status) ]_vars

LongestTTL == CHOOSE t \in {WaitingTTL, PlayingTTL, FinishedTTL} :
  \A u \in {WaitingTTL, PlayingTTL, FinishedTTL} : u <= t

\* No room is kept for ever: whatever was not refreshed, it goes at the latest
\* two rounds of cleanup after the longest age limit.
EmptyRoomGoes ==
  stored /\ connected = {} => now - present < LongestTTL + 2 * Interval

\* README.md and main.py: rooms are cleaned up after ABANDONED_ROOM_TTL_SECONDS.
KeptForAbandonedTTL == [][
  stored /\ ~ stored' /\ players' # {} => now - present >= AbandonedTTL ]_vars
=============================================================================
