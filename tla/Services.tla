------------------------------ MODULE Services ------------------------------
(***************************************************************************)
(* The services beside the game: a rate limit, the sockets of an address,  *)
(* the deadline of a room, the source of the cards and the window of       *)
(* command ids.                                                            *)
(*                                                                         *)
(* They share no state, so that nothing one of them does can make another  *)
(* go wrong, and every behaviour of all of them is one behaviour of each,  *)
(* interleaved.  A behaviour here is one of one service: the others stay   *)
(* where they begin.                                                       *)
(***************************************************************************)
EXTENDS Integers, Sequences

CONSTANTS
  Player, Room,
  Limit, Span,                                          \* RateWindow
  Ip, Socket, MaxSocketsPerIp,                          \* SocketAdmission
  WaitingTTL, PlayingTTL, FinishedTTL, AbandonedTTL,    \* RoomLifecycle
  Interval,
  Loader, CacheTTL, Timeout, MaxEdits,                  \* CardSource
  Command, Window, MaxTries,                            \* CommandWindow
  RateEnd, RoomEnd, SourceEnd                           \* their lengths in time

VARIABLES
  service,                                              \* the one that runs
  rNow, bucket, passed, refused,                        \* RateWindow
  store, endpoint, sockets, last,                       \* SocketAdmission
  now, stored, status, players, connected,              \* RoomLifecycle
  emptySince, expires, sweep, present,
  sNow, edits, cache, load, dealt,                      \* CardSource
  tries, flying, window, effects, log, told             \* CommandWindow

Rates == INSTANCE RateWindow WITH Window <- Span, MaxNow <- RateEnd, now <- rNow

Admission == INSTANCE SocketAdmission

Lifecycle == INSTANCE RoomLifecycle WITH MaxNow <- RoomEnd

Source == INSTANCE CardSource WITH TTL <- CacheTTL, MaxNow <- SourceEnd, now <- sNow

Commands == INSTANCE CommandWindow WITH LateRaises <- TRUE

ASSUME Parameters ==
  /\ Rates!RateParameters
  /\ Admission!AdmissionParameters
  /\ Lifecycle!LifecycleParameters
  /\ Source!SourceParameters
  /\ Commands!WindowParameters

rates == <<rNow, bucket, passed, refused>>
admission == <<store, endpoint, sockets, last>>
lifecycle == <<now, stored, status, players, connected, emptySince, expires, sweep, present>>
source == <<sNow, edits, cache, load, dealt>>
commands == <<tries, flying, window, effects, log, told>>
vars == <<service, rates, admission, lifecycle, source, commands>>

\* Where a room's deadline is not what is looked at, one first state of it will
\* do.
Init ==
  /\ service \in {"rates", "admission", "lifecycle", "source", "commands"}
  /\ Rates!Init /\ Admission!Init /\ Lifecycle!Init /\ Source!Init /\ Commands!Init
  /\ service # "lifecycle" => sweep = 1 /\ players = {CHOOSE p \in Player : TRUE}

Next ==
  /\ UNCHANGED service
  /\ \/ /\ service = "rates"
        /\ Rates!Next
        /\ UNCHANGED <<admission, lifecycle, source, commands>>
     \/ /\ service = "admission"
        /\ Admission!Next
        /\ UNCHANGED <<rates, lifecycle, source, commands>>
     \/ /\ service = "lifecycle"
        /\ Lifecycle!Next
        /\ UNCHANGED <<rates, admission, source, commands>>
     \/ /\ service = "source"
        /\ Source!Next
        /\ UNCHANGED <<rates, admission, lifecycle, commands>>
     \/ /\ service = "commands"
        /\ Commands!Next
        /\ UNCHANGED <<rates, admission, lifecycle, source>>

Spec == Init /\ [][Next]_vars

-----------------------------------------------------------------------------
\* A rate limit lets no burst through and refuses nobody before it is used up
\* (RateWindow).
LimitIsExact == Rates!LimitIsExact

\* No address stays charged with a socket that has ended (SocketAdmission).
EntriesAreReleased == Admission!EntriesAreReleased

\* The socket a player opened last stays counted (SocketAdmission).
LatestIsCounted == Admission!LatestIsCounted

\* No empty room is kept for ever (RoomLifecycle).
EmptyRoomGoes == Lifecycle!EmptyRoomGoes

\* No room is deleted before its time (RoomLifecycle).
DeletedOnlyWhenDue == Lifecycle!DeletedOnlyWhenDue

\* Games are dealt cards that are recent enough (CardSource).
DealtIsRecent == Source!DealtIsRecent

\* Commands that are sent again are not carried out again within the window
\* (CommandWindow, AtMostOnce).
ImplementsAtMostOnce == Commands!ImplementsAtMostOnce
=============================================================================
