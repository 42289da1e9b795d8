------------------------------- MODULE RestApi -------------------------------
(***************************************************************************)
(* Creating, joining and leaving rooms by REST with an idempotency key.    *)
(*                                                                         *)
(* RoomService keeps two kinds of records: what a create or join with a    *)
(* key has made, and which player left with which key.  Both age.  A       *)
(* client that gets no answer calls again with the same key: since a call  *)
(* can be lost before or after it is handled, and handled late, any call   *)
(* may arrive at any time.  What a handler does before its first await is  *)
(* one step; the broadcast behind it may raise, so that the client is told *)
(* of a failure although the call had its effect.                          *)
(*                                                                         *)
(* Rooms and players are numbered in the order in which they are made:     *)
(* room codes are drawn until one is free and player ids are UUIDs.        *)
(* Whether a room takes a newcomer depends on its status and its places,   *)
(* which RoomGame has; here it may refuse whenever it likes.               *)
(***************************************************************************)
EXTENDS Integers, FiniteSets, Functions

CONSTANTS
  Key,         \* idempotency keys, and command ids that leave a room
  Form,        \* what a client fills in: a name, the settings of a room
  Ip,          \* addresses of clients
  MaxRoomsPerIp,
  TTL,         \* age limit of a record
  MaxRooms,    \* rooms made in a behaviour (a bound)
  MaxPlayers,  \* players made in a behaviour (a bound)
  MaxNow       \* length of a behaviour in time (a bound)

ASSUME RestAssumption ==
  /\ MaxRoomsPerIp \in Nat \ {0}
  /\ TTL \in Nat
  /\ MaxRooms \in Nat /\ MaxPlayers \in Nat /\ MaxNow \in Nat

VARIABLES
  now,      \* time.monotonic
  rooms,    \* the store: the players of each room in it
  made,     \* for every player ever made: under which key, when, in which room
  roomsBy,  \* _rooms_by_ip
  records,  \* _idempotency_records
  leaves,   \* _leave_records
  answer    \* the last answer

vars == <<now, rooms, made, roomsBy, records, leaves, answer>>

Live == DOMAIN rooms
Players == DOMAIN made
RoomCode == 1..MaxRooms
Without(f, S) == Restrict(f, DOMAIN f \ S)
With(f, x, v) == [y \in DOMAIN f \union {x} |-> IF y = x THEN v ELSE f[y]]

NoAnswer == [call |-> "none"]

Init ==
  /\ now = 0
  /\ rooms = <<>>
  /\ made = <<>>
  /\ roomsBy = [ip \in Ip |-> {}]
  /\ records = <<>>
  /\ leaves = <<>>
  /\ answer = NoAnswer

-----------------------------------------------------------------------------
\* What the handlers have in common.

\* The records that are not too old.  They are dropped when one is looked up.
Fresh(recs) == Restrict(recs, {k \in DOMAIN recs : now - recs[k].at <= TTL})

\* mutant of DeletedRoom: the addresses keep the room
DeletedRoomStaysCounted(r) ==
  /\ rooms' = Without(rooms, {r})
  /\ roomsBy' = roomsBy

\* _delete_room and its listener remove_room; the records are DropRecords.
DeletedRoom(r) ==
  /\ rooms' = Without(rooms, {r})
  /\ roomsBy' = [ip \in Ip |-> roomsBy[ip] \ {r}]

\* mutant of DropRecords: the records of a deleted room stay
DropNoRecords(recs, r) == recs

DropRecords(recs, r) == Without(recs, {k \in DOMAIN recs : recs[k].room = r})

\* leave_room_with_result: the last one out closes the room.
TakeOut(r, p) ==
  IF rooms[r] = {p}
    THEN DeletedRoom(r) /\ records' = DropRecords(records, r)
    ELSE /\ rooms' = [rooms EXCEPT ![r] = @ \ {p}]
         /\ UNCHANGED <<roomsBy, records>>

NewPlayer == Cardinality(Players) + 1
MayMakePlayer == NewPlayer <= MaxPlayers

\* The answer of a handler, or the failure of the broadcast behind it.
Reply(call, k, codes, r, p) ==
  \E code \in codes :
    answer' = [call |-> call, key |-> k, code |-> code, room |-> r, player |-> p]

\* mutant of Replay: nobody looks whether the player is still in the room
ReplayBlindly(call, k, form) ==
  /\ k \in DOMAIN Fresh(records)
  /\ LET rec == records[k] IN
       IF <<rec.call, rec.form>> # <<call, form>>
         THEN Reply(call, k, {"reused"}, rec.room, rec.player)
         ELSE Reply(call, k, {"ok"}, rec.room, rec.player)

\* A known key: another call or form is a conflict, and the room and the
\* player of the record must still be there.
Replay(call, k, form) ==
  /\ k \in DOMAIN Fresh(records)
  /\ LET rec == records[k] IN
       IF <<rec.call, rec.form>> # <<call, form>>
         THEN Reply(call, k, {"reused"}, rec.room, rec.player)
       ELSE IF rec.room \in Live /\ rec.player \in rooms[rec.room]
         THEN Reply(call, k, {"ok"}, rec.room, rec.player)
         ELSE Reply(call, k, {"gone"}, rec.room, rec.player)

\* mutant of NewRecord: the record is written under another name than it is
\* looked up with
NewRecordLost(call, k, form, r, p) == Fresh(records)

NewRecord(call, k, form, r, p) ==
  With(Fresh(records), k,
       [call |-> call, form |-> form, room |-> r, player |-> p, at |-> now])

-----------------------------------------------------------------------------
\* An address that calls too often is refused before anything else is looked at,
\* a known key included (RateWindow).
RateRefused(call, k) ==
  /\ Reply(call, k, {"rate"}, 0, 0)
  /\ UNCHANGED <<now, rooms, made, roomsBy, records, leaves>>

-----------------------------------------------------------------------------
\* POST /rooms/create.

AtCapacity(ip) == Cardinality(roomsBy[ip]) >= MaxRoomsPerIp

\* The capacity of the address comes first, even before the records.
CreateRefused(k, ip) ==
  /\ AtCapacity(ip)
  /\ Reply("create", k, {"limit"}, 0, 0)
  /\ UNCHANGED <<now, rooms, made, roomsBy, records, leaves>>

CreateReplayed(k, form, ip) ==
  /\ ~ AtCapacity(ip)
  /\ Replay("create", k, form)
  /\ records' = Fresh(records)
  /\ UNCHANGED <<now, rooms, made, roomsBy, leaves>>

Create(k, form, ip) ==
  LET r == 1 + Cardinality({made[p].room : p \in Players})  p == NewPlayer IN
  /\ ~ AtCapacity(ip)
  /\ k \notin DOMAIN Fresh(records)
  /\ r <= MaxRooms /\ MayMakePlayer
  /\ rooms' = With(rooms, r, {p})
  /\ made' = With(made, p, [key |-> k, at |-> now, room |-> r])
  /\ roomsBy' = [roomsBy EXCEPT ![ip] = @ \union {r}]
  /\ records' = NewRecord("create", k, form, r, p)
  /\ Reply("create", k, {"ok"}, r, p)
  /\ UNCHANGED <<now, leaves>>

-----------------------------------------------------------------------------
\* POST /rooms/join.  The room is part of what the client filled in.

JoinReplayed(k, form, r) ==
  /\ Replay("join", k, <<form, r>>)
  /\ records' = Fresh(records)
  /\ UNCHANGED <<now, rooms, made, roomsBy, leaves>>

\* mutant of JoinRefused: the room is looked at before the records
JoinRefusedFirst(k, form, r) ==
  /\ Reply("join", k, {"refused"}, r, 0)
  /\ records' = Fresh(records)
  /\ UNCHANGED <<now, rooms, made, roomsBy, leaves>>

\* No such room, already started, or full.
JoinRefused(k, form, r) ==
  /\ k \notin DOMAIN Fresh(records)
  /\ Reply("join", k, {"refused"}, r, 0)
  /\ records' = Fresh(records)
  /\ UNCHANGED <<now, rooms, made, roomsBy, leaves>>

\* A full lobby evicts one player whose grace period ran out.
Join(k, form, r) ==
  LET p == NewPlayer IN
  /\ k \notin DOMAIN Fresh(records)
  /\ r \in Live /\ MayMakePlayer
  /\ \E evicted \in {{}} \union {{q} : q \in rooms[r]} :
       rooms' = [rooms EXCEPT ![r] = (@ \ evicted) \union {p}]
  /\ made' = With(made, p, [key |-> k, at |-> now, room |-> r])
  /\ records' = NewRecord("join", k, <<form, r>>, r, p)
  /\ Reply("join", k, {"ok", "raised"}, r, p)
  /\ UNCHANGED <<now, roomsBy, leaves>>

-----------------------------------------------------------------------------
\* POST /rooms/{code}/leave, and leave_room on a socket.

IsMember(r, p) == r \in Live /\ p \in rooms[r]
KnownLeave(k) == k \in DOMAIN Fresh(leaves)

\* mutant of LeaveReplayed: nobody looks who left
LeaveReplayedByKey(k, r, p) ==
  /\ KnownLeave(k)
  /\ Reply("leave", k, {"applied"}, r, p)
  /\ leaves' = Fresh(leaves)
  /\ UNCHANGED <<now, rooms, made, roomsBy, records>>

\* The records decide before the player is looked up; what is told of a known
\* one is "applied", or a conflict when somebody else left with it.
LeaveReplayed(k, r, p) ==
  /\ KnownLeave(k)
  /\ IF leaves[k].room = r /\ leaves[k].player = p
       THEN Reply("leave", k, {"applied"}, r, p)
       ELSE Reply("leave", k, {"reused"}, r, p)
  /\ leaves' = Fresh(leaves)
  /\ UNCHANGED <<now, rooms, made, roomsBy, records>>

\* A socket whose room is gone is not even asked for the record.
LeaveWithoutRoom(k, r, p) ==
  /\ r \notin Live
  /\ Reply("leave", k, {"gone"}, r, p)
  /\ UNCHANGED <<now, rooms, made, roomsBy, records, leaves>>

LeaveFails(k, r, p) ==
  /\ ~ KnownLeave(k)
  /\ ~ IsMember(r, p)
  /\ Reply("leave", k, {"gone"}, r, p)
  /\ leaves' = Fresh(leaves)
  /\ UNCHANGED <<now, rooms, made, roomsBy, records>>

Leave(k, r, p) ==
  /\ ~ KnownLeave(k)
  /\ IsMember(r, p)
  /\ TakeOut(r, p)
  /\ leaves' = With(Fresh(leaves), k, [room |-> r, player |-> p, at |-> now])
  /\ Reply("leave", k, {"applied", "raised"}, r, p)
  /\ UNCHANGED <<now, made>>

-----------------------------------------------------------------------------
\* What happens to rooms otherwise.

\* A start evicts the players S whose grace period ran out.
Evict(r, S) ==
  /\ S # {}
  /\ rooms' = [rooms EXCEPT ![r] = @ \ S]
  /\ answer' = NoAnswer
  /\ UNCHANGED <<now, made, roomsBy, records, leaves>>

\* expire_abandoned_rooms; prune_stale_rooms then finds nothing left to do.
ExpireRoom(r) ==
  /\ r \in Live
  /\ DeletedRoom(r)
  /\ records' = DropRecords(records, r)
  /\ answer' = NoAnswer
  /\ UNCHANGED <<now, made, leaves>>

Tick ==
  /\ now < MaxNow
  /\ now' = now + 1
  /\ answer' = NoAnswer
  /\ UNCHANGED <<rooms, made, roomsBy, records, leaves>>

Next ==
  \/ Tick
  \/ \E k \in Key, ip \in Ip : CreateRefused(k, ip)
  \/ \E k \in Key, form \in Form, ip \in Ip :
       CreateReplayed(k, form, ip) \/ Create(k, form, ip)
  \/ \E k \in Key, form \in Form, r \in RoomCode :
       JoinReplayed(k, form, r) \/ JoinRefused(k, form, r) \/ Join(k, form, r)
  \/ \E k \in Key, r \in RoomCode, p \in Players :
       \/ LeaveReplayed(k, r, p) \/ LeaveWithoutRoom(k, r, p)
       \/ LeaveFails(k, r, p) \/ Leave(k, r, p)
  \/ \E call \in {"create", "join"}, k \in Key : RateRefused(call, k)
  \/ \E r \in Live : ExpireRoom(r) \/ \E S \in SUBSET rooms[r] : Evict(r, S)

Spec == Init /\ [][Next]_vars

-----------------------------------------------------------------------------
(***************************************************************************)
(* Properties.                                                             *)
(***************************************************************************)

\* A key makes a second player only after the room of the first was closed or
\* the record has aged out: a retry never creates a second room or joins twice
\* (create_room_idempotent, join_room_idempotent).
OnePlayerPerKey == [][
  \A q \in DOMAIN made' \ Players : \A p \in Players :
    made[p].key = made'[q].key =>
      made[p].room \notin Live \/ now - made[p].at > TTL ]_vars

\* Whoever is told that a create or join succeeded is told of a player who was
\* made with this key and is in the room now, also by a replay after
\* departures, evictions and closed rooms.
OkNamesAMember ==
  answer.call \in {"create", "join"} /\ answer.code = "ok" =>
    /\ IsMember(answer.room, answer.player)
    /\ made[answer.player].key = answer.key

\* A player whose departure is on record, or was confirmed, is in the room no
\* more: neither a replay nor a later join brings it back
\* (leave_room_idempotent, rooms.py leave_room).
LeftIsLeft ==
  /\ \A k \in DOMAIN leaves : ~ IsMember(leaves[k].room, leaves[k].player)
  /\ answer.call = "leave" /\ answer.code = "applied" =>
       ~ IsMember(answer.room, answer.player)

\* The capacity of an address is used by rooms that exist, each counted once
\* and for one address: a closed room frees its place whoever closed it.
CapacityIsLiveRooms ==
  /\ UNION {roomsBy[ip] : ip \in Ip} = Live
  /\ \A i, j \in Ip : i # j => roomsBy[i] \cap roomsBy[j] = {}
  /\ \A ip \in Ip : Cardinality(roomsBy[ip]) <= MaxRoomsPerIp

\* No record outlives the room it names: otherwise a retried create would be
\* answered with a room that is gone until the record ages out.
RecordsNameLiveRooms == \A k \in DOMAIN records : records[k].room \in Live

\* A join that had its effect is confirmed when it is retried in time, also if
\* its broadcast had raised, as long as its player is in the room and its
\* address does not call too often.
JoinRetryConfirmed == [][
  \A k \in DOMAIN Fresh(records) :
    LET rec == records[k] IN
    rec.call = "join" /\ IsMember(rec.room, rec.player)
      /\ answer'.call = "join" /\ answer'.key = k =>
        answer'.code \in {"ok", "reused", "rate"} ]_vars

\* tests/test_online_auth.py: a create that is retried in time, and not too
\* often, gets the same answer.
CreateRetryConfirmed == [][
  \A k \in DOMAIN Fresh(records) :
    LET rec == records[k] IN
    rec.call = "create" /\ IsMember(rec.room, rec.player)
      /\ answer'.call = "create" /\ answer'.key = k =>
        answer'.code \in {"ok", "reused", "rate"} ]_vars
=============================================================================
