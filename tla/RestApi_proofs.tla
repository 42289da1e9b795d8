--------------------------- MODULE RestApi_proofs ---------------------------
(***************************************************************************)
(* What a retried call may do, and what records and addresses keep, for    *)
(* any number of keys, addresses, rooms and players, any capacity and any  *)
(* age limit.                                                              *)
(*                                                                         *)
(* The argument is KeysKept: whoever was made not too long ago in a room   *)
(* that still exists is on record under its key, since records go only by  *)
(* age or with their room.  A call that is about to make a player has      *)
(* found no record, so that there is no such player.  A closed room does   *)
(* not come back, because the rooms made are numbered without gaps.        *)
(***************************************************************************)
EXTENDS RestApi, FiniteSetTheorems, TLAPS

Numbered(S) == \E n \in Nat : S = 1..n
RoomsMade == {made[p].room : p \in Players}

TypeOK ==
  /\ now \in Nat
  /\ Numbered(Players) /\ Numbered(RoomsMade)
  /\ made \in [Players -> [key : Key, at : Nat, room : RoomsMade]]
  /\ rooms \in [Live -> SUBSET Players] /\ Live \subseteq RoomsMade
  /\ roomsBy \in [Ip -> SUBSET Live]
  /\ \A k \in DOMAIN records : records[k].at \in Nat
  /\ \A k \in DOMAIN leaves : leaves[k].at \in Nat

\* A record names a player who was made with its key, in a room that exists.
RecordsFit == \A k \in DOMAIN records :
  /\ records[k].room \in Live
  /\ records[k].player \in Players
  /\ made[records[k].player].key = k

\* A leave names a player who was made once, and is not in the room.
LeavesFit == \A k \in DOMAIN leaves :
  leaves[k].player \in Players /\ ~ IsMember(leaves[k].room, leaves[k].player)

\* A player who was made not too long ago in a room that exists is on record.
KeysKept == \A p \in Players :
  made[p].room \in Live /\ now - made[p].at <= TTL =>
    /\ made[p].key \in DOMAIN records
    /\ records[made[p].key].at = made[p].at
    /\ records[made[p].key].room = made[p].room

Inv == TypeOK /\ RecordsFit /\ LeavesFit /\ KeysKept /\ CapacityIsLiveRooms

LEMMA NumberedNext ==
  ASSUME NEW S, Numbered(S)
  PROVE  /\ IsFiniteSet(S) /\ Cardinality(S) \in Nat /\ S \subseteq Nat
         /\ Cardinality(S) + 1 \notin S
         /\ Numbered(S \union {Cardinality(S) + 1})
<1>1. PICK n \in Nat : S = 1..n
  BY DEF Numbered
<1>2. IsFiniteSet(S) /\ Cardinality(S) = n
  BY <1>1, FS_Interval
<1>3. S \union {n + 1} = 1..(n + 1)
  BY <1>1
<1> QED
  BY <1>1, <1>2, <1>3 DEF Numbered

\* Each address has finitely many rooms.
LEMMA RoomsByFinite ==
  ASSUME TypeOK, NEW ip \in Ip
  PROVE  IsFiniteSet(roomsBy[ip]) /\ Cardinality(roomsBy[ip]) \in Nat
<1>1. roomsBy[ip] \subseteq RoomsMade
  BY DEF TypeOK
<1>2. IsFiniteSet(RoomsMade)
  BY NumberedNext DEF TypeOK
<1> QED
  BY <1>1, <1>2, FS_Subset, FS_CardinalityType

-----------------------------------------------------------------------------
LEMMA InvInit == Init => Inv
<1> SUFFICES ASSUME Init
             PROVE  Inv
  OBVIOUS
<1>1. /\ now = 0 /\ rooms = <<>> /\ made = <<>> /\ records = <<>> /\ leaves = <<>>
      /\ roomsBy = [ip \in Ip |-> {}]
  BY DEF Init
<1>2. Players = {} /\ Live = {} /\ DOMAIN records = {} /\ DOMAIN leaves = {} /\ RoomsMade = {}
  BY <1>1 DEF Players, Live, RoomsMade
<1>3. Numbered({})
  <2>1. {} = 1..0
    OBVIOUS
  <2> QED
    BY <2>1 DEF Numbered
<1>4. made \in [Players -> [key : Key, at : Nat, room : RoomsMade]]
  BY <1>1, <1>2
<1>5. rooms \in [Live -> SUBSET Players]
  BY <1>1, <1>2
<1>6. TypeOK
  BY <1>1, <1>2, <1>3, <1>4, <1>5 DEF TypeOK
<1>7. CapacityIsLiveRooms
  <2>1. \A ip \in Ip : Cardinality(roomsBy[ip]) = 0
    BY <1>1, FS_EmptySet
  <2> QED
    BY <1>1, <1>2, <2>1, RestAssumption DEF CapacityIsLiveRooms
<1> QED
  BY <1>2, <1>6, <1>7 DEF Inv, RecordsFit, LeavesFit, KeysKept

\* A call that only answers, and drops old records when it looks.
LEMMA QuietStep ==
  ASSUME Inv, UNCHANGED <<now, rooms, made, roomsBy>>,
         records' \in {records, Fresh(records)},
         leaves' \in {leaves, Fresh(leaves)}
  PROVE  Inv'
<1>1. DOMAIN records' \subseteq DOMAIN records /\ \A k \in DOMAIN records' : records'[k] = records[k]
  BY DEF Fresh, Restrict
<1>2. DOMAIN leaves' \subseteq DOMAIN leaves /\ \A k \in DOMAIN leaves' : leaves'[k] = leaves[k]
  BY DEF Fresh, Restrict
<1>3. \A k \in DOMAIN records : now - records[k].at <= TTL => k \in DOMAIN records'
  BY DEF Fresh, Restrict
<1>4. Players' = Players /\ Live' = Live /\ RoomsMade' = RoomsMade
  BY DEF Players, Live, RoomsMade
<1>5. TypeOK'
  BY <1>1, <1>2, <1>4 DEF Inv, TypeOK
<1>6. RecordsFit'
  BY <1>1, <1>4 DEF Inv, RecordsFit
<1>7. LeavesFit'
  BY <1>2, <1>4 DEF Inv, LeavesFit, IsMember
<1>8. KeysKept'
  BY <1>1, <1>3, <1>4 DEF Inv, KeysKept
<1>9. CapacityIsLiveRooms'
  BY <1>4 DEF Inv, CapacityIsLiveRooms
<1> QED
  BY <1>5, <1>6, <1>7, <1>8, <1>9 DEF Inv

\* Where a call makes a player p in the room r, which exists or is new.
LEMMA NewPlayerStep ==
  ASSUME Inv, NEW k \in Key, NEW r \in Nat, NEW call, NEW form,
         r \in Live \/ r = Cardinality(RoomsMade) + 1,
         k \notin DOMAIN Fresh(records),
         made' = With(made, NewPlayer, [key |-> k, at |-> now, room |-> r]),
         records' = NewRecord(call, k, form, r, NewPlayer),
         rooms' \in [Live \union {r} -> SUBSET Players'],
         \A q \in Live : rooms'[q] \subseteq rooms[q] \union {NewPlayer},
         r \notin Live => rooms'[r] = {NewPlayer},
         now' = now
  PROVE  /\ NewPlayer \notin Players /\ Players' = Players \union {NewPlayer}
         /\ made'[NewPlayer].key = k
         /\ Live' = Live \union {r}
         /\ Numbered(Players') /\ Numbered(RoomsMade')
         /\ made' \in [Players' -> [key : Key, at : Nat, room : RoomsMade']]
         /\ Live' \subseteq RoomsMade'
         /\ \A l \in DOMAIN records' : records'[l].at \in Nat
         /\ RecordsFit' /\ KeysKept'
         /\ \A q \in Players : made[q].key = k => made[q].room \notin Live \/ now - made[q].at > TTL
         /\ \A l \in DOMAIN leaves :
              /\ leaves[l].player \in Players'
              /\ ~ (leaves[l].room \in Live' /\ leaves[l].player \in rooms'[leaves[l].room])
<1> DEFINE p == NewPlayer
           m == [key |-> k, at |-> now, room |-> r]
           rec == [call |-> call, form |-> form, room |-> r, player |-> p, at |-> now]
<1>1. p \notin Players /\ Players \subseteq Nat /\ Numbered(Players \union {p})
  BY NumberedNext DEF Inv, TypeOK, NewPlayer
<1>2. /\ Players' = Players \union {p}
      /\ made'[p] = m
      /\ \A q \in Players : made'[q] = made[q]
  BY <1>1 DEF With, Players
<1>3. Live' = Live \union {r}
  BY DEF Live
<1>4. RoomsMade' = RoomsMade \union {r}
  <2>1. m.room = r
    OBVIOUS
  <2>2. \A q \in Players : made'[q].room = made[q].room
    BY <1>2
  <2> QED
    BY <1>2, <2>1, <2>2 DEF RoomsMade
<1>5. Numbered(RoomsMade')
  <2>1. CASE r \in Live
    <3>1. RoomsMade' = RoomsMade
      BY <1>4, <2>1 DEF Inv, TypeOK
    <3> QED
      BY <3>1 DEF Inv, TypeOK
  <2>2. CASE r = Cardinality(RoomsMade) + 1
    BY <1>4, <2>2, NumberedNext DEF Inv, TypeOK
  <2> QED
    BY <2>1, <2>2
<1>6. made' \in [Players' -> [key : Key, at : Nat, room : RoomsMade']]
  <2>1. \A q \in Players : made'[q] \in [key : Key, at : Nat, room : RoomsMade']
    BY <1>2, <1>4 DEF Inv, TypeOK
  <2>2. made'[p] \in [key : Key, at : Nat, room : RoomsMade']
    BY <1>2, <1>4 DEF Inv, TypeOK
  <2>3. made' = [q \in Players' |-> made'[q]]
    BY <1>2 DEF With, Players
  <2> QED
    BY <1>2, <2>1, <2>2, <2>3
<1>7. /\ DOMAIN records' = DOMAIN Fresh(records) \union {k}
      /\ records'[k] = rec
      /\ \A l \in DOMAIN Fresh(records) : l # k => records'[l] = Fresh(records)[l]
  BY DEF NewRecord, With
<1>8. /\ DOMAIN Fresh(records) \subseteq DOMAIN records
      /\ \A l \in DOMAIN Fresh(records) : Fresh(records)[l] = records[l]
      /\ \A l \in DOMAIN records : now - records[l].at <= TTL => l \in DOMAIN Fresh(records)
  BY DEF Fresh, Restrict
<1>9. \A l \in DOMAIN records' : l # k => l \in DOMAIN records /\ records'[l] = records[l]
  BY <1>7, <1>8
<1>10. rec.at = now /\ rec.room = r /\ rec.player = p /\ m.key = k /\ m.at = now /\ m.room = r
  OBVIOUS
<1>11. \A l \in DOMAIN records' : records'[l].at \in Nat
  BY <1>7, <1>9, <1>10 DEF Inv, TypeOK
<1>12. RecordsFit'
  <2> SUFFICES ASSUME NEW l \in DOMAIN records'
               PROVE  /\ records'[l].room \in Live'
                      /\ records'[l].player \in Players'
                      /\ made'[records'[l].player].key = l
    BY DEF RecordsFit
  <2>1. CASE l = k
    BY <1>2, <1>3, <1>7, <1>10, <2>1
  <2>2. CASE l # k
    BY <1>2, <1>3, <1>9, <2>2 DEF Inv, RecordsFit
  <2> QED
    BY <2>1, <2>2
<1>13. ASSUME NEW q \in Players, made[q].room \in Live, now - made[q].at <= TTL
       PROVE  made[q].key # k
  BY <1>8, <1>13 DEF Inv, KeysKept
<1>14. \A q \in Players : made[q].key = k => made[q].room \notin Live \/ now - made[q].at > TTL
  <2>1. TTL \in Nat /\ now \in Nat /\ \A q \in Players : made[q].at \in Nat
    BY RestAssumption DEF Inv, TypeOK
  <2> QED
    BY <1>13, <2>1
<1>15. KeysKept'
  <2> SUFFICES ASSUME NEW q \in Players', made'[q].room \in Live', now - made'[q].at <= TTL
               PROVE  /\ made'[q].key \in DOMAIN records'
                      /\ records'[made'[q].key].at = made'[q].at
                      /\ records'[made'[q].key].room = made'[q].room
    BY DEF KeysKept
  <2>1. CASE q = p
    BY <1>2, <1>7, <1>10, <2>1
  <2>2. CASE q \in Players
    <3>1. made'[q] = made[q] /\ made[q].room \in RoomsMade
      BY <1>2, <2>2 DEF RoomsMade
    <3>2. r \in RoomsMade => r \in Live
      BY NumberedNext DEF Inv, TypeOK
    <3>3. made[q].room \in Live
      BY <1>3, <3>1, <3>2
    <3>4. made[q].key # k
      BY <1>13, <2>2, <3>1, <3>3
    <3>5. /\ made[q].key \in DOMAIN records
          /\ records[made[q].key].at = made[q].at
          /\ records[made[q].key].room = made[q].room
      BY <2>2, <3>1, <3>3 DEF Inv, KeysKept
    <3> QED
      BY <1>7, <1>8, <3>1, <3>4, <3>5
  <2> QED
    BY <1>2, <2>1, <2>2
<1>16. ASSUME NEW l \in DOMAIN leaves
       PROVE  /\ leaves[l].player \in Players'
              /\ ~ (leaves[l].room \in Live' /\ leaves[l].player \in rooms'[leaves[l].room])
  <2>1. leaves[l].player \in Players /\ ~ IsMember(leaves[l].room, leaves[l].player)
    BY <1>16 DEF Inv, LeavesFit
  <2> QED
    BY <1>1, <1>2, <1>3, <1>16, <2>1 DEF IsMember
<1>17. Live' \subseteq RoomsMade'
  BY <1>3, <1>4 DEF Inv, TypeOK
<1> QED
  BY <1>1, <1>2, <1>3, <1>5, <1>6, <1>10, <1>11, <1>12, <1>14, <1>15, <1>16, <1>17

LEMMA CreateStep ==
  ASSUME Inv, NEW k \in Key, NEW form, NEW ip \in Ip, Create(k, form, ip)
  PROVE  /\ Inv' /\ OkNamesAMember'
         /\ \A q \in Players : made[q].key = k => made[q].room \notin Live \/ now - made[q].at > TTL
         /\ \A q \in Players' \ Players : made'[q].key = k
<1> DEFINE r == Cardinality(RoomsMade) + 1
           p == NewPlayer
<1>a. Numbered(RoomsMade) /\ Live \subseteq RoomsMade
  BY DEF Inv, TypeOK
<1>b. Cardinality(RoomsMade) \in Nat /\ r \notin RoomsMade /\ RoomsMade \subseteq Nat
  BY <1>a, NumberedNext
<1>1. /\ ~ AtCapacity(ip)
      /\ k \notin DOMAIN Fresh(records)
      /\ rooms' = With(rooms, r, {p})
      /\ made' = With(made, p, [key |-> k, at |-> now, room |-> r])
      /\ roomsBy' = [roomsBy EXCEPT ![ip] = @ \union {r}]
      /\ records' = NewRecord("create", k, form, r, p)
      /\ UNCHANGED <<now, leaves>>
      /\ answer' = [call |-> "create", key |-> k, code |-> "ok", room |-> r, player |-> p]
  <2>1. 1 + Cardinality({made[q].room : q \in Players}) = r
    <3>1. Cardinality({made[q].room : q \in Players}) = Cardinality(RoomsMade)
      BY Zenon DEF RoomsMade
    <3>2. 1 + Cardinality(RoomsMade) = r
      BY <1>b
    <3> QED
      BY Zenon, <3>1, <3>2
  <2> QED
    BY <2>1 DEF Create, Reply
<1>2. r \in Nat /\ r \notin RoomsMade /\ r \notin Live
  BY <1>a, <1>b
<1>3. Players' = Players \union {p}
  BY <1>1 DEF With, Players
<1>4. /\ rooms' \in [Live \union {r} -> SUBSET Players']
      /\ rooms'[r] = {p}
      /\ \A q \in Live : rooms'[q] = rooms[q]
  BY <1>1, <1>2, <1>3 DEF With, Live, Inv, TypeOK
<1>5. /\ p \notin Players /\ made'[p].key = k /\ Live' = Live \union {r}
      /\ Numbered(Players') /\ Numbered(RoomsMade')
      /\ made' \in [Players' -> [key : Key, at : Nat, room : RoomsMade']]
      /\ Live' \subseteq RoomsMade'
      /\ \A l \in DOMAIN records' : records'[l].at \in Nat
      /\ RecordsFit' /\ KeysKept'
      /\ \A q \in Players : made[q].key = k => made[q].room \notin Live \/ now - made[q].at > TTL
      /\ \A l \in DOMAIN leaves :
           /\ leaves[l].player \in Players'
           /\ ~ (leaves[l].room \in Live' /\ leaves[l].player \in rooms'[leaves[l].room])
  <2>1. \A q \in Live : rooms'[q] \subseteq rooms[q] \union {p}
    BY <1>4
  <2> HIDE DEF r
  <2> QED
    BY <1>1, <1>2, <1>4, <2>1, NewPlayerStep DEF r
<1>6. /\ roomsBy'[ip] = roomsBy[ip] \union {r}
      /\ \A i \in Ip : i # ip => roomsBy'[i] = roomsBy[i]
      /\ roomsBy' \in [Ip -> SUBSET Live']
  BY <1>1, <1>5 DEF Inv, TypeOK
<1>7. TypeOK'
  BY <1>1, <1>4, <1>5, <1>6 DEF Inv, TypeOK
<1>8. LeavesFit'
  BY <1>1, <1>5 DEF LeavesFit, IsMember
<1>9. CapacityIsLiveRooms'
  <2>1. UNION {roomsBy'[i] : i \in Ip} = Live'
    BY <1>5, <1>6 DEF Inv, CapacityIsLiveRooms
  <2>2. \A i \in Ip : r \notin roomsBy[i]
    BY <1>2 DEF Inv, TypeOK
  <2>3. \A i, j \in Ip : i # j => roomsBy'[i] \cap roomsBy'[j] = {}
    BY <1>6, <2>2 DEF Inv, CapacityIsLiveRooms
  <2>4. Cardinality(roomsBy'[ip]) <= MaxRoomsPerIp
    <3>1. IsFiniteSet(roomsBy[ip]) /\ Cardinality(roomsBy[ip]) \in Nat
      BY RoomsByFinite DEF Inv
    <3>2. Cardinality(roomsBy[ip]) < MaxRoomsPerIp
      BY <1>1, <3>1, RestAssumption DEF AtCapacity
    <3>3. Cardinality(roomsBy'[ip]) = Cardinality(roomsBy[ip]) + 1
      BY <1>6, <2>2, <3>1, FS_AddElement
    <3> QED
      BY <3>1, <3>2, <3>3, RestAssumption
  <2>5. \A i \in Ip : Cardinality(roomsBy'[i]) <= MaxRoomsPerIp
    BY <1>6, <2>4 DEF Inv, CapacityIsLiveRooms
  <2> QED
    BY <2>1, <2>3, <2>5 DEF CapacityIsLiveRooms
<1>10. OkNamesAMember'
  BY <1>1, <1>4, <1>5 DEF OkNamesAMember, IsMember
<1> QED
  BY <1>3, <1>5, <1>7, <1>8, <1>9, <1>10 DEF Inv

LEMMA JoinStep ==
  ASSUME Inv, NEW k \in Key, NEW form, NEW r \in RoomCode, Join(k, form, r)
  PROVE  /\ Inv' /\ OkNamesAMember'
         /\ \A q \in Players : made[q].key = k => made[q].room \notin Live \/ now - made[q].at > TTL
         /\ \A q \in Players' \ Players : made'[q].key = k
<1> DEFINE p == NewPlayer
<1>1. PICK evicted \in {{}} \union {{q} : q \in rooms[r]} :
        rooms' = [rooms EXCEPT ![r] = (@ \ evicted) \union {p}]
  BY DEF Join
<1>2. /\ k \notin DOMAIN Fresh(records)
      /\ r \in Live /\ r \in Nat
      /\ made' = With(made, p, [key |-> k, at |-> now, room |-> r])
      /\ records' = NewRecord("join", k, <<form, r>>, r, p)
      /\ UNCHANGED <<now, roomsBy, leaves>>
  BY DEF Join, RoomCode
<1>3. PICK code \in {"ok", "raised"} :
        answer' = [call |-> "join", key |-> k, code |-> code, room |-> r, player |-> p]
  BY DEF Join, Reply
<1>4. Players' = Players \union {p} /\ Live \union {r} = Live
  BY <1>2 DEF With, Players
<1>5. /\ rooms' \in [Live -> SUBSET Players']
      /\ p \in rooms'[r]
      /\ \A q \in Live : rooms'[q] \subseteq rooms[q] \union {p}
  BY <1>1, <1>2, <1>4 DEF Inv, TypeOK
<1>6. /\ p \notin Players /\ made'[p].key = k /\ Live' = Live \union {r}
      /\ Numbered(Players') /\ Numbered(RoomsMade')
      /\ made' \in [Players' -> [key : Key, at : Nat, room : RoomsMade']]
      /\ Live' \subseteq RoomsMade'
      /\ \A l \in DOMAIN records' : records'[l].at \in Nat
      /\ RecordsFit' /\ KeysKept'
      /\ \A q \in Players : made[q].key = k => made[q].room \notin Live \/ now - made[q].at > TTL
      /\ \A l \in DOMAIN leaves :
           /\ leaves[l].player \in Players'
           /\ ~ (leaves[l].room \in Live' /\ leaves[l].player \in rooms'[leaves[l].room])
  BY <1>2, <1>4, <1>5, NewPlayerStep
<1>7. TypeOK'
  BY <1>2, <1>4, <1>5, <1>6 DEF Inv, TypeOK
<1>8. LeavesFit'
  BY <1>2, <1>6 DEF LeavesFit, IsMember
<1>9. CapacityIsLiveRooms'
  BY <1>2, <1>4, <1>6 DEF Inv, CapacityIsLiveRooms
<1>10. OkNamesAMember'
  BY <1>2, <1>3, <1>5, <1>6 DEF OkNamesAMember, IsMember
<1> QED
  BY <1>4, <1>6, <1>7, <1>8, <1>9, <1>10 DEF Inv

\* A room goes, with its records and its place at its address.
LEMMA RoomGoes ==
  ASSUME Inv, NEW r \in Live, DeletedRoom(r), records' = DropRecords(records, r),
         UNCHANGED <<now, made>>
  PROVE  /\ Live' = Live \ {r} /\ Players' = Players /\ RoomsMade' = RoomsMade
         /\ \A q \in Live' : rooms'[q] = rooms[q]
         /\ rooms' \in [Live' -> SUBSET Players]
         /\ roomsBy' \in [Ip -> SUBSET Live']
         /\ \A l \in DOMAIN records' : records'[l].at \in Nat
         /\ RecordsFit' /\ KeysKept' /\ CapacityIsLiveRooms'
<1>1. /\ rooms' = Restrict(rooms, Live \ {r})
      /\ roomsBy' = [ip \in Ip |-> roomsBy[ip] \ {r}]
  BY DEF DeletedRoom, Without, Live
<1>2. Players' = Players /\ RoomsMade' = RoomsMade
  BY DEF Players, RoomsMade
<1>3. Live' = Live \ {r} /\ \A q \in Live' : rooms'[q] = rooms[q]
  BY <1>1 DEF Live, Restrict
<1>4. rooms' \in [Live' -> SUBSET Players]
  BY <1>1, <1>3 DEF Restrict, Inv, TypeOK
<1>5. roomsBy' \in [Ip -> SUBSET Live']
  BY <1>1, <1>3 DEF Inv, TypeOK
<1>6. /\ DOMAIN records' = {l \in DOMAIN records : records[l].room # r}
      /\ \A l \in DOMAIN records' : records'[l] = records[l]
  BY DEF DropRecords, Without, Restrict
<1>7. \A l \in DOMAIN records' : records'[l].at \in Nat
  BY <1>6 DEF Inv, TypeOK
<1>8. RecordsFit'
  BY <1>2, <1>3, <1>6 DEF Inv, RecordsFit
<1>9. CapacityIsLiveRooms'
  <2>1. UNION {roomsBy'[ip] : ip \in Ip} = Live'
    BY <1>1, <1>3 DEF Inv, CapacityIsLiveRooms
  <2>2. \A i, j \in Ip : i # j => roomsBy'[i] \cap roomsBy'[j] = {}
    BY <1>1 DEF Inv, CapacityIsLiveRooms
  <2>3. ASSUME NEW ip \in Ip
        PROVE  Cardinality(roomsBy'[ip]) <= MaxRoomsPerIp
    <3>1. IsFiniteSet(roomsBy[ip]) /\ Cardinality(roomsBy[ip]) \in Nat
      BY RoomsByFinite DEF Inv
    <3>2. roomsBy'[ip] \subseteq roomsBy[ip]
      BY <1>1
    <3>3. /\ Cardinality(roomsBy'[ip]) \in Nat
          /\ Cardinality(roomsBy'[ip]) <= Cardinality(roomsBy[ip])
      BY <3>1, <3>2, FS_Subset, FS_CardinalityType
    <3> QED
      BY <3>1, <3>3, RestAssumption DEF Inv, CapacityIsLiveRooms
  <2> QED
    BY <2>1, <2>2, <2>3 DEF CapacityIsLiveRooms
<1>10. KeysKept'
  <2> SUFFICES ASSUME NEW p \in Players, made[p].room \in Live \ {r}, now - made[p].at <= TTL
               PROVE  /\ made[p].key \in DOMAIN records'
                      /\ records'[made[p].key].at = made[p].at
                      /\ records'[made[p].key].room = made[p].room
    BY <1>2, <1>3 DEF KeysKept
  <2> QED
    BY <1>6 DEF Inv, KeysKept
<1> QED
  BY <1>2, <1>3, <1>4, <1>5, <1>7, <1>8, <1>9, <1>10

LEMMA LeaveStep ==
  ASSUME Inv, NEW k \in Key, NEW r \in RoomCode, NEW p \in Players, Leave(k, r, p)
  PROVE  Inv' /\ OkNamesAMember' /\ LeftIsLeft' /\ Players' = Players
<1> DEFINE left == [room |-> r, player |-> p, at |-> now]
<1>1. /\ r \in Live /\ p \in rooms[r]
      /\ TakeOut(r, p)
      /\ leaves' = With(Fresh(leaves), k, left)
      /\ UNCHANGED <<now, made>>
      /\ answer'.call = "leave" /\ answer'.room = r /\ answer'.player = p
  BY DEF Leave, IsMember, Reply
<1>2. Players' = Players /\ RoomsMade' = RoomsMade
  BY <1>1 DEF Players, RoomsMade
<1>3. /\ rooms' \in [Live' -> SUBSET Players] /\ Live' \subseteq Live
      /\ \A q \in Live' : rooms'[q] \subseteq rooms[q]
      /\ ~ (r \in Live' /\ p \in rooms'[r])
      /\ roomsBy' \in [Ip -> SUBSET Live']
      /\ \A l \in DOMAIN records' : records'[l].at \in Nat
      /\ RecordsFit' /\ KeysKept' /\ CapacityIsLiveRooms'
  <2>1. CASE rooms[r] = {p}
    <3>1. DeletedRoom(r) /\ records' = DropRecords(records, r)
      BY <1>1, <2>1 DEF TakeOut
    <3> QED
      BY <1>1, <3>1, RoomGoes
  <2>2. CASE rooms[r] # {p}
    <3>1. rooms' = [rooms EXCEPT ![r] = @ \ {p}] /\ UNCHANGED <<roomsBy, records>>
      BY <1>1, <2>2 DEF TakeOut
    <3>2. Live' = Live
      BY <3>1 DEF Live
    <3>3. /\ rooms' \in [Live -> SUBSET Players]
          /\ \A q \in Live : rooms'[q] \subseteq rooms[q]
          /\ p \notin rooms'[r]
      BY <1>1, <3>1 DEF Inv, TypeOK
    <3> QED
      BY <1>1, <1>2, <3>1, <3>2, <3>3
         DEF Inv, TypeOK, RecordsFit, KeysKept, CapacityIsLiveRooms
  <2> QED
    BY <2>1, <2>2
<1>4. \A l \in DOMAIN leaves' :
        \/ leaves'[l] = left
        \/ l \in DOMAIN leaves /\ leaves'[l] = leaves[l]
  BY <1>1 DEF With, Fresh, Restrict
<1>5. LeavesFit'
  <2> SUFFICES ASSUME NEW l \in DOMAIN leaves'
               PROVE  /\ leaves'[l].player \in Players
                      /\ ~ (leaves'[l].room \in Live' /\ leaves'[l].player \in rooms'[leaves'[l].room])
    BY <1>2 DEF LeavesFit, IsMember
  <2>1. CASE leaves'[l] = left
    BY <1>3, <2>1
  <2>2. CASE l \in DOMAIN leaves /\ leaves'[l] = leaves[l]
    BY <1>3, <2>2 DEF Inv, LeavesFit, IsMember
  <2> QED
    BY <1>4, <2>1, <2>2
<1>6. \A l \in DOMAIN leaves' : leaves'[l].at \in Nat
  BY <1>4 DEF Inv, TypeOK
<1>7. TypeOK'
  BY <1>1, <1>2, <1>3, <1>6 DEF Inv, TypeOK
<1>8. LeftIsLeft' /\ OkNamesAMember'
  BY <1>1, <1>3, <1>5 DEF LeftIsLeft, LeavesFit, OkNamesAMember, IsMember
<1> QED
  BY <1>2, <1>3, <1>5, <1>7, <1>8 DEF Inv

\* A room loses players to an eviction, or goes.
LEMMA RoomStep ==
  ASSUME Inv, NEW r \in Live, ExpireRoom(r) \/ \E S \in SUBSET rooms[r] : Evict(r, S)
  PROVE  Inv' /\ OkNamesAMember' /\ LeftIsLeft' /\ Players' = Players
<1>1. UNCHANGED <<now, made, leaves>> /\ answer' = NoAnswer
  BY DEF ExpireRoom, Evict
<1>2. Players' = Players /\ RoomsMade' = RoomsMade
  BY <1>1 DEF Players, RoomsMade
<1>3. /\ rooms' \in [Live' -> SUBSET Players] /\ Live' \subseteq Live
      /\ \A q \in Live' : rooms'[q] \subseteq rooms[q]
      /\ roomsBy' \in [Ip -> SUBSET Live']
      /\ \A l \in DOMAIN records' : records'[l].at \in Nat
      /\ RecordsFit' /\ KeysKept' /\ CapacityIsLiveRooms'
  <2>1. CASE ExpireRoom(r)
    BY <2>1, RoomGoes DEF ExpireRoom
  <2>2. CASE \E S \in SUBSET rooms[r] : Evict(r, S)
    <3> PICK S \in SUBSET rooms[r] : Evict(r, S)
      BY <2>2
    <3>1. rooms' = [rooms EXCEPT ![r] = @ \ S] /\ UNCHANGED <<roomsBy, records>>
      BY DEF Evict
    <3>2. Live' = Live
      BY <3>1 DEF Live
    <3>3. rooms' \in [Live -> SUBSET Players] /\ \A q \in Live : rooms'[q] \subseteq rooms[q]
      BY <3>1 DEF Inv, TypeOK
    <3> QED
      BY <1>1, <1>2, <3>1, <3>2, <3>3
         DEF Inv, TypeOK, RecordsFit, KeysKept, CapacityIsLiveRooms
  <2> QED
    BY <2>1, <2>2
<1>4. TypeOK'
  BY <1>1, <1>2, <1>3 DEF Inv, TypeOK
<1>5. LeavesFit'
  BY <1>1, <1>2, <1>3 DEF Inv, LeavesFit, IsMember
<1>6. LeftIsLeft' /\ OkNamesAMember'
  BY <1>1, <1>5 DEF LeftIsLeft, LeavesFit, OkNamesAMember, NoAnswer
<1> QED
  BY <1>2, <1>3, <1>4, <1>5, <1>6 DEF Inv

LEMMA TickStep ==
  ASSUME Inv, Tick
  PROVE  Inv' /\ OkNamesAMember' /\ LeftIsLeft' /\ Players' = Players
<1>1. now' = now + 1 /\ UNCHANGED <<rooms, made, roomsBy, records, leaves>> /\ answer' = NoAnswer
  BY DEF Tick
<1>2. Players' = Players /\ Live' = Live /\ RoomsMade' = RoomsMade
  BY <1>1 DEF Players, Live, RoomsMade
<1>3. TypeOK'
  BY <1>1, <1>2 DEF Inv, TypeOK
<1>4. KeysKept'
  <2> SUFFICES ASSUME NEW p \in Players, made[p].room \in Live, now' - made[p].at <= TTL
               PROVE  /\ made[p].key \in DOMAIN records
                      /\ records[made[p].key].at = made[p].at
                      /\ records[made[p].key].room = made[p].room
    BY <1>1, <1>2 DEF KeysKept
  <2>1. now - made[p].at <= TTL
    BY <1>1, RestAssumption DEF Inv, TypeOK
  <2> QED
    BY <2>1 DEF Inv, KeysKept
<1>5. RecordsFit' /\ LeavesFit' /\ CapacityIsLiveRooms'
  BY <1>1, <1>2 DEF Inv, RecordsFit, LeavesFit, IsMember, CapacityIsLiveRooms
<1>6. LeftIsLeft' /\ OkNamesAMember'
  BY <1>1, <1>5 DEF LeftIsLeft, LeavesFit, OkNamesAMember, NoAnswer
<1> QED
  BY <1>2, <1>3, <1>4, <1>5, <1>6 DEF Inv

-----------------------------------------------------------------------------
\* Calls that change nothing but their answer and the records they look at.

\* A replay that confirms names a player who is there, and was made with the
\* key.
LEMMA ReplayNames ==
  ASSUME Inv, NEW call, NEW k, NEW form, Replay(call, k, form), UNCHANGED <<rooms, made>>
  PROVE  answer'.call = call /\ OkNamesAMember'
<1> DEFINE rec == records[k]
<1>1. k \in DOMAIN records
  BY DEF Replay, Fresh, Restrict
<1>2. /\ rec.room \in Live /\ rec.player \in Players /\ made[rec.player].key = k
  BY <1>1 DEF Inv, RecordsFit
<1>3. PICK code \in {"ok", "gone", "reused"} :
        /\ answer' = [call |-> call, key |-> k, code |-> code, room |-> rec.room, player |-> rec.player]
        /\ code = "ok" => rec.room \in Live /\ rec.player \in rooms[rec.room]
  BY DEF Replay, Reply
<1> QED
  BY <1>2, <1>3 DEF OkNamesAMember, IsMember, Live

LEMMA QuietCreateStep ==
  ASSUME Inv, NEW k \in Key, NEW form, NEW ip \in Ip,
         CreateRefused(k, ip) \/ CreateReplayed(k, form, ip)
  PROVE  Inv' /\ OkNamesAMember' /\ LeftIsLeft' /\ Players' = Players
<1>1. /\ UNCHANGED <<now, rooms, made, roomsBy, leaves>>
      /\ records' \in {records, Fresh(records)}
  BY DEF CreateRefused, CreateReplayed
<1>2. Inv' /\ Players' = Players
  BY <1>1, QuietStep DEF Players
<1>3. answer'.call = "create" /\ OkNamesAMember'
  <2>1. CASE CreateRefused(k, ip)
    BY <2>1 DEF CreateRefused, Reply, OkNamesAMember
  <2>2. CASE CreateReplayed(k, form, ip)
    BY <1>1, <2>2, ReplayNames DEF CreateReplayed
  <2> QED
    BY <2>1, <2>2
<1> QED
  BY <1>2, <1>3 DEF LeftIsLeft, Inv, LeavesFit

LEMMA QuietJoinStep ==
  ASSUME Inv, NEW k \in Key, NEW form, NEW r \in RoomCode,
         JoinReplayed(k, form, r) \/ JoinRefused(k, form, r)
  PROVE  Inv' /\ OkNamesAMember' /\ LeftIsLeft' /\ Players' = Players
<1>1. /\ UNCHANGED <<now, rooms, made, roomsBy, leaves>>
      /\ records' \in {records, Fresh(records)}
  BY DEF JoinRefused, JoinReplayed
<1>2. Inv' /\ Players' = Players
  BY <1>1, QuietStep DEF Players
<1>3. answer'.call = "join" /\ OkNamesAMember'
  <2>1. CASE JoinRefused(k, form, r)
    BY <2>1 DEF JoinRefused, Reply, OkNamesAMember
  <2>2. CASE JoinReplayed(k, form, r)
    BY <1>1, <2>2, ReplayNames DEF JoinReplayed
  <2> QED
    BY <2>1, <2>2
<1> QED
  BY <1>2, <1>3 DEF LeftIsLeft, Inv, LeavesFit

LEMMA QuietLeaveStep ==
  ASSUME Inv, NEW k \in Key, NEW r \in RoomCode, NEW p \in Players,
         LeaveReplayed(k, r, p) \/ LeaveWithoutRoom(k, r, p) \/ LeaveFails(k, r, p)
  PROVE  Inv' /\ OkNamesAMember' /\ LeftIsLeft' /\ Players' = Players
<1>1. /\ UNCHANGED <<now, rooms, made, roomsBy, records>>
      /\ leaves' \in {leaves, Fresh(leaves)}
  BY DEF LeaveReplayed, LeaveWithoutRoom, LeaveFails
<1>2. Inv' /\ Players' = Players /\ Live' = Live
  BY <1>1, QuietStep DEF Players, Live
<1>3. PICK code \in {"applied", "reused", "gone"} :
        /\ answer' = [call |-> "leave", key |-> k, code |-> code, room |-> r, player |-> p]
        /\ code = "applied" => k \in DOMAIN leaves /\ leaves[k].room = r /\ leaves[k].player = p
  BY DEF LeaveReplayed, LeaveWithoutRoom, LeaveFails, Reply, KnownLeave, Fresh, Restrict
<1>4. LeftIsLeft'
  BY <1>1, <1>2, <1>3 DEF LeftIsLeft, Inv, LeavesFit, IsMember
<1> QED
  BY <1>2, <1>3, <1>4 DEF OkNamesAMember

LEMMA RateStep ==
  ASSUME Inv, NEW call \in {"create", "join"}, NEW k \in Key, RateRefused(call, k)
  PROVE  Inv' /\ OkNamesAMember' /\ LeftIsLeft' /\ Players' = Players
<1>1. UNCHANGED <<now, rooms, made, roomsBy, records, leaves>>
  BY DEF RateRefused
<1>2. Inv' /\ Players' = Players
  BY <1>1, QuietStep DEF Players
<1>3. answer'.call \in {"create", "join"} /\ answer'.code = "rate"
  BY DEF RateRefused, Reply
<1> QED
  BY <1>2, <1>3 DEF OkNamesAMember, LeftIsLeft, Inv, LeavesFit

-----------------------------------------------------------------------------
Safe == Inv /\ OkNamesAMember /\ LeftIsLeft

\* What OnePlayerPerKey says of a step.
MadeOnce == \A q \in Players' \ Players : \A p \in Players :
  made[p].key = made'[q].key => made[p].room \notin Live \/ now - made[p].at > TTL

LEMMA SafeNext == Safe /\ [Next]_vars => Safe' /\ MadeOnce
<1> SUFFICES ASSUME Safe, [Next]_vars
             PROVE  Safe' /\ MadeOnce
  OBVIOUS
<1> Inv
  BY DEF Safe
<1> USE DEF Safe, MadeOnce
<1>1. CASE Tick
  BY <1>1, TickStep
<1>2. CASE \E k \in Key, ip \in Ip : CreateRefused(k, ip)
  BY <1>2, QuietCreateStep
<1>3. ASSUME NEW k \in Key, NEW form \in Form, NEW ip \in Ip,
             CreateReplayed(k, form, ip) \/ Create(k, form, ip)
      PROVE  Safe' /\ MadeOnce
  <2>1. CASE CreateReplayed(k, form, ip)
    BY <2>1, QuietCreateStep
  <2>2. CASE Create(k, form, ip)
    <3>1. answer'.call = "create"
      BY <2>2 DEF Create, Reply
    <3> QED
      BY <2>2, <3>1, CreateStep DEF LeftIsLeft, Inv, LeavesFit
  <2> QED
    BY <1>3, <2>1, <2>2
<1>4. ASSUME NEW k \in Key, NEW form \in Form, NEW r \in RoomCode,
             JoinReplayed(k, form, r) \/ JoinRefused(k, form, r) \/ Join(k, form, r)
      PROVE  Safe' /\ MadeOnce
  <2>1. CASE JoinReplayed(k, form, r) \/ JoinRefused(k, form, r)
    BY <2>1, QuietJoinStep
  <2>2. CASE Join(k, form, r)
    <3>1. answer'.call = "join"
      BY <2>2 DEF Join, Reply
    <3> QED
      BY <2>2, <3>1, JoinStep DEF LeftIsLeft, Inv, LeavesFit
  <2> QED
    BY <1>4, <2>1, <2>2
<1>5. ASSUME NEW k \in Key, NEW r \in RoomCode, NEW p \in Players,
             \/ LeaveReplayed(k, r, p) \/ LeaveWithoutRoom(k, r, p)
             \/ LeaveFails(k, r, p) \/ Leave(k, r, p)
      PROVE  Safe' /\ MadeOnce
  BY <1>5, QuietLeaveStep, LeaveStep
<1>6. CASE \E call \in {"create", "join"}, k \in Key : RateRefused(call, k)
  BY <1>6, RateStep
<1>7. CASE \E r \in Live : ExpireRoom(r) \/ \E S \in SUBSET rooms[r] : Evict(r, S)
  BY <1>7, RoomStep
<1>8. CASE UNCHANGED vars
  <2>1. Inv' /\ Players' = Players
    BY <1>8, QuietStep DEF vars, Players
  <2> QED
    BY <1>8, <2>1 DEF vars, OkNamesAMember, LeftIsLeft, IsMember, Live
<1> QED
  BY <1>1, <1>2, <1>3, <1>4, <1>5, <1>6, <1>7, <1>8 DEF Next

LEMMA SafeInit == Init => Safe
  BY InvInit DEF Init, NoAnswer, Safe, OkNamesAMember, LeftIsLeft, Inv, LeavesFit

LEMMA AlwaysSafe == Spec => []Safe
  BY SafeInit, SafeNext, PTL DEF Spec

\* A retry, however often it is sent and whenever it arrives, makes no second
\* room and no second player, unless the room of the first was closed or its
\* record has aged out (create_room_idempotent, join_room_idempotent).
THEOREM RetriesMakeNobody == Spec => OnePlayerPerKey
<1>1. Safe /\ [Next]_vars =>
        [\A q \in DOMAIN made' \ Players : \A p \in Players :
           made[p].key = made'[q].key =>
             made[p].room \notin Live \/ now - made[p].at > TTL]_vars
  BY SafeNext DEF MadeOnce, Players
<1> QED
  BY <1>1, AlwaysSafe, PTL DEF Spec, OnePlayerPerKey

\* Who is told that a create or a join succeeded is told of a player who is in
\* the room (the replays of create_room_idempotent, join_room_idempotent).
THEOREM ConfirmedIsThere == Spec => []OkNamesAMember
<1>1. Safe => OkNamesAMember
  BY DEF Safe
<1> QED
  BY <1>1, AlwaysSafe, PTL

\* Who has left stays out, whatever is replayed (leave_room_idempotent).
THEOREM LeftStaysOut == Spec => []LeftIsLeft
<1>1. Safe => LeftIsLeft
  BY DEF Safe
<1> QED
  BY <1>1, AlwaysSafe, PTL

\* An address is charged with the rooms that exist, and with no more of them
\* than its limit (admit_room, remove_room, _delete_room).
THEOREM ChargedForLiveRooms == Spec => []CapacityIsLiveRooms
<1>1. Safe => CapacityIsLiveRooms
  BY DEF Safe, Inv
<1> QED
  BY <1>1, AlwaysSafe, PTL

\* No record outlives its room (_delete_room).
THEOREM RecordsGoWithTheRoom == Spec => []RecordsNameLiveRooms
<1>1. Safe => RecordsNameLiveRooms
  BY DEF Safe, Inv, RecordsFit, RecordsNameLiveRooms
<1> QED
  BY <1>1, AlwaysSafe, PTL

\* What JoinRetryConfirmed says of a step.
JoinConfirmed == \A k \in DOMAIN Fresh(records) :
  LET rec == records[k] IN
  rec.call = "join" /\ IsMember(rec.room, rec.player)
    /\ answer'.call = "join" /\ answer'.key = k =>
      answer'.code \in {"ok", "reused", "rate"}

LEMMA JoinConfirmedNext == Next => JoinConfirmed
<1> SUFFICES ASSUME Next, NEW k \in DOMAIN Fresh(records),
                    IsMember(records[k].room, records[k].player),
                    answer'.call = "join", answer'.key = k
             PROVE  answer'.code \in {"ok", "reused", "rate"}
  BY DEF JoinConfirmed
<1>1. ASSUME NEW l \in Key, NEW form \in Form, NEW r \in RoomCode, JoinReplayed(l, form, r)
      PROVE  answer'.code \in {"ok", "reused", "rate"}
  <2>1. l = k
    BY <1>1 DEF JoinReplayed, Replay, Reply
  <2> QED
    BY <1>1, <2>1 DEF JoinReplayed, Replay, Reply, IsMember
<1>2. ASSUME NEW l \in Key, NEW form \in Form, NEW r \in RoomCode,
             JoinRefused(l, form, r) \/ Join(l, form, r)
      PROVE  FALSE
  BY <1>2 DEF JoinRefused, Join, Reply
<1>3. ASSUME NEW l \in Key, NEW call \in {"create", "join"}, RateRefused(call, l)
      PROVE  answer'.code \in {"ok", "reused", "rate"}
  BY <1>3 DEF RateRefused, Reply
<1>4. ASSUME NEW l \in Key, NEW form \in Form, NEW ip \in Ip,
             CreateRefused(l, ip) \/ CreateReplayed(l, form, ip) \/ Create(l, form, ip)
      PROVE  FALSE
  <2>1. answer'.call = "create"
    BY <1>4 DEF CreateRefused, CreateReplayed, Create, Replay, Reply
  <2> QED
    BY <2>1
<1>5. ASSUME NEW l \in Key, NEW r \in RoomCode, NEW p \in Players,
             \/ LeaveReplayed(l, r, p) \/ LeaveWithoutRoom(l, r, p)
             \/ LeaveFails(l, r, p) \/ Leave(l, r, p)
      PROVE  FALSE
  <2>1. answer'.call = "leave"
    BY <1>5 DEF LeaveReplayed, LeaveWithoutRoom, LeaveFails, Leave, Reply
  <2> QED
    BY <2>1
<1>6. ~ (Tick \/ \E r \in Live : ExpireRoom(r) \/ \E S \in SUBSET rooms[r] : Evict(r, S))
  BY DEF Tick, ExpireRoom, Evict, NoAnswer
<1>7. \A l \in Key, ip \in Ip : ~ CreateRefused(l, ip)
  BY DEF CreateRefused, Reply
<1> QED
  BY <1>1, <1>2, <1>3, <1>4, <1>5, <1>6, <1>7 DEF Next

\* A join whose broadcast failed, or whose answer was lost, is confirmed when it
\* is retried, as long as its record is fresh and its player is there
\* (join_room_idempotent).
THEOREM RetriedJoinsAreConfirmed == Spec => JoinRetryConfirmed
<1>1. [Next]_vars =>
        [\A k \in DOMAIN Fresh(records) :
           LET rec == records[k] IN
           rec.call = "join" /\ IsMember(rec.room, rec.player)
             /\ answer'.call = "join" /\ answer'.key = k =>
               answer'.code \in {"ok", "reused", "rate"}]_vars
  BY JoinConfirmedNext DEF JoinConfirmed
<1> QED
  BY <1>1, PTL DEF Spec, JoinRetryConfirmed
=============================================================================
