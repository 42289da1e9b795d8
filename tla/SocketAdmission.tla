--------------------------- MODULE SocketAdmission ---------------------------
(***************************************************************************)
(* How OperationalControls counts the sockets of an address.               *)
(*                                                                         *)
(* There is one entry per player, for the socket admitted last.  The       *)
(* endpoint of a replaced socket goes on until it has read that its socket *)
(* was closed, and then releases what it was admitted for; a deleted room  *)
(* takes its entries along although its sockets are still served; and an   *)
(* endpoint that found its room may have it deleted while it waits for the *)
(* first message, and is admitted to a room that is gone.                  *)
(***************************************************************************)
EXTENDS Integers, FiniteSets, Functions

CONSTANTS
  Room, Player,
  Ip,            \* addresses of clients
  Socket,        \* sockets of a behaviour (a bound); id(websocket)
  MaxSocketsPerIp

\* The limit is positive (config.py).
AdmissionParameters == MaxSocketsPerIp \in Nat \ {0}

VARIABLES
  store,     \* the rooms that exist
  endpoint,  \* the endpoints that run: stage, room, player and address
  sockets,   \* _sockets: the entry of a player
  last       \* the socket of each player that was admitted last, as long as
             \* its room has not been deleted since

vars == <<store, endpoint, sockets, last>>

Principal == Room \X Player
Running == DOMAIN endpoint
Principals == DOMAIN sockets

Init ==
  /\ store = Room
  /\ endpoint = <<>>
  /\ sockets = <<>>
  /\ last = <<>>

Put(f, x, v) == [y \in DOMAIN f \union {x} |-> IF y = x THEN v ELSE f[y]]

EntriesOf(ip) == {pr \in Principals : sockets[pr].ip = ip}

-----------------------------------------------------------------------------
\* The room exists, and the endpoint waits for the message that says who it
\* is.  The address of a player may change from socket to socket.
Open(s, pr, ip) ==
  /\ s \notin Running
  /\ pr[1] \in store
  /\ endpoint' = Put(endpoint, s, [stage |-> "waiting", who |-> pr, ip |-> ip])
  /\ UNCHANGED <<store, sockets, last>>

\* The message does not come or is refused: the endpoint ends unadmitted.
Reject(s) ==
  /\ s \in Running /\ endpoint[s].stage = "waiting"
  /\ endpoint' = Restrict(endpoint, Running \ {s})
  /\ UNCHANGED <<store, sockets, last>>

\* The limit is looked at only when the player has no entry.
MayAdmit(s) ==
  \/ endpoint[s].who \in Principals
  \/ Cardinality(EntriesOf(endpoint[s].ip)) < MaxSocketsPerIp

\* admit_socket.  (If it refuses, the endpoint ends as in Reject.)
Admit(s) ==
  LET e == endpoint[s] IN
  /\ s \in Running /\ e.stage = "waiting"
  /\ MayAdmit(s)
  /\ sockets' = Put(sockets, e.who, [ip |-> e.ip, id |-> s])
  /\ last' = Put(last, e.who, s)
  /\ endpoint' = [endpoint EXCEPT ![s].stage = "served"]
  /\ UNCHANGED store

\* mutant of Release: whoever ends takes the entry of the player along
ReleaseAny(s) == Restrict(sockets, Principals \ {endpoint[s].who})

\* mutant of Release: nothing is released for a room that is gone
ReleaseInStore(s) ==
  IF endpoint[s].who[1] \notin store THEN sockets
  ELSE Restrict(sockets, {pr \in Principals : ~ (pr = endpoint[s].who /\ sockets[pr].id = s)})

\* release_socket: only the entry of this very socket.
Release(s) ==
  Restrict(sockets, {pr \in Principals : ~ (pr = endpoint[s].who /\ sockets[pr].id = s)})

\* The finally clause of an endpoint that was admitted.
End(s) ==
  /\ s \in Running /\ endpoint[s].stage = "served"
  /\ sockets' = Release(s)
  /\ last' = Restrict(last, {pr \in DOMAIN last : last[pr] # s})
  /\ endpoint' = Restrict(endpoint, Running \ {s})
  /\ UNCHANGED store

RemoveRoom(r) == Restrict(sockets, {pr \in Principals : pr[1] # r})

DeleteRoom(r) ==
  /\ r \in store
  /\ store' = store \ {r}
  /\ sockets' = RemoveRoom(r)
  /\ last' = Restrict(last, {pr \in DOMAIN last : pr[1] # r})
  /\ UNCHANGED endpoint

Next ==
  \/ \E s \in Socket : Reject(s) \/ Admit(s) \/ End(s)
  \/ \E s \in Socket, pr \in Principal, ip \in Ip : Open(s, pr, ip)
  \/ \E r \in Room : DeleteRoom(r)

Spec == Init /\ [][Next]_vars

-----------------------------------------------------------------------------
(***************************************************************************)
(* Properties.                                                             *)
(***************************************************************************)

Endpoint == [stage : {"waiting", "served"}, who : Principal, ip : Ip]
Entry == [ip : Ip, id : Socket]
Partial(f, S, T) == DOMAIN f \subseteq S /\ f \in [DOMAIN f -> T]

TypeOK ==
  /\ store \subseteq Room
  /\ Partial(endpoint, Socket, Endpoint)
  /\ Partial(sockets, Principal, Entry)
  /\ Partial(last, Principal, Socket)

\* Every entry is that of a running endpoint, which will release it: what an
\* address is charged with never stays charged, although rooms are deleted and
\* sockets replaced in between (admit_socket, release_socket, remove_room).
EntriesAreReleased == \A pr \in Principals :
  LET s == sockets[pr].id IN
  /\ s \in Running
  /\ endpoint[s] = [stage |-> "served", who |-> pr, ip |-> sockets[pr].ip]

\* The socket that a player opened last is counted for as long as it is served
\* in an existing room: the late end of a replaced one does not uncount it.
LatestIsCounted == \A pr \in DOMAIN last :
  pr \in Principals /\ sockets[pr].id = last[pr]

\* config.py, max_sockets_per_ip.
WithinSocketLimit == \A ip \in Ip : Cardinality(EntriesOf(ip)) <= MaxSocketsPerIp
=============================================================================
