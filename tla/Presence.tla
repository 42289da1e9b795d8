------------------------------ MODULE Presence ------------------------------
(***************************************************************************)
(* Who is there: the sockets of one room's players, the registry that      *)
(* knows one socket per player, the grace timers of those who lost theirs, *)
(* and the broadcasts, which find out who cannot be reached any more.      *)
(*                                                                         *)
(* A thread is a coroutine of the server: the endpoint of a socket, a      *)
(* grace task, or the handler of a REST call.  Threads are interleaved at  *)
(* their awaits: on the room's lock, which is granted in the order in      *)
(* which it was asked for (asyncio.Lock), on a client's next message, on a *)
(* timer and on a send, of which there is one per player in a broadcast.   *)
(*                                                                         *)
(* Players are numbered in the order of the players list, in which         *)
(* broadcasts go through them.  What a command does to the game is the     *)
(* module RoomGame's; here it changes something, and tells everybody.      *)
(***************************************************************************)
EXTENDS Integers, Sequences, FiniteSetsExt

CONSTANTS
  Players,  \* the number of players in the room
  Sockets,  \* how many sockets a player opens, one after the other (a bound)
  Leavers,  \* the players who may leave by REST
  Lossy     \* the kinds of broadcasts in which a send may fail

ASSUME PresenceAssumption ==
  /\ Players \in Nat \ {0}
  /\ Sockets \in [1..Players -> Nat]
  /\ Leavers \subseteq 1..Players
  /\ Leavers # 1..Players        \* the room is not deleted
  /\ Lossy \subseteq {"command", "greeting", "farewell", "grace", "rest", "inform", "ack"}

Player == 1..Players

\* Threads.  Of a player's two grace tasks one may be live.
Socket == UNION {{"socket"} \X {p} \X (1..Sockets[p]) : p \in Player}
Timer  == {"timer"} \X Player \X {1, 2}
Rest   == <<"rest", 0, 0>>
None   == <<"none", 0, 0>>
Thread == Socket \union Timer \union {Rest}

Owner(t) == t[2]

VARIABLES
  member,    \* room.players
  present,   \* is_connected, also of the Player objects of who has left
  excluded,  \* voting_excluded
  epoch,     \* connection_epoch
  registry,  \* the registered socket of each player, or None
  admitted,  \* the socket operational_controls counts for each player
  open,      \* the sockets that are open
  pc,        \* where the endpoint of each socket stands
  timer,     \* the grace tasks: where they stand and their connection_epoch
  entry,     \* grace_tasks: the task of each player, or None
  holder,    \* the endpoint whose command holds the lock, or None
  queue,     \* the threads that wait for the lock
  cast,      \* the broadcast each thread is in
  told,      \* the players the latest state of the room has been sent to
  missed     \* those who may never be sent it: the broadcast that finds them lost
             \* goes on to mark others when they are back already; or everybody,
             \* when the broadcast raises, or its task is cancelled for nothing

flags == <<member, present, excluded, epoch>>
sockets == <<registry, admitted, open, pc>>
timers == <<timer, entry>>
news == <<told, missed>>
vars == <<flags, sockets, timers, holder, queue, cast, news>>

Place == { "unopened", "registered", "joining", "greeting", "serving", "queued",
           "commanding", "acking", "closing", "marking", "farewell", "ended" }

\* left: not sent to yet; to, via: the player and the socket of the send under
\* way; stale: could not be reached; unmarked: of these, not marked absent yet.
NoCast == [phase |-> "none", left |-> {}, to |-> 0, via |-> None, stale |-> {}, unmarked |-> {}]
Sending(S) == [NoCast EXCEPT !.phase = "send", !.left = S]

\* mutant of Informing: nobody is informed
InformingNobody(S, stale) == [NoCast EXCEPT !.phase = "inform", !.stale = stale]

Informing(S, stale) == [NoCast EXCEPT !.phase = "inform", !.left = S, !.stale = stale]

NoTimer == [at |-> "free", epoch |-> 0]

Init ==
  /\ member = Player
  /\ present = {}
  /\ excluded = {}
  /\ epoch = [p \in Player |-> 0]
  /\ registry = [p \in Player |-> None]
  /\ admitted = [p \in Player |-> None]
  /\ open = {}
  /\ pc = [s \in Socket |-> "unopened"]
  /\ timer = [t \in Timer |-> NoTimer]
  /\ entry = [p \in Player |-> None]
  /\ holder = None
  /\ queue = <<>>
  /\ cast = [t \in Thread |-> NoCast]
  /\ told = {}
  /\ missed = {}

-----------------------------------------------------------------------------
(***************************************************************************)
(* The lock.                                                               *)
(***************************************************************************)

\* Nobody has the lock or waits for it: who asks for it now does not wait.
LockIdle == holder = None /\ queue = <<>>

\* t is the next to enter the lock, and may.
Granted(t) == holder = None /\ queue # <<>> /\ Head(queue) = t

\* mutant of Enqueue: the newest goes first
EnqueueFirst(t) == ~LockIdle /\ queue' = <<t>> \o queue

\* t has to wait for the lock.
Enqueue(t) == ~LockIdle /\ queue' = Append(queue, t)

-----------------------------------------------------------------------------
(***************************************************************************)
(* Marking players and their timers.                                       *)
(***************************************************************************)

\* The tasks cancel_grace ends for the players S, and what is left of them.
Tasks(S) == {entry[p] : p \in S} \ {None}
WithoutTasks(q, S) ==
  LET rest[i \in 0..Len(q)] == IF i = 0 THEN <<>>
                               ELSE IF q[i] \in Tasks(S) THEN rest[i - 1]
                               ELSE Append(rest[i - 1], q[i])
  IN  rest[Len(q)]
CastsWithout(S) == [t \in Thread |-> IF t \in Tasks(S) THEN NoCast ELSE cast[t]]

\* mutant of TimersWithout: the tasks are forgotten, not cancelled
TimersKept(S) == timer

TimersWithout(S) == [t \in Timer |-> IF t \in Tasks(S) THEN NoTimer ELSE timer[t]]

\* mark_disconnected_locked for each of S: one new task each in the place of
\* the old one.
FreshTask(p) == CHOOSE t \in Timer : Owner(t) = p /\ TimersWithout({p})[t] = NoTimer

\* mutant of EntryAfter: no new task is remembered
EntryOnlyCancelled(S) == [p \in Player |-> IF p \in S THEN None ELSE entry[p]]

EntryAfter(S) == [p \in Player |-> IF p \in S THEN FreshTask(p) ELSE entry[p]]

\* mutant of TimerAfter: no new task is started
TimerOnlyCancelled(S) == TimersWithout(S)

TimerAfter(S) ==
  [t \in Timer |-> IF Owner(t) \in S /\ t = FreshTask(Owner(t))
                   THEN [at |-> "asleep", epoch |-> epoch[Owner(t)]]
                   ELSE TimersWithout(S)[t]]

-----------------------------------------------------------------------------
(***************************************************************************)
(* Broadcasts: _broadcast_snapshot and its like.                           *)
(***************************************************************************)

Kind(t) ==
  IF cast[t].phase = "inform" THEN IF t \in Socket /\ pc[t] = "acking" THEN "ack" ELSE "inform"
  ELSE IF t \in Socket THEN IF pc[t] = "commanding" THEN "command" ELSE pc[t]
  ELSE IF t \in Timer THEN "grace" ELSE "rest"

\* There is a new state of the room, and nobody has been sent it yet.
News == told' = {} /\ missed' = {}

Lookup(t) == cast[t].phase \in {"send", "inform"} /\ cast[t].via = None
Reachable(t) == {p \in cast[t].left : registry[p] # None}

\* The next player with a registered socket is sent the room's snapshot;
\* those before it are passed over.
SendBegins(t) ==
  /\ Lookup(t)
  /\ Reachable(t) # {}
  /\ LET c    == cast[t]
         next == Min(Reachable(t))
         over == {p \in c.left : p < next}
     IN  /\ cast' = [cast EXCEPT ![t] =
                [c EXCEPT !.to = next, !.via = registry[next], !.left = @ \ (over \union {next}),
                          !.stale = IF c.phase = "send" THEN @ \union (over \intersect present)
                                    ELSE @]]
         /\ told' = told \union {next}
  /\ UNCHANGED <<flags, sockets, timers, holder, queue, missed>>

\* The send is over.  A socket it failed on is dropped from the registry,
\* unless another one has taken its place (which is told all when it joins), and
\* its player is remembered.
SendEnds(t, sent) ==
  /\ cast[t].via # None
  /\ sent \/ Kind(t) \in Lossy
  /\ LET c == cast[t]
     IN  /\ cast' = [cast EXCEPT ![t] =
                [c EXCEPT !.to = 0, !.via = None,
                          !.stale = IF ~sent /\ c.phase = "send" THEN @ \union ({c.to} \intersect present)
                                    ELSE @]]
         /\ registry' = IF sent \/ registry[c.to] # c.via THEN registry
                        ELSE [registry EXCEPT ![c.to] = None]
         /\ told' = IF sent \/ registry[c.to] # c.via THEN told ELSE told \ {c.to}
  /\ UNCHANGED <<flags, admitted, open, pc, timers, holder, queue, missed>>

\* Nobody is left to send to.
SendsOver(t) == Lookup(t) /\ Reachable(t) = {}

\* Who was connected and could not be reached.
Lost(t) == IF cast[t].phase = "inform" THEN {}
           ELSE cast[t].stale \union (cast[t].left \intersect present)

\* Where an endpoint goes on after its broadcast ...
After == [greeting |-> "serving", commanding |-> "acking", acking |-> "serving",
          farewell |-> "ended"]

\* ... and where when it raises: a greeting takes its socket along.
AfterRaise == [greeting |-> "closing", commanding |-> "serving", farewell |-> "ended"]

\* The thread t is done with its broadcast; the next step of the thread.
CastOver(t) ==
  /\ SendsOver(t)
  /\ Lost(t) = {}
  /\ cast' = [cast EXCEPT ![t] = IF t \in Socket /\ pc[t] = "commanding"
                                 THEN Informing({Owner(t)}, {}) ELSE NoCast]
  /\ pc' = IF t \in Socket THEN [pc EXCEPT ![t] = After[@]] ELSE pc
  /\ holder' = IF holder = t THEN None ELSE holder
  /\ timer' = IF t \in Timer THEN [timer EXCEPT ![t] = NoTimer] ELSE timer
  /\ entry' = IF t \in Timer /\ entry[Owner(t)] = t
              THEN [entry EXCEPT ![Owner(t)] = None] ELSE entry
  /\ UNCHANGED <<flags, registry, admitted, open, queue, news>>

\* Those of S a broadcast marks before it meets one who has left, and raises.
Markable(S) == {p \in S : \A q \in S : q <= p => q \in member}

\* In the lock, with q waiting for it: t marks the players S, or only the first
\* of them when others wait.  A player who has left cannot be marked; when all
\* are marked, the others are informed.
Marks(t, stale, S, q) ==
  LET first   == {Min(S)} \intersect member
      waiting == WithoutTasks(q, first)
      batch   == IF waiting = <<>> THEN Markable(S) ELSE first
      rest    == S \ batch
      raises  == rest # {} /\ (waiting = <<>> \/ batch = {})
  IN  /\ present' = present \ batch
      /\ told' = IF batch = {} THEN told ELSE {}
      /\ missed' = IF raises THEN Player ELSE IF rest = {} THEN stale \ batch ELSE {}
      /\ entry' = [p \in Player |->
           IF raises /\ entry[p] = t THEN None ELSE EntryAfter(batch)[p]]
      /\ timer' = [u \in Timer |->
           IF raises /\ u = t THEN NoTimer ELSE TimerAfter(batch)[u]]
      /\ cast' = [CastsWithout(batch) EXCEPT ![t] =
           IF raises THEN NoCast
           ELSE IF rest = {} THEN Informing(member \ stale, stale)
           ELSE [NoCast EXCEPT !.phase = "mark", !.stale = stale, !.unmarked = rest]]
      /\ queue' = IF raises \/ rest = {} THEN WithoutTasks(q, batch) ELSE Append(waiting, t)
      /\ pc' = IF raises /\ t \in Socket THEN [pc EXCEPT ![t] = AfterRaise[@]] ELSE pc
      /\ UNCHANGED <<member, excluded, epoch, registry, admitted, open, holder>>

\* A broadcast outside the lock goes to mark the lost players.
GoMark(t) ==
  /\ SendsOver(t)
  /\ Lost(t) # {}
  /\ t \in Timer \/ (t \in Socket /\ pc[t] \in {"greeting", "farewell"})
  /\ IF LockIdle THEN Marks(t, Lost(t), Lost(t), <<>>)
     ELSE /\ Enqueue(t)
          /\ cast' = [cast EXCEPT ![t] =
               [NoCast EXCEPT !.phase = "mark", !.stale = Lost(t), !.unmarked = Lost(t)]]
          /\ UNCHANGED <<flags, sockets, timers, holder, news>>

MarkLost(t) ==
  /\ Granted(t)
  /\ cast[t].phase = "mark"
  /\ Marks(t, cast[t].stale, cast[t].unmarked, Tail(queue))

\* A command has the lock already, and marks all of them at once.  Its handler
\* may raise: the command is rejected.
CommandMarks(s) ==
  /\ pc[s] = "commanding"
  /\ SendsOver(s)
  /\ Lost(s) # {}
  /\ LET batch == Markable(Lost(s))
     IN  /\ present' = present \ batch
         /\ told' = IF batch = {} THEN told ELSE {}
         /\ missed' = IF batch = Lost(s) THEN {} ELSE Player
         /\ entry' = EntryAfter(batch)
         /\ timer' = TimerAfter(batch)
         /\ queue' = WithoutTasks(queue, batch)
         /\ IF batch = Lost(s)
            THEN /\ cast' = [CastsWithout(batch) EXCEPT ![s] = Informing(member \ batch, batch)]
                 /\ UNCHANGED <<pc, holder>>
            ELSE /\ cast' = [CastsWithout(batch) EXCEPT ![s] = NoCast]
                 /\ pc' = [pc EXCEPT ![s] = AfterRaise[@]]
                 /\ holder' = None
  /\ UNCHANGED <<member, excluded, epoch, registry, admitted, open>>

\* The broadcast of a REST call marks them without the lock and arms no timers.
RestMarks ==
  /\ SendsOver(Rest)
  /\ Lost(Rest) # {}
  /\ LET batch == Markable(Lost(Rest))
     IN  /\ present' = present \ batch
         /\ told' = IF batch = {} THEN told ELSE {}
         /\ missed' = IF batch = Lost(Rest) THEN {} ELSE Player
         /\ cast' = [cast EXCEPT ![Rest] =
              IF batch = Lost(Rest) THEN Informing(member \ batch, batch) ELSE NoCast]
  /\ UNCHANGED <<member, excluded, epoch, sockets, timers, holder, queue>>

-----------------------------------------------------------------------------
(***************************************************************************)
(* The endpoint of a socket.                                               *)
(***************************************************************************)

\* In the lock, with q waiting for it: the timer is cancelled and the player
\* marked connected, and then the new socket and everybody are told.
Joins(s, q) ==
  LET p == Owner(s)
  IN  /\ queue' = WithoutTasks(q, {p})
      /\ timer' = TimersWithout({p})
      /\ entry' = [entry EXCEPT ![p] = None]
      /\ IF p \in member
         THEN /\ present' = present \union {p}
              /\ excluded' = excluded \ {p}
              /\ epoch' = [epoch EXCEPT ![p] = @ + 1]
              /\ pc' = [pc EXCEPT ![s] = "greeting"]
              /\ cast' = [CastsWithout({p}) EXCEPT ![s] = Sending(member)]
              /\ News
         ELSE /\ pc' = [pc EXCEPT ![s] = "closing"]
              /\ cast' = CastsWithout({p})
              /\ missed' = IF cast' = cast THEN missed ELSE Player
              /\ UNCHANGED <<present, excluded, epoch, told>>
      /\ UNCHANGED <<member, holder>>

GoJoin(s) ==
  IF LockIdle THEN Joins(s, <<>>)
  ELSE /\ Enqueue(s)
       /\ pc' = [pc EXCEPT ![s] = "joining"]
       /\ UNCHANGED <<flags, timers, holder, cast, news>>

\* mutant of OpenAfter: the socket registered before is not closed
OpenBeside(s) == open \union {s}

\* connect: the socket registered before is closed.
OpenAfter(s) == (open \union {s}) \ {registry[Owner(s)]}

\* A client opens a socket and authenticates.  It is admitted and registered,
\* and the socket registered before it is closed, for which connect waits.
Open(s) ==
  /\ pc[s] = "unopened"
  /\ \A r \in Socket : Owner(r) = Owner(s) /\ r[3] < s[3] => pc[r] # "unopened"
  /\ Owner(s) \in member
  /\ LET p == Owner(s)
     IN  /\ admitted' = [admitted EXCEPT ![p] = s]
         /\ registry' = [registry EXCEPT ![p] = s]
         /\ open' = OpenAfter(s)
         /\ IF registry[p] = None THEN GoJoin(s)
            ELSE /\ pc' = [pc EXCEPT ![s] = "registered"]
                 /\ UNCHANGED <<flags, timers, holder, queue, cast, news>>

PreviousClosed(s) ==
  /\ pc[s] = "registered"
  /\ GoJoin(s)
  /\ UNCHANGED <<registry, admitted, open>>

Join(s) ==
  /\ Granted(s)
  /\ pc[s] = "joining"
  /\ Joins(s, Tail(queue))
  /\ UNCHANGED <<registry, admitted, open>>

\* In the lock: a command changes the room and tells everybody, or is rejected;
\* a command of a player who has left is.
Commands(s, q) ==
  /\ queue' = q
  /\ IF Owner(s) \in member
     THEN /\ pc' = [pc EXCEPT ![s] = "commanding"]
          /\ holder' = s
          /\ cast' = [cast EXCEPT ![s] = Sending(member)]
          /\ News
     ELSE /\ pc' = [pc EXCEPT ![s] = "serving"]
          /\ UNCHANGED <<holder, cast, news>>
  /\ UNCHANGED <<flags, registry, admitted, open, timers>>

Receive(s) ==
  /\ pc[s] = "serving"
  /\ s \in open
  /\ IF LockIdle THEN Commands(s, <<>>)
     ELSE /\ Enqueue(s)
          /\ pc' = [pc EXCEPT ![s] = "queued"]
          /\ UNCHANGED <<flags, registry, admitted, open, timers, holder, cast, news>>

Command(s) ==
  /\ Granted(s)
  /\ pc[s] = "queued"
  /\ Commands(s, Tail(queue))

\* The connection is lost, or the client closes it.
Lose(s) ==
  /\ s \in open
  /\ open' = open \ {s}
  /\ UNCHANGED <<flags, registry, admitted, pc, timers, holder, queue, cast, news>>

\* The command loop finds its socket closed, by the client or by a replacement.
Notice(s) ==
  /\ pc[s] = "serving"
  /\ s \notin open
  /\ pc' = [pc EXCEPT ![s] = "closing"]
  /\ UNCHANGED <<flags, registry, admitted, open, timers, holder, queue, cast, news>>

\* In the lock: the player of the ended socket is marked absent, unless it
\* has left meanwhile, and everybody is told.
MarksSelf(s, q) ==
  LET gone == {Owner(s)} \intersect member
  IN  /\ present' = present \ gone
      /\ entry' = EntryAfter(gone)
      /\ timer' = TimerAfter(gone)
      /\ queue' = WithoutTasks(q, gone)
      /\ cast' = IF gone = {} THEN cast ELSE [CastsWithout(gone) EXCEPT ![s] = Sending(member)]
      /\ pc' = [pc EXCEPT ![s] = IF gone = {} THEN "ended" ELSE "farewell"]
      /\ IF gone = {} THEN UNCHANGED news ELSE News
      /\ UNCHANGED <<member, excluded, epoch, holder>>

\* mutant of Active: a socket the client has closed is not cleaned up after
ActiveIfOpen(s) == registry[Owner(s)] = s /\ s \in open

\* Is s the registered socket of its player?
Active(s) == registry[Owner(s)] = s

\* mutant of Forget: the end of a socket unregisters nothing
ForgetNothing(known, s) == known

\* ConnectionManager.disconnect and release_socket: only the socket that is
\* known is forgotten.
Forget(known, s) == IF known[Owner(s)] = s THEN [known EXCEPT ![Owner(s)] = None] ELSE known

\* The endpoint ends.  If its socket is the registered one, its player is to be
\* marked absent.
End(s) ==
  /\ pc[s] = "closing"
  /\ LET marks == Active(s) /\ Owner(s) \in member
     IN  /\ admitted' = Forget(admitted, s)
         /\ registry' = Forget(registry, s)
         /\ open' = open \ {s}
         /\ IF marks /\ LockIdle THEN MarksSelf(s, <<>>)
            ELSE /\ IF marks THEN Enqueue(s) ELSE UNCHANGED queue
                 /\ pc' = [pc EXCEPT ![s] = IF marks THEN "marking" ELSE "ended"]
                 /\ UNCHANGED <<flags, timers, holder, cast, news>>

MarkEnded(s) ==
  /\ Granted(s)
  /\ pc[s] = "marking"
  /\ MarksSelf(s, Tail(queue))
  /\ UNCHANGED <<registry, admitted, open>>

-----------------------------------------------------------------------------
(***************************************************************************)
(* Grace tasks and REST calls.                                             *)
(***************************************************************************)

\* Does the task find its player as it left it?
StillAbsent(t) ==
  /\ Owner(t) \in member \ present
  /\ epoch[Owner(t)] = timer[t].epoch

\* In the lock: the player is excluded, and everybody is told; or the player
\* has left or come back, and the task ends.
Expires(t, q) ==
  /\ queue' = q
  /\ IF StillAbsent(t)
     THEN /\ excluded' = excluded \union {Owner(t)}
          /\ timer' = [timer EXCEPT ![t].at = "announcing"]
          /\ cast' = [cast EXCEPT ![t] = Sending(member)]
          /\ News
          /\ UNCHANGED entry
     ELSE /\ timer' = [timer EXCEPT ![t] = NoTimer]
          /\ entry' = IF entry[Owner(t)] = t THEN [entry EXCEPT ![Owner(t)] = None] ELSE entry
          /\ UNCHANGED <<excluded, cast, news>>
  /\ UNCHANGED <<member, present, epoch, sockets, holder>>

\* The grace period is over.
Wake(t) ==
  /\ timer[t].at = "asleep"
  /\ IF LockIdle THEN Expires(t, <<>>)
     ELSE /\ Enqueue(t)
          /\ timer' = [timer EXCEPT ![t].at = "waiting"]
          /\ UNCHANGED <<flags, sockets, entry, holder, cast, news>>

Expire(t) ==
  /\ Granted(t)
  /\ timer[t].at = "waiting"
  /\ Expires(t, Tail(queue))

\* POST /rooms/{code}/leave: the registry forgets the player's socket, which
\* stays open; the grace task and the flags of the player stay, too.
LeaveByRest(p) ==
  /\ p \in Leavers \intersect member
  /\ cast[Rest] = NoCast
  /\ member' = member \ {p}
  /\ registry' = [registry EXCEPT ![p] = None]
  /\ cast' = [cast EXCEPT ![Rest] = Sending(member \ {p})]
  /\ News
  /\ UNCHANGED <<present, excluded, epoch, admitted, open, pc, timers, holder, queue>>

-----------------------------------------------------------------------------
BroadcastStep(t) ==
  \/ SendBegins(t)
  \/ \E sent \in BOOLEAN : SendEnds(t, sent)
  \/ CastOver(t)
  \/ GoMark(t)
  \/ MarkLost(t)

EndpointStep(s) ==
  \/ PreviousClosed(s) \/ Join(s) \/ Command(s) \/ Notice(s) \/ End(s)
  \/ MarkEnded(s) \/ CommandMarks(s) \/ BroadcastStep(s)

TimerStep(t) == Wake(t) \/ Expire(t) \/ BroadcastStep(t)

RestStep == RestMarks \/ BroadcastStep(Rest)

Client ==
  \/ \E s \in Socket : Open(s) \/ Receive(s) \/ Lose(s)
  \/ \E p \in Player : LeaveByRest(p)

Next ==
  \/ Client
  \/ \E s \in Socket : EndpointStep(s)
  \/ \E t \in Timer : TimerStep(t)
  \/ RestStep

\* The event loop runs every coroutine that can run, a send is over after two
\* seconds at the latest, and sleeping tasks wake up.  What clients do is up to
\* them.
Fairness ==
  /\ \A s \in Socket : WF_vars(EndpointStep(s))
  /\ \A t \in Timer : WF_vars(TimerStep(t))
  /\ WF_vars(RestStep)

Spec == Init /\ [][Next]_vars
FairSpec == Spec /\ Fairness

-----------------------------------------------------------------------------
(***************************************************************************)
(* Properties.                                                             *)
(***************************************************************************)

\* Types: a broadcast that a cancelled task leaves half done, and a queue from which
\* tasks were taken, are still ones.
TypeOK ==
  /\ member \subseteq Player
  /\ present \subseteq Player
  /\ excluded \subseteq Player
  /\ epoch \in [Player -> Nat]
  /\ registry \in [Player -> Socket \union {None}]
  /\ admitted \in [Player -> Socket \union {None}]
  /\ open \subseteq Socket
  /\ pc \in [Socket -> Place]
  /\ timer \in [Timer -> [at : {"free", "asleep", "waiting", "announcing"}, epoch : Nat]]
  /\ entry \in [Player -> Timer \union {None}]
  /\ holder \in Socket \union {None}
  /\ queue \in Seq(Thread)
  /\ cast \in [Thread -> [ phase : {"none", "send", "mark", "inform"}, left : SUBSET Player,
                           to : Player \union {0}, via : Socket \union {None},
                           stale : SUBSET Player, unmarked : SUBSET Player ]]
  /\ told \subseteq Player /\ missed \subseteq Player

Live == {t \in Timer : timer[t] # NoTimer}

\* A grace task that sleeps or waits never belongs to a player who is back: it
\* would find its player's epoch, and exclude a player whose new absence has
\* just begun (Join cancels it with the lock, Expire compares the epoch).
TimerIsCurrent ==
  \A t \in Live : timer[t].at # "announcing" =>
    /\ timer[t].epoch = epoch[Owner(t)]
    /\ Owner(t) \in member => Owner(t) \notin present

\* Every grace task that runs can be cancelled: grace_tasks knows it, and one
\* player has one (mark_disconnected_locked, cancel_grace, the finally of
\* expire_disconnected_player); and it is about the absence that lasts.
TasksAreKnown ==
  /\ \A t \in Live : entry[Owner(t)] = t
  /\ \A p \in Player : entry[p] # None => entry[p] \in Live
  /\ TimerIsCurrent

\* A socket that is registered or counted has a running endpoint: its end
\* unregisters it, whatever other sockets of the player did in between.
RegisteredRun ==
  \A p \in Player : \A s \in {registry[p], admitted[p]} \ {None} :
    Owner(s) = p /\ pc[s] \notin {"unopened", "marking", "farewell", "ended"}

\* A registered socket that is served has joined: its player was marked
\* connected after everything an earlier socket of this player had queued.
\* The clean-up of a replaced endpoint never marks a player absent whom a
\* later socket has marked connected.
CleanupPrecedesReturn ==
  \A s, r \in Socket :
    Owner(s) = Owner(r) /\ s[3] < r[3] /\ pc[s] = "marking" =>
      pc[r] \in {"unopened", "registered", "joining"}

\* The absence of a player who was there, and that nothing will end: no task
\* counts its grace period, and it is not excluded.
Untimed(p) ==
  p \in member \ (present \union excluded) /\ epoch[p] > 0 /\ entry[p] = None

\* Whatever endpoint or broadcast begins an absence starts a task for it, and
\* no absence loses its task before its player is excluded, is back or leaves
\* (mark_disconnected_locked, cancel_grace); but the broadcast of a REST call
\* marks players absent and starts none.
AbsencesAreTimed ==
  [][\A p \in Player : Untimed(p)' => Untimed(p) \/ RestMarks]_vars

\* Where the room has the player p, in the words of Attendance.
SeatOf(p) ==
  IF p \notin member THEN "gone"
  ELSE IF p \in present THEN "here"
  ELSE IF p \in excluded THEN "excluded"
  ELSE IF entry[p] # None THEN "timed" ELSE "untimed"

Attendance == INSTANCE Attendance WITH seat <- [p \in Player |-> SeatOf(p)]

\* Whatever sockets, timers and broadcasts overlap, cancel and replace one
\* another, each player sees one attendance: excluded is only who was absent and
\* timed until then, who joins is there, and who has left stays away
\* (mark_connected, expire_disconnected_player and all that call them).
ImplementsAttendance == Attendance!Spec

\* No broadcast is under way and nobody waits to change anything.
Quiet ==
  /\ queue = <<>>
  /\ \A t \in Thread : cast[t] = NoCast

\* When all broadcasts are over, every connected player who is served has been
\* sent the latest state, although broadcasts of several threads overlap and are
\* cancelled, and players leave; but for those who come back while a broadcast
\* that found them and others lost has marked them and not yet the others, and
\* unless the broadcast that was to send it raised (_broadcast_snapshot).
EverybodyHears ==
  Quiet => \A p \in member \intersect present :
    registry[p] # None => p \in told \union missed

\* A player has one served socket: the one before it is closed.
OneSocketServed ==
  \A s, r \in Socket :
    /\ Owner(s) = Owner(r)
    /\ {s, r} \subseteq open
    /\ pc[s] \in {"serving", "queued"} /\ pc[r] \in {"serving", "queued"}
    => s = r

\* Who has been seen and lost is back, excluded or gone in the end: no absence
\* lasts longer than its grace period (the lock is fair, and no timer is lost).
AbsenceEnds ==
  \A p \in Player :
    (p \in member \ present /\ epoch[p] > 0)
      ~> (p \in present \/ p \in excluded \/ p \notin member)

\* A player who has no open socket any more is marked absent in the end, also
\* when the socket is lost in the middle of a greeting or a command.
LossIsNoticed ==
  \A p \in Player :
    (\A s \in Socket : Owner(s) = p => s \notin open)
      ~> (p \notin present \/ p \notin member \/ \E s \in Socket : Owner(s) = p /\ s \in open)

\* The endpoint of a socket that is closed ends, and does not stay in a
\* broadcast or in the queue for the lock.
EndpointsEnd ==
  \A s \in Socket :
    (s \notin open /\ pc[s] # "unopened") ~> pc[s] = "ended"

-----------------------------------------------------------------------------
(***************************************************************************)
(* What tests say of the sockets, and the code does not keep.              *)
(***************************************************************************)

\* An old socket cannot disconnect its replacement: whoever is served is not
\* counted as absent.
ServedArePresent ==
  \A p \in member :
    registry[p] # None /\ registry[p] \in open /\ pc[registry[p]] = "serving" => p \in present

\* An endpoint that fails marks its player as disconnected: when all endpoints
\* of a player have ended, it is not connected.
EndedIsAbsent ==
  Quiet => \A p \in member \intersect present :
    \E s \in Socket : Owner(s) = p /\ pc[s] \notin {"unopened", "ended"}
=============================================================================
