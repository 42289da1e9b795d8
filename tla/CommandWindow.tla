---------------------------- MODULE CommandWindow ----------------------------
(***************************************************************************)
(* Commands that arrive more than once: run_serialized_room_command and    *)
(* the window of command ids it keeps in the room.                         *)
(*                                                                         *)
(* A client that gets no answer sends its command again with the same id,  *)
(* on the same or on a new socket: the copies may arrive in any order, and *)
(* an older copy may still be waiting for the lock when a newer one is     *)
(* answered.  A handler runs in the lock, so it is one step; its answer is *)
(* sent afterwards and may be lost with its socket.                        *)
(***************************************************************************)
EXTENDS Integers, Sequences, FiniteSets

CONSTANTS
  Command,     \* command ids
  Window,      \* how many ids a room remembers (256 in the code)
  MaxTries,    \* how often a client sends a command (a bound)
  LateRaises   \* may a handler raise after it changed the room?

\* The window remembers something.
WindowParameters ==
  /\ Window \in Nat \ {0}
  /\ MaxTries \in Nat
  /\ LateRaises \in BOOLEAN

VARIABLES
  tries,    \* how often each command was sent
  flying,   \* how many copies of it have not been handled yet
  window,   \* room.processed_command_ids
  effects,  \* how often it changed the room
  log,      \* the commands that were handled with success, in order
  told      \* the last answer the client has got

vars == <<tries, flying, window, effects, log, told>>

Answer == {"none", "applied", "rejected"}

Init ==
  /\ tries = [c \in Command |-> 0]
  /\ flying = [c \in Command |-> 0]
  /\ window = <<>>
  /\ effects = [c \in Command |-> 0]
  /\ log = <<>>
  /\ told = [c \in Command |-> "none"]

Remembered == {window[i] : i \in DOMAIN window}

\* The last n elements of a sequence, or all of it.
LastOf(s, n) == IF Len(s) <= n THEN s ELSE SubSeq(s, Len(s) - n + 1, Len(s))

\* mutant of Remember: one id fewer is kept
RememberOneLess(w, c) == LastOf(Append(w, c), Window - 1)

\* The id is appended before the handler runs, and the oldest one drops out.
Remember(w, c) == LastOf(Append(w, c), Window)

\* A handler that raises takes its id back, but not the one that dropped out.
\* All items equal to the id are filtered out: there is one, the last, because
\* no command whose id is in the window gets this far.
Forget(w) == SubSeq(w, 1, Len(w) - 1)

-----------------------------------------------------------------------------
\* The client sends a command, or sends it again as long as it has no answer.
Send(c) ==
  /\ tries[c] < MaxTries
  /\ told[c] = "none"
  /\ tries' = [tries EXCEPT ![c] = @ + 1]
  /\ flying' = [flying EXCEPT ![c] = @ + 1]
  /\ UNCHANGED <<window, effects, log, told>>

\* A socket is lost with a command that was not read from it.
Lose(c) ==
  /\ flying[c] > 0
  /\ flying' = [flying EXCEPT ![c] = @ - 1]
  /\ UNCHANGED <<tries, window, effects, log, told>>

\* A copy is handled, and its answer reaches the client or not.
Handle(c, answer) ==
  /\ flying[c] > 0
  /\ flying' = [flying EXCEPT ![c] = @ - 1]
  /\ told' \in {told, [told EXCEPT ![c] = answer]}
  /\ UNCHANGED tries

\* The id is known: nothing happens, and the answer is "applied".
Replay(c) ==
  /\ Handle(c, "applied")
  /\ c \in Remembered
  /\ UNCHANGED <<window, effects, log>>

\* mutant of Succeed: the window is not looked at
SucceedUnchecked(c) ==
  /\ Handle(c, "applied")
  /\ window' = Remember(window, c)
  /\ effects' = [effects EXCEPT ![c] = @ + 1]
  /\ log' = Append(log, c)

Succeed(c) ==
  /\ Handle(c, "applied")
  /\ c \notin Remembered
  /\ window' = Remember(window, c)
  /\ effects' = [effects EXCEPT ![c] = @ + 1]
  /\ log' = Append(log, c)

\* The handler refuses the command before it changes anything.
Refuse(c) ==
  /\ Handle(c, "rejected")
  /\ c \notin Remembered
  /\ window' = Forget(Remember(window, c))
  /\ UNCHANGED <<effects, log>>

\* The handler changed the room, and raises in its broadcast: a player whom it
\* cannot reach has left meanwhile.
RaiseLate(c) ==
  /\ LateRaises
  /\ Handle(c, "rejected")
  /\ c \notin Remembered
  /\ window' = Forget(Remember(window, c))
  /\ effects' = [effects EXCEPT ![c] = @ + 1]
  /\ UNCHANGED log

Next == \E c \in Command :
  Send(c) \/ Lose(c) \/ Replay(c) \/ Succeed(c) \/ Refuse(c) \/ RaiseLate(c)

Spec == Init /\ [][Next]_vars

-----------------------------------------------------------------------------
(***************************************************************************)
(* Properties.                                                             *)
(***************************************************************************)

TypeOK ==
  /\ tries \in [Command -> Nat]
  /\ flying \in [Command -> Nat]
  /\ window \in Seq(Command)
  /\ effects \in [Command -> Nat]
  /\ log \in Seq(Command)
  /\ told \in [Command -> Answer]

\* The window does what a client can rely on, for the commands whose handlers
\* return: of any number of rejected ones in between, only one takes a place
\* away (run_serialized_room_command trims before its handler runs), so that one
\* command fewer is safe than the window holds.  Whoever is told that a command
\* was applied, by its handler or by a replay, is told the truth.
Promise == INSTANCE AtMostOnce WITH order <- log
ImplementsAtMostOnce == Promise!Spec

-----------------------------------------------------------------------------
\* README.md, of retries: duplicate IDs are not applied twice.
NotAppliedTwice == \A c \in Command : effects[c] <= 1
=============================================================================
