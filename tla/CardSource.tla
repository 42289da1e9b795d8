----------------------------- MODULE CardSource -----------------------------
(***************************************************************************)
(* Loading the cards of a region: GameService.load_cards and its cache.    *)
(*                                                                         *)
(* Starts of several rooms load at the same time.  A request is answered   *)
(* with the cards the service has at some moment before the answer         *)
(* arrives, answers overtake each other, and any of them replaces what is  *)
(* cached; the age of the cache counts from the arrival.  When the request *)
(* fails, or brings fewer than two cards, the cards built in are used, and *)
(* the cache is left alone.                                                *)
(***************************************************************************)
EXTENDS Integers, Sequences

CONSTANTS
  Loader,    \* starts that load cards
  TTL,       \* age limit of the cache
  Timeout,   \* how long a request takes at most (the client limits each phase
             \* of a request; the sum of the limits stands for them here)
  MaxEdits,  \* how often the service changes its cards (a bound)
  MaxNow     \* length of a behaviour in time (a bound)

\* The cache is in use.
SourceParameters ==
  /\ TTL \in Nat \ {0}    \* with 0 the code caches nothing
  /\ Timeout \in Nat
  /\ MaxEdits \in Nat /\ MaxNow \in Nat

VARIABLES
  now,     \* time.monotonic
  edits,   \* when the service changed its cards: edition n ended at edits[n]
  cache,   \* the edition that is cached, and since when
  load,    \* what each start does: its request, and what was read for it
  dealt    \* the edition a start has got, and when

vars == <<now, edits, cache, load, dealt>>

BuiltIn == 0                  \* not an edition of the service
Edition == Len(edits) + 1     \* the current one
NoCache == [edition |-> BuiltIn, at |-> 0]
Idle == [stage |-> "idle", since |-> 0, edition |-> BuiltIn]

Init ==
  /\ now = 0
  /\ edits = <<>>
  /\ cache = NoCache
  /\ load = [l \in Loader |-> Idle]
  /\ dealt = [l \in Loader |-> [edition |-> BuiltIn, at |-> 0]]

Give(l, edition) == dealt' = [dealt EXCEPT ![l] = [edition |-> edition, at |-> now]]

-----------------------------------------------------------------------------
\* The cards are edited at the service (outside this program).
Edit ==
  /\ Len(edits) < MaxEdits
  /\ edits' = Append(edits, now)
  /\ UNCHANGED <<now, cache, load, dealt>>

Cached == cache # NoCache /\ now - cache.at <= TTL

\* mutant of CacheHit: a hit makes the cache young again
CacheHitRenewed(l) ==
  /\ load[l] = Idle /\ Cached
  /\ Give(l, cache.edition)
  /\ cache' = [cache EXCEPT !.at = now]
  /\ UNCHANGED <<now, edits, load>>

CacheHit(l) ==
  /\ load[l] = Idle /\ Cached
  /\ Give(l, cache.edition)
  /\ UNCHANGED <<now, edits, cache, load>>

\* No cache, or one that is too old, which is dropped: a request is sent.
Request(l) ==
  /\ load[l] = Idle /\ ~ Cached
  /\ cache' = NoCache
  /\ load' = [load EXCEPT ![l] = [stage |-> "sent", since |-> now, edition |-> BuiltIn]]
  /\ UNCHANGED <<now, edits, dealt>>

\* The service reads its cards for the request.
Answered(l) ==
  /\ load[l].stage = "sent"
  /\ load' = [load EXCEPT ![l].stage = "answered", ![l].edition = Edition]
  /\ UNCHANGED <<now, edits, cache, dealt>>

\* The answer arrives with enough cards.
Arrives(l) ==
  /\ load[l].stage = "answered"
  /\ cache' = [edition |-> load[l].edition, at |-> now]
  /\ Give(l, load[l].edition)
  /\ load' = [load EXCEPT ![l] = Idle]
  /\ UNCHANGED <<now, edits>>

\* It does not, or not in time, or has too few cards.
Fails(l) ==
  /\ load[l].stage \in {"sent", "answered"}
  /\ Give(l, BuiltIn)
  /\ load' = [load EXCEPT ![l] = Idle]
  /\ UNCHANGED <<now, edits, cache>>

\* Time passes, but a request that takes too long fails first.
Tick ==
  /\ now < MaxNow
  /\ \A l \in Loader : load[l] # Idle => now - load[l].since < Timeout
  /\ now' = now + 1
  /\ UNCHANGED <<edits, cache, load, dealt>>

Next ==
  \/ Tick \/ Edit
  \/ \E l \in Loader :
       CacheHit(l) \/ Request(l) \/ Answered(l) \/ Arrives(l) \/ Fails(l)

Spec == Init /\ [][Next]_vars

-----------------------------------------------------------------------------
(***************************************************************************)
(* Properties.                                                             *)
(***************************************************************************)

\* A game is dealt cards that the service had not replaced for longer than a
\* cache entry lives and a request takes, however loads overtake each other:
\* a late answer that replaces a younger entry does not make the cards older
\* than that (load_cards, _cached_remote_cards).
DealtIsRecent == \A l \in Loader :
  LET d == dealt[l] IN
  d.edition \in DOMAIN edits => d.at - edits[d.edition] <= TTL + Timeout
=============================================================================
