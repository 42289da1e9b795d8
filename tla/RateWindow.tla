----------------------------- MODULE RateWindow -----------------------------
(***************************************************************************)
(* The sliding window of OperationalControls that limits calls of one kind *)
(* by one caller: creations and joins by address, events by player.        *)
(*                                                                         *)
(* A bucket holds the times of the calls that were let through.  It is cut *)
(* when a call comes, and by the cleanup task; the clock may jump between  *)
(* calls, which are handled at any time.                                   *)
(***************************************************************************)
EXTENDS Integers, Sequences, FiniteSets

CONSTANTS
  Limit,    \* calls let through per window
  Window,   \* length of the window
  MaxNow    \* length of a behaviour in time (a bound)

\* The limits and the window are positive (config.py).
RateParameters ==
  /\ Limit \in Nat \ {0}
  /\ Window \in Nat \ {0}
  /\ MaxNow \in Nat

VARIABLES
  now,      \* _clock()
  bucket,   \* _events of the caller
  passed,   \* the times of all calls that were let through
  refused   \* the time of the last call that was refused

vars == <<now, bucket, passed, refused>>

Never == -1

Init ==
  /\ now = 0
  /\ bucket = <<>>
  /\ passed = <<>>
  /\ refused = Never

\* The bucket from the first of these places on.
From(b, places) ==
  IF places = {} THEN <<>>
  ELSE SubSeq(b, CHOOSE k \in places : \A j \in places : k <= j, Len(b))

\* mutant of Current: a call stays in its window one unit too long
CurrentTooLong(b) == From(b, {i \in DOMAIN b : now - b[i] <= Window})

\* Old calls are dropped from the front of a bucket, up to the first one that
\* is not old.
Current(b) == From(b, {i \in DOMAIN b : now - b[i] < Window})

Tick ==
  /\ now < MaxNow
  /\ now' \in now + 1 .. MaxNow
  /\ UNCHANGED <<bucket, passed, refused>>

Allow ==
  /\ Len(Current(bucket)) < Limit
  /\ bucket' = Append(Current(bucket), now)
  /\ passed' = Append(passed, now)
  /\ UNCHANGED <<now, refused>>

Refuse ==
  /\ Len(Current(bucket)) >= Limit
  /\ bucket' = Current(bucket)
  /\ refused' = now
  /\ UNCHANGED <<now, passed>>

\* mutant of Prune: the cleanup task forgets whole buckets
PruneWhole ==
  /\ bucket' = <<>>
  /\ UNCHANGED <<now, passed, refused>>

\* prune_expired_buckets, in the cleanup task; a bucket that is empty goes.
Prune ==
  /\ bucket' = Current(bucket)
  /\ UNCHANGED <<now, passed, refused>>

Next == Tick \/ Allow \/ Refuse \/ Prune

Spec == Init /\ [][Next]_vars

-----------------------------------------------------------------------------
(***************************************************************************)
(* Properties.                                                             *)
(***************************************************************************)

TypeOK ==
  /\ now \in 0 .. MaxNow
  /\ bucket \in Seq(0 .. MaxNow)
  /\ passed \in Seq(0 .. MaxNow)
  /\ refused \in {Never} \union 0 .. MaxNow

\* Among Limit + 1 calls in a row that were let through, the first and the
\* last are at least a window apart, wherever the window is laid and whenever
\* the cleanup task cuts the bucket (_check_rate, prune_expired_buckets).
NoBurst == \A i \in DOMAIN passed :
  i + Limit <= Len(passed) => passed[i + Limit] - passed[i] >= Window

\* The calls of (s, t].
PassedWithin(s, t) == {i \in DOMAIN passed : s < passed[i] /\ passed[i] <= t}

\* Nobody is refused without having used up the limit in the window that ends
\* with the refused call.
RefusalIsDue ==
  refused # Never => Cardinality(PassedWithin(refused - Window, refused)) >= Limit

\* Both: the limit is neither exceeded nor applied too early.
LimitIsExact == NoBurst /\ RefusalIsDue
=============================================================================
