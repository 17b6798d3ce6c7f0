------------------------------ MODULE RateLimiter ------------------------------
(***************************************************************************)
(* authPostLimiter of internal/server/ratelimit.go: the sliding window that*)
(* limits the posts of the set-up, login and library forms per client.     *)
(*                                                                         *)
(* A request reads the clock before it waits for the mutex, so requests may*)
(* enter in another order than that of their readings, at most Lag ticks   *)
(* late. What allow does under the mutex is one step. A kept time stands   *)
(* for the post that made it.                                              *)
(***************************************************************************)
EXTENDS Integers, FiniteSets

CONSTANTS
  Keys,     \* route and address of the client
  Requests, \* posts
  max,      \* posts that a key may make in a window
  window,   \* length of the window, in ticks
  Lag,      \* ticks a request waits for the mutex at most
  MaxClock  \* bound: the last tick

ASSUME LimiterAssumption ==
  /\ max \in Nat \ {0}
  /\ window \in Nat \ {0} /\ Lag \in Nat /\ Lag < window
  /\ MaxClock \in Nat

VARIABLES
  attempts, \* the posts whose times are kept for each key
  req,      \* the requests: program counter, key, their reading of the clock; "lost" are
            \* the posts of a process that is gone
  clock

vars == <<attempts, req, clock>>

TypeOK ==
  /\ attempts \in [Keys -> SUBSET Requests]
  /\ \A k \in Keys : IsFiniteSet(attempts[k]) /\ Cardinality(attempts[k]) <= max
  /\ req \in [Requests -> [pc : {"idle", "waiting", "passed", "refused", "lost"},
                           key : Keys, now : 0 .. MaxClock]]
  /\ clock \in 0 .. MaxClock

Init ==
  /\ attempts = [k \in Keys |-> {}]
  /\ \E k \in Keys : req = [r \in Requests |-> [pc |-> "idle", key |-> k, now |-> 0]]
  /\ clock = 0

\* now := time.Now(), before l.mu.Lock().
Arrive(r, k) ==
  /\ req[r].pc = "idle"
  /\ req' = [req EXCEPT ![r] = [pc |-> "waiting", key |-> k, now |-> clock]]
  /\ UNCHANGED <<attempts, clock>>

\* The attempts of r's key that are inside the window that ends at r's reading.
Kept(r) == {q \in attempts[req[r].key] : req[q].now > req[r].now - window}

\* Mutant of Allow: the length is compared one off.
AllowOneMore(r) ==
  /\ req[r].pc = "waiting"
  /\ Cardinality(Kept(r)) <= max
  /\ attempts' = [attempts EXCEPT ![req[r].key] = Kept(r) \cup {r}]
  /\ req' = [req EXCEPT ![r].pc = "passed"]
  /\ UNCHANGED clock

\* There is room: the post goes on to its handler.
Allow(r) ==
  /\ req[r].pc = "waiting"
  /\ Cardinality(Kept(r)) < max
  /\ attempts' = [attempts EXCEPT ![req[r].key] = Kept(r) \cup {r}]
  /\ req' = [req EXCEPT ![r].pc = "passed"]
  /\ UNCHANGED clock

\* Mutant of Refuse: a refused attempt counts too.
RefuseCounts(r) ==
  /\ req[r].pc = "waiting"
  /\ Cardinality(Kept(r)) >= max
  /\ attempts' = [attempts EXCEPT ![req[r].key] = Kept(r) \cup {r}]
  /\ req' = [req EXCEPT ![r].pc = "refused"]
  /\ UNCHANGED clock

\* 429 Too Many Requests. The attempts that have left the window are dropped.
Refuse(r) ==
  /\ req[r].pc = "waiting"
  /\ Cardinality(Kept(r)) >= max
  /\ attempts' = [attempts EXCEPT ![req[r].key] = Kept(r)]
  /\ req' = [req EXCEPT ![r].pc = "refused"]
  /\ UNCHANGED clock

Tick ==
  /\ clock < MaxClock
  /\ \A r \in Requests : req[r].pc = "waiting" => clock + 1 - req[r].now <= Lag
  /\ clock' = clock + 1
  /\ UNCHANGED <<attempts, req>>

Next ==
  \/ \E r \in Requests : (\E k \in Keys : Arrive(r, k)) \/ Allow(r) \/ Refuse(r)
  \/ Tick

Spec == Init /\ [][Next]_vars

-----------------------------------------------------------------------------
(* Properties.                                                             *)

\* The posts of key k that this process let through with a reading in from .. to.
Passed(k, from, to) ==
  {r \in Requests : req[r].pc = "passed" /\ req[r].key = k /\ req[r].now \in from .. to}

\* No key passes more than max times in a window, shortened by what a request
\* may wait for the mutex: a later reading that enters first drops attempts that
\* the earlier one would still have counted.
AtMostMaxInWindow ==
  \A k \in Keys, t \in 0 .. MaxClock :
    Cardinality(Passed(k, t, t + window - Lag - 1)) <= max

\* A post is refused only if max posts of the same client did pass within the
\* window that ends at its own reading, or after that: neither refused posts nor
\* other clients use up the allowance.
RefusedOnlyWhenFull ==
  [][\A r \in Requests : req[r].pc = "waiting" /\ req'[r].pc = "refused"
       => Cardinality(Passed(req[r].key, req[r].now - window + 1, clock)) >= max]_vars
=============================================================================
