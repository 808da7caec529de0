------------------------------- MODULE RateLimit -------------------------------
(***************************************************************************)
(* InMemoryRateLimiter (backend/app/core/rate_limit.py): the events of a   *)
(* bucket and key in a sliding window, and the sweep that forgets keys.    *)
(* The lock makes a check one step.                                        *)
(***************************************************************************)
EXTENDS Integers, Sequences

CONSTANTS
  Bucket,     \* what is limited: "login_ip", "login_email", "refresh_ip", ...
  Key,        \* client addresses and e-mail addresses
  Limit,      \* Limit[b], rate_limit_*_per_*
  Window,     \* Window[b], rate_limit_*window_seconds
  SweepEvery, \* SWEEP_EVERY
  TickSize,   \* by how much the clock advances at once
  MaxTime     \* bound of the clock

ASSUME RateAssumption ==
  /\ Limit \in [Bucket -> Nat \ {0}] /\ Window \in [Bucket -> Nat \ {0}]
  /\ SweepEvery \in Nat \ {0} /\ TickSize \in Nat \ {0} /\ MaxTime \in Nat

VARIABLES
  now,     \* time.monotonic
  events,  \* _events: a missing entry is an empty one
  checks,  \* _check_count
  allowed  \* history: the times at which calls were allowed
rateVars == <<now, events, checks, allowed>>

RateInit ==
  /\ now = 0
  /\ events = [x \in Bucket \X Key |-> <<>>]
  /\ checks = 0
  /\ allowed = [x \in Bucket \X Key |-> <<>>]

Tick == now < MaxTime /\ now' = now + TickSize /\ UNCHANGED <<events, checks, allowed>>

(* Mutant: the sweep goes by the window of the call that triggers it. *)
StaleForAnyWindow(b, es) == es = <<>> \/ \E c \in Bucket : es[Len(es)] < now - Window[c]

(* Nothing in it counts any more, by the window of its own bucket. *)
Stale(b, es) == es = <<>> \/ es[Len(es)] < now - Window[b]

(* The events from the first one on that still counts. *)
Counting(b, es) == {i \in 1..Len(es) : es[i] > now - Window[b]}
Recent(b, k) ==
  LET es == events[<<b, k>>]
      first == CHOOSE i \in Counting(b, es) : \A j \in Counting(b, es) : i <= j
  IN IF Counting(b, es) = {} THEN <<>> ELSE SubSeq(es, first, Len(es))
Admits(b, k) == Len(Recent(b, k)) < Limit[b]

(* check: count the call if it is admitted, and sweep on every SWEEP_EVERY-th
   check, admitted or not. *)
Check(b, k) ==
  LET counted == [events EXCEPT ![<<b, k>>] = IF Admits(b, k) THEN Append(Recent(b, k), now)
                                          ELSE Recent(b, k)]
      sweeps == checks + 1 >= SweepEvery
  IN /\ events' = IF sweeps
                  THEN [x \in DOMAIN counted |->
                          IF Stale(x[1], counted[x]) THEN <<>> ELSE counted[x]]
                  ELSE counted
     /\ checks' = IF sweeps THEN 0 ELSE checks + 1
     /\ allowed' = IF Admits(b, k) THEN [allowed EXCEPT ![<<b, k>>] = Append(@, now)] ELSE allowed
     /\ UNCHANGED now

RateNext == Tick \/ \E b \in Bucket, k \in Key : Check(b, k)

RateSpec == RateInit /\ [][RateNext]_rateVars

(* Whatever checks and sweeps of any key come in between, no key is allowed
   more calls of a bucket than its limit within one window. *)
WindowHolds ==
  \A b \in Bucket, k \in Key :
    \A i \in 1..(Len(allowed[<<b, k>>]) - Limit[b]) :
      allowed[<<b, k>>][i + Limit[b]] - allowed[<<b, k>>][i] >= Window[b]
===============================================================================
