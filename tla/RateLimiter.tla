---------------------------- MODULE RateLimiter -----------------------------
(***************************************************************************)
(* The token bucket of a connection (gateway/src/RateLimiter.cpp), in      *)
(* integers: the clock ticks once for every unit a bucket gains, and a     *)
(* token is Cost units.  The code counts tokens in doubles and time in     *)
(* microseconds; with rate_ tokens per second, Cost = 1 token and          *)
(* Second = Cost * rate_.  setRate, getRate, availableTokens and reset are *)
(* called by nobody.                                                       *)
(***************************************************************************)
EXTENDS Naturals

CONSTANTS
  Capacity,   \* capacity_, in tokens (20)
  Cost,       \* units in a token
  Second      \* ticks in a second

ASSUME RateAssumption ==
  Capacity \in Nat \ {0} /\ Cost \in Nat \ {0} /\ Second \in Nat \ {0}

Full == Capacity * Cost

\* since: ticks since last_refill_; beyond Full it makes no difference.
Buckets == [tokens : 0 .. Full, since : 0 .. Full]

\* A new connection starts with a full bucket.
NewBucket == [tokens |-> Full, since |-> 0]

\* A tick of the steady clock.
Older(b) == [b EXCEPT !.since = IF @ = Full THEN @ ELSE @ + 1]

\* Mutant of refill: the bucket has no brim.
refillNoBrim(b) == [tokens |-> b.tokens + b.since, since |-> 0]

\* Mutant of refill: last_refill_ stays, the same time is counted again.
refillAgain(b) ==
  [b EXCEPT !.tokens = IF @ + b.since > Full THEN Full ELSE @ + b.since]

\* What has been gained since the last refill, up to the brim.
refill(b) ==
  [tokens |-> IF b.tokens + b.since > Full THEN Full ELSE b.tokens + b.since, since |-> 0]

\* tryConsume refills; then one token is taken if there is one.
Grants(b) == refill(b).tokens >= Cost
tryConsume(b) == IF Grants(b) THEN [refill(b) EXCEPT !.tokens = @ - Cost] ELSE refill(b)

\* Mutant of retryAfterSeconds: whole seconds, rounded down.
retryAfterSecondsFloor(b) == IF b.tokens >= Cost THEN 0 ELSE (Cost - b.tokens) \div Second

\* Whole seconds until a token is there, rounded up; without a refill.
retryAfterSeconds(b) ==
  IF b.tokens >= Cost THEN 0 ELSE (Cost - b.tokens + Second - 1) \div Second
=============================================================================
