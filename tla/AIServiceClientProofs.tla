------------------------ MODULE AIServiceClientProofs ------------------------
(***************************************************************************)
(* Proofs about RateLimiter and AIServiceClient for any capacity, rate,    *)
(* time-out, number of connections and of requests: types, the bound on    *)
(* what a connection gets through, that retry_after is kept, and that a    *)
(* request is answered once.                                               *)
(***************************************************************************)
EXTENDS AIServiceClient, FiniteSetTheorems, TLAPS

-----------------------------------------------------------------------------
(* The bucket *)

LEMMA FullFacts == Full \in Nat /\ Cost <= Full /\ Cost \in Nat \ {0} /\ Second \in Nat \ {0}
<1>1. \A n \in Nat \ {0}, m \in Nat \ {0} : n * m \in Nat /\ m <= n * m
  OBVIOUS
<1> QED BY <1>1, RateAssumption DEF Full

\* What refill leaves in the bucket.
LEMMA RefillFacts ==
  ASSUME NEW b \in Buckets
  PROVE  /\ refill(b) \in Buckets
         /\ refill(b).tokens = IF b.tokens + b.since > Full THEN Full ELSE b.tokens + b.since
         /\ refill(b).since = 0
         /\ refill(refill(b)) = refill(b)
BY FullFacts DEF refill, Buckets

\* A tick gives one unit, below the brim.
LEMMA OlderFacts ==
  ASSUME NEW b \in Buckets
  PROVE  /\ Older(b) \in Buckets
         /\ refill(Older(b)).tokens =
              IF refill(b).tokens = Full THEN Full ELSE refill(b).tokens + 1
<1>1. /\ Older(b) \in Buckets /\ Older(b).tokens = b.tokens
      /\ Older(b).since = IF b.since = Full THEN Full ELSE b.since + 1
  BY FullFacts DEF Older, Buckets
<1>2. b.tokens \in 0 .. Full /\ b.since \in 0 .. Full
  BY DEF Buckets
<1> QED BY <1>1, <1>2, RefillFacts, FullFacts

LEMMA ConsumeFacts ==
  ASSUME NEW b \in Buckets
  PROVE  /\ tryConsume(b) \in Buckets
         /\ Grants(b) => refill(tryConsume(b)).tokens = refill(b).tokens - Cost
         /\ ~Grants(b) => tryConsume(b) = refill(b) /\ refill(b).tokens < Cost
<1>1. refill(b) \in Buckets /\ refill(b).since = 0 /\ refill(b).tokens \in 0 .. Full
  BY RefillFacts DEF Buckets
<1>2. CASE Grants(b)
  <2> DEFINE c == [refill(b) EXCEPT !.tokens = @ - Cost]
  <2>1. tryConsume(b) = c
    BY <1>2 DEF tryConsume
  <2>2. refill(b).tokens >= Cost
    BY <1>2 DEF Grants
  <2>3. c \in Buckets /\ c.tokens = refill(b).tokens - Cost /\ c.since = 0
    BY <1>1, <2>2, FullFacts DEF Buckets
  <2> HIDE DEF c
  <2>4. refill(c).tokens = c.tokens
    BY <2>3, RefillFacts, FullFacts DEF Buckets
  <2> QED BY <1>2, <2>1, <2>3, <2>4
<1>3. CASE ~Grants(b)
  BY <1>1, <1>3, FullFacts DEF tryConsume, Grants
<1> QED BY <1>2, <1>3

LEMMA NewBucketFacts == NewBucket \in Buckets /\ refill(NewBucket).tokens = Full
BY FullFacts DEF NewBucket, Buckets, refill

LEMMA RoundedUp ==
  ASSUME NEW a \in Nat, NEW d \in Nat \ {0}
  PROVE  (a + d - 1) \div d \in Nat /\ d * ((a + d - 1) \div d) >= a
<1> DEFINE n == a + d - 1
           q == n \div d
           r == n % d
<1>1. n \in Nat
  OBVIOUS
<1> HIDE DEF n
<1>2. q \in Nat /\ r \in 0 .. d - 1 /\ n = d * q + r
  BY <1>1
<1>3. d * q \in Nat
  BY <1>2
<1> HIDE DEF q, r
<1> QED BY <1>2, <1>3 DEF n, q

\* Waiting as long as retry_after says makes up for what is missing.
LEMMA RetryFacts ==
  ASSUME NEW b \in Buckets, b.tokens < Cost
  PROVE  /\ Second * retryAfterSeconds(b) \in Nat
         /\ Second * retryAfterSeconds(b) + b.tokens >= Cost
<1> DEFINE m == Cost - b.tokens
           q == (m + Second - 1) \div Second
<1>1. m \in Nat /\ b.tokens \in Nat /\ Second \in Nat \ {0}
  BY FullFacts DEF Buckets
<1>2. retryAfterSeconds(b) = q
  BY FullFacts DEF retryAfterSeconds, Buckets
<1> HIDE DEF m
<1>3. q \in Nat /\ Second * q >= m
  BY <1>1, RoundedUp
<1> HIDE DEF q
<1>4. Second * q \in Nat
  BY <1>1, <1>3
<1>5. Second * q + b.tokens >= Cost
  BY <1>1, <1>3, <1>4, FullFacts DEF m
<1> QED BY <1>2, <1>4, <1>5

-----------------------------------------------------------------------------
(* The invariants *)

\* What a bucket would hold after a refill.
Gained(f) == refill(bucket[f]).tokens

\* What was let through and what is there make up no more than the burst and
\* the rate.
Metered ==
  \A f \in Fds, w \in 0 .. Window : Cost * granted[f][w] + Gained(f) <= Full + w

\* As long as the connection lasts, what a client still has to wait covers what
\* its bucket still lacks.
Promised ==
  \A f \in Fds : conn[f] # "closed" =>
    \A p \in promise[f] : p + Gained(f) >= Cost

\* Transfers are for requests that were made, one for each at most.
Numbered ==
  /\ \A h \in DOMAIN handles : handles[h].id \in 1 .. counter
  /\ \A h, k \in DOMAIN handles : handles[h].id = handles[k].id => h = k

\* Every request has its transfer, and no answer; the others have theirs.
Served ==
  /\ DOMAIN pending \subseteq 1 .. counter
  /\ {handles[h].id : h \in DOMAIN handles} = DOMAIN pending
  /\ \A i \in Ids : pc # "down" =>
       answers[i] = IF i \in 1 .. counter /\ i \notin DOMAIN pending THEN 1 ELSE 0

-----------------------------------------------------------------------------
(* The rate *)

Quotas == [0 .. Window -> Nat]

\* What the types of the limiter's part are.
LimiterTypes ==
  /\ conn \in [Fds -> {"closed", "anonymous", "user"}]
  /\ bucket \in [Fds -> Buckets]
  /\ granted \in [Fds -> Quotas]
  /\ promise \in [Fds -> SUBSET Nat]

LEMMA OneMore == \A n \in Nat : Cost * (n + 1) = Cost * n + Cost /\ Cost * n \in Nat
BY FullFacts

\* A request that is let through is paid for.
LEMMA PassFacts ==
  ASSUME LimiterTypes, Metered, NEW f \in Fds, Pass(f)
  PROVE  /\ bucket' \in [Fds -> Buckets] /\ granted' \in [Fds -> Quotas]
         /\ Metered'
         /\ promise' = [promise EXCEPT ![f] = {}]
         /\ \A g \in Fds \ {f} : bucket'[g] = bucket[g]
<1>1. /\ bucket' = [bucket EXCEPT ![f] = tryConsume(@)] /\ Grants(bucket[f])
      /\ granted' = [granted EXCEPT ![f] = [w \in 0 .. Window |-> @[w] + 1]]
      /\ promise' = [promise EXCEPT ![f] = {}]
  BY DEF Pass, Limited
<1>2. /\ bucket'[f] = tryConsume(bucket[f])
      /\ \A g \in Fds \ {f} : bucket'[g] = bucket[g] /\ granted'[g] = granted[g]
      /\ \A w \in 0 .. Window : granted'[f][w] = granted[f][w] + 1
  BY <1>1 DEF LimiterTypes
<1>3. /\ bucket[f] \in Buckets /\ tryConsume(bucket[f]) \in Buckets
      /\ Gained(f)' = Gained(f) - Cost
  BY <1>1, <1>2, ConsumeFacts DEF LimiterTypes, Gained
<1>4. Gained(f) \in Nat
  BY <1>3, RefillFacts DEF Gained, Buckets
<1>5. bucket' \in [Fds -> Buckets]
  BY <1>1, <1>3 DEF LimiterTypes
<1>6. granted' \in [Fds -> Quotas]
  <2>1. ASSUME NEW q \in Quotas
        PROVE  [w \in 0 .. Window |-> q[w] + 1] \in Quotas
    <3>1. \A w \in 0 .. Window : q[w] \in Nat
      BY DEF Quotas
    <3>2. \A w \in 0 .. Window : q[w] + 1 \in Nat
      BY <3>1
    <3> QED BY <3>2 DEF Quotas
  <2>2. [w \in 0 .. Window |-> granted[f][w] + 1] \in Quotas
    BY <2>1 DEF LimiterTypes
  <2> QED BY <1>1, <2>2 DEF LimiterTypes
<1>7. ASSUME NEW g \in Fds, NEW w \in 0 .. Window
      PROVE  (Cost * granted[g][w] + Gained(g))' <= Full + w
  <2>1. CASE g = f
    <3>1. granted[f][w] \in Nat /\ Cost * granted[f][w] + Gained(f) <= Full + w
      BY DEF LimiterTypes, Quotas, Metered
    <3>2. Cost * granted'[f][w] = Cost * granted[f][w] + Cost /\ Cost * granted[f][w] \in Nat
      BY <1>2, <3>1, OneMore
    <3>3. (Cost * granted'[f][w]) + Gained(f)' <= Full + w
      BY <1>3, <1>4, <3>1, <3>2, FullFacts
    <3> QED BY <2>1, <3>3
  <2>2. CASE g # f
    BY <1>2, <2>2 DEF Metered, Gained
  <2> QED BY <2>1, <2>2
<1> QED BY <1>1, <1>2, <1>5, <1>6, <1>7 DEF Metered

\* What Accept gives a connection.
LEMMA AcceptFacts ==
  ASSUME LimiterTypes, Metered, NEW f \in Fds, Accept(f)
  PROVE  /\ bucket' \in [Fds -> Buckets] /\ granted' \in [Fds -> Quotas]
         /\ Metered'
         /\ promise' = [promise EXCEPT ![f] = {}]
         /\ \A g \in Fds \ {f} : bucket'[g] = bucket[g]
<1>1. /\ bucket' = [bucket EXCEPT ![f] = NewBucket]
      /\ granted' = [granted EXCEPT ![f] = [w \in 0 .. Window |-> 0]]
      /\ promise' = [promise EXCEPT ![f] = {}]
  BY DEF Accept
<1>2. /\ bucket'[f] = NewBucket
      /\ \A g \in Fds \ {f} : bucket'[g] = bucket[g] /\ granted'[g] = granted[g]
      /\ \A w \in 0 .. Window : granted'[f][w] = 0
  BY <1>1 DEF LimiterTypes
<1>3. bucket' \in [Fds -> Buckets] /\ granted' \in [Fds -> Quotas]
  <2>1. [w \in 0 .. Window |-> 0] \in Quotas
    BY DEF Quotas
  <2> QED BY <1>1, <2>1, NewBucketFacts DEF LimiterTypes
<1>4. ASSUME NEW g \in Fds, NEW w \in 0 .. Window
      PROVE  (Cost * granted[g][w] + Gained(g))' <= Full + w
  <2>1. CASE g = f
    <3>1. Gained(f)' = Full /\ Cost * 0 = 0
      BY <1>2, NewBucketFacts, FullFacts DEF Gained
    <3>2. Cost * granted'[f][w] = 0
      BY <1>2, <3>1
    <3> QED BY <2>1, <3>1, <3>2, FullFacts
  <2>2. CASE g # f
    BY <1>2, <2>2 DEF Metered, Gained
  <2> QED BY <2>1, <2>2
<1> QED BY <1>1, <1>2, <1>3, <1>4 DEF Metered

\* A refused request costs nothing.
LEMMA RejectFacts ==
  ASSUME LimiterTypes, Metered, NEW f \in Fds, Reject(f)
  PROVE  /\ bucket' \in [Fds -> Buckets] /\ granted' = granted /\ conn' = conn
         /\ Metered'
         /\ promise' = [promise EXCEPT ![f] = {Second * retryAfterSeconds(bucket'[f])}]
         /\ \A g \in Fds : Gained(g)' = Gained(g)
         /\ bucket'[f].tokens = Gained(f) /\ Gained(f) < Cost
<1>1. /\ bucket' = [bucket EXCEPT ![f] = tryConsume(@)] /\ ~Grants(bucket[f])
      /\ promise' = [promise EXCEPT ![f] = {Second * retryAfterSeconds(bucket'[f])}]
      /\ granted' = granted /\ conn' = conn
  BY DEF Reject, Limited
<1>2. bucket[f] \in Buckets
  BY DEF LimiterTypes
<1>3. bucket'[f] = refill(bucket[f]) /\ Gained(f) < Cost
  BY <1>1, <1>2, ConsumeFacts DEF LimiterTypes, Gained
<1>4. bucket' \in [Fds -> Buckets]
  BY <1>1, <1>2, ConsumeFacts DEF LimiterTypes
<1>5. \A g \in Fds : Gained(g)' = Gained(g)
  BY <1>1, <1>2, <1>3, RefillFacts DEF LimiterTypes, Gained
<1> QED BY <1>1, <1>3, <1>4, <1>5 DEF Metered, Gained

\* A tick: who is connected gains a unit, and the window moves on.
LEMMA TickFacts ==
  ASSUME LimiterTypes, Metered, Tick
  PROVE  /\ bucket' \in [Fds -> Buckets] /\ granted' \in [Fds -> Quotas]
         /\ Metered'
         /\ \A f \in Fds : conn[f] # "closed" =>
              Gained(f)' = IF Gained(f) = Full THEN Full ELSE Gained(f) + 1
<1>1. bucket' \in [Fds -> Buckets]
  BY OlderFacts DEF Tick, LimiterTypes
<1>2. granted' \in [Fds -> Quotas]
  <2>1. ASSUME NEW f \in Fds
        PROVE  [w \in 0 .. Window |-> IF w = 0 THEN 0 ELSE granted[f][w - 1]] \in Quotas
    BY AIAssumption DEF LimiterTypes, Quotas
  <2> QED BY <2>1 DEF Tick
<1>3. ASSUME NEW f \in Fds
      PROVE  /\ Gained(f) \in 0 .. Full
             /\ Gained(f)' = IF conn[f] = "closed" \/ Gained(f) = Full THEN Gained(f)
                                                                     ELSE Gained(f) + 1
  <2>1. bucket[f] \in Buckets
    BY DEF LimiterTypes
  <2>2. bucket'[f] = IF conn[f] = "closed" THEN bucket[f] ELSE Older(bucket[f])
    BY DEF Tick
  <2>3. Gained(f) \in 0 .. Full
    BY <2>1, RefillFacts DEF Gained, Buckets
  <2> QED BY <2>1, <2>2, <2>3, OlderFacts DEF Gained
<1>4. ASSUME NEW f \in Fds, NEW w \in 0 .. Window
      PROVE  (Cost * granted[f][w] + Gained(f))' <= Full + w
  <2>1. Gained(f)' \in 0 .. Full /\ Gained(f)' <= Gained(f) + 1 /\ Gained(f) \in Nat
    BY <1>3, FullFacts
  <2>2. CASE w = 0
    <3>1. granted'[f][w] = 0 /\ Cost * 0 = 0
      BY <2>2, AIAssumption, FullFacts DEF Tick
    <3> QED BY <2>1, <2>2, <3>1, FullFacts
  <2>3. CASE w # 0
    <3>1. w - 1 \in 0 .. Window /\ granted'[f][w] = granted[f][w - 1]
      BY <2>3, AIAssumption DEF Tick
    <3>2. granted[f][w - 1] \in Nat /\ Cost * granted[f][w - 1] + Gained(f) <= Full + (w - 1)
      BY <3>1 DEF Metered, LimiterTypes, Quotas
    <3>3. Cost * granted[f][w - 1] \in Nat
      BY <3>2, OneMore
    <3> QED BY <2>1, <3>1, <3>2, <3>3, FullFacts
  <2> QED BY <2>2, <2>3
<1>5. \A f \in Fds : conn[f] # "closed" =>
        Gained(f)' = IF Gained(f) = Full THEN Full ELSE Gained(f) + 1
  BY <1>3
<1> QED BY <1>1, <1>2, <1>4, <1>5 DEF Metered

\* A step of the limiter, of the clock, or one that leaves the limiter alone.
LEMMA LimiterSteps ==
  ASSUME LimiterTypes, [Next]_vars
  PROVE  /\ conn' \in [Fds -> {"closed", "anonymous", "user"}]
         /\ \/ \E f \in Fds : /\ Pass(f) \/ Accept(f)
                              /\ \A g \in Fds \ {f} : conn'[g] = conn[g]
            \/ \E f \in Fds : Reject(f)
            \/ Tick
            \/ UNCHANGED limiter /\ \A f \in Fds : conn'[f] = conn[f] \/ conn'[f] = "closed"
<1> USE DEF LimiterTypes
<1>1. ASSUME NEW f \in Fds, Client(f)
      PROVE  /\ conn' \in [Fds -> {"closed", "anonymous", "user"}]
             /\ \A g \in Fds \ {f} : conn'[g] = conn[g]
             /\ \/ Pass(f) \/ Accept(f) \/ Reject(f)
                \/ UNCHANGED limiter /\ (conn'[f] = conn[f] \/ conn'[f] = "closed")
  <2>1. CASE Accept(f)
    BY <2>1 DEF Accept
  <2>2. CASE Disconnect(f)
    BY <2>2 DEF Disconnect
  <2>3. CASE Other(f)
    BY <2>3 DEF Other
  <2>4. CASE Login(f)
    BY <2>4 DEF Login
  <2>5. CASE UNCHANGED conn /\ (Pass(f) \/ Reject(f))
    BY <2>5
  <2> QED BY <1>1, <2>1, <2>2, <2>3, <2>4, <2>5
          DEF Client, Reject, Ask, AskAIFails, AskAI
<1>2. CASE Work
  <2>1. UNCHANGED limiter
    BY <1>2 DEF Work, Perform, Process, Die, Processed
  <2>2. UNCHANGED conn \/ conn' = [f \in Fds |-> "closed"]
    BY <1>2 DEF Work, Perform, Process, Die, Processed
  <2> QED BY <2>1, <2>2
<1>3. CASE Tick
  BY <1>3 DEF Tick
<1>4. CASE UNCHANGED vars
  BY <1>4 DEF vars
<1> QED BY <1>1, <1>2, <1>3, <1>4 DEF Next

LEMMA LimiterInit == Init => LimiterTypes /\ Metered /\ Promised
<1> SUFFICES ASSUME Init PROVE LimiterTypes /\ Metered /\ Promised
  OBVIOUS
<1>1. /\ \A f \in Fds : conn[f] = "closed" /\ bucket[f] = NewBucket
      /\ \A f \in Fds, w \in 0 .. Window : granted[f][w] = 0
  BY DEF Init
<1>2. LimiterTypes
  BY NewBucketFacts DEF Init, LimiterTypes, Quotas
<1>3. Cost * 0 = 0
  BY FullFacts
<1>4. \A f \in Fds, w \in 0 .. Window : Cost * granted[f][w] = 0 /\ Gained(f) = Full
  BY <1>1, <1>3, NewBucketFacts DEF Gained
<1> QED BY <1>1, <1>2, <1>4, FullFacts DEF Metered, Promised

LEMMA LimiterStep ==
  ASSUME LimiterTypes, Metered, [Next]_vars
  PROVE  LimiterTypes' /\ Metered'
<1>0. conn' \in [Fds -> {"closed", "anonymous", "user"}]
  BY LimiterSteps
<1>1. ASSUME NEW f \in Fds, Pass(f) \/ Accept(f)
      PROVE  LimiterTypes' /\ Metered'
  <2>1. promise' = [promise EXCEPT ![f] = {}]
    BY <1>1, PassFacts, AcceptFacts
  <2>2. promise' \in [Fds -> SUBSET Nat]
    BY <2>1 DEF LimiterTypes
  <2> QED BY <1>0, <1>1, <2>2, PassFacts, AcceptFacts DEF LimiterTypes
<1>2. ASSUME NEW f \in Fds, Reject(f)
      PROVE  LimiterTypes' /\ Metered'
  <2>1. bucket'[f] \in Buckets /\ bucket'[f].tokens < Cost
    BY <1>2, RejectFacts
  <2>2. Second * retryAfterSeconds(bucket'[f]) \in Nat
    BY <2>1, RetryFacts
  <2>3. promise' \in [Fds -> SUBSET Nat]
    BY <1>2, <2>2, RejectFacts DEF LimiterTypes
  <2> QED BY <1>0, <1>2, <2>3, RejectFacts DEF LimiterTypes
<1>3. CASE Tick
  <2>1. \A f \in Fds : \A p \in promise[f] : p \in Nat
    BY DEF LimiterTypes
  <2>2. \A f \in Fds : {IF p = 0 THEN 0 ELSE p - 1 : p \in promise[f]} \in SUBSET Nat
    BY <2>1
  <2>3. promise' \in [Fds -> SUBSET Nat]
    BY <1>3, <2>2 DEF Tick
  <2> QED BY <1>0, <1>3, <2>3, TickFacts DEF LimiterTypes
<1>4. CASE UNCHANGED limiter
  BY <1>0, <1>4 DEF limiter, LimiterTypes, Metered, Gained
<1> QED BY <1>1, <1>2, <1>3, <1>4, LimiterSteps

LEMMA PromisedStep ==
  ASSUME LimiterTypes, Metered, Promised, [Next]_vars
  PROVE  Promised'
<1>1. ASSUME NEW f \in Fds, Pass(f) \/ Accept(f), \A g \in Fds \ {f} : conn'[g] = conn[g]
      PROVE  Promised'
  <2>1. /\ promise' = [promise EXCEPT ![f] = {}]
        /\ \A g \in Fds \ {f} : bucket'[g] = bucket[g]
    BY <1>1, PassFacts, AcceptFacts
  <2>2. promise'[f] = {} /\ \A g \in Fds \ {f} : promise'[g] = promise[g]
    BY <2>1 DEF LimiterTypes
  <2> QED BY <1>1, <2>1, <2>2 DEF Promised, Gained
<1>2. ASSUME NEW f \in Fds, Reject(f)
      PROVE  Promised'
  <2>1. /\ promise' = [promise EXCEPT ![f] = {Second * retryAfterSeconds(bucket'[f])}]
        /\ bucket'[f] \in Buckets /\ bucket'[f].tokens = Gained(f) /\ Gained(f) < Cost
        /\ conn' = conn /\ \A g \in Fds : Gained(g)' = Gained(g)
    BY <1>2, RejectFacts
  <2>2. Second * retryAfterSeconds(bucket'[f]) + Gained(f) >= Cost
    BY <2>1, RetryFacts
  <2>3. /\ promise'[f] = {Second * retryAfterSeconds(bucket'[f])}
        /\ \A g \in Fds \ {f} : promise'[g] = promise[g]
    BY <2>1 DEF LimiterTypes
  <2>4. ASSUME NEW g \in Fds, conn'[g] # "closed", NEW p \in promise'[g]
        PROVE  p + Gained(g)' >= Cost
    BY <2>1, <2>2, <2>3, <2>4 DEF Promised
  <2> QED BY <2>4 DEF Promised
<1>3. CASE Tick
  <2> SUFFICES ASSUME NEW f \in Fds, conn'[f] # "closed", NEW p \in promise'[f]
               PROVE  p + Gained(f)' >= Cost
    BY DEF Promised
  <2>1. conn[f] # "closed"
    BY <1>3 DEF Tick
  <2>2. PICK r \in promise[f] : p = IF r = 0 THEN 0 ELSE r - 1
    BY <1>3 DEF Tick
  <2>3. r \in Nat /\ r + Gained(f) >= Cost
    BY <2>1 DEF Promised, LimiterTypes
  <2>4. Gained(f) \in Nat
    <3>1. bucket[f] \in Buckets
      BY DEF LimiterTypes
    <3> QED BY <3>1, RefillFacts DEF Gained, Buckets
  <2>5. Gained(f)' = IF Gained(f) = Full THEN Full ELSE Gained(f) + 1
    BY <1>3, <2>1, TickFacts
  <2> QED BY <2>2, <2>3, <2>4, <2>5, FullFacts
<1>4. CASE UNCHANGED limiter /\ \A f \in Fds : conn'[f] = conn[f] \/ conn'[f] = "closed"
  BY <1>4 DEF limiter, Promised, Gained
<1> QED BY <1>1, <1>2, <1>3, <1>4, LimiterSteps

LimiterInv == LimiterTypes /\ Metered /\ Promised

LEMMA LimiterAlways == Spec => []LimiterInv
<1>1. Init => LimiterInv
  BY LimiterInit DEF LimiterInv
<1>2. LimiterInv /\ [Next]_vars => LimiterInv'
  BY LimiterStep, PromisedStep DEF LimiterInv
<1> QED BY <1>1, <1>2, PTL DEF Spec

\* In no stretch of time does a connection get through more than the burst and
\* what the rate gives, whatever the clock and the requests do.
THEOREM RateBounded == Spec => []RateBound
<1>1. LimiterInv => RateBound
  <2> SUFFICES ASSUME LimiterInv, NEW f \in Fds, NEW w \in 0 .. Window
               PROVE  Cost * granted[f][w] <= Full + w
    BY DEF RateBound
  <2>1. bucket[f] \in Buckets /\ granted[f][w] \in Nat
    BY DEF LimiterInv, LimiterTypes, Quotas
  <2>2. Gained(f) \in Nat /\ Cost * granted[f][w] \in Nat
    BY <2>1, RefillFacts, OneMore DEF Gained, Buckets
  <2>3. Cost * granted[f][w] + Gained(f) <= Full + w
    BY DEF LimiterInv, Metered
  <2> QED BY <2>2, <2>3, FullFacts
<1> QED BY <1>1, LimiterAlways, PTL

\* Who waits as long as retry_after said is not refused, however the seconds
\* are rounded.
THEOREM RetryHonoured == Spec => RetryAfterKept
<1>1. LimiterInv /\ [Next]_vars => [\A f \in Fds : Reject(f) => 0 \notin promise[f]]_vars
  <2> SUFFICES ASSUME LimiterInv, NEW f \in Fds, Reject(f), 0 \in promise[f]
               PROVE  FALSE
    OBVIOUS
  <2>1. conn[f] # "closed" /\ Gained(f) < Cost
    BY RejectFacts DEF Reject, LimiterInv
  <2>2. 0 + Gained(f) >= Cost
    BY <2>1 DEF LimiterInv, Promised
  <2>3. Gained(f) \in Nat
    <3>1. bucket[f] \in Buckets
      BY DEF LimiterInv, LimiterTypes
    <3> QED BY <3>1, RefillFacts DEF Gained, Buckets
  <2> QED BY <2>1, <2>2, <2>3, FullFacts
<1> QED BY <1>1, LimiterAlways, PTL DEF Spec, RetryAfterKept

-----------------------------------------------------------------------------
(* The transfers *)

\* What the types of the client's part are.
TransferTypes ==
  /\ counter \in 0 .. MaxRequests
  /\ DOMAIN pending \subseteq Ids /\ \A i \in DOMAIN pending : pending[i] \in Requests
  /\ DOMAIN handles \subseteq Handles /\ \A h \in DOMAIN handles : handles[h] \in Transfers
  /\ unread \subseteq DOMAIN handles
  /\ answers \in [Ids -> Nat]

TransferInv == TransferTypes /\ Numbered

\* There is always a handle to be had: there are more of them than requests.
LEMMA FreeHandle ==
  ASSUME TransferInv
  PROVE  NewHandle \in Handles /\ NewHandle \notin DOMAIN handles
<1> DEFINE H == DOMAIN handles
           number == [h \in H |-> handles[h].id]
<1>1. number \in Injection(H, Ids)
  <2>1. \A h \in H : handles[h].id \in Ids
    BY DEF TransferInv, TransferTypes, Transfers
  <2>2. IsInjective(number)
    BY DEF TransferInv, Numbered, IsInjective
  <2> QED BY <2>1, <2>2 DEF Injection
<1>2. IsFiniteSet(Ids) /\ Cardinality(Ids) = MaxRequests
  BY FS_Interval, AIAssumption DEF Ids
<1>3. Cardinality(Handles) = MaxRequests + 1
  BY FS_Interval, AIAssumption DEF Handles
<1> HIDE DEF number, H
<1>4. Cardinality(H) <= MaxRequests
  BY <1>1, <1>2, FS_Injection
<1>5. H # Handles
  BY <1>3, <1>4, AIAssumption
<1>6. \E h \in Handles : h \notin H
  BY <1>5 DEF H, TransferInv, TransferTypes
<1> QED BY <1>6 DEF H, NewHandle

LEMMA StartedType ==
  ASSUME NEW i \in Ids
  PROVE  Started(i) \in Transfers /\ Started(i).id = i
BY AIAssumption DEF Started, Transfers, Outcomes

\* addRequest: one more number, one more request, one more transfer.
LEMMA AskAIStep ==
  ASSUME TransferInv, NEW f \in Fds, NEW kind \in Kinds, AskAI(f, kind)
  PROVE  /\ TransferInv'
         /\ counter' = counter + 1 /\ counter' \in Ids /\ counter' \notin 1 .. counter
         /\ DOMAIN pending' = DOMAIN pending \cup {counter'}
         /\ {handles'[h].id : h \in DOMAIN handles'} =
              {handles[h].id : h \in DOMAIN handles} \cup {counter'}
<1> DEFINE n == NewHandle
<1>1. n \in Handles /\ n \notin DOMAIN handles
  BY FreeHandle
<1> HIDE DEF n
<1>2. /\ counter' = counter + 1 /\ counter' \in Ids /\ counter' \in 0 .. MaxRequests
      /\ counter' \notin 1 .. counter /\ 1 .. counter \subseteq 1 .. counter'
      /\ counter' \in 1 .. counter'
  BY AIAssumption DEF AskAI, TransferInv, TransferTypes, Ids
<1>3. /\ DOMAIN pending' = DOMAIN pending \cup {counter'}
      /\ \A i \in DOMAIN pending' :
           pending'[i] = IF i = counter' THEN [kind |-> kind, retry_count |-> 0] ELSE pending[i]
  BY DEF AskAI
<1>4. /\ DOMAIN handles' = DOMAIN handles \cup {n}
      /\ \A h \in DOMAIN handles' : handles'[h] = IF h = n THEN Started(counter') ELSE handles[h]
  BY DEF AskAI, n
<1>5. unread' = unread /\ answers' = answers
  BY DEF AskAI
<1>6. Started(counter') \in Transfers /\ Started(counter').id = counter'
  BY <1>2, StartedType
<1>7. [kind |-> kind, retry_count |-> 0] \in Requests
  BY DEF Requests
<1>8. TransferTypes'
  BY <1>1, <1>2, <1>3, <1>4, <1>5, <1>6, <1>7 DEF TransferInv, TransferTypes
<1>9. handles'[n].id = counter' /\ \A h \in DOMAIN handles : handles'[h] = handles[h]
  BY <1>1, <1>4, <1>6
<1>10. Numbered'
  BY <1>2, <1>4, <1>9 DEF TransferInv, Numbered
<1>11. {handles'[h].id : h \in DOMAIN handles'} =
         {handles[h].id : h \in DOMAIN handles} \cup {counter'}
  BY <1>4, <1>9
<1> QED BY <1>2, <1>3, <1>8, <1>10, <1>11 DEF TransferInv

\* The state of the transfers and their ages leave the rest of a handle alone.
LEMMA SameTransfers ==
  ASSUME TransferInv, UNCHANGED <<counter, pending, answers>>,
         DOMAIN handles' = DOMAIN handles, unread' \subseteq DOMAIN handles,
         \A h \in DOMAIN handles : handles'[h] \in Transfers /\ handles'[h].id = handles[h].id
  PROVE  /\ TransferInv'
         /\ {handles'[h].id : h \in DOMAIN handles'} = {handles[h].id : h \in DOMAIN handles}
BY DEF TransferInv, TransferTypes, Numbered

LEMMA PerformStep ==
  ASSUME TransferInv, Perform
  PROVE  /\ TransferInv' /\ UNCHANGED <<counter, pending, answers>>
         /\ {handles'[h].id : h \in DOMAIN handles'} = {handles[h].id : h \in DOMAIN handles}
<1>1. PICK result \in [Running -> Outcomes] :
        /\ handles' = [h \in DOMAIN handles |->
                         IF h \in Running THEN [handles[h] EXCEPT !.outcome = result[h]]
                                          ELSE handles[h]]
        /\ unread' = unread \cup {h \in Running : result[h] # "running"}
  BY DEF Perform
<1>2. DOMAIN handles' = DOMAIN handles /\ unread' \subseteq DOMAIN handles
  BY <1>1 DEF Running, TransferInv, TransferTypes
<1>3. ASSUME NEW h \in DOMAIN handles
      PROVE  handles'[h] \in Transfers /\ handles'[h].id = handles[h].id
  <2>1. handles[h] \in Transfers
    BY DEF TransferInv, TransferTypes
  <2>2. CASE h \in Running
    <3>1. result[h] \in Outcomes /\ handles'[h] = [handles[h] EXCEPT !.outcome = result[h]]
      BY <1>1, <2>2
    <3> QED BY <2>1, <3>1 DEF Transfers
  <2>3. CASE h \notin Running
    BY <1>1, <2>1, <2>3
  <2> QED BY <2>2, <2>3
<1>4. UNCHANGED <<counter, pending, answers>>
  BY DEF Perform
<1> QED BY <1>2, <1>3, <1>4, SameTransfers

LEMMA AgeStep ==
  ASSUME TransferInv, Tick
  PROVE  /\ TransferInv' /\ UNCHANGED <<counter, pending, answers>>
         /\ {handles'[h].id : h \in DOMAIN handles'} = {handles[h].id : h \in DOMAIN handles}
<1>1. ASSUME NEW h \in DOMAIN handles
      PROVE  handles'[h] \in Transfers /\ handles'[h].id = handles[h].id
  <2>1. handles[h] \in Transfers
    BY DEF TransferInv, TransferTypes
  <2>2. handles'[h] = [handles[h] EXCEPT !.age = IF @ = Limit THEN @ ELSE @ + 1]
    BY DEF Tick
  <2> QED BY <2>1, <2>2, AIAssumption DEF Transfers
<1>2. DOMAIN handles' = DOMAIN handles /\ unread' \subseteq DOMAIN handles
  BY DEF Tick, TransferInv, TransferTypes
<1>3. UNCHANGED <<counter, pending, answers>>
  BY DEF Tick
<1> QED BY <1>1, <1>2, <1>3, SameTransfers

\* A finished transfer goes with its request; a failed one may leave a new
\* handle that has its number.
LEMMA ProcessStep ==
  ASSUME TransferInv, NEW h \in Handles, Process(h)
  PROVE  TransferInv'
<1>1. /\ h \in DOMAIN handles /\ unread' = unread \ {h} /\ counter' = counter
      /\ pending' = Restrict(pending, DOMAIN pending \ {handles[h].id})
      /\ answers' = answers \/ answers' = [answers EXCEPT ![handles[h].id] = @ + 1]
  BY DEF Process, Forget, Failover, TransferInv, TransferTypes
<1>2. /\ DOMAIN pending' = DOMAIN pending \ {handles[h].id}
      /\ \A i \in DOMAIN pending' : pending'[i] = pending[i]
  BY <1>1 DEF Restrict
<1>3. answers' \in [Ids -> Nat]
  BY <1>1 DEF TransferInv, TransferTypes
<1>4. CASE Forget(h)
  <2>1. /\ DOMAIN handles' = DOMAIN handles \ {h}
        /\ \A k \in DOMAIN handles' : handles'[k] = handles[k]
    BY <1>4 DEF Forget, Restrict
  <2> QED BY <1>1, <1>2, <1>3, <2>1 DEF TransferInv, TransferTypes, Numbered
<1>5. CASE Failover(h)
  <2> DEFINE n == NewHandle
  <2>1. n \in Handles /\ n \notin DOMAIN handles
    BY FreeHandle
  <2> HIDE DEF n
  <2>2. /\ DOMAIN handles' = (DOMAIN handles \ {h}) \cup {n}
        /\ \A k \in DOMAIN handles' :
             handles'[k] = IF k = n THEN Started(handles[h].id) ELSE handles[k]
    BY <1>5 DEF Failover, n
  <2>3. handles[h].id \in Ids
    BY <1>1 DEF TransferInv, TransferTypes, Transfers
  <2>4. Started(handles[h].id) \in Transfers /\ Started(handles[h].id).id = handles[h].id
    BY <2>3, StartedType
  <2>5. TransferTypes'
    BY <1>1, <1>2, <1>3, <2>1, <2>2, <2>4 DEF TransferInv, TransferTypes
  <2>6. Numbered'
    BY <1>1, <2>1, <2>2, <2>4 DEF TransferInv, Numbered
  <2> QED BY <2>5, <2>6 DEF TransferInv
<1> QED BY <1>4, <1>5 DEF Process

LEMMA TransferStep ==
  ASSUME TransferInv, [Next]_vars
  PROVE  TransferInv'
<1>1. ASSUME NEW f \in Fds, NEW kind \in Kinds, AskAI(f, kind)
      PROVE  TransferInv'
  BY <1>1, AskAIStep
<1>2. ASSUME NEW f \in Fds, AskAIFails(f)
      PROVE  TransferInv'
  <2> DEFINE c == counter + 1
  <2>1. /\ counter' = c /\ c \in 0 .. MaxRequests /\ c \in Ids
        /\ 1 .. counter \subseteq 1 .. c
    BY <1>2, AIAssumption DEF AskAIFails, TransferInv, TransferTypes, Ids
  <2>2. answers' = [answers EXCEPT ![c] = @ + 1] /\ UNCHANGED <<pending, handles, unread>>
    BY <1>2, <2>1 DEF AskAIFails
  <2> HIDE DEF c
  <2>3. answers' \in [Ids -> Nat]
    BY <2>1, <2>2 DEF TransferInv, TransferTypes
  <2> QED BY <2>1, <2>2, <2>3 DEF TransferInv, TransferTypes, Numbered
<1>3. ASSUME NEW h \in Handles, Process(h)
      PROVE  TransferInv'
  BY <1>3, ProcessStep
<1>4. ASSUME NEW h \in Handles, Die(h)
      PROVE  TransferInv'
  BY <1>4 DEF Die, TransferInv, TransferTypes, Numbered
<1>5. CASE Perform \/ Tick
  BY <1>5, PerformStep, AgeStep
<1>6. CASE UNCHANGED ai
  BY <1>6 DEF ai, TransferInv, TransferTypes, Numbered
<1> QED BY <1>1, <1>2, <1>3, <1>4, <1>5, <1>6
        DEF Next, Client, Accept, Disconnect, Other, Reject, Login, Ask, Work, Processed, vars

LEMMA TransferInit == Init => TransferInv /\ Served
BY AIAssumption DEF Init, TransferInv, TransferTypes, Numbered, Served, Ids

LEMMA TypesSplit == LimiterTypes /\ TransferTypes /\ pc \in {"events", "perform", "process", "down"}
                      <=> TypeOK
BY DEF LimiterTypes, TransferTypes, TypeOK, Quotas

\* Every variable keeps its type, for any number of providers; there is always
\* a handle for a new request.
THEOREM AITypeCorrect == Spec => []TypeOK
<1> DEFINE Loop == pc \in {"events", "perform", "process", "down"}
           Inv == LimiterInv /\ TransferInv /\ Loop
<1>1. Init => Inv
  BY LimiterInit, TransferInit DEF LimiterInv, Init
<1>2. Inv /\ [Next]_vars => Inv'
  <2>1. Loop /\ [Next]_vars => Loop'
    BY DEF Next, Client, Accept, Disconnect, Other, Reject, Login, Ask, AskAI, AskAIFails, Pass,
           Limited, Work, Perform, Process, Die, Processed, Tick, vars, ai
  <2> QED BY <2>1, LimiterStep, PromisedStep, TransferStep DEF LimiterInv
<1>3. Inv => TypeOK
  BY TypesSplit DEF LimiterInv, TransferInv
<1> QED BY <1>1, <1>2, <1>3, PTL DEF Spec

-----------------------------------------------------------------------------
(* One answer for each request, with the one provider the constructor knows *)

\* The conjuncts of Served about the answers.
Answered ==
  \A i \in Ids : pc # "down" =>
    answers[i] = IF i \in 1 .. counter /\ i \notin DOMAIN pending THEN 1 ELSE 0

\* A finished transfer is forgotten with its request, which gets its answer.
LEMMA ForgetStep ==
  ASSUME Providers = 1, TransferInv, Served, NEW h \in Handles, Process(h)
  PROVE  Served'
<1>1. /\ h \in DOMAIN handles /\ handles[h].id \in DOMAIN pending /\ counter' = counter
      /\ pc = "process" /\ pc' = pc
  BY DEF Process, TransferInv, TransferTypes
<1> DEFINE i == handles[h].id
<1>2. i \in Ids /\ i \in DOMAIN pending /\ i \in 1 .. counter
  BY <1>1 DEF TransferInv, TransferTypes, Served
<1>3. Exhausted(pending[i])
  BY <1>2 DEF Exhausted, TransferInv, TransferTypes, Requests
<1>4. Forget(h) /\ answers' = [answers EXCEPT ![i] = @ + 1]
  BY <1>3 DEF Process
<1>5. /\ DOMAIN pending' = DOMAIN pending \ {i}
      /\ DOMAIN handles' = DOMAIN handles \ {h}
      /\ \A k \in DOMAIN handles' : handles'[k].id = handles[k].id
  BY <1>4 DEF Forget, Restrict
<1>6. {handles'[k].id : k \in DOMAIN handles'} = {handles[k].id : k \in DOMAIN handles} \ {i}
  BY <1>1, <1>5 DEF TransferInv, Numbered
<1> HIDE DEF i
<1>7. answers[i] = 0
  BY <1>1, <1>2 DEF Served
<1>8. answers'[i] = 1 /\ \A j \in Ids \ {i} : answers'[j] = answers[j]
  BY <1>2, <1>4, <1>7 DEF TransferInv, TransferTypes
<1>9. Answered'
  BY <1>1, <1>2, <1>5, <1>8 DEF Answered, Served
<1> QED BY <1>1, <1>5, <1>6, <1>9 DEF Served, Answered

LEMMA ServedStep ==
  ASSUME Providers = 1, TransferInv, Served, [Next]_vars
  PROVE  Served'
<1>1. ASSUME NEW f \in Fds, NEW kind \in Kinds, AskAI(f, kind)
      PROVE  Served'
  <2>1. /\ counter' = counter + 1 /\ counter' \in Ids /\ counter' \notin 1 .. counter
        /\ DOMAIN pending' = DOMAIN pending \cup {counter'}
        /\ {handles'[h].id : h \in DOMAIN handles'} =
             {handles[h].id : h \in DOMAIN handles} \cup {counter'}
    BY <1>1, AskAIStep
  <2>2. 1 .. counter' = (1 .. counter) \cup {counter'}
    BY <2>1 DEF TransferInv, TransferTypes
  <2>3. answers' = answers /\ pc # "down"
    BY <1>1 DEF AskAI, Pass, Limited
  <2>4. Answered'
    BY <2>1, <2>2, <2>3 DEF Answered, Served
  <2> QED BY <2>1, <2>2, <2>4 DEF Served, Answered
<1>2. ASSUME NEW f \in Fds, AskAIFails(f)
      PROVE  Served'
  <2> DEFINE c == counter + 1
  <2>1. /\ counter' = c /\ pc # "down" /\ UNCHANGED <<pending, handles>>
        /\ answers' = [answers EXCEPT ![c] = @ + 1]
    BY <1>2 DEF AskAIFails, Pass, Limited
  <2>2. c \in Ids /\ c \notin 1 .. counter /\ 1 .. c = (1 .. counter) \cup {c}
    BY <1>2, AIAssumption DEF AskAIFails, TransferInv, TransferTypes, Ids
  <2> HIDE DEF c
  <2>3. answers[c] = 0
    BY <2>1, <2>2 DEF Served
  <2>4. answers'[c] = 1 /\ \A j \in Ids \ {c} : answers'[j] = answers[j]
    BY <2>1, <2>2, <2>3 DEF TransferInv, TransferTypes
  <2>5. Answered'
    BY <2>1, <2>2, <2>4 DEF Answered, Served
  <2> QED BY <2>1, <2>2, <2>5 DEF Served, Answered
<1>3. ASSUME NEW h \in Handles, Process(h)
      PROVE  Served'
  BY <1>3, ForgetStep
<1>4. ASSUME NEW h \in Handles, Die(h)
      PROVE  Served'
  BY <1>4 DEF Die, Served
<1>5. CASE Perform \/ Tick
  <2>1. pc # "down"
    BY <1>5 DEF Perform, Tick
  <2> QED BY <1>5, <2>1, PerformStep, AgeStep DEF Served
<1>6. CASE UNCHANGED ai /\ (pc' # "down" => pc # "down")
  BY <1>6 DEF ai, Served
<1> QED BY <1>1, <1>2, <1>3, <1>4, <1>5, <1>6
        DEF Next, Client, Accept, Disconnect, Other, Reject, Login, Ask, Pass, Limited, Work,
            Processed, vars

\* Every request to the AI service has one transfer or one answer, never both
\* and never neither, as long as there is one provider: with a second one
\* tryFailover would leave a transfer whose request is gone.
THEOREM AnswersOnce ==
  ASSUME Providers = 1
  PROVE  Spec => []AnsweredOnce
<1>1. TransferInv /\ Served => AnsweredOnce
  <2> SUFFICES ASSUME TransferInv, Served PROVE AnsweredOnce
    OBVIOUS
  <2> DEFINE H == DOMAIN handles
             P == DOMAIN pending
             number == [h \in H |-> handles[h].id]
  <2>1. number \in Bijection(H, P)
    <3>1. number \in [H -> P]
      BY DEF Served
    <3>2. IsInjective(number)
      BY DEF TransferInv, Numbered, IsInjective
    <3>3. \A i \in P : \E h \in H : number[h] = i
      BY DEF Served
    <3> QED BY <3>1, <3>2, <3>3 DEF Bijection, Injection, Surjection
  <2>2. IsFiniteSet(H)
    <3>1. IsFiniteSet(Handles)
      BY FS_Interval, AIAssumption DEF Handles
    <3> QED BY <3>1, FS_Subset DEF TransferInv, TransferTypes
  <2> HIDE DEF number
  <2>3. Cardinality(H) = Cardinality(P)
    BY <2>1, <2>2, FS_Bijection DEF ExistsBijection
  <2>4. \A i \in 1 .. counter : i \in Ids
    BY AIAssumption DEF TransferInv, TransferTypes, Ids
  <2> QED BY <2>3, <2>4 DEF AnsweredOnce, Served
<1> QED BY <1>1, TransferInit, TransferStep, ServedStep, PTL DEF Spec
=============================================================================
