-------------------------- MODULE AIServiceClient ---------------------------
(***************************************************************************)
(* Requests to the AI service: the rate limiter in front of them           *)
(* (EpollServer::handleMessage), the three handlers ai_chat, ai_summary    *)
(* and ai_analyze, and the non-blocking client of                          *)
(* gateway/src/AIServiceClient.cpp on top of libcurl's multi interface.    *)
(*                                                                         *)
(* integrateWithEpoll is called before the epoll instance exists, so no    *)
(* transfer's socket is ever watched and the timer callback does nothing:  *)
(* libcurl gets to work only inside performAction, which the loop calls    *)
(* after each event of a client's connection.                              *)
(*                                                                         *)
(*   "events"   the loop takes the next event of epoll_wait                *)
(*   "perform"  performAction, curl_multi_socket_action                    *)
(*   "process"  processCompletedRequests, one finished transfer at a time  *)
(*   "down"     an exception has left the loop and the process has ended   *)
(*                                                                         *)
(* What a handler or a callback sends to users is the other modules'       *)
(* business; here an answer is the call of the request's callback.         *)
(***************************************************************************)
EXTENDS RateLimiter, FiniteSets, Functions

CONSTANTS
  Fds,           \* descriptors of client connections
  Providers,     \* provider_urls_.size(); the constructor makes it 1
  Limit,         \* Config::ai().timeout_ms, in ticks
  MaxRequests,   \* bound: AI requests made
  Window         \* bound: how far back RateBound looks, in ticks

ASSUME AIAssumption ==
  /\ Providers \in Nat \ {0} /\ Limit \in Nat
  /\ MaxRequests \in Nat /\ Window \in Nat

VARIABLES
  pc,           \* where in the loop the thread is
  conn,         \* connections_: "closed", "anonymous", "user"
  bucket,       \* conn.rate_limiter
  counter,      \* the number in the last request id
  pending,      \* pending_requests_: id -> kind and retry_count
  handles,      \* curl_to_request_, with the state of the transfer
  unread,       \* finished transfers curl_multi_info_read has not returned
  answers,      \* how often the callback of each id was called (history)
  granted,      \* requests let through in the last w ticks, by w (history)
  promise       \* ticks until the retry the client was told of (history)

ai == <<counter, pending, handles, unread, answers>>
limiter == <<bucket, granted, promise>>
vars == <<pc, conn, limiter, ai>>

Ids == 1 .. MaxRequests
Handles == 1 .. MaxRequests + 1   \* easy handles; freed ones may come back
Kinds == {"text", "analyze"}      \* analyze alone parses what comes back

\* A body is JSON, some other text, or no UTF-8.
Outcomes == {"running", "json", "text", "bytes", "failed"}

Requests == [kind : Kinds, retry_count : Nat]
Transfers == [id : Ids, age : 0 .. Limit, outcome : Outcomes]

TypeOK ==
  /\ pc \in {"events", "perform", "process", "down"}
  /\ conn \in [Fds -> {"closed", "anonymous", "user"}]
  /\ bucket \in [Fds -> Buckets]
  /\ counter \in 0 .. MaxRequests
  /\ DOMAIN pending \subseteq Ids /\ \A i \in DOMAIN pending : pending[i] \in Requests
  /\ DOMAIN handles \subseteq Handles /\ \A h \in DOMAIN handles : handles[h] \in Transfers
  /\ unread \subseteq DOMAIN handles
  /\ answers \in [Ids -> Nat]
  /\ granted \in [Fds -> [0 .. Window -> Nat]]
  /\ promise \in [Fds -> SUBSET Nat]

Init ==
  /\ pc = "events"
  /\ conn = [f \in Fds |-> "closed"]
  /\ bucket = [f \in Fds |-> NewBucket]
  /\ counter = 0 /\ pending = <<>> /\ handles = <<>> /\ unread = {}
  /\ answers = [i \in Ids |-> 0]
  /\ granted = [f \in Fds |-> [w \in 0 .. Window |-> 0]]
  /\ promise = [f \in Fds |-> {}]

-----------------------------------------------------------------------------
(* Events of client connections *)

\* handleAccept: a new Connection, a new bucket.
Accept(f) ==
  /\ pc = "events" /\ conn[f] = "closed"
  /\ conn' = [conn EXCEPT ![f] = "anonymous"]
  /\ bucket' = [bucket EXCEPT ![f] = NewBucket]
  /\ granted' = [granted EXCEPT ![f] = [w \in 0 .. Window |-> 0]]
  /\ promise' = [promise EXCEPT ![f] = {}]
  /\ UNCHANGED <<pc, ai>>

\* disconnectClient; the event is followed by performAction all the same, and
\* checkTimeouts is not.
Disconnect(f) ==
  /\ pc = "events" /\ conn[f] # "closed"
  /\ conn' = [conn EXCEPT ![f] = "closed"]
  /\ pc' \in {"events", "perform"}
  /\ UNCHANGED <<limiter, ai>>

\* An event without a limited request: ping, WHO, a request before login, part
\* of a line, EPOLLOUT.
Other(f) ==
  /\ pc = "events" /\ conn[f] # "closed"
  /\ pc' = "perform"
  /\ UNCHANGED <<conn, limiter, ai>>

\* A request that handleMessage asks the rate limiter about.  The same event may
\* bring more requests.
Limited(f) ==
  /\ pc = "events" /\ pc' \in {"events", "perform"}
  /\ bucket' = [bucket EXCEPT ![f] = tryConsume(@)]

\* The bucket has a token: the request is handled.
Pass(f) ==
  /\ Limited(f) /\ Grants(bucket[f])
  /\ granted' = [granted EXCEPT ![f] = [w \in 0 .. Window |-> @[w] + 1]]
  /\ promise' = [promise EXCEPT ![f] = {}]

\* "rate limit exceeded", with retry_after: the request ends there.
Reject(f) ==
  /\ conn[f] # "closed"
  /\ Limited(f) /\ ~Grants(bucket[f])
  /\ promise' = [promise EXCEPT ![f] = {Second * retryAfterSeconds(bucket'[f])}]
  /\ UNCHANGED <<conn, granted, ai>>

\* LOGIN and "login" are asked for a token; performLogin does the rest, or fails.
Login(f) ==
  /\ conn[f] # "closed"
  /\ Pass(f)
  /\ conn' \in {conn, [conn EXCEPT ![f] = "user"]}
  /\ UNCHANGED ai

\* Any other request of a user, whatever its handler does.
Ask(f) ==
  /\ conn[f] = "user"
  /\ Pass(f)
  /\ UNCHANGED <<conn, ai>>

\* curl_easy_init and curl_multi_add_handle, for a request with this id.
NewHandle == CHOOSE h \in Handles : h \notin DOMAIN handles
Started(i) == [id |-> i, age |-> 0, outcome |-> "running"]

\* ai_chat, ai_summary, ai_analyze: addRequest.
AskAI(f, kind) ==
  /\ conn[f] = "user"
  /\ Pass(f)
  /\ counter < MaxRequests
  /\ counter' = counter + 1
  /\ pending' = [i \in DOMAIN pending \cup {counter'} |->
                  IF i = counter' THEN [kind |-> kind, retry_count |-> 0] ELSE pending[i]]
  /\ handles' = [h \in DOMAIN handles \cup {NewHandle} |->
                  IF h = NewHandle THEN Started(counter') ELSE handles[h]]
  /\ UNCHANGED <<conn, unread, answers>>

\* curl_easy_init fails: the callback is called on the spot.
AskAIFails(f) ==
  /\ conn[f] = "user"
  /\ Pass(f)
  /\ counter < MaxRequests
  /\ counter' = counter + 1
  /\ answers' = [answers EXCEPT ![counter'] = @ + 1]
  /\ UNCHANGED <<conn, pending, handles, unread>>

-----------------------------------------------------------------------------
(* libcurl and its results *)

Running == {h \in DOMAIN handles : handles[h].outcome = "running"}

\* Mutant of Due: CURLOPT_TIMEOUT_MS is not set.
DueNever == {}

\* Transfers past their CURLOPT_TIMEOUT_MS.
Due == {h \in Running : handles[h].age = Limit}

\* curl_multi_socket_action with a descriptor libcurl does not know: transfers
\* whose timers are due are driven on.  Some of them finish, whichever way; a
\* transfer past its CURLOPT_TIMEOUT_MS always does.
Perform ==
  /\ pc = "perform"
  /\ \E result \in [Running -> Outcomes] :
       /\ \A h \in Due : result[h] = "failed"
       /\ handles' = [h \in DOMAIN handles |->
                        IF h \in Running THEN [handles[h] EXCEPT !.outcome = result[h]]
                                         ELSE handles[h]]
       /\ unread' = unread \cup {h \in Running : result[h] # "running"}
  /\ pc' = "process"
  /\ UNCHANGED <<conn, limiter, counter, pending, answers>>

\* Mutant of Exhausted: one provider too many is believed in.
ExhaustedLate(req) == req.retry_count + 1 > Providers

\* tryFailover counts the try and finds no provider left.
Exhausted(req) == req.retry_count + 1 >= Providers

\* The callbacks put the body of a successful transfer into a JSON text, which
\* has to be UTF-8, and that of ai_analyze parses it first: nobody catches what
\* dump or the parser throws.
Throws(req, outcome) == outcome = "bytes" \/ (req.kind = "analyze" /\ outcome = "text")

\* The transfer's handle and its request are erased.
Forget(h) ==
  /\ pending' = Restrict(pending, DOMAIN pending \ {handles[h].id})
  /\ handles' = Restrict(handles, DOMAIN handles \ {h})

\* tryFailover has another provider: the request's new handle is made, the
\* request is erased with the old one.
Failover(h) ==
  /\ pending' = Restrict(pending, DOMAIN pending \ {handles[h].id})
  /\ handles' = [k \in (DOMAIN handles \ {h}) \cup {NewHandle} |->
                   IF k = NewHandle THEN Started(handles[h].id) ELSE handles[k]]

\* One turn of the loop of processCompletedRequests.  CURLE_OK is success
\* whatever the answer says.
Process(h) ==
  /\ pc = "process" /\ h \in unread
  /\ handles[h].id \in DOMAIN pending
  /\ ~Throws(pending[handles[h].id], handles[h].outcome)
  /\ unread' = unread \ {h}
  /\ IF handles[h].outcome = "failed" /\ ~Exhausted(pending[handles[h].id])
       THEN Failover(h) /\ UNCHANGED answers
       ELSE Forget(h) /\ answers' = [answers EXCEPT ![handles[h].id] = @ + 1]
  /\ UNCHANGED <<pc, conn, limiter, counter>>

\* The exception runs through the loop and main catches it; ~AIServiceClient
\* frees what was under way and the process ends.
Die(h) ==
  /\ pc = "process" /\ h \in unread
  /\ handles[h].id \in DOMAIN pending
  /\ Throws(pending[handles[h].id], handles[h].outcome)
  /\ pc' = "down"
  /\ conn' = [f \in Fds |-> "closed"]
  /\ pending' = <<>> /\ handles' = <<>> /\ unread' = {}
  /\ UNCHANGED <<limiter, counter, answers>>

\* Nothing more to read: the next event.
Processed ==
  /\ pc = "process"
  /\ \A h \in unread : handles[h].id \notin DOMAIN pending
  /\ pc' = "events"
  /\ UNCHANGED <<conn, limiter, ai>>

\* Time passes, on every clock.
Tick ==
  /\ pc # "down"
  /\ bucket' = [f \in Fds |-> IF conn[f] = "closed" THEN bucket[f] ELSE Older(bucket[f])]
  /\ granted' = [f \in Fds |-> [w \in 0 .. Window |-> IF w = 0 THEN 0 ELSE granted[f][w - 1]]]
  /\ promise' = [f \in Fds |-> {IF p = 0 THEN 0 ELSE p - 1 : p \in promise[f]}]
  /\ handles' = [h \in DOMAIN handles |->
                   [handles[h] EXCEPT !.age = IF @ = Limit THEN @ ELSE @ + 1]]
  /\ UNCHANGED <<pc, conn, counter, pending, unread, answers>>

-----------------------------------------------------------------------------
Client(f) ==
  \/ Accept(f) \/ Disconnect(f) \/ Other(f)
  \/ Reject(f) \/ Login(f) \/ Ask(f) \/ AskAIFails(f)
  \/ \E kind \in Kinds : AskAI(f, kind)

Work == Perform \/ Processed \/ \E h \in Handles : Process(h) \/ Die(h)

Next == (\E f \in Fds : Client(f)) \/ Work \/ Tick

Spec == Init /\ [][Next]_vars

\* The thread goes on with its work and the clock runs; clients need not act.
FairSpec == Spec /\ WF_vars(Work) /\ WF_vars(Tick)

-----------------------------------------------------------------------------
(* Properties *)

\* Every AI request has one handle and no answer, or no handle and exactly one
\* answer; a handle without a request would write into freed memory (addRequest,
\* processCompletedRequests, tryFailover).
AnsweredOnce ==
  pc # "down" =>
    /\ {handles[h].id : h \in DOMAIN handles} = DOMAIN pending
    /\ Cardinality(DOMAIN handles) = Cardinality(DOMAIN pending)
    /\ \A i \in 1 .. counter : answers[i] = IF i \in DOMAIN pending THEN 0 ELSE 1

\* In no stretch of w ticks does a connection get through more requests than
\* the burst and what the rate gives in that time (refill, tryConsume).
RateBound ==
  \A f \in Fds, w \in 0 .. Window :
    Cost * granted[f][w] <= Full + w

\* A client that waits as long as retry_after said, and got nothing through
\* meanwhile, is not refused again (retryAfterSeconds after tryConsume).
RetryAfterKept == [][\A f \in Fds : Reject(f) => 0 \notin promise[f]]_vars

\* As long as clients go on causing events, every AI request is answered, or
\* the process ends.  Without them nothing drives the transfers.
AnsweredWhileActive ==
  []<>(pc = "perform") =>
    \A i \in Ids : i \in DOMAIN pending ~> (i \notin DOMAIN pending \/ pc = "down")
=============================================================================
