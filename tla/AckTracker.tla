----------------------------- MODULE AckTracker -----------------------------
(***************************************************************************)
(* Acknowledged delivery on one gateway: the "send" and "ack" handlers,    *)
(* AckTracker (gateway/src/AckTracker.cpp) and the turns of the event loop *)
(* that retry, give up and write messages (gateway/src/EpollServer.cpp).   *)
(* The target is on this gateway, so the message goes into the priority    *)
(* queue once per device and is tracked under its id.                      *)
(*                                                                         *)
(* Time is the second the gateway's clock shows.  Only the seconds left to *)
(* an entry's next retry matter, so the model counts those down and needs  *)
(* no bound on time.  The clock may tick between any two steps.  Each      *)
(* connection logs in once and message ids are unique.                     *)
(***************************************************************************)
EXTENDS Naturals, FiniteSets

CONSTANTS
  Ids,           \* message ids
  Fds,           \* file descriptors
  Users,         \* user names
  MAX_RETRIES,   \* 3 in the code
  Closed,        \* no connection under this descriptor
  NoEntry        \* pending_acks_ has no entry for the id

ASSUME RetriesAssumption == MAX_RETRIES \in Nat \ {0}
VARIABLES
  phase,       \* the turn of the loop: "io", "retry", "dead", "flush"
  linked,      \* the Redis connection works
  conn,        \* the user of each connection
  acks,        \* pending_acks_
  due,         \* the entries getPendingRetries returned, not yet sent
  dead,        \* the entries drainDeadLetters returned, not yet stored
  pq,          \* the priority queue: first copies on their way
  deadLetters, \* the lists msg_queue:dead_letter:<user> in Redis
  inbox,       \* ids the client of each connection has received
  sent, acked, givenUp,   \* ids by what became of them (history)
  quiet        \* seconds since an id was tracked or sent again (history)

netVars == <<linked, conn, deadLetters, inbox>>
history == <<sent, acked, givenUp>>
vars == <<phase, netVars, acks, due, dead, pq, history, quiet>>

Entries == [user : Users, fd : Fds, retry_count : 0 .. MAX_RETRIES, wait : Nat]

ASSUME AckDistinctAssumption == Closed \notin Users /\ NoEntry \notin Entries

\* AckEntry::retryDelaySeconds, 1 << retry_count.
retryDelaySeconds(count) == 2 ^ count

\* quiet is only compared with delays, so it stops counting at the longest.
MaxQuiet == 2 ^ (MAX_RETRIES - 1)

\* The provers know nothing about powers: this much they are told, and TLC
\* evaluates it.
ASSUME DelayAssumption ==
  /\ \A n \in 0 .. MAX_RETRIES : retryDelaySeconds(n) \in Nat
  /\ retryDelaySeconds(0) = 1
  /\ MaxQuiet \in Nat
  /\ \A n \in 0 .. MAX_RETRIES - 1 : retryDelaySeconds(n) <= MaxQuiet

TypeOK ==
  /\ phase \in {"io", "retry", "dead", "flush"}
  /\ linked \in BOOLEAN
  /\ conn \in [Fds -> Users \cup {Closed}]
  /\ acks \in [Ids -> Entries \cup {NoEntry}]
  /\ due \subseteq Ids \X Fds
  /\ dead \subseteq Ids
  /\ pq \subseteq Ids \X Fds
  /\ deadLetters \subseteq Ids
  /\ inbox \in [Fds -> SUBSET Ids]
  /\ sent \subseteq Ids /\ acked \subseteq Ids /\ givenUp \subseteq Ids
  /\ quiet \in [Ids -> 0 .. MaxQuiet]

Init ==
  /\ phase = "io"
  /\ linked = TRUE
  /\ conn = [f \in Fds |-> Closed]
  /\ acks = [i \in Ids |-> NoEntry]
  /\ due = {} /\ dead = {} /\ pq = {}
  /\ deadLetters = {}
  /\ inbox = [f \in Fds |-> {}]
  /\ sent = {} /\ acked = {} /\ givenUp = {}
  /\ quiet = [i \in Ids |-> 0]

Tracked(i) == acks[i] # NoEntry

-----------------------------------------------------------------------------
(* Events of epoll_wait *)

\* A connection is accepted and logs in, perhaps on a number used before.
Connect(f, u) ==
  /\ phase = "io"
  /\ conn[f] = Closed
  /\ conn' = [conn EXCEPT ![f] = u]
  /\ UNCHANGED <<phase, linked, acks, due, dead, pq, deadLetters, inbox, history, quiet>>

\* disconnectClient: neither the tracker nor the priority queue is told.
Close(f) ==
  /\ conn' = [conn EXCEPT ![f] = Closed]
  /\ inbox' = [inbox EXCEPT ![f] = {}]

Disconnect(f) ==
  /\ phase = "io"
  /\ conn[f] # Closed
  /\ Close(f)
  /\ UNCHANGED <<phase, linked, acks, due, dead, pq, deadLetters, history, quiet>>

\* trackMessage: the entry of the id is written, or written over.
trackMessage(i, u, f) ==
  acks' = [acks EXCEPT ![i] = [user |-> u, fd |-> f, retry_count |-> 0, wait |-> 1]]

\* The end of the "send" handler: sendToUser, then trackMessage once for each
\* device.  All calls have the same id: the entry of the last device stays.
Send(i, u) ==
  /\ phase = "io" /\ linked
  /\ i \notin sent
  /\ \E f \in Fds : conn[f] = u /\ trackMessage(i, u, f)
  /\ pq' = pq \cup {<<i, f>> : f \in {d \in Fds : conn[d] = u}}
  /\ sent' = sent \cup {i}
  /\ quiet' = [quiet EXCEPT ![i] = 0]
  /\ UNCHANGED <<phase, netVars, due, dead, acked, givenUp>>

\* Mutant of acknowledgeMessage: the entry is found and stays.
acknowledgeMessageKeep(i) == UNCHANGED acks

\* acknowledgeMessage: the entry is erased, whoever asks.
acknowledgeMessage(i) == acks' = [acks EXCEPT ![i] = NoEntry]

\* Mutant of MayAck: a second thread takes acknowledgements at any time.
MayAckAnyTime == TRUE

\* Requests are read in one turn of the loop only.
MayAck == phase = "io"

\* The "ack" handler, for a message this client has received, on whatever
\* connection.  An id that is not tracked changes nothing.
Ack(f, i) ==
  /\ MayAck
  /\ i \in inbox[f]
  /\ Tracked(i)
  /\ acknowledgeMessage(i)
  /\ acked' = acked \cup {i}
  /\ UNCHANGED <<phase, netVars, due, dead, pq, sent, givenUp, quiet>>

-----------------------------------------------------------------------------
(* checkAckRetries *)

\* getPendingRetries copies the entries whose time has come.
GetPendingRetries ==
  /\ phase = "io"
  /\ due' = {<<i, acks[i].fd>> : i \in {j \in Ids : /\ Tracked(j)
                                                    /\ acks[j].retry_count < MAX_RETRIES
                                                    /\ acks[j].wait = 0}}
  /\ phase' = "retry"
  /\ UNCHANGED <<netVars, acks, dead, pq, history, quiet>>

\* Mutant of markRetryDone: the delay is that of the retry before.
markRetryDoneEarly(i) ==
  acks' = [acks EXCEPT ![i].retry_count = @ + 1,
                       ![i].wait = retryDelaySeconds(acks[i].retry_count)]

\* Mutant of markRetryDone: the counter is not increased.
markRetryDoneNoCount(i) ==
  acks' = [acks EXCEPT ![i].wait = retryDelaySeconds(acks[i].retry_count + 1)]

\* Mutant of markRetryDone: the counter grows by the seconds just waited.
markRetryDoneByDelay(i) ==
  acks' = [acks EXCEPT ![i].retry_count = @ + retryDelaySeconds(@),
                       ![i].wait = retryDelaySeconds(acks[i].retry_count + 1)]

\* markRetryDone: the next retry waits 2, then 4 seconds; after the last one
\* next_retry is left as it is.
markRetryDone(i) ==
  acks' = [acks EXCEPT ![i].retry_count = @ + 1,
                       ![i].wait = IF acks[i].retry_count + 1 < MAX_RETRIES
                                   THEN retryDelaySeconds(acks[i].retry_count + 1) ELSE @]

\* A copy is sent to the descriptor that was tracked: to its connection, to
\* nobody if it is closed, and a write error closes the connection.
sendToClient(f, i) ==
  \/ /\ inbox' = IF conn[f] = Closed THEN inbox ELSE [inbox EXCEPT ![f] = @ \cup {i}]
     /\ UNCHANGED conn
  \/ conn[f] # Closed /\ Close(f)

\* One turn of the loop over the retries.
Resend(i, f) ==
  /\ phase = "retry"
  /\ <<i, f>> \in due
  /\ due' = due \ {<<i, f>>}
  /\ sendToClient(f, i)
  /\ IF Tracked(i) THEN markRetryDone(i) ELSE UNCHANGED acks
  /\ quiet' = [quiet EXCEPT ![i] = 0]
  /\ UNCHANGED <<phase, linked, dead, pq, deadLetters, history>>

\* Mutant of Exhausted: one retry is enough.
ExhaustedEarly == {i \in Ids : Tracked(i) /\ acks[i].retry_count > 0}

\* The entries whose retries are used.
Exhausted == {i \in Ids : Tracked(i) /\ acks[i].retry_count >= MAX_RETRIES}

\* drainDeadLetters moves them out, also one whose last retry has just gone.
DrainDeadLetters ==
  /\ phase = "retry"
  /\ due = {}
  /\ dead' = Exhausted
  /\ acks' = [i \in Ids |-> IF i \in Exhausted THEN NoEntry ELSE acks[i]]
  /\ givenUp' = givenUp \cup Exhausted
  /\ phase' = "dead"
  /\ UNCHANGED <<netVars, due, pq, sent, acked, quiet>>

\* pushMessage under the name dead_letter:<user>, whose answer nobody reads.
PushDeadLetter(i) ==
  /\ phase = "dead"
  /\ i \in dead
  /\ dead' = dead \ {i}
  /\ deadLetters' = IF linked THEN deadLetters \cup {i} ELSE deadLetters
  /\ UNCHANGED <<phase, linked, conn, inbox, acks, due, pq, history, quiet>>

EndAckRetries ==
  /\ phase = "dead"
  /\ dead = {}
  /\ phase' = "flush"
  /\ UNCHANGED <<netVars, acks, due, dead, pq, history, quiet>>

-----------------------------------------------------------------------------
(* The rest of the loop *)

\* A first copy leaves the priority queue.
Flush(i, f) ==
  /\ phase = "flush"
  /\ <<i, f>> \in pq
  /\ pq' = pq \ {<<i, f>>}
  /\ sendToClient(f, i)
  /\ UNCHANGED <<phase, linked, acks, due, dead, deadLetters, history, quiet>>

\* pushOfflineMessages drains every name that has a list, the dead letters'
\* among them, and hands the messages to the user of that name.  No user is
\* called dead_letter:<user>, so sendToUser finds nobody.
PushOfflineMessages ==
  /\ phase = "flush"
  /\ pq = {}
  /\ deadLetters' = IF linked THEN {} ELSE deadLetters
  /\ phase' = "io"
  /\ UNCHANGED <<linked, conn, inbox, acks, due, dead, pq, history, quiet>>

Tick ==
  /\ acks' = [i \in Ids |-> IF Tracked(i) /\ acks[i].wait > 0
                            THEN [acks[i] EXCEPT !.wait = @ - 1] ELSE acks[i]]
  /\ quiet' = [i \in Ids |-> IF i \in sent /\ quiet[i] < MaxQuiet THEN quiet[i] + 1 ELSE quiet[i]]
  /\ UNCHANGED <<phase, netVars, due, dead, pq, history>>

\* The Redis connection is lost, for good.
Cut ==
  /\ linked
  /\ linked' = FALSE
  /\ UNCHANGED <<phase, conn, deadLetters, inbox, acks, due, dead, pq, history, quiet>>

-----------------------------------------------------------------------------
Loop ==
  \/ GetPendingRetries \/ DrainDeadLetters \/ EndAckRetries \/ PushOfflineMessages
  \/ \E i \in Ids : PushDeadLetter(i) \/ \E f \in Fds : Resend(i, f) \/ Flush(i, f)

Clients ==
  \/ \E f \in Fds, u \in Users : Connect(f, u)
  \/ \E f \in Fds : Disconnect(f)
  \/ \E i \in Ids, u \in Users : Send(i, u)
  \/ \E i \in Ids, f \in Fds : Ack(f, i)

Next == Loop \/ Clients \/ Tick \/ Cut

Spec == Init /\ [][Next]_vars

\* The loop turns (epoll_wait returns within 100 ms) and the clock advances.
FairSpec == Spec /\ WF_vars(Loop) /\ WF_vars(Tick)

-----------------------------------------------------------------------------
(* Properties *)

\* A message that was sent is tracked, acknowledged or given up, and exactly
\* one of them; another message is none of them.
OneFate ==
  \A i \in Ids :
    /\ Tracked(i) => i \notin acked \cup givenUp
    /\ i \notin acked \cap givenUp
    /\ i \in sent <=> Tracked(i) \/ i \in acked \cup givenUp

Fate(i) ==
  IF Tracked(i) THEN "waiting"
  ELSE IF i \in acked THEN "acked" ELSE IF i \in givenUp THEN "givenup" ELSE "new"

Delivery == INSTANCE ReliableDelivery WITH
  fate <- [i \in Ids |-> Fate(i)],
  tries <- [i \in Ids |-> IF Tracked(i) THEN acks[i].retry_count ELSE 0]

\* The tracker keeps its promise (ReliableDelivery): at most MAX_RETRIES
\* retries, one final outcome, given up only when the retries are used.
DeliverySpec == Delivery!Spec

\* Every tracked message is settled, whatever the clients do.
DeliverySettles == Delivery!Settles

\* What the phases of the loop mean for the two copied-out vectors; a message
\* is at most once among the retries.
TurnOfLoop ==
  /\ phase # "retry" => due = {}
  /\ phase # "dead" => dead = {}
  /\ \A r, s \in due : r[1] = s[1] => r = s

\* The list of retries is made before they are sent: it never holds a message
\* that has been acknowledged since (getPendingRetries, checkAckRetries).
NoStaleRetry == \A r \in due : Tracked(r[1]) /\ acks[r[1]].retry_count < MAX_RETRIES

\* Retries back off: 1 s after the message was sent, 2 s and 4 s after the
\* retry before (AckTracker.h:4), however the clock falls between the steps.
Backoff ==
  [][\A i \in Ids, f \in Fds :
       <<i, f>> \in due /\ <<i, f>> \notin due' => quiet[i] >= retryDelaySeconds(acks[i].retry_count)]_vars
=============================================================================
