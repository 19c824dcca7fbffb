-------------------------- MODULE AckTrackerProofs --------------------------
(***************************************************************************)
(* Proofs about AckTracker: types, one outcome per message, no stale       *)
(* retry, and that the tracker implements ReliableDelivery, for any ids,   *)
(* users, descriptors and number of retries.                               *)
(***************************************************************************)
EXTENDS AckTracker, TLAPS

\* The inductive invariant.  The type of retry_count needs NoStaleRetry (a
\* retry is counted only below the maximum), and NoStaleRetry needs to know in
\* which turn of the loop the list of retries is not empty.
TrackerInv == TypeOK /\ TurnOfLoop /\ NoStaleRetry /\ OneFate

LEMMA TrackerInit == Init => TrackerInv
BY RetriesAssumption, DelayAssumption
   DEF Init, TrackerInv, TypeOK, TurnOfLoop, NoStaleRetry, OneFate, Tracked

\* Steps that leave the tracker, its vectors and the outcomes alone.
LEMMA QuietStep ==
  ASSUME TrackerInv, TypeOK', UNCHANGED <<acks, due, acked, givenUp, sent>>,
         phase' # "retry" => due = {}, phase' # "dead" => dead' = {}
  PROVE  TrackerInv'
BY DEF TrackerInv, TurnOfLoop, NoStaleRetry, OneFate, Tracked

LEMMA SendStep ==
  ASSUME TrackerInv, NEW i \in Ids, NEW u \in Users, Send(i, u)
  PROVE  TrackerInv'
<1> USE DEF TrackerInv, TypeOK, netVars, history
<1>1. PICK f \in Fds : trackMessage(i, u, f)
  BY DEF Send
<1>2. /\ acks' \in [Ids -> Entries \cup {NoEntry}]
      /\ acks'[i] \in Entries
      /\ \A j \in Ids \ {i} : acks'[j] = acks[j]
  BY <1>1, RetriesAssumption DEF trackMessage, Entries
<1>3. quiet' \in [Ids -> 0 .. MaxQuiet]
  BY DelayAssumption DEF Send
<1>4. TypeOK'
  BY <1>2, <1>3 DEF Send
<1>5. due = {} /\ due' = {} /\ TurnOfLoop' /\ NoStaleRetry'
  BY DEF Send, TurnOfLoop, NoStaleRetry
<1>6. OneFate'
  BY <1>2, AckDistinctAssumption DEF Send, OneFate, Tracked
<1> QED BY <1>4, <1>5, <1>6

LEMMA AckStep ==
  ASSUME TrackerInv, NEW i \in Ids, NEW f \in Fds, Ack(f, i)
  PROVE  TrackerInv'
<1> USE DEF TrackerInv, TypeOK, netVars, history
<1>1. TypeOK'
  BY DEF Ack, acknowledgeMessage
<1>2. TurnOfLoop' /\ NoStaleRetry'
  BY DEF Ack, MayAck, TurnOfLoop, NoStaleRetry
<1>3. OneFate'
  BY DEF Ack, acknowledgeMessage, OneFate, Tracked
<1> QED BY <1>1, <1>2, <1>3

LEMMA GetPendingRetriesStep == TrackerInv /\ GetPendingRetries => TrackerInv'
<1> SUFFICES ASSUME TrackerInv, GetPendingRetries PROVE TrackerInv'
  OBVIOUS
<1> USE DEF TrackerInv, TypeOK, netVars, history
<1>1. \A r \in due' : /\ r[1] \in Ids /\ Tracked(r[1]) /\ acks[r[1]].retry_count < MAX_RETRIES
                      /\ r = <<r[1], acks[r[1]].fd>>
  BY DEF GetPendingRetries
<1>2. \A j \in Ids : Tracked(j) => acks[j].fd \in Fds
  BY DEF Tracked, Entries
<1>3. TypeOK'
  BY <1>1, <1>2 DEF GetPendingRetries
<1>4. TurnOfLoop'
  BY <1>1 DEF GetPendingRetries, TurnOfLoop
<1>5. NoStaleRetry' /\ OneFate'
  BY <1>1 DEF GetPendingRetries, NoStaleRetry, OneFate, Tracked
<1> QED BY <1>3, <1>4, <1>5

\* A retry is counted: the entry stays, its count stays within the maximum.
LEMMA MarkRetryDone ==
  ASSUME TrackerInv, NEW i \in Ids, Tracked(i), acks[i].retry_count < MAX_RETRIES,
         markRetryDone(i)
  PROVE  /\ acks' \in [Ids -> Entries \cup {NoEntry}]
         /\ acks'[i] \in Entries
         /\ acks'[i].retry_count = acks[i].retry_count + 1
         /\ \A j \in Ids \ {i} : acks'[j] = acks[j]
<1>1. acks \in [Ids -> Entries \cup {NoEntry}] /\ acks[i] \in Entries
  BY DEF TrackerInv, TypeOK, Tracked
<1>2. acks[i].retry_count + 1 \in 0 .. MAX_RETRIES
  BY <1>1, RetriesAssumption DEF Entries
<1>3. (IF acks[i].retry_count + 1 < MAX_RETRIES
       THEN retryDelaySeconds(acks[i].retry_count + 1) ELSE acks[i].wait) \in Nat
  BY <1>1, <1>2, DelayAssumption DEF Entries
<1>4. acks' = [acks EXCEPT ![i] =
                 [acks[i] EXCEPT !.retry_count = acks[i].retry_count + 1,
                                 !.wait = IF acks[i].retry_count + 1 < MAX_RETRIES
                                          THEN retryDelaySeconds(acks[i].retry_count + 1)
                                          ELSE acks[i].wait]]
  BY <1>1 DEF markRetryDone, Entries
<1> QED BY <1>1, <1>2, <1>3, <1>4 DEF Entries

LEMMA ResendStep ==
  ASSUME TrackerInv, NEW i \in Ids, NEW f \in Fds, Resend(i, f)
  PROVE  TrackerInv'
<1> USE DEF TrackerInv, TypeOK, netVars, history
<1>1. Tracked(i) /\ acks[i].retry_count < MAX_RETRIES /\ markRetryDone(i)
  BY DEF Resend, NoStaleRetry
<1>2. /\ acks' \in [Ids -> Entries \cup {NoEntry}]
      /\ acks'[i] \in Entries
      /\ \A j \in Ids \ {i} : acks'[j] = acks[j]
  BY <1>1, MarkRetryDone
<1>3. quiet' \in [Ids -> 0 .. MaxQuiet]
  BY DelayAssumption DEF Resend
<1>4. conn' \in [Fds -> Users \cup {Closed}] /\ inbox' \in [Fds -> SUBSET Ids]
  BY DEF Resend, sendToClient, Close
<1>5. TypeOK'
  BY <1>2, <1>3, <1>4 DEF Resend
<1>6. \A r \in due' : r \in due /\ r[1] \in Ids \ {i}
  BY DEF Resend, TurnOfLoop
<1>7. TurnOfLoop'
  BY <1>6 DEF Resend, TurnOfLoop
<1>8. NoStaleRetry'
  BY <1>2, <1>6 DEF NoStaleRetry, Tracked
<1>9. OneFate'
  BY <1>1, <1>2, AckDistinctAssumption DEF Resend, OneFate, Tracked
<1> QED BY <1>5, <1>7, <1>8, <1>9

LEMMA DrainDeadLettersStep == TrackerInv /\ DrainDeadLetters => TrackerInv'
<1> SUFFICES ASSUME TrackerInv, DrainDeadLetters PROVE TrackerInv'
  OBVIOUS
<1> USE DEF TrackerInv, TypeOK, netVars, history
<1>1. TypeOK'
  BY DEF DrainDeadLetters, Exhausted
<1>2. TurnOfLoop' /\ NoStaleRetry'
  BY DEF DrainDeadLetters, TurnOfLoop, NoStaleRetry
<1>3. OneFate'
  BY DEF DrainDeadLetters, Exhausted, OneFate, Tracked
<1> QED BY <1>1, <1>2, <1>3

\* A second passes: entries stay, only their waits change.
LEMMA TickKeeps ==
  ASSUME TrackerInv, Tick
  PROVE  /\ acks' \in [Ids -> Entries \cup {NoEntry}]
         /\ \A i \in Ids : /\ Tracked(i)' <=> Tracked(i)
                           /\ Tracked(i) => acks'[i].retry_count = acks[i].retry_count
<1>1. acks \in [Ids -> Entries \cup {NoEntry}]
  BY DEF TrackerInv, TypeOK
<1>2. ASSUME NEW i \in Ids, Tracked(i), acks[i].wait > 0
      PROVE  /\ [acks[i] EXCEPT !.wait = @ - 1] \in Entries
             /\ [acks[i] EXCEPT !.wait = @ - 1].retry_count = acks[i].retry_count
  BY <1>1, <1>2 DEF Tracked, Entries
<1> QED BY <1>1, <1>2, AckDistinctAssumption DEF Tick, Tracked

LEMMA TickStep == TrackerInv /\ Tick => TrackerInv'
<1> SUFFICES ASSUME TrackerInv, Tick PROVE TrackerInv'
  OBVIOUS
<1> USE DEF TrackerInv, TypeOK, netVars, history
<1>1. quiet' \in [Ids -> 0 .. MaxQuiet]
  BY DelayAssumption DEF Tick
<1>2. TypeOK'
  BY <1>1, TickKeeps DEF Tick
<1>3. TurnOfLoop'
  BY DEF Tick, TurnOfLoop
<1>4. NoStaleRetry'
  BY TickKeeps DEF Tick, NoStaleRetry
<1>5. OneFate'
  BY TickKeeps DEF Tick, OneFate
<1> QED BY <1>2, <1>3, <1>4, <1>5

LEMMA TrackerStep == TrackerInv /\ [Next]_vars => TrackerInv'
<1> SUFFICES ASSUME TrackerInv, [Next]_vars PROVE TrackerInv'
  OBVIOUS
<1> USE DEF netVars, history
<1>1. ASSUME NEW f \in Fds, NEW u \in Users, Connect(f, u) PROVE TrackerInv'
  BY <1>1, QuietStep DEF Connect, TrackerInv, TypeOK, TurnOfLoop
<1>2. ASSUME NEW f \in Fds, Disconnect(f) PROVE TrackerInv'
  BY <1>2, QuietStep DEF Disconnect, Close, TrackerInv, TypeOK, TurnOfLoop
<1>3. ASSUME NEW i \in Ids, PushDeadLetter(i) PROVE TrackerInv'
  BY <1>3, QuietStep DEF PushDeadLetter, TrackerInv, TypeOK, TurnOfLoop
<1>4. CASE EndAckRetries \/ PushOfflineMessages \/ Cut
  BY <1>4, QuietStep DEF EndAckRetries, PushOfflineMessages, Cut, TrackerInv, TypeOK, TurnOfLoop
<1>5. ASSUME NEW i \in Ids, NEW f \in Fds, Flush(i, f) PROVE TrackerInv'
  <2>1. conn' \in [Fds -> Users \cup {Closed}] /\ inbox' \in [Fds -> SUBSET Ids]
    BY <1>5 DEF Flush, sendToClient, Close, TrackerInv, TypeOK
  <2> QED BY <1>5, <2>1, QuietStep DEF Flush, TrackerInv, TypeOK, TurnOfLoop
<1>6. CASE UNCHANGED vars
  BY <1>6, QuietStep DEF vars, TrackerInv, TypeOK, TurnOfLoop
<1> QED
  BY <1>1, <1>2, <1>3, <1>4, <1>5, <1>6, SendStep, AckStep, GetPendingRetriesStep, ResendStep,
     DrainDeadLettersStep, TickStep DEF Next, Loop, Clients

LEMMA TrackerInvAlways == Spec => []TrackerInv
<1> QED BY TrackerInit, TrackerStep, PTL DEF Spec

\* Type correctness: the entries of the tracker, the vectors copied out of it
\* and the history sets stay what AckTracker.cpp declares them to be.
THEOREM AckTypeCorrect == Spec => []TypeOK
<1>1. TrackerInv => TypeOK
  BY DEF TrackerInv
<1> QED BY <1>1, TrackerInvAlways, PTL

\* checkAckRetries never sends again a message that has been acknowledged, or
\* that has used its retries, since the list of retries was made.
THEOREM RetriesAreFresh == Spec => []NoStaleRetry
<1>1. TrackerInv => NoStaleRetry
  BY DEF TrackerInv
<1> QED BY <1>1, TrackerInvAlways, PTL

\* A message sent is tracked, acknowledged or given up, and exactly one of
\* them (trackMessage, acknowledgeMessage, drainDeadLetters).
THEOREM OutcomesExclusive == Spec => []OneFate
<1>1. TrackerInv => OneFate
  BY DEF TrackerInv
<1> QED BY <1>1, TrackerInvAlways, PTL
-----------------------------------------------------------------------------
(* Retries back off *)

\* What an entry has still to wait and what it has waited add up to its delay;
\* an entry that was found due has waited all of it, and keeps having done so
\* while the clock runs on and the retries in front of it are sent.
Spaced ==
  \A i \in Ids : Tracked(i) /\ acks[i].retry_count < MAX_RETRIES =>
    /\ quiet[i] + acks[i].wait >= retryDelaySeconds(acks[i].retry_count)
    /\ \A f \in Fds : <<i, f>> \in due => quiet[i] >= retryDelaySeconds(acks[i].retry_count)

LEMMA SpacedInit == Init => Spaced
BY DEF Init, Spaced, Tracked

LEMMA SendSpaced ==
  ASSUME TrackerInv, Spaced, NEW i \in Ids, NEW u \in Users, Send(i, u)
  PROVE  Spaced'
<1>1. PICK f \in Fds : trackMessage(i, u, f)
  BY DEF Send
<1>2. /\ acks'[i] = [user |-> u, fd |-> f, retry_count |-> 0, wait |-> 1]
      /\ \A j \in Ids \ {i} : acks'[j] = acks[j]
  BY <1>1 DEF trackMessage, TrackerInv, TypeOK
<1>3. quiet'[i] = 0 /\ \A j \in Ids \ {i} : quiet'[j] = quiet[j]
  BY DEF Send, TrackerInv, TypeOK
<1>4. due = {} /\ due' = {}
  BY DEF Send, TrackerInv, TurnOfLoop
<1> QED BY <1>2, <1>3, <1>4, DelayAssumption DEF Spaced, Tracked

LEMMA AckSpaced ==
  ASSUME TrackerInv, Spaced, NEW i \in Ids, NEW f \in Fds, Ack(f, i)
  PROVE  Spaced'
<1>1. acks'[i] = NoEntry /\ \A j \in Ids \ {i} : acks'[j] = acks[j]
  BY DEF Ack, acknowledgeMessage, TrackerInv, TypeOK
<1> QED BY <1>1 DEF Ack, Spaced, Tracked

LEMMA GetPendingRetriesSpaced ==
  ASSUME TrackerInv, Spaced, GetPendingRetries
  PROVE  Spaced'
<1>1. \A i \in Ids, f \in Fds : <<i, f>> \in due' => Tracked(i) /\ acks[i].wait = 0
  BY DEF GetPendingRetries
<1>2. \A i \in Ids : quiet[i] \in Nat
  BY DelayAssumption DEF TrackerInv, TypeOK
<1> QED BY <1>1, <1>2 DEF GetPendingRetries, Spaced, Tracked

LEMMA ResendSpaced ==
  ASSUME TrackerInv, Spaced, NEW i \in Ids, NEW f \in Fds, Resend(i, f)
  PROVE  Spaced'
<1>1. Tracked(i) /\ acks[i].retry_count < MAX_RETRIES /\ markRetryDone(i)
  BY DEF Resend, TrackerInv, NoStaleRetry
<1>2. /\ acks'[i].retry_count = acks[i].retry_count + 1
      /\ \A j \in Ids \ {i} : acks'[j] = acks[j]
  BY <1>1, MarkRetryDone
<1>3. /\ acks[i].retry_count \in 0 .. MAX_RETRIES
      /\ acks[i] \in Entries
  BY <1>1 DEF TrackerInv, TypeOK, Tracked, Entries
<1>4. acks'[i].retry_count < MAX_RETRIES => acks'[i].wait = retryDelaySeconds(acks'[i].retry_count)
  BY <1>1, <1>2, <1>3 DEF markRetryDone, TrackerInv, TypeOK, Entries
<1>5. quiet'[i] = 0 /\ \A j \in Ids \ {i} : quiet'[j] = quiet[j]
  BY DEF Resend, TrackerInv, TypeOK
<1>6. \A r \in due' : r \in due /\ r[1] # i
  BY DEF Resend, TrackerInv, TurnOfLoop
<1>7. ASSUME NEW j \in Ids, Tracked(j)', acks'[j].retry_count < MAX_RETRIES
      PROVE  /\ quiet'[j] + acks'[j].wait >= retryDelaySeconds(acks'[j].retry_count)
             /\ \A g \in Fds : <<j, g>> \in due' => quiet'[j] >= retryDelaySeconds(acks'[j].retry_count)
  <2>1. CASE j = i
    <3>1. retryDelaySeconds(acks'[i].retry_count) \in Nat
      BY <1>1, <1>2, <1>3, DelayAssumption, RetriesAssumption
    <3> QED BY <2>1, <3>1, <1>4, <1>5, <1>6, <1>7
  <2>2. CASE j # i
    BY <2>2, <1>2, <1>5, <1>6, <1>7 DEF Spaced, Tracked
  <2> QED BY <2>1, <2>2
<1> QED BY <1>7 DEF Spaced

LEMMA DrainDeadLettersSpaced ==
  ASSUME TrackerInv, Spaced, DrainDeadLetters
  PROVE  Spaced'
<1>1. \A i \in Ids : Tracked(i)' => Tracked(i) /\ acks'[i] = acks[i]
  BY DEF DrainDeadLetters, Exhausted, Tracked
<1> QED BY <1>1 DEF DrainDeadLetters, Spaced

\* A second passes: it is taken off the wait and put on the quiet, until the
\* quiet has reached the longest delay.
LEMMA TickSpaced ==
  ASSUME TrackerInv, Spaced, Tick
  PROVE  Spaced'
<1>0. quiet \in [Ids -> Nat] /\ due' = due
  BY DelayAssumption DEF Tick, TrackerInv, TypeOK
<1>1. SUFFICES ASSUME NEW i \in Ids, Tracked(i), acks[i].retry_count < MAX_RETRIES
               PROVE  /\ quiet'[i] + acks'[i].wait >= retryDelaySeconds(acks[i].retry_count)
                      /\ \A f \in Fds : <<i, f>> \in due
                           => quiet'[i] >= retryDelaySeconds(acks[i].retry_count)
  BY <1>0, TickKeeps DEF Spaced
<1> DEFINE delay == retryDelaySeconds(acks[i].retry_count)
<1>2. acks[i] \in Entries /\ acks[i].wait \in Nat /\ acks[i].retry_count \in 0 .. MAX_RETRIES - 1
  BY <1>1, RetriesAssumption DEF TrackerInv, TypeOK, Tracked, Entries
<1>3. delay \in Nat /\ delay <= MaxQuiet /\ MaxQuiet \in Nat /\ quiet[i] \in 0 .. MaxQuiet
  BY <1>2, DelayAssumption, RetriesAssumption DEF TrackerInv, TypeOK
<1>4. i \in sent
  BY <1>1 DEF TrackerInv, OneFate
<1>5. quiet'[i] = IF quiet[i] < MaxQuiet THEN quiet[i] + 1 ELSE quiet[i]
  BY <1>4 DEF Tick
<1>6. acks'[i].wait = IF acks[i].wait > 0 THEN acks[i].wait - 1 ELSE acks[i].wait
  BY <1>1, <1>2 DEF Tick, Entries
<1>7. quiet[i] + acks[i].wait >= delay
  BY <1>1 DEF Spaced
<1>8. quiet'[i] + acks'[i].wait >= delay
  BY <1>2, <1>3, <1>5, <1>6, <1>7
<1>9. ASSUME NEW f \in Fds, <<i, f>> \in due PROVE quiet'[i] >= delay
  BY <1>1, <1>3, <1>5, <1>9 DEF Spaced
<1> QED BY <1>8, <1>9

LEMMA SpacedStep ==
  ASSUME TrackerInv, Spaced, [Next]_vars
  PROVE  Spaced'
<1>1. ASSUME UNCHANGED <<acks, due, quiet>> PROVE Spaced'
  BY <1>1 DEF Spaced, Tracked
<1>2. CASE Cut \/ EndAckRetries \/ PushOfflineMessages \/ UNCHANGED vars
  BY <1>1, <1>2 DEF Cut, EndAckRetries, PushOfflineMessages, vars
<1>3. ASSUME NEW f \in Fds, (\E u \in Users : Connect(f, u)) \/ Disconnect(f)
             \/ (\E i \in Ids : Flush(i, f))
      PROVE  UNCHANGED <<acks, due, quiet>>
  BY <1>3 DEF Connect, Disconnect, Flush
<1>4. ASSUME NEW i \in Ids, PushDeadLetter(i) PROVE UNCHANGED <<acks, due, quiet>>
  BY <1>4 DEF PushDeadLetter
<1> QED
  BY <1>1, <1>2, <1>3, <1>4, SendSpaced, AckSpaced, GetPendingRetriesSpaced, ResendSpaced,
     DrainDeadLettersSpaced, TickSpaced DEF Next, Loop, Clients

\* Retries back off, however the clock ticks between getPendingRetries and the
\* sending: the first comes no sooner than 1 second after the message was sent,
\* each later one no sooner than twice the delay before (retryDelaySeconds).
THEOREM RetriesBackOff == Spec => Backoff
<1>1. TrackerInv /\ Spaced /\ [Next]_vars =>
        [\A i \in Ids, f \in Fds :
           <<i, f>> \in due /\ <<i, f>> \notin due'
             => quiet[i] >= retryDelaySeconds(acks[i].retry_count)]_vars
  BY DEF Spaced, TrackerInv, NoStaleRetry
<1>2. Init /\ [][Next]_vars => []TrackerInv
  BY TrackerInvAlways DEF Spec
<1> QED BY <1>1, <1>2, SpacedInit, SpacedStep, PTL DEF Spec, Backoff
-----------------------------------------------------------------------------
(* The tracker implements ReliableDelivery *)

Tries(i) == IF Tracked(i) THEN acks[i].retry_count ELSE 0

LEMMA InitMaps == Init => Delivery!Init
BY DEF Init, Delivery!Init, Fate, Tracked

\* A step that touches neither the tracker nor the outcomes maps to a stutter.
LEMMA KeepsMaps ==
  ASSUME \A i \in Ids : Fate(i)' = Fate(i) /\ Tries(i)' = Tries(i)
  PROVE  UNCHANGED Delivery!vars
BY DEF Delivery!vars, Tries

\* A step on one id changes the mapped functions at that id.
LEMMA OneIdMaps ==
  ASSUME NEW i \in Ids, \A j \in Ids \ {i} : Fate(j)' = Fate(j) /\ Tries(j)' = Tries(j)
  PROVE  /\ [j \in Ids |-> Fate(j)]' = [[j \in Ids |-> Fate(j)] EXCEPT ![i] = Fate(i)']
         /\ [j \in Ids |-> Tries(j)]' = [[j \in Ids |-> Tries(j)] EXCEPT ![i] = Tries(i)']
OBVIOUS

LEMMA SendMaps ==
  ASSUME TrackerInv, NEW i \in Ids, NEW u \in Users, Send(i, u)
  PROVE  Delivery!Track(i)
<1>1. PICK f \in Fds : trackMessage(i, u, f)
  BY DEF Send
<1>2. /\ acks'[i] = [user |-> u, fd |-> f, retry_count |-> 0, wait |-> 1]
      /\ acks'[i] \in Entries
      /\ \A j \in Ids \ {i} : acks'[j] = acks[j]
  BY <1>1, RetriesAssumption DEF trackMessage, Entries, TrackerInv, TypeOK
<1>3. Fate(i) = "new" /\ Tries(i) = 0
  BY DEF Send, TrackerInv, OneFate, Fate, Tries
<1>4. Fate(i)' = "waiting" /\ Tries(i)' = 0
  BY <1>2, AckDistinctAssumption DEF Fate, Tries, Tracked
<1>5. \A j \in Ids \ {i} : Fate(j)' = Fate(j) /\ Tries(j)' = Tries(j)
  BY <1>2 DEF Send, Fate, Tries, Tracked
<1> QED BY <1>3, <1>4, <1>5, OneIdMaps DEF Delivery!Track, Tries

LEMMA AckMaps ==
  ASSUME TrackerInv, NEW i \in Ids, NEW f \in Fds, Ack(f, i)
  PROVE  Delivery!Acknowledge(i)
<1>1. acks'[i] = NoEntry /\ \A j \in Ids \ {i} : acks'[j] = acks[j]
  BY DEF Ack, acknowledgeMessage, TrackerInv, TypeOK
<1>2. Fate(i) = "waiting"
  BY DEF Ack, Fate
<1>3. Fate(i)' = "acked" /\ Tries(i)' = 0
  BY <1>1 DEF Ack, Fate, Tries, Tracked
<1>4. \A j \in Ids \ {i} : Fate(j)' = Fate(j) /\ Tries(j)' = Tries(j)
  BY <1>1 DEF Ack, Fate, Tries, Tracked, history
<1> QED BY <1>2, <1>3, <1>4, OneIdMaps DEF Delivery!Acknowledge, Tries

LEMMA ResendMaps ==
  ASSUME TrackerInv, NEW i \in Ids, NEW f \in Fds, Resend(i, f)
  PROVE  Delivery!Retry(i)
<1>1. Tracked(i) /\ acks[i].retry_count < MAX_RETRIES /\ markRetryDone(i)
  BY DEF Resend, TrackerInv, NoStaleRetry
<1>2. /\ acks'[i] \in Entries
      /\ acks'[i].retry_count = acks[i].retry_count + 1
      /\ \A j \in Ids \ {i} : acks'[j] = acks[j]
  BY <1>1, MarkRetryDone
<1>3. Tracked(i)'
  BY <1>2, AckDistinctAssumption DEF Tracked
<1>4. Fate(i) = "waiting" /\ Fate(i)' = "waiting" /\ Tries(i)' = Tries(i) + 1
  BY <1>1, <1>2, <1>3 DEF Fate, Tries
<1>5. \A j \in Ids \ {i} : Fate(j)' = Fate(j) /\ Tries(j)' = Tries(j)
  BY <1>2 DEF Resend, Fate, Tries, Tracked, history
<1>6. [j \in Ids |-> Fate(j)]' = [j \in Ids |-> Fate(j)]
  BY <1>4, <1>5
<1>7. Tries(i) < MAX_RETRIES
  BY <1>1 DEF Tries
<1> QED BY <1>4, <1>5, <1>6, <1>7, OneIdMaps DEF Delivery!Retry, Tries

LEMMA DrainDeadLettersMaps ==
  ASSUME TrackerInv, DrainDeadLetters
  PROVE  [Delivery!Next]_Delivery!vars
<1>0. PICK gone \in SUBSET Ids : gone = Exhausted
  BY DEF Exhausted
<1>1. \A i \in Ids : /\ i \in gone => Fate(i)' = "givenup" /\ Tries(i)' = 0
                     /\ i \notin gone => Fate(i)' = Fate(i) /\ Tries(i)' = Tries(i)
  BY <1>0 DEF DrainDeadLetters, Exhausted, Fate, Tries, Tracked, TrackerInv, OneFate
<1>2. CASE gone = {}
  BY <1>1, <1>2, KeepsMaps
<1>3. CASE gone # {}
  <2>1. \A i \in gone : Fate(i) = "waiting" /\ Tries(i) = MAX_RETRIES
    BY <1>0, RetriesAssumption DEF Exhausted, Fate, Tries, Tracked, TrackerInv, TypeOK, Entries
  <2>2. /\ [i \in Ids |-> Fate(i)]' = [i \in Ids |-> IF i \in gone THEN "givenup" ELSE Fate(i)]
        /\ [i \in Ids |-> Tries(i)]' = [i \in Ids |-> IF i \in gone THEN 0 ELSE Tries(i)]
    BY <1>1
  <2>3. Delivery!GiveUp(gone)
    BY <1>3, <2>1, <2>2 DEF Delivery!GiveUp, Tries
  <2> QED BY <2>3 DEF Delivery!Next
<1> QED BY <1>2, <1>3

LEMMA StepMaps == TrackerInv /\ [Next]_vars => [Delivery!Next]_Delivery!vars
<1> SUFFICES ASSUME TrackerInv, [Next]_vars PROVE [Delivery!Next]_Delivery!vars
  OBVIOUS
<1>1. ASSUME UNCHANGED <<acks, history>> PROVE UNCHANGED Delivery!vars
  BY <1>1, KeepsMaps DEF Fate, Tries, Tracked, history
<1>2. ASSUME NEW i \in Ids, NEW u \in Users, Send(i, u) PROVE Delivery!Next
  BY <1>2, SendMaps DEF Delivery!Next
<1>3. ASSUME NEW i \in Ids, NEW f \in Fds, Ack(f, i) PROVE Delivery!Next
  BY <1>3, AckMaps DEF Delivery!Next
<1>4. ASSUME NEW i \in Ids, NEW f \in Fds, Resend(i, f) PROVE Delivery!Next
  BY <1>4, ResendMaps DEF Delivery!Next
<1>5. CASE Tick
  BY <1>5, TickKeeps, KeepsMaps DEF Tick, Fate, Tries, history
<1>6. CASE Cut \/ GetPendingRetries \/ EndAckRetries \/ PushOfflineMessages \/ UNCHANGED vars
  BY <1>1, <1>6 DEF Cut, GetPendingRetries, EndAckRetries, PushOfflineMessages, vars
<1>7. ASSUME NEW f \in Fds, (\E u \in Users : Connect(f, u)) \/ Disconnect(f)
             \/ (\E i \in Ids : Flush(i, f))
      PROVE  UNCHANGED <<acks, history>>
  BY <1>7 DEF Connect, Disconnect, Flush
<1>8. ASSUME NEW i \in Ids, PushDeadLetter(i) PROVE UNCHANGED <<acks, history>>
  BY <1>8 DEF PushDeadLetter
<1> QED
  BY <1>1, <1>2, <1>3, <1>4, <1>5, <1>6, <1>7, <1>8, DrainDeadLettersMaps DEF Next, Loop, Clients

\* AckTracker.cpp keeps the promise of ReliableDelivery: every run of the
\* gateway is, message by message, tracking, at most MAX_RETRIES retries and
\* one final outcome, given up only when the retries are used.
THEOREM TrackerImplementsDelivery == Spec => DeliverySpec
<1> QED BY InitMaps, StepMaps, TrackerInvAlways, PTL DEF Spec, DeliverySpec, Delivery!Spec
=============================================================================
