---------------------------- MODULE AuditLogger -----------------------------
(***************************************************************************)
(* The audit log of a gateway (gateway/src/AuditLogger.cpp): the event     *)
(* loop's thread puts events into a queue, a worker thread takes them out  *)
(* in batches and posts each batch to the API.  A batch that cannot be     *)
(* posted is dropped.  shutdown tells the worker to stop and joins it.     *)
(*                                                                         *)
(* Events are numbered in the order they are logged.                       *)
(***************************************************************************)
EXTENDS Naturals, Sequences, SequencesExt

CONSTANTS
  BatchSize,   \* batch_size_, 50 by default
  MaxEvents    \* bound: events logged

ASSUME AuditAssumption == BatchSize \in Nat \ {0} /\ MaxEvents \in Nat

VARIABLES
  running,     \* running_
  main,        \* the loop's thread: "loop", "join" (inside shutdown), "end"
  worker,      \* the worker: "test", "sleep", "take", "post", "end"
  last,        \* the worker is past its loop, in the final flush
  queue,       \* queue_
  batch,       \* the batch being posted
  logged,      \* number of events logged so far
  stored,      \* events the API has, in the order it got them (external)
  dropped      \* events of batches that failed (history)

vars == <<running, main, worker, last, queue, batch, logged, stored, dropped>>

Events == 1 .. MaxEvents

TypeOK ==
  /\ running \in BOOLEAN /\ last \in BOOLEAN
  /\ main \in {"loop", "join", "end"}
  /\ worker \in {"test", "sleep", "take", "post", "end"}
  /\ queue \in Seq(Events) /\ stored \in Seq(Events)
  /\ batch \in Seq(Events) /\ Len(batch) <= BatchSize
  /\ logged \in 0 .. MaxEvents
  /\ dropped \subseteq Events

\* init has started the worker.
Init ==
  /\ running = TRUE /\ main = "loop"
  /\ worker = "test" /\ last = FALSE
  /\ queue = <<>> /\ batch = <<>>
  /\ logged = 0
  /\ stored = <<>> /\ dropped = {}

-----------------------------------------------------------------------------
(* The event loop's thread *)

\* log: the handlers and disconnectClient push an event, under the lock.
Log ==
  /\ main = "loop"
  /\ logged < MaxEvents
  /\ logged' = logged + 1
  /\ queue' = Append(queue, logged + 1)
  /\ UNCHANGED <<running, main, worker, last, batch, stored, dropped>>

\* ~EpollServer calls shutdown: running_ is cleared.
Shutdown ==
  /\ main = "loop"
  /\ running' = FALSE
  /\ main' = "join"
  /\ UNCHANGED <<worker, last, queue, batch, logged, stored, dropped>>

\* join returns when the worker has ended.
Join ==
  /\ main = "join"
  /\ worker = "end"
  /\ main' = "end"
  /\ UNCHANGED <<running, worker, last, queue, batch, logged, stored, dropped>>

-----------------------------------------------------------------------------
(* The worker's thread *)

\* Mutant of Test: with nothing queued the worker sleeps again, whether or not it
\* is to stop.
TestForever ==
  /\ worker = "test"
  /\ worker' = IF running \/ queue = <<>> THEN "sleep" ELSE "take"
  /\ last' = (~running /\ queue # <<>>)
  /\ UNCHANGED <<running, main, queue, batch, logged, stored, dropped>>

\* while (running_)
Test ==
  /\ worker = "test"
  /\ worker' = IF running THEN "sleep" ELSE "take"
  /\ last' = ~running
  /\ UNCHANGED <<running, main, queue, batch, logged, stored, dropped>>

\* Five seconds have passed.
Wake ==
  /\ worker = "sleep"
  /\ worker' = "take"
  /\ UNCHANGED <<running, main, last, queue, batch, logged, stored, dropped>>

\* flushBatch returns: to the loop's test, or out of workerLoop.
Returned == IF last THEN "end" ELSE "test"

\* Mutant of TakeOut: the batch is copied and stays in the queue.
TakeOutCopy(n) == batch' = SubSeq(queue, 1, n) /\ UNCHANGED queue

\* Mutant of TakeOut: the rest of the queue is thrown away with the batch.
TakeOutClear(n) == batch' = SubSeq(queue, 1, n) /\ queue' = <<>>

\* The first n events move from the queue to the batch.
TakeOut(n) == batch' = SubSeq(queue, 1, n) /\ queue' = SubSeq(queue, n + 1, Len(queue))

\* Mutant of Fill: the limit is tested after the push.
FillOneMore == IF Len(queue) < BatchSize + 1 THEN Len(queue) ELSE BatchSize + 1

\* How many events one batch takes.
Fill == IF Len(queue) < BatchSize THEN Len(queue) ELSE BatchSize

\* flushBatch, under the lock: nothing to do, or a batch is taken.
Take ==
  /\ worker = "take"
  /\ IF queue = <<>> THEN worker' = Returned /\ UNCHANGED <<queue, batch>>
                     ELSE worker' = "post" /\ TakeOut(Fill)
  /\ UNCHANGED <<running, main, last, logged, stored, dropped>>

\* The POST of the batch.  An error of curl only writes a line to the log,
\* and the answer of the API is not looked at: the API has the batch or not.
Post ==
  /\ worker = "post"
  /\ \/ stored' = stored \o batch /\ UNCHANGED dropped
     \/ dropped' = dropped \cup ToSet(batch) /\ UNCHANGED stored
  /\ batch' = <<>>
  /\ worker' = Returned
  /\ UNCHANGED <<running, main, last, queue, logged>>

-----------------------------------------------------------------------------
Main == Log \/ Shutdown \/ Join
Worker == Test \/ Wake \/ Take \/ Post

Next == Main \/ Worker

Spec == Init /\ [][Next]_vars

\* The worker is a thread of its own; sleep_for and the POST (CURLOPT_TIMEOUT
\* 5) come to an end.  join returns once the worker has ended.
FairSpec == Spec /\ WF_vars(Worker) /\ WF_vars(Join)

-----------------------------------------------------------------------------
(* Properties *)

\* Every event logged is in exactly one place: stored, dropped with its batch,
\* in the batch or in the queue; none is posted twice (log against flushBatch).
OnePlaceEach ==
  LET pipe == stored \o batch \o queue IN
  /\ IsInjective(pipe)
  /\ ToSet(pipe) \cup dropped = 1 .. logged
  /\ ToSet(pipe) \cap dropped = {}

\* The API gets the events in the order they were logged, and what it has is
\* older than what is on its way (flushBatch).
OrderKept ==
  LET pipe == stored \o batch \o queue IN
  \A i, j \in DOMAIN pipe : i < j => pipe[i] < pipe[j]

\* While the gateway runs, every event is taken out of the queue some day,
\* however many are logged after it (workerLoop).
EveryEventIsPosted ==
  \A e \in Events : e \in ToSet(queue) ~> (e \notin ToSet(queue) \/ ~running)

\* shutdown returns, wherever the worker was when running_ was cleared.
ShutdownReturns == main = "join" ~> main = "end"
=============================================================================
