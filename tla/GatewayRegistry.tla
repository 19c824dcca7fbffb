-------------------------- MODULE GatewayRegistry ---------------------------
(***************************************************************************)
(* The registry of gateways in Redis (gateway/src/GatewayRegistry.cpp):    *)
(* the set active_gateways, and for every gateway a hash gateway:<id> with *)
(* the time of its last heartbeat.  Each gateway registers at its start    *)
(* (EpollServer::start), a thread of its own renews the hash, and a reader *)
(* of the registry takes out of the set whoever has not been heard of for  *)
(* HEARTBEAT_TIMEOUT_SECONDS.  The reader calls selectBestGateway, which   *)
(* calls discoverGateways once or twice.                                   *)
(*                                                                         *)
(* Time is kept as ages and as what is left to sleep, so the clock runs    *)
(* for ever in finitely many states; there is one clock, where the code    *)
(* compares time(nullptr) of the host that writes with that of the host    *)
(* that reads.  Loads are left out: any of the gateways selectBestGateway  *)
(* compares may be the one it returns.                                     *)
(***************************************************************************)
EXTENDS RedisCommands

CONSTANTS
  Gateways,   \* gateway ids, gw_<pid>_<port>; of two running processes each has its own
  Region,     \* the gateways in the region of the reader
  Interval,   \* seconds between two heartbeats, 10 in EpollServer::start
  Timeout,    \* HEARTBEAT_TIMEOUT_SECONDS, 30
  MaxDelay,   \* bound: how long the reader takes for one discoverGateways
  MaxFaults,  \* bound: crashes, lost connections and refused commands
  Nobody,     \* no gateway; an empty gateway_id
  NoData      \* no hash under gateway:<id>

ASSUME RegistryAssumption ==
  /\ Interval \in Nat \ {0} /\ Timeout \in Nat
  /\ MaxDelay \in Nat /\ MaxFaults \in Nat
  /\ Region \subseteq Gateways /\ Nobody \notin Gateways
  /\ NoData \notin Nat

VARIABLES
  active,      \* active_gateways
  age,         \* gateway:<id>: seconds since its last_heartbeat, or NoData
  proc,        \* the process: "off", "adding", "run", "stopping", "gone"
  link,        \* isConnected() of the process
  thread,      \* its heartbeat thread: "none", "sleep", "send", "end"
  left,        \* what is left of sleep_for
  stamp,       \* how old the time in the heartbeat being sent is
  faults,      \* faults so far
  reader,      \* the call of selectBestGateway being run
  enrolled,    \* gateways that were added to the set (history)
  undone,      \* gateways whose hash registerGateway took back (history)
  late         \* gateways that let more than Timeout pass (history)

redis == <<active, age>>
threads == <<thread, left, stamp>>
history == <<enrolled, undone, late>>
vars == <<redis, proc, link, threads, faults, reader, history>>

Oldest == Timeout + MaxDelay + 1   \* what is older is stale in any case
Ages == 0 .. Oldest
Older(a) == IF a = NoData \/ a = Oldest THEN a ELSE a + 1

\* elapsed: seconds since discoverGateways read the clock.
Resting == [at |-> "idle", pass |-> 1, todo |-> {}, found |-> {}, elapsed |-> 0, stale |-> Nobody]

\* The last conjunct on thread: no heartbeat outlives the registry object.
TypeOK ==
  /\ active \subseteq Gateways
  /\ age \in [Gateways -> Ages \cup {NoData}]
  /\ proc \in [Gateways -> {"off", "adding", "run", "stopping", "gone"}]
  /\ link \in [Gateways -> BOOLEAN]
  /\ thread \in [Gateways -> {"none", "sleep", "send", "end"}]
  /\ \A g \in Gateways : proc[g] = "gone" => thread[g] \in {"none", "end"}
  /\ left \in [Gateways -> 0 .. Interval] /\ stamp \in [Gateways -> Ages]
  /\ faults \in 0 .. MaxFaults
  /\ reader \in [at : {"idle", "read", "evict"}, pass : 1 .. 2, todo : SUBSET Gateways,
                 found : SUBSET Gateways, elapsed : 0 .. MaxDelay,
                 stale : Gateways \cup {Nobody}]
  /\ enrolled \subseteq Gateways /\ undone \subseteq Gateways /\ late \subseteq Gateways

Init ==
  /\ active = {} /\ age = [g \in Gateways |-> NoData]
  /\ proc = [g \in Gateways |-> "off"] /\ link = [g \in Gateways |-> TRUE]
  /\ thread = [g \in Gateways |-> "none"]
  /\ left = [g \in Gateways |-> 0] /\ stamp = [g \in Gateways |-> 0]
  /\ faults = 0
  /\ reader = Resting
  /\ enrolled = {} /\ undone = {} /\ late = {}

-----------------------------------------------------------------------------
(* The process of a gateway *)

\* A command is carried out, or finds no connection, or Redis refuses it.
Executed(g, done) ==
  \/ done = link[g] /\ UNCHANGED faults
  \/ link[g] /\ ~done /\ faults < MaxFaults /\ faults' = faults + 1

\* startHeartbeat(10), whatever registerGateway has returned.
StartHeartbeat(g) ==
  /\ proc' = [proc EXCEPT ![g] = "run"]
  /\ thread' = [thread EXCEPT ![g] = "sleep"]
  /\ left' = [left EXCEPT ![g] = Interval]
  /\ UNCHANGED stamp

\* Mutant of Register: the set comes first, the hash with the first heartbeat.
RegisterSetOnly(g, done) ==
  /\ proc[g] = "off" /\ Executed(g, done)
  /\ active' = setAdd(active, g, done)
  /\ enrolled' = active' \cup enrolled
  /\ StartHeartbeat(g)
  /\ UNCHANGED <<age, link, reader, undone, late>>

\* registerGateway, HSET.  On failure it returns and the set is not tried.
Register(g, done) ==
  /\ proc[g] = "off" /\ Executed(g, done)
  /\ age' = [age EXCEPT ![g] = setHashField(@, 0, done)]
  /\ IF done THEN proc' = [proc EXCEPT ![g] = "adding"] /\ UNCHANGED threads
             ELSE StartHeartbeat(g)
  /\ UNCHANGED <<active, link, reader, history>>

\* registerGateway, SADD.
AddActive(g) ==
  /\ proc[g] = "adding" /\ Executed(g, TRUE)
  /\ active' = setAdd(active, g, TRUE)
  /\ enrolled' = setAdd(enrolled, g, TRUE)
  /\ StartHeartbeat(g)
  /\ UNCHANGED <<age, link, reader, undone, late>>

\* registerGateway, SADD fails: DEL takes the hash back, if it arrives.
AddFails(g) ==
  /\ proc[g] = "adding" /\ Executed(g, FALSE)
  /\ age' = [age EXCEPT ![g] = deleteKey(@, NoData, link[g])]
  /\ undone' = setAdd(undone, g, link[g])
  /\ StartHeartbeat(g)
  /\ UNCHANGED <<active, link, reader, enrolled, late>>

\* An exception leaves the loop: ~EpollServer disconnects from Redis, then
\* ~GatewayRegistry clears running_.
Stop(g) ==
  /\ proc[g] = "run"
  /\ proc' = [proc EXCEPT ![g] = "stopping"]
  /\ link' = [link EXCEPT ![g] = FALSE]
  /\ UNCHANGED <<redis, threads, faults, reader, history>>

\* Mutant of Unregister: the thread is not joined.
UnregisterAtOnce(g) ==
  /\ proc[g] = "stopping"
  /\ proc' = [proc EXCEPT ![g] = "gone"]
  /\ active' = setRemove(active, g, link[g])
  /\ age' = [age EXCEPT ![g] = deleteKey(@, NoData, link[g])]
  /\ UNCHANGED <<link, threads, faults, reader, history>>

\* stopHeartbeat has joined the thread; SREM and DEL of unregisterGateway.
Unregister(g) ==
  /\ proc[g] = "stopping" /\ thread[g] = "end"
  /\ proc' = [proc EXCEPT ![g] = "gone"]
  /\ active' = setRemove(active, g, link[g])
  /\ age' = [age EXCEPT ![g] = deleteKey(@, NoData, link[g])]
  /\ UNCHANGED <<link, threads, faults, reader, history>>

\* The process is started again, with the id it had: in a container pid and port
\* are the same every time.  What the one before left in Redis is still there.
Restart(g) ==
  /\ proc[g] = "gone"
  /\ proc' = [proc EXCEPT ![g] = "off"]
  /\ link' = [link EXCEPT ![g] = TRUE]
  /\ thread' = [thread EXCEPT ![g] = "none"]
  /\ left' = [left EXCEPT ![g] = 0]
  /\ UNCHANGED <<redis, stamp, faults, reader, history>>

-----------------------------------------------------------------------------
(* The heartbeat thread *)

\* heartbeatLoop awakes: running_ is tested, sendHeartbeat reads the clock.
Wake(g) ==
  /\ thread[g] = "sleep" /\ left[g] = 0
  /\ thread' = [thread EXCEPT ![g] = IF proc[g] = "run" THEN "send" ELSE "end"]
  /\ UNCHANGED <<redis, proc, link, left, stamp, faults, reader, history>>

\* HSET of sendHeartbeat: the hash alone, the set is not touched; a failure is
\* logged.  The loop tests running_ and sleeps again.
Beat(g, done) ==
  /\ thread[g] = "send" /\ Executed(g, done)
  /\ age' = [age EXCEPT ![g] = setHashField(@, stamp[g], done)]
  /\ IF proc[g] = "run"
       THEN thread' = [thread EXCEPT ![g] = "sleep"] /\ left' = [left EXCEPT ![g] = Interval]
       ELSE thread' = [thread EXCEPT ![g] = "end"] /\ UNCHANGED left
  /\ stamp' = [stamp EXCEPT ![g] = 0]
  /\ UNCHANGED <<active, proc, link, reader, history>>

-----------------------------------------------------------------------------
(* The reader: selectBestGateway *)

\* Mutant of Discover: the second look adds to what the first has found.
DiscoverMore(pass) ==
  reader' = [Resting EXCEPT !.at = "read", !.pass = pass, !.todo = active,
                            !.found = reader.found]

\* discoverGateways: SMEMBERS, then the clock is read, once for the call.
Discover(pass) ==
  reader' = [Resting EXCEPT !.at = "read", !.pass = pass, !.todo = active]

Select ==
  /\ reader.at = "idle"
  /\ Discover(1)
  /\ UNCHANGED <<redis, proc, link, threads, faults, history>>

\* Mutant of Stale: one interval is enough.
StaleSoon(g) == age[g] - reader.elapsed >= Timeout

\* now - last_heartbeat > HEARTBEAT_TIMEOUT_SECONDS, with the "now" of the call.
Stale(g) == age[g] - reader.elapsed > Timeout

\* HGET of the next gateway: without data it is passed over, and stays.
Read(g) ==
  /\ reader.at = "read" /\ g \in reader.todo
  /\ reader' =
       CASE age[g] = NoData -> [reader EXCEPT !.todo = @ \ {g}]
         [] age[g] # NoData /\ Stale(g) ->
              [reader EXCEPT !.todo = @ \ {g}, !.at = "evict", !.stale = g]
         [] OTHER -> [reader EXCEPT !.todo = @ \ {g}, !.found = @ \cup {g}]
  /\ UNCHANGED <<redis, proc, link, threads, faults, history>>

\* SREM active_gateways of the gateway found stale.
Evict ==
  /\ reader.at = "evict"
  /\ active' = setRemove(active, reader.stale, TRUE)
  /\ reader' = [reader EXCEPT !.at = "read", !.stale = Nobody]
  /\ UNCHANGED <<age, proc, link, threads, faults, history>>

\* What the call has to choose from: first the reader's region, then all.
Candidates == IF reader.pass = 1 THEN reader.found \cap Region ELSE reader.found

\* All read: the answer is one of the candidates, or a second look is taken.
\* After the second the answer may be nobody.
Choose ==
  /\ reader.at = "read" /\ reader.todo = {}
  /\ IF Candidates = {} /\ reader.pass = 1 THEN Discover(2) ELSE reader' = Resting
  /\ UNCHANGED <<redis, proc, link, threads, faults, history>>

-----------------------------------------------------------------------------
(* Time and faults *)

\* A second passes.  Threads may lag behind their deadlines for any time.
Tick ==
  /\ reader.at # "idle" => reader.elapsed < MaxDelay
  /\ age' = [g \in Gateways |-> Older(age[g])]
  /\ left' = [g \in Gateways |-> IF left[g] = 0 THEN 0 ELSE left[g] - 1]
  /\ stamp' = [g \in Gateways |-> IF thread[g] = "send" THEN Older(stamp[g]) ELSE stamp[g]]
  /\ reader' = IF reader.at = "idle" THEN reader ELSE [reader EXCEPT !.elapsed = @ + 1]
  /\ late' = late \cup {g \in Gateways : \/ age'[g] # NoData /\ age'[g] > Timeout
                                        \/ stamp'[g] > Timeout}
  /\ UNCHANGED <<active, proc, link, thread, faults, enrolled, undone>>

\* The connection to Redis fails; it is never made again.
Cut(g) ==
  /\ faults < MaxFaults /\ link[g] /\ proc[g] \in {"off", "adding", "run"}
  /\ faults' = faults + 1
  /\ link' = [link EXCEPT ![g] = FALSE]
  /\ UNCHANGED <<redis, proc, threads, reader, history>>

\* The process dies with its thread; what it has left in Redis stays.
Crash(g) ==
  /\ faults < MaxFaults /\ proc[g] \in {"adding", "run", "stopping"}
  /\ faults' = faults + 1
  /\ proc' = [proc EXCEPT ![g] = "gone"]
  /\ link' = [link EXCEPT ![g] = FALSE]
  /\ thread' = [thread EXCEPT ![g] = "none"]
  /\ left' = [left EXCEPT ![g] = 0] /\ stamp' = [stamp EXCEPT ![g] = 0]
  /\ UNCHANGED <<redis, reader, history>>

-----------------------------------------------------------------------------
Process(g) ==
  \/ AddActive(g) \/ AddFails(g) \/ Stop(g) \/ Unregister(g) \/ Restart(g)
  \/ \E done \in BOOLEAN : Register(g, done)
Heartbeat(g) == Wake(g) \/ \E done \in BOOLEAN : Beat(g, done)
Reader == Evict \/ Choose \/ \E g \in Gateways : Read(g)

Next ==
  \/ \E g \in Gateways : Process(g) \/ Heartbeat(g) \/ Cut(g) \/ Crash(g)
  \/ Select \/ Reader \/ Tick

Spec == Init /\ [][Next]_vars

-----------------------------------------------------------------------------
(* Properties *)

\* A gateway that was registered and runs is missing from the set only if more
\* than Timeout has passed since a beat of its, at a moment that has been, in
\* this life of its id or in one before (discoverGateways reads the set, the
\* clock and the hashes at different times; no heartbeat puts it back).
EvictedOnlyIfLate ==
  \A g \in enrolled \ active : proc[g] = "run" => g \in late

\* Whoever is in the set has a hash, so that a reader can tell its age: HSET
\* before SADD, SREM before DEL, wherever a process dies or is started again
\* (registerGateway, unregisterGateway; discoverGateways passes over a gateway
\* without a hash).  Only a registration that failed at SADD takes the hash from
\* an id that a process before it had left in the set.
MembersHaveData == \A g \in active : age[g] # NoData \/ g \in undone

\* GatewayRegistry.h:82, "only gateways whose last heartbeat is within 30
\* seconds": nobody selectBestGateway may choose has a heartbeat older than that
\* and the time the call has taken, whatever happens to it while the others are
\* looked up, and whichever of the two calls of discoverGateways found it.
ChosenIsFresh ==
  \A g \in reader.found : age[g] # NoData => age[g] <= Timeout + reader.elapsed
=============================================================================
