------------------------ MODULE GatewayRegistryProofs -------------------------
(***************************************************************************)
(* Proofs about GatewayRegistry for any gateways, intervals, time-outs and *)
(* faults: types, that whoever is in the set can be dated, that nobody who *)
(* beats in time is evicted, and that nobody is chosen on an old beat.     *)
(***************************************************************************)
EXTENDS GatewayRegistry, TLAPS

-----------------------------------------------------------------------------
(* The invariants *)

\* The process of a gateway, its thread and the set: it is added once its hash is
\* there, and the connection is closed before the process unregisters.
EnrollingOf(g) ==
  /\ proc[g] \in {"off", "adding"} => thread[g] = "none"
  /\ proc[g] = "adding" => age[g] # NoData
  /\ proc[g] = "stopping" => ~link[g]
  /\ g \in active => g \in enrolled
  /\ g \in enrolled => age[g] # NoData \/ g \in undone
Enrolling == \A g \in Gateways : EnrollingOf(g)

\* Whoever has an old hash, or has an old one under way, is late; and the
\* heartbeat being sent is no older than the one before it.
PunctualOf(g) ==
  /\ thread[g] # "send" => stamp[g] = 0
  /\ stamp[g] > Timeout => g \in late
  /\ age[g] # NoData => stamp[g] <= age[g] /\ (age[g] > Timeout => g \in late)
Punctual == \A g \in Gateways : PunctualOf(g)

\* The reader evicts those that are late, so only they are out of the set.
ReaderRight ==
  /\ reader.at = "evict" => reader.stale \in late
  /\ \A g \in enrolled \ active : g \in late

\* Neither the hash of a gateway that was found nor the one under way is too old.
FreshOf(g) ==
  /\ stamp[g] <= Timeout + reader.elapsed
  /\ age[g] # NoData => age[g] <= Timeout + reader.elapsed
Fresh ==
  /\ reader.at = "idle" => reader.found = {}
  /\ \A g \in reader.found : FreshOf(g)

-----------------------------------------------------------------------------
(* Type correctness *)

LEMMA RegistryInit == Init => TypeOK /\ Enrolling /\ Punctual /\ ReaderRight /\ Fresh
BY RegistryAssumption
DEF Init, TypeOK, Enrolling, EnrollingOf, Punctual, PunctualOf, ReaderRight, Fresh, Resting, Ages,
    Oldest

Readers == [at : {"idle", "read", "evict"}, pass : 1 .. 2, todo : SUBSET Gateways,
            found : SUBSET Gateways, elapsed : 0 .. MaxDelay, stale : Gateways \cup {Nobody}]

\* An age one second later.
LEMMA OlderFacts ==
  /\ \A a \in Ages : Older(a) \in Ages /\ a <= Older(a) /\ \A b \in Ages : a <= b => Older(a) <= Older(b)
  /\ Older(NoData) = NoData
  /\ NoData \notin Ages /\ 0 \in Ages /\ Ages \subseteq Nat
BY RegistryAssumption DEF Older, Ages, Oldest

LEMMA ExecutedFaults ==
  ASSUME TypeOK, NEW g \in Gateways, NEW done \in BOOLEAN, Executed(g, done)
  PROVE  faults' \in 0 .. MaxFaults
BY RegistryAssumption DEF TypeOK, Executed

LEMMA ThreadTypes ==
  ASSUME TypeOK, NEW g \in Gateways, StartHeartbeat(g)
  PROVE  /\ proc' \in [Gateways -> {"off", "adding", "run", "stopping", "gone"}]
         /\ thread' \in [Gateways -> {"none", "sleep", "send", "end"}]
         /\ left' \in [Gateways -> 0 .. Interval] /\ stamp' \in [Gateways -> Ages]
         /\ proc'[g] = "run" /\ thread'[g] = "sleep"
         /\ \A h \in Gateways \ {g} : proc'[h] = proc[h] /\ thread'[h] = thread[h]
         /\ stamp' = stamp
BY RegistryAssumption DEF TypeOK, StartHeartbeat

\* What the process of a gateway does.
LEMMA ProcessType ==
  ASSUME TypeOK, NEW g \in Gateways, Process(g)
  PROVE  TypeOK'
<1> USE RegistryAssumption DEF TypeOK
<1>1. ASSUME NEW done \in BOOLEAN, Register(g, done)
      PROVE  TypeOK'
  <2>0. faults' \in 0 .. MaxFaults
    BY <1>1, ExecutedFaults DEF Register
  <2>1. age' \in [Gateways -> Ages \cup {NoData}]
    BY <1>1, OlderFacts DEF Register, setHashField
  <2>2. CASE done
    <3>1. proc' = [proc EXCEPT ![g] = "adding"] /\ UNCHANGED threads
      BY <1>1, <2>2 DEF Register
    <3>2. /\ proc' \in [Gateways -> {"off", "adding", "run", "stopping", "gone"}]
          /\ \A h \in Gateways : proc'[h] = "gone" => proc[h] = "gone"
      BY <3>1
    <3> QED BY <1>1, <2>0, <2>1, <3>1, <3>2 DEF Register, threads, history
  <2>3. CASE ~done
    BY <1>1, <2>0, <2>1, <2>3, ThreadTypes DEF Register, history
  <2> QED BY <2>2, <2>3
<1>2. CASE AddActive(g)
  <2>1. active' \subseteq Gateways /\ enrolled' \subseteq Gateways
    BY <1>2 DEF AddActive, setAdd
  <2>2. faults' \in 0 .. MaxFaults
    BY <1>2, ExecutedFaults DEF AddActive
  <2> QED BY <1>2, <2>1, <2>2, ThreadTypes DEF AddActive
<1>3. CASE AddFails(g)
  <2>1. age' \in [Gateways -> Ages \cup {NoData}] /\ undone' \subseteq Gateways
    BY <1>3 DEF AddFails, deleteKey, setAdd
  <2>2. faults' \in 0 .. MaxFaults
    BY <1>3, ExecutedFaults DEF AddFails
  <2> QED BY <1>3, <2>1, <2>2, ThreadTypes DEF AddFails
<1>4. CASE Stop(g)
  <2>1. link' \in [Gateways -> BOOLEAN]
    BY <1>4 DEF Stop
  <2>2. /\ proc' \in [Gateways -> {"off", "adding", "run", "stopping", "gone"}]
        /\ \A h \in Gateways : proc'[h] = "gone" => proc[h] = "gone"
    BY <1>4 DEF Stop
  <2> QED BY <1>4, <2>1, <2>2 DEF Stop, redis, threads, history
<1>5. CASE Unregister(g)
  <2>1. age' \in [Gateways -> Ages \cup {NoData}] /\ active' \subseteq Gateways
    BY <1>5 DEF Unregister, deleteKey, setRemove
  <2>2. /\ proc' \in [Gateways -> {"off", "adding", "run", "stopping", "gone"}]
        /\ \A h \in Gateways : proc'[h] = "gone" => proc[h] = "gone" \/ thread[h] = "end"
    BY <1>5 DEF Unregister
  <2> QED BY <1>5, <2>1, <2>2 DEF Unregister, threads, history
<1>6. CASE Restart(g)
  <2>1. link' \in [Gateways -> BOOLEAN] /\ left' \in [Gateways -> 0 .. Interval]
    BY <1>6 DEF Restart
  <2>2. /\ proc' \in [Gateways -> {"off", "adding", "run", "stopping", "gone"}]
        /\ thread' \in [Gateways -> {"none", "sleep", "send", "end"}]
        /\ \A h \in Gateways : proc'[h] = "gone" => thread'[h] \in {"none", "end"}
    BY <1>6 DEF Restart
  <2> QED BY <1>6, <2>1, <2>2 DEF Restart, redis, history
<1> QED BY <1>1, <1>2, <1>3, <1>4, <1>5, <1>6 DEF Process

\* What its heartbeat thread does.
LEMMA HeartbeatType ==
  ASSUME TypeOK, NEW g \in Gateways, Heartbeat(g)
  PROVE  TypeOK'
<1> USE RegistryAssumption DEF TypeOK
<1>1. CASE Wake(g)
  <2>1. /\ thread' \in [Gateways -> {"none", "sleep", "send", "end"}]
        /\ \A h \in Gateways : proc[h] = "gone" => thread'[h] \in {"none", "end"}
    BY <1>1 DEF Wake
  <2> QED BY <1>1, <2>1 DEF Wake, redis, history
<1>2. ASSUME NEW done \in BOOLEAN, Beat(g, done)
      PROVE  TypeOK'
  <2>0. faults' \in 0 .. MaxFaults
    BY <1>2, ExecutedFaults DEF Beat
  <2>1. age' \in [Gateways -> Ages \cup {NoData}]
    BY <1>2 DEF Beat, setHashField
  <2>2. stamp' \in [Gateways -> Ages]
    BY <1>2, OlderFacts DEF Beat
  <2>3. /\ thread' \in [Gateways -> {"none", "sleep", "send", "end"}]
        /\ left' \in [Gateways -> 0 .. Interval]
        /\ \A h \in Gateways : proc[h] = "gone" => thread'[h] \in {"none", "end"}
    BY <1>2 DEF Beat
  <2> QED BY <1>2, <2>0, <2>1, <2>2, <2>3 DEF Beat, history
<1> QED BY <1>1, <1>2 DEF Heartbeat

\* What the reader does.
LEMMA ReaderFacts ==
  ASSUME TypeOK, Select \/ Reader
  PROVE  reader' \in Readers
<1>1. reader \in Readers
  BY DEF TypeOK, Readers
<1>2. ASSUME NEW pass \in 1 .. 2, Discover(pass)
      PROVE  reader' \in Readers
  <2>1. reader' = [at |-> "read", pass |-> pass, todo |-> active, found |-> {}, elapsed |-> 0,
                   stale |-> Nobody]
    BY <1>2 DEF Discover, Resting
  <2> QED BY <2>1, RegistryAssumption DEF TypeOK, Readers
<1>3. CASE Select
  BY <1>2, <1>3 DEF Select
<1>4. ASSUME NEW g \in Gateways, Read(g)
      PROVE  reader' \in Readers
  <2>1. CASE reader' = [reader EXCEPT !.todo = @ \ {g}]
    BY <1>1, <2>1 DEF Readers
  <2>2. CASE reader' = [reader EXCEPT !.todo = @ \ {g}, !.at = "evict", !.stale = g]
    BY <1>1, <2>2 DEF Readers
  <2>3. CASE reader' = [reader EXCEPT !.todo = @ \ {g}, !.found = @ \cup {g}]
    BY <1>1, <2>3 DEF Readers
  <2> QED BY <1>4, <2>1, <2>2, <2>3 DEF Read
<1>5. CASE Evict
  <2>1. reader' = [reader EXCEPT !.at = "read", !.stale = Nobody]
    BY <1>5 DEF Evict
  <2> QED BY <1>1, <2>1 DEF Readers
<1>6. CASE Choose
  <2>1. CASE Candidates = {} /\ reader.pass = 1
    BY <1>2, <1>6, <2>1 DEF Choose
  <2>2. CASE ~(Candidates = {} /\ reader.pass = 1)
    <3>1. reader' = Resting
      BY <1>6, <2>2 DEF Choose
    <3> QED BY <3>1, RegistryAssumption DEF Resting, Readers
  <2> QED BY <2>1, <2>2
<1> QED BY <1>3, <1>4, <1>5, <1>6 DEF Reader

\* A second passes.
LEMMA TickType ==
  ASSUME TypeOK, Tick
  PROVE  TypeOK'
<1> USE RegistryAssumption
<1>1. age' \in [Gateways -> Ages \cup {NoData}]
  BY OlderFacts DEF Tick, TypeOK
<1>2. left' \in [Gateways -> 0 .. Interval]
  BY DEF Tick, TypeOK
<1>3. stamp' \in [Gateways -> Ages]
  BY OlderFacts DEF Tick, TypeOK
<1>4. reader \in Readers /\ reader' \in Readers
  <2>1. reader \in Readers
    BY DEF TypeOK, Readers
  <2>2. CASE reader.at = "idle"
    BY <2>1, <2>2 DEF Tick
  <2>3. CASE reader.at # "idle"
    BY <2>1, <2>3 DEF Tick, Readers
  <2> QED BY <2>1, <2>2, <2>3
<1>5. late' \subseteq Gateways
  BY DEF Tick, TypeOK
<1> QED BY <1>1, <1>2, <1>3, <1>4, <1>5 DEF Tick, TypeOK, Readers

\* A fault of a gateway.
LEMMA FaultType ==
  ASSUME TypeOK, NEW g \in Gateways, Cut(g) \/ Crash(g)
  PROVE  TypeOK'
<1> USE RegistryAssumption
<1>1. CASE Cut(g)
  <2>1. link' \in [Gateways -> BOOLEAN] /\ faults' \in 0 .. MaxFaults
    BY <1>1 DEF Cut, TypeOK
  <2> QED BY <1>1, <2>1 DEF Cut, TypeOK, redis, threads, history
<1>2. CASE Crash(g)
  <2>1. link' \in [Gateways -> BOOLEAN] /\ faults' \in 0 .. MaxFaults
    BY <1>2 DEF Crash, TypeOK
  <2>2. left' \in [Gateways -> 0 .. Interval] /\ stamp' \in [Gateways -> Ages]
    BY <1>2, OlderFacts DEF Crash, TypeOK
  <2>3. /\ proc' \in [Gateways -> {"off", "adding", "run", "stopping", "gone"}]
        /\ thread' \in [Gateways -> {"none", "sleep", "send", "end"}]
        /\ \A h \in Gateways : proc'[h] = "gone" => thread'[h] \in {"none", "end"}
    BY <1>2 DEF Crash, TypeOK
  <2> QED BY <1>2, <2>1, <2>2, <2>3 DEF Crash, TypeOK, redis, history
<1> QED BY <1>1, <1>2

LEMMA RegistryTypeStep ==
  ASSUME TypeOK, [Next]_vars
  PROVE  TypeOK'
<1>1. CASE Select \/ Reader
  <2>1. reader' \in Readers
    BY <1>1, ReaderFacts
  <2>2. active' \subseteq Gateways
    BY <1>1 DEF Select, Reader, Evict, Choose, Read, redis, setRemove, TypeOK
  <2>3. UNCHANGED <<age, proc, link, threads, faults, history>>
    BY <1>1 DEF Select, Reader, Evict, Choose, Read, redis
  <2> QED BY <2>1, <2>2, <2>3 DEF TypeOK, Readers, threads, history
<1>2. CASE Tick
  BY <1>2, TickType
<1>3. ASSUME NEW g \in Gateways, Process(g) \/ Heartbeat(g) \/ Cut(g) \/ Crash(g)
      PROVE  TypeOK'
  BY <1>3, ProcessType, HeartbeatType, FaultType
<1>4. CASE UNCHANGED vars
  BY <1>4 DEF vars, redis, threads, history, TypeOK
<1> QED BY <1>1, <1>2, <1>3, <1>4 DEF Next

\* Every variable keeps its type, and no heartbeat outlives the registry object.
THEOREM RegistryTypeCorrect == Spec => []TypeOK
<1>1. Init => TypeOK
  BY RegistryInit
<1> QED BY <1>1, RegistryTypeStep, PTL DEF Spec

-----------------------------------------------------------------------------
(* Whoever is in the set can be dated *)

GatewayStep(g) == Process(g) \/ Heartbeat(g) \/ Cut(g) \/ Crash(g)

\* A step of a gateway leaves the others as they are, and the reader.
LEMMA OthersKept ==
  ASSUME TypeOK, NEW g \in Gateways, GatewayStep(g), NEW h \in Gateways \ {g}
  PROVE  /\ proc'[h] = proc[h] /\ thread'[h] = thread[h] /\ link'[h] = link[h]
         /\ age'[h] = age[h] /\ stamp'[h] = stamp[h]
         /\ (h \in active') = (h \in active) /\ (h \in enrolled') = (h \in enrolled)
         /\ (h \in undone') = (h \in undone)
<1>1. ASSUME NEW done \in BOOLEAN, Register(g, done)
      PROVE  /\ proc'[h] = proc[h] /\ thread'[h] = thread[h] /\ age'[h] = age[h]
             /\ UNCHANGED <<link, stamp, active, enrolled, undone>>
  BY <1>1 DEF Register, StartHeartbeat, threads, history, setHashField, TypeOK
<1>2. CASE AddActive(g)
  BY <1>2 DEF AddActive, StartHeartbeat, setAdd, TypeOK
<1>3. CASE AddFails(g)
  BY <1>3 DEF AddFails, StartHeartbeat, deleteKey, setAdd, TypeOK
<1>4. CASE Stop(g)
  BY <1>4 DEF Stop, redis, threads, history, TypeOK
<1>5. CASE Unregister(g)
  BY <1>5 DEF Unregister, threads, history, deleteKey, setRemove, TypeOK
<1>6. CASE Restart(g)
  BY <1>6 DEF Restart, redis, history, TypeOK
<1>7. CASE Wake(g)
  BY <1>7 DEF Wake, redis, history, TypeOK
<1>8. ASSUME NEW done \in BOOLEAN, Beat(g, done)
      PROVE  /\ thread'[h] = thread[h] /\ age'[h] = age[h] /\ stamp'[h] = stamp[h]
             /\ UNCHANGED <<proc, link, active, enrolled, undone>>
  BY <1>8 DEF Beat, setHashField, history, TypeOK
<1>9. CASE Cut(g)
  BY <1>9 DEF Cut, redis, threads, history, TypeOK
<1>10. CASE Crash(g)
  BY <1>10 DEF Crash, redis, history, TypeOK
<1> QED BY <1>1, <1>2, <1>3, <1>4, <1>5, <1>6, <1>7, <1>8, <1>9, <1>10
        DEF GatewayStep, Process, Heartbeat

\* The reader is not moved and lateness is for ever.
LEMMA ReaderKept ==
  ASSUME NEW g, GatewayStep(g)
  PROVE  UNCHANGED <<reader, late>>
BY DEF GatewayStep, Process, Heartbeat, Register, AddActive, AddFails, Stop, Unregister, Restart,
       Wake, Beat, Cut, Crash, history

\* A step of the gateway itself: HSET before SADD, no SREM or DEL that arrives.
LEMMA OwnEnrolling ==
  ASSUME TypeOK, Enrolling, NEW g \in Gateways, GatewayStep(g)
  PROVE  EnrollingOf(g)'
<1>0. EnrollingOf(g)
  BY DEF Enrolling
<1> USE OlderFacts DEF EnrollingOf, TypeOK
<1>1. ASSUME NEW done \in BOOLEAN, Register(g, done)
      PROVE  EnrollingOf(g)'
  BY <1>0, <1>1 DEF Register, StartHeartbeat, threads, history, setHashField
<1>2. CASE AddActive(g)
  BY <1>0, <1>2 DEF AddActive, StartHeartbeat, setAdd
<1>3. CASE AddFails(g)
  BY <1>0, <1>3 DEF AddFails, StartHeartbeat, deleteKey, setAdd
<1>4. CASE Stop(g)
  BY <1>0, <1>4 DEF Stop, redis, threads, history
<1>5. CASE Unregister(g)
  BY <1>0, <1>5 DEF Unregister, threads, history, deleteKey, setRemove
<1>6. CASE Restart(g)
  BY <1>0, <1>6 DEF Restart, redis, history
<1>7. CASE Wake(g)
  BY <1>0, <1>7 DEF Wake, redis, history
<1>8. ASSUME NEW done \in BOOLEAN, Beat(g, done)
      PROVE  EnrollingOf(g)'
  <2>1. age'[g] = age[g] \/ age'[g] # NoData
    BY <1>8 DEF Beat, setHashField
  <2>2. /\ UNCHANGED <<proc, link, active, enrolled, undone>>
        /\ thread[g] # "none"
    BY <1>8 DEF Beat, history
  <2> QED BY <1>0, <2>1, <2>2
<1>9. CASE Cut(g)
  BY <1>0, <1>9 DEF Cut, redis, threads, history
<1>10. CASE Crash(g)
  BY <1>0, <1>10 DEF Crash, redis, history
<1> QED BY <1>1, <1>2, <1>3, <1>4, <1>5, <1>6, <1>7, <1>8, <1>9, <1>10
        DEF GatewayStep, Process, Heartbeat

LEMMA EnrollingStep ==
  ASSUME TypeOK, Enrolling, [Next]_vars
  PROVE  Enrolling'
<1>1. CASE Select \/ Reader
  <2>1. active' \subseteq active
    BY <1>1 DEF Select, Reader, Evict, Choose, Read, redis, setRemove
  <2>2. UNCHANGED <<age, proc, link, thread, enrolled, undone>>
    BY <1>1 DEF Select, Reader, Evict, Choose, Read, redis, threads, history
  <2> QED BY <2>1, <2>2 DEF Enrolling, EnrollingOf
<1>2. CASE Tick
  <2>1. \A g \in Gateways : age[g] # NoData => age'[g] # NoData
    BY <1>2, OlderFacts DEF Tick, TypeOK
  <2> QED BY <1>2, <2>1 DEF Tick, Enrolling, EnrollingOf
<1>3. ASSUME NEW g \in Gateways, GatewayStep(g)
      PROVE  Enrolling'
  <2>1. ASSUME NEW h \in Gateways
        PROVE  EnrollingOf(h)'
    <3>1. CASE h = g
      BY <1>3, <3>1, OwnEnrolling
    <3>2. CASE h # g
      BY <1>3, <3>2, OthersKept DEF Enrolling, EnrollingOf
    <3> QED BY <3>1, <3>2
  <2> QED BY <2>1 DEF Enrolling
<1>4. CASE UNCHANGED vars
  BY <1>4 DEF vars, redis, threads, history, Enrolling, EnrollingOf
<1> QED BY <1>1, <1>2, <1>3, <1>4 DEF Next, GatewayStep

\* A reader can tell the age of whoever is in the set, whatever crashes, restarts,
\* lost connections and refused commands there are, but for those whose hash a
\* registration that failed took back.
THEOREM MembersDated == Spec => []MembersHaveData
<1>1. Init => TypeOK /\ Enrolling
  BY RegistryInit
<1>2. TypeOK /\ Enrolling => MembersHaveData
  BY DEF TypeOK, Enrolling, EnrollingOf, MembersHaveData
<1> QED BY <1>1, <1>2, RegistryTypeStep, EnrollingStep, PTL DEF Spec

-----------------------------------------------------------------------------
(* Who beats in time is not evicted *)

LEMMA OwnPunctual ==
  ASSUME TypeOK, Enrolling, Punctual, NEW g \in Gateways, GatewayStep(g)
  PROVE  PunctualOf(g)'
<1>0. PunctualOf(g) /\ EnrollingOf(g)
  BY DEF Punctual, Enrolling
<1>a. age[g] \in Nat \cup {NoData} /\ stamp[g] \in Nat /\ Timeout \in Nat
  BY RegistryAssumption, OlderFacts DEF TypeOK
<1>b. late' = late
  BY ReaderKept
<1> USE <1>0, <1>a, <1>b DEF PunctualOf
<1>1. ASSUME NEW done \in BOOLEAN, Register(g, done)
      PROVE  PunctualOf(g)'
  <2>1. stamp[g] = 0 /\ stamp' = stamp
    BY <1>1 DEF Register, StartHeartbeat, threads, EnrollingOf
  <2>2. age'[g] = 0 \/ age'[g] = age[g]
    BY <1>1 DEF Register, setHashField, TypeOK
  <2> QED BY <2>1, <2>2
<1>2. CASE AddActive(g)
  <2>1. UNCHANGED <<age, stamp>> /\ stamp[g] = 0
    BY <1>2 DEF AddActive, StartHeartbeat, EnrollingOf
  <2> QED BY <2>1
<1>3. CASE AddFails(g)
  <2>1. stamp[g] = 0 /\ stamp' = stamp
    BY <1>3 DEF AddFails, StartHeartbeat, EnrollingOf
  <2>2. age'[g] = NoData \/ age'[g] = age[g]
    BY <1>3 DEF AddFails, deleteKey, TypeOK
  <2> QED BY <2>1, <2>2
<1>4. CASE Stop(g)
  BY <1>4 DEF Stop, redis, threads
<1>5. CASE Unregister(g)
  BY <1>5 DEF Unregister, threads, deleteKey, TypeOK
<1>6. CASE Restart(g)
  <2>1. UNCHANGED <<age, stamp>> /\ stamp[g] = 0
    BY <1>6 DEF Restart, redis, TypeOK
  <2> QED BY <2>1
<1>7. CASE Wake(g)
  <2>1. UNCHANGED <<age, stamp>> /\ stamp[g] = 0
    BY <1>7 DEF Wake, redis
  <2> QED BY <2>1
<1>8. ASSUME NEW done \in BOOLEAN, Beat(g, done)
      PROVE  PunctualOf(g)'
  <2>1. age'[g] \in {stamp[g], age[g]} /\ stamp'[g] = 0
    BY <1>8 DEF Beat, setHashField, TypeOK
  <2> QED BY <2>1
<1>9. CASE Cut(g)
  BY <1>9 DEF Cut, redis, threads
<1>10. CASE Crash(g)
  <2>1. stamp'[g] = 0 /\ age' = age
    BY <1>10 DEF Crash, redis, TypeOK
  <2> QED BY <2>1
<1> QED BY <1>1, <1>2, <1>3, <1>4, <1>5, <1>6, <1>7, <1>8, <1>9, <1>10
        DEF GatewayStep, Process, Heartbeat

LEMMA PunctualStep ==
  ASSUME TypeOK, Enrolling, Punctual, [Next]_vars
  PROVE  Punctual'
<1>1. CASE Select \/ Reader
  BY <1>1 DEF Select, Reader, Evict, Choose, Read, redis, threads, history, Punctual, PunctualOf
<1>2. CASE Tick
  <2> SUFFICES ASSUME NEW g \in Gateways
               PROVE  PunctualOf(g)'
    BY DEF Punctual
  <2>1. /\ PunctualOf(g) /\ stamp[g] \in Ages /\ age[g] \in Ages \cup {NoData}
        /\ Timeout \in Nat
    BY RegistryAssumption DEF Punctual, TypeOK
  <2>2. age'[g] = Older(age[g]) /\ thread' = thread
    BY <1>2 DEF Tick
  <2>3. stamp'[g] = IF thread[g] = "send" THEN Older(stamp[g]) ELSE stamp[g]
    BY <1>2 DEF Tick
  <2>4. stamp'[g] \in Nat /\ age'[g] \in Nat \cup {NoData}
    BY <2>1, <2>2, <2>3, OlderFacts
  <2>5. age'[g] # NoData => stamp'[g] <= age'[g]
    <3>1. CASE thread[g] = "send"
      BY <2>1, <2>2, <2>3, <3>1, OlderFacts DEF PunctualOf
    <3>2. CASE thread[g] # "send"
      BY <2>1, <2>3, <2>4, <3>2 DEF PunctualOf
    <3> QED BY <3>1, <3>2
  <2>6. /\ age'[g] # NoData /\ age'[g] > Timeout => g \in late'
        /\ stamp'[g] > Timeout => g \in late'
    BY <1>2 DEF Tick
  <2> QED BY <2>1, <2>2, <2>3, <2>5, <2>6 DEF PunctualOf
<1>3. ASSUME NEW g \in Gateways, GatewayStep(g)
      PROVE  Punctual'
  <2>1. late' = late
    BY <1>3, ReaderKept
  <2>2. ASSUME NEW h \in Gateways
        PROVE  PunctualOf(h)'
    <3>1. CASE h = g
      BY <1>3, <3>1, OwnPunctual
    <3>2. CASE h # g
      BY <1>3, <2>1, <3>2, OthersKept DEF Punctual, PunctualOf
    <3> QED BY <3>1, <3>2
  <2> QED BY <2>2 DEF Punctual
<1>4. CASE UNCHANGED vars
  BY <1>4 DEF vars, redis, threads, history, Punctual, PunctualOf
<1> QED BY <1>1, <1>2, <1>3, <1>4 DEF Next, GatewayStep

\* A gateway whose look-up ends in an eviction is late.
LEMMA FoundStale ==
  ASSUME TypeOK, Punctual, NEW g \in Gateways, Read(g), reader'.at = "evict"
  PROVE  reader'.stale \in late
<1>1. reader \in Readers /\ reader.at = "read"
  BY DEF TypeOK, Readers, Read
<1>2. age[g] # NoData /\ Stale(g) /\ reader'.stale = g
  BY <1>1 DEF Read, Readers
<1>3. age[g] \in Nat
  BY <1>2, OlderFacts DEF TypeOK
<1>4. reader.elapsed \in Nat /\ Timeout \in Nat
  BY <1>1, RegistryAssumption DEF Readers
<1>5. age[g] > Timeout
  BY <1>2, <1>3, <1>4 DEF Stale
<1> QED BY <1>2, <1>5 DEF Punctual, PunctualOf

LEMMA ReaderRightStep ==
  ASSUME TypeOK, Enrolling, Punctual, ReaderRight, [Next]_vars
  PROVE  ReaderRight'
<1>0. reader \in Readers
  BY DEF TypeOK, Readers
<1>1. CASE Select \/ Reader
  <2>1. UNCHANGED <<enrolled, late>>
    BY <1>1 DEF Select, Reader, Evict, Choose, Read, history
  <2>2. ASSUME NEW pass, Discover(pass)
        PROVE  reader'.at = "read"
    BY <2>2 DEF Discover, Resting
  <2>3. CASE Select
    BY <2>1, <2>2, <2>3 DEF Select, redis, ReaderRight
  <2>4. CASE Choose
    <3>1. reader'.at # "evict"
      BY <2>2, <2>4 DEF Choose, Resting
    <3> QED BY <2>1, <2>4, <3>1 DEF Choose, redis, ReaderRight
  <2>5. CASE Evict
    <3>1. reader'.at = "read"
      BY <1>0, <2>5 DEF Evict, Readers
    <3>2. active' = active \ {reader.stale} /\ reader.stale \in late
      BY <2>5 DEF Evict, setRemove, ReaderRight
    <3> QED BY <2>1, <3>1, <3>2 DEF ReaderRight
  <2>6. ASSUME NEW g \in Gateways, Read(g)
        PROVE  ReaderRight'
    BY <2>1, <2>6, FoundStale DEF Read, redis, ReaderRight
  <2> QED BY <1>1, <2>3, <2>4, <2>5, <2>6 DEF Reader
<1>2. CASE Tick
  <2>1. reader'.at = reader.at /\ reader'.stale = reader.stale
    BY <1>0, <1>2 DEF Tick, Readers
  <2> QED BY <1>2, <2>1 DEF Tick, ReaderRight
<1>3. ASSUME NEW g \in Gateways, GatewayStep(g)
      PROVE  ReaderRight'
  <2>1. UNCHANGED <<reader, late>>
    BY <1>3, ReaderKept
  <2>2. active \subseteq active' /\ enrolled' \subseteq enrolled \cup active'
    <3>1. CASE Unregister(g)
      BY <3>1 DEF Unregister, history, setRemove, Enrolling, EnrollingOf
    <3>2. CASE AddActive(g)
      BY <3>2 DEF AddActive, setAdd
    <3> QED BY <1>3, <3>1, <3>2
            DEF GatewayStep, Process, Heartbeat, Register, AddFails, Stop, Restart, Wake, Beat,
                Cut, Crash, redis, history
  <2> QED BY <2>1, <2>2 DEF ReaderRight
<1>4. CASE UNCHANGED vars
  BY <1>4 DEF vars, redis, history, ReaderRight
<1> QED BY <1>1, <1>2, <1>3, <1>4 DEF Next, GatewayStep

\* A gateway that was added and runs is out of the set only if it once let more
\* than the time-out pass between two heartbeats, however slow the reader is.
THEOREM EvictionJust == Spec => []EvictedOnlyIfLate
<1>1. Init => TypeOK /\ Enrolling /\ Punctual /\ ReaderRight
  BY RegistryInit
<1>2. ReaderRight => EvictedOnlyIfLate
  BY DEF ReaderRight, EvictedOnlyIfLate
<1> QED BY <1>1, <1>2, RegistryTypeStep, EnrollingStep, PunctualStep, ReaderRightStep, PTL
        DEF Spec

-----------------------------------------------------------------------------
(* Nobody is chosen on an old beat *)

\* A step of a gateway that was found: what it writes is no older than what it had.
LEMMA OwnFresh ==
  ASSUME TypeOK, Enrolling, Punctual, NEW g \in Gateways, GatewayStep(g), FreshOf(g)
  PROVE  FreshOf(g)'
<1>0. reader' = reader
  BY ReaderKept
<1>a. /\ age[g] \in Nat \cup {NoData} /\ stamp[g] \in Nat
      /\ Timeout + reader.elapsed \in Nat
  <2>1. reader \in Readers
    BY DEF TypeOK, Readers
  <2>2. reader.elapsed \in Nat
    BY <2>1, RegistryAssumption DEF Readers
  <2>3. age[g] \in Nat \cup {NoData} /\ stamp[g] \in Nat
    BY OlderFacts DEF TypeOK
  <2>4. Timeout + reader.elapsed \in Nat
    BY <2>2, RegistryAssumption
  <2> QED BY <2>3, <2>4
<1>1. age'[g] \in {age[g], stamp[g], 0, NoData} /\ stamp'[g] \in {stamp[g], 0}
  <2>1. ASSUME NEW done \in BOOLEAN, Register(g, done)
        PROVE  age'[g] \in {age[g], 0} /\ stamp' = stamp
    BY <2>1 DEF Register, StartHeartbeat, threads, setHashField, TypeOK
  <2>2. ASSUME NEW done \in BOOLEAN, Beat(g, done)
        PROVE  age'[g] \in {age[g], stamp[g]} /\ stamp'[g] = 0
    BY <2>2 DEF Beat, setHashField, TypeOK
  <2>3. CASE AddActive(g) \/ AddFails(g)
    BY <2>3 DEF AddActive, AddFails, StartHeartbeat, deleteKey, TypeOK
  <2>4. CASE Stop(g) \/ Unregister(g) \/ Restart(g) \/ Wake(g) \/ Cut(g)
    BY <2>4 DEF Stop, Unregister, Restart, Wake, Cut, redis, threads, deleteKey, TypeOK
  <2>5. CASE Crash(g)
    BY <2>5 DEF Crash, redis, TypeOK
  <2> QED BY <2>1, <2>2, <2>3, <2>4, <2>5 DEF GatewayStep, Process, Heartbeat
<1> QED BY <1>0, <1>a, <1>1 DEF FreshOf

LEMMA FreshStep ==
  ASSUME TypeOK, Enrolling, Punctual, Fresh, [Next]_vars
  PROVE  Fresh'
<1>0. reader \in Readers /\ Timeout \in Nat /\ MaxDelay \in Nat
  BY RegistryAssumption DEF TypeOK, Readers
<1>1. CASE Select \/ Choose
  <2>1. ASSUME NEW pass, Discover(pass)
        PROVE  reader'.found = {}
    BY <2>1 DEF Discover, Resting
  <2>2. reader'.found = {}
    BY <1>1, <2>1 DEF Select, Choose, Resting
  <2> QED BY <2>2 DEF Fresh
<1>2. CASE Evict
  <2>1. /\ reader'.at = "read" /\ reader'.found = reader.found
        /\ reader'.elapsed = reader.elapsed /\ UNCHANGED <<age, stamp>>
    BY <1>0, <1>2 DEF Evict, Readers, threads
  <2> QED BY <2>1 DEF Fresh, FreshOf
<1>3. ASSUME NEW g \in Gateways, Read(g)
      PROVE  Fresh'
  <2>1. reader.at = "read" /\ UNCHANGED <<age, stamp>>
    BY <1>3 DEF Read, redis, threads
  <2>2. /\ reader'.at # "idle" /\ reader'.elapsed = reader.elapsed
        /\ \A h \in reader'.found : h \in reader.found \/ (h = g /\ age[g] # NoData /\ ~Stale(g))
    BY <1>0, <1>3 DEF Read, Readers
  <2>3. ASSUME age[g] # NoData, ~Stale(g)
        PROVE  FreshOf(g)
    <3>1. age[g] \in Nat /\ stamp[g] \in Nat /\ stamp[g] <= age[g]
      BY <2>3, OlderFacts DEF TypeOK, Punctual, PunctualOf
    <3>2. reader.elapsed \in Nat
      BY <1>0 DEF Readers
    <3>3. age[g] <= Timeout + reader.elapsed
      BY <1>0, <2>3, <3>1, <3>2 DEF Stale
    <3> QED BY <1>0, <3>1, <3>2, <3>3 DEF FreshOf
  <2> QED BY <2>1, <2>2, <2>3 DEF Fresh, FreshOf
<1>4. CASE Tick
  <2>1. CASE reader.at = "idle"
    BY <1>4, <2>1 DEF Tick, Fresh
  <2>2. CASE reader.at # "idle"
    <3>1. /\ reader'.at # "idle" /\ reader'.found = reader.found
          /\ reader'.elapsed = reader.elapsed + 1
      BY <1>0, <1>4, <2>2 DEF Tick, Readers
    <3>2. ASSUME NEW g \in reader.found
          PROVE  FreshOf(g)'
      <4>1. g \in Gateways /\ FreshOf(g)
        BY <1>0, <3>2 DEF Fresh, Readers
      <4>2. age[g] \in Ages \cup {NoData} /\ stamp[g] \in Ages
        BY <4>1 DEF TypeOK
      <4>3. reader.elapsed \in Nat
        BY <1>0 DEF Readers
      <4>4. age'[g] = Older(age[g]) /\ stamp'[g] \in {stamp[g], Older(stamp[g])}
        BY <1>4, <4>1 DEF Tick
      <4>5. \A a \in Ages : Older(a) \in Nat /\ Older(a) <= a + 1
        BY <1>0, RegistryAssumption DEF Older, Ages, Oldest
      <4>6. Older(NoData) = NoData /\ Ages \subseteq Nat /\ NoData \notin Ages
        BY OlderFacts
      <4>7. stamp'[g] <= Timeout + reader'.elapsed
        <5>1. stamp[g] \in Nat /\ stamp[g] <= Timeout + reader.elapsed
          BY <4>1, <4>2, <4>6 DEF FreshOf
        <5>2. stamp'[g] \in Nat /\ stamp'[g] <= stamp[g] + 1
          BY <4>2, <4>4, <4>5, <5>1
        <5> QED BY <1>0, <3>1, <4>3, <5>1, <5>2
      <4>8. ASSUME age'[g] # NoData
            PROVE  age'[g] <= Timeout + reader'.elapsed
        <5>1. age[g] \in Ages /\ age[g] <= Timeout + reader.elapsed
          BY <4>1, <4>2, <4>4, <4>6, <4>8 DEF FreshOf
        <5>2. age[g] \in Nat /\ age'[g] \in Nat /\ age'[g] <= age[g] + 1
          BY <4>4, <4>5, <4>6, <5>1
        <5> QED BY <1>0, <3>1, <4>3, <5>1, <5>2
      <4> QED BY <4>7, <4>8 DEF FreshOf
    <3> QED BY <3>1, <3>2 DEF Fresh
  <2> QED BY <2>1, <2>2
<1>5. ASSUME NEW g \in Gateways, GatewayStep(g)
      PROVE  Fresh'
  <2>1. reader' = reader
    BY <1>5, ReaderKept
  <2>2. ASSUME NEW h \in reader.found
        PROVE  FreshOf(h)'
    <3>1. h \in Gateways /\ FreshOf(h)
      BY <1>0, <2>2 DEF Fresh, Readers
    <3>2. CASE h = g
      BY <1>5, <3>1, <3>2, OwnFresh
    <3>3. CASE h # g
      BY <1>5, <2>1, <3>1, <3>3, OthersKept DEF FreshOf
    <3> QED BY <3>2, <3>3
  <2> QED BY <2>1, <2>2 DEF Fresh
<1>6. CASE UNCHANGED vars
  BY <1>6 DEF vars, redis, threads, Fresh, FreshOf
<1> QED BY <1>1, <1>2, <1>3, <1>4, <1>5, <1>6 DEF Next, Reader, GatewayStep

\* Nobody the reader may choose has a heartbeat older than the time-out and the
\* time its own call has taken, whatever the gateways do meanwhile.
THEOREM ChosenBeats == Spec => []ChosenIsFresh
<1>1. Init => TypeOK /\ Enrolling /\ Punctual /\ Fresh
  BY RegistryInit
<1>2. Fresh => ChosenIsFresh
  BY DEF Fresh, FreshOf, ChosenIsFresh
<1> QED BY <1>1, <1>2, RegistryTypeStep, EnrollingStep, PunctualStep, FreshStep, PTL
        DEF Spec
=============================================================================
