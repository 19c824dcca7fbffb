------------------------ MODULE GatewayClusterProofs ------------------------
(***************************************************************************)
(* Proofs about GatewayCluster for any number of gateways, users,          *)
(* descriptors and messages and for any bounds.                            *)
(***************************************************************************)
EXTENDS GatewayCluster, SequenceTheorems, TLAPS

-----------------------------------------------------------------------------
(* Type correctness *)

LEMMA TypeInit == Init => TypeOK
  BY DistinctAssumption DEF Init, RedisInit, TypeOK, RedisTypeOK, NoJob

LEMMA SendToUserType ==
  ASSUME TypeOK, NEW g \in Gateways, NEW u \in Users, NEW m \in Msgs, sendToUser(g, u, m)
  PROVE  pq' \in [Gateways -> SUBSET Entries]
<1> DEFINE listed == {c \in Fds \X (1 .. MaxCopies) : c[2] <= userMap[g][u][c[1]]}
           new == {[msg |-> m, to |-> u, fd |-> d[1], copy |-> d[2]] : d \in listed}
<1>1. \A c \in listed : c[1] \in Fds /\ c[2] \in Nat
  BY BoundsAssumption
<1>2. new \subseteq Entries
  BY <1>1 DEF Entries
<1>3. pq' = [pq EXCEPT ![g] = @ \cup new]
  BY DEF sendToUser
<1> HIDE DEF new
<1> QED BY <1>2, <1>3 DEF TypeOK

LEMMA CloseConnType ==
  ASSUME TypeOK, NEW g \in Gateways, NEW f \in Fds, CloseConn(g, f)
  PROVE  /\ conn' \in [Gateways -> [Fds -> Users \cup {NoUser, Closed}]]
         /\ userMap' \in [Gateways -> [Users -> [Fds -> Nat]]]
         /\ devices' \in [Users -> SUBSET Devices]
         /\ online' \subseteq Users
         /\ left' \subseteq Users \X Devices
<1> DEFINE u == conn[g][f]
<1>1. conn' = [conn EXCEPT ![g][f] = Closed]
  BY DEF CloseConn
<1>2. conn' \in [Gateways -> [Fds -> Users \cup {NoUser, Closed}]]
  BY <1>1 DEF TypeOK
<1>3. CASE u \in Users /\ \E d \in Fds : userMap[g][u][d] > 0
  <2>1. userMap' = [userMap EXCEPT ![g][u][f] = 0] /\ Logout(g, f, u)
    BY <1>3 DEF CloseConn, Forget
  <2>2. userMap' \in [Gateways -> [Users -> [Fds -> Nat]]]
    BY <1>3, <2>1 DEF TypeOK
  <2>3. devices' \in [Users -> SUBSET Devices] /\ online' \subseteq Users
    <3>1. CASE Linked(g)
      <4>1. /\ devices' = [devices EXCEPT ![u] = @ \ {<<g, f>>}]
            /\ online' \subseteq online
        BY <2>1, <3>1 DEF Logout, userLogout
      <4> QED BY <1>3, <4>1 DEF TypeOK, RedisTypeOK
    <3>2. CASE ~Linked(g)
      BY <2>1, <3>2 DEF Logout, TypeOK, RedisTypeOK
    <3> QED BY <3>1, <3>2
  <2>4. left' \subseteq Users \X Devices
    BY <1>3, <2>1 DEF Logout, TypeOK, Devices
  <2> QED BY <1>2, <2>2, <2>3, <2>4
<1>4. CASE ~(u \in Users /\ \E d \in Fds : userMap[g][u][d] > 0)
  <2>1. UNCHANGED <<userMap, devices, online, left>>
    BY <1>4 DEF CloseConn
  <2> QED BY <1>2, <2>1 DEF TypeOK, RedisTypeOK
<1> QED BY <1>3, <1>4

LEMMA NextNameFacts ==
  ASSUME TypeOK, NEW g \in Gateways, NEW rest \in SUBSET Users, NextName(g, rest)
  PROVE  /\ toPop' = [toPop EXCEPT ![g] = rest]
         /\ pc' = [pc EXCEPT ![g] = IF rest = {} THEN "io" ELSE "pop"]
         /\ cur' \in [Gateways -> Users \cup {NoUser}]
         /\ rest # {} => cur'[g] \in rest
         /\ \A h \in Gateways \ {g} : cur'[h] = cur[h]
<1>1. /\ toPop' = [toPop EXCEPT ![g] = rest]
      /\ pc' = [pc EXCEPT ![g] = IF rest = {} THEN "io" ELSE "pop"]
  BY DEF NextName
<1>2. CASE rest = {}
  <2>1. cur' = [cur EXCEPT ![g] = NoUser]
    BY <1>2 DEF NextName
  <2> QED BY <1>1, <1>2, <2>1 DEF TypeOK
<1>3. CASE rest # {}
  <2>1. PICK u \in rest : cur' = [cur EXCEPT ![g] = u]
    BY <1>3 DEF NextName
  <2> QED BY <1>1, <2>1 DEF TypeOK
<1> QED BY <1>2, <1>3

LEMMA PushType ==
  ASSUME TypeOK, NEW u \in Users, NEW m \in Msgs, pushMessage(u, m)
  PROVE  queue' \in [Users -> Seq(Msgs)] /\ pending' \subseteq Users
<1>1. Append(queue[u], m) \in Seq(Msgs)
  BY DEF TypeOK, RedisTypeOK
<1> QED BY <1>1 DEF pushMessage, TypeOK, RedisTypeOK

LEMMA LpopType ==
  ASSUME TypeOK, NEW u \in Users, lpop(u)
  PROVE  queue' \in [Users -> Seq(Msgs)] /\ Head(queue[u]) \in Msgs
<1>1. queue[u] \in Seq(Msgs) /\ queue[u] # <<>>
  BY DEF lpop, TypeOK, RedisTypeOK
<1>2. Tail(queue[u]) \in Seq(Msgs) /\ Head(queue[u]) \in Msgs
  BY <1>1, HeadTailProperties
<1> QED BY <1>2 DEF lpop, TypeOK, RedisTypeOK

-----------------------------------------------------------------------------
(* The type invariant needs to know what the thread holds in each place. *)

TypeInv == TypeOK /\ LoopConsistent

LEMMA TypeInvInit == Init => TypeInv
  BY TypeInit DEF Init, TypeInv, LoopConsistent, Linked

LEMMA ClientStepType ==
  ASSUME TypeInv, NEW g \in Gateways, ClientStep(g)
  PROVE  TypeInv'
<1> USE DEF TypeInv, LoopConsistent, Linked, At, vars, localVars, handlerVars, popVars, history, redisVars
<1>1. ASSUME NEW f \in Fds, Accept(g, f) PROVE TypeInv'
  BY <1>1 DEF Accept, TypeOK, RedisTypeOK
<1>2. ASSUME NEW f \in Fds, NEW u \in Users, Login(g, f, u) PROVE TypeInv'
  BY <1>2 DEF Login, userLogin, TypeOK, RedisTypeOK, Devices
<1>3. ASSUME NEW f \in Fds, Disconnect(g, f) PROVE TypeInv'
  BY <1>3, CloseConnType DEF Disconnect, TypeOK, RedisTypeOK
<1>4. ASSUME NEW f \in Fds, NEW u \in Users, NEW m \in Msgs, Send(g, f, u, m) PROVE TypeInv'
  <2>1. getUserGateway(u) \subseteq Gateways
    BY DEF getUserGateway, TypeOK, RedisTypeOK, Devices
  <2>2. PICK h \in Gateways : route' = [route EXCEPT ![g] = {<<u, h>>}]
    BY <1>4, <2>1 DEF Send
  <2>3. TypeOK'
    <3>1. /\ sent' \subseteq Msgs
          /\ job' \in [Gateways -> [msg : Msgs \cup {NoMsg}, from : Users \cup {NoUser}]]
          /\ pc' \in [Gateways -> {"io", "lookup", "route", "flush", "pop"}]
      BY <1>4 DEF Send, Asks, TypeOK
    <3>2. route' \in [Gateways -> SUBSET (Users \X (Gateways \cup {NoGateway}))]
      BY <2>2 DEF TypeOK
    <3>3. UNCHANGED <<redisVars, status, faults, localVars, names, popVars, delivered, left, forgotten>>
      BY <1>4 DEF Send
    <3> QED BY <3>1, <3>2, <3>3 DEF TypeOK, RedisTypeOK
  <2>4. LoopConsistent'
    BY <1>4, <2>2 DEF Send, Asks, TypeOK, RedisTypeOK
  <2> QED BY <2>3, <2>4
<1>5. ASSUME NEW f \in Fds, NEW m \in Msgs, Chat(g, f, m) PROVE TypeInv'
  BY <1>5 DEF Chat, Asks, TypeOK, RedisTypeOK
<1> QED BY <1>1, <1>2, <1>3, <1>4, <1>5 DEF ClientStep

LEMMA LoopStepType ==
  ASSUME TypeInv, NEW g \in Gateways, LoopStep(g)
  PROVE  TypeInv'
<1> USE DEF TypeInv, LoopConsistent, Linked, At, vars, localVars, handlerVars, popVars, history, redisVars
<1>1. CASE ChatLookup(g)
  <2>1. PICK answer \in [names[g] -> Gateways \cup {NoGateway}] :
          route' = [route EXCEPT ![g] = {<<u, answer[u]>> : u \in names[g] \ {job[g].from}}]
    BY <1>1 DEF ChatLookup
  <2>2. {<<u, answer[u]>> : u \in names[g] \ {job[g].from}} \subseteq Users \X (Gateways \cup {NoGateway})
    BY <2>1 DEF TypeOK
  <2>3. route' \in [Gateways -> SUBSET (Users \X (Gateways \cup {NoGateway}))]
    BY <2>1, <2>2 DEF TypeOK
  <2>4. TypeOK'
    BY <1>1, <2>3 DEF ChatLookup, TypeOK, RedisTypeOK
  <2>5. LoopConsistent'
    BY <1>1, <2>1 DEF ChatLookup, TypeOK
  <2> QED BY <2>4, <2>5
<1>2. CASE Route(g)
  <2>1. PICK r \in route[g] : HandOn(g, r[1], r[2]) /\ route' = [route EXCEPT ![g] = @ \ {r}]
    BY <1>2 DEF Route
  <2>2. r[1] \in Users /\ job[g].msg \in Msgs
    BY <1>2, <2>1 DEF TypeOK, Route
  <2>3. queue' \in [Users -> Seq(Msgs)] /\ pending' \subseteq Users
    BY <2>1, <2>2, PushType DEF HandOn, TypeOK, RedisTypeOK
  <2>4. pq' \in [Gateways -> SUBSET Entries]
    BY <2>1, <2>2, SendToUserType DEF HandOn, TypeOK
  <2>5. TypeOK'
    BY <1>2, <2>1, <2>3, <2>4 DEF Route, TypeOK, RedisTypeOK
  <2>6. LoopConsistent'
    BY <1>2, <2>1 DEF Route, TypeOK
  <2> QED BY <2>5, <2>6
<1>3. CASE Return(g)
  BY <1>3 DEF Return, TypeOK, RedisTypeOK, NoJob
<1>4. CASE EndEvents(g)
  BY <1>4 DEF EndEvents, TypeOK, RedisTypeOK
<1>5. CASE Deliver(g)
  <2>1. PICK e \in pq[g] :
          /\ pq' = [pq EXCEPT ![g] = @ \ {e}]
          /\ delivered' = IF conn[g][e.fd] = Closed THEN delivered
                          ELSE delivered \cup {[msg |-> e.msg, to |-> e.to, gw |-> g, as |-> conn[g][e.fd]]}
    BY <1>5 DEF Deliver
  <2>2. e \in Entries
    BY <2>1 DEF TypeOK
  <2>3. delivered' \subseteq Deliveries
    BY <2>1, <2>2 DEF TypeOK, Entries, Deliveries
  <2>4. TypeOK'
    BY <1>5, <2>1, <2>3 DEF Deliver, TypeOK, RedisTypeOK
  <2>5. LoopConsistent'
    BY <1>5 DEF Deliver
  <2> QED BY <2>4, <2>5
<1>6. CASE DeliverFails(g)
  <2>1. PICK e \in pq[g] : pq' = [pq EXCEPT ![g] = @ \ {e}] /\ CloseConn(g, e.fd)
    BY <1>6 DEF DeliverFails
  <2>2. e.fd \in Fds
    BY <2>1 DEF TypeOK, Entries
  <2>3. TypeOK'
    BY <1>6, <2>1, <2>2, CloseConnType DEF DeliverFails, TypeOK, RedisTypeOK
  <2>4. LoopConsistent'
    BY <1>6 DEF DeliverFails
  <2> QED BY <2>3, <2>4
<1>7. CASE Drain(g)
  <2>1. pending \in SUBSET Users /\ NextName(g, pending)
    BY <1>7 DEF Drain, TypeOK, RedisTypeOK
  <2> DEFINE rest == pending
  <2>2. /\ toPop' = [toPop EXCEPT ![g] = rest]
        /\ pc' = [pc EXCEPT ![g] = IF rest = {} THEN "io" ELSE "pop"]
        /\ cur' \in [Gateways -> Users \cup {NoUser}]
        /\ rest # {} => cur'[g] \in rest
        /\ \A h \in Gateways \ {g} : cur'[h] = cur[h]
    BY <2>1, NextNameFacts
  <2>3. TypeOK'
    BY <1>7, <2>1, <2>2 DEF Drain, drainPendingUsers, TypeOK, RedisTypeOK
  <2>4. LoopConsistent'
    BY <1>7, <2>2 DEF Drain, TypeOK
  <2> QED BY <2>3, <2>4
<1>8. CASE Pop(g)
  <2>1. cur[g] \in Users
    BY <1>8 DEF Pop, TypeOK
  <2>2. queue' \in [Users -> Seq(Msgs)] /\ pq' \in [Gateways -> SUBSET Entries]
    BY <1>8, <2>1, LpopType, SendToUserType DEF Pop
  <2> QED BY <1>8, <2>2 DEF Pop, TypeOK, RedisTypeOK
<1>9. CASE PopNil(g)
  <2>1. toPop[g] \ {cur[g]} \in SUBSET Users /\ NextName(g, toPop[g] \ {cur[g]})
    BY <1>9 DEF PopNil, TypeOK
  <2> DEFINE rest == toPop[g] \ {cur[g]}
  <2>2. /\ toPop' = [toPop EXCEPT ![g] = rest]
        /\ pc' = [pc EXCEPT ![g] = IF rest = {} THEN "io" ELSE "pop"]
        /\ cur' \in [Gateways -> Users \cup {NoUser}]
        /\ rest # {} => cur'[g] \in rest
        /\ \A h \in Gateways \ {g} : cur'[h] = cur[h]
    BY <2>1, NextNameFacts
  <2>3. TypeOK'
    BY <1>9, <2>1, <2>2 DEF PopNil, TypeOK, RedisTypeOK
  <2>4. LoopConsistent'
    BY <1>9, <2>2 DEF PopNil, TypeOK
  <2> QED BY <2>3, <2>4
<1>10. CASE DrainFails(g)
  BY <1>10 DEF DrainFails, TypeOK, RedisTypeOK
<1>11. CASE PopFails(g)
  <2>1. /\ toPop[g] \ {cur[g]} \in SUBSET Users
        /\ cur[g] \in Users
        /\ NextName(g, toPop[g] \ {cur[g]})
    BY <1>11 DEF PopFails, TypeOK
  <2> DEFINE rest == toPop[g] \ {cur[g]}
  <2>2. /\ toPop' = [toPop EXCEPT ![g] = rest]
        /\ pc' = [pc EXCEPT ![g] = IF rest = {} THEN "io" ELSE "pop"]
        /\ cur' \in [Gateways -> Users \cup {NoUser}]
        /\ rest # {} => cur'[g] \in rest
        /\ \A h \in Gateways \ {g} : cur'[h] = cur[h]
    BY <2>1, NextNameFacts
  <2>3. TypeOK'
    BY <1>11, <2>1, <2>2 DEF PopFails, TypeOK, RedisTypeOK
  <2>4. LoopConsistent'
    BY <1>11, <2>2 DEF PopFails, TypeOK
  <2> QED BY <2>3, <2>4
<1> QED BY <1>1, <1>2, <1>3, <1>4, <1>5, <1>6, <1>7, <1>8, <1>9, <1>10, <1>11 DEF LoopStep

LEMMA FaultStepType ==
  ASSUME TypeInv, NEW g \in Gateways, FaultStep(g)
  PROVE  TypeInv'
<1> USE DEF TypeInv, LoopConsistent, Linked, At, Fault, vars, localVars, handlerVars, popVars, history, redisVars
<1>1. CASE Cut(g)
  BY <1>1 DEF Cut, TypeOK, RedisTypeOK
<1>2. CASE Crash(g)
  <2>1. left' \subseteq Users \X Devices /\ forgotten' \subseteq Users
    BY <1>2 DEF Crash, TypeOK
  <2>2. TypeOK'
    BY <1>2, <2>1 DEF Crash, TypeOK, RedisTypeOK, NoJob
  <2>3. LoopConsistent'
    BY <1>2 DEF Crash, TypeOK, NoJob
  <2> QED BY <2>2, <2>3
<1>3. CASE DrainReplyLost(g)
  BY <1>3 DEF DrainReplyLost, drainPendingUsers, TypeOK, RedisTypeOK
<1>4. CASE PopReplyLost(g)
  <2>1. cur[g] \in Users
    BY <1>4 DEF PopReplyLost, TypeOK
  <2>2. queue' \in [Users -> Seq(Msgs)]
    BY <1>4, <2>1, LpopType DEF PopReplyLost
  <2> QED BY <1>4, <2>2 DEF PopReplyLost, TypeOK, RedisTypeOK
<1>5. ASSUME NEW f \in Fds, NEW u \in Users, LoginReplyLost(g, f, u) PROVE TypeInv'
  BY <1>5 DEF LoginReplyLost, userLogin, TypeOK, RedisTypeOK, Devices
<1>6. CASE Refuse(g) \/ Recover(g) \/ Restart(g)
  <2>1. /\ faults' \in Nat
        /\ status' \in [Gateways -> {"up", "refused", "cut", "down"}]
    <3>1. PICK s \in {"up", "refused"} : status' = [status EXCEPT ![g] = s]
      BY <1>6 DEF Refuse, Recover, Restart
    <3>2. faults' = faults \/ faults' = faults + 1
      BY <1>6 DEF Refuse, Recover, Restart
    <3> QED BY <3>1, <3>2 DEF TypeOK
  <2>2. UNCHANGED <<redisVars, pc, localVars, handlerVars, popVars, history>>
    BY <1>6 DEF Refuse, Recover, Restart
  <2>3. TypeOK'
    BY <2>1, <2>2 DEF TypeOK, RedisTypeOK
  <2>4. LoopConsistent'
    BY <2>2
  <2> QED BY <2>3, <2>4
<1> QED BY <1>1, <1>2, <1>3, <1>4, <1>5, <1>6 DEF FaultStep

LEMMA TypeInvStep == TypeInv /\ [Next]_vars => TypeInv'
<1> SUFFICES ASSUME TypeInv, [Next]_vars PROVE TypeInv'
  OBVIOUS
<1>1. CASE UNCHANGED vars
  BY <1>1 DEF vars, localVars, handlerVars, popVars, history, redisVars,
              TypeInv, LoopConsistent, Linked, TypeOK, RedisTypeOK
<1>2. CASE Next
  BY <1>2, ClientStepType, LoopStepType, FaultStepType DEF Next
<1> QED BY <1>1, <1>2

LEMMA TypeInvAlways == Spec => []TypeInv
  BY TypeInvInit, TypeInvStep, PTL DEF Spec

(* Every variable keeps its type, for every number of gateways, users and *)
(* messages: in particular no handler puts anything but a message into a  *)
(* mailbox (pushMessage, popMessages, sendToUser).                        *)
THEOREM TypeCorrect == Spec => []TypeOK
  BY TypeInvAlways, PTL DEF TypeInv

-----------------------------------------------------------------------------
(* online_users and the device sets *)

\* What a step may do to the two keys: nothing, one login, or one logout.
SessionKeysStep ==
  \/ UNCHANGED <<devices, online>>
  \/ \E u \in Users, g \in Gateways, f \in Fds : userLogin(u, g, f) \/ userLogout(u, g, f)

LEMMA CloseConnKeys ==
  ASSUME NEW g \in Gateways, NEW f \in Fds, CloseConn(g, f)
  PROVE  SessionKeysStep
BY DEF CloseConn, Logout, SessionKeysStep

LEMMA NextKeys ==
  ASSUME TypeOK, [Next]_vars
  PROVE  SessionKeysStep
<1> USE DEF vars, localVars, handlerVars, popVars, history, redisVars
<1>1. CASE UNCHANGED vars
  BY <1>1 DEF SessionKeysStep
<1>2. ASSUME NEW g \in Gateways, ClientStep(g) PROVE SessionKeysStep
  BY <1>2, CloseConnKeys
     DEF ClientStep, Accept, Login, Disconnect, Send, Chat, SessionKeysStep
<1>3. ASSUME NEW g \in Gateways, LoopStep(g) PROVE SessionKeysStep
  <2>1. CASE DeliverFails(g)
    <3>1. PICK e \in pq[g] : CloseConn(g, e.fd)
      BY <2>1 DEF DeliverFails
    <3>2. e.fd \in Fds
      BY <3>1 DEF TypeOK, Entries
    <3> QED BY <3>1, <3>2, CloseConnKeys
  <2>2. CASE ~DeliverFails(g)
    BY <1>3, <2>2 DEF LoopStep, ChatLookup, Route, Return, EndEvents, Deliver, Drain, Pop,
                      PopNil, DrainFails, PopFails, SessionKeysStep
  <2> QED BY <2>1, <2>2
<1>4. ASSUME NEW g \in Gateways, FaultStep(g) PROVE SessionKeysStep
  BY <1>4 DEF FaultStep, Cut, Refuse, Recover, Crash, Restart, DrainReplyLost, PopReplyLost,
              LoginReplyLost, SessionKeysStep
<1> QED BY <1>1, <1>2, <1>3, <1>4 DEF Next

(* The two session keys agree in every reachable state, for any number of  *)
(* gateways logging users in and out, failing and crashing (the scripts of *)
(* userLogin and userLogout).                                              *)
THEOREM OnlineAgrees == Spec => []OnlineMatchesDevices
<1>1. Init => OnlineMatchesDevices
  BY DEF Init, RedisInit, OnlineMatchesDevices
<1>2. TypeOK /\ OnlineMatchesDevices /\ [Next]_vars => OnlineMatchesDevices'
  <2> SUFFICES ASSUME TypeOK, OnlineMatchesDevices, [Next]_vars
               PROVE  OnlineMatchesDevices'
    OBVIOUS
  <2>1. CASE UNCHANGED <<devices, online>>
    BY <2>1 DEF OnlineMatchesDevices
  <2>2. ASSUME NEW u \in Users, NEW g \in Gateways, NEW f \in Fds, userLogin(u, g, f)
        PROVE  OnlineMatchesDevices'
    BY <2>2 DEF userLogin, OnlineMatchesDevices, TypeOK, RedisTypeOK
  <2>3. ASSUME NEW u \in Users, NEW g \in Gateways, NEW f \in Fds, userLogout(u, g, f)
        PROVE  OnlineMatchesDevices'
    <3>1. devices' = [devices EXCEPT ![u] = @ \ {<<g, f>>}]
      BY <2>3 DEF userLogout
    <3>2. devices'[u] = {} <=> devices[u] \subseteq {<<g, f>>}
      BY <3>1 DEF TypeOK, RedisTypeOK
    <3>3. \A v \in Users \ {u} : devices'[v] = devices[v] /\ (v \in online' <=> v \in online)
      BY <2>3, <3>1 DEF userLogout, TypeOK, RedisTypeOK
    <3>4. u \in online' <=> devices'[u] # {}
      BY <2>3, <3>2 DEF userLogout, OnlineMatchesDevices
    <3> QED BY <3>3, <3>4 DEF OnlineMatchesDevices
  <2> QED BY <2>1, <2>2, <2>3, NextKeys DEF SessionKeysStep
<1> QED BY <1>1, <1>2, TypeCorrect, PTL DEF Spec

-----------------------------------------------------------------------------
(* Mailboxes *)

LEMMA LpopQueue ==
  ASSUME TypeOK, NEW u \in Users, lpop(u)
  PROVE  \A v \in Users : queue'[v] # <<>> => queue[v] # <<>>
BY DEF lpop, TypeOK, RedisTypeOK

(* A non-empty mailbox is in pending_msgs, with the gateway that drained it, *)
(* or drained and lost by a fault.  The steps that could break it are those  *)
(* that forget a name: Drain, which overwrites what the gateway held before  *)
(* (LoopConsistent says it held nothing), and PopNil, which lets a name go   *)
(* (its list is empty).                                                      *)
THEOREM QueueIndexed == Spec => []NoStrandedQueue
<1>1. Init => NoStrandedQueue
  BY DEF Init, RedisInit, NoStrandedQueue
<1>2. TypeInv /\ NoStrandedQueue /\ [Next]_vars => NoStrandedQueue'
  <2> SUFFICES ASSUME TypeInv, NoStrandedQueue, [Next]_vars
               PROVE  NoStrandedQueue'
    OBVIOUS
  <2> USE DEF TypeInv, vars, localVars, handlerVars, popVars, history, redisVars
  <2>1. CASE UNCHANGED <<queue, pending, toPop, forgotten>>
    BY <2>1 DEF NoStrandedQueue
  <2>2. ASSUME NEW g \in Gateways, Route(g) PROVE NoStrandedQueue'
    <3>1. PICK r \in route[g] : HandOn(g, r[1], r[2])
      BY <2>2 DEF Route
    <3>2. r[1] \in Users /\ toPop' = toPop /\ forgotten' = forgotten
      BY <2>2, <3>1 DEF TypeOK, Route
    <3>3. UNCHANGED <<queue, pending>> \/ pushMessage(r[1], job[g].msg)
      BY <3>1 DEF HandOn
    <3> QED BY <3>2, <3>3 DEF pushMessage, NoStrandedQueue, TypeOK, RedisTypeOK
  <2>3. ASSUME NEW g \in Gateways, Drain(g) PROVE NoStrandedQueue'
    <3>1. toPop[g] = {}
      BY <2>3 DEF Drain, At, LoopConsistent
    <3>2. queue' = queue /\ forgotten' = forgotten /\ toPop' = [toPop EXCEPT ![g] = pending]
      BY <2>3 DEF Drain, NextName
    <3> QED BY <3>1, <3>2 DEF NoStrandedQueue, TypeOK
  <2>4. ASSUME NEW g \in Gateways, Pop(g) \/ PopReplyLost(g) PROVE NoStrandedQueue'
    <3>1. cur[g] \in Users /\ lpop(cur[g]) /\ UNCHANGED <<pending, toPop, forgotten>>
      BY <2>4 DEF Pop, PopReplyLost, At, LoopConsistent, TypeOK
    <3> QED BY <3>1, LpopQueue DEF NoStrandedQueue
  <2>5. ASSUME NEW g \in Gateways, PopNil(g) PROVE NoStrandedQueue'
    <3>1. /\ queue[cur[g]] = <<>>
          /\ UNCHANGED <<queue, pending>>
          /\ toPop' = [toPop EXCEPT ![g] = @ \ {cur[g]}]
          /\ forgotten' = forgotten \ {cur[g]}
      BY <2>5 DEF PopNil, NextName
    <3> QED BY <3>1 DEF NoStrandedQueue, TypeOK
  <2>6. ASSUME NEW g \in Gateways, PopFails(g) PROVE NoStrandedQueue'
    <3>1. /\ UNCHANGED <<queue, pending>>
          /\ toPop' = [toPop EXCEPT ![g] = @ \ {cur[g]}]
          /\ forgotten' = forgotten \cup {cur[g]}
      BY <2>6 DEF PopFails, NextName
    <3> QED BY <3>1 DEF NoStrandedQueue, TypeOK
  <2>7. ASSUME NEW g \in Gateways, DrainReplyLost(g) PROVE NoStrandedQueue'
    <3>1. queue' = queue /\ toPop' = toPop /\ forgotten' = forgotten \cup pending
      BY <2>7 DEF DrainReplyLost
    <3> QED BY <3>1 DEF NoStrandedQueue
  <2>8. ASSUME NEW g \in Gateways, Crash(g) PROVE NoStrandedQueue'
    <3>1. /\ UNCHANGED <<queue, pending>>
          /\ toPop' = [toPop EXCEPT ![g] = {}]
          /\ forgotten' = forgotten \cup toPop[g]
      BY <2>8 DEF Crash
    <3> QED BY <3>1 DEF NoStrandedQueue, TypeOK
  <2>9. ASSUME NEW g \in Gateways, ClientStep(g) PROVE UNCHANGED <<queue, pending, toPop, forgotten>>
    BY <2>9 DEF ClientStep, Accept, Login, Disconnect, Send, Chat
  <2>10. ASSUME NEW g \in Gateways, LoopStep(g), ~Route(g), ~Drain(g), ~Pop(g), ~PopNil(g), ~PopFails(g)
         PROVE  UNCHANGED <<queue, pending, toPop, forgotten>>
    BY <2>10 DEF LoopStep, ChatLookup, Return, EndEvents, Deliver, DeliverFails, DrainFails
  <2>11. ASSUME NEW g \in Gateways, FaultStep(g), ~DrainReplyLost(g), ~PopReplyLost(g), ~Crash(g)
         PROVE  UNCHANGED <<queue, pending, toPop, forgotten>>
    BY <2>11 DEF FaultStep, Cut, Refuse, Recover, Restart, LoginReplyLost
  <2> QED
    BY <2>1, <2>2, <2>3, <2>4, <2>5, <2>6, <2>7, <2>8, <2>9, <2>10, <2>11 DEF Next
<1> QED BY <1>1, <1>2, TypeInvAlways, PTL DEF Spec

-----------------------------------------------------------------------------
(* Sessions: connections_, user_map_ and the device sets *)

SessionInv == RegistryMirrorsUserMap /\ SessionIsReachable

\* RegistryMirrorsUserMap of one device.
Mirrored(g, u, f) ==
  /\ userMap[g][u][f] > 0 <=> <<g, f>> \in devices[u] /\ <<u, <<g, f>>>> \notin left
  /\ <<u, <<g, f>>>> \in left => <<g, f>> \in devices[u]

LEMMA MirroredEach ==
  /\ RegistryMirrorsUserMap <=> \A g \in Gateways, u \in Users, f \in Fds : Mirrored(g, u, f)
  /\ RegistryMirrorsUserMap' <=> \A g \in Gateways, u \in Users, f \in Fds : Mirrored(g, u, f)'
BY DEF RegistryMirrorsUserMap, Mirrored

sessionVars == <<conn, userMap, devices, left>>

LEMMA CloseConnSession ==
  ASSUME TypeOK, SessionInv, NEW g \in Gateways, NEW f \in Fds, CloseConn(g, f)
  PROVE  SessionInv'
<1> DEFINE u == conn[g][f]
<1>1. conn' = [conn EXCEPT ![g][f] = Closed]
  BY DEF CloseConn
<1>2. CASE u \in Users
  <2>1. \E d \in Fds : userMap[g][u][d] > 0
    BY <1>2 DEF SessionInv, SessionIsReachable
  <2>2. userMap' = [userMap EXCEPT ![g][u][f] = 0] /\ Logout(g, f, u)
    BY <1>2, <2>1 DEF CloseConn, Forget
  <2>3. IF Linked(g) THEN /\ devices' = [devices EXCEPT ![u] = @ \ {<<g, f>>}]
                          /\ left' = left \ {<<u, <<g, f>>>>}
                     ELSE devices' = devices /\ left' = left \cup {<<u, <<g, f>>>>}
    BY <2>2 DEF Logout, userLogout
  <2>4. \A h \in Gateways, v \in Users, d \in Fds :
          /\ userMap'[h][v][d] = IF h = g /\ v = u /\ d = f THEN 0 ELSE userMap[h][v][d]
          /\ conn'[h][d] = IF h = g /\ d = f THEN Closed ELSE conn[h][d]
    BY <1>1, <1>2, <2>2 DEF TypeOK
  <2>5. \A h \in Gateways, v \in Users, d \in Fds :
          <<h, d>> \in devices'[v] <=>
            /\ <<h, d>> \in devices[v]
            /\ ~(Linked(g) /\ h = g /\ d = f /\ v = u)
    BY <1>2, <2>3 DEF TypeOK, RedisTypeOK
  <2>6. \A h \in Gateways, v \in Users, d \in Fds :
          <<v, <<h, d>>>> \in left' <=>
            IF h = g /\ d = f /\ v = u THEN ~Linked(g) ELSE <<v, <<h, d>>>> \in left
    BY <1>2, <2>3
  <2>7. userMap[g][u][f] > 0
    BY <1>2 DEF SessionInv, SessionIsReachable
  <2>8. RegistryMirrorsUserMap'
    <3> SUFFICES ASSUME NEW h \in Gateways, NEW v \in Users, NEW d \in Fds PROVE Mirrored(h, v, d)'
      BY MirroredEach
    <3>1. Mirrored(h, v, d)
      BY MirroredEach DEF SessionInv
    <3> QED BY <3>1, <2>4, <2>5, <2>6, <2>7 DEF Mirrored
  <2>9. SessionIsReachable'
    BY <2>4, <2>5, DistinctAssumption DEF SessionInv, SessionIsReachable
  <2> QED BY <2>8, <2>9 DEF SessionInv
<1>3. CASE u \notin Users
  <2>1. UNCHANGED <<userMap, devices, left>>
    BY <1>3 DEF CloseConn
  <2>2. \A h \in Gateways, d \in Fds :
          conn'[h][d] = IF h = g /\ d = f THEN Closed ELSE conn[h][d]
    BY <1>1 DEF TypeOK
  <2>3. RegistryMirrorsUserMap'
    BY <2>1 DEF SessionInv, RegistryMirrorsUserMap
  <2>4. SessionIsReachable'
    BY <2>1, <2>2, DistinctAssumption DEF SessionInv, SessionIsReachable
  <2> QED BY <2>3, <2>4 DEF SessionInv
<1> QED BY <1>2, <1>3

LEMMA LoginSession ==
  ASSUME TypeOK, SessionInv, NEW g \in Gateways, NEW f \in Fds, NEW u \in Users, Login(g, f, u)
  PROVE  SessionInv'
<1>1. /\ devices' = [devices EXCEPT ![u] = @ \cup {<<g, f>>}]
      /\ conn' = [conn EXCEPT ![g][f] = u]
      /\ userMap' = [userMap EXCEPT ![g][u][f] = @ + 1]
      /\ left' = left \ {<<u, <<g, f>>>>}
  BY DEF Login, userLogin
<1>2. \A h \in Gateways, v \in Users, d \in Fds :
        /\ userMap'[h][v][d] = IF h = g /\ v = u /\ d = f THEN userMap[g][u][f] + 1
                               ELSE userMap[h][v][d]
        /\ userMap[h][v][d] \in Nat
        /\ conn'[h][d] = IF h = g /\ d = f THEN u ELSE conn[h][d]
        /\ <<h, d>> \in devices'[v] <=> <<h, d>> \in devices[v] \/ (h = g /\ d = f /\ v = u)
        /\ <<v, <<h, d>>>> \in left' <=> <<v, <<h, d>>>> \in left /\ ~(h = g /\ d = f /\ v = u)
  BY <1>1 DEF TypeOK, RedisTypeOK
<1>a. \A h \in Gateways, v \in Users, d \in Fds :
        ~(h = g /\ d = f) => userMap'[h][v][d] = userMap[h][v][d]
  BY <1>1 DEF TypeOK
<1>3. RegistryMirrorsUserMap'
  <2> SUFFICES ASSUME NEW h \in Gateways, NEW v \in Users, NEW d \in Fds PROVE Mirrored(h, v, d)'
    BY MirroredEach
  <2>1. Mirrored(h, v, d)
    BY MirroredEach DEF SessionInv
  <2> QED BY <2>1, <1>2 DEF Mirrored
<1>4. ASSUME NEW h \in Gateways, NEW d \in Fds, conn'[h][d] \in Users
      PROVE  userMap'[h][conn'[h][d]][d] > 0 /\ <<h, d>> \in devices'[conn'[h][d]]
  <2>1. CASE h = g /\ d = f
    <3>1. conn'[h][d] = u
      BY <1>2, <2>1
    <3>2. userMap'[h][u][d] = userMap[g][u][f] + 1 /\ userMap[g][u][f] \in Nat
      BY <1>2, <2>1
    <3>3. <<h, d>> \in devices'[u]
      BY <1>2, <2>1
    <3> QED BY <3>1, <3>2, <3>3
  <2>2. CASE ~(h = g /\ d = f)
    <3>1. conn'[h][d] = conn[h][d] /\ conn[h][d] \in Users
      BY <1>2, <1>4, <2>2
    <3>2. userMap[h][conn[h][d]][d] > 0 /\ <<h, d>> \in devices[conn[h][d]]
      BY <3>1 DEF SessionInv, SessionIsReachable
    <3>3. userMap'[h][conn[h][d]][d] = userMap[h][conn[h][d]][d]
      BY <1>a, <2>2, <3>1
    <3>4. <<h, d>> \in devices'[conn[h][d]]
      BY <1>2, <2>2, <3>1, <3>2
    <3> QED BY <3>1, <3>2, <3>3, <3>4
  <2> QED BY <2>1, <2>2
<1>5. SessionIsReachable'
  BY <1>4 DEF SessionIsReachable
<1> QED BY <1>3, <1>5 DEF SessionInv

LEMMA SessionStep == TypeOK /\ SessionInv /\ [Next]_vars => SessionInv'
<1> SUFFICES ASSUME TypeOK, SessionInv, [Next]_vars PROVE SessionInv'
  OBVIOUS
<1> USE DEF vars, localVars, handlerVars, popVars, history, redisVars
<1>1. CASE UNCHANGED sessionVars
  BY <1>1 DEF sessionVars, SessionInv, RegistryMirrorsUserMap, SessionIsReachable
<1>2. ASSUME NEW g \in Gateways, NEW f \in Fds, Accept(g, f) PROVE SessionInv'
  <2>1. UNCHANGED <<userMap, devices, left>> /\ conn' = [conn EXCEPT ![g][f] = NoUser]
    BY <1>2 DEF Accept
  <2>2. RegistryMirrorsUserMap'
    BY <2>1 DEF SessionInv, RegistryMirrorsUserMap
  <2>3. SessionIsReachable'
    BY <2>1, DistinctAssumption DEF SessionInv, SessionIsReachable, TypeOK
  <2> QED BY <2>2, <2>3 DEF SessionInv
<1>3. ASSUME NEW g \in Gateways, NEW f \in Fds, Disconnect(g, f) PROVE SessionInv'
  BY <1>3, CloseConnSession DEF Disconnect
<1>4. ASSUME NEW g \in Gateways, DeliverFails(g) PROVE SessionInv'
  <2>1. PICK e \in pq[g] : CloseConn(g, e.fd)
    BY <1>4 DEF DeliverFails
  <2>2. e.fd \in Fds
    BY <1>4, <2>1 DEF TypeOK, Entries, DeliverFails
  <2> QED BY <2>1, <2>2, CloseConnSession
<1>5. ASSUME NEW g \in Gateways,
             Cut(g) \/ Refuse(g) \/ Recover(g) \/ Restart(g) \/ DrainReplyLost(g) \/ PopReplyLost(g)
      PROVE  UNCHANGED sessionVars
  BY <1>5 DEF Cut, Refuse, Recover, Restart, DrainReplyLost, PopReplyLost, sessionVars
<1>6. ASSUME NEW g \in Gateways, NEW f \in Fds, NEW u \in Users, LoginReplyLost(g, f, u)
      PROVE  SessionInv'
  <2>1. /\ UNCHANGED <<conn, userMap>>
        /\ devices' = [devices EXCEPT ![u] = @ \cup {<<g, f>>}]
        /\ left' = IF userMap[g][u][f] = 0 THEN left \cup {<<u, <<g, f>>>>} ELSE left
    BY <1>6 DEF LoginReplyLost, userLogin
  <2>2. \A h \in Gateways, v \in Users, d \in Fds :
          /\ <<h, d>> \in devices'[v] <=> <<h, d>> \in devices[v] \/ (h = g /\ d = f /\ v = u)
          /\ <<v, <<h, d>>>> \in left' <=>
               <<v, <<h, d>>>> \in left \/ (h = g /\ d = f /\ v = u /\ userMap[g][u][f] = 0)
          /\ userMap[h][v][d] \in Nat
    BY <2>1 DEF TypeOK, RedisTypeOK
  <2>3. RegistryMirrorsUserMap'
    <3> SUFFICES ASSUME NEW h \in Gateways, NEW v \in Users, NEW d \in Fds PROVE Mirrored(h, v, d)'
      BY MirroredEach
    <3>1. Mirrored(h, v, d)
      BY MirroredEach DEF SessionInv
    <3> QED BY <3>1, <2>1, <2>2 DEF Mirrored
  <2>4. SessionIsReachable'
    BY <2>1, <2>2 DEF SessionInv, SessionIsReachable
  <2> QED BY <2>3, <2>4 DEF SessionInv
<1>7. ASSUME NEW g \in Gateways, Crash(g) PROVE SessionInv'
  <2>1. /\ devices' = devices
        /\ conn' = [conn EXCEPT ![g] = [f \in Fds |-> Closed]]
        /\ userMap' = [userMap EXCEPT ![g] = [u \in Users |-> [f \in Fds |-> 0]]]
        /\ left' = left \cup {d \in Users \X Devices :
                                d[2][1] = g /\ userMap[g][d[1]][d[2][2]] > 0}
    BY <1>7 DEF Crash
  <2>2. \A h \in Gateways, d \in Fds : conn'[h][d] = IF h = g THEN Closed ELSE conn[h][d]
    BY <2>1 DEF TypeOK
  <2>3. \A h \in Gateways, v \in Users, d \in Fds :
          userMap'[h][v][d] = IF h = g THEN 0 ELSE userMap[h][v][d]
    BY <2>1 DEF TypeOK
  <2>4. \A h \in Gateways, v \in Users, d \in Fds :
          <<v, <<h, d>>>> \in left' <=> <<v, <<h, d>>>> \in left \/ (h = g /\ userMap[g][v][d] > 0)
    BY <2>1 DEF Devices
  <2>5. RegistryMirrorsUserMap'
    <3> SUFFICES ASSUME NEW h \in Gateways, NEW v \in Users, NEW d \in Fds PROVE Mirrored(h, v, d)'
      BY MirroredEach
    <3>1. Mirrored(h, v, d)
      BY MirroredEach DEF SessionInv
    <3> QED BY <3>1, <2>1, <2>3, <2>4 DEF Mirrored
  <2>6. SessionIsReachable'
    BY <2>1, <2>2, <2>3, DistinctAssumption DEF SessionInv, SessionIsReachable
  <2> QED BY <2>5, <2>6 DEF SessionInv
<1>8. ASSUME NEW g \in Gateways, ClientStep(g),
             \A f \in Fds : ~Accept(g, f) /\ ~Disconnect(g, f) /\ \A u \in Users : ~Login(g, f, u)
      PROVE  UNCHANGED sessionVars
  BY <1>8 DEF ClientStep, Send, Chat, sessionVars
<1>9. ASSUME NEW g \in Gateways, LoopStep(g), ~DeliverFails(g) PROVE UNCHANGED sessionVars
  BY <1>9 DEF LoopStep, ChatLookup, Route, Return, EndEvents, Deliver, Drain, Pop, PopNil,
              DrainFails, PopFails, sessionVars
<1> QED
  BY <1>1, <1>2, <1>3, <1>4, <1>5, <1>6, <1>7, <1>8, <1>9, LoginSession DEF Next, FaultStep, sessionVars

LEMMA SessionAlways == Spec => []SessionInv
<1>1. Init => SessionInv
  BY DistinctAssumption
     DEF Init, RedisInit, SessionInv, RegistryMirrorsUserMap, SessionIsReachable
<1> QED BY <1>1, SessionStep, TypeCorrect, PTL DEF Spec

(* A gateway's user_map_ lists exactly the devices Redis has of it, but for *)
(* those it left behind by dying, by a logout Redis did not carry out, or   *)
(* by a login whose answer it did not hear.  Needs that a logged-in         *)
(* connection is listed under its name, so that disconnectClient always     *)
(* reaches its clean-up.                                                    *)
THEOREM RegistryMirrored == Spec => []RegistryMirrorsUserMap
  BY SessionAlways, PTL DEF SessionInv

(* A logged-in connection can be reached through user_map_ and Redis. *)
THEOREM SessionsReachable == Spec => []SessionIsReachable
  BY SessionAlways, PTL DEF SessionInv

-----------------------------------------------------------------------------
(* Where a message is *)

\* A handler still has to hand m to u; m waits in u's mailbox; gateway g has
\* queued m for u or written it to a connection.
Owed(g, m, u) == job[g].msg = m /\ (pc[g] = "lookup" \/ \E r \in route[g] : r[1] = u)
InQueue(m, u) == \E i \in 1 .. Len(queue[u]) : queue[u][i] = m
AtGateway(g, m, u) ==
  \/ \E e \in pq[g] : e.msg = m /\ e.to = u
  \/ \E d \in delivered : d.msg = m /\ d.to = u /\ d.gw = g

\* Every request is handled by one gateway; a handler serves a user once; a
\* mailbox holds a message once.
JobOnce ==
  \A g, h \in Gateways :
    job[g].msg \in Msgs => job[g].msg \in sent /\ (job[g].msg = job[h].msg => g = h)
RouteOnce == \A g \in Gateways : \A r, s \in route[g] : r[1] = s[1] => r = s
QueueOnce ==
  \A u \in Users : \A i, j \in 1 .. Len(queue[u]) : queue[u][i] = queue[u][j] => i = j

\* For one message and one user: owed, waiting, and with a gateway exclude
\* each other, and only one gateway ever has it.
Apart(m, u) ==
  /\ InQueue(m, u) => m \in sent
  /\ \A g \in Gateways : AtGateway(g, m, u) => m \in sent /\ ~InQueue(m, u)
  /\ \A g \in Gateways : Owed(g, m, u) =>
       ~InQueue(m, u) /\ \A h \in Gateways : ~AtGateway(h, m, u)
  /\ \A g, h \in Gateways : AtGateway(g, m, u) /\ AtGateway(h, m, u) => g = h

HolderInv ==
  /\ JobOnce /\ RouteOnce /\ QueueOnce
  /\ \A m \in Msgs, u \in Users : Apart(m, u)

\* A step after which m is in no new place for u keeps it apart.
LEMMA StaysApart ==
  ASSUME NEW m, NEW u, Apart(m, u), sent \subseteq sent',
         InQueue(m, u)' => InQueue(m, u),
         \A g \in Gateways : Owed(g, m, u)' => Owed(g, m, u),
         \A g \in Gateways : AtGateway(g, m, u)' => AtGateway(g, m, u)
  PROVE  Apart(m, u)'
BY DEF Apart

\* Steps that move no message, or lose some: queues and routes only shrink,
\* requests end, and nobody enters the "chat" handler's lookup.
LEMMA ShrinkStep ==
  ASSUME TypeOK, HolderInv, sent' = sent,
         \A g \in Gateways :
           /\ job'[g] = job[g] \/ (job'[g] = NoJob /\ pc'[g] # "lookup")
           /\ pc'[g] = "lookup" => pc[g] = "lookup"
           /\ route'[g] \subseteq route[g]
           /\ \A m \in Msgs, u \in Users : AtGateway(g, m, u)' => AtGateway(g, m, u),
         queue' = queue \/ \E u \in Users : lpop(u)
  PROVE  HolderInv'
<1>1. RouteOnce'
  BY DEF HolderInv, RouteOnce
<1>2. JobOnce'
  <2> SUFFICES ASSUME NEW g \in Gateways, NEW h \in Gateways, job'[g].msg \in Msgs
               PROVE  job'[g].msg \in sent' /\ (job'[g].msg = job'[h].msg => g = h)
    BY DEF JobOnce
  <2>1. NoJob.msg \notin Msgs
    BY DistinctAssumption DEF NoJob
  <2>2. job'[g] = job[g]
    BY <2>1
  <2>3. job'[h].msg = job'[g].msg => job'[h] = job[h]
    BY <2>1
  <2> QED BY <2>2, <2>3 DEF HolderInv, JobOnce
<1>3. QueueOnce' /\ \A m \in Msgs, u \in Users : InQueue(m, u)' => InQueue(m, u)
  <2>1. CASE queue' = queue
    BY <2>1 DEF HolderInv, QueueOnce, InQueue
  <2>2. ASSUME NEW v \in Users, lpop(v)
        PROVE  QueueOnce' /\ \A m \in Msgs, u \in Users : InQueue(m, u)' => InQueue(m, u)
    <3>1. queue[v] \in Seq(Msgs) /\ queue[v] # <<>> /\ queue' = [queue EXCEPT ![v] = Tail(@)]
      BY <2>2 DEF lpop, TypeOK, RedisTypeOK
    <3>2. /\ Len(queue'[v]) = Len(queue[v]) - 1
          /\ \A i \in 1 .. Len(queue'[v]) : queue'[v][i] = queue[v][i + 1]
      BY <3>1, HeadTailProperties DEF TypeOK, RedisTypeOK
    <3>3. \A u \in Users \ {v} : queue'[u] = queue[u]
      BY <3>1 DEF TypeOK, RedisTypeOK
    <3>4. Len(queue[v]) \in Nat
      BY <3>1
    <3>5. QueueOnce'
      <4> SUFFICES ASSUME NEW u \in Users, NEW i \in 1 .. Len(queue'[u]), NEW j \in 1 .. Len(queue'[u]),
                          queue'[u][i] = queue'[u][j]
                   PROVE  i = j
        BY DEF QueueOnce
      <4>1. CASE u = v
        <5>1. i + 1 \in 1 .. Len(queue[v]) /\ j + 1 \in 1 .. Len(queue[v])
          BY <3>2, <3>4, <4>1
        <5>2. queue[v][i + 1] = queue[v][j + 1]
          BY <3>2, <4>1
        <5>3. i + 1 = j + 1
          BY <5>1, <5>2 DEF HolderInv, QueueOnce
        <5> QED BY <5>3
      <4>2. CASE u # v
        BY <3>3, <4>2 DEF HolderInv, QueueOnce
      <4> QED BY <4>1, <4>2
    <3>6. \A m \in Msgs, u \in Users : InQueue(m, u)' => InQueue(m, u)
      BY <3>2, <3>3, <3>4 DEF InQueue
    <3> QED BY <3>5, <3>6
  <2> QED BY <2>1, <2>2
<1>4. \A m \in Msgs, u \in Users : Apart(m, u)'
  <2> SUFFICES ASSUME NEW m \in Msgs, NEW u \in Users PROVE Apart(m, u)'
    OBVIOUS
  <2>1. \A g \in Gateways : Owed(g, m, u)' => Owed(g, m, u)
    BY DistinctAssumption DEF Owed, NoJob
  <2> QED BY <1>3, <2>1, StaysApart DEF HolderInv
<1> QED BY <1>1, <1>2, <1>3, <1>4 DEF HolderInv

\* A handler starts with a message nobody has seen.
LEMMA AskStep ==
  ASSUME TypeOK, HolderInv, NEW g \in Gateways, NEW m \in Msgs, NEW who, m \notin sent,
         sent' = sent \cup {m},
         job' = [job EXCEPT ![g] = [msg |-> m, from |-> who]],
         UNCHANGED <<queue, pq, delivered>>,
         \A h \in Gateways \ {g} : pc'[h] = pc[h] /\ route'[h] = route[h],
         RouteOnce'
  PROVE  HolderInv'
<1>1. /\ job'[g].msg = m
      /\ \A h \in Gateways \ {g} : job'[h] = job[h]
  BY DEF TypeOK
<1>2. JobOnce'
  <2>1. \A h \in Gateways : job[h].msg # m
    BY DEF HolderInv, JobOnce
  <2> QED BY <1>1, <2>1 DEF HolderInv, JobOnce
<1>3. QueueOnce'
  BY DEF HolderInv, QueueOnce
<1>4. ASSUME NEW n \in Msgs, NEW u \in Users PROVE Apart(n, u)'
  <2>1. /\ InQueue(n, u)' <=> InQueue(n, u)
        /\ \A h \in Gateways : AtGateway(h, n, u)' <=> AtGateway(h, n, u)
    BY DEF InQueue, AtGateway
  <2>2. Apart(n, u)
    BY DEF HolderInv
  <2>3. CASE n = m
    <3>1. ~InQueue(n, u)' /\ \A h \in Gateways : ~AtGateway(h, n, u)'
      BY <2>1, <2>2, <2>3 DEF Apart
    <3> QED BY <3>1 DEF Apart
  <2>4. CASE n # m
    <3>1. \A h \in Gateways : Owed(h, n, u)' => Owed(h, n, u)
      BY <1>1, <2>4 DEF Owed
    <3> QED BY <2>1, <2>2, <3>1, StaysApart
  <2> QED BY <2>3, <2>4
<1> QED BY <1>2, <1>3, <1>4 DEF HolderInv

\* The message of the handler passes to the mailbox of one of its users, to
\* the queue of its own gateway, or is dropped.
LEMMA RouteStep ==
  ASSUME TypeInv, HolderInv, NEW g \in Gateways, Route(g)
  PROVE  HolderInv'
<1>1. PICK r \in route[g] : HandOn(g, r[1], r[2]) /\ route' = [route EXCEPT ![g] = @ \ {r}]
  BY DEF Route
<1>a. /\ r[1] \in Users /\ job[g].msg \in Msgs /\ pc[g] = "route"
      /\ UNCHANGED <<job, pc, sent, delivered>>
  BY <1>1 DEF TypeInv, TypeOK, LoopConsistent, Route, At, handlerVars, history
<1>b. PICK m \in Msgs, u \in Users : m = job[g].msg /\ u = r[1]
  BY <1>a
<1>2. /\ m = job[g].msg /\ u = r[1] /\ pc[g] = "route"
      /\ UNCHANGED <<job, pc, sent, delivered>>
  BY <1>a, <1>b
<1>3. \A h \in Gateways : route'[h] = IF h = g THEN route[g] \ {r} ELSE route[h]
  BY <1>1 DEF TypeInv, TypeOK
<1>4. JobOnce' /\ RouteOnce'
  BY <1>2, <1>3 DEF HolderInv, JobOnce, RouteOnce
<1>5. \A h \in Gateways, n \in Msgs, v \in Users : Owed(h, n, v)' => Owed(h, n, v)
  BY <1>2, <1>3 DEF Owed
<1>6. Owed(g, m, u) /\ \A h \in Gateways : ~Owed(h, m, u)'
  <2>1. Owed(g, m, u)
    BY <1>1, <1>2 DEF Owed
  <2>2. \A s \in route'[g] : s[1] # u
    BY <1>1, <1>2, <1>3 DEF HolderInv, RouteOnce
  <2>3. \A h \in Gateways : job'[h].msg = m => h = g
    BY <1>2 DEF HolderInv, JobOnce
  <2> QED BY <1>2, <2>1, <2>2, <2>3 DEF Owed
<1>7. m \in sent /\ ~InQueue(m, u) /\ \A h \in Gateways : ~AtGateway(h, m, u)
  BY <1>2, <1>6 DEF HolderInv, Apart, JobOnce
<1> DEFINE ElsewhereSame ==
      \A n \in Msgs, v \in Users : ~(n = m /\ v = u) =>
        /\ InQueue(n, v)' => InQueue(n, v)
        /\ \A h \in Gateways : AtGateway(h, n, v)' => AtGateway(h, n, v)
<1>8. ASSUME ElsewhereSame, QueueOnce', Apart(m, u)' PROVE HolderInv'
  <2>1. ASSUME NEW n \in Msgs, NEW v \in Users, ~(n = m /\ v = u) PROVE Apart(n, v)'
    <3>1. Apart(n, v) /\ sent \subseteq sent'
      BY <1>2 DEF HolderInv
    <3>2. InQueue(n, v)' => InQueue(n, v)
      BY <1>8, <2>1
    <3>3. \A h \in Gateways : AtGateway(h, n, v)' => AtGateway(h, n, v)
      BY <1>8, <2>1
    <3>4. \A h \in Gateways : Owed(h, n, v)' => Owed(h, n, v)
      BY <1>5
    <3> QED BY <3>1, <3>2, <3>3, <3>4, StaysApart
  <2>2. \A n \in Msgs, v \in Users : Apart(n, v)'
    BY <1>8, <2>1
  <2> QED BY <1>4, <1>8, <2>2 DEF HolderInv
<1>9. CASE UNCHANGED <<queue, pq>>
  <2>1. QueueOnce' /\ \A n \in Msgs, v \in Users : InQueue(n, v)' <=> InQueue(n, v)
    BY <1>9 DEF HolderInv, QueueOnce, InQueue
  <2>2. \A n \in Msgs, v \in Users, h \in Gateways : AtGateway(h, n, v)' <=> AtGateway(h, n, v)
    BY <1>2, <1>9 DEF AtGateway
  <2>3. Apart(m, u)'
    BY <1>2, <1>6, <1>7, <2>1, <2>2 DEF Apart
  <2> QED BY <1>8, <2>1, <2>2, <2>3
<1>10. CASE queue' = queue /\ sendToUser(g, u, m)
  <2>1. QueueOnce' /\ \A n \in Msgs, v \in Users : InQueue(n, v)' <=> InQueue(n, v)
    BY <1>10 DEF HolderInv, QueueOnce, InQueue
  <2>2. \A h \in Gateways : \A e \in pq'[h] : e \in pq[h] \/ (h = g /\ e.msg = m /\ e.to = u)
    BY <1>10 DEF sendToUser, TypeInv, TypeOK
  <2>3. \A n \in Msgs, v \in Users, h \in Gateways :
          AtGateway(h, n, v)' => AtGateway(h, n, v) \/ (h = g /\ n = m /\ v = u)
    BY <1>2, <2>2 DEF AtGateway
  <2>4. Apart(m, u)'
    <3>1. \A h \in Gateways : AtGateway(h, m, u)' => h = g
      BY <1>2, <1>7, <2>3
    <3>2. ~InQueue(m, u)' /\ m \in sent'
      BY <1>2, <1>7, <2>1
    <3> QED BY <1>6, <3>1, <3>2 DEF Apart
  <2> QED BY <1>8, <2>1, <2>3, <2>4
<1>11. CASE pq' = pq /\ pushMessage(u, m)
  <2>1. \A n \in Msgs, v \in Users, h \in Gateways : AtGateway(h, n, v)' <=> AtGateway(h, n, v)
    BY <1>2, <1>11 DEF AtGateway
  <2>2. queue[u] \in Seq(Msgs) /\ queue'[u] = Append(queue[u], m) /\ Len(queue[u]) \in Nat
    BY <1>2, <1>11 DEF pushMessage, TypeInv, TypeOK, RedisTypeOK
  <2>3. \A v \in Users \ {u} : queue'[v] = queue[v]
    BY <1>11 DEF pushMessage, TypeInv, TypeOK, RedisTypeOK
  <2>4. /\ Len(queue'[u]) = Len(queue[u]) + 1
        /\ \A i \in 1 .. Len(queue'[u]) :
             queue'[u][i] = IF i = Len(queue[u]) + 1 THEN m ELSE queue[u][i]
    BY <2>2
  <2>5. \A i \in 1 .. Len(queue[u]) : queue[u][i] # m
    BY <1>7 DEF InQueue
  <2>6. QueueOnce'
    <3> SUFFICES ASSUME NEW v \in Users, NEW i \in 1 .. Len(queue'[v]), NEW j \in 1 .. Len(queue'[v]),
                        queue'[v][i] = queue'[v][j]
                 PROVE  i = j
      BY DEF QueueOnce
    <3>1. CASE v = u
      <4>1. i \in 1 .. Len(queue[u]) \/ i = Len(queue[u]) + 1
        BY <2>2, <2>4, <3>1
      <4>2. j \in 1 .. Len(queue[u]) \/ j = Len(queue[u]) + 1
        BY <2>2, <2>4, <3>1
      <4>3. CASE i \in 1 .. Len(queue[u]) /\ j \in 1 .. Len(queue[u])
        <5>1. queue[u][i] = queue[u][j]
          BY <2>2, <2>4, <3>1, <4>3
        <5> QED BY <1>2, <4>3, <5>1 DEF HolderInv, QueueOnce
      <4>4. CASE i = Len(queue[u]) + 1 \/ j = Len(queue[u]) + 1
        BY <2>2, <2>4, <2>5, <3>1, <4>1, <4>2, <4>4
      <4> QED BY <4>1, <4>2, <4>3, <4>4
    <3>2. CASE v # u
      BY <2>3, <3>2 DEF HolderInv, QueueOnce
    <3> QED BY <3>1, <3>2
  <2>7. ASSUME NEW n \in Msgs, NEW v \in Users, InQueue(n, v)', ~(n = m /\ v = u)
        PROVE  InQueue(n, v)
    <3>1. PICK i \in 1 .. Len(queue'[v]) : queue'[v][i] = n
      BY <2>7 DEF InQueue
    <3>2. CASE v = u
      <4>1. i \in 1 .. Len(queue[u]) /\ queue[u][i] = n
        BY <2>2, <2>4, <2>7, <3>1, <3>2
      <4> QED BY <3>2, <4>1 DEF InQueue
    <3>3. CASE v # u
      BY <2>3, <3>1, <3>3 DEF InQueue
    <3> QED BY <3>2, <3>3
  <2>8. Apart(m, u)'
    BY <1>2, <1>6, <1>7, <2>1 DEF Apart
  <2> QED BY <1>8, <2>1, <2>6, <2>7, <2>8
<1> QED
  BY <1>1, <1>2, <1>9, <1>10, <1>11 DEF HandOn, sendToUser, pushMessage

\* LPOP moves the head of the mailbox to the queue of the gateway, or loses it.
LEMMA PopStep ==
  ASSUME TypeInv, HolderInv, NEW g \in Gateways, Pop(g)
  PROVE  HolderInv'
<1>1. PICK u \in Users : u = cur[g]
  BY DEF Pop, At, TypeInv, TypeOK, LoopConsistent
<1>2. PICK m \in Msgs : m = Head(queue[u])
  BY <1>1, LpopType DEF Pop, TypeInv
<1>3. /\ queue[u] \in Seq(Msgs) /\ queue[u] # <<>>
      /\ queue' = [queue EXCEPT ![u] = Tail(@)]
      /\ UNCHANGED <<job, pc, route, sent, delivered>>
  BY <1>1 DEF Pop, lpop, TypeInv, TypeOK, RedisTypeOK, handlerVars, history
<1>4. \A h \in Gateways : \A e \in pq'[h] : e \in pq[h] \/ (h = g /\ e.msg = m /\ e.to = u)
  BY <1>1, <1>2 DEF Pop, sendToUser, TypeInv, TypeOK
<1>5. /\ Len(queue[u]) \in Nat \ {0} /\ queue[u][1] = m
      /\ Len(queue'[u]) = Len(queue[u]) - 1
      /\ \A i \in 1 .. Len(queue'[u]) : queue'[u][i] = queue[u][i + 1]
      /\ \A v \in Users \ {u} : queue'[v] = queue[v]
  BY <1>2, <1>3, HeadTailProperties DEF TypeInv, TypeOK, RedisTypeOK
<1>6. InQueue(m, u) /\ ~InQueue(m, u)'
  <2>1. 1 \in 1 .. Len(queue[u])
    BY <1>5
  <2>2. ASSUME NEW i \in 1 .. Len(queue'[u]) PROVE queue'[u][i] # m
    <3>1. i + 1 \in 1 .. Len(queue[u]) /\ i + 1 # 1
      BY <1>5
    <3> QED BY <1>5, <2>1, <3>1 DEF HolderInv, QueueOnce
  <2> QED BY <1>5, <2>1, <2>2 DEF InQueue
<1>7. QueueOnce'
  <2> SUFFICES ASSUME NEW v \in Users, NEW i \in 1 .. Len(queue'[v]), NEW j \in 1 .. Len(queue'[v]),
                      queue'[v][i] = queue'[v][j]
               PROVE  i = j
    BY DEF QueueOnce
  <2>1. CASE v = u
    <3>1. i + 1 \in 1 .. Len(queue[u]) /\ j + 1 \in 1 .. Len(queue[u])
      BY <1>5, <2>1
    <3>2. i + 1 = j + 1
      BY <1>5, <2>1, <3>1, SMTT(30) DEF HolderInv, QueueOnce
    <3> QED BY <3>2
  <2>2. CASE v # u
    BY <1>5, <2>2 DEF HolderInv, QueueOnce
  <2> QED BY <2>1, <2>2
<1>8. JobOnce' /\ RouteOnce'
  BY <1>3 DEF HolderInv, JobOnce, RouteOnce
<1>9. ASSUME NEW n \in Msgs, NEW v \in Users PROVE Apart(n, v)'
  <2>1. \A h \in Gateways : Owed(h, n, v)' <=> Owed(h, n, v)
    BY <1>3 DEF Owed
  <2>2. \A h \in Gateways : AtGateway(h, n, v)' => AtGateway(h, n, v) \/ (h = g /\ n = m /\ v = u)
    BY <1>3, <1>4 DEF AtGateway
  <2>3. Apart(n, v) /\ sent' = sent
    BY <1>3 DEF HolderInv
  <2>4. CASE n = m /\ v = u
    <3>1. n \in sent /\ \A h \in Gateways : ~Owed(h, n, v) /\ ~AtGateway(h, n, v)
      BY <1>6, <2>3, <2>4 DEF Apart
    <3>2. \A h \in Gateways : AtGateway(h, n, v)' => h = g
      BY <2>2, <3>1
    <3>3. ~InQueue(n, v)'
      BY <1>6, <2>4
    <3> QED BY <2>1, <2>3, <3>1, <3>2, <3>3 DEF Apart
  <2>5. CASE ~(n = m /\ v = u)
    <3>1. InQueue(n, v)' => InQueue(n, v)
      BY <1>5 DEF InQueue
    <3>2. \A h \in Gateways : AtGateway(h, n, v)' => AtGateway(h, n, v)
      BY <2>2, <2>5
    <3>3. (\A h \in Gateways : Owed(h, n, v)' => Owed(h, n, v)) /\ sent \subseteq sent'
      BY <2>1, <2>3
    <3> QED BY <2>3, <3>1, <3>2, <3>3, StaysApart
  <2> QED BY <2>4, <2>5
<1> QED BY <1>7, <1>8, <1>9 DEF HolderInv

\* The "chat" handler turns the users it owes the message to into a route.
LEMMA LookupStep ==
  ASSUME TypeInv, HolderInv, NEW g \in Gateways, ChatLookup(g)
  PROVE  HolderInv'
<1>1. PICK answer \in [names[g] -> Gateways \cup {NoGateway}] :
        route' = [route EXCEPT ![g] = {<<u, answer[u]>> : u \in names[g] \ {job[g].from}}]
  BY DEF ChatLookup
<1>2. /\ pc[g] = "lookup" /\ pc' = [pc EXCEPT ![g] = "route"]
      /\ UNCHANGED <<queue, pq, job, sent, delivered>>
  BY DEF ChatLookup, At, redisVars, localVars, history
<1>3. RouteOnce'
  <2>1. route \in [Gateways -> SUBSET (Users \X (Gateways \cup {NoGateway}))]
    BY DEF TypeInv, TypeOK
  <2>2. /\ route'[g] = {<<u, answer[u]>> : u \in names[g] \ {job[g].from}}
        /\ \A h \in Gateways \ {g} : route'[h] = route[h]
    BY <1>1, <2>1
  <2>3. \A r \in route'[g] : r = <<r[1], answer[r[1]]>>
    BY <2>2
  <2> QED BY <2>2, <2>3 DEF HolderInv, RouteOnce
<1>4. JobOnce' /\ QueueOnce'
  BY <1>2 DEF HolderInv, JobOnce, QueueOnce
<1>5. ASSUME NEW m \in Msgs, NEW u \in Users PROVE Apart(m, u)'
  <2>1. \A h \in Gateways : Owed(h, m, u)' => Owed(h, m, u)
    BY <1>1, <1>2 DEF Owed, TypeInv, TypeOK
  <2>2. InQueue(m, u)' => InQueue(m, u)
    BY <1>2 DEF InQueue
  <2>3. \A h \in Gateways : AtGateway(h, m, u)' => AtGateway(h, m, u)
    BY <1>2 DEF AtGateway
  <2> QED BY <1>2, <2>1, <2>2, <2>3, StaysApart DEF HolderInv
<1> QED BY <1>3, <1>4, <1>5 DEF HolderInv

\* sendToClient moves an entry of the queue to a connection, or drops it.
LEMMA DeliverStep ==
  ASSUME TypeInv, HolderInv, NEW g \in Gateways, Deliver(g) \/ DeliverFails(g)
  PROVE  HolderInv'
<1>1. PICK e \in pq[g] : /\ pq' = [pq EXCEPT ![g] = @ \ {e}]
                         /\ \A d \in delivered' :
                              d \in delivered \/ (d.msg = e.msg /\ d.to = e.to /\ d.gw = g)
  BY DEF Deliver, DeliverFails, history
<1>2. \A h \in Gateways, m \in Msgs, u \in Users : AtGateway(h, m, u)' => AtGateway(h, m, u)
  BY <1>1 DEF AtGateway, TypeInv, TypeOK
<1>3. UNCHANGED <<job, pc, route, sent, queue>>
  BY DEF Deliver, DeliverFails, redisVars, handlerVars, history
<1> QED BY <1>2, <1>3, ShrinkStep DEF TypeInv

LEMMA HolderStep == TypeInv /\ HolderInv /\ [Next]_vars => HolderInv'
<1> SUFFICES ASSUME TypeInv, HolderInv, [Next]_vars PROVE HolderInv'
  OBVIOUS
<1> USE DEF vars, localVars, handlerVars, popVars, history, redisVars, TypeInv
<1>1. CASE UNCHANGED <<queue, pq, job, pc, route, sent, delivered>>
  <2>1. \A g \in Gateways, m \in Msgs, u \in Users : AtGateway(g, m, u)' => AtGateway(g, m, u)
    BY <1>1 DEF AtGateway
  <2> QED BY <1>1, <2>1, ShrinkStep
<1>2. ASSUME NEW g \in Gateways, NEW f \in Fds, NEW u \in Users, NEW m \in Msgs, Send(g, f, u, m)
      PROVE  HolderInv'
  <2>1. PICK h : route' = [route EXCEPT ![g] = {<<u, h>>}]
    BY <1>2 DEF Send
  <2>2. RouteOnce'
    BY <2>1 DEF HolderInv, RouteOnce, TypeOK
  <2> QED BY <1>2, <2>1, <2>2, AskStep DEF Send, Asks, TypeOK
<1>3. ASSUME NEW g \in Gateways, NEW f \in Fds, NEW m \in Msgs, Chat(g, f, m) PROVE HolderInv'
  <2>1. RouteOnce'
    BY <1>3 DEF Chat, HolderInv, RouteOnce
  <2> QED BY <1>3, <2>1, AskStep DEF Chat, Asks, TypeOK
<1>4. ASSUME NEW g \in Gateways, Return(g) \/ EndEvents(g) \/ Drain(g) \/ PopNil(g)
                                 \/ DrainFails(g) \/ PopFails(g) \/ DrainReplyLost(g)
      PROVE  HolderInv'
  <2>1. /\ UNCHANGED <<queue, pq, route, sent, delivered>>
        /\ job' = job \/ (job' = [job EXCEPT ![g] = NoJob] /\ pc' = [pc EXCEPT ![g] = "io"])
        /\ pc' \in {[pc EXCEPT ![g] = p] : p \in {"io", "flush", "pop"}}
    BY <1>4 DEF Return, EndEvents, Drain, PopNil, DrainFails, PopFails, DrainReplyLost, NextName
  <2>2. \A h \in Gateways, m \in Msgs, u \in Users : AtGateway(h, m, u)' => AtGateway(h, m, u)
    BY <2>1 DEF AtGateway
  <2>3. \A h \in Gateways :
          /\ job'[h] = job[h] \/ (job'[h] = NoJob /\ pc'[h] # "lookup")
          /\ pc'[h] = "lookup" => pc[h] = "lookup"
    BY <2>1 DEF TypeOK
  <2> QED BY <2>1, <2>2, <2>3, ShrinkStep
<1>5. ASSUME NEW g \in Gateways, PopReplyLost(g) PROVE HolderInv'
  <2>1. UNCHANGED <<pq, job, pc, route, sent, delivered>> /\ lpop(cur[g]) /\ cur[g] \in Users
    BY <1>5 DEF PopReplyLost, At, LoopConsistent, TypeOK
  <2>2. \A h \in Gateways, m \in Msgs, u \in Users : AtGateway(h, m, u)' => AtGateway(h, m, u)
    BY <2>1 DEF AtGateway
  <2> QED BY <2>1, <2>2, ShrinkStep
<1>6. ASSUME NEW g \in Gateways, Crash(g) PROVE HolderInv'
  <2>1. /\ UNCHANGED <<queue, sent, delivered>>
        /\ pq' = [pq EXCEPT ![g] = {}]
        /\ job' = [job EXCEPT ![g] = NoJob]
        /\ route' = [route EXCEPT ![g] = {}]
        /\ pc' = [pc EXCEPT ![g] = "io"]
    BY <1>6 DEF Crash
  <2>2. \A h \in Gateways, m \in Msgs, u \in Users : AtGateway(h, m, u)' => AtGateway(h, m, u)
    BY <2>1 DEF AtGateway, TypeOK
  <2>3. \A h \in Gateways :
          /\ job'[h] = job[h] \/ (job'[h] = NoJob /\ pc'[h] # "lookup")
          /\ pc'[h] = "lookup" => pc[h] = "lookup"
          /\ route'[h] \subseteq route[h]
    BY <2>1 DEF TypeOK
  <2> QED BY <2>1, <2>2, <2>3, ShrinkStep
<1>7. ASSUME NEW g \in Gateways, NEW f \in Fds,
             Accept(g, f) \/ Disconnect(g, f) \/ \E u \in Users : Login(g, f, u) \/ LoginReplyLost(g, f, u)
      PROVE  UNCHANGED <<queue, pq, job, pc, route, sent, delivered>>
  BY <1>7 DEF Accept, Disconnect, Login, LoginReplyLost
<1>8. ASSUME NEW g \in Gateways, Cut(g) \/ Refuse(g) \/ Recover(g) \/ Restart(g)
      PROVE  UNCHANGED <<queue, pq, job, pc, route, sent, delivered>>
  BY <1>8 DEF Cut, Refuse, Recover, Restart
<1>9. CASE UNCHANGED vars
  BY <1>1, <1>9
<1>10. ASSUME NEW g \in Gateways, ClientStep(g) PROVE HolderInv'
  BY <1>1, <1>2, <1>3, <1>7, <1>10 DEF ClientStep
<1>11. ASSUME NEW g \in Gateways, LoopStep(g) PROVE HolderInv'
  BY <1>4, <1>11, LookupStep, RouteStep, DeliverStep, PopStep DEF LoopStep
<1>12. ASSUME NEW g \in Gateways, FaultStep(g) PROVE HolderInv'
  BY <1>1, <1>4, <1>5, <1>6, <1>7, <1>8, <1>12 DEF FaultStep
<1> QED BY <1>9, <1>10, <1>11, <1>12 DEF Next

LEMMA HolderImpliesOneHolder == TypeOK /\ HolderInv => OneHolder
<1> SUFFICES ASSUME TypeOK, HolderInv, NEW m \in Msgs, NEW u \in Users,
                    NEW x \in Holders(m, u), NEW y \in Holders(m, u)
             PROVE  x = y
  BY DEF OneHolder
<1>1. Apart(m, u) /\ DOMAIN queue[u] = 1 .. Len(queue[u])
  BY DEF HolderInv, TypeOK, RedisTypeOK
<1> DEFINE Handler(z) == \E g \in Gateways : z = <<"handler", g>> /\ job[g].msg = m /\ Owed(g, m, u)
           Waiting(z) == \E i \in 1 .. Len(queue[u]) : z = <<"queue", i>> /\ queue[u][i] = m
           Local(z) == \E g \in Gateways : z = <<"gateway", g>> /\ AtGateway(g, m, u)
<1>2. \A z \in Holders(m, u) : Handler(z) \/ Waiting(z) \/ Local(z)
  BY <1>1 DEF Holders, Owed, AtGateway
<1>3. ASSUME NEW z, Waiting(z) PROVE InQueue(m, u)
  BY <1>3 DEF InQueue
<1>4. CASE Handler(x) /\ Handler(y)
  BY <1>4 DEF HolderInv, JobOnce
<1>5. CASE Waiting(x) /\ Waiting(y)
  BY <1>5 DEF HolderInv, QueueOnce
<1>6. CASE Local(x) /\ Local(y)
  BY <1>1, <1>6 DEF Apart
<1>7. ASSUME NEW v, NEW w, Handler(v), Waiting(w) \/ Local(w) PROVE FALSE
  BY <1>1, <1>3, <1>7 DEF Apart
<1>8. ASSUME NEW v, NEW w, Waiting(v), Local(w) PROVE FALSE
  BY <1>1, <1>3, <1>8 DEF Apart
<1> HIDE DEF Handler, Waiting, Local
<1> QED BY <1>2, <1>4, <1>5, <1>6, <1>7, <1>8

(* A message is in one place for each of its users, at every moment of any  *)
(* run of any number of gateways, through crashes and lost replies: it is   *)
(* never delivered by two gateways nor delivered and still waiting.         *)
THEOREM OnePlace == Spec => []OneHolder
<1>1. Init => HolderInv
  BY DistinctAssumption
     DEF Init, RedisInit, NoJob, HolderInv, JobOnce, RouteOnce, QueueOnce, Apart, InQueue, AtGateway, Owed
<1> QED BY <1>1, HolderStep, HolderImpliesOneHolder, TypeInvAlways, PTL DEF Spec, TypeInv
=============================================================================
