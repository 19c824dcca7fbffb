--------------------------- MODULE GatewayCluster ---------------------------
(***************************************************************************)
(* The gateways of the cluster and the Redis database they share: who is   *)
(* logged in where, and how a message finds its way to the connections of  *)
(* the user it is for.  Each gateway is one thread running                 *)
(* EpollServer::loop (gateway/src/EpollServer.cpp):                        *)
(*                                                                         *)
(*   "io"      events of epoll_wait: accept, login, disconnect, requests,  *)
(*             and the disconnections of checkTimeouts at the loop's end   *)
(*   "lookup"  inside the "chat" handler, between its two Redis requests   *)
(*   "route"   inside a handler, handing the message on, user by user      *)
(*   "flush"   emptying the priority queue into the connections            *)
(*   "pop"     pushOfflineMessages, one LPOP after the other               *)
(*                                                                         *)
(* A thread works on its own memory alone, so a step may join everything   *)
(* it does up to its next Redis command.  Payloads, the three priorities   *)
(* and acknowledgements are left out: every order of the priority queue is *)
(* allowed.                                                                *)
(***************************************************************************)
EXTENDS RedisClient

CONSTANTS
  MaxCopies,   \* bound: how often a descriptor is listed under a name or two
  MaxFaults,   \* bound: crashes, lost connections and refusals of Redis together
  NoUser,      \* username of a connection that has not logged in
  Closed,      \* no connection under this descriptor
  NoMsg,       \* no request being handled
  NoGateway    \* -1, the answer for a user without a device

ASSUME BoundsAssumption == MaxCopies \in Nat /\ MaxFaults \in Nat
ASSUME DistinctAssumption ==
  /\ NoUser \notin Users /\ Closed \notin Users \cup {NoUser}
  /\ NoMsg \notin Msgs /\ NoGateway \notin Gateways

VARIABLES
  status,      \* "up"; "refused" (Redis answers with errors); "cut" (hiredis
               \* context in error, for good); "down" (no process)
  faults,      \* faults so far
  pc,          \* where in the loop the thread is
  conn,        \* connections_: Closed, NoUser, or conn.username
  userMap,     \* user_map_: how often a name's vector holds a descriptor
  pq,          \* priority_q_: entries on their way to a descriptor
  job,         \* the request being handled: its message and its sender
  names,       \* members of online_users read by the "chat" handler
  route,       \* users still to be served, with the gateway looked up
  toPop,       \* names drained from pending_msgs whose list is not yet empty
  cur,         \* the name popMessages is working on
  sent,        \* messages that have been requested (history)
  delivered,   \* what was written to which connection (history)
  left,        \* devices in Redis that their gateway does not know (history)
  forgotten    \* names drained from pending_msgs and lost with an answer, an
               \* error or a process before their list was empty (history)

localVars == <<conn, userMap, pq>>
handlerVars == <<job, names, route>>
popVars == <<toPop, cur>>
history == <<sent, delivered, left, forgotten>>
vars == <<redisVars, status, faults, pc, localVars, handlerVars, popVars, history>>

Entries == [msg : Msgs, to : Users, fd : Fds, copy : Nat]
Deliveries == [msg : Msgs, to : Users, gw : Gateways, as : Users \cup {NoUser}]
NoJob == [msg |-> NoMsg, from |-> NoUser]

TypeOK ==
  /\ RedisTypeOK
  /\ status \in [Gateways -> {"up", "refused", "cut", "down"}]
  /\ faults \in Nat
  /\ pc \in [Gateways -> {"io", "lookup", "route", "flush", "pop"}]
  /\ conn \in [Gateways -> [Fds -> Users \cup {NoUser, Closed}]]
  /\ userMap \in [Gateways -> [Users -> [Fds -> Nat]]]
  /\ pq \in [Gateways -> SUBSET Entries]
  /\ job \in [Gateways -> [msg : Msgs \cup {NoMsg}, from : Users \cup {NoUser}]]
  /\ names \in [Gateways -> SUBSET Users]
  /\ route \in [Gateways -> SUBSET (Users \X (Gateways \cup {NoGateway}))]
  /\ toPop \in [Gateways -> SUBSET Users]
  /\ cur \in [Gateways -> Users \cup {NoUser}]
  /\ sent \subseteq Msgs
  /\ delivered \subseteq Deliveries
  /\ left \subseteq Users \X Devices
  /\ forgotten \subseteq Users

Init ==
  /\ RedisInit
  /\ status = [g \in Gateways |-> "up"]
  /\ faults = 0
  /\ pc = [g \in Gateways |-> "io"]
  /\ conn = [g \in Gateways |-> [f \in Fds |-> Closed]]
  /\ userMap = [g \in Gateways |-> [u \in Users |-> [f \in Fds |-> 0]]]
  /\ pq = [g \in Gateways |-> {}]
  /\ job = [g \in Gateways |-> NoJob]
  /\ names = [g \in Gateways |-> {}]
  /\ route = [g \in Gateways |-> {}]
  /\ toPop = [g \in Gateways |-> {}]
  /\ cur = [g \in Gateways |-> NoUser]
  /\ sent = {}
  /\ delivered = {}
  /\ left = {}
  /\ forgotten = {}

\* Redis carries out what this gateway asks, and the gateway hears of it.
Linked(g) == status[g] = "up"
At(g, place) == status[g] # "down" /\ pc[g] = place

-----------------------------------------------------------------------------
(* Connections and sessions *)

Accept(g, f) ==
  /\ At(g, "io")
  /\ conn[g][f] = Closed
  /\ conn' = [conn EXCEPT ![g][f] = NoUser]
  /\ UNCHANGED <<redisVars, status, faults, pc, userMap, pq, handlerVars, popVars, history>>

\* The bound on logins.
Room(g, f, u) ==
  /\ userMap[g][u][f] < MaxCopies
  /\ \A v \in Users \ {u} : userMap[g][u][f] + userMap[g][v][f] < MaxCopies

\* Mutant of Login: the answer of userLogin is not looked at.
LoginUnchecked(g, f, u) ==
  /\ At(g, "io")
  /\ conn[g][f] # Closed
  /\ Room(g, f, u)
  /\ IF Linked(g) THEN userLogin(u, g, f) ELSE UNCHANGED <<devices, online>>
  /\ conn' = [conn EXCEPT ![g][f] = u]
  /\ userMap' = [userMap EXCEPT ![g][u][f] = @ + 1]
  /\ left' = left \ {<<u, <<g, f>>>>}
  /\ UNCHANGED <<queue, pending, status, faults, pc, pq, handlerVars, popVars,
                 sent, delivered, forgotten>>

(* performLogin.  Nothing asks whether the connection has logged in before: *)
(* under another name the old name keeps the descriptor, under the same     *)
(* name the descriptor is listed twice.  Without Redis the answer is        *)
(* "login failed" and nothing changes.                                      *)
Login(g, f, u) ==
  /\ At(g, "io") /\ Linked(g)
  /\ conn[g][f] # Closed
  /\ Room(g, f, u)
  /\ userLogin(u, g, f)
  /\ conn' = [conn EXCEPT ![g][f] = u]
  /\ userMap' = [userMap EXCEPT ![g][u][f] = @ + 1]
  /\ left' = left \ {<<u, <<g, f>>>>}
  /\ UNCHANGED <<queue, pending, status, faults, pc, pq, handlerVars, popVars,
                 sent, delivered, forgotten>>

\* Mutant of Forget: one copy of the descriptor is erased instead of all.
ForgetOne(g, f, u) == [userMap EXCEPT ![g][u][f] = @ - 1]

\* std::remove of the descriptor from the vector of the name, all its copies.
Forget(g, f, u) == [userMap EXCEPT ![g][u][f] = 0]

\* Whether or not it was the last device: Redis is told, if it can be.  An
\* error, or no answer, is logged, and the device stays in Redis.
Logout(g, f, u) ==
  IF Linked(g) THEN userLogout(u, g, f) /\ left' = left \ {<<u, <<g, f>>>>}
  ELSE UNCHANGED <<devices, online>> /\ left' = left \cup {<<u, <<g, f>>>>}

(* disconnectClient: only the name the connection has now is cleaned up, *)
(* and entries of the priority queue that point to it stay.              *)
CloseConn(g, f) ==
  LET u == conn[g][f] IN
  /\ u # Closed
  /\ conn' = [conn EXCEPT ![g][f] = Closed]
  /\ IF u \in Users /\ \E d \in Fds : userMap[g][u][d] > 0
     THEN userMap' = Forget(g, f, u) /\ Logout(g, f, u)
     ELSE UNCHANGED <<userMap, devices, online, left>>

\* The client closed, the read failed, or checkTimeouts found it silent.
Disconnect(g, f) ==
  /\ At(g, "io")
  /\ CloseConn(g, f)
  /\ UNCHANGED <<queue, pending, status, faults, pc, pq, handlerVars, popVars,
                 sent, delivered, forgotten>>

-----------------------------------------------------------------------------
(* Requests *)

\* sendToUser: one entry for each time the name's vector lists a descriptor,
\* none if user_map_ does not know the name.
sendToUser(g, u, m) ==
  pq' = [pq EXCEPT ![g] = @ \cup
          {[msg |-> m, to |-> u, fd |-> d[1], copy |-> d[2]] :
             d \in {c \in Fds \X (1 .. MaxCopies) : c[2] <= userMap[g][u][c[1]]}}]

Asks(g, f, m) ==
  /\ At(g, "io") /\ Linked(g)
  /\ conn[g][f] \in Users
  /\ m \notin sent
  /\ sent' = sent \cup {m}
  /\ job' = [job EXCEPT ![g] = [msg |-> m, from |-> conn[g][f]]]

(* The "send" handler: one device of the target is drawn.  A target without *)
(* a device, or a lost Redis, is answered "user not found".                 *)
Send(g, f, u, m) ==
  /\ Asks(g, f, m)
  /\ \E h \in getUserGateway(u) : route' = [route EXCEPT ![g] = {<<u, h>>}]
  /\ pc' = [pc EXCEPT ![g] = "route"]
  /\ UNCHANGED <<redisVars, status, faults, localVars, names, popVars,
                 delivered, left, forgotten>>

\* The "chat" handler, first request: SMEMBERS online_users.
Chat(g, f, m) ==
  /\ Asks(g, f, m)
  /\ names' = [names EXCEPT ![g] = online]
  /\ pc' = [pc EXCEPT ![g] = "lookup"]
  /\ UNCHANGED <<redisVars, status, faults, localVars, route, popVars,
                 delivered, left, forgotten>>

\* The SRANDMEMBER answer for a name that was online a moment ago.
Answers(g, u) ==
  IF Linked(g) /\ devices[u] # {} THEN getUserGateway(u) ELSE {NoGateway}

(* getAllOnlineUsers, second request: one SRANDMEMBER per name in a         *)
(* pipeline.  The replies come in the order of SMEMBERS and are handed out  *)
(* in the order of an unordered_map, so each name gets the answer of some   *)
(* name.                                                                    *)
ChatLookup(g) ==
  /\ At(g, "lookup")
  /\ \E asked \in [names[g] -> names[g]] :
     \E answer \in [names[g] -> Gateways \cup {NoGateway}] :
       /\ \A u, v \in names[g] : asked[u] = asked[v] => u = v
       /\ \A u \in names[g] : answer[u] \in Answers(g, asked[u])
       /\ route' = [route EXCEPT ![g] =
                      {<<u, answer[u]>> : u \in names[g] \ {job[g].from}}]
  /\ names' = [names EXCEPT ![g] = {}]
  /\ pc' = [pc EXCEPT ![g] = "route"]
  /\ UNCHANGED <<redisVars, status, faults, localVars, job, popVars, history>>

\* Mutant of HandOn: the local branch falls through to the push.
HandOnBoth(g, u, h) ==
  /\ IF h = g THEN sendToUser(g, u, job[g].msg) ELSE UNCHANGED pq
  /\ IF Linked(g) THEN pushMessage(u, job[g].msg) ELSE UNCHANGED <<queue, pending>>

\* `gateway == gateway_id_`: to the local queue, else to the mailbox in Redis.
HandOn(g, u, h) ==
  IF h = g THEN sendToUser(g, u, job[g].msg) /\ UNCHANGED <<queue, pending>>
  ELSE /\ IF Linked(g) THEN pushMessage(u, job[g].msg) ELSE UNCHANGED <<queue, pending>>
       /\ UNCHANGED pq

\* One turn of the handler's loop over the users it serves.
Route(g) ==
  /\ At(g, "route")
  /\ \E r \in route[g] :
       /\ HandOn(g, r[1], r[2])
       /\ route' = [route EXCEPT ![g] = @ \ {r}]
  /\ UNCHANGED <<devices, online, status, faults, pc, conn, userMap, job, names, popVars, history>>

\* The handler returns.
Return(g) ==
  /\ At(g, "route")
  /\ route[g] = {}
  /\ job' = [job EXCEPT ![g] = NoJob]
  /\ pc' = [pc EXCEPT ![g] = "io"]
  /\ UNCHANGED <<redisVars, status, faults, localVars, names, route, popVars, history>>

-----------------------------------------------------------------------------
(* The rest of the loop *)

EndEvents(g) ==
  /\ At(g, "io")
  /\ pc' = [pc EXCEPT ![g] = "flush"]
  /\ UNCHANGED <<redisVars, status, faults, localVars, handlerVars, popVars, history>>

(* sendToClient for one entry: written, or dropped when the descriptor is *)
(* closed.  It goes by the descriptor, not by the user.                   *)
Deliver(g) ==
  /\ At(g, "flush")
  /\ \E e \in pq[g] :
       /\ pq' = [pq EXCEPT ![g] = @ \ {e}]
       /\ delivered' = IF conn[g][e.fd] = Closed THEN delivered
                       ELSE delivered \cup {[msg |-> e.msg, to |-> e.to, gw |-> g,
                                             as |-> conn[g][e.fd]]}
  /\ UNCHANGED <<redisVars, status, faults, pc, conn, userMap, handlerVars, popVars,
                 sent, left, forgotten>>

\* sendToClient meets a write error: the entry is gone and so is the connection.
DeliverFails(g) ==
  /\ At(g, "flush")
  /\ \E e \in pq[g] :
       /\ pq' = [pq EXCEPT ![g] = @ \ {e}]
       /\ CloseConn(g, e.fd)
  /\ UNCHANGED <<queue, pending, status, faults, pc, handlerVars, popVars,
                 sent, delivered, forgotten>>

\* popMessages goes to some name of the vector that is left, or is done.
NextName(g, rest) ==
  /\ toPop' = [toPop EXCEPT ![g] = rest]
  /\ IF rest = {} THEN cur' = [cur EXCEPT ![g] = NoUser]
                  ELSE \E u \in rest : cur' = [cur EXCEPT ![g] = u]
  /\ pc' = [pc EXCEPT ![g] = IF rest = {} THEN "io" ELSE "pop"]

\* The queue is empty: pushOfflineMessages begins with drainPendingUsers.
Drain(g) ==
  /\ At(g, "flush") /\ Linked(g)
  /\ pq[g] = {}
  /\ drainPendingUsers
  /\ NextName(g, pending)
  /\ UNCHANGED <<devices, online, queue, status, faults, localVars, handlerVars, history>>

\* popMessages, LPOP gave a message.  (The code collects the messages of one
\* name and calls sendToUser after the last; nothing else looks in between.)
Pop(g) ==
  /\ At(g, "pop") /\ Linked(g)
  /\ lpop(cur[g])
  /\ sendToUser(g, cur[g], Head(queue[cur[g]]))
  /\ UNCHANGED <<devices, online, pending, status, faults, pc, conn, userMap,
                 handlerVars, popVars, history>>

\* popMessages, LPOP gave nil: the list is empty, on to the next name.
PopNil(g) ==
  /\ At(g, "pop") /\ Linked(g)
  /\ queue[cur[g]] = <<>>
  /\ NextName(g, toPop[g] \ {cur[g]})
  /\ forgotten' = forgotten \ {cur[g]}
  /\ UNCHANGED <<redisVars, status, faults, localVars, handlerVars, sent, delivered, left>>

\* drainPendingUsers without an answer, or with an error: no names, no change.
DrainFails(g) ==
  /\ At(g, "flush") /\ ~Linked(g)
  /\ pq[g] = {}
  /\ pc' = [pc EXCEPT ![g] = "io"]
  /\ UNCHANGED <<redisVars, status, faults, localVars, handlerVars, popVars, history>>

\* LPOP without an answer, or with an error: popMessages gives up this name,
\* whatever its list still holds, and the next one is tried.
PopFails(g) ==
  /\ At(g, "pop") /\ ~Linked(g)
  /\ NextName(g, toPop[g] \ {cur[g]})
  /\ forgotten' = forgotten \cup {cur[g]}
  /\ UNCHANGED <<redisVars, status, faults, localVars, handlerVars, sent, delivered, left>>

-----------------------------------------------------------------------------
(* Faults *)

Fault(g, s) ==
  /\ faults < MaxFaults
  /\ faults' = faults + 1
  /\ status' = [status EXCEPT ![g] = s]

\* The Redis connection is lost between two commands.  Nothing reconnects.
Cut(g) ==
  /\ Linked(g)
  /\ Fault(g, "cut")
  /\ UNCHANGED <<redisVars, pc, localVars, handlerVars, popVars, history>>

\* Redis is there and answers with errors (its memory is full, its disk is),
Refuse(g) ==
  /\ Linked(g)
  /\ Fault(g, "refused")
  /\ UNCHANGED <<redisVars, pc, localVars, handlerVars, popVars, history>>

\* and some commands later it serves this gateway again.
Recover(g) ==
  /\ status[g] = "refused"
  /\ status' = [status EXCEPT ![g] = "up"]
  /\ UNCHANGED <<redisVars, faults, pc, localVars, handlerVars, popVars, history>>

\* The login script ran and its answer is lost: the client hears "login
\* failed" and the device stays in Redis.
LoginReplyLost(g, f, u) ==
  /\ At(g, "io") /\ Linked(g)
  /\ conn[g][f] # Closed
  /\ Fault(g, "cut")
  /\ userLogin(u, g, f)
  /\ left' = IF userMap[g][u][f] = 0 THEN left \cup {<<u, <<g, f>>>>} ELSE left
  /\ UNCHANGED <<queue, pending, pc, localVars, handlerVars, popVars,
                 sent, delivered, forgotten>>

\* The drain script ran and its answer is lost: no gateway knows the names.
DrainReplyLost(g) ==
  /\ At(g, "flush") /\ Linked(g)
  /\ pq[g] = {}
  /\ Fault(g, "cut")
  /\ drainPendingUsers
  /\ forgotten' = forgotten \cup pending
  /\ pc' = [pc EXCEPT ![g] = "io"]
  /\ UNCHANGED <<devices, online, queue, localVars, handlerVars, popVars,
                 sent, delivered, left>>

\* LPOP ran and its answer is lost, and with it the message.
PopReplyLost(g) ==
  /\ At(g, "pop") /\ Linked(g)
  /\ Fault(g, "cut")
  /\ lpop(cur[g])
  /\ UNCHANGED <<devices, online, pending, pc, localVars, handlerVars, popVars, history>>

\* The process dies, and its memory with it.  What it had in Redis stays.
Crash(g) ==
  /\ status[g] # "down"
  /\ Fault(g, "down")
  /\ pc' = [pc EXCEPT ![g] = "io"]
  /\ conn' = [conn EXCEPT ![g] = [f \in Fds |-> Closed]]
  /\ userMap' = [userMap EXCEPT ![g] = [u \in Users |-> [f \in Fds |-> 0]]]
  /\ pq' = [pq EXCEPT ![g] = {}]
  /\ job' = [job EXCEPT ![g] = NoJob]
  /\ names' = [names EXCEPT ![g] = {}]
  /\ route' = [route EXCEPT ![g] = {}]
  /\ toPop' = [toPop EXCEPT ![g] = {}]
  /\ cur' = [cur EXCEPT ![g] = NoUser]
  /\ left' = left \cup {d \in Users \X Devices :
                          d[2][1] = g /\ userMap[g][d[1]][d[2][2]] > 0}
  /\ forgotten' = forgotten \cup toPop[g]
  /\ UNCHANGED <<redisVars, sent, delivered>>

\* A new process under the old id, with nothing in its memory: the id is made
\* of the process number and the port, both the same in a restarted container.
Restart(g) ==
  /\ status[g] = "down"
  /\ status' = [status EXCEPT ![g] = "up"]
  /\ UNCHANGED <<redisVars, faults, pc, localVars, handlerVars, popVars, history>>

-----------------------------------------------------------------------------
ClientStep(g) ==
  \E f \in Fds :
    \/ Accept(g, f)
    \/ Disconnect(g, f)
    \/ \E u \in Users : Login(g, f, u)
    \/ \E u \in Users, m \in Msgs : Send(g, f, u, m)
    \/ \E m \in Msgs : Chat(g, f, m)

LoopStep(g) ==
  \/ ChatLookup(g) \/ Route(g) \/ Return(g)
  \/ EndEvents(g) \/ Deliver(g) \/ DeliverFails(g)
  \/ Drain(g) \/ Pop(g) \/ PopNil(g) \/ DrainFails(g) \/ PopFails(g)

FaultStep(g) ==
  \/ Cut(g) \/ Refuse(g) \/ Recover(g) \/ Crash(g) \/ Restart(g)
  \/ DrainReplyLost(g) \/ PopReplyLost(g)
  \/ \E f \in Fds, u \in Users : LoginReplyLost(g, f, u)

Next == \E g \in Gateways : ClientStep(g) \/ LoopStep(g) \/ FaultStep(g)

Spec == Init /\ [][Next]_vars

(* The thread of a gateway that has not crashed keeps running its loop: no  *)
(* step of it waits for a client, epoll_wait returns after at most 100 ms   *)
(* and handles a bounded batch of events.  Clients and faults owe nothing.  *)
FairSpec == Spec /\ \A g \in Gateways : WF_vars(LoopStep(g))

-----------------------------------------------------------------------------
(* Properties *)

\* Where the thread is and what it holds belong together: a request only
\* inside a handler, and drained names only while they are popped, one of them
\* being the one at work.
LoopConsistent ==
  \A g \in Gateways :
    /\ pc[g] \in {"lookup", "route"} => job[g].msg \in Msgs
    /\ pc[g] \notin {"lookup", "route"} => job[g] = NoJob
    /\ pc[g] # "route" => route[g] = {}
    /\ IF pc[g] = "pop" THEN cur[g] \in toPop[g] ELSE toPop[g] = {}

\* online_users lists exactly the users whose device set is not empty: the
\* two keys that userLogin and userLogout keep never part, whatever the
\* interleaving of gateways, the failed calls and the crashes.
OnlineMatchesDevices == \A u \in Users : u \in online <=> devices[u] # {}

\* What a gateway's user_map_ says is what Redis says of that gateway, but for
\* the devices it left there and does not know of: because it died with them,
\* logged one out while Redis did not listen, or did not hear that a login
\* went well.  Nothing else parts the two: second logins, repeated logins,
\* time-outs, write errors, or the old id and the old descriptors being in use
\* again after a restart (performLogin, disconnectClient).
RegistryMirrorsUserMap ==
  \A g \in Gateways, u \in Users, f \in Fds :
    /\ userMap[g][u][f] > 0 <=> <<g, f>> \in devices[u] /\ <<u, <<g, f>>>> \notin left
    /\ <<u, <<g, f>>>> \in left => <<g, f>> \in devices[u]

\* A connection that is logged in is reachable: its name leads to its
\* descriptor in user_map_ and to its gateway in Redis, also while the
\* gateway is cut off (sendToUser and getUserGateway find it).
SessionIsReachable ==
  \A g \in Gateways, f \in Fds :
    conn[g][f] \in Users =>
      /\ userMap[g][conn[g][f]][f] > 0
      /\ <<g, f>> \in devices[conn[g][f]]

\* A waiting message is forgotten by the index only through a fault: its user
\* is in pending_msgs, or in the hands of a gateway that drained it and has not
\* yet seen the list empty, or a gateway drained it and lost it, with the
\* answer, by an error of LPOP, or by dying, and nobody has emptied the list
\* since (pushMessage against drainPendingUsers and popMessages).
NoStrandedQueue ==
  \A u \in Users :
    queue[u] # <<>> =>
      u \in pending \cup forgotten \/ \E g \in Gateways : u \in toPop[g]

\* Everything that holds message m for user u, or held it and passed it to a
\* connection: a handler, a place in the mailbox, a gateway.
Holders(m, u) ==
  {<<"handler", g>> : g \in {h \in Gateways : job[h].msg = m /\ \E r \in route[h] : r[1] = u}}
  \cup {<<"queue", i>> : i \in {j \in DOMAIN queue[u] : queue[u][j] = m}}
  \cup {<<"gateway", g>> : g \in
         {h \in Gateways : \/ \E e \in pq[h] : e.msg = m /\ e.to = u
                           \/ \E d \in delivered : d.msg = m /\ d.to = u /\ d.gw = h}}

\* No message is ever in two places for one user, hence none is delivered by
\* two gateways, or delivered and still waiting (the "chat" and "send"
\* handlers, popMessages).
OneHolder ==
  \A m \in Msgs, u \in Users : \A x, y \in Holders(m, u) : x = y

\* A message that waits in a mailbox leaves it as long as one gateway has its
\* Redis: the loops of the gateways serve every mailbox, whoever dies, is cut
\* off or refused on the way, but for one whose name has been forgotten
\* (pushOfflineMessages).
MailboxIsServed ==
  \A u \in Users :
    queue[u] # <<>> ~> (queue[u] = <<>> \/ u \in forgotten \/ ~\E g \in Gateways : Linked(g))

\* What the comments promise and the code does not keep (README, findings).

\* EpollServer.cpp:1470-1471, "pull from Redis and deliver to local online
\* users": a popped message reaches the user's connection if there is one.
PopReachesSession ==
  [][\A u \in Users :
       queue[u] # <<>> /\ queue'[u] = Tail(queue[u])
         /\ (\A g \in Gateways : Linked(g))
         /\ (\E g \in Gateways, f \in Fds : conn[g][f] = u)
       => \E g \in Gateways : \E e \in pq'[g] : e.msg = Head(queue[u]) /\ e.to = u]_vars

\* EpollServer.cpp:1385, "send to all devices of the user": a message for a
\* user is written to connections of that user only.
NoMisdelivery == \A d \in delivered : d.as = d.to
=============================================================================
