---------------------------- MODULE GroupManager ----------------------------
(***************************************************************************)
(* Chat groups (gateway/src/GroupManager.cpp and the group handlers of     *)
(* gateway/src/EpollServer.cpp).  A group lives in three places in Redis:  *)
(* its hash room:<id>, its set room:<id>:members, and the set              *)
(* user:<name>:groups of every member.  A handler is a series of Redis     *)
(* commands; each gateway runs one handler at a time, and the handlers of  *)
(* different gateways interleave between the commands.  A user may be      *)
(* logged in on several gateways at once.                                  *)
(*                                                                         *)
(* A step of a handler runs up to and including its next Redis command.    *)
(* dissolveGroup and getUserGroups are called by nobody and are left out.  *)
(***************************************************************************)
EXTENDS RedisCommands, FiniteSets

CONSTANTS
  Gateways,    \* gateway processes
  Users,       \* user names
  MaxGroups,   \* bound: groups created
  MaxRequests, \* bound: group requests handled
  MaxFaults,   \* bound: crashes and lost Redis connections together
  NoUser       \* the empty string, where a user name is expected

ASSUME GroupAssumption ==
  /\ MaxGroups \in Nat /\ MaxRequests \in Nat /\ MaxFaults \in Nat
  /\ NoUser \notin Users

VARIABLES
  counter,     \* group_counter
  room,        \* room:<id>: the field "name" is there, and the field "creator"
  members,     \* room:<id>:members
  groupsOf,    \* user:<name>:groups
  status,      \* "up", "cut" (hiredis context in error, for good), "down"
  faults,      \* faults so far
  requests,    \* group requests so far
  local,       \* user_map_: the users with a connection on the gateway
  op,          \* the handler being run
  to,          \* users it hands a message or a notice to (sendToUser)
  belief,      \* what a user was last told of being in a group (history)
  stay, ever   \* members all through, and at some time of, the handler (history)

redis == <<counter, room, members, groupsOf>>
history == <<belief, stay, ever>>
vars == <<redis, status, faults, requests, local, op, to, history>>

Ids == 1 .. MaxGroups
NoId == 0
NoRoom == [named |-> FALSE, creator |-> NoUser]
Idle == [at |-> "idle", id |-> NoId, user |-> NoUser]

Places == {"name", "creator", "created", "addMember", "addGroup",  \* createGroup
           "check", "joinMember", "joinGroup", "joined",           \* joinGroup
           "removeGroup", "left",                                  \* leaveGroup
           "send", "told", "idle"}

TypeOK ==
  /\ counter \in 0 .. MaxGroups
  /\ room \in [Ids -> [named : BOOLEAN, creator : Users \cup {NoUser}]]
  /\ members \in [Ids -> SUBSET Users]
  /\ groupsOf \in [Users -> SUBSET Ids]
  /\ status \in [Gateways -> {"up", "cut", "down"}]
  /\ faults \in 0 .. MaxFaults /\ requests \in 0 .. MaxRequests
  /\ local \in [Gateways -> SUBSET Users]
  /\ op \in [Gateways -> [at : Places, id : Ids \cup {NoId}, user : Users \cup {NoUser}]]
  /\ to \in [Gateways -> SUBSET Users]
  /\ belief \in [Ids -> [Users -> {"in", "out", "spoiled"}]]
  /\ stay \in [Gateways -> SUBSET Users] /\ ever \in [Gateways -> SUBSET Users]

Init ==
  /\ counter = 0
  /\ room = [i \in Ids |-> NoRoom]
  /\ members = [i \in Ids |-> {}]
  /\ groupsOf = [u \in Users |-> {}]
  /\ status = [g \in Gateways |-> "up"] /\ faults = 0 /\ requests = 0
  /\ local = [g \in Gateways |-> {}]
  /\ op = [g \in Gateways |-> Idle]
  /\ to = [g \in Gateways |-> {}]
  /\ belief = [i \in Ids |-> [u \in Users |-> "out"]]
  /\ stay = [g \in Gateways |-> {}] /\ ever = [g \in Gateways |-> {}]

-----------------------------------------------------------------------------
(* Helpers *)

Linked(g) == status[g] = "up"
At(g, place) == status[g] # "down" /\ op[g].at = place

\* A request of u has been read on g; handleMessage lets it through.
Asked(g, u) ==
  /\ At(g, "idle") /\ u \in local[g]
  /\ requests < MaxRequests /\ requests' = requests + 1

\* The handler goes on, or returns.
Goto(g, place) == op' = [op EXCEPT ![g].at = place]
Enter(g, place, i, u) == op' = [op EXCEPT ![g] = [at |-> place, id |-> i, user |-> u]]
Return(g) == op' = [op EXCEPT ![g] = Idle]

\* History: handlers that change the membership of u in i, being run elsewhere.
Changing(i, u) ==
  {g \in Gateways : op[g].id = i /\ op[g].user = u /\ op[g].at \notin {"send", "told"}}

\* History: a handler about u and i begins; once two of them have overlapped,
\* or one was cut short, nothing is expected of u and i any more.
Begin(i, u, alone) ==
  belief' = IF alone /\ Changing(i, u) = {} THEN belief
            ELSE [belief EXCEPT ![i][u] = "spoiled"]

\* History: the handler on g tells its user whether he is in the group.
Say(g, what) ==
  belief' = [belief EXCEPT ![op[g].id][op[g].user] = IF @ = "spoiled" THEN @ ELSE what]

\* History: the watch over the members of a group begins and ends on g.
Watch(g, i) ==
  /\ stay' = [stay EXCEPT ![g] = members[i]]
  /\ ever' = [ever EXCEPT ![g] = members[i]]
Unwatch(g) == stay' = [stay EXCEPT ![g] = {}] /\ ever' = [ever EXCEPT ![g] = {}]

\* SADD room:<id>:members.  Whoever is watching the group sees it.
AddMember(g, i, u) ==
  /\ members' = [members EXCEPT ![i] = setAdd(@, u, Linked(g))]
  /\ ever' = [h \in Gateways |-> IF op[h].id = i THEN setAdd(ever[h], u, Linked(g)) ELSE ever[h]]
  /\ UNCHANGED stay

-----------------------------------------------------------------------------
(* group_create: GroupManager::createGroup *)

\* Mutant of NewId: the number of groups there are is counted instead.
NewIdByCount == Cardinality({i \in Ids : room[i].named}) + 1

\* generateGroupId, INCR group_counter.
NewId == incr(counter)

\* INCR.  Without Redis the id is empty and the user is told of a failure.  So it
\* is when Redis refuses INCR; what createGroup then writes under the empty id,
\* which it has told to nobody and which nobody can join, is left out.
Create(g, u) ==
  /\ Asked(g, u) /\ Linked(g)
  /\ counter < MaxGroups
  /\ counter' = NewId
  /\ Enter(g, "name", NewId, u)
  /\ Begin(NewId, u, TRUE)
  /\ UNCHANGED <<room, members, groupsOf, status, faults, local, to, stay, ever>>

\* HSET room:<id> name
CreateName(g) ==
  /\ At(g, "name")
  /\ room' = [room EXCEPT ![op[g].id].named = setHashField(@, TRUE, Linked(g))]
  /\ Goto(g, "creator")
  /\ UNCHANGED <<counter, members, groupsOf, status, faults, requests, local, to, history>>

\* HSET room:<id> creator, HSET room:<id> created_at.  Nobody reads the time.
CreateCreator(g) ==
  /\ At(g, "creator")
  /\ room' = [room EXCEPT ![op[g].id].creator = setHashField(@, op[g].user, Linked(g))]
  /\ Goto(g, "addMember")
  /\ UNCHANGED <<counter, members, groupsOf, status, faults, requests, local, to, history>>

\* SADD room:<id>:members
CreateMember(g) ==
  /\ At(g, "addMember")
  /\ AddMember(g, op[g].id, op[g].user)
  /\ Goto(g, "addGroup")
  /\ UNCHANGED <<counter, room, groupsOf, status, faults, requests, local, to, belief>>

\* SADD user:<name>:groups.  None of the answers has been looked at: the reply
\* is "group_created" in any case.
CreateGroups(g) ==
  /\ At(g, "addGroup")
  /\ groupsOf' = [groupsOf EXCEPT ![op[g].user] = setAdd(@, op[g].id, Linked(g))]
  /\ Say(g, "in")
  /\ Return(g)
  /\ UNCHANGED <<counter, room, members, status, faults, requests, local, to, stay, ever>>

-----------------------------------------------------------------------------
(* group_join: GroupManager::joinGroup, then the notices *)

\* HGET room:<id> name
Exists(g, i) == getHashField(room[i].named, FALSE, Linked(g))

\* A group that is not there ends the handler with "join failed".
Join(g, i, u) ==
  /\ Asked(g, u)
  /\ Exists(g, i)
  /\ Enter(g, "check", i, u)
  /\ Begin(i, u, TRUE)
  /\ Watch(g, i)
  /\ UNCHANGED <<redis, status, faults, local, to>>

\* SISMEMBER: a member already is told "join failed".  Without an answer the
\* handler goes on as for one who is not a member.
JoinCheck(g) ==
  /\ At(g, "check")
  /\ IF setIsMember(members[op[g].id], op[g].user, Linked(g))
       THEN Return(g) /\ Unwatch(g)
       ELSE Goto(g, "joinMember") /\ UNCHANGED <<stay, ever>>
  /\ UNCHANGED <<redis, status, faults, requests, local, to, belief>>

\* SADD room:<id>:members
JoinMember(g) ==
  /\ At(g, "joinMember")
  /\ AddMember(g, op[g].id, op[g].user)
  /\ Goto(g, "joinGroup")
  /\ UNCHANGED <<counter, room, groupsOf, status, faults, requests, local, to, belief>>

\* Mutant of JoinGroups: the second index is forgotten.
JoinGroupsNot(g) ==
  /\ At(g, "joinGroup")
  /\ Goto(g, "joined")
  /\ Say(g, "in")
  /\ UNCHANGED <<redis, status, faults, requests, local, to, stay, ever>>

\* Mutant of JoinGroups: key and member are swapped.
JoinGroupsSwapped(g) ==
  /\ At(g, "joinGroup")
  /\ groupsOf' = [groupsOf EXCEPT ![op[g].user] = setAdd(@, op[g].user, Linked(g))]
  /\ Goto(g, "joined")
  /\ Say(g, "in")
  /\ UNCHANGED <<counter, room, members, status, faults, requests, local, to, stay, ever>>

\* SADD user:<name>:groups; the answers are not looked at.
JoinGroups(g) ==
  /\ At(g, "joinGroup")
  /\ groupsOf' = [groupsOf EXCEPT ![op[g].user] = setAdd(@, op[g].id, Linked(g))]
  /\ Goto(g, "joined")
  /\ Say(g, "in")
  /\ UNCHANGED <<counter, room, members, status, faults, requests, local, to, stay, ever>>

-----------------------------------------------------------------------------
(* group_leave: GroupManager::leaveGroup, then the notices *)

\* SREM room:<id>:members.  Nothing is asked first: any logged-in user may
\* leave any group, also one that was never joined or never made.
Leave(g, i, u) ==
  /\ Asked(g, u)
  /\ members' = [members EXCEPT ![i] = setRemove(@, u, Linked(g))]
  /\ Enter(g, "removeGroup", i, u)
  /\ Begin(i, u, Linked(g))
  /\ stay' = [h \in Gateways |->
                LET was == IF h = g THEN members[i] ELSE stay[h] IN
                IF h = g \/ op[h].id = i THEN setRemove(was, u, Linked(g)) ELSE was]
  /\ ever' = [ever EXCEPT ![g] = members[i]]
  /\ UNCHANGED <<counter, room, groupsOf, status, faults, local, to>>

\* SREM user:<name>:groups
LeaveGroups(g) ==
  /\ At(g, "removeGroup")
  /\ groupsOf' = [groupsOf EXCEPT ![op[g].user] = setRemove(@, op[g].id, Linked(g))]
  /\ Say(g, "out")
  /\ Goto(g, "left")
  /\ UNCHANGED <<counter, room, members, status, faults, requests, local, to, stay, ever>>

-----------------------------------------------------------------------------
(* Messages and notices *)

\* group_send: SISMEMBER lets only a member's message through.
Send(g, i, u) ==
  /\ Asked(g, u)
  /\ setIsMember(members[i], u, Linked(g))
  /\ Enter(g, "send", i, u)
  /\ Watch(g, i)
  /\ UNCHANGED <<redis, status, faults, local, to, belief>>

\* Mutant of Recipients: the users' own sets are searched for the group.
RecipientsByGroups(g) ==
  {m \in Users : Linked(g) /\ op[g].id \in groupsOf[m] /\ m # op[g].user} \cap local[g]

\* getMembers, everyone but the user of the request.  sendToUser finds those
\* with a connection on this gateway and drops what is for the others: nothing
\* carries a group's messages to other gateways.
Recipients(g) == (setMembers(members[op[g].id], Linked(g)) \ {op[g].user}) \cap local[g]

\* SMEMBERS, and the message or the notice goes into the priority queue.
Tell(g) ==
  /\ \E place \in {"joined", "left", "send"} : At(g, place)
  /\ to' = [to EXCEPT ![g] = Recipients(g)]
  /\ Goto(g, "told")
  /\ UNCHANGED <<redis, status, faults, requests, local, history>>

\* The handler returns and the queue is emptied later in the turn.
Told(g) ==
  /\ At(g, "told")
  /\ Return(g)
  /\ to' = [to EXCEPT ![g] = {}]
  /\ Unwatch(g)
  /\ UNCHANGED <<redis, status, faults, requests, local, belief>>

-----------------------------------------------------------------------------
(* Sessions and faults *)

\* performLogin, the part that other handlers see; it needs Redis.
Login(g, u) ==
  /\ At(g, "idle") /\ Linked(g)
  /\ local' = [local EXCEPT ![g] = @ \cup {u}]
  /\ UNCHANGED <<redis, status, faults, requests, op, to, history>>

\* disconnectClient, the last connection of u on g.
Logout(g, u) ==
  /\ At(g, "idle")
  /\ local' = [local EXCEPT ![g] = @ \ {u}]
  /\ UNCHANGED <<redis, status, faults, requests, op, to, history>>

\* History: a handler that is cut short leaves its group and its user apart.
CutShort(g) ==
  belief' = IF op[g].at \in {"idle", "send", "told"} THEN belief
            ELSE [belief EXCEPT ![op[g].id][op[g].user] = "spoiled"]

\* The connection to Redis fails, between two commands of a handler or after
\* Redis has run one whose answer is lost: nothing is sent any more.
Cut(g) ==
  /\ faults < MaxFaults /\ Linked(g)
  /\ faults' = faults + 1
  /\ status' = [status EXCEPT ![g] = "cut"]
  /\ CutShort(g)
  /\ UNCHANGED <<redis, requests, local, op, to, stay, ever>>

\* The process dies, with its connections and the handler it was running.
Crash(g) ==
  /\ faults < MaxFaults /\ status[g] # "down"
  /\ faults' = faults + 1
  /\ status' = [status EXCEPT ![g] = "down"]
  /\ CutShort(g)
  /\ local' = [local EXCEPT ![g] = {}]
  /\ op' = [op EXCEPT ![g] = Idle]
  /\ to' = [to EXCEPT ![g] = {}]
  /\ Unwatch(g)
  /\ UNCHANGED <<redis, requests>>

-----------------------------------------------------------------------------
CreateStep(g) == CreateName(g) \/ CreateCreator(g) \/ CreateMember(g) \/ CreateGroups(g)
JoinStep(g) == JoinCheck(g) \/ JoinMember(g) \/ JoinGroups(g)

Request(g) ==
  \E u \in Users :
    \/ Login(g, u) \/ Logout(g, u) \/ Create(g, u)
    \/ \E i \in Ids : Join(g, i, u) \/ Leave(g, i, u) \/ Send(g, i, u)

Handler(g) == CreateStep(g) \/ JoinStep(g) \/ LeaveGroups(g) \/ Tell(g) \/ Told(g)

Next == \E g \in Gateways : Request(g) \/ Handler(g) \/ Cut(g) \/ Crash(g)

Spec == Init /\ [][Next]_vars

-----------------------------------------------------------------------------
(* Properties *)

\* Unless two handlers about one user and one group ran at the same time, or
\* one was cut short, the two sets in Redis agree with each other and with what
\* the user was told (createGroup, joinGroup, leaveGroup: several commands,
\* no transaction, no answer looked at).
AgreeUnlessSpoiled ==
  \A i \in Ids, u \in Users :
    Changing(i, u) = {} /\ belief[i][u] # "spoiled" =>
      /\ u \in members[i] <=> i \in groupsOf[u]
      /\ u \in members[i] <=> belief[i][u] = "in"

\* Whoever made a group stays its creator: two gateways that create groups at
\* the same time never get one id (generateGroupId).
CreatorKept ==
  [][\A i \in Ids : room[i].creator # NoUser => room'[i].creator = room[i].creator]_vars

\* A message or a notice goes to every user on this gateway who was a member
\* all through the handler, and to nobody who was a member at no time of it,
\* however the membership changes meanwhile on other gateways (getMembers,
\* group_send).
ToldTheGroup ==
  \A g \in Gateways : At(g, "told") /\ Linked(g) =>
    /\ (stay[g] \ {op[g].user}) \cap local[g] \subseteq to[g]
    /\ to[g] \subseteq ever[g]
=============================================================================
