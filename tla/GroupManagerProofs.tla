------------------------- MODULE GroupManagerProofs --------------------------
(***************************************************************************)
(* Proofs about GroupManager for any gateways, users, groups, requests and *)
(* faults: types, that a group keeps its creator, that the two indexes of  *)
(* the membership agree, and who is told of what happens in a group.       *)
(***************************************************************************)
EXTENDS GroupManager, TLAPS

-----------------------------------------------------------------------------
(* The invariants *)

\* A handler is about a group and a user, and no handler is about nothing.
Placed ==
  \A g \in Gateways :
    /\ op[g].at = "idle" => op[g] = Idle
    /\ op[g].at # "idle" => op[g].id \in Ids /\ op[g].user \in Users

\* A handler of createGroup that has not yet written the creator is the only one
\* with its id, and there is nobody's name under the id.
Making(g) == op[g].at \in {"name", "creator"}

FreshIds ==
  /\ \A i \in Ids : i > counter => room[i].creator = NoUser
  /\ \A g \in Gateways : Making(g) => op[g].id <= counter /\ room[op[g].id].creator = NoUser
  /\ \A g, h \in Gateways : Making(g) /\ Making(h) /\ op[g].id = op[h].id => g = h

\* The handler on g is changing the membership of u in i.
Busy(g, i, u) ==
  op[g].id = i /\ op[g].user = u /\ op[g].at \notin {"send", "told"}

\* The two indexes and the user agree.
Agree(i, u) ==
  /\ u \in members[i] <=> i \in groupsOf[u]
  /\ u \in members[i] <=> belief[i][u] = "in"

\* What a handler has done of its work.
Halfway(g, i, u) ==
  /\ op[g].at \in {"name", "creator", "addMember", "check", "joinMember", "joined", "left"}
       => Agree(i, u)
  /\ op[g].at \in {"addGroup", "joinGroup"} => u \in members[i]
  /\ op[g].at = "removeGroup" => u \notin members[i]

\* Nothing has been spoiled: at most one handler is at work, and Redis hears it.
InHand(i, u) ==
  /\ (\A g \in Gateways : ~Busy(g, i, u)) => Agree(i, u)
  /\ \A g, h \in Gateways : Busy(g, i, u) /\ Busy(h, i, u) => g = h
  /\ \A g \in Gateways : Busy(g, i, u) => Linked(g) /\ Halfway(g, i, u)

AllInHand == \A i \in Ids, u \in Users : belief[i][u] # "spoiled" => InHand(i, u)

\* What is known of the members all through and at some time of a handler.
Watching(g) ==
  op[g].at \in {"check", "joinMember", "joinGroup", "joined", "removeGroup", "left", "send"}

Watched ==
  \A g \in Gateways :
    Watching(g) => stay[g] \subseteq members[op[g].id] /\ members[op[g].id] \subseteq ever[g]

-----------------------------------------------------------------------------
(* Type correctness *)

LEMMA GroupInit == Init => TypeOK /\ Placed /\ FreshIds /\ AllInHand /\ Watched
BY GroupAssumption
DEF Init, TypeOK, Placed, FreshIds, AllInHand, Watched, InHand, Busy, Agree, Halfway, Making,
    Watching, NoRoom, Idle, Ids, NoId, Places

Handlers == [at : Places, id : Ids \cup {NoId}, user : Users \cup {NoUser}]

\* A handler goes on: it is at another place, for the same group and user.
LEMMA GotoStep ==
  ASSUME TypeOK, NEW g \in Gateways, NEW place \in Places, Goto(g, place)
  PROVE  /\ op' \in [Gateways -> Handlers]
         /\ op'[g].at = place /\ op'[g].id = op[g].id /\ op'[g].user = op[g].user
         /\ \A h \in Gateways \ {g} : op'[h] = op[h]
<1>1. op[g] \in Handlers
  BY DEF TypeOK, Handlers
<1> DEFINE new == [op[g] EXCEPT !.at = place]
<1>2. new = [at |-> place, id |-> op[g].id, user |-> op[g].user]
  BY <1>1 DEF Handlers
<1>3. new \in Handlers /\ new.at = place /\ new.id = op[g].id /\ new.user = op[g].user
  BY <1>1, <1>2 DEF Handlers
<1>4. op' = [op EXCEPT ![g] = new]
  BY DEF Goto
<1> HIDE DEF new
<1> QED BY <1>3, <1>4 DEF TypeOK, Handlers

\* A handler begins.
LEMMA EnterStep ==
  ASSUME TypeOK, NEW g \in Gateways, NEW place \in Places, NEW i \in Ids, NEW u \in Users,
         Enter(g, place, i, u)
  PROVE  /\ op' \in [Gateways -> Handlers]
         /\ op'[g].at = place /\ op'[g].id = i /\ op'[g].user = u
         /\ \A h \in Gateways \ {g} : op'[h] = op[h]
BY DEF TypeOK, Handlers, Enter

\* A handler returns, or is cut off by a crash.
LEMMA ReturnStep ==
  ASSUME TypeOK, NEW g \in Gateways, Return(g)
  PROVE  /\ op' \in [Gateways -> Handlers]
         /\ op'[g] = Idle /\ op'[g].at = "idle" /\ op'[g].id = NoId
         /\ \A h \in Gateways \ {g} : op'[h] = op[h]
BY DEF TypeOK, Handlers, Return, Idle, Places

LEMMA MembersType ==
  ASSUME TypeOK, NEW g \in Gateways, NEW i \in Ids, NEW u \in Users
  PROVE  /\ AddMember(g, i, u) =>
              /\ members' \in [Ids -> SUBSET Users]
              /\ stay' \in [Gateways -> SUBSET Users] /\ ever' \in [Gateways -> SUBSET Users]
         /\ Watch(g, i) => stay' \in [Gateways -> SUBSET Users] /\ ever' \in [Gateways -> SUBSET Users]
         /\ Unwatch(g) => stay' \in [Gateways -> SUBSET Users] /\ ever' \in [Gateways -> SUBSET Users]
<1>1. ASSUME AddMember(g, i, u)
      PROVE  /\ members' \in [Ids -> SUBSET Users]
             /\ stay' \in [Gateways -> SUBSET Users] /\ ever' \in [Gateways -> SUBSET Users]
  BY <1>1 DEF TypeOK, AddMember, setAdd
<1>2. ASSUME Watch(g, i) \/ Unwatch(g)
      PROVE  stay' \in [Gateways -> SUBSET Users] /\ ever' \in [Gateways -> SUBSET Users]
  BY <1>2 DEF TypeOK, Watch, Unwatch
<1> QED BY <1>1, <1>2

LEMMA BeliefType ==
  ASSUME TypeOK, Placed, NEW g \in Gateways, NEW i \in Ids, NEW u \in Users, NEW alone \in BOOLEAN,
         NEW what \in {"in", "out"},
         Begin(i, u, alone) \/ Say(g, what) \/ CutShort(g)
  PROVE  belief' \in [Ids -> [Users -> {"in", "out", "spoiled"}]]
<1> USE DEF TypeOK
<1>1. CASE Begin(i, u, alone)
  BY <1>1 DEF Begin
<1>2. CASE Say(g, what)
  <2>1. \A j \in Ids, v \in Users :
          (IF belief[j][v] = "spoiled" THEN belief[j][v] ELSE what) \in {"in", "out", "spoiled"}
    OBVIOUS
  <2> QED BY <1>2, <2>1 DEF Say
<1>3. CASE CutShort(g)
  BY <1>3 DEF CutShort
<1> QED BY <1>1, <1>2, <1>3

LEMMA GroupTypeStep == TypeOK /\ Placed /\ [Next]_vars => TypeOK' /\ Placed'
<1> SUFFICES ASSUME TypeOK, Placed, [Next]_vars PROVE TypeOK' /\ Placed'
  OBVIOUS
<1> USE GroupAssumption
<1>1. CASE UNCHANGED vars
  BY <1>1 DEF vars, redis, history, TypeOK, Placed
<1>2. ASSUME NEW g \in Gateways, NEW u \in Users, Login(g, u) \/ Logout(g, u)
      PROVE  TypeOK' /\ Placed'
  <2>1. local' \in [Gateways -> SUBSET Users]
    <3>1. local[g] \subseteq Users /\ local[g] \cup {u} \subseteq Users /\ local[g] \ {u} \subseteq Users
      BY DEF TypeOK
    <3>2. \/ local' = [local EXCEPT ![g] = local[g] \cup {u}]
          \/ local' = [local EXCEPT ![g] = local[g] \ {u}]
      BY <1>2 DEF Login, Logout
    <3> QED BY <3>1, <3>2 DEF TypeOK
  <2> QED BY <1>2, <2>1 DEF Login, Logout, TypeOK, Placed, redis, history
<1>3. ASSUME NEW g \in Gateways, NEW u \in Users, Create(g, u)
      PROVE  TypeOK' /\ Placed'
  <2>1. NewId \in Ids /\ counter' \in 0 .. MaxGroups
    BY <1>3 DEF Create, NewId, incr, Ids, TypeOK
  <2>2. op' \in [Gateways -> Handlers] /\ Placed'
    BY <1>3, <2>1, EnterStep DEF Create, Placed, Places
  <2>3. belief' \in [Ids -> [Users -> {"in", "out", "spoiled"}]]
    BY <1>3, <2>1, BeliefType DEF Create
  <2>4. requests' \in 0 .. MaxRequests
    BY <1>3 DEF Create, Asked, TypeOK
  <2> QED BY <1>3, <2>1, <2>2, <2>3, <2>4 DEF Create, TypeOK, Handlers
<1>4. ASSUME NEW g \in Gateways, NEW u \in Users, NEW i \in Ids, Join(g, i, u) \/ Send(g, i, u)
      PROVE  TypeOK' /\ Placed'
  <2>1. op' \in [Gateways -> Handlers] /\ Placed'
    <3>1. \E place \in {"check", "send"} : Enter(g, place, i, u)
      BY <1>4 DEF Join, Send
    <3> QED BY <3>1, EnterStep DEF Placed, Places
  <2>2. belief' \in [Ids -> [Users -> {"in", "out", "spoiled"}]]
    <3>1. CASE Join(g, i, u)
      BY <3>1, BeliefType DEF Join
    <3>2. CASE Send(g, i, u)
      BY <3>2 DEF Send, TypeOK
    <3> QED BY <1>4, <3>1, <3>2
  <2>3. stay' \in [Gateways -> SUBSET Users] /\ ever' \in [Gateways -> SUBSET Users]
    BY <1>4, MembersType DEF Join, Send
  <2>4. requests' \in 0 .. MaxRequests
    <3>1. Asked(g, u)
      BY <1>4 DEF Join, Send
    <3> QED BY <3>1 DEF Asked, TypeOK
  <2> QED BY <1>4, <2>1, <2>2, <2>3, <2>4 DEF Join, Send, TypeOK, Handlers, redis
<1>5. ASSUME NEW g \in Gateways, NEW u \in Users, NEW i \in Ids, Leave(g, i, u)
      PROVE  TypeOK' /\ Placed'
  <2>1. op' \in [Gateways -> Handlers] /\ Placed'
    BY <1>5, EnterStep DEF Leave, Placed, Places
  <2>2. belief' \in [Ids -> [Users -> {"in", "out", "spoiled"}]]
    BY <1>5, BeliefType DEF Leave, Linked
  <2>3. members' \in [Ids -> SUBSET Users]
    BY <1>5 DEF Leave, TypeOK, setRemove
  <2>4. stay' \in [Gateways -> SUBSET Users]
    BY <1>5 DEF Leave, TypeOK, setRemove
  <2>5. ever' \in [Gateways -> SUBSET Users]
    BY <1>5 DEF Leave, TypeOK
  <2>6. requests' \in 0 .. MaxRequests
    BY <1>5 DEF Leave, Asked, TypeOK
  <2> QED BY <1>5, <2>1, <2>2, <2>3, <2>4, <2>5, <2>6 DEF Leave, TypeOK, Handlers
<1>6. ASSUME NEW g \in Gateways, CreateName(g) \/ CreateCreator(g)
      PROVE  TypeOK' /\ Placed'
  <2>1. op[g].at # "idle" /\ op[g].id \in Ids /\ op[g].user \in Users
    BY <1>6 DEF CreateName, CreateCreator, At, Placed
  <2>2. op' \in [Gateways -> Handlers] /\ Placed'
    BY <1>6, <2>1, GotoStep DEF CreateName, CreateCreator, Placed, Places
  <2>3. room' \in [Ids -> [named : BOOLEAN, creator : Users \cup {NoUser}]]
    <3> DEFINE Rooms == [named : BOOLEAN, creator : Users \cup {NoUser}]
               r == room[op[g].id]
    <3>0. room \in [Ids -> Rooms]
      BY DEF TypeOK
    <3>1. /\ r \in Rooms
          /\ \A x \in BOOLEAN : [r EXCEPT !.named = x] \in Rooms
          /\ \A x \in Users \cup {NoUser} : [r EXCEPT !.creator = x] \in Rooms
      <4>1. r \in Rooms
        BY <2>1, <3>0
      <4>2. ASSUME NEW x \in BOOLEAN PROVE [r EXCEPT !.named = x] \in Rooms
        BY <4>1
      <4>3. ASSUME NEW x \in Users \cup {NoUser} PROVE [r EXCEPT !.creator = x] \in Rooms
        BY <4>1
      <4> QED BY <4>1, <4>2, <4>3
    <3>2. \/ \E x \in BOOLEAN : room' = [room EXCEPT ![op[g].id] = [r EXCEPT !.named = x]]
          \/ \E x \in Users \cup {NoUser} : room' = [room EXCEPT ![op[g].id] = [r EXCEPT !.creator = x]]
      <4>1. CASE CreateName(g)
        <5>1. setHashField(r.named, TRUE, Linked(g)) \in BOOLEAN
          BY <3>1 DEF setHashField
        <5> QED BY <4>1, <5>1 DEF CreateName
      <4>2. CASE CreateCreator(g)
        <5>1. setHashField(r.creator, op[g].user, Linked(g)) \in Users \cup {NoUser}
          BY <2>1, <3>1 DEF setHashField
        <5> QED BY <4>2, <5>1 DEF CreateCreator
      <4> QED BY <1>6, <4>1, <4>2
    <3> HIDE DEF Rooms, r
    <3>3. room' \in [Ids -> Rooms]
      BY <2>1, <3>0, <3>1, <3>2
    <3> QED BY <3>3 DEF Rooms
  <2> QED BY <1>6, <2>2, <2>3 DEF CreateName, CreateCreator, TypeOK, Handlers, history
<1>7. ASSUME NEW g \in Gateways, CreateMember(g) \/ JoinMember(g)
      PROVE  TypeOK' /\ Placed'
  <2>1. op[g].at # "idle" /\ op[g].id \in Ids /\ op[g].user \in Users
    BY <1>7 DEF CreateMember, JoinMember, At, Placed
  <2>2. op' \in [Gateways -> Handlers] /\ Placed'
    BY <1>7, <2>1, GotoStep DEF CreateMember, JoinMember, Placed, Places
  <2>3. /\ members' \in [Ids -> SUBSET Users]
        /\ stay' \in [Gateways -> SUBSET Users] /\ ever' \in [Gateways -> SUBSET Users]
    BY <1>7, <2>1, MembersType DEF CreateMember, JoinMember
  <2> QED BY <1>7, <2>2, <2>3 DEF CreateMember, JoinMember, TypeOK, Handlers
<1>8. ASSUME NEW g \in Gateways, CreateGroups(g) \/ JoinGroups(g) \/ LeaveGroups(g)
      PROVE  TypeOK' /\ Placed'
  <2>1. op[g].at # "idle" /\ op[g].id \in Ids /\ op[g].user \in Users
    BY <1>8 DEF CreateGroups, JoinGroups, LeaveGroups, At, Placed
  <2>2. op' \in [Gateways -> Handlers] /\ Placed'
    <3>1. CASE CreateGroups(g)
      BY <3>1, ReturnStep DEF CreateGroups, Placed
    <3>2. CASE JoinGroups(g) \/ LeaveGroups(g)
      BY <2>1, <3>2, GotoStep DEF JoinGroups, LeaveGroups, Placed, Places
    <3> QED BY <1>8, <3>1, <3>2
  <2>3. groupsOf' \in [Users -> SUBSET Ids]
    BY <1>8, <2>1 DEF CreateGroups, JoinGroups, LeaveGroups, TypeOK, setAdd, setRemove
  <2>4. belief' \in [Ids -> [Users -> {"in", "out", "spoiled"}]]
    BY <1>8, <2>1, BeliefType DEF CreateGroups, JoinGroups, LeaveGroups
  <2> QED BY <1>8, <2>2, <2>3, <2>4 DEF CreateGroups, JoinGroups, LeaveGroups, TypeOK, Handlers
<1>9. ASSUME NEW g \in Gateways, JoinCheck(g)
      PROVE  TypeOK' /\ Placed'
  <2>1. op[g].at # "idle" /\ op[g].id \in Ids /\ op[g].user \in Users
    BY <1>9 DEF JoinCheck, At, Placed
  <2>2. op' \in [Gateways -> Handlers] /\ Placed'
    <3>1. CASE Return(g)
      BY <3>1, ReturnStep DEF Placed
    <3>2. CASE Goto(g, "joinMember")
      BY <2>1, <3>2, GotoStep DEF Placed, Places
    <3> QED BY <1>9, <3>1, <3>2 DEF JoinCheck
  <2>3. stay' \in [Gateways -> SUBSET Users] /\ ever' \in [Gateways -> SUBSET Users]
    BY <1>9, <2>1, MembersType DEF JoinCheck, TypeOK
  <2> QED BY <1>9, <2>2, <2>3 DEF JoinCheck, TypeOK, Handlers, redis
<1>10. ASSUME NEW g \in Gateways, Tell(g)
       PROVE  TypeOK' /\ Placed'
  <2>1. op[g].at # "idle" /\ op[g].id \in Ids /\ op[g].user \in Users
    BY <1>10 DEF Tell, At, Placed
  <2>2. op' \in [Gateways -> Handlers] /\ Placed'
    BY <1>10, <2>1, GotoStep DEF Tell, Placed, Places
  <2>3. to' \in [Gateways -> SUBSET Users]
    BY <1>10, <2>1 DEF Tell, Recipients, TypeOK
  <2> QED BY <1>10, <2>2, <2>3 DEF Tell, TypeOK, Handlers, redis, history
<1>11. ASSUME NEW g \in Gateways, Told(g)
       PROVE  TypeOK' /\ Placed'
  <2>1. op' \in [Gateways -> Handlers] /\ Placed'
    BY <1>11, ReturnStep DEF Told, Placed
  <2>2. stay' \in [Gateways -> SUBSET Users] /\ ever' \in [Gateways -> SUBSET Users]
    BY <1>11 DEF Told, Unwatch, TypeOK
  <2> QED BY <1>11, <2>1, <2>2 DEF Told, TypeOK, Handlers, redis
<1>12. ASSUME NEW g \in Gateways, Cut(g)
       PROVE  TypeOK' /\ Placed'
  <2>1. belief' \in [Ids -> [Users -> {"in", "out", "spoiled"}]]
    BY <1>12 DEF Cut, CutShort, TypeOK
  <2>2. faults' \in 0 .. MaxFaults
    BY <1>12 DEF Cut, TypeOK
  <2> QED BY <1>12, <2>1, <2>2 DEF Cut, TypeOK, Placed, redis
<1>13. ASSUME NEW g \in Gateways, Crash(g)
       PROVE  TypeOK' /\ Placed'
  <2>1. op' \in [Gateways -> Handlers] /\ Placed'
    BY <1>13, ReturnStep DEF Crash, Return, Placed
  <2>2. belief' \in [Ids -> [Users -> {"in", "out", "spoiled"}]]
    BY <1>13 DEF Crash, CutShort, TypeOK
  <2>3. stay' \in [Gateways -> SUBSET Users] /\ ever' \in [Gateways -> SUBSET Users]
    BY <1>13 DEF Crash, Unwatch, TypeOK
  <2>4. faults' \in 0 .. MaxFaults
    BY <1>13 DEF Crash, TypeOK
  <2> QED BY <1>13, <2>1, <2>2, <2>3, <2>4 DEF Crash, TypeOK, Handlers, redis
<1> QED
  BY <1>1, <1>2, <1>3, <1>4, <1>5, <1>6, <1>7, <1>8, <1>9, <1>10, <1>11, <1>12, <1>13
  DEF Next, Request, Handler, CreateStep, JoinStep

\* Every reachable state is well typed.
THEOREM GroupTypeCorrect == Spec => []TypeOK
<1>1. Init => TypeOK /\ Placed
  BY GroupInit
<1>2. TypeOK /\ Placed /\ [Next]_vars => (TypeOK /\ Placed)'
  BY GroupTypeStep
<1> QED BY <1>1, <1>2, PTL DEF Spec

-----------------------------------------------------------------------------
(* Ids and creators *)

\* HSET of one field of a group's hash leaves the others alone.
LEMMA CreatorAfter ==
  ASSUME TypeOK, Placed, NEW g \in Gateways
  PROVE  /\ CreateName(g) => \A i \in Ids : room'[i].creator = room[i].creator
         /\ CreateCreator(g) => \A i \in Ids \ {op[g].id} : room'[i] = room[i]
<1>1. ASSUME CreateName(g), NEW i \in Ids PROVE room'[i].creator = room[i].creator
  <2>1. room[i] \in [named : BOOLEAN, creator : Users \cup {NoUser}]
    BY DEF TypeOK
  <2>2. op[g].id \in Ids
    BY <1>1 DEF CreateName, At, Placed
  <2>3. PICK x : room' = [room EXCEPT ![op[g].id].named = x]
    BY <1>1 DEF CreateName
  <2>4. CASE i = op[g].id
    <3>1. room'[i] = [room[i] EXCEPT !.named = x]
      BY <2>3, <2>4 DEF TypeOK
    <3> QED BY <2>1, <3>1
  <2>5. CASE i # op[g].id
    BY <2>3, <2>5 DEF TypeOK
  <2> QED BY <2>4, <2>5
<1>2. ASSUME CreateCreator(g), NEW i \in Ids \ {op[g].id} PROVE room'[i] = room[i]
  BY <1>2 DEF CreateCreator, TypeOK
<1> QED BY <1>1, <1>2

\* What most handlers do to ids: nothing.
LEMMA FreshKept ==
  ASSUME FreshIds, UNCHANGED <<counter, room>>,
         \A g \in Gateways : Making(g)' => Making(g) /\ op'[g].id = op[g].id
  PROVE  FreshIds'
<1>1. \A g \in Gateways : Making(g)' => op'[g].id <= counter' /\ room'[op'[g].id].creator = NoUser
  BY DEF FreshIds
<1>2. \A g, h \in Gateways : Making(g)' /\ Making(h)' /\ op'[g].id = op'[h].id => g = h
  BY DEF FreshIds
<1> QED BY <1>1, <1>2 DEF FreshIds, Making

LEMMA FreshStep == TypeOK /\ Placed /\ FreshIds /\ [Next]_vars => FreshIds'
<1> SUFFICES ASSUME TypeOK, Placed, FreshIds, [Next]_vars PROVE FreshIds'
  OBVIOUS
<1>1. ASSUME NEW g \in Gateways, NEW u \in Users, Create(g, u) PROVE FreshIds'
  <2>1. counter \in Nat /\ counter' = counter + 1 /\ counter' \in Ids /\ room' = room
    BY <1>1, GroupAssumption DEF Create, NewId, incr, Ids, TypeOK
  <2>2. /\ op'[g].at = "name" /\ op'[g].id = counter + 1
        /\ \A h \in Gateways \ {g} : op'[h] = op[h]
    BY <1>1, <2>1, EnterStep DEF Create, Places, NewId, incr
  <2>3. \A h \in Gateways \ {g} : Making(h)' => Making(h) /\ op'[h].id = op[h].id /\ op[h].id \in Ids
    BY <2>2 DEF Making, Placed
  <2>4. \A i \in Ids : i \in Nat
    BY GroupAssumption DEF Ids
  <2>5. \A i \in Ids : i > counter' => room'[i].creator = NoUser
    BY <2>1, <2>4 DEF FreshIds
  <2>6. \A h \in Gateways : Making(h)' => op'[h].id <= counter' /\ room'[op'[h].id].creator = NoUser
    <3>1. op'[g].id <= counter' /\ room'[op'[g].id].creator = NoUser
      <4>1. counter + 1 \in Ids /\ counter + 1 > counter /\ op'[g].id = counter'
        BY <2>1, <2>2, <2>4
      <4> QED BY <2>1, <2>2, <4>1 DEF FreshIds
    <3>2. ASSUME NEW h \in Gateways \ {g}, Making(h)'
          PROVE  op'[h].id <= counter' /\ room'[op'[h].id].creator = NoUser
      <4>1. op[h].id <= counter /\ op[h].id \in Nat /\ room[op[h].id].creator = NoUser
        BY <2>3, <2>4, <3>2 DEF FreshIds
      <4> QED BY <2>1, <2>3, <3>2, <4>1
    <3> QED BY <3>1, <3>2
  <2>7. \A h \in Gateways \ {g} : Making(h)' => op'[h].id # op'[g].id
    BY <2>1, <2>2, <2>3, <2>4 DEF FreshIds
  <2>8. \A h, k \in Gateways : Making(h)' /\ Making(k)' /\ op'[h].id = op'[k].id => h = k
    BY <2>3, <2>7 DEF FreshIds
  <2> QED BY <2>5, <2>6, <2>8 DEF FreshIds, Making
<1>2. ASSUME NEW g \in Gateways, CreateName(g) PROVE FreshIds'
  <2>1. op[g].at = "name" /\ counter' = counter
    BY <1>2 DEF CreateName, At
  <2>2. \A i \in Ids : room'[i].creator = room[i].creator
    BY <1>2, CreatorAfter
  <2>3. \A h \in Gateways : Making(h)' => Making(h) /\ op'[h].id = op[h].id /\ op[h].id \in Ids
    BY <1>2, <2>1, GotoStep DEF CreateName, Making, Placed, Places
  <2>4. \A h \in Gateways : Making(h)' => op'[h].id <= counter' /\ room'[op'[h].id].creator = NoUser
    BY <2>1, <2>2, <2>3 DEF FreshIds
  <2>5. \A h, k \in Gateways : Making(h)' /\ Making(k)' /\ op'[h].id = op'[k].id => h = k
    BY <2>3 DEF FreshIds
  <2>6. \A i \in Ids : i > counter' => room'[i].creator = NoUser
    BY <2>1, <2>2 DEF FreshIds
  <2> QED BY <2>4, <2>5, <2>6 DEF FreshIds, Making
<1>3. ASSUME NEW g \in Gateways, CreateCreator(g) PROVE FreshIds'
  <2>1. op[g].at = "creator" /\ Making(g) /\ counter' = counter /\ op[g].id \in Ids
    BY <1>3 DEF CreateCreator, At, Making, Placed
  <2>2. \A i \in Ids \ {op[g].id} : room'[i] = room[i]
    BY <1>3, CreatorAfter
  <2>3. ~Making(g)'
    BY <1>3, GotoStep DEF CreateCreator, Making, Places
  <2>4. \A h \in Gateways \ {g} : op'[h] = op[h]
    BY <1>3, GotoStep DEF CreateCreator, Places
  <2>5. \A h \in Gateways : Making(h)' =>
          Making(h) /\ op'[h].id = op[h].id /\ op[h].id \in Ids \ {op[g].id}
    BY <2>1, <2>3, <2>4 DEF Making, Placed, FreshIds
  <2>6. \A h \in Gateways : Making(h)' => op'[h].id <= counter' /\ room'[op'[h].id].creator = NoUser
    BY <2>1, <2>2, <2>5 DEF FreshIds
  <2>7. \A h, k \in Gateways : Making(h)' /\ Making(k)' /\ op'[h].id = op'[k].id => h = k
    BY <2>5 DEF FreshIds
  <2>8. op[g].id <= counter /\ counter \in Nat /\ op[g].id \in Nat
    BY <2>1, GroupAssumption DEF FreshIds, TypeOK, Ids
  <2>9. \A i \in Ids : i > counter' => room'[i].creator = NoUser
    BY <2>1, <2>2, <2>8 DEF FreshIds
  <2> QED BY <2>6, <2>7, <2>9 DEF FreshIds, Making
<1>4. ASSUME NEW g \in Gateways, NEW u \in Users, NEW i \in Ids,
             Join(g, i, u) \/ Leave(g, i, u) \/ Send(g, i, u)
      PROVE  FreshIds'
  <2>1. \E place \in {"check", "removeGroup", "send"} : Enter(g, place, i, u)
    BY <1>4 DEF Join, Leave, Send
  <2>2. \A h \in Gateways : Making(h)' => Making(h) /\ op'[h].id = op[h].id
    BY <2>1, EnterStep DEF Making, Places
  <2> QED BY <1>4, <2>2, FreshKept DEF Join, Leave, Send, redis
<1>5. ASSUME NEW g \in Gateways,
             \/ CreateMember(g) \/ JoinMember(g) \/ JoinGroups(g)
             \/ LeaveGroups(g) \/ Tell(g) \/ (JoinCheck(g) /\ Goto(g, "joinMember"))
      PROVE  FreshIds'
  <2>1. \E place \in {"addGroup", "joinMember", "joinGroup", "joined", "left", "told"} : Goto(g, place)
    BY <1>5 DEF CreateMember, JoinMember, JoinGroups, LeaveGroups, Tell
  <2>2. \A h \in Gateways : Making(h)' => Making(h) /\ op'[h].id = op[h].id
    BY <2>1, GotoStep DEF Making, Places
  <2> QED BY <1>5, <2>2, FreshKept
          DEF CreateMember, JoinMember, JoinGroups, LeaveGroups, Tell, JoinCheck, redis
<1>6. ASSUME NEW g \in Gateways,
             CreateGroups(g) \/ Told(g) \/ Crash(g) \/ (JoinCheck(g) /\ Return(g))
      PROVE  FreshIds'
  <2>1. Return(g)
    BY <1>6 DEF CreateGroups, Told, Crash, Return
  <2>2. \A h \in Gateways : Making(h)' => Making(h) /\ op'[h].id = op[h].id
    BY <2>1, ReturnStep DEF Making
  <2> QED BY <1>6, <2>2, FreshKept DEF CreateGroups, Told, Crash, JoinCheck, redis
<1>7. ASSUME NEW g \in Gateways, NEW u \in Users, Login(g, u) \/ Logout(g, u)
      PROVE  FreshIds'
  BY <1>7, FreshKept DEF Login, Logout, Making, redis
<1>8. ASSUME NEW g \in Gateways, Cut(g) PROVE FreshIds'
  BY <1>8, FreshKept DEF Cut, Making, redis
<1>9. CASE UNCHANGED vars
  BY <1>9, FreshKept DEF vars, Making, redis
<1>10. ASSUME NEW g \in Gateways, JoinCheck(g) PROVE FreshIds'
  BY <1>10, <1>5, <1>6 DEF JoinCheck
<1> QED
  BY <1>1, <1>2, <1>3, <1>4, <1>5, <1>6, <1>7, <1>8, <1>9, <1>10
  DEF Next, Request, Handler, CreateStep, JoinStep

LEMMA GroupInvariant == Spec => [](TypeOK /\ Placed /\ FreshIds)
<1>1. Init => TypeOK /\ Placed /\ FreshIds
  BY GroupInit
<1>2. (TypeOK /\ Placed /\ FreshIds) /\ [Next]_vars => (TypeOK /\ Placed /\ FreshIds)'
  BY GroupTypeStep, FreshStep
<1> QED BY <1>1, <1>2, PTL DEF Spec

\* A group keeps its creator, whatever other gateways create meanwhile: INCR
\* gives an id nobody has had (generateGroupId, createGroup).
THEOREM CreatorsKept == Spec => CreatorKept
<1> DEFINE Kept == \A i \in Ids : room[i].creator # NoUser => room'[i].creator = room[i].creator
<1>1. ASSUME TypeOK, Placed, FreshIds, [Next]_vars PROVE [Kept]_vars
  <2>1. ASSUME NEW g \in Gateways, CreateName(g) PROVE Kept
    BY <1>1, <2>1, CreatorAfter
  <2>2. ASSUME NEW g \in Gateways, CreateCreator(g) PROVE Kept
    <3>1. room[op[g].id].creator = NoUser
      BY <1>1, <2>2 DEF CreateCreator, At, Making, FreshIds
    <3> QED BY <1>1, <2>2, <3>1, CreatorAfter
  <2>3. CASE room' = room
    BY <2>3
  <2>4. CASE \A g \in Gateways : ~CreateName(g) /\ ~CreateCreator(g)
    <3>1. ASSUME NEW g \in Gateways, Request(g) PROVE room' = room
      BY <3>1 DEF Request, Login, Logout, Create, Join, Leave, Send, redis
    <3>2. ASSUME NEW g \in Gateways, Handler(g) PROVE room' = room
      BY <2>4, <3>2
      DEF Handler, CreateStep, JoinStep, CreateMember, CreateGroups, JoinCheck,
          JoinMember, JoinGroups, LeaveGroups, Tell, Told, redis
    <3>3. ASSUME NEW g \in Gateways, Cut(g) \/ Crash(g) PROVE room' = room
      BY <3>3 DEF Cut, Crash, redis
    <3> QED BY <1>1, <2>3, <3>1, <3>2, <3>3 DEF Next, vars, redis
  <2> QED BY <2>1, <2>2, <2>4
<1> QED BY <1>1, GroupInvariant, PTL DEF CreatorKept, Spec

-----------------------------------------------------------------------------
(* The two indexes *)

\* A step that leaves what Redis and the user know of u in i as it is.
Same(i, u) ==
  /\ u \in members'[i] <=> u \in members[i]
  /\ i \in groupsOf'[u] <=> i \in groupsOf[u]
  /\ belief'[i][u] = belief[i][u]

\* What a step of g has to see to, so that u and i stay in hand.
LEMMA HandStep ==
  ASSUME NEW g \in Gateways, NEW i \in Ids, NEW u \in Users, InHand(i, u),
         \A h \in Gateways \ {g} : op'[h] = op[h] /\ (Linked(h) => Linked(h)'),
         Busy(g, i, u) \/ Same(i, u),
         Busy(g, i, u)' => /\ Busy(g, i, u) \/ (\A h \in Gateways : ~Busy(h, i, u))
                           /\ Linked(g)' /\ Halfway(g, i, u)',
         Busy(g, i, u) /\ ~Busy(g, i, u)' => Agree(i, u)'
  PROVE  InHand(i, u)'
<1>1. \A h \in Gateways \ {g} : Busy(h, i, u)' <=> Busy(h, i, u)
  BY DEF Busy
<1>2. ASSUME Same(i, u) PROVE Agree(i, u)' <=> Agree(i, u)
  BY <1>2 DEF Same, Agree
<1>3. (\A h \in Gateways : ~Busy(h, i, u)') => Agree(i, u)'
  BY <1>1, <1>2 DEF InHand
<1>4. \A h, k \in Gateways : Busy(h, i, u)' /\ Busy(k, i, u)' => h = k
  BY <1>1 DEF InHand
<1>5. ASSUME NEW h \in Gateways \ {g}, Busy(h, i, u)' PROVE Linked(h)' /\ Halfway(h, i, u)'
  <2>1. Busy(h, i, u) /\ Linked(h) /\ Halfway(h, i, u) /\ ~Busy(g, i, u)
    BY <1>1, <1>5 DEF InHand
  <2>2. Same(i, u) /\ op'[h] = op[h]
    BY <2>1
  <2> QED BY <1>2, <2>1, <2>2 DEF Halfway, Same
<1> QED BY <1>3, <1>4, <1>5 DEF InHand

\* Changing lists the handlers that are busy with u and i.
LEMMA ChangingBusy ==
  \A i \in Ids, u \in Users :
    Changing(i, u) = {} <=> \A g \in Gateways : ~Busy(g, i, u)
BY DEF Changing, Busy

\* What was spoiled stays spoiled.
LEMMA StaysSpoiled ==
  ASSUME TypeOK, Placed, [Next]_vars, NEW i \in Ids, NEW u \in Users, belief[i][u] = "spoiled"
  PROVE  belief'[i][u] = "spoiled"
<1>1. ASSUME NEW j \in Ids, NEW v \in Users, NEW alone \in BOOLEAN, Begin(j, v, alone)
      PROVE  belief'[i][u] = "spoiled"
  BY <1>1 DEF Begin, TypeOK
<1>2. ASSUME NEW g \in Gateways, NEW what, Say(g, what)
      PROVE  belief'[i][u] = "spoiled"
  BY <1>2 DEF Say, TypeOK
<1>3. ASSUME NEW g \in Gateways, CutShort(g)
      PROVE  belief'[i][u] = "spoiled"
  BY <1>3 DEF CutShort, TypeOK
<1>4. ASSUME NEW g \in Gateways, Request(g) PROVE belief'[i][u] = "spoiled"
  <2>1. ASSUME NEW v \in Users, Login(g, v) \/ Logout(g, v) PROVE belief'[i][u] = "spoiled"
    BY <2>1 DEF Login, Logout, history
  <2>2. ASSUME NEW v \in Users, Create(g, v) PROVE belief'[i][u] = "spoiled"
    <3>1. NewId \in Ids
      BY <2>2, GroupAssumption DEF Create, NewId, incr, Ids, TypeOK
    <3> QED BY <1>1, <2>2, <3>1 DEF Create
  <2>3. ASSUME NEW v \in Users, NEW j \in Ids, Join(g, j, v) \/ Leave(g, j, v) \/ Send(g, j, v)
        PROVE  belief'[i][u] = "spoiled"
    <3>1. Linked(g) \in BOOLEAN
      BY DEF Linked
    <3> QED BY <1>1, <2>3, <3>1 DEF Join, Leave, Send
  <2> QED BY <1>4, <2>1, <2>2, <2>3 DEF Request
<1>5. ASSUME NEW g \in Gateways, Handler(g) PROVE belief'[i][u] = "spoiled"
  BY <1>2, <1>5
  DEF Handler, CreateStep, JoinStep, CreateName, CreateCreator, CreateMember, CreateGroups,
      JoinCheck, JoinMember, JoinGroups, LeaveGroups, Tell, Told, history
<1>6. ASSUME NEW g \in Gateways, Cut(g) \/ Crash(g) PROVE belief'[i][u] = "spoiled"
  BY <1>3, <1>6 DEF Cut, Crash
<1>7. CASE UNCHANGED vars
  BY <1>7 DEF vars, history
<1> QED BY <1>4, <1>5, <1>6, <1>7 DEF Next

\* A handler that begins spoils what others are at work on, and nothing else.
LEMMA BeginFacts ==
  ASSUME TypeOK, NEW i \in Ids, NEW u \in Users, NEW alone \in BOOLEAN, Begin(i, u, alone)
  PROVE  /\ \A j \in Ids, v \in Users : j # i \/ v # u => belief'[j][v] = belief[j][v]
         /\ belief'[i][u] # "spoiled" =>
              belief' = belief /\ alone /\ \A h \in Gateways : ~Busy(h, i, u)
BY ChangingBusy DEF Begin, TypeOK

\* A handler speaks to its user about its group only.
LEMMA SayFacts ==
  ASSUME TypeOK, Placed, NEW g \in Gateways, op[g].at # "idle", NEW what, Say(g, what)
  PROVE  /\ \A j \in Ids, v \in Users : j # op[g].id \/ v # op[g].user => belief'[j][v] = belief[j][v]
         /\ belief'[op[g].id][op[g].user] = IF belief[op[g].id][op[g].user] = "spoiled"
                                              THEN "spoiled" ELSE what
BY DEF Say, TypeOK, Placed

\* A handler that is cut short spoils what it was at work on.
LEMMA CutShortFacts ==
  ASSUME TypeOK, Placed, NEW g \in Gateways, CutShort(g), NEW i \in Ids, NEW u \in Users,
         belief'[i][u] # "spoiled"
  PROVE  ~Busy(g, i, u) /\ belief'[i][u] = belief[i][u]
<1>1. CASE op[g].at \in {"idle", "send", "told"}
  <2>1. op[g].at = "idle" => op[g].id \notin Ids
    BY GroupAssumption DEF Placed, Idle, NoId, Ids
  <2> QED BY <1>1, <2>1 DEF CutShort, Busy
<1>2. CASE op[g].at \notin {"idle", "send", "told"}
  BY <1>2 DEF CutShort, Busy, TypeOK, Placed
<1> QED BY <1>1, <1>2

\* A request: its handler begins.
LEMMA RequestInHand ==
  ASSUME TypeOK, Placed, NEW g \in Gateways, Request(g),
         NEW i \in Ids, NEW u \in Users, belief'[i][u] # "spoiled", InHand(i, u)
  PROVE  InHand(i, u)'
<1> USE GroupAssumption
<1>1. ASSUME NEW v \in Users, Login(g, v) \/ Logout(g, v) PROVE InHand(i, u)'
  BY <1>1 DEF Login, Logout, InHand, Busy, Agree, Halfway, Linked, redis, history
<1>2. ~Busy(g, i, u) \/ ~At(g, "idle")
  BY DEF Busy, At, Placed, Idle, NoId, Ids
<1>3. ASSUME NEW v \in Users, Create(g, v) PROVE InHand(i, u)'
  <2>1. NewId \in Ids /\ At(g, "idle") /\ Linked(g) /\ Enter(g, "name", NewId, v)
    BY <1>3 DEF Create, Asked, NewId, incr, Ids, TypeOK
  <2>2. /\ op'[g].at = "name" /\ op'[g].id = NewId /\ op'[g].user = v
        /\ \A h \in Gateways \ {g} : op'[h] = op[h]
    BY <2>1, EnterStep DEF Places
  <2>3. status' = status /\ members' = members /\ groupsOf' = groupsOf
    BY <1>3 DEF Create
  <2>4. belief'[i][u] = belief[i][u] /\ (i = NewId /\ u = v => \A h \in Gateways : ~Busy(h, i, u))
    BY <1>3, <2>1, BeginFacts DEF Create
  <2>5. Same(i, u)
    BY <2>3, <2>4 DEF Same
  <2>6. Busy(g, i, u)' => i = NewId /\ u = v
    BY <2>2 DEF Busy
  <2>7. Busy(g, i, u)' => Halfway(g, i, u)'
    BY <2>2, <2>3, <2>4, <2>6 DEF Halfway, InHand, Agree
  <2> QED BY <1>2, <2>1, <2>2, <2>3, <2>4, <2>5, <2>6, <2>7, HandStep DEF Linked
<1>4. ASSUME NEW v \in Users, NEW j \in Ids, Join(g, j, v) PROVE InHand(i, u)'
  <2>1. At(g, "idle") /\ Linked(g) /\ Enter(g, "check", j, v)
    BY <1>4 DEF Join, Asked, Exists, getHashField
  <2>2. /\ op'[g].at = "check" /\ op'[g].id = j /\ op'[g].user = v
        /\ \A h \in Gateways \ {g} : op'[h] = op[h]
    BY <2>1, EnterStep DEF Places
  <2>3. status' = status /\ members' = members /\ groupsOf' = groupsOf
    BY <1>4 DEF Join, redis
  <2>4. belief'[i][u] = belief[i][u] /\ (i = j /\ u = v => \A h \in Gateways : ~Busy(h, i, u))
    BY <1>4, <2>1, BeginFacts DEF Join
  <2>5. Same(i, u)
    BY <2>3, <2>4 DEF Same
  <2>6. Busy(g, i, u)' => i = j /\ u = v
    BY <2>2 DEF Busy
  <2>7. Busy(g, i, u)' => Halfway(g, i, u)'
    BY <2>2, <2>3, <2>4, <2>6 DEF Halfway, InHand, Agree
  <2> QED BY <1>2, <2>1, <2>2, <2>3, <2>4, <2>5, <2>6, <2>7, HandStep DEF Linked
<1>5. ASSUME NEW v \in Users, NEW j \in Ids, Leave(g, j, v) PROVE InHand(i, u)'
  <2>1. At(g, "idle") /\ Enter(g, "removeGroup", j, v)
    BY <1>5 DEF Leave, Asked
  <2>2. /\ op'[g].at = "removeGroup" /\ op'[g].id = j /\ op'[g].user = v
        /\ \A h \in Gateways \ {g} : op'[h] = op[h]
    BY <2>1, EnterStep DEF Places
  <2>3. status' = status /\ groupsOf' = groupsOf
    BY <1>5 DEF Leave
  <2>4. /\ belief'[i][u] = belief[i][u]
        /\ i = j /\ u = v => Linked(g) /\ \A h \in Gateways : ~Busy(h, i, u)
    BY <1>5, BeginFacts DEF Leave, Linked
  <2>5. i # j \/ u # v => Same(i, u)
    BY <1>5, <2>3, <2>4 DEF Same, Leave, setRemove, TypeOK
  <2>6. i = j /\ u = v => u \notin members'[i]
    BY <1>5, <2>4 DEF Leave, setRemove, TypeOK
  <2>7. CASE i = j /\ u = v
    <3>1. \A h \in Gateways : Busy(h, i, u)' => h = g
      BY <2>2, <2>4, <2>7 DEF Busy
    <3>2. Busy(g, i, u)'
      BY <2>2, <2>7 DEF Busy
    <3>3. Linked(g)' /\ Halfway(g, i, u)'
      BY <2>2, <2>3, <2>4, <2>6, <2>7 DEF Halfway, Linked
    <3> QED BY <3>1, <3>2, <3>3 DEF InHand
  <2>8. CASE i # j \/ u # v
    <3>1. ~Busy(g, i, u)'
      BY <2>2, <2>8 DEF Busy
    <3> QED BY <1>2, <2>1, <2>2, <2>3, <2>5, <2>8, <3>1, HandStep DEF Linked
  <2> QED BY <2>7, <2>8
<1>6. ASSUME NEW v \in Users, NEW j \in Ids, Send(g, j, v) PROVE InHand(i, u)'
  <2>1. At(g, "idle") /\ Enter(g, "send", j, v)
    BY <1>6 DEF Send, Asked
  <2>2. op'[g].at = "send" /\ \A h \in Gateways \ {g} : op'[h] = op[h]
    BY <2>1, EnterStep DEF Places
  <2>3. status' = status /\ Same(i, u) /\ ~Busy(g, i, u)'
    BY <1>6, <2>2 DEF Send, redis, Same, Busy
  <2> QED BY <1>2, <2>1, <2>2, <2>3, HandStep DEF Linked
<1> QED BY <1>1, <1>3, <1>4, <1>5, <1>6 DEF Request

\* A handler goes on, or returns.
LEMMA HandlerInHand ==
  ASSUME TypeOK, Placed, NEW g \in Gateways, Handler(g),
         NEW i \in Ids, NEW u \in Users, belief'[i][u] # "spoiled", InHand(i, u)
  PROVE  InHand(i, u)'
<1>1. op[g].at # "idle" /\ op[g].id \in Ids /\ op[g].user \in Users
  BY DEF Handler, CreateStep, JoinStep, CreateName, CreateCreator, CreateMember, CreateGroups,
         JoinCheck, JoinMember, JoinGroups, LeaveGroups, Tell, Told, At, Placed
<1> DEFINE mine == i = op[g].id /\ u = op[g].user
<1>2. \A h \in Gateways : (Linked(h) => Linked(h)') /\ (Linked(g) => Linked(g)')
  BY DEF Handler, CreateStep, JoinStep, CreateName, CreateCreator, CreateMember, CreateGroups,
         JoinCheck, JoinMember, JoinGroups, LeaveGroups, Tell, Told, Linked
<1>3. Busy(g, i, u) => mine /\ Linked(g) /\ Halfway(g, i, u)
  BY DEF Busy, InHand
<1>4. ASSUME CreateName(g) \/ CreateCreator(g) PROVE InHand(i, u)'
  <2>1. op[g].at \in {"name", "creator"} /\ Same(i, u)
    BY <1>4 DEF CreateName, CreateCreator, At, Same, history
  <2>2. \E place \in {"creator", "addMember"} : Goto(g, place)
    BY <1>4 DEF CreateName, CreateCreator
  <2>3. /\ op'[g].at \in {"creator", "addMember"}
        /\ op'[g].id = op[g].id /\ op'[g].user = op[g].user
        /\ \A h \in Gateways \ {g} : op'[h] = op[h]
    BY <2>2, GotoStep DEF Places
  <2>4. Busy(g, i, u)' <=> Busy(g, i, u)
    BY <2>1, <2>3 DEF Busy
  <2>5. Busy(g, i, u) => Halfway(g, i, u)'
    BY <1>3, <2>1, <2>3 DEF Halfway, Agree, Same
  <2> QED BY <1>2, <1>3, <2>1, <2>3, <2>4, <2>5, HandStep
<1>5. ASSUME CreateMember(g) \/ JoinMember(g) PROVE InHand(i, u)'
  <2>1. /\ op[g].at \in {"addMember", "joinMember"} /\ AddMember(g, op[g].id, op[g].user)
        /\ UNCHANGED <<groupsOf, belief>>
    BY <1>5 DEF CreateMember, JoinMember, At
  <2>2. \E place \in {"addGroup", "joinGroup"} : Goto(g, place)
    BY <1>5 DEF CreateMember, JoinMember
  <2>3. /\ op'[g].at \in {"addGroup", "joinGroup"}
        /\ op'[g].id = op[g].id /\ op'[g].user = op[g].user
        /\ \A h \in Gateways \ {g} : op'[h] = op[h]
    BY <2>2, GotoStep DEF Places
  <2>4. ~mine => Same(i, u)
    BY <2>1 DEF AddMember, setAdd, Same, TypeOK
  <2>5. mine /\ Linked(g) => u \in members'[i]
    BY <2>1 DEF AddMember, setAdd, TypeOK
  <2>6. (Busy(g, i, u)' <=> Busy(g, i, u)) /\ (Busy(g, i, u) <=> mine)
    BY <2>1, <2>3 DEF Busy
  <2>7. Busy(g, i, u) => Halfway(g, i, u)'
    BY <1>3, <2>3, <2>5 DEF Halfway
  <2> QED BY <1>2, <1>3, <2>3, <2>4, <2>6, <2>7, HandStep
<1>6. ASSUME CreateGroups(g) \/ JoinGroups(g) PROVE InHand(i, u)'
  <2>1. /\ op[g].at \in {"addGroup", "joinGroup"} /\ Say(g, "in") /\ members' = members
        /\ groupsOf' = [groupsOf EXCEPT ![op[g].user] = setAdd(@, op[g].id, Linked(g))]
    BY <1>6 DEF CreateGroups, JoinGroups, At
  <2>2. Return(g) \/ Goto(g, "joined")
    BY <1>6 DEF CreateGroups, JoinGroups
  <2>3. /\ op'[g].at \in {"idle", "joined"}
        /\ op'[g].at = "joined" => op'[g].id = op[g].id /\ op'[g].user = op[g].user
        /\ op'[g].at = "idle" => op'[g].id = NoId
        /\ \A h \in Gateways \ {g} : op'[h] = op[h]
    BY <2>2, GotoStep, ReturnStep DEF Places
  <2>4. ~mine => Same(i, u)
    BY <1>1, <2>1, SayFacts DEF setAdd, Same, TypeOK
  <2>5. mine /\ Linked(g) => i \in groupsOf'[u] /\ belief'[i][u] = "in"
    <3>1. mine => belief'[i][u] = "in"
      BY <1>1, <2>1, SayFacts
    <3>2. mine /\ Linked(g) => i \in groupsOf'[u]
      BY <1>1, <2>1 DEF setAdd, TypeOK
    <3> QED BY <3>1, <3>2
  <2>6. Busy(g, i, u) <=> mine
    BY <2>1 DEF Busy
  <2>7. Busy(g, i, u)' => mine
    BY <2>3, GroupAssumption DEF Busy, Ids, NoId
  <2>8. mine => Agree(i, u)'
    <3>1. mine => Linked(g) /\ u \in members[i]
      BY <1>3, <2>1, <2>6 DEF Halfway
    <3> QED BY <2>1, <2>5, <3>1 DEF Agree
  <2>9. Busy(g, i, u)' => Halfway(g, i, u)'
    BY <2>3, <2>7, <2>8 DEF Halfway
  <2> QED BY <1>2, <1>3, <2>3, <2>4, <2>6, <2>7, <2>8, <2>9, HandStep
<1>7. ASSUME LeaveGroups(g) PROVE InHand(i, u)'
  <2>1. /\ op[g].at = "removeGroup" /\ Say(g, "out") /\ members' = members
        /\ groupsOf' = [groupsOf EXCEPT ![op[g].user] = setRemove(@, op[g].id, Linked(g))]
        /\ Goto(g, "left")
    BY <1>7 DEF LeaveGroups, At
  <2>2. /\ op'[g].at = "left" /\ op'[g].id = op[g].id /\ op'[g].user = op[g].user
        /\ \A h \in Gateways \ {g} : op'[h] = op[h]
    BY <2>1, GotoStep DEF Places
  <2>3. ~mine => Same(i, u)
    <3>1. ~mine => belief'[i][u] = belief[i][u]
      BY <1>1, <2>1, SayFacts
    <3>2. ~mine => (i \in groupsOf'[u] <=> i \in groupsOf[u])
      BY <1>1, <2>1 DEF setRemove, TypeOK
    <3> QED BY <2>1, <3>1, <3>2 DEF Same
  <2>4. mine /\ Linked(g) => i \notin groupsOf'[u] /\ belief'[i][u] = "out"
    <3>1. mine => belief'[i][u] = "out"
      BY <1>1, <2>1, SayFacts
    <3>2. mine /\ Linked(g) => i \notin groupsOf'[u]
      BY <1>1, <2>1 DEF setRemove, TypeOK
    <3> QED BY <3>1, <3>2
  <2>5. (Busy(g, i, u) <=> mine) /\ (Busy(g, i, u)' <=> mine)
    BY <2>1, <2>2 DEF Busy
  <2>6. mine => Agree(i, u)'
    <3>1. mine => Linked(g) /\ u \notin members[i]
      BY <1>3, <2>1, <2>5 DEF Halfway
    <3> QED BY <2>1, <2>4, <3>1 DEF Agree
  <2>7. Busy(g, i, u)' => Halfway(g, i, u)'
    BY <2>2, <2>5, <2>6 DEF Halfway
  <2> QED BY <1>2, <1>3, <2>2, <2>3, <2>5, <2>7, HandStep
<1>8. ASSUME JoinCheck(g) PROVE InHand(i, u)'
  <2>1. op[g].at = "check" /\ Same(i, u) /\ (Return(g) \/ Goto(g, "joinMember"))
    BY <1>8 DEF JoinCheck, At, Same, redis
  <2>2. /\ op'[g].at \in {"idle", "joinMember"}
        /\ op'[g].at = "joinMember" => op'[g].id = op[g].id /\ op'[g].user = op[g].user
        /\ op'[g].at = "idle" => op'[g].id = NoId
        /\ \A h \in Gateways \ {g} : op'[h] = op[h]
    BY <2>1, GotoStep, ReturnStep DEF Places
  <2>3. (Busy(g, i, u) <=> mine) /\ (Busy(g, i, u)' => mine)
    BY <2>1, <2>2, GroupAssumption DEF Busy, Ids, NoId
  <2>4. mine => Agree(i, u)'
    BY <1>3, <2>1, <2>3 DEF Halfway, Agree, Same
  <2>5. Busy(g, i, u)' => Halfway(g, i, u)'
    BY <2>2, <2>3, <2>4 DEF Halfway
  <2> QED BY <1>2, <1>3, <2>1, <2>2, <2>3, <2>4, <2>5, HandStep
<1>9. ASSUME Tell(g) \/ Told(g) PROVE InHand(i, u)'
  <2>1. Same(i, u) /\ (Return(g) \/ Goto(g, "told")) /\ op[g].at \in {"joined", "left", "send", "told"}
    BY <1>9 DEF Tell, Told, At, Same, redis, history
  <2>2. /\ op'[g].at \in {"idle", "told"}
        /\ op'[g].at = "idle" => op'[g].id = NoId
        /\ \A h \in Gateways \ {g} : op'[h] = op[h]
    BY <2>1, GotoStep, ReturnStep DEF Places
  <2>3. ~Busy(g, i, u)'
    BY <2>2, GroupAssumption DEF Busy, Ids, NoId
  <2>4. Busy(g, i, u) => Agree(i, u)'
    BY <1>3, <2>1 DEF Busy, Halfway, Agree, Same
  <2> QED BY <1>2, <2>1, <2>2, <2>3, <2>4, HandStep
<1> QED
  BY <1>4, <1>5, <1>6, <1>7, <1>8, <1>9 DEF Handler, CreateStep, JoinStep

\* A fault spoils what it cuts short.
LEMMA FaultInHand ==
  ASSUME TypeOK, Placed, NEW g \in Gateways, Cut(g) \/ Crash(g),
         NEW i \in Ids, NEW u \in Users, belief'[i][u] # "spoiled", InHand(i, u)
  PROVE  InHand(i, u)'
<1>1. ~Busy(g, i, u) /\ belief'[i][u] = belief[i][u]
  BY CutShortFacts DEF Cut, Crash
<1>2. Same(i, u)
  BY <1>1 DEF Same, Cut, Crash, redis
<1>3. \A h \in Gateways \ {g} : op'[h] = op[h] /\ status'[h] = status[h]
  BY DEF Cut, Crash, TypeOK
<1>4. op'[g] = op[g] \/ op'[g] = Idle
  BY DEF Cut, Crash, TypeOK
<1>5. ~Busy(g, i, u)'
  BY <1>1, <1>4, GroupAssumption DEF Busy, Idle, Ids, NoId
<1> QED BY <1>1, <1>2, <1>3, <1>5, HandStep DEF Linked

LEMMA InHandStep == TypeOK /\ Placed /\ AllInHand /\ [Next]_vars => AllInHand'
<1> SUFFICES ASSUME TypeOK, Placed, AllInHand, [Next]_vars,
                    NEW i \in Ids, NEW u \in Users, belief'[i][u] # "spoiled"
             PROVE  InHand(i, u)'
  BY DEF AllInHand
<1>1. InHand(i, u)
  BY StaysSpoiled DEF AllInHand
<1>2. CASE UNCHANGED vars
  BY <1>1, <1>2 DEF vars, redis, history, InHand, Busy, Agree, Halfway, Linked
<1> QED BY <1>1, <1>2, RequestInHand, HandlerInHand, FaultInHand DEF Next

\* However the handlers of several gateways interleave, a user and a group that
\* no two handlers were about at the same time, and no fault cut short, have one
\* membership, in both indexes and in what the user was told.
THEOREM IndexesAgree == Spec => []AgreeUnlessSpoiled
<1>1. Init => TypeOK /\ Placed /\ AllInHand
  BY GroupInit
<1>2. (TypeOK /\ Placed /\ AllInHand) /\ [Next]_vars => (TypeOK /\ Placed /\ AllInHand)'
  BY GroupTypeStep, InHandStep
<1>3. AllInHand => AgreeUnlessSpoiled
  BY ChangingBusy DEF AllInHand, InHand, Agree, AgreeUnlessSpoiled
<1> QED BY <1>1, <1>2, <1>3, PTL DEF Spec

-----------------------------------------------------------------------------
(* Who is told *)


\* SADD shows in the watch of every handler about the group.
LEMMA AddMemberFacts ==
  ASSUME TypeOK, NEW g \in Gateways, NEW i \in Ids, NEW u \in Users, AddMember(g, i, u)
  PROVE  /\ stay' = stay
         /\ \A h \in Gateways : ever[h] \subseteq ever'[h]
         /\ \A j \in Ids : members[j] \subseteq members'[j]
         /\ \A h \in Gateways, j \in Ids :
              op[h].id = j /\ members[j] \subseteq ever[h] => members'[j] \subseteq ever'[h]
<1>1. stay' = stay /\ \A h \in Gateways : ever[h] \subseteq ever'[h]
  BY DEF AddMember, setAdd, TypeOK
<1>2. \A j \in Ids : members[j] \subseteq members'[j] /\ (j # i => members'[j] = members[j])
  BY DEF AddMember, setAdd, TypeOK
<1>3. ASSUME NEW h \in Gateways, op[h].id = i, members[i] \subseteq ever[h]
      PROVE  members'[i] \subseteq ever'[h]
  BY <1>3 DEF AddMember, setAdd, TypeOK
<1> QED BY <1>1, <1>2, <1>3

\* SREM shows in the watch of every handler about the group, and begins one.
LEMMA LeaveFacts ==
  ASSUME TypeOK, NEW g \in Gateways, NEW i \in Ids, NEW u \in Users, Leave(g, i, u)
  PROVE  /\ stay'[g] \subseteq members'[i] /\ members'[i] \subseteq ever'[g]
         /\ \A h \in Gateways \ {g} : ever'[h] = ever[h] /\ stay'[h] \subseteq stay[h]
         /\ \A j \in Ids : members'[j] \subseteq members[j]
         /\ \A h \in Gateways \ {g}, j \in Ids :
              op[h].id = j /\ stay[h] \subseteq members[j] => stay'[h] \subseteq members'[j]
<1>1. members' = [members EXCEPT ![i] = setRemove(@, u, Linked(g))]
  BY DEF Leave
<1>2. /\ members'[i] = setRemove(members[i], u, Linked(g))
      /\ \A j \in Ids \ {i} : members'[j] = members[j]
  BY <1>1 DEF TypeOK
<1>3. stay'[g] = setRemove(members[i], u, Linked(g)) /\ ever'[g] = members[i]
  BY DEF Leave, TypeOK
<1>4. \A h \in Gateways \ {g} :
        /\ ever'[h] = ever[h]
        /\ stay'[h] = IF op[h].id = i THEN setRemove(stay[h], u, Linked(g)) ELSE stay[h]
  BY DEF Leave, TypeOK
<1> QED BY <1>2, <1>3, <1>4 DEF setRemove

\* A handler that returns, goes on or begins, as the watch sees it.
LEMMA WatchStep == TypeOK /\ Placed /\ Watched /\ [Next]_vars => Watched'
<1> SUFFICES ASSUME TypeOK, Placed, Watched, [Next]_vars,
                    NEW h \in Gateways, Watching(h)'
             PROVE  stay'[h] \subseteq members'[op'[h].id] /\ members'[op'[h].id] \subseteq ever'[h]
  BY DEF Watched, Watching
<1> DEFINE Kept == op'[h].id = op[h].id /\ Watching(h)
<1>1. Kept => /\ op[h].id \in Ids
              /\ stay[h] \subseteq members[op[h].id] /\ members[op[h].id] \subseteq ever[h]
  BY DEF Watched, Watching, Placed
<1>2. CASE UNCHANGED vars
  BY <1>1, <1>2 DEF vars, redis, history, Watching
<1>3. ASSUME NEW g \in Gateways, NEW u \in Users, Login(g, u) \/ Logout(g, u) \/ Create(g, u)
      PROVE  stay'[h] \subseteq members'[op'[h].id] /\ members'[op'[h].id] \subseteq ever'[h]
  <2>1. UNCHANGED <<members, stay, ever>>
    BY <1>3 DEF Login, Logout, Create, redis, history
  <2>2. Kept
    <3>1. CASE Login(g, u) \/ Logout(g, u)
      BY <3>1 DEF Login, Logout, Watching
    <3>2. CASE Create(g, u)
      <4>1. NewId \in Ids /\ Enter(g, "name", NewId, u)
        BY <3>2, GroupAssumption DEF Create, NewId, incr, Ids, TypeOK
      <4>2. op'[g].at = "name" /\ \A k \in Gateways \ {g} : op'[k] = op[k]
        BY <4>1, EnterStep DEF Places
      <4> QED BY <4>2 DEF Watching
    <3> QED BY <1>3, <3>1, <3>2
  <2> QED BY <1>1, <2>1, <2>2
<1>4. ASSUME NEW g \in Gateways, NEW u \in Users, NEW i \in Ids, Join(g, i, u) \/ Send(g, i, u)
      PROVE  stay'[h] \subseteq members'[op'[h].id] /\ members'[op'[h].id] \subseteq ever'[h]
  <2>1. /\ \E place \in {"check", "send"} : Enter(g, place, i, u)
        /\ Watch(g, i) /\ members' = members
    BY <1>4 DEF Join, Send, redis
  <2>2. op'[g].id = i /\ \A k \in Gateways \ {g} : op'[k] = op[k]
    BY <2>1, EnterStep DEF Places
  <2>3. /\ stay'[g] = members[i] /\ ever'[g] = members[i]
        /\ \A k \in Gateways \ {g} : stay'[k] = stay[k] /\ ever'[k] = ever[k]
    BY <2>1 DEF Watch, TypeOK
  <2>4. h # g => Kept
    BY <2>2 DEF Watching
  <2> QED BY <1>1, <2>1, <2>2, <2>3, <2>4
<1>5. ASSUME NEW g \in Gateways, NEW u \in Users, NEW i \in Ids, Leave(g, i, u)
      PROVE  stay'[h] \subseteq members'[op'[h].id] /\ members'[op'[h].id] \subseteq ever'[h]
  <2>1. op'[g].id = i /\ \A k \in Gateways \ {g} : op'[k] = op[k]
    BY <1>5, EnterStep DEF Leave, Places
  <2>2. CASE h = g
    BY <1>5, <2>1, <2>2, LeaveFacts
  <2>3. CASE h # g
    <3>1. Kept
      BY <2>1, <2>3 DEF Watching
    <3> HIDE DEF Kept
    <3>2. stay'[h] \subseteq members'[op[h].id]
      BY <1>1, <1>5, <2>3, <3>1, LeaveFacts
    <3>3. members'[op[h].id] \subseteq members[op[h].id] /\ ever'[h] = ever[h]
      BY <1>1, <1>5, <2>3, <3>1, LeaveFacts
    <3> QED BY <1>1, <3>1, <3>2, <3>3 DEF Kept
  <2> QED BY <2>2, <2>3
<1>6. ASSUME NEW g \in Gateways, CreateMember(g) \/ JoinMember(g)
      PROVE  stay'[h] \subseteq members'[op'[h].id] /\ members'[op'[h].id] \subseteq ever'[h]
  <2>1. op[g].id \in Ids /\ op[g].user \in Users /\ AddMember(g, op[g].id, op[g].user)
    BY <1>6 DEF CreateMember, JoinMember, At, Placed
  <2>2. \/ op[g].at = "addMember" /\ Goto(g, "addGroup")
        \/ op[g].at = "joinMember" /\ Goto(g, "joinGroup")
    BY <1>6 DEF CreateMember, JoinMember, At
  <2>3. /\ op'[g].id = op[g].id
        /\ op'[g].at = "addGroup" \/ op[g].at = "joinMember"
        /\ \A k \in Gateways \ {g} : op'[k] = op[k]
    BY <2>2, GotoStep DEF Places
  <2>4. Kept
    BY <2>3 DEF Watching
  <2> HIDE DEF Kept
  <2>5. /\ stay' = stay /\ members[op[h].id] \subseteq members'[op[h].id]
        /\ members'[op[h].id] \subseteq ever'[h]
    BY <1>1, <2>1, <2>4, AddMemberFacts
  <2> QED BY <1>1, <2>4, <2>5 DEF Kept
<1>7. ASSUME NEW g \in Gateways,
             \/ CreateName(g) \/ CreateCreator(g) \/ JoinGroups(g) \/ LeaveGroups(g) \/ Tell(g)
             \/ (JoinCheck(g) /\ Goto(g, "joinMember"))
      PROVE  stay'[h] \subseteq members'[op'[h].id] /\ members'[op'[h].id] \subseteq ever'[h]
  <2>1. \/ op[g].at \in {"name", "creator"} /\ \E place \in {"creator", "addMember"} : Goto(g, place)
        \/ Watching(g) /\ \E place \in {"joined", "left", "told", "joinMember"} : Goto(g, place)
    BY <1>7 DEF CreateName, CreateCreator, JoinGroups, LeaveGroups, Tell, JoinCheck, At, Watching
  <2>2. /\ op'[g].id = op[g].id
        /\ op'[g].at \in {"creator", "addMember"} \/ Watching(g)
        /\ \A k \in Gateways \ {g} : op'[k] = op[k]
    BY <2>1, GotoStep DEF Places
  <2>3. Kept
    BY <2>2 DEF Watching
  <2>4. UNCHANGED <<members, stay, ever>>
    <3>1. CASE JoinCheck(g) /\ Goto(g, "joinMember")
      <4>1. ~Return(g)
        <5>1. op'[g].at = "joinMember"
          BY <3>1, GotoStep DEF Places
        <5>2. Return(g) => op'[g].at = "idle"
          BY ReturnStep
        <5> QED BY <5>1, <5>2
      <4> QED BY <3>1, <4>1 DEF JoinCheck, redis
    <3>2. CASE CreateName(g) \/ CreateCreator(g) \/ JoinGroups(g) \/ LeaveGroups(g) \/ Tell(g)
      BY <3>2 DEF CreateName, CreateCreator, JoinGroups, LeaveGroups, Tell, redis, history
    <3> QED BY <1>7, <3>1, <3>2
  <2> QED BY <1>1, <2>3, <2>4
<1>8. ASSUME NEW g \in Gateways,
             CreateGroups(g) \/ Told(g) \/ Crash(g) \/ (JoinCheck(g) /\ Return(g))
      PROVE  stay'[h] \subseteq members'[op'[h].id] /\ members'[op'[h].id] \subseteq ever'[h]
  <2>1. Return(g) /\ members' = members /\ (Unwatch(g) \/ UNCHANGED <<stay, ever>>)
    BY <1>8 DEF CreateGroups, Told, Crash, JoinCheck, Return, redis
  <2>2. op'[g].at = "idle" /\ \A k \in Gateways \ {g} : op'[k] = op[k]
    BY <2>1, ReturnStep
  <2>3. Kept /\ h # g
    BY <2>2 DEF Watching
  <2>4. stay'[h] = stay[h] /\ ever'[h] = ever[h]
    BY <2>1, <2>3 DEF Unwatch, TypeOK
  <2> QED BY <1>1, <2>1, <2>3, <2>4
<1>9. ASSUME NEW g \in Gateways, Cut(g)
      PROVE  stay'[h] \subseteq members'[op'[h].id] /\ members'[op'[h].id] \subseteq ever'[h]
  BY <1>1, <1>9 DEF Cut, Watching, redis
<1>10. ASSUME NEW g \in Gateways, JoinCheck(g)
       PROVE  stay'[h] \subseteq members'[op'[h].id] /\ members'[op'[h].id] \subseteq ever'[h]
  BY <1>7, <1>8, <1>10 DEF JoinCheck
<1> QED
  BY <1>2, <1>3, <1>4, <1>5, <1>6, <1>7, <1>8, <1>9, <1>10
  DEF Next, Request, Handler, CreateStep, JoinStep

\* What a handler is about to tell stays right while others change the group.
LEMMA ToldKept ==
  ASSUME ToldTheGroup,
         \A g \in Gateways : (At(g, "told") /\ Linked(g))' =>
           /\ At(g, "told") /\ Linked(g) /\ op'[g] = op[g]
           /\ local'[g] = local[g] /\ to'[g] = to[g]
           /\ stay'[g] \subseteq stay[g] /\ ever[g] \subseteq ever'[g]
  PROVE  ToldTheGroup'
<1> SUFFICES ASSUME NEW g \in Gateways, (At(g, "told") /\ Linked(g))'
             PROVE  /\ (stay'[g] \ {op'[g].user}) \cap local'[g] \subseteq to'[g]
                    /\ to'[g] \subseteq ever'[g]
  BY DEF ToldTheGroup
<1>1. /\ (stay[g] \ {op[g].user}) \cap local[g] \subseteq to[g]
      /\ to[g] \subseteq ever[g]
  BY DEF ToldTheGroup
<1> QED BY <1>1

LEMMA ToldStep == TypeOK /\ Placed /\ Watched /\ ToldTheGroup /\ [Next]_vars => ToldTheGroup'
<1> SUFFICES ASSUME TypeOK, Placed, Watched, ToldTheGroup, [Next]_vars
             PROVE  ToldTheGroup'
  OBVIOUS
<1> DEFINE Rest(g) == /\ At(g, "told") /\ Linked(g) /\ op'[g] = op[g]
                      /\ local'[g] = local[g] /\ to'[g] = to[g]
                      /\ stay'[g] \subseteq stay[g] /\ ever[g] \subseteq ever'[g]
           Due(g) == (At(g, "told") /\ Linked(g))'
<1>1. CASE UNCHANGED vars
  <2>1. \A g \in Gateways : Due(g) => Rest(g)
    BY <1>1 DEF vars, history, At, Linked
  <2> QED BY <2>1, ToldKept
<1>2. ASSUME NEW g \in Gateways, NEW u \in Users, Login(g, u) \/ Logout(g, u)
      PROVE  ToldTheGroup'
  <2>1. \A h \in Gateways : Due(h) => Rest(h)
    BY <1>2 DEF Login, Logout, At, Linked, TypeOK, history
  <2> QED BY <2>1, ToldKept
<1>3. ASSUME NEW g \in Gateways, NEW u \in Users, NEW i \in Ids,
             Create(g, u) \/ Join(g, i, u) \/ Leave(g, i, u) \/ Send(g, i, u)
      PROVE  ToldTheGroup'
  <2>1. Create(g, u) => NewId \in Ids
    BY GroupAssumption DEF Create, NewId, incr, Ids, TypeOK
  <2>2. \E place \in {"name", "check", "removeGroup", "send"}, j \in Ids : Enter(g, place, j, u)
    BY <1>3, <2>1 DEF Create, Join, Leave, Send
  <2>3. op'[g].at # "told" /\ \A h \in Gateways \ {g} : op'[h] = op[h]
    BY <2>2, EnterStep DEF Places
  <2>4. status' = status /\ local' = local /\ to' = to
    BY <1>3 DEF Create, Join, Leave, Send
  <2>5. \A h \in Gateways \ {g} : stay'[h] \subseteq stay[h] /\ ever'[h] = ever[h]
    <3>1. CASE Create(g, u)
      BY <3>1 DEF Create
    <3>2. CASE Join(g, i, u) \/ Send(g, i, u)
      BY <3>2 DEF Join, Send, Watch, TypeOK
    <3>3. CASE Leave(g, i, u)
      BY <3>3, LeaveFacts
    <3> QED BY <1>3, <3>1, <3>2, <3>3
  <2>6. \A h \in Gateways : Due(h) => Rest(h)
    BY <2>3, <2>4, <2>5 DEF At, Linked
  <2> QED BY <2>6, ToldKept
<1>4. ASSUME NEW g \in Gateways,
             \/ CreateStep(g) \/ JoinMember(g) \/ JoinGroups(g) \/ LeaveGroups(g)
      PROVE  ToldTheGroup'
  <2>1. \/ Return(g)
        \/ \E place \in {"creator", "addMember", "addGroup", "joinGroup", "joined", "left"} : Goto(g, place)
    BY <1>4 DEF CreateStep, CreateName, CreateCreator, CreateMember, CreateGroups, JoinMember,
                JoinGroups, LeaveGroups
  <2>2. op'[g].at # "told" /\ \A h \in Gateways \ {g} : op'[h] = op[h]
    BY <2>1, GotoStep, ReturnStep DEF Places
  <2>3. status' = status /\ local' = local /\ to' = to
    BY <1>4 DEF CreateStep, CreateName, CreateCreator, CreateMember, CreateGroups, JoinMember,
                JoinGroups, LeaveGroups
  <2>4. stay' = stay /\ \A h \in Gateways : ever[h] \subseteq ever'[h]
    <3>1. CASE CreateMember(g) \/ JoinMember(g)
      <4>1. op[g].id \in Ids /\ op[g].user \in Users /\ AddMember(g, op[g].id, op[g].user)
        BY <3>1 DEF CreateMember, JoinMember, At, Placed
      <4> QED BY <4>1, AddMemberFacts
    <3>2. CASE CreateName(g) \/ CreateCreator(g) \/ CreateGroups(g) \/ JoinGroups(g) \/ LeaveGroups(g)
      BY <3>2 DEF CreateName, CreateCreator, CreateGroups, JoinGroups, LeaveGroups, history
    <3> QED BY <1>4, <3>1, <3>2 DEF CreateStep
  <2>5. \A h \in Gateways : Due(h) => Rest(h)
    BY <2>2, <2>3, <2>4 DEF At, Linked
  <2> QED BY <2>5, ToldKept
<1>5. ASSUME NEW g \in Gateways, JoinCheck(g) \/ Told(g) \/ Crash(g) PROVE ToldTheGroup'
  <2>1. \/ Return(g) /\ (Unwatch(g) \/ UNCHANGED <<stay, ever>>)
        \/ Goto(g, "joinMember") /\ UNCHANGED <<stay, ever>>
    BY <1>5 DEF JoinCheck, Told, Crash, Return
  <2>2. op'[g].at # "told" /\ \A h \in Gateways \ {g} : op'[h] = op[h]
    BY <2>1, GotoStep, ReturnStep DEF Places
  <2>3. \A h \in Gateways \ {g} :
          status'[h] = status[h] /\ local'[h] = local[h] /\ to'[h] = to[h]
    BY <1>5 DEF JoinCheck, Told, Crash, TypeOK
  <2>4. \A h \in Gateways \ {g} : stay'[h] = stay[h] /\ ever'[h] = ever[h]
    BY <2>1 DEF Unwatch, TypeOK
  <2>5. \A h \in Gateways : Due(h) => Rest(h)
    BY <2>2, <2>3, <2>4 DEF At, Linked
  <2> QED BY <2>5, ToldKept
<1>6. ASSUME NEW g \in Gateways, Cut(g) PROVE ToldTheGroup'
  <2>1. \A h \in Gateways : Linked(h)' => status'[h] = status[h]
    BY <1>6 DEF Cut, Linked, TypeOK
  <2>2. \A h \in Gateways : Due(h) => Rest(h)
    BY <1>6, <2>1 DEF Cut, At, Linked
  <2> QED BY <2>2, ToldKept
<1>7. ASSUME NEW g \in Gateways, Tell(g) PROVE ToldTheGroup'
  <2>1. /\ Watching(g) /\ Goto(g, "told") /\ to' = [to EXCEPT ![g] = Recipients(g)]
        /\ UNCHANGED <<members, status, local, stay, ever>>
    BY <1>7 DEF Tell, At, Watching, redis, history
  <2>2. op'[g].user = op[g].user /\ \A h \in Gateways \ {g} : op'[h] = op[h]
    BY <2>1, GotoStep DEF Places
  <2>3. stay[g] \subseteq members[op[g].id] /\ members[op[g].id] \subseteq ever[g]
    BY <2>1 DEF Watched
  <2>4. to'[g] = Recipients(g) /\ \A h \in Gateways \ {g} : to'[h] = to[h]
    BY <2>1 DEF TypeOK
  <2>5. Linked(g) => /\ (stay[g] \ {op[g].user}) \cap local[g] \subseteq to'[g]
                     /\ to'[g] \subseteq ever[g]
    BY <2>3, <2>4 DEF Recipients, setMembers
  <2>6. ASSUME NEW h \in Gateways, Due(h)
        PROVE  /\ (stay'[h] \ {op'[h].user}) \cap local'[h] \subseteq to'[h]
               /\ to'[h] \subseteq ever'[h]
    <3>1. CASE h = g
      BY <2>1, <2>2, <2>5, <2>6, <3>1 DEF Linked
    <3>2. CASE h # g
      <4>1. At(h, "told") /\ Linked(h)
        BY <2>1, <2>2, <2>6, <3>2 DEF At, Linked
      <4>2. /\ (stay[h] \ {op[h].user}) \cap local[h] \subseteq to[h]
            /\ to[h] \subseteq ever[h]
        BY <4>1 DEF ToldTheGroup
      <4> QED BY <2>1, <2>2, <2>4, <3>2, <4>2
    <3> QED BY <3>1, <3>2
  <2> QED BY <2>6 DEF ToldTheGroup
<1>8. ASSUME NEW g \in Gateways, NEW u \in Users, Create(g, u) PROVE ToldTheGroup'
  <2>1. NewId \in Ids
    BY <1>8, GroupAssumption DEF Create, NewId, incr, Ids, TypeOK
  <2> QED BY <1>3, <1>8, <2>1
<1> HIDE DEF Rest, Due
<1> QED
  BY <1>1, <1>2, <1>3, <1>4, <1>5, <1>6, <1>7, <1>8 DEF Next, Request, Handler, JoinStep

\* A message to a group, and the notice of a join or a leave, goes to every user
\* on the gateway who was a member all through the handler, and to nobody who
\* never was, however other gateways change the group meanwhile.
THEOREM MembersTold == Spec => []ToldTheGroup
<1>1. Init => TypeOK /\ Placed /\ Watched /\ ToldTheGroup
  <2>1. Init => ToldTheGroup
    BY DEF Init, ToldTheGroup, At, Idle
  <2> QED BY <2>1, GroupInit
<1>2. (TypeOK /\ Placed /\ Watched /\ ToldTheGroup) /\ [Next]_vars
        => (TypeOK /\ Placed /\ Watched /\ ToldTheGroup)'
  BY GroupTypeStep, WatchStep, ToldStep
<1> QED BY <1>1, <1>2, PTL DEF Spec
=============================================================================
