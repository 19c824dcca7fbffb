---------------------------- MODULE RedisClient ----------------------------
(***************************************************************************)
(* The part of the shared Redis database that the gateways meet in: who is *)
(* online and on which device, and the mailbox of every user.  Each        *)
(* operator below is one Redis command or one Lua script of                *)
(* gateway/src/RedisClient.cpp, and Redis runs each of them atomically.    *)
(* Steps of different gateways interleave between these operators.         *)
(***************************************************************************)
EXTENDS Naturals, Sequences, FiniteSets

CONSTANTS
  Gateways,   \* ids of gateways; of two running processes none has the other's
  Users,      \* user names
  Fds,        \* file descriptors, the same numbers on every gateway
  Msgs        \* messages, one per handled "send" or "chat" request

VARIABLES
  devices,    \* user:<name> - the set of "<gateway>:<fd>" members
  online,     \* online_users
  queue,      \* msg_queue:<name> - the list of waiting messages
  pending     \* pending_msgs - the names whose list got a message

redisVars == <<devices, online, queue, pending>>

\* What a device member says: the gateway and the descriptor it names.
Devices == Gateways \X Fds

RedisTypeOK ==
  /\ devices \in [Users -> SUBSET Devices]
  /\ online \subseteq Users
  /\ queue \in [Users -> Seq(Msgs)]
  /\ pending \subseteq Users

RedisInit ==
  /\ devices = [u \in Users |-> {}]
  /\ online = {}
  /\ queue = [u \in Users |-> <<>>]
  /\ pending = {}

-----------------------------------------------------------------------------
\* Sessions

\* SADD user:<name>, SADD online_users, in one script.
userLogin(u, g, f) ==
  /\ devices' = [devices EXCEPT ![u] = @ \cup {<<g, f>>}]
  /\ online' = online \cup {u}

\* Mutant of userLogout: the SCARD test is dropped, so the first device that
\* leaves takes the user off the list.
userLogoutNoScard(u, g, f) ==
  /\ devices' = [devices EXCEPT ![u] = @ \ {<<g, f>>}]
  /\ online' = online \ {u}

\* SREM user:<name>; a user whose set is now empty leaves online_users.
userLogout(u, g, f) ==
  /\ devices' = [devices EXCEPT ![u] = @ \ {<<g, f>>}]
  /\ online' = IF devices[u] \subseteq {<<g, f>>} THEN online \ {u} ELSE online

\* Mutant of getUserGateway: the part behind the colon is taken (getUserFd).
getUserGatewayFd(u) == {d[2] : d \in devices[u]}

\* The answers SRANDMEMBER user:<name> may give, as gateway ids: any device of
\* the user, whichever gateway it is on.  No answer (-1) for an empty set.
getUserGateway(u) == {d[1] : d \in devices[u]}

-----------------------------------------------------------------------------
\* Mailboxes

\* Mutant of pushMessage: RPUSH without the SADD of the same script.
pushMessageNoMark(u, m) ==
  /\ queue' = [queue EXCEPT ![u] = Append(@, m)]
  /\ UNCHANGED pending

\* RPUSH msg_queue:<name>, SADD pending_msgs, in one script.
pushMessage(u, m) ==
  /\ queue' = [queue EXCEPT ![u] = Append(@, m)]
  /\ pending' = pending \cup {u}

\* One turn of the loop of popMessages: LPOP msg_queue:<name>.
lpop(u) == queue[u] # <<>> /\ queue' = [queue EXCEPT ![u] = Tail(@)]

\* SMEMBERS pending_msgs, DEL pending_msgs, in one script.  The caller keeps
\* the members.
drainPendingUsers == pending' = {}
=============================================================================
