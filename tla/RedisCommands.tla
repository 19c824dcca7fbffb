--------------------------- MODULE RedisCommands ----------------------------
(***************************************************************************)
(* The plain Redis commands of gateway/src/RedisClient.cpp, on the value   *)
(* kept under one key.  Redis runs each command atomically; an operation   *)
(* made of several commands is several steps.  "linked" is isConnected():  *)
(* once a command has failed on the wire the hiredis context stays in      *)
(* error, and every later command returns at once and changes nothing.     *)
(***************************************************************************)
EXTENDS Naturals

\* HSET: the value after the command.
setHashField(old, value, linked) == IF linked THEN value ELSE old

\* HGET: the empty string stands for a missing field and for every failure.
getHashField(value, empty, linked) == IF linked THEN value ELSE empty

\* SADD and SREM: the set after the command.
setAdd(set, member, linked) == IF linked THEN set \cup {member} ELSE set
setRemove(set, member, linked) == IF linked THEN set \ {member} ELSE set

\* SISMEMBER: a failure reads as "not a member".
setIsMember(set, member, linked) == linked /\ member \in set

\* SMEMBERS: a failure reads as the empty set.
setMembers(set, linked) == IF linked THEN set ELSE {}

\* DEL: what is left under the key.
deleteKey(old, empty, linked) == IF linked THEN empty ELSE old

\* INCR: the new value, which is also the answer.
incr(counter) == counter + 1
=============================================================================
