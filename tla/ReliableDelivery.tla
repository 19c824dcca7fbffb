-------------------------- MODULE ReliableDelivery --------------------------
(***************************************************************************)
(* What the acknowledgement tracker promises of each message: it waits for *)
(* its acknowledgement, is sent again at most MAX_RETRIES times, and then  *)
(* is acknowledged or given up, once and for good.  A message is given up  *)
(* only when all its retries are used (gateway/include/AckTracker.h:1-4).  *)
(***************************************************************************)
EXTENDS Naturals

CONSTANTS Ids, MAX_RETRIES

VARIABLES
  fate,    \* what became of each message
  tries    \* retries so far of a message that waits

vars == <<fate, tries>>

Fates == {"new", "waiting", "acked", "givenup"}

Init ==
  /\ fate = [i \in Ids |-> "new"]
  /\ tries = [i \in Ids |-> 0]

Track(i) ==
  /\ fate[i] = "new"
  /\ fate' = [fate EXCEPT ![i] = "waiting"]
  /\ UNCHANGED tries

Retry(i) ==
  /\ fate[i] = "waiting"
  /\ tries[i] < MAX_RETRIES
  /\ tries' = [tries EXCEPT ![i] = @ + 1]
  /\ UNCHANGED fate

Acknowledge(i) ==
  /\ fate[i] = "waiting"
  /\ fate' = [fate EXCEPT ![i] = "acked"]
  /\ tries' = [tries EXCEPT ![i] = 0]

\* All messages whose retries are used are given up together.
GiveUp(gone) ==
  /\ gone # {}
  /\ \A i \in gone : fate[i] = "waiting" /\ tries[i] = MAX_RETRIES
  /\ fate' = [i \in Ids |-> IF i \in gone THEN "givenup" ELSE fate[i]]
  /\ tries' = [i \in Ids |-> IF i \in gone THEN 0 ELSE tries[i]]

Next ==
  \/ \E i \in Ids : Track(i) \/ Retry(i) \/ Acknowledge(i)
  \/ \E gone \in SUBSET Ids : GiveUp(gone)

Spec == Init /\ [][Next]_vars

\* Every message that waits is acknowledged or given up.
Settles == \A i \in Ids : fate[i] = "waiting" ~> fate[i] \in {"acked", "givenup"}
=============================================================================
