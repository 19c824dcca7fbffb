----------------------------- MODULE ByteStream -----------------------------
(***************************************************************************)
(* What the output side of a connection promises: the bytes of the         *)
(* messages arrive in the order they were handed over, each once, and      *)
(* what a broken connection loses is a suffix.                             *)
(***************************************************************************)
EXTENDS Naturals, Sequences

CONSTANTS Chunks   \* what can be handed over at a time

VARIABLES inFlight, taken, open

vars == <<inFlight, taken, open>>

Init == inFlight = <<>> /\ taken = <<>> /\ open = TRUE

Put(c) ==
  /\ open
  /\ inFlight' = inFlight \o c
  /\ UNCHANGED <<taken, open>>

Take(n) ==
  /\ taken' = taken \o SubSeq(inFlight, 1, n)
  /\ inFlight' = SubSeq(inFlight, n + 1, Len(inFlight))
  /\ UNCHANGED open

Break(n) ==
  /\ open
  /\ open' = FALSE
  /\ inFlight' = SubSeq(inFlight, 1, n)
  /\ UNCHANGED taken

Next ==
  \/ \E c \in Chunks : Put(c)
  \/ \E n \in 0 .. Len(inFlight) : Take(n) \/ Break(n)

Spec == Init /\ [][Next]_vars
=============================================================================
