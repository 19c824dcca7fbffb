------------------------- MODULE MCWebSocketReader -------------------------
(* ConnectionReader, with WebSocketReader, on a small instance.             *)
EXTENDS ConnectionReader

Frame(op, fin, masked, len) == [op |-> op, fin |-> fin, masked |-> masked, len |-> len]

\* With lengths up to 2 in the basic header and of 3 in two bytes: whole
\* messages of every kind of length, fragments, control frames, and a frame
\* without a mask.
MCFrames ==
  {Frame("text", TRUE, TRUE, len) : len \in {0, 1, 3, 4}}
    \cup {Frame("text", FALSE, TRUE, 2), Frame("cont", TRUE, TRUE, 2)}
    \cup {Frame("ping", TRUE, TRUE, 1), Frame("close", TRUE, TRUE, 1)}
    \cup {Frame("text", TRUE, FALSE, 1), Frame("ping", TRUE, TRUE, 5)}
=============================================================================
