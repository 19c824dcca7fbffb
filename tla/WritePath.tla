----------------------------- MODULE WritePath ------------------------------
(***************************************************************************)
(* The output side of one connection: sendToClient, the pong reply of      *)
(* handleWsControlFrame, handleWrite and disconnectClient                  *)
(* (gateway/src/EpollServer.cpp), with the kernel's socket buffer and the  *)
(* client that reads from it at its own pace, also between two write(2)    *)
(* calls of one loop.                                                      *)
(*                                                                         *)
(* A message is Size bytes, and a byte is its message and its position.    *)
(* The protocol of the connection is settled: the handshake and the        *)
(* metrics page, which write to the socket themselves, are left out.       *)
(* epoll_ctl does not fail on a registered descriptor.                     *)
(***************************************************************************)
EXTENDS Naturals, Sequences

CONSTANTS
  Msgs,       \* messages, each handed over at most once
  Size,       \* bytes of a message, frame header included
  SockCap     \* bytes the kernel's socket buffer holds

ASSUME SizeAssumption == Size \in Nat \ {0} /\ SockCap \in Nat \ {0}

VARIABLES
  open,       \* connections_ has the connection
  buffer,     \* conn.write_buffer
  pending,    \* conn.write_pending
  interest,   \* EPOLLOUT is registered for the descriptor
  pc,         \* "idle", or in the write loop of sendToClient ("send"), handleWrite ("flush")
  hand,       \* what that loop still has to write: data.substr(total)
  sock,       \* the kernel's socket buffer
  got,        \* what the client has read
  given       \* messages handed over (history)

connVars == <<open, buffer, pending, interest>>
vars == <<connVars, pc, hand, sock, got, given>>

Byte == Msgs \X (1 .. Size)

\* Mutant of Bytes: the range starts one too early.
BytesFromZero(m) == [k \in 1 .. Size |-> <<m, k - 1>>]

\* The text of a message as it goes out, data_to_send.
Bytes(m) == [k \in 1 .. Size |-> <<m, k>>]

TypeOK ==
  /\ open \in BOOLEAN /\ pending \in BOOLEAN /\ interest \in BOOLEAN
  /\ buffer \in Seq(Byte) /\ hand \in Seq(Byte)
  /\ sock \in Seq(Byte) /\ got \in Seq(Byte)
  /\ pc \in {"idle", "send", "flush"}
  /\ given \subseteq Msgs

Init ==
  /\ open = TRUE
  /\ buffer = <<>> /\ pending = FALSE /\ interest = FALSE
  /\ pc = "idle" /\ hand = <<>>
  /\ sock = <<>> /\ got = <<>>
  /\ given = {}

\* write_buffer and write_pending are reset, the descriptor leaves epoll.
disconnectClient ==
  /\ open' = FALSE
  /\ buffer' = <<>>
  /\ pending' = FALSE
  /\ interest' = FALSE

-----------------------------------------------------------------------------
Give(m) ==
  /\ pc = "idle" /\ open
  /\ m \notin given
  /\ given' = given \cup {m}

\* Mutant of sendToClient: what waits in the buffer is not looked at.
sendToClientOvertake(m) ==
  /\ Give(m)
  /\ hand' = Bytes(m) /\ pc' = "send"
  /\ UNCHANGED <<connVars, sock, got>>

\* sendToClient: behind what waits in the buffer, or straight to the socket.
sendToClient(m) ==
  /\ Give(m)
  /\ IF buffer # <<>>
     THEN buffer' = buffer \o Bytes(m) /\ UNCHANGED <<hand, pc>>
     ELSE hand' = Bytes(m) /\ pc' = "send" /\ UNCHANGED buffer
  /\ UNCHANGED <<open, pending, interest, sock, got>>

\* Mutant of WantWrite: the flag is set and EPOLLOUT is not registered.
WantWriteFlagOnly == pending' = TRUE /\ UNCHANGED interest

\* EPOLLOUT is registered unless write_pending says it is.
WantWrite ==
  /\ pending' = TRUE
  /\ interest' = IF pending THEN interest ELSE TRUE

\* The PING branch: the pong always goes through the buffer.
Pong(m) ==
  /\ Give(m)
  /\ buffer' = buffer \o Bytes(m)
  /\ WantWrite
  /\ UNCHANGED <<open, pc, hand, sock, got>>

\* handleWrite: epoll_wait reports the socket writable.
handleWrite ==
  /\ pc = "idle" /\ open
  /\ interest /\ Len(sock) < SockCap
  /\ IF buffer = <<>>
     THEN pending' = FALSE /\ interest' = FALSE /\ UNCHANGED <<pc, hand>>
     ELSE pc' = "flush" /\ hand' = buffer /\ UNCHANGED <<pending, interest>>
  /\ UNCHANGED <<open, buffer, sock, got, given>>

\* write(2) takes some of the bytes: total += n.
Write ==
  /\ pc # "idle" /\ hand # <<>>
  /\ \E n \in 1 .. Len(hand) :
       /\ Len(sock) + n <= SockCap
       /\ sock' = sock \o SubSeq(hand, 1, n)
       /\ hand' = SubSeq(hand, n + 1, Len(hand))
  /\ UNCHANGED <<connVars, pc, got, given>>

\* Mutant of KeepRest: handleWrite leaves the whole text in the buffer.
KeepRestWhole == buffer' = IF pc = "flush" THEN buffer ELSE hand

\* substr(total) in sendToClient, erase(0, total) in handleWrite.
KeepRest == buffer' = hand

\* Mutant of WouldBlock: EAGAIN is taken for the end of the work.
WouldBlockDone ==
  /\ pc # "idle" /\ hand # <<>>
  /\ Len(sock) = SockCap
  /\ KeepRest
  /\ pending' = FALSE /\ interest' = FALSE
  /\ pc' = "idle" /\ hand' = <<>>
  /\ UNCHANGED <<open, sock, got, given>>

\* EAGAIN: the rest waits in the buffer.
WouldBlock ==
  /\ pc # "idle" /\ hand # <<>>
  /\ Len(sock) = SockCap
  /\ KeepRest
  /\ IF pc = "send" THEN WantWrite ELSE UNCHANGED <<pending, interest>>
  /\ pc' = "idle" /\ hand' = <<>>
  /\ UNCHANGED <<open, sock, got, given>>

\* The loop has written everything; handleWrite resets the buffer.
WriteDone ==
  /\ pc # "idle" /\ hand = <<>>
  /\ IF pc = "flush" THEN buffer' = <<>> /\ pending' = FALSE /\ interest' = FALSE
                     ELSE UNCHANGED <<buffer, pending, interest>>
  /\ pc' = "idle"
  /\ UNCHANGED <<open, hand, sock, got, given>>

\* write(2) fails, or, between two events, the client left or was silent.
Disconnect ==
  /\ open
  /\ disconnectClient
  /\ pc' = "idle" /\ hand' = <<>>
  /\ UNCHANGED <<sock, got, given>>

\* The client reads, also what was left in the socket of a closed connection.
ClientReads ==
  /\ \E n \in 1 .. Len(sock) :
       /\ got' = got \o SubSeq(sock, 1, n)
       /\ sock' = SubSeq(sock, n + 1, Len(sock))
  /\ UNCHANGED <<connVars, pc, hand, given>>

-----------------------------------------------------------------------------
Gateway == handleWrite \/ Write \/ WouldBlock \/ WriteDone

Next ==
  \/ \E m \in Msgs : sendToClient(m) \/ Pong(m)
  \/ Gateway \/ Disconnect \/ ClientReads

Spec == Init /\ [][Next]_vars

\* The thread goes on, epoll reports a writable socket again and again, and
\* the client keeps reading.  Nobody has to send or to leave.
FairSpec == Spec /\ WF_vars(Gateway) /\ WF_vars(ClientReads)

-----------------------------------------------------------------------------
(* Properties *)

\* What the gateway still has to put into the socket.
Waiting == IF pc = "idle" THEN buffer ELSE hand

Stream == INSTANCE ByteStream WITH
  Chunks <- {Bytes(m) : m \in Msgs},
  inFlight <- IF open THEN sock \o Waiting ELSE sock,
  taken <- got

\* Through partial writes, EAGAIN, pongs and the write buffer, the client
\* reads whole messages in the order they were handed over, until the
\* connection breaks (sendToClient, handleWrite).
InOrder == Stream!Spec

\* Text waits in the buffer only while epoll is asked for EPOLLOUT, and the
\* flag write_pending tells the truth: no wake-up is lost.
NoLostWakeUp ==
  /\ open /\ pc = "idle" /\ buffer # <<>> => interest
  /\ pending <=> interest
  /\ pc = "send" => buffer = <<>>

\* A message handed over is read to its last byte, or the connection closes.
MessageArrives ==
  \A m \in Msgs :
    m \in given ~> (~open \/ \E i \in DOMAIN got : got[i] = <<m, Size>>)
=============================================================================
