--------------------------- MODULE WritePathProofs ---------------------------
(***************************************************************************)
(* Proofs about WritePath: types, that no wake-up is lost, and that the    *)
(* output side of a connection implements ByteStream, for any messages,    *)
(* message length and socket buffer.                                       *)
(***************************************************************************)
EXTENDS WritePath, SequenceTheorems, TLAPS

\* What the write loops leave true between two write(2) calls: they run on an
\* open connection, handleWrite's only with EPOLLOUT registered, and a closed
\* connection has an empty buffer.
Loops ==
  /\ pc # "idle" => open
  /\ pc = "idle" => hand = <<>>
  /\ pc = "flush" => interest
  /\ ~open => buffer = <<>>

WriteInv == TypeOK /\ NoLostWakeUp /\ Loops

-----------------------------------------------------------------------------
(* Sequences *)

\* ConcatAssociative in the form the provers use.
LEMMA Associative == \A T : \A a, b, c \in Seq(T) : (a \o b) \o c = a \o (b \o c)
BY ConcatAssociative

\* write(2) moves a prefix from one sequence to the end of another.
LEMMA MovePrefix ==
  ASSUME NEW S, NEW s \in Seq(S), NEW t \in Seq(S), NEW n, n \in 1 .. Len(s)
  PROVE  /\ SubSeq(s, 1, n) \in Seq(S)
         /\ SubSeq(s, n + 1, Len(s)) \in Seq(S)
         /\ (t \o SubSeq(s, 1, n)) \o SubSeq(s, n + 1, Len(s)) = t \o s
<1>1. SubSeq(s, 1, n) \in Seq(S) /\ SubSeq(s, n + 1, Len(s)) \in Seq(S)
  BY SubSeqProperties, ElementOfSeq, LenProperties
<1>2. SubSeq(s, 1, n) \o SubSeq(s, n + 1, Len(s)) = s
  <2>1. SubSeq(s, 1, n) \o SubSeq(s, n + 1, Len(s)) = SubSeq(s, 1, Len(s))
    BY ConcatAdjacentSubSeq, LenProperties
  <2> QED BY <2>1, SubSeqFull
<1>3. \A a, b, c \in Seq(S) : (a \o b) \o c = a \o (b \o c)
  BY ONLY Associative
<1> DEFINE u == SubSeq(s, 1, n)
           v == SubSeq(s, n + 1, Len(s))
<1> HIDE DEF u, v
<1>4. u \in Seq(S) /\ v \in Seq(S) /\ u \o v = s
  BY <1>1, <1>2 DEF u, v
<1>5. (t \o u) \o v = t \o s
  BY <1>3, <1>4
<1> QED BY <1>4, <1>5 DEF u, v

\* What the client reads out of the socket is a prefix of all that is under
\* way, and a broken connection keeps a prefix of it.
LEMMA PrefixOfConcat ==
  ASSUME NEW S, NEW s \in Seq(S), NEW t \in Seq(S), NEW n \in 1 .. Len(s)
  PROVE  /\ n \in 0 .. Len(s \o t)
         /\ SubSeq(s \o t, 1, n) = SubSeq(s, 1, n)
         /\ SubSeq(s \o t, n + 1, Len(s \o t)) = SubSeq(s, n + 1, Len(s)) \o t
<1>1. /\ s \o t \in Seq(S)
      /\ Len(s) \in Nat /\ Len(t) \in Nat
      /\ Len(s \o t) = Len(s) + Len(t)
      /\ \A i \in 1 .. Len(s) + Len(t) : (s \o t)[i] = IF i <= Len(s) THEN s[i] ELSE t[i - Len(s)]
  BY ConcatProperties, LenProperties
<1>2. SubSeq(s \o t, 1, n) = SubSeq(s, 1, n)
  BY SubSeqOfConcat1, <1>1
<1> DEFINE rest == SubSeq(s, n + 1, Len(s))
           long == SubSeq(s \o t, n + 1, Len(s \o t))
<1>3. /\ rest \in Seq(S) /\ Len(rest) = Len(s) - n
      /\ \A i \in 1 .. Len(s) - n : rest[i] = s[n + i]
  BY SubSeqProperties, ElementOfSeq, <1>1
<1>4. /\ long \in Seq(S) /\ Len(long) = Len(s) + Len(t) - n
      /\ \A i \in 1 .. Len(s) + Len(t) - n : long[i] = (s \o t)[n + i]
  <2>1. \A i \in n + 1 .. Len(s \o t) : (s \o t)[i] \in S
    BY ElementOfSeq, <1>1
  <2> QED BY SubSeqProperties, <1>1, <2>1
<1>5. /\ rest \o t \in Seq(S) /\ Len(rest \o t) = Len(s) - n + Len(t)
      /\ \A i \in 1 .. Len(s) - n + Len(t) :
           (rest \o t)[i] = IF i <= Len(s) - n THEN rest[i] ELSE t[i - (Len(s) - n)]
  <2>1. rest \o t \in Seq(S) /\ Len(rest \o t) = Len(rest) + Len(t)
    BY ConcatProperties, <1>3
  <2>2. \A i \in 1 .. Len(rest) + Len(t) :
          (rest \o t)[i] = IF i <= Len(rest) THEN rest[i] ELSE t[i - Len(rest)]
    BY ConcatProperties, <1>3, Zenon
  <2> QED BY <1>3, <2>1, <2>2
<1>6. ASSUME NEW i \in 1 .. Len(long) PROVE long[i] = (rest \o t)[i]
  BY <1>1, <1>3, <1>4, <1>5
<1>7. Len(long) = Len(rest \o t)
  BY <1>1, <1>4, <1>5
<1> HIDE DEF rest, long
<1>8. long = rest \o t
  BY <1>4, <1>5, <1>6, <1>7, SeqEqual, Zenon
<1>9. n \in 0 .. Len(s \o t)
  BY <1>1
<1> QED BY <1>2, <1>8, <1>9 DEF rest, long

LEMMA BytesType == \A m \in Msgs : Bytes(m) \in Seq(Byte)
<1> SUFFICES ASSUME NEW m \in Msgs PROVE Bytes(m) \in Seq(Byte)
  OBVIOUS
<1>1. Bytes(m) \in [1 .. Size -> Byte]
  BY DEF Bytes, Byte
<1> QED BY <1>1, SizeAssumption, SeqDef

-----------------------------------------------------------------------------
(* The invariant *)

LEMMA WriteInit == Init => WriteInv
BY EmptySeq DEF Init, WriteInv, TypeOK, NoLostWakeUp, Loops

LEMMA SendStep ==
  ASSUME WriteInv, NEW m \in Msgs, sendToClient(m) \/ Pong(m)
  PROVE  WriteInv'
<1> USE DEF WriteInv, TypeOK, NoLostWakeUp, Loops
<1>1. Bytes(m) \in Seq(Byte) /\ buffer \o Bytes(m) \in Seq(Byte)
  BY BytesType, ConcatProperties
<1>2. CASE sendToClient(m)
  BY <1>1, <1>2 DEF sendToClient, Give
<1>3. CASE Pong(m)
  BY <1>1, <1>3 DEF Pong, Give, WantWrite
<1> QED BY <1>2, <1>3

LEMMA WriteStep == WriteInv /\ Write => WriteInv'
<1> SUFFICES ASSUME WriteInv, Write PROVE WriteInv'
  OBVIOUS
<1> USE DEF WriteInv, TypeOK, NoLostWakeUp, Loops
<1>1. PICK n \in 1 .. Len(hand) : /\ sock' = sock \o SubSeq(hand, 1, n)
                                  /\ hand' = SubSeq(hand, n + 1, Len(hand))
  BY DEF Write
<1>2. sock' \in Seq(Byte) /\ hand' \in Seq(Byte)
  BY <1>1, MovePrefix, ConcatProperties
<1> QED BY <1>2 DEF Write, connVars

LEMMA ClientReadsStep == WriteInv /\ ClientReads => WriteInv'
<1> SUFFICES ASSUME WriteInv, ClientReads PROVE WriteInv'
  OBVIOUS
<1> USE DEF WriteInv, TypeOK, NoLostWakeUp, Loops
<1>1. PICK n \in 1 .. Len(sock) : /\ got' = got \o SubSeq(sock, 1, n)
                                  /\ sock' = SubSeq(sock, n + 1, Len(sock))
  BY DEF ClientReads
<1>2. got' \in Seq(Byte) /\ sock' \in Seq(Byte)
  BY <1>1, MovePrefix, ConcatProperties
<1> QED BY <1>2 DEF ClientReads, connVars

LEMMA WriteInvStep == WriteInv /\ [Next]_vars => WriteInv'
<1> SUFFICES ASSUME WriteInv, [Next]_vars PROVE WriteInv'
  OBVIOUS
<1>1. CASE handleWrite
  BY <1>1 DEF handleWrite, WriteInv, TypeOK, NoLostWakeUp, Loops
<1>2. CASE WouldBlock
  BY <1>2, EmptySeq DEF WouldBlock, KeepRest, WantWrite, WriteInv, TypeOK, NoLostWakeUp, Loops
<1>3. CASE WriteDone
  BY <1>3, EmptySeq DEF WriteDone, WriteInv, TypeOK, NoLostWakeUp, Loops
<1>4. CASE Disconnect
  BY <1>4, EmptySeq DEF Disconnect, disconnectClient, WriteInv, TypeOK, NoLostWakeUp, Loops
<1>5. CASE UNCHANGED vars
  BY <1>5 DEF vars, connVars, WriteInv, TypeOK, NoLostWakeUp, Loops
<1> QED
  BY <1>1, <1>2, <1>3, <1>4, <1>5, SendStep, WriteStep, ClientReadsStep DEF Next, Gateway

LEMMA WriteInvAlways == Spec => []WriteInv
<1> QED BY WriteInit, WriteInvStep, PTL DEF Spec

\* Type correctness of the connection's output side.
THEOREM WriteTypeCorrect == Spec => []TypeOK
<1>1. WriteInv => TypeOK
  BY DEF WriteInv
<1> QED BY <1>1, WriteInvAlways, PTL

\* No wake-up is lost: text in write_buffer has EPOLLOUT registered, and
\* write_pending tells the truth (sendToClient, handleWrite, the pong).
THEOREM NoWakeUpLost == Spec => []NoLostWakeUp
<1>1. WriteInv => NoLostWakeUp
  BY DEF WriteInv
<1> QED BY <1>1, WriteInvAlways, PTL

-----------------------------------------------------------------------------
(* The output side implements ByteStream *)

UnderWay == IF open THEN sock \o Waiting ELSE sock

LEMMA StreamInit == Init => Stream!Init
BY ConcatEmptySeq, EmptySeq DEF Init, Stream!Init, Waiting

LEMMA SendPuts ==
  ASSUME WriteInv, NEW m \in Msgs, sendToClient(m) \/ Pong(m)
  PROVE  Stream!Put(Bytes(m))
<1> USE DEF WriteInv, TypeOK, NoLostWakeUp, Loops
<1>1. Bytes(m) \in Seq(Byte)
  BY BytesType
<1>2. Waiting = buffer /\ Waiting' = buffer \o Bytes(m)
  BY <1>1, ConcatEmptySeq DEF sendToClient, Pong, Give, Waiting
<1>3. (sock \o buffer) \o Bytes(m) = sock \o (buffer \o Bytes(m))
  <2> sock \in Seq(Byte) /\ buffer \in Seq(Byte)
    OBVIOUS
  <2> HIDE DEF WriteInv, TypeOK, NoLostWakeUp, Loops
  <2> QED BY <1>1, Associative
<1>4. open /\ UNCHANGED <<open, sock, got>>
  BY DEF sendToClient, Pong, Give
<1> QED BY <1>2, <1>3, <1>4 DEF Stream!Put

\* Bytes move from the loop to the socket and between the loop and the
\* buffer: nothing that is under way is lost, doubled or overtaken.
LEMMA GatewayKeeps ==
  ASSUME WriteInv, Gateway
  PROVE  UNCHANGED Stream!vars
<1> USE DEF WriteInv, TypeOK, NoLostWakeUp, Loops
<1>1. CASE handleWrite
  BY <1>1 DEF handleWrite, Waiting, Stream!vars
<1>2. CASE Write
  <2>1. PICK n \in 1 .. Len(hand) : /\ sock' = sock \o SubSeq(hand, 1, n)
                                    /\ hand' = SubSeq(hand, n + 1, Len(hand))
    BY <1>2 DEF Write
  <2>2. sock' \o hand' = sock \o hand
    <3>1. sock \in Seq(Byte) /\ hand \in Seq(Byte)
      OBVIOUS
    <3> HIDE DEF WriteInv, TypeOK, NoLostWakeUp, Loops
    <3>2. (sock \o SubSeq(hand, 1, n)) \o SubSeq(hand, n + 1, Len(hand)) = sock \o hand
      BY <3>1, MovePrefix, Zenon
    <3> QED BY <2>1, <3>2, Zenon
  <2>3. pc # "idle" /\ UNCHANGED <<open, pc, got>>
    BY <1>2 DEF Write, connVars
  <2> QED BY <2>2, <2>3 DEF Waiting, Stream!vars
<1>3. CASE WouldBlock
  BY <1>3 DEF WouldBlock, KeepRest, Waiting, Stream!vars
<1>4. CASE WriteDone
  BY <1>4 DEF WriteDone, Waiting, Stream!vars
<1> QED BY <1>1, <1>2, <1>3, <1>4 DEF Gateway

LEMMA DisconnectBreaks ==
  ASSUME WriteInv, Disconnect
  PROVE  \E n \in 0 .. Len(UnderWay) : Stream!Break(n)
<1> USE DEF WriteInv, TypeOK, NoLostWakeUp, Loops
<1>1. open /\ open' = FALSE /\ UNCHANGED <<sock, got>>
  BY DEF Disconnect, disconnectClient
<1>2. Waiting \in Seq(Byte)
  BY DEF Waiting
<1>3. UnderWay = sock \o Waiting /\ Len(sock) \in 0 .. Len(UnderWay)
  BY <1>1, <1>2, ConcatProperties, LenProperties DEF UnderWay
<1>4. SubSeq(UnderWay, 1, Len(sock)) = sock
  <2>1. CASE sock = <<>>
    BY <1>3, <2>1, SubSeqEmpty, EmptySeq
  <2>2. CASE sock # <<>>
    BY <1>2, <1>3, <2>2, EmptySeq, SubSeqOfConcat1, SubSeqFull, LenProperties
  <2> QED BY <2>1, <2>2
<1>5. PICK n \in 0 .. Len(UnderWay) : n = Len(sock)
  BY <1>3
<1>6. Stream!Break(n)
  BY <1>1, <1>4, <1>5 DEF Stream!Break, UnderWay
<1> QED BY <1>6

LEMMA ClientTakes ==
  ASSUME WriteInv, ClientReads
  PROVE  \E n \in 0 .. Len(UnderWay) : Stream!Take(n)
<1> USE DEF WriteInv, TypeOK, NoLostWakeUp, Loops
<1>1. PICK n \in 1 .. Len(sock) : /\ got' = got \o SubSeq(sock, 1, n)
                                  /\ sock' = SubSeq(sock, n + 1, Len(sock))
  BY DEF ClientReads
<1>2. Waiting \in Seq(Byte) /\ UNCHANGED <<open, Waiting>>
  BY DEF ClientReads, connVars, Waiting
<1>3. CASE open
  <2>1. UnderWay = sock \o Waiting /\ UnderWay' = sock' \o Waiting
    BY <1>2, <1>3 DEF UnderWay
  <2>2. /\ n \in 0 .. Len(UnderWay)
        /\ SubSeq(UnderWay, 1, n) = SubSeq(sock, 1, n)
        /\ SubSeq(UnderWay, n + 1, Len(UnderWay)) = SubSeq(sock, n + 1, Len(sock)) \o Waiting
    BY <1>2, <2>1, PrefixOfConcat
  <2>3. Stream!Take(n)
    BY <1>1, <1>2, <2>1, <2>2 DEF Stream!Take, UnderWay
  <2> QED BY <2>2, <2>3
<1>4. CASE ~open
  <2>1. n \in 0 .. Len(UnderWay) /\ UnderWay = sock /\ UnderWay' = sock'
    BY <1>2, <1>4, LenProperties DEF UnderWay
  <2>2. Stream!Take(n)
    BY <1>1, <1>2, <2>1 DEF Stream!Take, UnderWay
  <2> QED BY <2>1, <2>2
<1> QED BY <1>3, <1>4

LEMMA StreamStep == WriteInv /\ [Next]_vars => [Stream!Next]_Stream!vars
<1> SUFFICES ASSUME WriteInv, [Next]_vars PROVE [Stream!Next]_Stream!vars
  OBVIOUS
<1>1. ASSUME NEW m \in Msgs, sendToClient(m) \/ Pong(m) PROVE Stream!Next
  <2>1. PICK c \in {Bytes(k) : k \in Msgs} : c = Bytes(m)
    OBVIOUS
  <2> QED BY <1>1, <2>1, SendPuts DEF Stream!Next
<1>2. CASE Disconnect
  BY <1>2, DisconnectBreaks DEF Stream!Next, UnderWay
<1>3. CASE ClientReads
  BY <1>3, ClientTakes DEF Stream!Next, UnderWay
<1>4. CASE UNCHANGED vars
  BY <1>4 DEF vars, connVars, Waiting, Stream!vars
<1> QED BY <1>1, <1>2, <1>3, <1>4, GatewayKeeps DEF Next

\* The client reads whole messages in the order they were handed over, each
\* once, and a broken connection loses a suffix only (sendToClient,
\* handleWrite, handleWsControlFrame, disconnectClient).
THEOREM WritePathImplementsStream == Spec => InOrder
<1> QED BY StreamInit, StreamStep, WriteInvAlways, PTL DEF Spec, InOrder, Stream!Spec
=============================================================================
