-------------------------- MODULE WebSocketReader --------------------------
(***************************************************************************)
(* The input side of a WebSocket connection: handleWsRead and              *)
(* handleWsControlFrame (gateway/src/EpollServer.cpp) with the frame       *)
(* parser and the reassembly of WebSocketCodec                             *)
(* (gateway/src/WebSocketCodec.cpp).  read(2) takes any part of the bytes  *)
(* under way, so a frame may be split anywhere and frames may come         *)
(* together.                                                               *)
(*                                                                         *)
(* A byte is the number of its frame and its position there.  What a       *)
(* message says, the pong and the handling of messages are left out: a     *)
(* part of a message is the frame it is from and the first payload byte    *)
(* that got through.                                                       *)
(***************************************************************************)
EXTENDS Naturals, Sequences, FiniteSets

CONSTANTS
  Frames,      \* the frames clients send, each by its header
  Inline,      \* longest length in the basic header, 125
  Wide,        \* longest length in two bytes, 65535
  MaxPayload,  \* max_payload_size_, 65536
  MaxFrames    \* bound: frames the client sends

Control == {"ping", "close"}
Opcodes == {"text", "cont"} \cup Control

ASSUME FramesAssumption ==
  /\ Frames \subseteq [op : Opcodes, fin : BOOLEAN, masked : BOOLEAN, len : Nat]
  /\ Inline \in Nat /\ Wide \in Nat /\ MaxPayload \in Nat /\ MaxFrames \in Nat
  /\ Inline < Wide /\ MaxPayload <= Wide + 1

VARIABLES
  open,        \* connections_ has the connection
  sent,        \* the frames the client has sent (external)
  wire,        \* bytes under way, in flight or in the socket (external)
  pc,          \* "wait" for epoll, or "parse", in handleWsRead's inner loop
  buffer,      \* conn.ws.raw_buffer
  state,       \* conn.ws.parse_state
  fragments,   \* conn.ws.reassembly_buf; not empty while in_fragmented
  taken,       \* the frames tryParseFrame returned (history)
  handled      \* the messages given to handleMessage (history)

vars == <<open, sent, wire, pc, buffer, state, fragments, taken, handled>>

Byte == (1 .. MaxFrames) \X Nat
Part == [frame : 1 .. MaxFrames, first : Nat]
Stages == {"HEADER_BASIC", "HEADER_EXTENDED_LEN", "HEADER_MASK_KEY", "PAYLOAD"}

TypeOK ==
  /\ open \in BOOLEAN
  /\ sent \in Seq(Frames) /\ Len(sent) <= MaxFrames
  /\ wire \in Seq(Byte) /\ buffer \in Seq(Byte)
  /\ pc \in {"wait", "parse"}
  /\ state \in [stage : Stages, op : Opcodes \cup {"none"}, fin : BOOLEAN,
                length : Nat, needed : Nat, consumed : Nat]
  /\ state.consumed <= state.needed
  /\ fragments \in Seq(Part) /\ taken \in Seq(Part)
  /\ handled \in Seq(Seq(Part))

\* WsFrameParseState::reset; the mask key and the masked flag are not kept.
reset == [stage |-> "HEADER_BASIC", op |-> "none", fin |-> FALSE,
          length |-> 0, needed |-> 0, consumed |-> 0]

Init ==
  /\ open = TRUE /\ pc = "wait"
  /\ sent = <<>> /\ wire = <<>>
  /\ buffer = <<>> /\ state = reset
  /\ fragments = <<>>
  /\ taken = <<>> /\ handled = <<>>

-----------------------------------------------------------------------------
(* The client *)

\* Bytes of the extended length a client writes, and of a whole frame.
Extended(len) == IF len <= Inline THEN 0 ELSE IF len <= Wide THEN 2 ELSE 8
Size(fr) == 2 + Extended(fr.len) + 4 + fr.len

DataFrames == {i \in DOMAIN sent : sent[i].op \notin Control}

\* The client is inside a fragmented message.
Unfinished == \E i \in DataFrames : ~sent[i].fin /\ \A j \in DataFrames : j <= i

\* RFC 6455 as clients keep it: fragments of one message at a time, control
\* frames between them whole, nothing after a close.
InTurn(fr) ==
  /\ \A i \in DOMAIN sent : sent[i].op # "close"
  /\ IF fr.op \in Control THEN fr.fin ELSE fr.op = "cont" <=> Unfinished

ClientSends(fr) ==
  /\ open
  /\ Len(sent) < MaxFrames
  /\ InTurn(fr)
  /\ sent' = Append(sent, fr)
  /\ wire' = wire \o [k \in 1 .. Size(fr) |-> <<Len(sent) + 1, k>>]
  /\ UNCHANGED <<open, pc, buffer, state, fragments, taken, handled>>

-----------------------------------------------------------------------------
(* handleWsRead *)

\* read(2) gives what has arrived, 1024 bytes at most.
Read ==
  /\ open /\ pc = "wait"
  /\ \E n \in 1 .. Len(wire) :
       /\ buffer' = buffer \o SubSeq(wire, 1, n)
       /\ wire' = SubSeq(wire, n + 1, Len(wire))
  /\ pc' = "parse"
  /\ UNCHANGED <<open, sent, state, fragments, taken, handled>>

\* The client closed, reading failed, or the client was silent for too long.
Disconnect ==
  /\ open /\ pc = "wait"
  /\ open' = FALSE
  /\ UNCHANGED <<sent, wire, pc, buffer, state, fragments, taken, handled>>

-----------------------------------------------------------------------------
(* tryParseFrame, one action per stage.  "Return false" leaves the inner     *)
(* loop, and the next read(2) says EAGAIN or brings more.                    *)

Parsing(stage) == pc = "parse" /\ state.stage = stage

\* buffer.erase(begin, begin + n)
Erase(n) == buffer' = SubSeq(buffer, n + 1, Len(buffer))

\* The frame the next bytes are from.
Incoming == sent[Head(buffer)[1]]

\* What the parser keeps of a header.  A long frame says 126 or 127 where the
\* length is, and payload_length starts with that.
OfHeader(fr) ==
  [stage |-> IF fr.len > Inline THEN "HEADER_EXTENDED_LEN" ELSE "HEADER_MASK_KEY",
   op |-> fr.op, fin |-> fr.fin,
   length |-> IF fr.len > Inline THEN Inline + 1 ELSE fr.len,
   needed |-> IF fr.len > Inline THEN Extended(fr.len) ELSE 4,
   consumed |-> 0]

\* Mutant of HeaderDone: only the first byte is taken out of the buffer.
HeaderDoneKeep(fr) == state' = OfHeader(fr) /\ Erase(1)

\* The two bytes of the header are taken out of the buffer.
HeaderDone(fr) == state' = OfHeader(fr) /\ Erase(2)

\* HEADER_BASIC, which returns false in any case.  The bytes of a frame without
\* a mask are left where they are.
HeaderBasic ==
  /\ Parsing("HEADER_BASIC")
  /\ CASE Len(buffer) < 2 -> UNCHANGED <<buffer, state>>
       [] Len(buffer) >= 2 /\ Incoming.masked -> HeaderDone(Incoming)
       [] OTHER -> /\ state' = [state EXCEPT !.op = Incoming.op, !.fin = Incoming.fin]
                   /\ UNCHANGED buffer
  /\ pc' = "wait"
  /\ UNCHANGED <<open, sent, wire, fragments, taken, handled>>

\* Mutant of avail: everything in the buffer, as if only this stage were in it.
availAll == Len(buffer)

\* std::min(buffer.size(), bytes_needed - bytes_consumed)
avail ==
  LET missing == state.needed - state.consumed IN
  IF Len(buffer) < missing THEN Len(buffer) ELSE missing

\* The stage has all its bytes after this call.
Completes == state.consumed + avail >= state.needed

\* What the length bytes are shifted into is not cleared: behind 126 two
\* bytes leave it far too long, behind 127 eight bytes push it out.
Shifted(len) == IF len <= Wide THEN (Inline + 1) * (Wide + 1) + len ELSE len

ExtendedLen ==
  /\ Parsing("HEADER_EXTENDED_LEN")
  /\ Erase(avail)
  /\ IF avail > 0 /\ Completes
     THEN /\ state' = [state EXCEPT !.stage = "HEADER_MASK_KEY", !.needed = 4, !.consumed = 0,
                                    !.length = Shifted(Incoming.len)]
          /\ UNCHANGED pc
     ELSE state' = [state EXCEPT !.consumed = @ + avail] /\ pc' = "wait"
  /\ UNCHANGED <<open, sent, wire, fragments, taken, handled>>

\* payload_length > max_payload_size_ is refused.
WithinLimit == state.length <= MaxPayload

\* HEADER_MASK_KEY.  A frame that is too long stays in this stage, with no
\* byte left to take.
MaskKey ==
  /\ Parsing("HEADER_MASK_KEY")
  /\ Erase(avail)
  /\ IF avail > 0 /\ Completes /\ WithinLimit
     THEN /\ state' = [state EXCEPT !.stage = "PAYLOAD", !.needed = state.length, !.consumed = 0]
          /\ UNCHANGED pc
     ELSE state' = [state EXCEPT !.consumed = @ + avail] /\ pc' = "wait"
  /\ UNCHANGED <<open, sent, wire, fragments, taken, handled>>

\* PAYLOAD with bytes missing: what there is goes into a WsFrame that is
\* thrown away when the call returns false.
PayloadPart ==
  /\ Parsing("PAYLOAD")
  /\ avail = 0 \/ ~Completes
  /\ Erase(avail)
  /\ state' = [state EXCEPT !.consumed = @ + avail]
  /\ pc' = "wait"
  /\ UNCHANGED <<open, sent, wire, fragments, taken, handled>>

\* What the frame holds when the payload ends: the bytes of this call.
Got == [frame |-> Head(buffer)[1], first |-> state.consumed + 1]

\* Mutant of Reassemble: in_fragmented is not left after the last fragment.
ReassembleForever ==
  /\ fragments' = Append(fragments, Got)
  /\ handled' = IF state.fin THEN Append(handled, fragments') ELSE handled

\* Reassembly: the last fragment makes the message, any data frame counts as one.
Reassemble ==
  IF state.fin THEN handled' = Append(handled, Append(fragments, Got)) /\ fragments' = <<>>
               ELSE fragments' = Append(fragments, Got) /\ UNCHANGED handled

\* The connection object is destroyed under the loop, which then holds a dangling
\* reference: it stops, or it finds the bytes still there and goes on.
Destroy == open' = FALSE /\ pc' \in {"wait", pc}

\* PAYLOAD complete: the frame is returned and handled, and the loop goes on
\* with a new call.  A control frame does not touch the fragments.  A close
\* ends the connection; so may the handler of a message, by a write error.
FrameComplete ==
  /\ Parsing("PAYLOAD")
  /\ avail > 0 /\ Completes
  /\ Erase(avail)
  /\ taken' = Append(taken, Got)
  /\ state' = reset
  /\ IF state.op \in Control THEN UNCHANGED <<fragments, handled>> ELSE Reassemble
  /\ \/ state.op # "close" /\ UNCHANGED <<open, pc>>
     \/ (state.op = "close" \/ handled' # handled) /\ Destroy
  /\ UNCHANGED <<sent, wire>>

-----------------------------------------------------------------------------
Parse == HeaderBasic \/ ExtendedLen \/ MaskKey \/ PayloadPart \/ FrameComplete

Next == Read \/ Parse \/ Disconnect \/ \E fr \in Frames : ClientSends(fr)

Spec == Init /\ [][Next]_vars

-----------------------------------------------------------------------------
(* Properties *)

\* The number of the frame the parser is at.
Current == Len(taken) + 1

\* Position in that frame of the first byte that is still to be parsed.
Position ==
  CASE state.stage = "HEADER_BASIC" -> 1
    [] state.stage = "HEADER_EXTENDED_LEN" -> 3 + state.consumed
    [] state.stage = "HEADER_MASK_KEY" -> 3 + Extended(sent[Current].len) + state.consumed
    [] state.stage = "PAYLOAD" -> 7 + Extended(sent[Current].len) + state.consumed

\* All bytes of an empty frame are parsed, and still it is not returned.
AtEnd == state.stage = "PAYLOAD" /\ Position > Size(sent[Current])

\* However the bytes are split over reads, the parser never loses the frame
\* boundaries: it goes on where it stopped, in the frame whose header it
\* holds (tryParseFrame).
InStep ==
  LET rest == buffer \o wire IN
  /\ rest # <<>> => Head(rest) = IF AtEnd THEN <<Current + 1, 1>> ELSE <<Current, Position>>
  /\ state.stage # "HEADER_BASIC" =>
       state.op = sent[Current].op /\ state.fin = sent[Current].fin

\* All bytes of the current frame have been read.
Complete == Current \in DOMAIN sent /\ ~\E i \in DOMAIN wire : wire[i][1] = Current

\* Frames are returned in the order they were sent, none left out or twice.
FramesInOrder == \A i \in DOMAIN taken : taken[i].frame = i

MessageOf(i) == Cardinality({j \in DataFrames : j <= i /\ sent[j].op = "text"})

\* A message handed over is made of all its frames, in order, and of no other
\* message's, whatever control frames came between them (reassembly).
WholeMessages ==
  \A m \in DOMAIN handled :
    LET from == {handled[m][j].frame : j \in DOMAIN handled[m]} IN
    /\ from = {i \in DataFrames : MessageOf(i) = m}
    /\ \A j, k \in DOMAIN handled[m] : j < k => handled[m][j].frame < handled[m][k].frame

\* WebSocketCodec.h:127-129, "true: a whole frame is parsed, false: the data is
\* incomplete, wait for more": when the loop waits for more, it does not hold a
\* whole masked frame within the limit that it has not returned.
NothingHeldBack ==
  open /\ pc = "wait" /\ Complete =>
    ~sent[Current].masked \/ sent[Current].len > MaxPayload

\* WebSocketCodec.cpp:225, "supports parsing step by step across read()
\* calls": a frame that is returned has its whole payload.
PayloadWhole == \A i \in DOMAIN taken : taken[i].first = 1
=============================================================================
