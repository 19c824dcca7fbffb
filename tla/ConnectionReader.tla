-------------------------- MODULE ConnectionReader --------------------------
(***************************************************************************)
(* The input side of a connection from its first byte on: handleTcpRead    *)
(* and tryWebSocketUpgrade (gateway/src/EpollServer.cpp), in front of the  *)
(* WebSocket part.  A connection starts as UNKNOWN.  What it sends is cut  *)
(* into lines, unless the text read so far holds a whole request for       *)
(* /metrics or for an upgrade; both are looked for after each read(2),     *)
(* before the lines are taken out.                                         *)
(*                                                                         *)
(* A character is the number of its line and its position there; the last  *)
(* one of a line is the newline.                                           *)
(***************************************************************************)
EXTENDS WebSocketReader

CONSTANTS
  Lengths,     \* lengths of the lines clients send, with the newline
  MaxLines,    \* bound: lines such a client sends
  MaxBuffer    \* what may be left in read_buffer, 65536

ASSUME LinesAssumption ==
  Lengths \subseteq Nat \ {0} /\ MaxLines \in Nat /\ MaxBuffer \in Nat

VARIABLES
  client,       \* what the other end is: "lines", "browser", "scraper" (external)
  text,         \* the lines it has sent (external)
  stream,       \* characters under way (external)
  protocol,     \* conn.protocol; nobody ever sets TCP
  reading,      \* handleTcpRead: "no", "fresh" after read(2), "lines" in its inner loop
  read_buffer,  \* conn.read_buffer
  lines         \* what handleMessage was given (history)

tcp == <<client, text, stream, protocol, reading, read_buffer, lines>>
allVars == <<vars, tcp>>

Character == (Nat \ {0}) \X (Nat \ {0})

ConnectionTypeOK ==
  /\ TypeOK
  /\ client \in {"lines", "browser", "scraper"}
  /\ text \in Seq([what : {"message", "metrics", "upgrade", "key", "blank"},
                   len : Nat \ {0}])
  /\ stream \in Seq(Character) /\ read_buffer \in Seq(Character)
  /\ protocol \in {"UNKNOWN", "WEBSOCKET"} /\ reading \in {"no", "fresh", "lines"}
  /\ lines \in Seq(Seq(Character))

ConnectionInit ==
  /\ Init
  /\ client \in {"lines", "browser", "scraper"}
  /\ text = <<>> /\ stream = <<>>
  /\ protocol = "UNKNOWN" /\ reading = "no"
  /\ read_buffer = <<>> /\ lines = <<>>

-----------------------------------------------------------------------------
(* The client *)

Line(what, len) == [what |-> what, len |-> len]
Characters(i, line) == [k \in 1 .. line.len |-> <<i, k>>]

SendsLine(len) ==
  /\ open /\ client = "lines" /\ Len(text) < MaxLines
  /\ text' = Append(text, Line("message", len))
  /\ stream' = stream \o Characters(Len(text) + 1, Line("message", len))
  /\ UNCHANGED <<vars, client, protocol, reading, read_buffer, lines>>

\* The lines of a request that anybody looks at, and the blank line behind them.
Upgrade == <<Line("upgrade", 2), Line("key", 1), Line("blank", 1)>>
Metrics == <<Line("metrics", 2), Line("blank", 1)>>

\* A browser sends its request and waits for the answer, so does a scraper.
SendsRequest ==
  /\ open /\ client # "lines" /\ text = <<>>
  /\ text' = IF client = "browser" THEN Upgrade ELSE Metrics
  /\ stream' = IF client = "browser"
                 THEN Characters(1, Upgrade[1]) \o Characters(2, Upgrade[2])
                        \o Characters(3, Upgrade[3])
                 ELSE Characters(1, Metrics[1]) \o Characters(2, Metrics[2])
  /\ UNCHANGED <<vars, client, protocol, reading, read_buffer, lines>>

-----------------------------------------------------------------------------
(* handleTcpRead *)

Newline(c) == c[2] = text[c[1]].len

\* read_buffer holds the whole text of such a line; and the end of a header,
\* which is two line ends one behind the other.
Has(what) ==
  \E i \in DOMAIN text :
    text[i].what = what /\ \A c \in {<<i, k>> : k \in 1 .. text[i].len} :
                             \E j \in DOMAIN read_buffer : read_buffer[j] = c
HeaderEnd == Has("blank") /\ \E j \in DOMAIN read_buffer :
               Newline(read_buffer[j]) /\ text[read_buffer[j][1]].what # "blank"

Scrape == Has("metrics") /\ HeaderEnd
Handshake == protocol = "UNKNOWN" /\ Has("upgrade") /\ HeaderEnd

\* read(2) gives what has arrived.
TcpRead ==
  /\ open /\ protocol = "UNKNOWN" /\ reading = "no"
  /\ \E n \in 1 .. Len(stream) :
       /\ read_buffer' = read_buffer \o SubSeq(stream, 1, n)
       /\ stream' = SubSeq(stream, n + 1, Len(stream))
  /\ reading' = "fresh"
  /\ UNCHANGED <<vars, client, text, protocol, lines>>

\* A request for /metrics is answered and the connection closed.
AnswerMetrics ==
  /\ reading = "fresh" /\ Scrape
  /\ read_buffer' = <<>>
  /\ open' = FALSE /\ reading' = "no"
  /\ UNCHANGED <<sent, wire, pc, buffer, state, fragments, taken, handled>>
  /\ UNCHANGED <<client, text, stream, protocol, lines>>

\* tryWebSocketUpgrade: the request is taken out of the buffer, nothing is behind
\* it, and conn.ws is as new.
UpgradeDone ==
  /\ reading = "fresh" /\ ~Scrape /\ Handshake
  /\ read_buffer' = <<>>
  /\ protocol' = "WEBSOCKET" /\ reading' = "no"
  /\ UNCHANGED <<vars, client, text, stream, lines>>

\* The answer cannot be written: the request is gone and the protocol stays.
UpgradeFails ==
  /\ reading = "fresh" /\ ~Scrape /\ Handshake
  /\ read_buffer' = <<>>
  /\ reading' = "lines"
  /\ UNCHANGED <<vars, client, text, stream, protocol, lines>>

\* No request, or not yet all of it: on to the lines, those of its header too.
NoRequest ==
  /\ reading = "fresh" /\ ~Scrape /\ ~Handshake
  /\ reading' = "lines"
  /\ UNCHANGED <<vars, client, text, stream, protocol, read_buffer, lines>>

\* Positions of newlines in the buffer.
Ends == {j \in DOMAIN read_buffer : Newline(read_buffer[j])}

\* Mutant of Rest: the buffer is cleared behind a line.
RestCleared(pos) == <<>>

\* erase(0, pos + 1)
Rest(pos) == SubSeq(read_buffer, pos + 1, Len(read_buffer))

\* Mutant of AfterLine: "if" where the code has "while".
AfterLineStop == open' = open /\ reading' = "no"

\* The inner loop goes on.  The line's handler may destroy the connection, by a
\* write error; the loop's reference then dangles, and it stops or goes on.
AfterLine == UNCHANGED <<open, reading>> \/ (open' = FALSE /\ reading' \in {"no", "lines"})

\* The first line goes to handleMessage.
NextLine ==
  /\ reading = "lines"
  /\ \E pos \in Ends :
       /\ \A j \in Ends : pos <= j
       /\ lines' = Append(lines, SubSeq(read_buffer, 1, pos))
       /\ read_buffer' = Rest(pos)
  /\ AfterLine
  /\ UNCHANGED <<sent, wire, pc, buffer, state, fragments, taken, handled>>
  /\ UNCHANGED <<client, text, stream, protocol>>

TooLong == Len(read_buffer) > MaxBuffer

\* No line is left.  A part of a line that is too long ends the connection.
LinesDone ==
  /\ reading = "lines" /\ Ends = {}
  /\ reading' = "no"
  /\ open' = (open /\ ~TooLong)
  /\ UNCHANGED <<sent, wire, pc, buffer, state, fragments, taken, handled>>
  /\ UNCHANGED <<client, text, stream, protocol, read_buffer, lines>>

\* The client closed, reading failed, or the client was silent for too long.
TcpDisconnect ==
  /\ open /\ protocol = "UNKNOWN" /\ reading = "no"
  /\ open' = FALSE
  /\ UNCHANGED <<sent, wire, pc, buffer, state, fragments, taken, handled, tcp>>

-----------------------------------------------------------------------------
TcpStep ==
  \/ TcpRead \/ AnswerMetrics \/ UpgradeDone \/ UpgradeFails
  \/ NoRequest \/ NextLine \/ LinesDone

\* handleRead: by protocol.
WebSocketStep == protocol = "WEBSOCKET" /\ (Read \/ Parse) /\ UNCHANGED tcp

ConnectionNext ==
  \/ TcpStep \/ TcpDisconnect \/ SendsRequest
  \/ \E len \in Lengths : SendsLine(len)
  \/ protocol = "WEBSOCKET" /\ Next /\ UNCHANGED tcp

ConnectionSpec == ConnectionInit /\ [][ConnectionNext]_allVars

\* The loop turns, and epoll reports what has arrived.
ConnectionFairSpec == ConnectionSpec /\ WF_allVars(TcpStep \/ WebSocketStep)

-----------------------------------------------------------------------------
(* Properties *)

\* What a client sends is handed on in order, each once: a line whole, however
\* read(2) cuts it and whatever the line before it did (handleTcpRead), and a
\* frame under its own number (handleWsRead).
InputInOrder ==
  /\ \A i \in DOMAIN lines : i \in DOMAIN text /\ lines[i] = Characters(i, text[i])
  /\ FramesInOrder

\* Every line that was sent is handed on, unless the connection ends, however
\* the lines come together in one read (the inner loop of handleTcpRead, and
\* epoll's report of what arrives).  Frames have no such promise: see
\* NothingHeldBack.
InputIsServed ==
  \A i \in 1 .. MaxLines :
    (client = "lines" /\ i \in DOMAIN text) ~> (i \in DOMAIN lines \/ ~open)
=============================================================================
