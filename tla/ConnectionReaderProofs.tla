------------------------ MODULE ConnectionReaderProofs -----------------------
(***************************************************************************)
(* Proofs about WebSocketReader and ConnectionReader for any frames and    *)
(* lines that clients send, any limits and any way read(2) cuts what they  *)
(* send: types, that the parser never loses the boundaries of frames, that *)
(* frames and lines are handed on in order, and that messages are whole.   *)
(***************************************************************************)
EXTENDS ConnectionReader, SequenceTheorems, FiniteSetTheorems, TLAPS

-----------------------------------------------------------------------------
(* The invariants *)

\* The sequence holds items one behind the other: s[j] is the number of an item
\* and a position in it, size says how long each item is.  Only the first item
\* may lack its beginning.
Whole(s, size) ==
  \A j \in 1 .. Len(s) :
    /\ s[j][1] \in DOMAIN size /\ s[j][2] \in 1 .. size[s[j][1]]
    /\ \A m \in 1 .. size[s[j][1]] :
         j - s[j][2] + m >= 1 => /\ j - s[j][2] + m <= Len(s)
                                 /\ s[j - s[j][2] + m] = <<s[j][1], m>>
    /\ s[j][2] = size[s[j][1]] /\ j < Len(s) => s[j + 1] = <<s[j][1] + 1, 1>>

\* ... up to the last item.
EndsWith(s, n) == s # <<>> => s[Len(s)][1] = n

\* n items that are to be gone on with at place w.
Laid(s, size, n, w) ==
  /\ Whole(s, size) /\ EndsWith(s, n)
  /\ IF s = <<>> THEN w = <<n + 1, 1>> ELSE s[1] = w

\* The bytes and the parser: what is next is where the parser is.
Sizes == [i \in DOMAIN sent |-> Size(sent[i])]
Where == IF AtEnd THEN <<Current + 1, 1>> ELSE <<Current, Position>>

Framed == Laid(buffer \o wire, Sizes, Len(sent), Where)

\* What the parser holds in each stage is about the current frame.
Staged ==
  /\ state.stage = "HEADER_BASIC" => state.consumed = 0
  /\ state.stage # "HEADER_BASIC" =>
       /\ Current \in DOMAIN sent /\ sent[Current].masked
       /\ state.op = sent[Current].op /\ state.fin = sent[Current].fin
  /\ state.stage = "HEADER_EXTENDED_LEN" =>
       /\ sent[Current].len > Inline
       /\ state.needed = Extended(sent[Current].len) /\ state.consumed < state.needed
  /\ state.stage = "HEADER_MASK_KEY" =>
       /\ state.needed = 4 /\ (WithinLimit => state.consumed < 4)
       /\ state.length = IF sent[Current].len <= Inline THEN sent[Current].len
                                                       ELSE Shifted(sent[Current].len)
  /\ state.stage = "PAYLOAD" =>
       /\ state.needed = sent[Current].len /\ sent[Current].len <= MaxPayload
       /\ Extended(sent[Current].len) # 2
       /\ state.consumed < state.needed \/ state.needed = 0

\* The frames returned.
Returned == Len(taken) <= Len(sent) /\ FramesInOrder

\* Among the data frames before frame n: those that end a message.
Finals(n) == {i \in DataFrames : i < n /\ sent[i].fin}
Texts == {i \in DataFrames : sent[i].op = "text"}

\* What clients keep to: a message is as old as the number of messages that
\* ended before, and one more has begun than has ended inside a message.
InTurns ==
  /\ Cardinality(Texts) = Cardinality(Finals(Len(sent) + 1)) + IF Unfinished THEN 1 ELSE 0
  /\ \A i \in DataFrames : MessageOf(i) = Cardinality(Finals(i)) + 1

\* The frames of parts, and their order.
From(parts) == {parts[j].frame : j \in DOMAIN parts}
InOrderOf(parts) == \A j, k \in DOMAIN parts : j < k => parts[j].frame < parts[k].frame

Reassembled ==
  /\ Len(handled) = Cardinality(Finals(Current))
  /\ From(fragments) = {i \in DataFrames : i < Current /\ MessageOf(i) = Len(handled) + 1}
  /\ InOrderOf(fragments)
  /\ WholeMessages

\* The lines and the buffer.
Lens == [i \in DOMAIN text |-> text[i].len]

Lined ==
  LET rest == read_buffer \o stream IN
  /\ rest # <<>> => Laid(rest, Lens, Len(text), <<Len(lines) + 1, 1>>)
  /\ client = "lines" => /\ protocol = "UNKNOWN"
                         /\ \A i \in DOMAIN text : text[i].what = "message"
                         /\ rest = <<>> => Len(lines) = Len(text)
  /\ \A i \in DOMAIN text : text[i].what = "blank" => i = Len(text)
  /\ \A i \in DOMAIN lines : i \in DOMAIN text /\ lines[i] = Characters(i, text[i])

-----------------------------------------------------------------------------
(* Sequences *)

\* What is left behind the first n elements.
LEMMA DropFacts ==
  ASSUME NEW S, NEW s \in Seq(S), NEW n \in 0 .. Len(s)
  PROVE  LET d == SubSeq(s, n + 1, Len(s)) IN
         /\ d \in Seq(S) /\ Len(d) = Len(s) - n
         /\ \A i \in 1 .. Len(s) - n : d[i] = s[n + i]
<1>1. Len(s) \in Nat /\ \A i \in n + 1 .. Len(s) : s[i] \in S
  BY LenProperties, ElementOfSeq
<1>2. /\ SubSeq(s, n + 1, Len(s)) \in Seq(S)
      /\ Len(SubSeq(s, n + 1, Len(s))) = IF n + 1 <= Len(s) THEN Len(s) - (n + 1) + 1 ELSE 0
      /\ \A i \in 1 .. Len(s) - (n + 1) + 1 : SubSeq(s, n + 1, Len(s))[i] = s[n + 1 + i - 1]
  BY <1>1, SubSeqProperties
<1> QED BY <1>1, <1>2

LEMMA ConcatFacts ==
  ASSUME NEW S, NEW s \in Seq(S), NEW t \in Seq(S)
  PROVE  /\ s \o t \in Seq(S) /\ Len(s \o t) = Len(s) + Len(t)
         /\ Len(s) \in Nat /\ Len(t) \in Nat
         /\ \A i \in 1 .. Len(s) : (s \o t)[i] = s[i]
         /\ \A i \in 1 .. Len(t) : (s \o t)[Len(s) + i] = t[i]
<1>1. Len(s) \in Nat /\ Len(t) \in Nat
  BY LenProperties
<1>2. /\ s \o t \in Seq(S) /\ Len(s \o t) = Len(s) + Len(t)
      /\ \A i \in 1 .. Len(s) + Len(t) : (s \o t)[i] = IF i <= Len(s) THEN s[i] ELSE t[i - Len(s)]
  BY ConcatProperties
<1>3. ASSUME NEW i \in 1 .. Len(t)
      PROVE  (s \o t)[Len(s) + i] = t[i]
  <2>1. Len(s) + i \in 1 .. Len(s) + Len(t) /\ ~(Len(s) + i <= Len(s)) /\ Len(s) + i - Len(s) = i
    BY <1>1
  <2> QED BY <1>2, <2>1
<1>4. \A i \in 1 .. Len(s) : (s \o t)[i] = s[i]
  BY <1>1, <1>2
<1> QED BY <1>1, <1>2, <1>3, <1>4

\* ConcatAssociative in the form the provers use.
LEMMA Associative == \A T : \A a, b, c \in Seq(T) : (a \o b) \o c = a \o (b \o c)
BY ConcatAssociative

\* read(2) does not change what is under way and in the buffer together.
LEMMA ReadMoves ==
  ASSUME NEW S, NEW b \in Seq(S), NEW w \in Seq(S), NEW n \in 1 .. Len(w)
  PROVE  /\ b \o SubSeq(w, 1, n) \in Seq(S) /\ SubSeq(w, n + 1, Len(w)) \in Seq(S)
         /\ (b \o SubSeq(w, 1, n)) \o SubSeq(w, n + 1, Len(w)) = b \o w
<1> DEFINE u == SubSeq(w, 1, n)
           v == SubSeq(w, n + 1, Len(w))
<1>1. Len(w) \in Nat /\ \A i \in 1 .. Len(w) : w[i] \in S
  BY LenProperties, ElementOfSeq
<1>2. u \in Seq(S) /\ v \in Seq(S)
  BY <1>1, SubSeqProperties
<1>3. u \o v = w
  <2>1. u \o v = SubSeq(w, 1, Len(w))
    BY <1>1, ConcatAdjacentSubSeq
  <2> QED BY <2>1, SubSeqFull
<1> HIDE DEF u, v
<1>4. b \o u \in Seq(S)
  BY <1>2, ConcatProperties
<1>5. (b \o u) \o v = b \o (u \o v)
  <2>1. b \in Seq(S) /\ u \in Seq(S) /\ v \in Seq(S)
    BY <1>2
  <2> QED BY ONLY <2>1, ConcatAssociative, SMTT(30)
<1> QED BY <1>2, <1>3, <1>4, <1>5 DEF u, v

\* A number and a position.
Places == Nat \X Nat

\* Erasing at the front of the buffer erases at the front of all there is.
LEMMA EraseFront ==
  ASSUME NEW b \in Seq(Places), NEW w \in Seq(Places), NEW n \in 0 .. Len(b)
  PROVE  /\ SubSeq(b, n + 1, Len(b)) \in Seq(Places)
         /\ n \in 0 .. Len(b \o w)
         /\ SubSeq(b, n + 1, Len(b)) \o w = SubSeq(b \o w, n + 1, Len(b \o w))
<1> DEFINE d == SubSeq(b, n + 1, Len(b))
           r == b \o w
           e == SubSeq(r, n + 1, Len(r))
<1>1. /\ r \in Seq(Places) /\ Len(r) = Len(b) + Len(w) /\ Len(b) \in Nat /\ Len(w) \in Nat
      /\ \A i \in 1 .. Len(b) : r[i] = b[i]
      /\ \A i \in 1 .. Len(w) : r[Len(b) + i] = w[i]
  BY ConcatFacts
<1>2. d \in Seq(Places) /\ Len(d) = Len(b) - n /\ \A i \in 1 .. Len(b) - n : d[i] = b[n + i]
  BY DropFacts
<1> HIDE DEF r
<1>3. n \in 0 .. Len(r)
  BY <1>1
<1>4. e \in Seq(Places) /\ Len(e) = Len(r) - n /\ \A i \in 1 .. Len(r) - n : e[i] = r[n + i]
  BY <1>1, <1>3, DropFacts
<1> HIDE DEF d, e
<1>5. /\ d \o w \in Seq(Places) /\ Len(d \o w) = Len(d) + Len(w)
      /\ \A i \in 1 .. Len(d) : (d \o w)[i] = d[i]
      /\ \A i \in 1 .. Len(w) : (d \o w)[Len(d) + i] = w[i]
  <2>1. d \in Seq(Places)
    BY <1>2
  <2> QED BY ONLY <2>1, w \in Seq(Places), ConcatFacts
<1>6. Len(d \o w) = Len(e)
  BY <1>1, <1>2, <1>4, <1>5
<1>7. ASSUME NEW i \in 1 .. Len(e)
      PROVE  (d \o w)[i] = e[i]
  <2>1. CASE i <= Len(d)
    <3>1. i \in 1 .. Len(b) - n /\ i \in 1 .. Len(r) - n /\ n + i \in 1 .. Len(b)
      BY <1>1, <1>2, <1>4, <2>1
    <3> QED BY <1>1, <1>2, <1>4, <1>5, <3>1
  <2>2. CASE i > Len(d)
    <3> DEFINE j == i - Len(d)
    <3>1. j \in 1 .. Len(w) /\ i = Len(d) + j /\ i \in 1 .. Len(r) - n /\ n + i = Len(b) + j
      BY <1>1, <1>2, <1>4, <2>2
    <3> HIDE DEF j
    <3>2. (d \o w)[i] = w[j] /\ e[i] = r[n + i] /\ r[n + i] = w[j]
      BY <1>1, <1>4, <1>5, <3>1
    <3> QED BY <3>2
  <2> QED BY <1>1, <1>2, <1>4, <2>1, <2>2
<1>8. d \o w = e
  BY <1>4, <1>5, <1>6, <1>7, SeqEqual
<1> QED BY <1>2, <1>3, <1>8 DEF d, e, r

-----------------------------------------------------------------------------
(* Items one behind the other *)

\* The rest of the first item is there, and the next item is behind it.
LEMMA WholeHead ==
  ASSUME NEW size, NEW s \in Seq(Places), Whole(s, size), s # <<>>,
         size[s[1][1]] \in Nat
  PROVE  LET i == s[1][1]
             k == s[1][2]
         IN
         /\ i \in DOMAIN size /\ k \in 1 .. size[i] /\ size[i] - k + 1 <= Len(s)
         /\ \A m \in k .. size[i] : s[m - k + 1] = <<i, m>>
         /\ size[i] - k + 1 < Len(s) => s[size[i] - k + 2] = <<i + 1, 1>>
<1> DEFINE i == s[1][1]
           k == s[1][2]
<1>1. Len(s) \in Nat \ {0}
  BY EmptySeq
<1>2. /\ i \in DOMAIN size /\ k \in 1 .. size[i]
      /\ \A m \in 1 .. size[i] :
           1 - k + m >= 1 => 1 - k + m <= Len(s) /\ s[1 - k + m] = <<i, m>>
  <2>1. 1 \in 1 .. Len(s)
    BY <1>1
  <2> QED BY <2>1 DEF Whole
<1>0. size[i] \in Nat
  OBVIOUS
<1> HIDE DEF i, k
<1>3. \A m \in k .. size[i] : m - k + 1 \in 1 .. Len(s) /\ s[m - k + 1] = <<i, m>>
  <2> SUFFICES ASSUME NEW m \in k .. size[i]
               PROVE  m - k + 1 \in 1 .. Len(s) /\ s[m - k + 1] = <<i, m>>
    OBVIOUS
  <2>1. m \in 1 .. size[i] /\ 1 - k + m >= 1 /\ 1 - k + m = m - k + 1
    BY <1>0, <1>2
  <2> QED BY <1>1, <1>2, <2>1
<1>4. size[i] - k + 1 \in 1 .. Len(s) /\ s[size[i] - k + 1] = <<i, size[i]>>
  <2>1. size[i] \in k .. size[i]
    BY <1>0, <1>2
  <2> QED BY <1>3, <2>1
<1>5. size[i] - k + 1 < Len(s) => s[size[i] - k + 1 + 1] = <<i + 1, 1>>
  BY <1>4 DEF Whole
<1>6. size[i] - k + 1 + 1 = size[i] - k + 2
  BY <1>0, <1>2
<1>7. k \in 1 .. size[i] /\ size[i] - k + 1 <= Len(s)
  BY <1>0, <1>1, <1>2, <1>4
<1>8. \A m \in k .. size[i] : s[m - k + 1] = <<i, m>>
  BY <1>3
<1>9. size[i] - k + 1 < Len(s) => s[size[i] - k + 2] = <<i + 1, 1>>
  BY <1>5, <1>6
<1> QED BY <1>2, <1>7, <1>8, <1>9 DEF i, k

LEMMA WholeDrop ==
  ASSUME NEW size, NEW s \in Seq(Places), Whole(s, size), NEW n \in 0 .. Len(s),
         \A i \in DOMAIN size : size[i] \in Nat
  PROVE  Whole(SubSeq(s, n + 1, Len(s)), size)
<1> DEFINE d == SubSeq(s, n + 1, Len(s))
<1>1. /\ d \in Seq(Places) /\ Len(d) = Len(s) - n /\ Len(s) \in Nat
      /\ \A i \in 1 .. Len(s) - n : d[i] = s[n + i]
  BY DropFacts, LenProperties
<1> HIDE DEF d
<1> SUFFICES ASSUME NEW j \in 1 .. Len(d)
             PROVE  /\ d[j][1] \in DOMAIN size /\ d[j][2] \in 1 .. size[d[j][1]]
                    /\ \A m \in 1 .. size[d[j][1]] :
                         j - d[j][2] + m >= 1 => /\ j - d[j][2] + m <= Len(d)
                                                 /\ d[j - d[j][2] + m] = <<d[j][1], m>>
                    /\ d[j][2] = size[d[j][1]] /\ j < Len(d) => d[j + 1] = <<d[j][1] + 1, 1>>
  BY DEF Whole, d
<1> DEFINE p == n + j
           i == s[p][1]
           k == s[p][2]
<1>2. p \in 1 .. Len(s) /\ d[j] = s[p]
  BY <1>1
<1> HIDE DEF p
<1>3. /\ i \in DOMAIN size /\ k \in 1 .. size[i]
      /\ \A m \in 1 .. size[i] :
           p - k + m >= 1 => /\ p - k + m <= Len(s) /\ s[p - k + m] = <<i, m>>
      /\ k = size[i] /\ p < Len(s) => s[p + 1] = <<i + 1, 1>>
  BY <1>2 DEF Whole
<1>4. d[j][1] = i /\ d[j][2] = k /\ size[i] \in Nat
  BY <1>2, <1>3
<1> HIDE DEF i, k
<1>5. ASSUME NEW m \in 1 .. size[i], j - k + m >= 1
      PROVE  j - k + m <= Len(d) /\ d[j - k + m] = <<i, m>>
  <2>1. p - k + m >= 1 /\ n + (j - k + m) = p - k + m
    BY <1>3, <1>4, <1>5 DEF p
  <2>2. p - k + m <= Len(s) /\ s[p - k + m] = <<i, m>>
    BY <1>3, <2>1
  <2>3. j - k + m \in 1 .. Len(s) - n
    BY <1>1, <1>3, <1>4, <1>5, <2>2 DEF p
  <2> QED BY <1>1, <2>1, <2>2, <2>3, SMTT(30)
<1>6. ASSUME k = size[i], j < Len(d)
      PROVE  d[j + 1] = <<i + 1, 1>>
  <2>1. j + 1 \in 1 .. Len(s) - n /\ n + (j + 1) = p + 1 /\ p < Len(s)
    BY <1>1, <1>6 DEF p
  <2> QED BY <1>1, <1>3, <1>6, <2>1
<1> QED BY <1>3, <1>4, <1>5, <1>6

\* Going on within the first item, or to its end.
LEMMA Advance ==
  ASSUME NEW n \in Nat, NEW size \in [1 .. n -> Nat \ {0}], NEW s \in Seq(Places),
         NEW i, NEW k, Laid(s, size, n, <<i, k>>), s # <<>>,
         NEW e \in 0 .. Len(s), k + e <= size[i] + 1
  PROVE  /\ i \in 1 .. n /\ k \in 1 .. size[i]
         /\ Laid(SubSeq(s, e + 1, Len(s)), size, n,
                 IF k + e <= size[i] THEN <<i, k + e>> ELSE <<i + 1, 1>>)
<1> DEFINE d == SubSeq(s, e + 1, Len(s))
<1>1. /\ d \in Seq(Places) /\ Len(d) = Len(s) - e /\ Len(s) \in Nat \ {0}
      /\ \A j \in 1 .. Len(s) - e : d[j] = s[e + j]
  BY DropFacts, EmptySeq
<1>2. Whole(s, size) /\ s[1] = <<i, k>> /\ s[Len(s)][1] = n
  BY DEF Laid, EndsWith
<1>3. Whole(d, size)
  BY <1>2, WholeDrop
<1>4. size[i] \in Nat
  <2>1. s[1][1] = i /\ 1 \in 1 .. Len(s)
    BY <1>1, <1>2
  <2>2. i \in DOMAIN size
    BY <1>2, <2>1 DEF Whole
  <2> QED BY <2>2
<1>5. /\ i \in 1 .. n /\ k \in 1 .. size[i] /\ size[i] - k + 1 <= Len(s)
      /\ \A m \in k .. size[i] : s[m - k + 1] = <<i, m>>
      /\ size[i] - k + 1 < Len(s) => s[size[i] - k + 2] = <<i + 1, 1>>
  <2>1. s[1][1] = i /\ s[1][2] = k
    BY <1>2
  <2>2. size[s[1][1]] \in Nat
    BY <1>4, <2>1
  <2> QED BY <1>2, <2>1, <2>2, WholeHead
<1> HIDE DEF d
<1>6. d = <<>> <=> Len(d) = 0
  BY <1>1, EmptySeq
<1>7. EndsWith(d, n)
  <2>1. ASSUME d # <<>> PROVE d[Len(d)] = s[Len(s)]
    <3>1. Len(d) \in 1 .. Len(s) - e /\ e + Len(d) = Len(s)
      BY <1>1, <1>6, <2>1
    <3> QED BY <1>1, <3>1
  <2> QED BY <1>2, <2>1 DEF EndsWith
<1>8. CASE k + e <= size[i]
  <2>1. k + e \in k .. size[i] /\ k + e - k + 1 = e + 1 /\ e + 1 <= Len(s)
    BY <1>4, <1>5, <1>8
  <2>2. s[e + 1] = <<i, k + e>> /\ 1 \in 1 .. Len(s) - e
    BY <1>1, <1>5, <2>1, SMTT(30)
  <2>3. d # <<>> /\ d[1] = <<i, k + e>>
    BY <1>1, <1>6, <2>2
  <2> QED BY <1>3, <1>5, <1>7, <1>8, <2>3 DEF Laid, d
<1>9. CASE ~(k + e <= size[i])
  <2>1. e = size[i] - k + 1
    BY <1>4, <1>5, <1>9
  <2>2. ASSUME d # <<>> PROVE d[1] = <<i + 1, 1>>
    <3>1. 1 \in 1 .. Len(s) - e /\ e < Len(s) /\ e + 1 = size[i] - k + 2
      <4>1. Len(d) # 0 /\ Len(d) = Len(s) - e /\ e \in 0 .. Len(s) /\ Len(s) \in Nat
        BY <1>1, <1>6, <2>2
      <4>2. e + 1 = size[i] - k + 2
        BY <1>4, <1>5, <2>1
      <4> QED BY <4>1, <4>2
    <3>2. d[1] = s[e + 1] /\ s[size[i] - k + 2] = <<i + 1, 1>>
      BY <1>1, <1>5, <2>1, <3>1
    <3> QED BY <3>1, <3>2
  <2>3. ASSUME d = <<>> PROVE i = n
    <3>1. Len(s) = size[i] - k + 1 /\ size[i] \in k .. size[i]
      BY <1>1, <1>4, <1>5, <1>6, <2>1, <2>3
    <3>2. s[Len(s)] = <<i, size[i]>>
      BY <1>5, <3>1
    <3> QED BY <1>2, <3>2
  <2> QED BY <1>3, <1>5, <1>7, <1>9, <2>2, <2>3 DEF Laid, d
<1> QED BY <1>8, <1>9

\* One more item behind the others.
LEMMA AppendItem ==
  ASSUME NEW n \in Nat, NEW size \in [1 .. n -> Nat \ {0}],
         NEW more \in [1 .. n + 1 -> Nat \ {0}], \A i \in 1 .. n : more[i] = size[i],
         NEW s \in Seq(Places), NEW w, Laid(s, size, n, w),
         NEW item \in Seq(Places), Len(item) = more[n + 1],
         \A k \in 1 .. Len(item) : item[k] = <<n + 1, k>>
  PROVE  s \o item \in Seq(Places) /\ Laid(s \o item, more, n + 1, w) /\ s \o item # <<>>
<1> DEFINE u == s \o item
<1>1. /\ u \in Seq(Places) /\ Len(u) = Len(s) + Len(item) /\ Len(s) \in Nat
      /\ Len(item) \in Nat \ {0}
      /\ \A i \in 1 .. Len(s) : u[i] = s[i]
      /\ \A i \in 1 .. Len(item) : u[Len(s) + i] = item[i]
  <2>1. n + 1 \in 1 .. n + 1
    OBVIOUS
  <2>2. Len(item) \in Nat \ {0}
    BY <2>1
  <2>3. /\ u \in Seq(Places) /\ Len(u) = Len(s) + Len(item) /\ Len(s) \in Nat
        /\ \A i \in 1 .. Len(s) : u[i] = s[i]
        /\ \A i \in 1 .. Len(item) : u[Len(s) + i] = item[i]
    BY ONLY s \in Seq(Places), item \in Seq(Places), ConcatFacts
  <2> QED BY <2>2, <2>3
<1> HIDE DEF u
<1>2. u # <<>> /\ (s = <<>> <=> Len(s) = 0)
  BY <1>1, EmptySeq
<1>3. u[Len(u)] = <<n + 1, more[n + 1]>>
  <2>1. Len(item) \in 1 .. Len(item)
    BY <1>1
  <2>2. u[Len(s) + Len(item)] = item[Len(item)] /\ item[Len(item)] = <<n + 1, Len(item)>>
    BY <1>1, <2>1
  <2> QED BY <1>1, <2>2
<1>4. u[1] = w
  <2>1. CASE s = <<>>
    <3>1. Len(s) = 0 /\ 1 \in 1 .. Len(item) /\ Len(s) + 1 = 1
      BY <1>1, <1>2, <2>1
    <3>2. u[1] = item[1] /\ item[1] = <<n + 1, 1>>
      BY <1>1, <3>1
    <3>3. w = <<n + 1, 1>>
      BY <2>1 DEF Laid
    <3> QED BY <3>2, <3>3
  <2>2. CASE s # <<>>
    <3>1. 1 \in 1 .. Len(s)
      BY <1>1, <1>2, <2>2
    <3>2. s[1] = w
      BY <2>2 DEF Laid
    <3> QED BY <1>1, <3>1, <3>2
  <2> QED BY <2>1, <2>2
<1>5. ASSUME NEW j \in 1 .. Len(u)
      PROVE  /\ u[j][1] \in DOMAIN more /\ u[j][2] \in 1 .. more[u[j][1]]
             /\ \A m \in 1 .. more[u[j][1]] :
                  j - u[j][2] + m >= 1 => /\ j - u[j][2] + m <= Len(u)
                                          /\ u[j - u[j][2] + m] = <<u[j][1], m>>
             /\ u[j][2] = more[u[j][1]] /\ j < Len(u) => u[j + 1] = <<u[j][1] + 1, 1>>
  <2>1. CASE j <= Len(s)
    <3> DEFINE i == s[j][1]
               k == s[j][2]
    <3>1. j \in 1 .. Len(s) /\ u[j] = s[j]
      BY <1>1, <2>1
    <3>2. /\ i \in 1 .. n /\ k \in 1 .. size[i]
          /\ \A m \in 1 .. size[i] :
               j - k + m >= 1 => j - k + m <= Len(s) /\ s[j - k + m] = <<i, m>>
          /\ k = size[i] /\ j < Len(s) => s[j + 1] = <<i + 1, 1>>
      BY <3>1 DEF Laid, Whole
    <3>3. j = Len(s) => i = n
      BY <1>2, <2>1 DEF Laid, EndsWith
    <3>4. u[j][1] = i /\ u[j][2] = k
      BY <3>1
    <3> HIDE DEF i, k
    <3>5. i \in DOMAIN more /\ more[i] = size[i] /\ size[i] \in Nat
      BY <3>2
    <3>6. ASSUME NEW m \in 1 .. size[i], j - k + m >= 1
          PROVE  j - k + m <= Len(u) /\ u[j - k + m] = <<i, m>>
      <4>1. j - k + m <= Len(s) /\ s[j - k + m] = <<i, m>>
        BY <3>2, <3>6
      <4>2. j - k + m \in 1 .. Len(s)
        BY <3>1, <3>2, <3>5, <3>6, <4>1
      <4> QED BY <1>1, <4>1, <4>2, SMTT(30)
    <3>7. ASSUME k = size[i], j < Len(u)
          PROVE  u[j + 1] = <<i + 1, 1>>
      <4>1. CASE j < Len(s)
        <5>1. j + 1 \in 1 .. Len(s)
          BY <1>1, <3>1, <4>1
        <5> QED BY <1>1, <3>2, <3>7, <4>1, <5>1
      <4>2. CASE j = Len(s)
        <5>1. u[Len(s) + 1] = item[1] /\ item[1] = <<n + 1, 1>>
          BY <1>1
        <5> QED BY <3>3, <4>2, <5>1
      <4> QED BY <1>1, <2>1, <4>1, <4>2, SMTT(30)
    <3> QED BY <3>2, <3>4, <3>5, <3>6, <3>7
  <2>2. CASE j > Len(s)
    <3> DEFINE k == j - Len(s)
    <3>1. k \in 1 .. Len(item) /\ j = Len(s) + k
      BY <1>1, <2>2
    <3> HIDE DEF k
    <3>2. u[j] = <<n + 1, k>>
      BY <1>1, <3>1
    <3>3. n + 1 \in DOMAIN more /\ more[n + 1] = Len(item) /\ u[j][1] = n + 1 /\ u[j][2] = k
      BY <3>2
    <3>4. ASSUME NEW m \in 1 .. Len(item)
          PROVE  j - k + m <= Len(u) /\ u[j - k + m] = <<n + 1, m>>
      <4>1. j - k + m = Len(s) + m
        BY <1>1, <3>1
      <4>2. u[Len(s) + m] = item[m] /\ item[m] = <<n + 1, m>>
        BY <1>1
      <4>3. Len(s) + m <= Len(u)
        BY <1>1
      <4> QED BY <4>1, <4>2, <4>3
    <3>5. ~(k = Len(item) /\ j < Len(u))
      BY <1>1, <3>1
    <3>6. more[u[j][1]] = Len(item)
      BY <3>3
    <3>7. /\ u[j][1] \in DOMAIN more /\ u[j][2] \in 1 .. more[u[j][1]]
          /\ ~(u[j][2] = more[u[j][1]] /\ j < Len(u))
      BY <3>1, <3>3, <3>5, <3>6
    <3>8. \A m \in 1 .. more[u[j][1]] :
            /\ j - u[j][2] + m <= Len(u)
            /\ u[j - u[j][2] + m] = <<u[j][1], m>>
      BY <3>3, <3>4, <3>6
    <3> HIDE DEF u
    <3>9. u[j][1] \in DOMAIN more /\ u[j][2] \in 1 .. more[u[j][1]]
      BY <3>7
    <3>10. \A m \in 1 .. more[u[j][1]] :
             j - u[j][2] + m >= 1 => /\ j - u[j][2] + m <= Len(u)
                                     /\ u[j - u[j][2] + m] = <<u[j][1], m>>
      BY <3>8
    <3>11. u[j][2] = more[u[j][1]] /\ j < Len(u) => u[j + 1] = <<u[j][1] + 1, 1>>
      BY <3>7
    <3> QED BY <3>9, <3>10, <3>11
  <2>3. j <= Len(s) \/ j > Len(s)
    BY <1>1
  <2> QED BY <2>1, <2>2, <2>3
<1>6. Whole(u, more)
  BY <1>5 DEF Whole
<1> QED BY <1>1, <1>2, <1>3, <1>4, <1>6 DEF u, Laid, EndsWith

-----------------------------------------------------------------------------
(* The parser in the current frame *)

\* All that is about the parser.
Parsed == TypeOK /\ Framed /\ Staged /\ Returned

\* Where, for the state of a parser that is at frame n.
At(st, fr, n) ==
  LET place == CASE st.stage = "HEADER_BASIC" -> 1
                 [] st.stage = "HEADER_EXTENDED_LEN" -> 3 + st.consumed
                 [] st.stage = "HEADER_MASK_KEY" -> 3 + Extended(fr.len) + st.consumed
                 [] st.stage = "PAYLOAD" -> 7 + Extended(fr.len) + st.consumed
  IN IF st.stage = "PAYLOAD" /\ place > Size(fr) THEN <<n + 1, 1>> ELSE <<n, place>>

LEMMA FrameFacts ==
  ASSUME NEW fr \in Frames
  PROVE  /\ fr.op \in Opcodes /\ fr.fin \in BOOLEAN /\ fr.masked \in BOOLEAN /\ fr.len \in Nat
         /\ Extended(fr.len) \in {0, 2, 8}
         /\ Size(fr) = 6 + Extended(fr.len) + fr.len /\ Size(fr) \in Nat \ {0}
         /\ fr.len <= Inline <=> Extended(fr.len) = 0
<1>1. fr.op \in Opcodes /\ fr.fin \in BOOLEAN /\ fr.masked \in BOOLEAN /\ fr.len \in Nat
  BY FramesAssumption
<1>2. Extended(fr.len) \in {0, 2, 8} /\ (fr.len <= Inline <=> Extended(fr.len) = 0)
  BY DEF Extended
<1>3. Size(fr) = 6 + Extended(fr.len) + fr.len /\ Size(fr) \in Nat \ {0}
  BY <1>1, <1>2 DEF Size
<1> QED BY <1>1, <1>2, <1>3

LEMMA AtFacts ==
  ASSUME NEW st, NEW fr \in Frames, NEW n, st.consumed \in Nat
  PROVE  /\ st.stage = "HEADER_EXTENDED_LEN" => At(st, fr, n) = <<n, 3 + st.consumed>>
         /\ st.stage = "HEADER_MASK_KEY" =>
              At(st, fr, n) = <<n, 3 + Extended(fr.len) + st.consumed>>
         /\ st.stage = "PAYLOAD" =>
              At(st, fr, n) = IF st.consumed >= fr.len
                                THEN <<n + 1, 1>>
                                ELSE <<n, 7 + Extended(fr.len) + st.consumed>>
<1>1. /\ fr.len \in Nat /\ Extended(fr.len) \in {0, 2, 8}
      /\ Size(fr) = 6 + Extended(fr.len) + fr.len
  BY FrameFacts
<1>2. CASE st.stage = "HEADER_EXTENDED_LEN"
  BY <1>2 DEF At
<1>3. CASE st.stage = "HEADER_MASK_KEY"
  BY <1>3 DEF At
<1>4. CASE st.stage = "PAYLOAD"
  <2>1. 7 + Extended(fr.len) + st.consumed > Size(fr) <=> st.consumed >= fr.len
    BY <1>1
  <2> QED BY <1>4, <2>1 DEF At
<1> QED BY <1>2, <1>3, <1>4

LEMMA AtHeader ==
  ASSUME NEW st, NEW fr, NEW n, st.stage = "HEADER_BASIC"
  PROVE  At(st, fr, n) = <<n, 1>>
BY DEF At

LEMMA WhereIsAt ==
  /\ Where = At(state, sent[Current], Current)
  /\ Where' = At(state', sent'[Current'], Current')
BY DEF Where, At, AtEnd, Position

LEMMA SizesType ==
  ASSUME TypeOK
  PROVE  /\ Sizes \in [1 .. Len(sent) -> Nat \ {0}] /\ Len(sent) \in Nat
         /\ DOMAIN sent = 1 .. Len(sent)
         /\ \A i \in 1 .. Len(sent) : sent[i] \in Frames /\ Sizes[i] = Size(sent[i])
<1>1. sent \in Seq(Frames)
  BY DEF TypeOK
<1>2. Len(sent) \in Nat /\ DOMAIN sent = 1 .. Len(sent) /\ \A i \in 1 .. Len(sent) : sent[i] \in Frames
  BY <1>1, LenProperties, ElementOfSeq
<1>3. \A i \in 1 .. Len(sent) : Size(sent[i]) \in Nat \ {0}
  BY <1>2, FrameFacts
<1> QED BY <1>2, <1>3 DEF Sizes

LEMMA BytesType ==
  ASSUME TypeOK
  PROVE  /\ buffer \in Seq(Places) /\ wire \in Seq(Places)
         /\ buffer \o wire \in Seq(Places)
         /\ Len(buffer) \in Nat /\ (buffer = <<>> <=> Len(buffer) = 0)
<1>1. buffer \in Seq(Byte) /\ wire \in Seq(Byte)
  BY DEF TypeOK
<1>2. Byte \subseteq Places
  BY FramesAssumption DEF Byte, Places
<1>3. buffer \in Seq(Places) /\ wire \in Seq(Places)
  BY <1>1, <1>2, SeqMonotonic
<1> QED BY <1>3, ConcatProperties, LenProperties, EmptySeq

LEMMA AvailFacts ==
  ASSUME TypeOK
  PROVE  /\ avail \in Nat /\ avail <= Len(buffer)
         /\ state.consumed \in Nat /\ state.needed \in Nat
         /\ state.consumed + avail <= state.needed
         /\ Completes <=> state.consumed + avail = state.needed
         /\ avail > 0 => buffer # <<>>
<1>1. state.consumed \in Nat /\ state.needed \in Nat /\ state.consumed <= state.needed
  BY DEF TypeOK
<1>2. Len(buffer) \in Nat /\ (buffer = <<>> <=> Len(buffer) = 0)
  BY BytesType
<1>3. avail \in Nat /\ avail <= Len(buffer) /\ state.consumed + avail <= state.needed
  BY <1>1, <1>2 DEF avail
<1> QED BY <1>1, <1>2, <1>3 DEF Completes

\* The first byte in the buffer is where the parser is.
LEMMA HeadAt ==
  ASSUME Parsed, buffer # <<>>
  PROVE  /\ Head(buffer) = Where /\ Where[1] \in 1 .. Len(sent)
         /\ Where[2] \in 1 .. Size(sent[Where[1]])
<1> DEFINE r == buffer \o wire
<1>1. TypeOK /\ Framed
  BY DEF Parsed
<1>2. buffer \in Seq(Places) /\ wire \in Seq(Places) /\ Len(buffer) \in Nat \ {0}
  BY <1>1, BytesType
<1>3. /\ r \in Seq(Places) /\ Len(r) = Len(buffer) + Len(wire) /\ Len(wire) \in Nat
      /\ \A i \in 1 .. Len(buffer) : r[i] = buffer[i]
  BY <1>2, ConcatFacts
<1> HIDE DEF r
<1>4. r # <<>> /\ 1 \in 1 .. Len(r) /\ r[1] = buffer[1]
  BY <1>2, <1>3, EmptySeq
<1>5. Laid(r, Sizes, Len(sent), Where)
  BY <1>1 DEF Framed, r
<1>6. Whole(r, Sizes) /\ r[1] = Where
  BY <1>4, <1>5 DEF Laid
<1>7. Where[1] \in DOMAIN Sizes /\ Where[2] \in 1 .. Sizes[Where[1]]
  BY <1>4, <1>6 DEF Whole
<1>8. Head(buffer) = buffer[1]
  BY <1>2, HeadTailProperties
<1> QED BY <1>1, <1>4, <1>6, <1>7, <1>8, SizesType

\* e bytes are parsed.
LEMMA Passes ==
  ASSUME Parsed, NEW i, NEW k, Where = <<i, k>>, NEW e \in Nat, e <= Len(buffer),
         buffer # <<>>, k + e <= Size(sent[i]) + 1,
         Erase(e), UNCHANGED <<sent, wire>>,
         Where' = IF k + e <= Size(sent[i]) THEN <<i, k + e>> ELSE <<i + 1, 1>>
  PROVE  Framed'
<1> DEFINE r == buffer \o wire
           size == Sizes
           there == Where'
<1>1. TypeOK /\ Framed
  BY DEF Parsed
<1>2. buffer \in Seq(Places) /\ wire \in Seq(Places) /\ Len(buffer) \in Nat
  BY <1>1, BytesType
<1>3. e \in 0 .. Len(buffer)
  BY <1>2
<1>4. (buffer \o wire)' = SubSeq(r, e + 1, Len(r)) /\ e \in 0 .. Len(r)
  <2>1. /\ SubSeq(buffer, e + 1, Len(buffer)) \o wire = SubSeq(r, e + 1, Len(r))
        /\ e \in 0 .. Len(r)
    BY ONLY <1>2, <1>3, EraseFront, ZenonT(60)
  <2>2. (buffer \o wire)' = SubSeq(buffer, e + 1, Len(buffer)) \o wire
    BY DEF Erase
  <2> QED BY <2>1, <2>2
<1>5. r \in Seq(Places) /\ r # <<>>
  BY <1>1, <1>2, BytesType, ConcatFacts, EmptySeq
<1>6. /\ size \in [1 .. Len(sent) -> Nat \ {0}] /\ Len(sent) \in Nat
      /\ Laid(r, size, Len(sent), <<i, k>>)
  BY <1>1, SizesType DEF Framed
<1>7. size[i] = Size(sent[i])
  <2>1. Where[1] \in 1 .. Len(sent)
    BY HeadAt
  <2>2. i \in 1 .. Len(sent)
    BY <2>1
  <2> QED BY <1>1, <2>2, SizesType
<1>8. size = Sizes'
  BY DEF Sizes
<1> HIDE DEF r, size, there
<1>9. Laid(SubSeq(r, e + 1, Len(r)), size, Len(sent),
           IF k + e <= size[i] THEN <<i, k + e>> ELSE <<i + 1, 1>>)
  BY <1>4, <1>5, <1>6, <1>7, Advance
<1>10. there = IF k + e <= size[i] THEN <<i, k + e>> ELSE <<i + 1, 1>>
  BY <1>7 DEF there
<1> QED BY <1>4, <1>8, <1>9, <1>10 DEF Framed, there

\* What stays when a step leaves the parser where it is.
LEMMA SameStage ==
  ASSUME Staged, Returned, UNCHANGED <<sent, state, taken>>
  PROVE  Staged' /\ Returned' /\ Where' = Where /\ Sizes' = Sizes
<1>1. Current' = Current /\ DataFrames' = DataFrames /\ WithinLimit' = WithinLimit
  BY DEF Current, DataFrames, WithinLimit
<1>2. Staged'
  BY <1>1 DEF Staged
<1>3. Returned'
  BY DEF Returned, FramesInOrder
<1>4. Where' = Where
  BY <1>1 DEF Where, AtEnd, Position
<1> QED BY <1>2, <1>3, <1>4 DEF Sizes

LEMMA NoBytes ==
  ASSUME Parsed, avail = 0, Erase(avail), state' = [state EXCEPT !.consumed = @ + avail],
         UNCHANGED <<sent, wire, taken>>
  PROVE  state' = state /\ buffer' = buffer /\ Framed' /\ Staged' /\ Returned'
<1>1. TypeOK /\ Framed /\ Staged /\ Returned
  BY DEF Parsed
<1>2. state' = state
  <2>1. state.consumed + avail = state.consumed
    BY <1>1, AvailFacts
  <2>2. state' = [state EXCEPT !.consumed = @]
    BY <2>1
  <2> QED BY <1>1, <2>2 DEF TypeOK
<1>3. buffer' = buffer
  <2>1. buffer \in Seq(Places) /\ avail + 1 = 1
    BY <1>1, BytesType
  <2> QED BY <2>1, SubSeqFull DEF Erase
<1>4. Staged' /\ Returned' /\ Where' = Where /\ Sizes' = Sizes
  BY <1>1, <1>2, SameStage
<1> QED BY <1>1, <1>2, <1>3, <1>4 DEF Framed

\* What the length of a header says, and what the parser makes of it.
LEMMA ShiftedFacts ==
  ASSUME NEW fr \in Frames
  PROVE  /\ Shifted(fr.len) \in Nat
         /\ fr.len > Inline /\ Shifted(fr.len) <= MaxPayload =>
              /\ Shifted(fr.len) = fr.len /\ Extended(fr.len) = 8
<1>1. fr.len \in Nat /\ Inline \in Nat /\ Wide \in Nat /\ MaxPayload \in Nat
      /\ Inline < Wide /\ MaxPayload <= Wide + 1
  BY FrameFacts, FramesAssumption
<1>2. (Inline + 1) * (Wide + 1) \in Nat /\ (Inline + 1) * (Wide + 1) >= Wide + 1
  <2>1. (Inline + 1) * (Wide + 1) = Inline * (Wide + 1) + (Wide + 1)
    BY <1>1
  <2>2. Inline * (Wide + 1) \in Nat
    BY <1>1
  <2> QED BY <1>1, <2>1, <2>2
<1>3. CASE fr.len <= Wide
  <2>1. Shifted(fr.len) = (Inline + 1) * (Wide + 1) + fr.len
    BY <1>3 DEF Shifted
  <2> HIDE DEF Shifted
  <2> QED BY <1>1, <1>2, <2>1
<1>4. CASE ~(fr.len <= Wide)
  BY <1>1, <1>4 DEF Shifted, Extended
<1> QED BY <1>3, <1>4

LEMMA ReadStep ==
  ASSUME Parsed, Read
  PROVE  Parsed'
<1>1. TypeOK /\ Framed /\ Staged /\ Returned
  BY DEF Parsed
<1>2. PICK n \in 1 .. Len(wire) : /\ buffer' = buffer \o SubSeq(wire, 1, n)
                                  /\ wire' = SubSeq(wire, n + 1, Len(wire))
  BY DEF Read
<1>3. /\ buffer \o SubSeq(wire, 1, n) \in Seq(Byte) /\ SubSeq(wire, n + 1, Len(wire)) \in Seq(Byte)
      /\ (buffer \o SubSeq(wire, 1, n)) \o SubSeq(wire, n + 1, Len(wire)) = buffer \o wire
  <2>1. buffer \in Seq(Byte) /\ wire \in Seq(Byte)
    BY <1>1 DEF TypeOK
  <2> QED BY ONLY <2>1, n \in 1 .. Len(wire), ReadMoves, ZenonT(30)
<1>4. TypeOK'
  BY <1>1, <1>2, <1>3 DEF TypeOK, Read
<1>5. Staged' /\ Returned' /\ Where' = Where /\ Sizes' = Sizes
  BY <1>1, SameStage DEF Read
<1>6. Framed'
  <2>1. (buffer \o wire)' = buffer \o wire /\ sent' = sent
    BY <1>2, <1>3 DEF Read
  <2> QED BY <1>1, <1>5, <2>1 DEF Framed
<1> QED BY <1>4, <1>5, <1>6 DEF Parsed

\* The frame the parser takes bytes from is the current one.
LEMMA IncomingIs ==
  ASSUME Parsed, buffer # <<>>, NEW k, Where = <<Current, k>>
  PROVE  /\ Current \in 1 .. Len(sent) /\ Incoming = sent[Current] /\ Incoming \in Frames
         /\ Current \in DOMAIN sent /\ Head(buffer)[1] = Current
<1>1. Head(buffer) = Where /\ Where[1] \in 1 .. Len(sent)
  BY HeadAt
<1>2. TypeOK
  BY DEF Parsed
<1> QED BY <1>1, <1>2, SizesType DEF Incoming

LEMMA EraseType ==
  ASSUME TypeOK, NEW e \in Nat, e <= Len(buffer), Erase(e)
  PROVE  buffer' \in Seq(Byte)
<1>1. buffer \in Seq(Byte) /\ Len(buffer) \in Nat
  BY BytesType DEF TypeOK
<1>2. e \in 0 .. Len(buffer)
  BY <1>1
<1> QED BY <1>1, <1>2, DropFacts DEF Erase

LEMMA HeaderBasicStep ==
  ASSUME Parsed, HeaderBasic
  PROVE  Parsed'
<1>1. TypeOK /\ Framed /\ Staged /\ Returned
  BY DEF Parsed
<1>2. /\ state.stage = "HEADER_BASIC" /\ pc' = "wait"
      /\ UNCHANGED <<open, sent, wire, fragments, taken, handled>>
  BY DEF HeaderBasic, Parsing
<1>3. Where = <<Current, 1>> /\ Current' = Current
  BY <1>2, WhereIsAt, AtHeader DEF Current
<1>4. Len(buffer) \in Nat /\ (buffer = <<>> <=> Len(buffer) = 0)
  BY <1>1, BytesType
<1>5. CASE Len(buffer) < 2
  <2>1. UNCHANGED <<buffer, state>>
    BY <1>5 DEF HeaderBasic
  <2>2. TypeOK'
    BY <1>1, <1>2, <2>1 DEF TypeOK
  <2>3. Staged' /\ Returned' /\ Where' = Where /\ Sizes' = Sizes
    BY <1>1, <1>2, <2>1, SameStage
  <2> QED BY <1>1, <1>2, <2>1, <2>2, <2>3 DEF Parsed, Framed
<1>6. CASE Len(buffer) >= 2 /\ Incoming.masked
  <2> DEFINE fr == sent[Current]
  <2>1. buffer # <<>>
    BY <1>4, <1>6
  <2>2. Current \in DOMAIN sent /\ Incoming = fr /\ fr \in Frames /\ fr.masked
    BY <1>3, <1>6, <2>1, IncomingIs
  <2>3. state' = OfHeader(fr) /\ Erase(2)
    BY <1>4, <1>6, <2>2 DEF HeaderBasic, HeaderDone
  <2>4. /\ fr.op \in Opcodes /\ fr.fin \in BOOLEAN /\ fr.len \in Nat
        /\ Extended(fr.len) \in {0, 2, 8}
        /\ Size(fr) = 6 + Extended(fr.len) + fr.len
        /\ fr.len <= Inline <=> Extended(fr.len) = 0
    BY <2>2, FrameFacts
  <2>5. sent'[Current'] = fr
    BY <1>2, <1>3
  <2> HIDE DEF fr
  <2>6. /\ state'.stage = IF fr.len > Inline THEN "HEADER_EXTENDED_LEN" ELSE "HEADER_MASK_KEY"
        /\ state'.op = fr.op /\ state'.fin = fr.fin /\ state'.consumed = 0
        /\ state'.length = IF fr.len > Inline THEN Inline + 1 ELSE fr.len
        /\ state'.needed = IF fr.len > Inline THEN Extended(fr.len) ELSE 4
    BY <2>3 DEF OfHeader
  <2>7. state' \in [stage : Stages, op : Opcodes \cup {"none"}, fin : BOOLEAN,
                    length : Nat, needed : Nat, consumed : Nat]
    BY <2>3, <2>4, FramesAssumption DEF OfHeader, Stages
  <2>8. TypeOK'
    <3>1. buffer' \in Seq(Byte)
      BY <1>1, <1>4, <1>6, <2>3, EraseType
    <3>2. state'.consumed <= state'.needed
      BY <2>6, <2>7
    <3> QED BY <1>1, <1>2, <2>7, <3>1, <3>2 DEF TypeOK
  <2>9. Staged'
    <3>1. (state.stage = "HEADER_EXTENDED_LEN")' =>
             /\ fr.len > Inline
             /\ state'.needed = Extended(fr.len) /\ state'.consumed < state'.needed
      BY <2>4, <2>6, FramesAssumption
    <3>2. (state.stage = "HEADER_MASK_KEY")' =>
             /\ state'.needed = 4 /\ state'.consumed < 4
             /\ fr.len <= Inline /\ state'.length = fr.len
      BY <2>4, <2>6, FramesAssumption
    <3>3. state'.stage \in {"HEADER_EXTENDED_LEN", "HEADER_MASK_KEY"}
      BY <2>6
    <3>4. Current' \in DOMAIN sent' /\ sent'[Current'].masked
      BY <1>2, <1>3, <2>2, <2>5
    <3> QED BY <2>5, <2>6, <3>1, <3>2, <3>3, <3>4 DEF Staged
  <2>10. Returned'
    BY <1>1, <1>2 DEF Returned, FramesInOrder
  <2>11. Where' = <<Current, 3>>
    <3>1. Where' = At(state', fr, Current)
      BY <1>3, <2>5, WhereIsAt
    <3>2. At(state', fr, Current) = <<Current, 3>>
      <4>1. state'.consumed \in Nat /\ state'.consumed = 0 /\ fr \in Frames
        BY <2>2, <2>6
      <4>2. CASE fr.len > Inline
        <5>1. state'.stage = "HEADER_EXTENDED_LEN"
          BY <2>6, <4>2
        <5>2. At(state', fr, Current) = <<Current, 3 + state'.consumed>>
          BY <4>1, <5>1, AtFacts
        <5> QED BY <4>1, <5>2
      <4>3. CASE ~(fr.len > Inline)
        <5>1. state'.stage = "HEADER_MASK_KEY" /\ Extended(fr.len) = 0
          BY <2>4, <2>6, <4>3, FramesAssumption
        <5>2. At(state', fr, Current) = <<Current, 3 + Extended(fr.len) + state'.consumed>>
          BY <4>1, <5>1, AtFacts
        <5> QED BY <4>1, <5>1, <5>2
      <4> QED BY <4>2, <4>3
    <3> QED BY <3>1, <3>2
  <2>12. Framed'
    <3>1. 1 + 2 <= Size(sent[Current])
      BY <2>4 DEF fr
    <3>2. Where' = IF 1 + 2 <= Size(sent[Current]) THEN <<Current, 1 + 2>> ELSE <<Current + 1, 1>>
      BY <2>11, <3>1
    <3>3. 1 + 2 <= Size(sent[Current]) + 1
      BY <2>4 DEF fr
    <3> QED BY <1>2, <1>3, <1>6, <2>1, <2>3, <3>2, <3>3, Passes
  <2> QED BY <2>8, <2>9, <2>10, <2>12 DEF Parsed
<1>7. CASE Len(buffer) >= 2 /\ ~Incoming.masked
  <2>1. /\ state' = [state EXCEPT !.op = Incoming.op, !.fin = Incoming.fin]
        /\ buffer' = buffer
    BY <1>4, <1>7 DEF HeaderBasic
  <2>2. buffer # <<>>
    BY <1>4, <1>7
  <2>3. Incoming.op \in Opcodes /\ Incoming.fin \in BOOLEAN
    BY <1>3, <2>2, IncomingIs, FrameFacts
  <2>4. state'.stage = "HEADER_BASIC" /\ state'.consumed = state.consumed
    BY <1>1, <1>2, <2>1 DEF TypeOK
  <2>5. TypeOK'
    <3>1. /\ state' \in [stage : Stages, op : Opcodes \cup {"none"}, fin : BOOLEAN,
                         length : Nat, needed : Nat, consumed : Nat]
          /\ state'.consumed <= state'.needed
      BY <1>1, <2>1, <2>3 DEF TypeOK
    <3> QED BY <1>1, <1>2, <2>1, <3>1 DEF TypeOK
  <2>6. Staged'
    BY <1>1, <1>2, <2>4 DEF Staged
  <2>7. Returned'
    BY <1>1, <1>2 DEF Returned, FramesInOrder
  <2>8. Where' = Where
    <3>1. Where' = At(state', sent'[Current'], Current')
      BY WhereIsAt
    <3>2. At(state', sent'[Current'], Current') = <<Current', 1>>
      BY <2>4, AtHeader
    <3> QED BY <1>3, <3>1, <3>2
  <2>9. Framed'
    BY <1>1, <1>2, <2>1, <2>8 DEF Framed, Sizes
  <2> QED BY <2>5, <2>6, <2>7, <2>9 DEF Parsed
<1> QED BY <1>4, <1>5, <1>6, <1>7

\* A stage behind the header takes bytes: they are of the current frame.
LEMMA Inside ==
  ASSUME Parsed, state.stage # "HEADER_BASIC"
  PROVE  LET fr == sent[Current] IN
         /\ Current \in DOMAIN sent /\ fr \in Frames /\ fr.len \in Nat
         /\ Extended(fr.len) \in {0, 2, 8} /\ Size(fr) = 6 + Extended(fr.len) + fr.len
         /\ fr.len <= Inline <=> Extended(fr.len) = 0
         /\ avail > 0 =>
              LET k == CASE state.stage = "HEADER_EXTENDED_LEN" -> 3 + state.consumed
                         [] state.stage = "HEADER_MASK_KEY" -> 3 + Extended(fr.len) + state.consumed
                         [] state.stage = "PAYLOAD" -> 7 + Extended(fr.len) + state.consumed
              IN Where = <<Current, k>> /\ Incoming = fr /\ Head(buffer)[1] = Current
<1> DEFINE fr == sent[Current]
           k == CASE state.stage = "HEADER_EXTENDED_LEN" -> 3 + state.consumed
                  [] state.stage = "HEADER_MASK_KEY" -> 3 + Extended(fr.len) + state.consumed
                  [] state.stage = "PAYLOAD" -> 7 + Extended(fr.len) + state.consumed
<1>1. TypeOK /\ Staged
  BY DEF Parsed
<1>2. Current \in DOMAIN sent /\ fr \in Frames
  BY <1>1, SizesType DEF Staged
<1>3. /\ fr.len \in Nat /\ Extended(fr.len) \in {0, 2, 8}
      /\ Size(fr) = 6 + Extended(fr.len) + fr.len
      /\ fr.len <= Inline <=> Extended(fr.len) = 0
  BY <1>2, FrameFacts
<1>4. ASSUME avail > 0
      PROVE  Where = <<Current, k>> /\ Incoming = fr /\ Head(buffer)[1] = Current
  <2>1. /\ state.consumed \in Nat /\ state.needed \in Nat /\ state.consumed < state.needed
        /\ buffer # <<>>
    BY <1>1, <1>4, AvailFacts
  <2>2. state.stage = "PAYLOAD" => state.consumed < fr.len
    BY <1>1, <2>1 DEF Staged
  <2>3. Where = At(state, fr, Current)
    BY WhereIsAt
  <2>4. state.stage \in Stages
    BY <1>1 DEF TypeOK
  <2>5. At(state, fr, Current) = <<Current, k>>
    <3>1. CASE state.stage = "HEADER_EXTENDED_LEN"
      BY <1>2, <2>1, <3>1, AtFacts
    <3>2. CASE state.stage = "HEADER_MASK_KEY"
      BY <1>2, <2>1, <3>2, AtFacts
    <3>3. CASE state.stage = "PAYLOAD"
      <4>1. ~(state.consumed >= fr.len)
        BY <1>3, <2>1, <2>2, <3>3
      <4> QED BY <1>2, <2>1, <3>3, <4>1, AtFacts
    <3> QED BY <2>4, <3>1, <3>2, <3>3 DEF Stages
  <2>6. Where = <<Current, k>>
    BY <2>3, <2>5
  <2> HIDE DEF k
  <2> QED BY <2>1, <2>6, IncomingIs
<1> QED BY <1>2, <1>3, <1>4

\* What the parser's record is after more bytes.
ParserState == [stage : Stages, op : Opcodes \cup {"none"}, fin : BOOLEAN,
                length : Nat, needed : Nat, consumed : Nat]

LEMMA Counting ==
  ASSUME NEW st \in ParserState, NEW c \in Nat, NEW next,
         next = [st EXCEPT !.consumed = c]
  PROVE  /\ next \in ParserState
         /\ next.stage = st.stage /\ next.op = st.op /\ next.fin = st.fin
         /\ next.length = st.length /\ next.needed = st.needed /\ next.consumed = c
BY DEF ParserState

LEMMA ExtendedLenStep ==
  ASSUME Parsed, ExtendedLen
  PROVE  Parsed'
<1> DEFINE fr == sent[Current]
<1>1. TypeOK /\ Framed /\ Staged /\ Returned
  BY DEF Parsed
<1>2. /\ state.stage = "HEADER_EXTENDED_LEN" /\ Erase(avail) /\ pc \in {"wait", "parse"}
      /\ UNCHANGED <<open, sent, wire, fragments, taken, handled>>
      /\ pc' \in {"wait", "parse"}
  BY <1>1 DEF ExtendedLen, Parsing, TypeOK
<1>3. /\ avail \in Nat /\ avail <= Len(buffer)
      /\ state.consumed \in Nat /\ state.needed \in Nat
      /\ state.consumed + avail <= state.needed
      /\ Completes <=> state.consumed + avail = state.needed
      /\ avail > 0 => buffer # <<>>
  BY <1>1, AvailFacts
<1>4. buffer' \in Seq(Byte)
  BY <1>1, <1>2, <1>3, EraseType
<1>5. Current' = Current /\ sent'[Current'] = fr
  BY <1>2 DEF Current
<1>6. Returned'
  BY <1>1, <1>2 DEF Returned, FramesInOrder
<1>7. CASE avail = 0
  <2>1. state' = [state EXCEPT !.consumed = @ + avail] /\ pc' = "wait"
    BY <1>7 DEF ExtendedLen
  <2>2. state' = state /\ Framed' /\ Staged'
    BY <1>2, <1>7, <2>1, NoBytes
  <2>3. TypeOK'
    BY <1>1, <1>2, <1>4, <2>2 DEF TypeOK
  <2> QED BY <1>6, <2>2, <2>3 DEF Parsed
<1>8. CASE avail > 0
  <2>1. /\ Current \in DOMAIN sent /\ fr \in Frames /\ fr.len \in Nat
        /\ Extended(fr.len) \in {0, 2, 8} /\ Size(fr) = 6 + Extended(fr.len) + fr.len
        /\ fr.len <= Inline <=> Extended(fr.len) = 0
        /\ Where = <<Current, 3 + state.consumed>> /\ Incoming = fr
    BY <1>2, <1>8, Inside
  <2>2. fr.len > Inline /\ state.needed = Extended(fr.len) /\ fr.masked
        /\ state.op = fr.op /\ state.fin = fr.fin
    BY <1>1, <1>2 DEF Staged
  <2>3. Size(sent[Current]) = Size(fr)
    OBVIOUS
  <2> HIDE DEF fr
  <2>4. 3 + state.consumed + avail <= Size(sent[Current])
    BY <1>3, <2>1, <2>2, <2>3, SMTT(30)
  <2>5. ASSUME Where' = <<Current, 3 + state.consumed + avail>> PROVE Framed'
    <3>1. Where' = IF 3 + state.consumed + avail <= Size(sent[Current])
                     THEN <<Current, 3 + state.consumed + avail>> ELSE <<Current + 1, 1>>
      BY <2>4, <2>5
    <3>2. 3 + state.consumed + avail <= Size(sent[Current]) + 1
      <4>1. Size(fr) \in Nat
        BY <2>1
      <4>2. Size(sent[Current]) \in Nat /\ 3 + state.consumed + avail \in Nat
        BY <1>3, <2>3, <4>1
      <4> QED BY <2>4, <4>2
    <3> QED BY <1>2, <1>3, <1>8, <2>1, <3>1, <3>2, Passes
  <2>6. CASE Completes
    <3>1. state' = [state EXCEPT !.stage = "HEADER_MASK_KEY", !.needed = 4, !.consumed = 0,
                                 !.length = Shifted(fr.len)]
      BY <1>8, <2>1, <2>6 DEF ExtendedLen
    <3>2. Shifted(fr.len) \in Nat
      BY <2>1, ShiftedFacts
    <3>3. /\ state' \in ParserState
          /\ state'.stage = "HEADER_MASK_KEY" /\ state'.needed = 4 /\ state'.consumed = 0
          /\ state'.length = Shifted(fr.len) /\ state'.op = fr.op /\ state'.fin = fr.fin
      <4>1. state \in ParserState /\ "HEADER_MASK_KEY" \in Stages
        BY <1>1 DEF TypeOK, ParserState, Stages
      <4>2. /\ state' \in ParserState
            /\ state'.stage = "HEADER_MASK_KEY" /\ state'.op = state.op /\ state'.fin = state.fin
            /\ state'.length = Shifted(fr.len) /\ state'.needed = 4 /\ state'.consumed = 0
        BY ONLY <3>1, <3>2, <4>1, 4 \in Nat DEF ParserState
      <4> QED BY <2>2, <4>2
    <3>4. TypeOK'
      BY <1>1, <1>2, <1>4, <3>3 DEF TypeOK, ParserState
    <3>5. Staged'
      BY <1>2, <1>5, <2>1, <2>2, <3>3, FramesAssumption DEF Staged
    <3>6. Where' = <<Current, 3 + state.consumed + avail>>
      <4>1. At(state', fr, Current) = <<Current, 3 + Extended(fr.len) + state'.consumed>>
        BY <2>1, <3>3, AtFacts
      <4>2. 3 + Extended(fr.len) + state'.consumed = 3 + state.consumed + avail
        BY <1>3, <2>1, <2>2, <2>6, <3>3
      <4> QED BY <1>5, <4>1, <4>2, WhereIsAt
    <3> QED BY <1>6, <2>5, <3>4, <3>5, <3>6 DEF Parsed
  <2>7. CASE ~Completes
    <3>1. state' = [state EXCEPT !.consumed = @ + avail]
      BY <2>7 DEF ExtendedLen
    <3>2. /\ state' \in ParserState
          /\ state'.stage = "HEADER_EXTENDED_LEN" /\ state'.needed = state.needed
          /\ state'.consumed = state.consumed + avail
          /\ state'.op = fr.op /\ state'.fin = fr.fin
      <4>1. state \in ParserState /\ state.consumed + avail \in Nat
        BY <1>1, <1>3 DEF TypeOK, ParserState
      <4> QED BY <1>2, <2>2, <3>1, <4>1, Counting
    <3>3. state'.consumed < state'.needed
      BY <1>3, <2>7, <3>2
    <3>4. TypeOK'
      BY <1>1, <1>2, <1>3, <1>4, <3>2 DEF TypeOK, ParserState
    <3>5. Staged'
      BY <1>2, <1>5, <2>1, <2>2, <3>2, <3>3 DEF Staged
    <3>6. Where' = <<Current, 3 + state.consumed + avail>>
      <4>1. At(state', fr, Current) = <<Current, 3 + state'.consumed>>
        <5>1. state'.consumed \in Nat /\ state'.stage = "HEADER_EXTENDED_LEN" /\ fr \in Frames
          BY <1>3, <2>1, <3>2
        <5> QED BY <5>1, AtFacts
      <4>2. 3 + state'.consumed = 3 + state.consumed + avail
        BY <1>3, <3>2
      <4> QED BY <1>5, <4>1, <4>2, WhereIsAt
    <3> QED BY <1>6, <2>5, <3>4, <3>5, <3>6 DEF Parsed
  <2> QED BY <2>6, <2>7
<1> QED BY <1>3, <1>7, <1>8

LEMMA MaskKeyStep ==
  ASSUME Parsed, MaskKey
  PROVE  Parsed'
<1> DEFINE fr == sent[Current]
           ext == Extended(fr.len)
<1>1. TypeOK /\ Framed /\ Staged /\ Returned
  BY DEF Parsed
<1>2. /\ state.stage = "HEADER_MASK_KEY" /\ Erase(avail)
      /\ UNCHANGED <<open, sent, wire, fragments, taken, handled>>
      /\ pc' \in {"wait", "parse"}
  BY <1>1 DEF MaskKey, Parsing, TypeOK
<1>3. /\ avail \in Nat /\ avail <= Len(buffer)
      /\ state.consumed \in Nat /\ state.needed \in Nat
      /\ state.consumed + avail <= state.needed
      /\ Completes <=> state.consumed + avail = state.needed
      /\ avail > 0 => buffer # <<>>
  BY <1>1, AvailFacts
<1>4. buffer' \in Seq(Byte)
  BY <1>1, <1>2, <1>3, EraseType
<1>5. Current' = Current /\ sent'[Current'] = fr
  BY <1>2 DEF Current
<1>6. Returned'
  BY <1>1, <1>2 DEF Returned, FramesInOrder
<1>7. CASE avail = 0
  <2>1. state' = [state EXCEPT !.consumed = @ + avail] /\ pc' = "wait"
    BY <1>7 DEF MaskKey
  <2>2. state' = state /\ Framed' /\ Staged'
    BY <1>2, <1>7, <2>1, NoBytes
  <2>3. TypeOK'
    BY <1>1, <1>2, <1>4, <2>2 DEF TypeOK
  <2> QED BY <1>6, <2>2, <2>3 DEF Parsed
<1>8. CASE avail > 0
  <2>1. /\ Current \in DOMAIN sent /\ fr \in Frames /\ fr.len \in Nat
        /\ ext \in {0, 2, 8} /\ Size(fr) = 6 + ext + fr.len
        /\ fr.len <= Inline <=> ext = 0
        /\ Where = <<Current, 3 + ext + state.consumed>> /\ Incoming = fr
    BY <1>2, <1>8, Inside
  <2>2. /\ state.needed = 4 /\ fr.masked /\ state.op = fr.op /\ state.fin = fr.fin
        /\ state.length = IF fr.len <= Inline THEN fr.len ELSE Shifted(fr.len)
    BY <1>1, <1>2 DEF Staged
  <2>3. Size(sent[Current]) = Size(fr) /\ state \in ParserState
    BY <1>1 DEF TypeOK, ParserState
  <2>4. MaxPayload \in Nat /\ Inline \in Nat
    BY FramesAssumption
  <2>5. state.length \in Nat
    BY <2>3 DEF ParserState
  <2> HIDE DEF fr, ext
  <2>6. 3 + ext + state.consumed + avail <= Size(sent[Current]) + 1
    BY <1>3, <2>1, <2>2, <2>3, SMTT(30)
  <2>7. ASSUME Where' = IF 3 + ext + state.consumed + avail <= Size(sent[Current])
                          THEN <<Current, 3 + ext + state.consumed + avail>>
                          ELSE <<Current + 1, 1>>
        PROVE  Framed'
    BY <1>2, <1>3, <1>8, <2>1, <2>6, <2>7, Passes
  <2>8. CASE Completes /\ WithinLimit
    <3>1. state' = [state EXCEPT !.stage = "PAYLOAD", !.needed = state.length, !.consumed = 0]
      BY <1>8, <2>8 DEF MaskKey
    <3>2. /\ state' \in ParserState
          /\ state'.stage = "PAYLOAD" /\ state'.op = state.op /\ state'.fin = state.fin
          /\ state'.needed = state.length /\ state'.consumed = 0
      <4>1. "PAYLOAD" \in Stages
        BY DEF Stages
      <4> QED BY ONLY <2>3, <2>5, <3>1, <4>1 DEF ParserState
    <3>3. TypeOK'
      <4>1. state'.consumed <= state'.needed
        BY <2>5, <3>2
      <4> QED BY <1>1, <1>2, <1>4, <3>2, <4>1 DEF TypeOK, ParserState
    <3>4. state.length = fr.len /\ fr.len <= MaxPayload /\ ext # 2
      <4>1. state.length <= MaxPayload
        BY <2>8 DEF WithinLimit
      <4>2. CASE fr.len <= Inline
        BY <2>1, <2>2, <4>1, <4>2
      <4>3. CASE ~(fr.len <= Inline)
        <5>1. fr.len > Inline /\ Shifted(fr.len) <= MaxPayload
          BY <2>1, <2>2, <2>4, <4>1, <4>3
        <5>2. Shifted(fr.len) = fr.len /\ Extended(fr.len) = 8
          BY <2>1, <5>1, ShiftedFacts
        <5> QED BY <2>2, <4>1, <4>3, <5>2 DEF ext
      <4> QED BY <4>2, <4>3
    <3>5. Staged'
      <4>1. Current' \in DOMAIN sent' /\ sent'[Current'] = fr
        BY <1>2, <1>5, <2>1 DEF fr
      <4>2. state'.consumed < state'.needed \/ state'.needed = 0
        BY <2>5, <3>2
      <4>3. Extended(fr.len) # 2
        BY <3>4 DEF ext
      <4> QED BY <2>2, <3>2, <3>4, <4>1, <4>2, <4>3 DEF Staged
    <3>6. Where' = IF 3 + ext + state.consumed + avail <= Size(sent[Current])
                     THEN <<Current, 3 + ext + state.consumed + avail>>
                     ELSE <<Current + 1, 1>>
      <4>1. At(state', fr, Current) = IF state'.consumed >= fr.len
                                        THEN <<Current + 1, 1>>
                                        ELSE <<Current, 7 + ext + state'.consumed>>
        BY <2>1, <3>2, AtFacts DEF ext
      <4>2. Where' = At(state', fr, Current)
        BY <1>5, WhereIsAt DEF fr
      <4>3. 3 + ext + state.consumed + avail = 7 + ext /\ 7 + ext + state'.consumed = 7 + ext
        BY <1>3, <2>1, <2>2, <2>8, <3>2, SMTT(30)
      <4>4. 7 + ext <= Size(sent[Current]) <=> ~(state'.consumed >= fr.len)
        BY <2>1, <2>3, <3>2
      <4> QED BY <4>1, <4>2, <4>3, <4>4
    <3> QED BY <1>6, <2>7, <3>3, <3>5, <3>6 DEF Parsed
  <2>9. CASE ~(Completes /\ WithinLimit)
    <3>1. state' = [state EXCEPT !.consumed = @ + avail]
      BY <2>9 DEF MaskKey
    <3>2. /\ state' \in ParserState
          /\ state'.stage = "HEADER_MASK_KEY" /\ state'.op = state.op /\ state'.fin = state.fin
          /\ state'.length = state.length
          /\ state'.needed = state.needed /\ state'.consumed = state.consumed + avail
      <4>1. state.consumed + avail \in Nat
        BY <1>3
      <4> QED BY <1>2, <2>3, <3>1, <4>1, Counting
    <3>3. TypeOK'
      BY <1>1, <1>2, <1>3, <1>4, <3>2 DEF TypeOK, ParserState
    <3>4. WithinLimit' => state'.consumed < 4
      <4>1. WithinLimit' <=> WithinLimit
        BY <3>2 DEF WithinLimit
      <4> QED BY <1>3, <2>2, <2>9, <3>2, <4>1
    <3>5. Staged'
      <4>1. Current' \in DOMAIN sent' /\ sent'[Current'] = fr
        BY <1>2, <1>5, <2>1 DEF fr
      <4> QED BY <2>2, <3>2, <3>4, <4>1 DEF Staged
    <3>6. 3 + ext + state.consumed + avail <= Size(sent[Current])
      <4>1. CASE Completes
        <5>1. state.length > MaxPayload
          BY <2>4, <2>5, <2>9, <4>1 DEF WithinLimit
        <5>2. fr.len > 0
          BY <2>1, <2>2, <2>4, <5>1
        <5> QED BY <1>3, <2>1, <2>2, <2>3, <5>2, SMTT(30)
      <4>2. CASE ~Completes
        BY <1>3, <2>1, <2>2, <2>3, <4>2, SMTT(30)
      <4> QED BY <4>1, <4>2
    <3>7. Where' = <<Current, 3 + ext + state.consumed + avail>>
      <4>1. state'.consumed \in Nat /\ fr \in Frames
        BY <1>3, <2>1, <3>2
      <4>2. At(state', fr, Current) = <<Current, 3 + ext + state'.consumed>>
        BY <3>2, <4>1, AtFacts DEF ext
      <4>3. Where' = At(state', fr, Current)
        BY <1>5, WhereIsAt DEF fr
      <4>4. 3 + ext + state'.consumed = 3 + ext + state.consumed + avail
        BY <1>3, <2>1, <3>2
      <4> QED BY <4>2, <4>3, <4>4
    <3> QED BY <1>6, <2>7, <3>3, <3>5, <3>6, <3>7 DEF Parsed
  <2> QED BY <2>8, <2>9
<1> QED BY <1>3, <1>7, <1>8

LEMMA PayloadPartStep ==
  ASSUME Parsed, PayloadPart
  PROVE  Parsed'
<1> DEFINE fr == sent[Current]
           ext == Extended(fr.len)
<1>1. TypeOK /\ Framed /\ Staged /\ Returned
  BY DEF Parsed
<1>2. /\ state.stage = "PAYLOAD" /\ Erase(avail) /\ pc' = "wait"
      /\ avail = 0 \/ ~Completes
      /\ UNCHANGED <<open, sent, wire, fragments, taken, handled>>
      /\ state' = [state EXCEPT !.consumed = @ + avail]
  BY DEF PayloadPart, Parsing
<1>3. /\ avail \in Nat /\ avail <= Len(buffer)
      /\ state.consumed \in Nat /\ state.needed \in Nat
      /\ state.consumed + avail <= state.needed
      /\ Completes <=> state.consumed + avail = state.needed
      /\ avail > 0 => buffer # <<>>
  BY <1>1, AvailFacts
<1>4. buffer' \in Seq(Byte)
  BY <1>1, <1>2, <1>3, EraseType
<1>5. Current' = Current /\ sent'[Current'] = fr
  BY <1>2 DEF Current
<1>6. Returned'
  BY <1>1, <1>2 DEF Returned, FramesInOrder
<1>7. CASE avail = 0
  <2>1. state' = state /\ Framed' /\ Staged'
    BY <1>2, <1>7, NoBytes
  <2>2. TypeOK'
    BY <1>1, <1>2, <1>4, <2>1 DEF TypeOK
  <2> QED BY <1>6, <2>1, <2>2 DEF Parsed
<1>8. CASE avail > 0
  <2>1. /\ Current \in DOMAIN sent /\ fr \in Frames /\ fr.len \in Nat
        /\ ext \in {0, 2, 8} /\ Size(fr) = 6 + ext + fr.len
        /\ Where = <<Current, 7 + ext + state.consumed>>
    BY <1>2, <1>8, Inside
  <2>2. /\ state.needed = fr.len /\ fr.len <= MaxPayload /\ ext # 2
        /\ fr.masked /\ state.op = fr.op /\ state.fin = fr.fin
    BY <1>1, <1>2 DEF Staged
  <2>3. Size(sent[Current]) = Size(fr) /\ state \in ParserState
    BY <1>1 DEF TypeOK, ParserState
  <2> HIDE DEF fr, ext
  <2>4. /\ state' \in ParserState
        /\ state'.stage = "PAYLOAD" /\ state'.op = state.op /\ state'.fin = state.fin
        /\ state'.needed = state.needed /\ state'.consumed = state.consumed + avail
    <3>1. state.consumed + avail \in Nat
      BY <1>3
    <3> QED BY <1>2, <2>3, <3>1, Counting
  <2>5. TypeOK'
    BY <1>1, <1>2, <1>3, <1>4, <2>4 DEF TypeOK, ParserState
  <2>6. state.consumed + avail < fr.len
    BY <1>2, <1>3, <1>8, <2>2
  <2>7. Staged'
    <3>1. Current' \in DOMAIN sent' /\ sent'[Current'] = fr
      BY <1>2, <1>5, <2>1 DEF fr
    <3>2. Extended(fr.len) # 2 /\ state'.consumed < state'.needed
      BY <2>2, <2>4, <2>6 DEF ext
    <3> QED BY <2>2, <2>4, <3>1, <3>2 DEF Staged
  <2>8. 7 + ext + state.consumed + avail <= Size(sent[Current])
    BY <1>3, <2>1, <2>3, <2>6, SMTT(30)
  <2>9. Where' = <<Current, 7 + ext + state.consumed + avail>>
    <3>1. state'.consumed \in Nat /\ fr \in Frames /\ ~(state'.consumed >= fr.len)
      BY <1>3, <2>1, <2>4, <2>6
    <3>2. At(state', fr, Current) = <<Current, 7 + ext + state'.consumed>>
      BY <2>4, <3>1, AtFacts DEF ext
    <3>3. Where' = At(state', fr, Current)
      BY <1>5, WhereIsAt DEF fr
    <3>4. 7 + ext + state'.consumed = 7 + ext + state.consumed + avail
      BY <1>3, <2>1, <2>4
    <3> QED BY <3>2, <3>3, <3>4
  <2>10. Framed'
    <3>1. 7 + ext + state.consumed + avail <= Size(sent[Current]) + 1
      BY <1>3, <2>1, <2>3, <2>8, SMTT(30)
    <3>2. Where' = IF 7 + ext + state.consumed + avail <= Size(sent[Current])
                     THEN <<Current, 7 + ext + state.consumed + avail>>
                     ELSE <<Current + 1, 1>>
      BY <2>8, <2>9
    <3> QED BY <1>2, <1>3, <1>8, <2>1, <3>1, <3>2, Passes
  <2> QED BY <1>6, <2>5, <2>7, <2>10 DEF Parsed
<1> QED BY <1>3, <1>7, <1>8

\* What a step that returns a frame does to it.
LEMMA CompleteFacts ==
  ASSUME Parsed, FrameComplete
  PROVE  /\ Current \in 1 .. Len(sent) /\ Got \in Part /\ Got.frame = Current
         /\ state.op = sent[Current].op /\ state.fin = sent[Current].fin
         /\ taken' = Append(taken, Got) /\ Len(taken') = Current
         /\ \A i \in 1 .. Len(taken) : taken'[i] = taken[i]
         /\ taken'[Current] = Got
<1>1. TypeOK /\ Staged
  BY DEF Parsed
<1>2. state.stage = "PAYLOAD" /\ avail > 0 /\ taken' = Append(taken, Got)
  BY DEF FrameComplete, Parsing
<1>3. /\ Current \in DOMAIN sent /\ sent[Current] \in Frames /\ sent[Current].len \in Nat
      /\ Head(buffer)[1] = Current
  BY <1>2, Inside
<1>4. avail \in Nat /\ state.consumed \in Nat /\ state.needed \in Nat
      /\ state.consumed + avail <= state.needed
  BY <1>1, AvailFacts
<1>5. /\ state.needed = sent[Current].len /\ sent[Current].len <= MaxPayload
      /\ Extended(sent[Current].len) # 2 /\ sent[Current].masked
      /\ state.op = sent[Current].op /\ state.fin = sent[Current].fin
  BY <1>1, <1>2 DEF Staged
<1>6. Current \in 1 .. Len(sent) /\ Len(sent) \in Nat
  BY <1>1, <1>3, SizesType
<1>7. Got \in Part /\ Got.frame = Current
  <2>1. Current \in 1 .. MaxFrames /\ state.consumed + 1 \in Nat
    BY <1>1, <1>4, <1>6, FramesAssumption, SMTT(30) DEF TypeOK
  <2> QED BY <1>3, <2>1 DEF Got, Part
<1>8. taken \in Seq(Part) /\ Len(taken) \in Nat
  BY <1>1, LenProperties DEF TypeOK
<1> HIDE DEF Got
<1>9. /\ Len(taken') = Len(taken) + 1
       /\ \A i \in 1 .. Len(taken) : taken'[i] = taken[i]
       /\ taken'[Len(taken) + 1] = Got
  BY <1>2, <1>7, <1>8, AppendProperties
<1> QED BY <1>2, <1>5, <1>6, <1>7, <1>9 DEF Current

LEMMA FrameCompleteStep ==
  ASSUME Parsed, FrameComplete
  PROVE  Parsed'
<1> DEFINE fr == sent[Current]
           ext == Extended(fr.len)
<1>1. TypeOK /\ Framed /\ Staged /\ Returned
  BY DEF Parsed
<1>2. /\ state.stage = "PAYLOAD" /\ Erase(avail) /\ avail > 0 /\ Completes
      /\ UNCHANGED <<sent, wire>> /\ state' = reset
  BY DEF FrameComplete, Parsing
<1>3. /\ avail \in Nat /\ avail <= Len(buffer)
      /\ state.consumed \in Nat /\ state.needed \in Nat
      /\ state.consumed + avail = state.needed
      /\ buffer # <<>>
  BY <1>1, <1>2, AvailFacts
<1>4. buffer' \in Seq(Byte)
  BY <1>1, <1>2, <1>3, EraseType
<1>5. /\ fr \in Frames /\ fr.len \in Nat
      /\ ext \in {0, 2, 8} /\ Size(fr) = 6 + ext + fr.len
      /\ Where = <<Current, 7 + ext + state.consumed>>
  BY <1>2, Inside
<1>6. state.needed = fr.len
  BY <1>1, <1>2 DEF Staged
<1>7. /\ Current \in 1 .. Len(sent) /\ Got \in Part /\ Got.frame = Current
      /\ taken' = Append(taken, Got) /\ Len(taken') = Current
      /\ \A i \in 1 .. Len(taken) : taken'[i] = taken[i]
      /\ taken'[Current] = Got
  BY CompleteFacts
<1>8. taken \in Seq(Part) /\ taken' \in Seq(Part) /\ Len(taken) \in Nat /\ Len(sent) \in Nat
  BY <1>1, <1>7, AppendProperties, LenProperties, SizesType DEF TypeOK
<1>9. open' \in BOOLEAN /\ pc' \in {"wait", "parse"}
  BY <1>1 DEF FrameComplete, Destroy, TypeOK
<1>10. fragments' \in Seq(Part) /\ handled' \in Seq(Seq(Part))
  <2>1. fragments \in Seq(Part) /\ handled \in Seq(Seq(Part))
    BY <1>1 DEF TypeOK
  <2> HIDE DEF Got
  <2>2. Append(fragments, Got) \in Seq(Part) /\ <<>> \in Seq(Part)
    BY <1>7, <2>1, AppendProperties
  <2>3. Append(handled, Append(fragments, Got)) \in Seq(Seq(Part))
    BY <2>1, <2>2, AppendProperties
  <2>4. \/ UNCHANGED <<fragments, handled>> \/ Reassemble
    BY DEF FrameComplete
  <2> QED BY <2>1, <2>2, <2>3, <2>4 DEF Reassemble
<1>11. state'.stage = "HEADER_BASIC" /\ state'.consumed = 0
  BY <1>2 DEF reset
<1>12. TypeOK'
  <2>1. /\ state' \in [stage : Stages, op : Opcodes \cup {"none"}, fin : BOOLEAN,
                       length : Nat, needed : Nat, consumed : Nat]
        /\ state'.consumed <= state'.needed
    BY <1>2 DEF reset, Stages
  <2> QED BY <1>1, <1>2, <1>4, <1>8, <1>9, <1>10, <2>1 DEF TypeOK
<1>13. Staged'
  BY <1>11 DEF Staged
<1>14. Current' = Current + 1
  BY <1>7 DEF Current
<1>15. Returned'
  <2>1. Len(taken') <= Len(sent')
    BY <1>2, <1>7, <1>8
  <2>2. ASSUME NEW i \in DOMAIN taken'
        PROVE  taken'[i].frame = i
    <3>1. i \in 1 .. Len(taken) \/ i = Current
      <4>1. i \in 1 .. Current
        BY <1>7, <1>8, <2>2, LenProperties
      <4> QED BY <1>8, <4>1 DEF Current
    <3>2. CASE i \in 1 .. Len(taken)
      <4>1. i \in DOMAIN taken
        BY <1>8, <3>2, LenProperties
      <4>2. taken[i].frame = i
        BY <1>1, <4>1 DEF Returned, FramesInOrder
      <4> QED BY <1>7, <3>2, <4>2
    <3>3. CASE i = Current
      BY <1>7, <3>3
    <3> QED BY <3>1, <3>2, <3>3
  <2>3. FramesInOrder'
    BY <1>2, <2>2 DEF FramesInOrder
  <2> QED BY <2>1, <2>3 DEF Returned
<1>16. Where' = <<Current + 1, 1>>
  <2>1. Where' = At(state', sent'[Current'], Current')
    BY WhereIsAt
  <2>2. At(state', sent'[Current'], Current') = <<Current', 1>>
    BY <1>11, AtHeader
  <2> QED BY <1>14, <2>1, <2>2
<1>17. Framed'
  <2>1. Size(sent[Current]) = Size(fr)
    OBVIOUS
  <2> HIDE DEF fr, ext
  <2>2. /\ 7 + ext + state.consumed + avail <= Size(sent[Current]) + 1
        /\ ~(7 + ext + state.consumed + avail <= Size(sent[Current]))
    BY <1>3, <1>5, <1>6, <2>1, SMTT(30)
  <2>3. Where' = IF 7 + ext + state.consumed + avail <= Size(sent[Current])
                   THEN <<Current, 7 + ext + state.consumed + avail>>
                   ELSE <<Current + 1, 1>>
    BY <1>16, <2>2
  <2> QED BY <1>2, <1>3, <1>5, <2>2, <2>3, Passes
<1> QED BY <1>12, <1>13, <1>15, <1>17 DEF Parsed

LEMMA ClientSendsStep ==
  ASSUME Parsed, NEW fr \in Frames, ClientSends(fr)
  PROVE  Parsed'
<1> DEFINE n == Len(sent)
           item == [k \in 1 .. Size(fr) |-> <<n + 1, k>>]
           r == buffer \o wire
<1>1. TypeOK /\ Framed /\ Staged /\ Returned
  BY DEF Parsed
<1>2. /\ n < MaxFrames /\ sent' = Append(sent, fr) /\ wire' = wire \o item
      /\ UNCHANGED <<open, pc, buffer, state, fragments, taken, handled>>
  BY DEF ClientSends
<1>3. /\ n \in Nat /\ sent \in Seq(Frames) /\ DOMAIN sent = 1 .. n
      /\ Sizes \in [1 .. n -> Nat \ {0}]
      /\ \A i \in 1 .. n : sent[i] \in Frames /\ Sizes[i] = Size(sent[i])
  BY <1>1, SizesType DEF TypeOK
<1>4. /\ sent' \in Seq(Frames) /\ Len(sent') = n + 1 /\ DOMAIN sent' = 1 .. n + 1
      /\ \A i \in 1 .. n : sent'[i] = sent[i]
      /\ sent'[n + 1] = fr
  <2>1. /\ sent' \in Seq(Frames) /\ Len(sent') = n + 1
        /\ \A i \in 1 .. n : sent'[i] = sent[i]
        /\ sent'[n + 1] = fr
    BY <1>2, <1>3, AppendProperties
  <2> QED BY <2>1, LenProperties
<1>5. Size(fr) \in Nat \ {0}
  BY FrameFacts
<1>6. /\ item \in Seq(Byte) /\ item \in Seq(Places) /\ Len(item) = Size(fr)
      /\ \A k \in 1 .. Len(item) : item[k] = <<n + 1, k>>
  <2>1. n + 1 \in 1 .. MaxFrames /\ n + 1 \in Nat
    BY <1>2, <1>3, FramesAssumption
  <2>2. \A k \in 1 .. Size(fr) : <<n + 1, k>> \in Byte /\ <<n + 1, k>> \in Places
    BY <1>5, <2>1 DEF Byte, Places
  <2> HIDE DEF n
  <2>3. item \in [1 .. Size(fr) -> Byte] /\ item \in [1 .. Size(fr) -> Places]
    BY <2>2
  <2>4. item \in Seq(Byte) /\ item \in Seq(Places)
    BY <1>5, <2>3, IsASeq, SMTT(30)
  <2>5. Len(item) = Size(fr)
    BY <1>5, <2>4, LenProperties
  <2> QED BY <2>4, <2>5
<1> HIDE DEF item
<1>7. TypeOK'
  <2>1. wire' \in Seq(Byte)
    BY <1>1, <1>2, <1>6, ConcatProperties DEF TypeOK
  <2>2. Len(sent') <= MaxFrames
    BY <1>2, <1>3, <1>4, FramesAssumption
  <2> QED BY <1>1, <1>2, <1>4, <2>1, <2>2 DEF TypeOK
<1>8. Current' = Current /\ Len(taken) \in Nat /\ WithinLimit' = WithinLimit
  BY <1>1, <1>2, LenProperties DEF Current, TypeOK, WithinLimit
<1>9. Current \in DOMAIN sent => Current \in DOMAIN sent' /\ sent'[Current] = sent[Current]
  BY <1>3, <1>4
<1>10. Staged'
  BY <1>1, <1>2, <1>8, <1>9 DEF Staged
<1>11. Returned'
  <2>1. Len(taken) <= n
    BY <1>1 DEF Returned
  <2>2. Len(taken') <= Len(sent')
    BY <1>2, <1>3, <1>4, <1>8, <2>1
  <2>3. FramesInOrder'
    BY <1>1, <1>2 DEF Returned, FramesInOrder
  <2> QED BY <2>2, <2>3 DEF Returned
<1>12. Where' = Where
  <2>1. /\ Where = At(state, sent[Current], Current)
        /\ Where' = At(state, sent'[Current], Current)
    BY <1>2, <1>8, WhereIsAt
  <2>2. CASE state.stage = "HEADER_BASIC"
    BY <2>1, <2>2, AtHeader
  <2>3. CASE state.stage # "HEADER_BASIC"
    <3>1. Current \in DOMAIN sent
      BY <1>1, <2>3 DEF Staged
    <3> QED BY <1>9, <2>1, <3>1
  <2> QED BY <2>2, <2>3
<1>13. Framed'
  <2>1. Laid(r, Sizes, n, Where)
    BY <1>1 DEF Framed
  <2>2. r \in Seq(Places) /\ buffer \in Seq(Places) /\ wire \in Seq(Places)
    BY <1>1, BytesType
  <2>3. (buffer \o wire)' = r \o item
    <3>1. (buffer \o wire)' = buffer \o (wire \o item)
      BY <1>2
    <3> QED BY <1>6, <2>2, <3>1, ConcatAssociative, SMTT(30)
  <2> DEFINE more == Sizes'
  <2>4. more \in [1 .. n + 1 -> Nat \ {0}] /\ more[n + 1] = Size(fr)
        /\ \A i \in 1 .. n : more[i] = Sizes[i]
    <3>1. more = [i \in 1 .. n + 1 |-> Size(sent'[i])]
      BY <1>4 DEF Sizes
    <3>2. \A i \in 1 .. n + 1 : Size(sent'[i]) \in Nat \ {0}
      <4>1. \A i \in 1 .. n + 1 : sent'[i] \in Frames
        BY <1>4, ElementOfSeq
      <4> QED BY <4>1, FrameFacts
    <3>3. n + 1 \in 1 .. n + 1 /\ \A i \in 1 .. n : i \in 1 .. n + 1
      BY <1>3
    <3> HIDE DEF more, n
    <3>4. \A i \in 1 .. n + 1 : more[i] = Size(sent'[i])
      BY <3>1
    <3> QED BY <1>3, <1>4, <3>1, <3>2, <3>3, <3>4
  <2> HIDE DEF more, n, r
  <2>5. Laid(r \o item, more, n + 1, Where)
    BY <1>3, <1>6, <2>1, <2>2, <2>4, AppendItem
  <2> QED BY <1>4, <1>12, <2>3, <2>5 DEF Framed, more
<1> QED BY <1>7, <1>10, <1>11, <1>13 DEF Parsed

LEMMA ParsedStep ==
  ASSUME Parsed, [ConnectionNext]_allVars, open' \in BOOLEAN
  PROVE  Parsed'
<1>1. ASSUME UNCHANGED <<sent, wire, pc, buffer, state, fragments, taken, handled>>
      PROVE  Parsed'
  <2>1. TypeOK /\ Framed /\ Staged /\ Returned
    BY DEF Parsed
  <2>2. TypeOK'
    BY <1>1, <2>1 DEF TypeOK
  <2>3. Staged' /\ Returned' /\ Where' = Where /\ Sizes' = Sizes
    BY <1>1, <2>1, SameStage
  <2> QED BY <1>1, <2>1, <2>2, <2>3 DEF Parsed, Framed
<1>2. CASE Next
  <2>1. CASE Read
    BY <2>1, ReadStep
  <2>2. CASE Parse
    BY <2>2, HeaderBasicStep, ExtendedLenStep, MaskKeyStep, PayloadPartStep,
       FrameCompleteStep DEF Parse
  <2>3. CASE Disconnect
    BY <1>1, <2>3 DEF Disconnect
  <2>4. ASSUME NEW fr \in Frames, ClientSends(fr) PROVE Parsed'
    BY <2>4, ClientSendsStep
  <2> QED BY <1>2, <2>1, <2>2, <2>3, <2>4 DEF Next
<1>3. CASE TcpStep
  BY <1>1, <1>3 DEF TcpStep, TcpRead, AnswerMetrics, UpgradeDone, UpgradeFails, NoRequest,
     NextLine, AfterLine, LinesDone, vars
<1>4. CASE TcpDisconnect
  BY <1>1, <1>4 DEF TcpDisconnect
<1>5. CASE SendsRequest
  BY <1>1, <1>5 DEF SendsRequest, vars
<1>6. ASSUME NEW len \in Lengths, SendsLine(len) PROVE Parsed'
  BY <1>1, <1>6 DEF SendsLine, vars
<1>7. CASE UNCHANGED allVars
  BY <1>1, <1>7 DEF allVars, vars
<1> QED BY <1>2, <1>3, <1>4, <1>5, <1>6, <1>7 DEF ConnectionNext

-----------------------------------------------------------------------------
(* Types of the connection *)

Texting == [what : {"message", "metrics", "upgrade", "key", "blank"}, len : Nat \ {0}]

TcpTypeOK ==
  /\ client \in {"lines", "browser", "scraper"}
  /\ text \in Seq(Texting)
  /\ stream \in Seq(Character) /\ read_buffer \in Seq(Character)
  /\ protocol \in {"UNKNOWN", "WEBSOCKET"} /\ reading \in {"no", "fresh", "lines"}
  /\ lines \in Seq(Seq(Character))

LEMMA CharactersType ==
  ASSUME NEW i \in Nat \ {0}, NEW line \in Texting
  PROVE  /\ Characters(i, line) \in Seq(Character) /\ Characters(i, line) \in Seq(Places)
         /\ Len(Characters(i, line)) = line.len /\ line.len \in Nat \ {0}
         /\ \A k \in 1 .. line.len : Characters(i, line)[k] = <<i, k>>
<1> DEFINE c == Characters(i, line)
<1>1. line.len \in Nat \ {0}
  BY DEF Texting
<1>2. c = [k \in 1 .. line.len |-> <<i, k>>]
  BY DEF Characters
<1>3. \A k \in 1 .. line.len : <<i, k>> \in Character /\ <<i, k>> \in Places
  BY <1>1 DEF Character, Places
<1> HIDE DEF c
<1>4. c \in [1 .. line.len -> Character] /\ c \in [1 .. line.len -> Places]
  BY <1>2, <1>3
<1>5. c \in Seq(Character) /\ c \in Seq(Places)
  BY <1>1, <1>4, IsASeq
<1>6. Len(c) = line.len
  BY <1>1, <1>4, <1>5, LenProperties
<1>7. \A k \in 1 .. line.len : c[k] = <<i, k>>
  BY <1>2
<1> QED BY <1>1, <1>5, <1>6, <1>7 DEF c

LEMMA TcpTypeStep ==
  ASSUME TcpTypeOK, open \in BOOLEAN, [ConnectionNext]_allVars
  PROVE  TcpTypeOK' /\ open' \in BOOLEAN
<1>1. /\ client \in {"lines", "browser", "scraper"}
      /\ text \in Seq(Texting)
      /\ stream \in Seq(Character) /\ read_buffer \in Seq(Character)
      /\ protocol \in {"UNKNOWN", "WEBSOCKET"} /\ reading \in {"no", "fresh", "lines"}
      /\ lines \in Seq(Seq(Character))
  BY DEF TcpTypeOK
<1>2. <<>> \in Seq(Character) /\ Len(text) \in Nat
  BY <1>1, LenProperties
<1>3. ASSUME NEW len \in Lengths, SendsLine(len)
      PROVE  TcpTypeOK' /\ open' \in BOOLEAN
  <2> DEFINE l == Line("message", len)
  <2>1. l \in Texting /\ Len(text) + 1 \in Nat \ {0}
    BY <1>2, LinesAssumption DEF Line, Texting
  <2> HIDE DEF l
  <2>2. Characters(Len(text) + 1, l) \in Seq(Character)
    BY <2>1, CharactersType
  <2>3. /\ text' = Append(text, l) /\ stream' = stream \o Characters(Len(text) + 1, l)
        /\ UNCHANGED <<open, client, protocol, reading, read_buffer, lines>>
    BY <1>3 DEF SendsLine, l, vars
  <2>4. text' \in Seq(Texting)
    BY <1>1, <2>1, <2>3, AppendProperties
  <2>5. stream' \in Seq(Character)
    BY <1>1, <2>2, <2>3, ConcatProperties
  <2> QED BY <1>1, <2>3, <2>4, <2>5 DEF TcpTypeOK
<1>4. CASE SendsRequest
  <2> DEFINE up == Line("upgrade", 2)
             key == Line("key", 1)
             metrics == Line("metrics", 2)
             blank == Line("blank", 1)
  <2>1. up \in Texting /\ key \in Texting /\ metrics \in Texting /\ blank \in Texting
    BY DEF Line, Texting
  <2>2. /\ text' = IF client = "browser" THEN <<up, key, blank>> ELSE <<metrics, blank>>
        /\ stream' = IF client = "browser"
                       THEN Characters(1, up) \o Characters(2, key) \o Characters(3, blank)
                       ELSE Characters(1, metrics) \o Characters(2, blank)
        /\ UNCHANGED <<open, client, protocol, reading, read_buffer, lines>>
    BY <1>4 DEF SendsRequest, Upgrade, Metrics, vars
  <2> HIDE DEF up, key, metrics, blank
  <2>3. text' \in Seq(Texting)
    BY <2>1, <2>2
  <2>4. /\ Characters(1, up) \in Seq(Character) /\ Characters(2, key) \in Seq(Character)
        /\ Characters(3, blank) \in Seq(Character) /\ Characters(1, metrics) \in Seq(Character)
        /\ Characters(2, blank) \in Seq(Character)
    BY <2>1, CharactersType
  <2>5. stream' \in Seq(Character)
    BY <2>2, <2>4, ConcatProperties
  <2> QED BY <1>1, <2>2, <2>3, <2>5 DEF TcpTypeOK
<1>5. CASE TcpRead
  <2>1. PICK n \in 1 .. Len(stream) : /\ read_buffer' = read_buffer \o SubSeq(stream, 1, n)
                                      /\ stream' = SubSeq(stream, n + 1, Len(stream))
    BY <1>5 DEF TcpRead
  <2>2. read_buffer' \in Seq(Character) /\ stream' \in Seq(Character)
    <3>1. read_buffer \o SubSeq(stream, 1, n) \in Seq(Character)
          /\ SubSeq(stream, n + 1, Len(stream)) \in Seq(Character)
      BY ONLY <1>1, n \in 1 .. Len(stream), ReadMoves
    <3> QED BY <2>1, <3>1
  <2> QED BY <1>1, <1>5, <2>2 DEF TcpTypeOK, TcpRead, vars
<1>6. CASE NextLine
  <2>1. PICK pos \in Ends : /\ lines' = Append(lines, SubSeq(read_buffer, 1, pos))
                            /\ read_buffer' = Rest(pos)
    BY <1>6 DEF NextLine
  <2>2. pos \in 1 .. Len(read_buffer) /\ Len(read_buffer) \in Nat
        /\ \A i \in 1 .. Len(read_buffer) : read_buffer[i] \in Character
    BY <1>1, LenProperties, ElementOfSeq DEF Ends
  <2>3. SubSeq(read_buffer, 1, pos) \in Seq(Character)
        /\ SubSeq(read_buffer, pos + 1, Len(read_buffer)) \in Seq(Character)
    BY <2>2, SubSeqProperties
  <2>4. lines' \in Seq(Seq(Character)) /\ read_buffer' \in Seq(Character)
    BY <1>1, <2>1, <2>3, AppendProperties DEF Rest
  <2>5. open' \in BOOLEAN /\ reading' \in {"no", "lines"}
    BY <1>1, <1>6 DEF NextLine, AfterLine
  <2> QED BY <1>1, <1>6, <2>4, <2>5 DEF TcpTypeOK, NextLine
<1>7. CASE AnswerMetrics \/ UpgradeDone \/ UpgradeFails \/ NoRequest
  BY <1>1, <1>2, <1>7 DEF TcpTypeOK, AnswerMetrics, UpgradeDone, UpgradeFails, NoRequest, vars
<1>8. CASE LinesDone \/ TcpDisconnect
  BY <1>1, <1>8 DEF TcpTypeOK, LinesDone, TcpDisconnect, tcp
<1>9. CASE UNCHANGED tcp /\ Next
  <2>1. open' \in BOOLEAN
    BY <1>9 DEF Next, Read, Parse, HeaderBasic, ExtendedLen, MaskKey, PayloadPart,
       FrameComplete, Destroy, Disconnect, ClientSends
  <2> QED BY <1>1, <1>9, <2>1 DEF TcpTypeOK, tcp
<1>10. CASE UNCHANGED allVars
  BY <1>1, <1>10 DEF TcpTypeOK, allVars, vars, tcp
<1> QED BY <1>3, <1>4, <1>5, <1>6, <1>7, <1>8, <1>9, <1>10 DEF ConnectionNext, TcpStep

-----------------------------------------------------------------------------
(* Lines *)

LEMMA TcpBasics ==
  ASSUME TcpTypeOK
  PROVE  /\ Len(text) \in Nat /\ DOMAIN text = 1 .. Len(text)
         /\ \A i \in 1 .. Len(text) : text[i] \in Texting /\ text[i].len \in Nat \ {0}
         /\ Lens \in [1 .. Len(text) -> Nat \ {0}]
         /\ \A i \in 1 .. Len(text) : Lens[i] = text[i].len
         /\ read_buffer \in Seq(Places) /\ stream \in Seq(Places)
         /\ read_buffer \o stream \in Seq(Places)
         /\ Len(read_buffer) \in Nat /\ Len(stream) \in Nat
         /\ Len(read_buffer \o stream) = Len(read_buffer) + Len(stream)
         /\ \A j \in 1 .. Len(read_buffer) : (read_buffer \o stream)[j] = read_buffer[j]
         /\ DOMAIN read_buffer = 1 .. Len(read_buffer)
         /\ Len(lines) \in Nat /\ DOMAIN lines = 1 .. Len(lines)
<1>1. /\ text \in Seq(Texting)
      /\ stream \in Seq(Character) /\ read_buffer \in Seq(Character)
      /\ lines \in Seq(Seq(Character))
  BY DEF TcpTypeOK
<1>2. Len(text) \in Nat /\ DOMAIN text = 1 .. Len(text)
      /\ \A i \in 1 .. Len(text) : text[i] \in Texting
  BY <1>1, LenProperties, ElementOfSeq
<1>3. \A i \in 1 .. Len(text) : text[i].len \in Nat \ {0}
  BY <1>2 DEF Texting
<1>4. Lens \in [1 .. Len(text) -> Nat \ {0}] /\ \A i \in 1 .. Len(text) : Lens[i] = text[i].len
  BY <1>2, <1>3 DEF Lens
<1>5. Character \subseteq Places
  BY DEF Character, Places
<1>6. read_buffer \in Seq(Places) /\ stream \in Seq(Places)
  BY <1>1, <1>5, SeqMonotonic
<1>7. /\ read_buffer \o stream \in Seq(Places)
      /\ Len(read_buffer) \in Nat /\ Len(stream) \in Nat
      /\ Len(read_buffer \o stream) = Len(read_buffer) + Len(stream)
      /\ \A j \in 1 .. Len(read_buffer) : (read_buffer \o stream)[j] = read_buffer[j]
  BY ONLY <1>6, ConcatFacts
<1>8. DOMAIN read_buffer = 1 .. Len(read_buffer)
      /\ Len(lines) \in Nat /\ DOMAIN lines = 1 .. Len(lines)
  BY <1>1, LenProperties
<1> QED BY <1>2, <1>3, <1>4, <1>6, <1>7, <1>8

\* What stays when neither the characters nor what they are of change.
LEMMA SameLines ==
  ASSUME Lined, UNCHANGED <<client, text, protocol, lines>>,
         read_buffer' \o stream' = read_buffer \o stream
  PROVE  Lined'
<1>1. Lens' = Lens
  BY DEF Lens
<1> QED BY <1>1 DEF Lined

LEMMA LinedRead ==
  ASSUME TcpTypeOK, Lined, TcpRead
  PROVE  Lined'
<1>1. PICK n \in 1 .. Len(stream) : /\ read_buffer' = read_buffer \o SubSeq(stream, 1, n)
                                    /\ stream' = SubSeq(stream, n + 1, Len(stream))
  BY DEF TcpRead
<1>2. read_buffer \in Seq(Places) /\ stream \in Seq(Places)
  BY TcpBasics
<1>3. (read_buffer \o SubSeq(stream, 1, n)) \o SubSeq(stream, n + 1, Len(stream))
        = read_buffer \o stream
  BY ONLY <1>2, n \in 1 .. Len(stream), ReadMoves, ZenonT(30)
<1> QED BY <1>1, <1>3, SameLines DEF TcpRead

\* A whole request is the last thing a client has sent, and all of it has been read.
LEMMA RequestIsAll ==
  ASSUME TcpTypeOK, Lined, Has("blank")
  PROVE  stream = <<>>
<1> DEFINE rest == read_buffer \o stream
           n == Len(text)
<1>1. PICK i \in DOMAIN text :
        /\ text[i].what = "blank"
        /\ \A c \in {<<i, k>> : k \in 1 .. text[i].len} :
             \E j \in DOMAIN read_buffer : read_buffer[j] = c
  BY DEF Has
<1>2. i = n
  BY <1>1 DEF Lined
<1>3. /\ n \in 1 .. n /\ n \in Nat /\ text[n].len \in Nat \ {0}
      /\ Lens \in [1 .. n -> Nat \ {0}] /\ Lens[n] = text[n].len
  BY <1>1, <1>2, TcpBasics
<1>4. <<n, text[n].len>> \in {<<i, k>> : k \in 1 .. text[i].len}
  BY <1>2, <1>3
<1>5. PICK j \in DOMAIN read_buffer : read_buffer[j] = <<n, text[n].len>>
  BY <1>1, <1>4
<1>6. /\ j \in 1 .. Len(read_buffer) /\ rest[j] = <<n, text[n].len>>
      /\ Len(rest) = Len(read_buffer) + Len(stream)
      /\ Len(read_buffer) \in Nat /\ Len(stream) \in Nat /\ rest \in Seq(Places)
  BY <1>5, TcpBasics
<1> HIDE DEF rest
<1>7. rest # <<>> /\ j \in 1 .. Len(rest)
  BY <1>6, EmptySeq
<1>8. Whole(rest, Lens)
  BY <1>7 DEF Lined, Laid, rest
<1> HIDE DEF n
<1>9. ~(j < Len(rest))
  <2> SUFFICES ASSUME j < Len(rest) PROVE FALSE
    OBVIOUS
  <2>1. rest[j][1] = n /\ rest[j][2] = Lens[n]
    BY <1>3, <1>6
  <2>2. rest[j + 1] = <<n + 1, 1>>
    BY <1>7, <1>8, <2>1 DEF Whole
  <2>3. j + 1 \in 1 .. Len(rest)
    BY <1>6, <1>7
  <2>4. n + 1 \in 1 .. n
    BY <1>3, <1>8, <2>2, <2>3 DEF Whole
  <2> QED BY <1>3, <2>4
<1>10. Len(stream) = 0
  BY <1>6, <1>9
<1> QED BY <1>10, EmptySeq DEF TcpTypeOK

\* A request that is taken out of the buffer leaves nothing.
LEMMA LinedTaken ==
  ASSUME TcpTypeOK, Lined, Has("blank"), Has("metrics") \/ Has("upgrade"),
         read_buffer' = <<>>, UNCHANGED <<client, text, stream, lines>>
  PROVE  Lined'
<1>1. stream' = <<>>
  BY RequestIsAll
<1>2. <<>> \in Seq(Places)
  BY EmptySeq
<1>3. read_buffer' \o stream' = <<>>
  BY <1>1, <1>2, ConcatEmptySeq
<1>4. PICK i \in DOMAIN text : text[i].what \in {"metrics", "upgrade"}
  BY DEF Has
<1>5. client # "lines"
  BY <1>4 DEF Lined
<1> QED BY <1>3, <1>5 DEF Lined

\* The first line end in the buffer is that of the next line.
LEMMA LinedNext ==
  ASSUME TcpTypeOK, Lined, NextLine
  PROVE  Lined'
<1> DEFINE rest == read_buffer \o stream
           n == Len(text)
           i == Len(lines) + 1
           size == Lens
           there == read_buffer' \o stream'
<1>1. PICK pos \in Ends : /\ \A j \in Ends : pos <= j
                          /\ lines' = Append(lines, SubSeq(read_buffer, 1, pos))
                          /\ read_buffer' = Rest(pos)
  BY DEF NextLine
<1>2. UNCHANGED <<client, text, protocol, stream>>
  BY DEF NextLine
<1>3. /\ n \in Nat /\ DOMAIN text = 1 .. n
      /\ \A m \in 1 .. n : text[m] \in Texting /\ text[m].len \in Nat \ {0}
      /\ size \in [1 .. n -> Nat \ {0}]
      /\ \A m \in 1 .. n : size[m] = text[m].len
      /\ read_buffer \in Seq(Places) /\ stream \in Seq(Places)
      /\ rest \in Seq(Places)
      /\ Len(read_buffer) \in Nat /\ Len(stream) \in Nat
      /\ Len(rest) = Len(read_buffer) + Len(stream)
      /\ \A j \in 1 .. Len(read_buffer) : rest[j] = read_buffer[j]
      /\ DOMAIN read_buffer = 1 .. Len(read_buffer)
      /\ Len(lines) \in Nat /\ DOMAIN lines = 1 .. Len(lines)
  BY TcpBasics
<1>4. pos \in 1 .. Len(read_buffer) /\ Newline(read_buffer[pos])
  BY <1>1, <1>3 DEF Ends
<1>5. there = SubSeq(rest, pos + 1, Len(rest)) /\ pos \in 0 .. Len(rest)
  <2>1. pos \in 0 .. Len(read_buffer)
    BY <1>3, <1>4
  <2>2. /\ SubSeq(read_buffer, pos + 1, Len(read_buffer)) \o stream
             = SubSeq(rest, pos + 1, Len(rest))
        /\ pos \in 0 .. Len(rest)
    BY ONLY <1>3, <2>1, EraseFront, ZenonT(60)
  <2> QED BY <1>1, <1>2, <2>2 DEF Rest
<1> HIDE DEF rest, n, size, there
<1>6. rest # <<>>
  BY <1>3, <1>4, EmptySeq
<1>7. Laid(rest, size, n, <<i, 1>>)
  BY <1>6 DEF Lined, rest, n, size
<1> HIDE DEF i
<1>8. Whole(rest, size) /\ rest[1] = <<i, 1>>
  BY <1>6, <1>7 DEF Laid
<1>9. i \in 1 .. n /\ size[i] = text[i].len /\ size[i] \in Nat \ {0} /\ text[i] \in Texting
  <2>1. 1 \in 1 .. Len(rest)
    BY <1>3, <1>4
  <2>2. rest[1][1] \in DOMAIN size
    BY <1>8, <2>1 DEF Whole
  <2> QED BY <1>3, <1>8, <2>2
<1>10. \A m \in 1 .. size[i] : rest[m] = <<i, m>>
  <2>1. rest[1][1] = i /\ rest[1][2] = 1
    BY <1>8
  <2>2. size[rest[1][1]] \in Nat
    BY <1>9, <2>1
  <2>3. \A m \in rest[1][2] .. size[rest[1][1]] :
           rest[m - rest[1][2] + 1] = <<rest[1][1], m>>
    BY <1>3, <1>6, <1>8, <2>2, WholeHead
  <2>4. ASSUME NEW m \in 1 .. size[i] PROVE rest[m] = <<i, m>>
    <3>1. m - 1 + 1 = m
      BY <1>9
    <3> QED BY <2>1, <2>3, <3>1
  <2> QED BY <2>4
<1>11. pos = size[i]
  <2>1. ~(pos < size[i])
    <3> SUFFICES ASSUME pos < size[i] PROVE FALSE
      OBVIOUS
    <3>1. pos \in 1 .. size[i]
      BY <1>4, <1>9
    <3>2. read_buffer[pos] = <<i, pos>>
      BY <1>3, <1>4, <1>10, <3>1
    <3>3. pos = text[i].len
      BY <1>4, <3>2 DEF Newline
    <3> QED BY <1>4, <1>9, <3>3
  <2>2. pos <= size[i]
    <3> SUFFICES ASSUME pos > size[i] PROVE FALSE
      BY <1>4, <1>9
    <3>1. size[i] \in 1 .. Len(read_buffer) /\ size[i] \in 1 .. size[i]
      BY <1>3, <1>4, <1>9
    <3>2. read_buffer[size[i]] = <<i, size[i]>>
      BY <1>3, <1>10, <3>1
    <3>3. size[i] \in Ends
      <4>1. read_buffer[size[i]][1] = i /\ read_buffer[size[i]][2] = size[i]
        BY <3>2
      <4>2. Newline(read_buffer[size[i]])
        BY <1>9, <4>1 DEF Newline
      <4> QED BY <1>3, <3>1, <4>2 DEF Ends
    <3> QED BY <1>1, <1>4, <1>9, <3>3
  <2> QED BY <1>4, <1>9, <2>1, <2>2
<1>12. SubSeq(read_buffer, 1, pos) = Characters(i, text[i])
  <2> DEFINE u == SubSeq(read_buffer, 1, pos)
             c == Characters(i, text[i])
  <2>1. u \in Seq(Places) /\ Len(u) = pos /\ \A m \in 1 .. pos : u[m] = read_buffer[m]
    <3>1. /\ u \in Seq(Places) /\ Len(u) = IF 1 <= pos THEN pos - 1 + 1 ELSE 0
          /\ \A m \in 1 .. pos - 1 + 1 : u[m] = read_buffer[1 + m - 1]
      <4>1. \A m \in 1 .. pos : read_buffer[m] \in Places
        BY <1>3, <1>4, ElementOfSeq
      <4> QED BY <1>3, <1>4, <4>1, SubSeqProperties
    <3>2. pos - 1 + 1 = pos /\ 1 <= pos /\ \A m \in 1 .. pos : 1 + m - 1 = m
      BY <1>4
    <3> QED BY <3>1, <3>2
  <2>2. i \in Nat \ {0}
    BY <1>3, <1>9
  <2>3. c \in Seq(Places) /\ Len(c) = pos /\ \A m \in 1 .. pos : c[m] = <<i, m>>
    BY <1>9, <1>11, <2>2, CharactersType
  <2> HIDE DEF u, c
  <2>4. \A m \in 1 .. pos : m \in 1 .. Len(read_buffer)
    BY <1>3, <1>4
  <2>5. \A m \in 1 .. pos : u[m] = c[m]
    BY <1>3, <1>10, <1>11, <2>1, <2>3, <2>4
  <2>6. u = c
    BY <2>1, <2>3, <2>5, SeqEqual
  <2> QED BY <2>6 DEF u, c
<1>13. /\ Len(lines') = i /\ DOMAIN lines' = 1 .. i
       /\ \A m \in 1 .. i - 1 : lines'[m] = lines[m]
       /\ lines'[i] = Characters(i, text[i])
  <2>1. lines \in Seq(Seq(Character)) /\ SubSeq(read_buffer, 1, pos) \in Seq(Character)
    <3>1. read_buffer \in Seq(Character)
      BY DEF TcpTypeOK
    <3>2. \A m \in 1 .. pos : read_buffer[m] \in Character
      BY <1>3, <1>4, <3>1, ElementOfSeq
    <3> QED BY <1>4, <3>1, <3>2, SubSeqProperties DEF TcpTypeOK
  <2>2. /\ lines' \in Seq(Seq(Character)) /\ Len(lines') = Len(lines) + 1
        /\ \A m \in 1 .. Len(lines) : lines'[m] = lines[m]
        /\ lines'[Len(lines) + 1] = SubSeq(read_buffer, 1, pos)
    BY <1>1, <2>1, AppendProperties
  <2>3. i - 1 = Len(lines)
    BY <1>3 DEF i
  <2>4. DOMAIN lines' = 1 .. Len(lines')
    BY <2>2, LenProperties
  <2> QED BY <1>12, <2>2, <2>3, <2>4 DEF i
<1>14. Laid(there, size, n, <<i + 1, 1>>)
  <2>1. 1 + pos <= size[i] + 1 /\ ~(1 + pos <= size[i])
    BY <1>4, <1>9, <1>11
  <2>2. Laid(SubSeq(rest, pos + 1, Len(rest)), size, n,
             IF 1 + pos <= size[i] THEN <<i, 1 + pos>> ELSE <<i + 1, 1>>)
    BY <1>3, <1>5, <1>6, <1>7, <2>1, Advance
  <2> QED BY <1>5, <2>1, <2>2
<1>15. there = <<>> => i = n
  BY <1>3, <1>9, <1>14 DEF Laid
<1>16. \A m \in DOMAIN lines' : m \in DOMAIN text' /\ lines'[m] = Characters(m, text'[m])
  <2> SUFFICES ASSUME NEW m \in 1 .. i
               PROVE  m \in DOMAIN text /\ lines'[m] = Characters(m, text[m])
    BY <1>2, <1>13
  <2>1. CASE m = i
    BY <1>3, <1>9, <1>13, <2>1
  <2>2. CASE m # i
    <3>1. m \in 1 .. i - 1 /\ m \in DOMAIN lines
      BY <1>3, <1>9, <2>2 DEF i
    <3> QED BY <1>13, <3>1 DEF Lined
  <2> QED BY <2>1, <2>2
<1>17. size = Lens' /\ n = Len(text') /\ i + 1 = Len(lines') + 1
  BY <1>2, <1>13 DEF size, Lens, n
<1>18. there # <<>> => Laid(there, Lens', Len(text'), <<Len(lines') + 1, 1>>)
  BY <1>14, <1>17
<1>19. client = "lines" => /\ protocol = "UNKNOWN"
                           /\ \A m \in DOMAIN text : text[m].what = "message"
  BY DEF Lined
<1>20. \A m \in DOMAIN text : text[m].what = "blank" => m = Len(text)
  BY DEF Lined
<1> QED BY <1>2, <1>13, <1>15, <1>16, <1>17, <1>18, <1>19, <1>20 DEF Lined, there

\* A line more, behind what is under way.
LengthsOf(t) == [i \in DOMAIN t |-> t[i].len]

LEMMA LineMore ==
  ASSUME NEW t \in Seq(Texting), NEW s \in Seq(Places), NEW w,
         Laid(s, LengthsOf(t), Len(t), w), NEW l \in Texting
  PROVE  LET u == s \o Characters(Len(t) + 1, l) IN
         u \in Seq(Places) /\ u # <<>> /\ Laid(u, LengthsOf(Append(t, l)), Len(t) + 1, w)
<1> DEFINE n == Len(t)
           item == Characters(n + 1, l)
           size == LengthsOf(t)
           long == Append(t, l)
           more == LengthsOf(long)
<1>1. n \in Nat /\ DOMAIN t = 1 .. n /\ \A m \in 1 .. n : t[m] \in Texting
  BY LenProperties, ElementOfSeq
<1>2. \A m \in 1 .. n : t[m].len \in Nat \ {0}
  BY <1>1 DEF Texting
<1>3. size \in [1 .. n -> Nat \ {0}] /\ \A m \in 1 .. n : size[m] = t[m].len
  BY <1>1, <1>2 DEF LengthsOf
<1>4. /\ long \in Seq(Texting) /\ Len(long) = n + 1
      /\ \A m \in 1 .. n : long[m] = t[m]
      /\ long[n + 1] = l
  BY AppendProperties
<1>5. DOMAIN long = 1 .. n + 1
  BY <1>4, LenProperties
<1>6. /\ item \in Seq(Places) /\ Len(item) = l.len /\ l.len \in Nat \ {0}
      /\ \A k \in 1 .. l.len : item[k] = <<n + 1, k>>
  <2>1. n + 1 \in Nat \ {0}
    BY <1>1
  <2> HIDE DEF n
  <2> QED BY <2>1, CharactersType
<1>7. more = [m \in 1 .. n + 1 |-> long[m].len]
  BY <1>5 DEF LengthsOf
<1> HIDE DEF n, item, size, long, more
<1>8. /\ more \in [1 .. n + 1 -> Nat \ {0}] /\ more[n + 1] = l.len
      /\ \A m \in 1 .. n : more[m] = size[m]
  <2>1. \A m \in 1 .. n + 1 : more[m] = long[m].len
    BY <1>7
  <2>2. n + 1 \in 1 .. n + 1 /\ \A m \in 1 .. n : m \in 1 .. n + 1
    BY <1>1
  <2>3. ASSUME NEW m \in 1 .. n + 1 PROVE long[m].len \in Nat \ {0}
    <3>1. m \in 1 .. n \/ m = n + 1
      BY <1>1
    <3> QED BY <1>2, <1>4, <1>6, <3>1
  <2> QED BY <1>3, <1>4, <1>7, <2>1, <2>2, <2>3
<1>9. Laid(s, size, n, w)
  BY DEF size, n
<1>10. s \o item \in Seq(Places) /\ s \o item # <<>> /\ Laid(s \o item, more, n + 1, w)
  <2>1. Len(item) = more[n + 1] /\ \A k \in 1 .. Len(item) : item[k] = <<n + 1, k>>
    BY <1>6, <1>8
  <2>2. \A m \in 1 .. n : more[m] = size[m]
    BY <1>8
  <2>3. n \in Nat /\ s \in Seq(Places) /\ item \in Seq(Places)
        /\ size \in [1 .. n -> Nat \ {0}] /\ more \in [1 .. n + 1 -> Nat \ {0}]
    BY <1>1, <1>3, <1>6, <1>8
  <2> QED BY ONLY <1>9, <2>1, <2>2, <2>3, AppendItem
<1> QED BY <1>10 DEF n, item, more, long

LEMMA LinedSends ==
  ASSUME TcpTypeOK, Lined, NEW len \in Lengths, SendsLine(len)
  PROVE  Lined'
<1> DEFINE rest == read_buffer \o stream
           l == Line("message", len)
           n == Len(text)
           w == <<Len(lines) + 1, 1>>
<1>1. /\ client = "lines" /\ text' = Append(text, l) /\ stream' = stream \o Characters(n + 1, l)
      /\ UNCHANGED <<client, protocol, read_buffer, lines>>
  BY DEF SendsLine
<1>2. l \in Texting /\ l.what = "message"
  BY LinesAssumption DEF Line, Texting
<1> HIDE DEF l
<1>3. /\ protocol = "UNKNOWN" /\ \A i \in DOMAIN text : text[i].what = "message"
      /\ rest = <<>> => Len(lines) = n
      /\ rest # <<>> => Laid(rest, Lens, n, w)
      /\ \A i \in DOMAIN lines : i \in DOMAIN text /\ lines[i] = Characters(i, text[i])
  BY <1>1 DEF Lined
<1>4. rest \in Seq(Places) /\ n \in Nat /\ DOMAIN text = 1 .. n
  BY TcpBasics
<1>5. Laid(rest, Lens, n, w)
  <2>1. CASE rest = <<>>
    <3>1. Len(rest) = 0
      BY <2>1
    <3> HIDE DEF rest
    <3> QED BY <1>3, <2>1, <3>1 DEF Laid, Whole, EndsWith
  <2> QED BY <1>3, <2>1
<1>6. /\ text' \in Seq(Texting) /\ Len(text') = n + 1 /\ DOMAIN text' = 1 .. n + 1
      /\ \A m \in 1 .. n : text'[m] = text[m]
      /\ text'[n + 1] = l
  <2>1. text \in Seq(Texting)
    BY DEF TcpTypeOK
  <2>2. /\ text' \in Seq(Texting) /\ Len(text') = n + 1
        /\ \A m \in 1 .. n : text'[m] = text[m]
        /\ text'[n + 1] = l
    BY <1>1, <1>2, <2>1, AppendProperties
  <2> QED BY <2>2, LenProperties
<1> HIDE DEF w
<1>7. read_buffer' \o stream' # <<>> /\ Laid(read_buffer' \o stream', Lens', Len(text'), w)
  <2> DEFINE item == Characters(n + 1, l)
  <2>1. rest \o item # <<>> /\ Laid(rest \o item, LengthsOf(Append(text, l)), n + 1, w)
    <3>1. text \in Seq(Texting) /\ Laid(rest, LengthsOf(text), Len(text), w)
      BY <1>5 DEF TcpTypeOK, Lens, LengthsOf
    <3> HIDE DEF rest
    <3> QED BY ONLY <1>2, <1>4, <3>1, LineMore
  <2>2. read_buffer' \o stream' = read_buffer \o (stream \o item)
    BY <1>1
  <2>3. (read_buffer \o stream) \o item = read_buffer \o (stream \o item)
    <3>1. n + 1 \in Nat \ {0} /\ read_buffer \in Seq(Places) /\ stream \in Seq(Places)
      BY TcpBasics
    <3> HIDE DEF n
    <3>2. item \in Seq(Places)
      BY <1>2, <3>1, CharactersType
    <3> HIDE DEF item
    <3> QED BY ONLY <3>1, <3>2, ConcatAssociative, SMTT(30)
  <2>4. Lens' = LengthsOf(Append(text, l)) /\ Len(text') = n + 1
    BY <1>1, <1>6 DEF Lens, LengthsOf
  <2> HIDE DEF item
  <2> QED BY <2>1, <2>2, <2>3, <2>4
<1> HIDE DEF n, rest
<1>8. ASSUME NEW i \in DOMAIN text' PROVE text'[i].what = "message"
  <2>1. i \in 1 .. n \/ i = n + 1
    BY <1>4, <1>6
  <2> QED BY <1>2, <1>3, <1>4, <1>6, <2>1
<1>9. ASSUME NEW i \in DOMAIN lines
      PROVE  i \in DOMAIN text' /\ lines[i] = Characters(i, text'[i])
  <2>1. i \in 1 .. n
    BY <1>3, <1>4
  <2> QED BY <1>3, <1>4, <1>6, <2>1
<1> QED BY <1>1, <1>3, <1>7, <1>8, <1>9 DEF Lined, w

LEMMA TuplesGrow ==
  ASSUME NEW a \in Texting, NEW b \in Texting, NEW c \in Texting
  PROVE  Append(<<a>>, b) = <<a, b>> /\ Append(<<a, b>>, c) = <<a, b, c>>
<1>1. Append(<<a>>, b) = <<a, b>>
  <2> DEFINE s == Append(<<a>>, b)
             u == <<a, b>>
  <2>1. <<a>> \in Seq(Texting) /\ Len(<<a>>) = 1
    OBVIOUS
  <2>2. /\ s \in Seq(Texting) /\ Len(s) = Len(<<a>>) + 1
        /\ \A i \in 1 .. Len(<<a>>) : s[i] = <<a>>[i]
        /\ s[Len(<<a>>) + 1] = b
    BY <2>1, AppendProperties
  <2>3. Len(s) = 2 /\ s[1] = a /\ s[2] = b
    BY <2>1, <2>2
  <2>4. u \in Seq(Texting) /\ Len(u) = 2 /\ u[1] = a /\ u[2] = b
    OBVIOUS
  <2> HIDE DEF s, u
  <2>5. \A i \in 1 .. Len(s) : s[i] = u[i]
    BY <2>3, <2>4
  <2> QED BY <2>2, <2>3, <2>4, <2>5, SeqEqual DEF s, u
<1>2. Append(<<a, b>>, c) = <<a, b, c>>
  <2> DEFINE s == Append(<<a, b>>, c)
             u == <<a, b, c>>
  <2>1. <<a, b>> \in Seq(Texting) /\ Len(<<a, b>>) = 2
    OBVIOUS
  <2>2. /\ s \in Seq(Texting) /\ Len(s) = Len(<<a, b>>) + 1
        /\ \A i \in 1 .. Len(<<a, b>>) : s[i] = <<a, b>>[i]
        /\ s[Len(<<a, b>>) + 1] = c
    BY <2>1, AppendProperties
  <2>3. Len(s) = 3 /\ s[1] = a /\ s[2] = b /\ s[3] = c
    BY <2>1, <2>2
  <2>4. u \in Seq(Texting) /\ Len(u) = 3 /\ u[1] = a /\ u[2] = b /\ u[3] = c
    OBVIOUS
  <2> HIDE DEF s, u
  <2>5. \A i \in 1 .. Len(s) : s[i] = u[i]
    BY <2>3, <2>4
  <2> QED BY <2>2, <2>3, <2>4, <2>5, SeqEqual DEF s, u
<1> QED BY <1>1, <1>2

LEMMA TwoLines ==
  ASSUME NEW a \in Texting, NEW b \in Texting
  PROVE  LET u == Characters(1, a) \o Characters(2, b) IN
         u \in Seq(Places) /\ u # <<>> /\ Laid(u, LengthsOf(<<a, b>>), 2, <<1, 1>>)
<1> DEFINE u == Characters(1, a)
           v == Characters(2, b)
<1>1. u \in Seq(Places) /\ v \in Seq(Places)
  BY CharactersType
<1>2. Laid(<<>>, LengthsOf(<<>>), Len(<<>>), <<1, 1>>)
  <2>1. Len(<<>>) = 0
    OBVIOUS
  <2> QED BY <2>1 DEF Laid, Whole, EndsWith
<1>3. u # <<>> /\ Laid(u, LengthsOf(<<a>>), 1, <<1, 1>>)
  <2>1. <<>> \in Seq(Texting) /\ <<>> \in Seq(Places) /\ Len(<<>>) = 0
    BY EmptySeq
  <2>2. /\ <<>> \o Characters(Len(<<>>) + 1, a) # <<>>
        /\ Laid(<<>> \o Characters(Len(<<>>) + 1, a), LengthsOf(Append(<<>>, a)),
                Len(<<>>) + 1, <<1, 1>>)
    BY ONLY <1>2, <2>1, a \in Texting, LineMore
  <2>3. Len(<<>>) + 1 = 1 /\ Append(<<>>, a) = <<a>>
    BY <2>1
  <2>4. <<>> \o u = u
    BY <1>1, ConcatEmptySeq
  <2> HIDE DEF u
  <2>5. <<>> \o Characters(Len(<<>>) + 1, a) = u
    BY <2>3, <2>4 DEF u
  <2> QED BY <2>2, <2>3, <2>5
<1>4. u \o v \in Seq(Places) /\ u \o v # <<>> /\ Laid(u \o v, LengthsOf(<<a, b>>), 2, <<1, 1>>)
  <2>1. <<a>> \in Seq(Texting) /\ Len(<<a>>) = 1
    OBVIOUS
  <2> HIDE DEF u
  <2>2. Laid(u, LengthsOf(<<a>>), Len(<<a>>), <<1, 1>>)
    BY <1>3, <2>1
  <2>3. /\ u \o Characters(Len(<<a>>) + 1, b) \in Seq(Places)
        /\ u \o Characters(Len(<<a>>) + 1, b) # <<>>
        /\ Laid(u \o Characters(Len(<<a>>) + 1, b), LengthsOf(Append(<<a>>, b)),
                Len(<<a>>) + 1, <<1, 1>>)
    BY ONLY <1>1, <2>1, <2>2, b \in Texting, LineMore
  <2>4. Len(<<a>>) + 1 = 2 /\ Append(<<a>>, b) = <<a, b>>
    <3>1. Append(<<a>>, b) = <<a, b>>
      BY ONLY a \in Texting, b \in Texting, TuplesGrow, Zenon
    <3> QED BY <2>1, <3>1
  <2> QED BY <2>3, <2>4
<1> QED BY <1>4

LEMMA ThreeLines ==
  ASSUME NEW a \in Texting, NEW b \in Texting, NEW c \in Texting
  PROVE  LET u == Characters(1, a) \o Characters(2, b) \o Characters(3, c) IN
         u \in Seq(Places) /\ u # <<>> /\ Laid(u, LengthsOf(<<a, b, c>>), 3, <<1, 1>>)
<1> DEFINE u == Characters(1, a) \o Characters(2, b)
<1>1. u \in Seq(Places) /\ Laid(u, LengthsOf(<<a, b>>), 2, <<1, 1>>)
  BY TwoLines
<1>2. <<a, b>> \in Seq(Texting) /\ Len(<<a, b>>) = 2
  OBVIOUS
<1> HIDE DEF u
<1>3. Laid(u, LengthsOf(<<a, b>>), Len(<<a, b>>), <<1, 1>>)
  BY <1>1, <1>2
<1>4. /\ u \o Characters(Len(<<a, b>>) + 1, c) \in Seq(Places)
      /\ u \o Characters(Len(<<a, b>>) + 1, c) # <<>>
      /\ Laid(u \o Characters(Len(<<a, b>>) + 1, c), LengthsOf(Append(<<a, b>>, c)),
              Len(<<a, b>>) + 1, <<1, 1>>)
  BY ONLY <1>1, <1>2, <1>3, c \in Texting, LineMore
<1>5. Len(<<a, b>>) + 1 = 3 /\ Append(<<a, b>>, c) = <<a, b, c>>
  <2>1. Append(<<a, b>>, c) = <<a, b, c>>
    BY ONLY a \in Texting, b \in Texting, c \in Texting, TuplesGrow, Zenon
  <2> QED BY <1>2, <2>1
<1> QED BY <1>4, <1>5 DEF u

LEMMA LinedRequest ==
  ASSUME TcpTypeOK, Lined, SendsRequest
  PROVE  Lined'
<1> DEFINE rest == read_buffer \o stream
           up == Line("upgrade", 2)
           key == Line("key", 1)
           metrics == Line("metrics", 2)
           blank == Line("blank", 1)
<1>1. up \in Texting /\ key \in Texting /\ metrics \in Texting /\ blank \in Texting
  BY DEF Line, Texting
<1>2. up.what # "blank" /\ key.what # "blank" /\ metrics.what # "blank"
  BY DEF Line
<1> HIDE DEF up, key, metrics, blank
<1>3. /\ client # "lines" /\ text = <<>>
      /\ text' = IF client = "browser" THEN <<up, key, blank>> ELSE <<metrics, blank>>
      /\ stream' = IF client = "browser"
                     THEN Characters(1, up) \o Characters(2, key) \o Characters(3, blank)
                     ELSE Characters(1, metrics) \o Characters(2, blank)
      /\ UNCHANGED <<client, protocol, read_buffer, lines>>
  BY DEF SendsRequest, Upgrade, Metrics, up, key, metrics, blank
<1>4. /\ rest \in Seq(Places) /\ Len(rest) = Len(read_buffer) + Len(stream)
      /\ Len(read_buffer) \in Nat /\ Len(stream) \in Nat /\ read_buffer \in Seq(Places)
      /\ Len(lines) \in Nat /\ DOMAIN lines = 1 .. Len(lines)
      /\ DOMAIN text = 1 .. Len(text)
      /\ Lens \in [1 .. Len(text) -> Nat \ {0}]
  BY TcpBasics
<1>5. Len(text) = 0
  BY <1>3
<1>6. rest = <<>>
  <2> SUFFICES ASSUME rest # <<>> PROVE FALSE
    OBVIOUS
  <2>1. Whole(rest, Lens)
    BY DEF Lined, Laid
  <2> HIDE DEF rest
  <2>2. 1 \in 1 .. Len(rest)
    BY <1>4, EmptySeq
  <2>3. rest[1][1] \in DOMAIN Lens
    BY <2>1, <2>2 DEF Whole
  <2> QED BY <1>4, <1>5, <2>3
<1>7. read_buffer = <<>>
  <2>1. Len(rest) = 0
    BY <1>6
  <2>2. Len(read_buffer) = 0
    BY <1>4, <2>1
  <2> QED BY <1>4, <2>2, EmptySeq
<1>8. Len(lines) = 0
  <2>1. \A i \in DOMAIN lines : i \in DOMAIN text
    BY DEF Lined
  <2>2. ~(1 \in DOMAIN lines)
    BY <1>4, <1>5, <2>1
  <2> QED BY <1>4, <2>2
<1>9. stream' \in Seq(Places) /\ stream' # <<>>
      /\ Laid(stream', Lens', Len(text'), <<1, 1>>)
  <2>1. CASE client = "browser"
    <3>1. Len(text') = 3 /\ Lens' = LengthsOf(<<up, key, blank>>)
      BY <1>3, <2>1 DEF Lens, LengthsOf
    <3> QED BY <1>1, <1>3, <2>1, <3>1, ThreeLines
  <2>2. CASE client # "browser"
    <3>1. Len(text') = 2 /\ Lens' = LengthsOf(<<metrics, blank>>)
      BY <1>3, <2>2 DEF Lens, LengthsOf
    <3> QED BY <1>1, <1>3, <2>2, <3>1, TwoLines
  <2> QED BY <2>1, <2>2
<1>10. read_buffer' \o stream' = stream'
  BY <1>3, <1>7, <1>9, ConcatEmptySeq
<1>11. ASSUME NEW i \in DOMAIN text', text'[i].what = "blank"
       PROVE  i = Len(text')
  <2>1. CASE client = "browser"
    <3>1. i \in {1, 2, 3} /\ text'[1] = up /\ text'[2] = key /\ Len(text') = 3
      BY <1>3, <1>11, <2>1
    <3> QED BY <1>2, <1>11, <3>1
  <2>2. CASE client # "browser"
    <3>1. i \in {1, 2} /\ text'[1] = metrics /\ Len(text') = 2
      BY <1>3, <1>11, <2>2
    <3> QED BY <1>2, <1>11, <3>1
  <2> QED BY <2>1, <2>2
<1>12. \A i \in DOMAIN lines' : FALSE
  BY <1>3, <1>4, <1>8
<1>13. Len(lines') + 1 = 1
  BY <1>3, <1>8
<1> HIDE DEF rest
<1> QED BY <1>3, <1>9, <1>10, <1>11, <1>12, <1>13 DEF Lined

LEMMA LinedStep ==
  ASSUME TcpTypeOK, Lined, [ConnectionNext]_allVars
  PROVE  Lined'
<1>1. CASE TcpRead
  BY <1>1, LinedRead
<1>2. CASE AnswerMetrics
  BY <1>2, LinedTaken DEF AnswerMetrics, Scrape, HeaderEnd
<1>3. CASE UpgradeDone
  <2>1. Has("blank") /\ Has("upgrade") /\ client # "lines"
    <3>1. Has("blank") /\ Has("upgrade")
      BY <1>3 DEF UpgradeDone, Handshake, HeaderEnd
    <3>2. PICK i \in DOMAIN text : text[i].what = "upgrade"
      BY <3>1 DEF Has
    <3> QED BY <3>1, <3>2 DEF Lined
  <2>2. stream = <<>>
    BY <2>1, RequestIsAll
  <2>3. read_buffer' \o stream' = <<>>
    BY <1>3, <2>2, EmptySeq, ConcatEmptySeq DEF UpgradeDone
  <2> QED BY <1>3, <2>1, <2>3 DEF Lined, UpgradeDone
<1>4. CASE UpgradeFails
  BY <1>4, LinedTaken DEF UpgradeFails, Handshake, HeaderEnd
<1>5. CASE NextLine
  BY <1>5, LinedNext
<1>6. CASE NoRequest \/ LinesDone \/ TcpDisconnect
  BY <1>6, SameLines DEF NoRequest, LinesDone, TcpDisconnect, tcp
<1>7. CASE SendsRequest
  BY <1>7, LinedRequest
<1>8. ASSUME NEW len \in Lengths, SendsLine(len) PROVE Lined'
  BY <1>8, LinedSends
<1>9. CASE UNCHANGED tcp
  BY <1>9, SameLines DEF tcp
<1> QED BY <1>1, <1>2, <1>3, <1>4, <1>5, <1>6, <1>7, <1>8, <1>9
        DEF ConnectionNext, TcpStep, allVars

-----------------------------------------------------------------------------
(* Types, frames and lines *)

\* The invariant behind all of it.
Reading == Parsed /\ TcpTypeOK /\ Lined

LEMMA ReadingInit ==
  ASSUME ConnectionInit
  PROVE  Reading
<1>1. /\ sent = <<>> /\ wire = <<>> /\ buffer = <<>> /\ state = reset
      /\ fragments = <<>> /\ taken = <<>> /\ handled = <<>> /\ open = TRUE /\ pc = "wait"
      /\ text = <<>> /\ stream = <<>> /\ read_buffer = <<>> /\ lines = <<>>
      /\ protocol = "UNKNOWN" /\ reading = "no" /\ client \in {"lines", "browser", "scraper"}
  BY DEF ConnectionInit, Init
<1>2. <<>> \o <<>> = <<>> /\ Len(<<>>) = 0 /\ DOMAIN <<>> = {}
  BY EmptySeq, ConcatEmptySeq
<1>3. TypeOK
  <2>1. /\ state \in [stage : Stages, op : Opcodes \cup {"none"}, fin : BOOLEAN,
                      length : Nat, needed : Nat, consumed : Nat]
        /\ state.consumed <= state.needed
    BY <1>1 DEF reset, Stages
  <2>2. /\ <<>> \in Seq(Frames) /\ <<>> \in Seq(Byte)
        /\ <<>> \in Seq(Part) /\ <<>> \in Seq(Seq(Part)) /\ 0 <= MaxFrames
    BY EmptySeq, FramesAssumption
  <2> QED BY <1>1, <1>2, <2>1, <2>2 DEF TypeOK
<1>4. TcpTypeOK
  BY <1>1, EmptySeq DEF TcpTypeOK
<1>5. Framed
  <2>1. Where = <<1, 1>>
    BY <1>1, <1>2, WhereIsAt, AtHeader DEF reset, Current
  <2> QED BY <1>1, <1>2, <2>1 DEF Framed, Laid, Whole, EndsWith
<1>6. Staged /\ Returned
  BY <1>1, <1>2 DEF Staged, Returned, FramesInOrder, reset
<1>7. Lined
  BY <1>1, <1>2 DEF Lined
<1> QED BY <1>3, <1>4, <1>5, <1>6, <1>7 DEF Reading, Parsed

LEMMA ReadingStep ==
  ASSUME Reading, [ConnectionNext]_allVars
  PROVE  Reading'
<1>1. TcpTypeOK' /\ open' \in BOOLEAN
  BY TcpTypeStep DEF Reading, Parsed, TypeOK
<1>2. Parsed'
  BY <1>1, ParsedStep DEF Reading
<1>3. Lined'
  BY LinedStep DEF Reading
<1> QED BY <1>1, <1>2, <1>3 DEF Reading

LEMMA AlwaysReading == ConnectionSpec => []Reading
<1>1. ConnectionInit => Reading
  BY ReadingInit
<1>2. Reading /\ [ConnectionNext]_allVars => Reading'
  BY ReadingStep
<1> QED BY <1>1, <1>2, PTL DEF ConnectionSpec

\* Every variable of the connection and of its parser keeps its type.
THEOREM ReaderTypeCorrect == ConnectionSpec => []ConnectionTypeOK
<1>1. Reading => ConnectionTypeOK
  BY DEF Reading, Parsed, TcpTypeOK, ConnectionTypeOK, Texting
<1> QED BY <1>1, AlwaysReading, PTL

\* tryParseFrame never loses the frame boundaries, however read(2) cuts the bytes:
\* what is next is where the parser is, in the frame whose header it holds.
THEOREM ParserInStep == ConnectionSpec => []InStep
<1>1. Reading => InStep
  <2> SUFFICES ASSUME Reading PROVE InStep
    OBVIOUS
  <2>1. TypeOK /\ Framed /\ Staged
    BY DEF Reading, Parsed
  <2>2. buffer \o wire \in Seq(Places)
    BY <2>1, BytesType
  <2>3. ASSUME buffer \o wire # <<>>
        PROVE  Head(buffer \o wire) = Where
    <3>1. (buffer \o wire)[1] = Where
      BY <2>1, <2>3 DEF Framed, Laid
    <3>2. Head(buffer \o wire) = (buffer \o wire)[1]
      BY <2>2, <2>3, HeadTailProperties
    <3> QED BY <3>1, <3>2
  <2> QED BY <2>1, <2>3 DEF InStep, Where, Staged
<1> QED BY <1>1, AlwaysReading, PTL

\* Lines are handed on whole and in order (handleTcpRead), and frames are
\* returned in order, none that the parser cannot measure (tryParseFrame).
THEOREM InputHandedOn == ConnectionSpec => []InputInOrder
<1>1. Reading => InputInOrder
  BY DEF Reading, Parsed, Lined, Returned, InputInOrder
<1> QED BY <1>1, AlwaysReading, PTL

-----------------------------------------------------------------------------
(* Messages *)

LEMMA DataFacts ==
  ASSUME TypeOK
  PROVE  /\ DataFrames \subseteq 1 .. Len(sent) /\ Len(sent) \in Nat
         /\ IsFiniteSet(DataFrames)
         /\ IsFiniteSet(Texts) /\ Cardinality(Texts) \in Nat
         /\ \A i : IsFiniteSet(Finals(i)) /\ Cardinality(Finals(i)) \in Nat
         /\ \A i, j : Finals(i) \subseteq Finals(j) =>
                        Cardinality(Finals(i)) <= Cardinality(Finals(j))
<1>1. DataFrames \subseteq 1 .. Len(sent) /\ Len(sent) \in Nat
  BY SizesType DEF DataFrames
<1>2. IsFiniteSet(DataFrames)
  <2>1. IsFiniteSet(1 .. Len(sent))
    BY <1>1, FS_Interval
  <2> QED BY <1>1, <2>1, FS_Subset
<1>3. IsFiniteSet(Texts) /\ Cardinality(Texts) \in Nat
  <2>1. Texts \subseteq DataFrames
    BY DEF Texts
  <2>2. IsFiniteSet(Texts)
    BY <1>2, <2>1, FS_Subset
  <2> QED BY <2>2, FS_CardinalityType
<1>4. ASSUME NEW i
      PROVE  IsFiniteSet(Finals(i)) /\ Cardinality(Finals(i)) \in Nat
  <2>1. Finals(i) \subseteq DataFrames
    BY DEF Finals
  <2>2. IsFiniteSet(Finals(i))
    BY <1>2, <2>1, FS_Subset
  <2> QED BY <2>2, FS_CardinalityType
<1>5. ASSUME NEW i, NEW j, Finals(i) \subseteq Finals(j)
      PROVE  Cardinality(Finals(i)) <= Cardinality(Finals(j))
  <2> DEFINE S == Finals(i)
             T == Finals(j)
  <2>1. IsFiniteSet(T) /\ S \subseteq T
    BY <1>4, <1>5
  <2> HIDE DEF S, T
  <2>2. Cardinality(S) <= Cardinality(T)
    BY <2>1, FS_Subset
  <2> QED BY <2>2 DEF S, T
<1> QED BY <1>1, <1>2, <1>3, <1>4, <1>5

LEMMA FromAppend ==
  ASSUME NEW parts \in Seq(Part), NEW part \in Part, NEW c \in Nat, part.frame = c,
         InOrderOf(parts), \A f \in From(parts) : f < c
  PROVE  /\ From(Append(parts, part)) = From(parts) \cup {c}
         /\ InOrderOf(Append(parts, part))
<1> DEFINE u == Append(parts, part)
           n == Len(parts)
<1>1. /\ u \in Seq(Part) /\ Len(u) = n + 1 /\ n \in Nat
      /\ \A j \in 1 .. n : u[j] = parts[j]
      /\ u[n + 1] = part
  BY AppendProperties, LenProperties
<1>2. DOMAIN u = 1 .. n + 1 /\ DOMAIN parts = 1 .. n
  BY <1>1, LenProperties
<1> HIDE DEF u, n
<1>3. /\ \A j \in 1 .. n : u[j].frame = parts[j].frame /\ parts[j].frame \in From(parts)
      /\ u[n + 1].frame = c
      /\ \A j \in 1 .. n + 1 : j \in 1 .. n \/ j = n + 1
      /\ n + 1 \in 1 .. n + 1 /\ \A j \in 1 .. n : j \in 1 .. n + 1
  BY <1>1, <1>2 DEF From
<1>4. From(u) = From(parts) \cup {c}
  <2>1. ASSUME NEW f \in From(u) PROVE f \in From(parts) \cup {c}
    <3>1. PICK j \in 1 .. n + 1 : f = u[j].frame
      BY <1>2 DEF From
    <3> QED BY <1>3, <3>1
  <2>2. ASSUME NEW f \in From(parts) PROVE f \in From(u)
    <3>1. PICK j \in 1 .. n : f = parts[j].frame
      BY <1>2 DEF From
    <3> QED BY <1>2, <1>3, <3>1 DEF From
  <2>3. c \in From(u)
    BY <1>2, <1>3 DEF From
  <2> QED BY <2>1, <2>2, <2>3
<1>5. InOrderOf(u)
  <2> SUFFICES ASSUME NEW j \in 1 .. n + 1, NEW k \in 1 .. n + 1, j < k
               PROVE  u[j].frame < u[k].frame
    BY <1>2 DEF InOrderOf
  <2>1. j \in 1 .. n
    BY <1>1
  <2>2. CASE k \in 1 .. n
    BY <1>2, <1>3, <2>1, <2>2 DEF InOrderOf
  <2>3. CASE k = n + 1
    BY <1>3, <2>1, <2>3
  <2> QED BY <1>3, <2>2, <2>3
<1> QED BY <1>4, <1>5 DEF u

\* What ends before a frame ends before a later one, and one more if it ends one itself.
LEMMA FinalsGrow ==
  ASSUME TypeOK
  PROVE  /\ \A i, j \in Nat : i <= j => Cardinality(Finals(i)) <= Cardinality(Finals(j))
         /\ \A i \in Nat :
              /\ i \in DataFrames /\ sent[i].fin =>
                   Cardinality(Finals(i + 1)) = Cardinality(Finals(i)) + 1
              /\ ~(i \in DataFrames /\ sent[i].fin) =>
                   Cardinality(Finals(i + 1)) = Cardinality(Finals(i))
<1>1. /\ \A i : IsFiniteSet(Finals(i)) /\ Cardinality(Finals(i)) \in Nat
      /\ \A i, j : Finals(i) \subseteq Finals(j) =>
                     Cardinality(Finals(i)) <= Cardinality(Finals(j))
      /\ \A i \in DataFrames : i \in Nat
  BY DataFacts
<1>2. ASSUME NEW i \in Nat, NEW j \in Nat, i <= j
      PROVE  Cardinality(Finals(i)) <= Cardinality(Finals(j))
  <2>1. Finals(i) \subseteq Finals(j)
    BY <1>1, <1>2 DEF Finals
  <2> QED BY <1>1, <2>1
<1>3. ASSUME NEW i \in Nat, i \in DataFrames, sent[i].fin
      PROVE  Cardinality(Finals(i + 1)) = Cardinality(Finals(i)) + 1
  <2>1. Finals(i + 1) = Finals(i) \cup {i} /\ i \notin Finals(i)
    <3>1. \A k \in DataFrames : k < i + 1 <=> k < i \/ k = i
      BY <1>1
    <3>2. ~(i < i)
      OBVIOUS
    <3> QED BY <1>3, <3>1, <3>2 DEF Finals
  <2> QED BY <1>1, <2>1, FS_AddElement
<1>4. ASSUME NEW i \in Nat, ~(i \in DataFrames /\ sent[i].fin)
      PROVE  Cardinality(Finals(i + 1)) = Cardinality(Finals(i))
  <2>1. Finals(i + 1) = Finals(i)
    BY <1>1, <1>4 DEF Finals
  <2> QED BY <2>1
<1> QED BY <1>2, <1>3, <1>4

\* A frame that is returned.
LEMMA ReassembledComplete ==
  ASSUME Parsed, InTurns, Reassembled, FrameComplete
  PROVE  Reassembled'
<1> DEFINE c == Current
           L == Len(handled)
           part == Got
<1>1. TypeOK
  BY DEF Parsed
<1>2. /\ c \in 1 .. Len(sent) /\ Len(sent) \in Nat /\ part \in Part /\ part.frame = c
      /\ state.op = sent[c].op /\ state.fin = sent[c].fin
      /\ Len(taken') = c
  BY <1>1, CompleteFacts, SizesType
<1>3. sent' = sent
  BY DEF FrameComplete
<1>4. DataFrames' = DataFrames /\ Current' = c + 1
  BY <1>2, <1>3 DEF DataFrames, Current
<1>5. /\ \A i : Cardinality(Finals(i)) \in Nat
      /\ \A i \in DataFrames : i \in Nat /\ MessageOf(i) = Cardinality(Finals(i)) + 1
  BY <1>1, DataFacts DEF InTurns
<1>6. /\ L = Cardinality(Finals(c))
      /\ From(fragments) = {i \in DataFrames : i < c /\ MessageOf(i) = L + 1}
      /\ InOrderOf(fragments)
      /\ \A m \in DOMAIN handled :
           From(handled[m]) = {i \in DataFrames : MessageOf(i) = m} /\ InOrderOf(handled[m])
  BY DEF Reassembled, WholeMessages, From, InOrderOf
<1>7. /\ fragments \in Seq(Part) /\ handled \in Seq(Seq(Part)) /\ L \in Nat
      /\ DOMAIN handled = 1 .. L
  BY <1>1, LenProperties DEF TypeOK
<1>8. c \in DataFrames <=> sent[c].op \notin Control
  BY <1>1, <1>2, SizesType DEF DataFrames
<1>9. c \in Nat /\ c + 1 \in Nat
  BY <1>2
<1>10. /\ \A i, j \in Nat : i <= j => Cardinality(Finals(i)) <= Cardinality(Finals(j))
       /\ c \in DataFrames /\ sent[c].fin =>
            Cardinality(Finals(c + 1)) = Cardinality(Finals(c)) + 1
       /\ ~(c \in DataFrames /\ sent[c].fin) =>
            Cardinality(Finals(c + 1)) = Cardinality(Finals(c))
  <2> HIDE DEF c
  <2> QED BY <1>1, <1>9, FinalsGrow
<1>11. /\ sent[c].op \in Control => fragments' = fragments /\ handled' = handled
       /\ sent[c].op \notin Control /\ sent[c].fin =>
            handled' = Append(handled, Append(fragments, part)) /\ fragments' = <<>>
       /\ sent[c].op \notin Control /\ ~sent[c].fin =>
            fragments' = Append(fragments, part) /\ handled' = handled
  BY <1>2 DEF FrameComplete, Reassemble
<1>12. \A i \in DataFrames : MessageOf(i)' = MessageOf(i)
  BY <1>3, <1>4 DEF MessageOf
<1>13. Finals(Current)' = Finals(c + 1)
  BY <1>3, <1>4 DEF Finals
<1> HIDE DEF c, L, part
<1>14. ASSUME /\ Len(handled') = Cardinality(Finals(c + 1))
              /\ From(fragments') = {i \in DataFrames : i < c + 1 /\ MessageOf(i) = Len(handled') + 1}
              /\ InOrderOf(fragments'),
              \A m \in DOMAIN handled' :
                 From(handled'[m]) = {i \in DataFrames : MessageOf(i) = m} /\ InOrderOf(handled'[m])
       PROVE  Reassembled'
  <2>1. (Len(handled) = Cardinality(Finals(Current)))'
    BY <1>13, <1>14
  <2>2. (From(fragments) = {i \in DataFrames : i < Current /\ MessageOf(i) = Len(handled) + 1})'
    <3>1. {i \in DataFrames : i < Current /\ MessageOf(i) = Len(handled) + 1}'
             = {i \in DataFrames : i < c + 1 /\ MessageOf(i) = Len(handled') + 1}
      BY <1>4, <1>12
    <3> QED BY <1>14, <3>1
  <2>3. WholeMessages'
    <3>1. ASSUME NEW m \in DOMAIN handled'
          PROVE  /\ From(handled'[m]) = {i \in DataFrames' : MessageOf(i)' = m}
                 /\ InOrderOf(handled'[m])
      <4>1. {i \in DataFrames' : MessageOf(i)' = m} = {i \in DataFrames : MessageOf(i) = m}
        BY <1>4, <1>12
      <4> QED BY <1>14, <4>1
    <3> QED BY <3>1 DEF WholeMessages, From, InOrderOf
  <2>4. InOrderOf(fragments)'
    BY <1>14
  <2> QED BY <2>1, <2>2, <2>3, <2>4 DEF Reassembled
<1>15. \A f \in From(fragments) : f < c
  BY <1>6
<1>16. /\ From(Append(fragments, part)) = From(fragments) \cup {c}
       /\ InOrderOf(Append(fragments, part))
  BY <1>2, <1>6, <1>7, <1>9, <1>15, FromAppend
<1>17. CASE sent[c].op \in Control
  <2>1. c \notin DataFrames /\ fragments' = fragments /\ handled' = handled
    BY <1>8, <1>11, <1>17
  <2>2. Cardinality(Finals(c + 1)) = L
    BY <1>6, <1>10, <2>1
  <2>3. \A i \in DataFrames : i < c + 1 <=> i < c
    BY <1>5, <1>9, <2>1
  <2>4. {i \in DataFrames : i < c + 1 /\ MessageOf(i) = L + 1}
          = {i \in DataFrames : i < c /\ MessageOf(i) = L + 1}
    BY <2>3
  <2>5. Len(handled') = L
    BY <2>1 DEF L
  <2> QED BY <1>6, <1>14, <2>1, <2>2, <2>4, <2>5
<1>18. CASE sent[c].op \notin Control /\ ~sent[c].fin
  <2>1. c \in DataFrames /\ fragments' = Append(fragments, part) /\ handled' = handled
    BY <1>8, <1>11, <1>18
  <2>2. Cardinality(Finals(c + 1)) = L /\ MessageOf(c) = L + 1
    BY <1>5, <1>6, <1>10, <1>18, <2>1
  <2>3. \A i \in DataFrames : i < c + 1 <=> i < c \/ i = c
    BY <1>5, <1>9
  <2>4. {i \in DataFrames : i < c + 1 /\ MessageOf(i) = L + 1}
          = {i \in DataFrames : i < c /\ MessageOf(i) = L + 1} \cup {c}
    BY <2>1, <2>2, <2>3
  <2>5. Len(handled') = L
    BY <2>1 DEF L
  <2> QED BY <1>6, <1>14, <1>16, <2>1, <2>2, <2>4, <2>5
<1>19. CASE sent[c].op \notin Control /\ sent[c].fin
  <2> DEFINE all == Append(fragments, part)
  <2>1. c \in DataFrames /\ fragments' = <<>> /\ handled' = Append(handled, all)
    BY <1>8, <1>11, <1>19
  <2>2. all \in Seq(Part)
    BY <1>2, <1>7, AppendProperties
  <2> HIDE DEF all
  <2>3. /\ Len(handled') = L + 1 /\ DOMAIN handled' = 1 .. L + 1
        /\ \A m \in 1 .. L : handled'[m] = handled[m]
        /\ handled'[L + 1] = all
    <3>1. /\ handled' \in Seq(Seq(Part)) /\ Len(handled') = Len(handled) + 1
          /\ \A m \in 1 .. Len(handled) : handled'[m] = handled[m]
          /\ handled'[Len(handled) + 1] = all
      BY <1>7, <2>1, <2>2, AppendProperties
    <3>2. DOMAIN handled' = 1 .. Len(handled')
      BY <3>1, LenProperties
    <3> QED BY <3>1, <3>2 DEF L
  <2>4. Cardinality(Finals(c + 1)) = L + 1 /\ MessageOf(c) = L + 1
    BY <1>5, <1>6, <1>10, <1>19, <2>1
  <2>5. ASSUME NEW i \in DataFrames
        PROVE  /\ MessageOf(i) = L + 1 => i < c \/ i = c
               /\ MessageOf(i) = L + 1 + 1 => ~(i < c + 1)
    <3>1. i \in Nat /\ MessageOf(i) = Cardinality(Finals(i)) + 1 /\ Cardinality(Finals(i)) \in Nat
      BY <1>5
    <3>2. i <= c => Cardinality(Finals(i)) <= L
      BY <1>6, <1>9, <1>10, <3>1
    <3>3. i > c => L + 1 <= Cardinality(Finals(i))
      <4>1. i > c => c + 1 <= i
        BY <1>9, <3>1
      <4> QED BY <1>9, <1>10, <2>4, <3>1, <4>1
    <3> QED BY <1>7, <1>9, <3>1, <3>2, <3>3
  <2>6. From(all) = {i \in DataFrames : MessageOf(i) = L + 1} /\ InOrderOf(all)
    <3>1. \A i \in DataFrames : MessageOf(i) = L + 1 <=> (i < c /\ MessageOf(i) = L + 1) \/ i = c
      BY <2>4, <2>5
    <3>2. {i \in DataFrames : MessageOf(i) = L + 1}
            = {i \in DataFrames : i < c /\ MessageOf(i) = L + 1} \cup {c}
      BY <2>1, <3>1
    <3> QED BY <1>6, <1>16, <3>2 DEF all
  <2>7. \A m \in DOMAIN handled' :
           From(handled'[m]) = {i \in DataFrames : MessageOf(i) = m} /\ InOrderOf(handled'[m])
    <3> SUFFICES ASSUME NEW m \in 1 .. L + 1
                 PROVE  /\ From(handled'[m]) = {i \in DataFrames : MessageOf(i) = m}
                        /\ InOrderOf(handled'[m])
      BY <2>3
    <3>1. CASE m = L + 1
      BY <2>3, <2>6, <3>1
    <3>2. CASE m \in 1 .. L
      BY <1>6, <1>7, <2>3, <3>2
    <3> QED BY <1>7, <3>1, <3>2
  <2>8. From(fragments') = {i \in DataFrames : i < c + 1 /\ MessageOf(i) = Len(handled') + 1}
    <3>1. From(fragments') = {}
      BY <2>1 DEF From
    <3>2. ASSUME NEW i \in DataFrames, i < c + 1, MessageOf(i) = Len(handled') + 1
          PROVE  FALSE
      BY <2>3, <2>5, <3>2
    <3> QED BY <3>1, <3>2
  <2>9. InOrderOf(fragments')
    BY <2>1 DEF InOrderOf
  <2> QED BY <1>14, <2>3, <2>4, <2>7, <2>8, <2>9
<1> QED BY <1>17, <1>18, <1>19

\* A frame more: what is about the frames before it stays.
LEMMA FrameMore ==
  ASSUME Parsed, NEW fr \in Frames, ClientSends(fr)
  PROVE  LET n == Len(sent) IN
         /\ n \in Nat /\ Len(sent') = n + 1 /\ sent'[n + 1] = fr
         /\ DataFrames \subseteq 1 .. n
         /\ DataFrames' = IF fr.op \in Control THEN DataFrames ELSE DataFrames \cup {n + 1}
         /\ \A i \in 1 .. n : sent'[i] = sent[i]
         /\ \A i \in 1 .. n + 1 : Finals(i)' = Finals(i)
         /\ \A i \in 1 .. n : MessageOf(i)' = MessageOf(i)
<1> DEFINE n == Len(sent)
<1>1. TypeOK /\ sent' = Append(sent, fr)
  BY DEF Parsed, ClientSends
<1>2. n \in Nat /\ DOMAIN sent = 1 .. n /\ DataFrames \subseteq 1 .. n /\ sent \in Seq(Frames)
  BY <1>1, DataFacts, SizesType DEF TypeOK
<1>3. /\ Len(sent') = n + 1 /\ DOMAIN sent' = 1 .. n + 1
      /\ \A i \in 1 .. n : sent'[i] = sent[i]
      /\ sent'[n + 1] = fr
  <2>1. /\ sent' \in Seq(Frames) /\ Len(sent') = n + 1
        /\ \A i \in 1 .. n : sent'[i] = sent[i]
        /\ sent'[n + 1] = fr
    BY <1>1, <1>2, AppendProperties
  <2> QED BY <2>1, LenProperties
<1> HIDE DEF n
<1>4. \A i \in 1 .. n + 1 : i \in 1 .. n \/ i = n + 1
  BY <1>2
<1>5. (\A i \in 1 .. n : i \in 1 .. n + 1) /\ n + 1 \in 1 .. n + 1 /\ n + 1 \notin 1 .. n
  BY <1>2
<1>6. DataFrames' = IF fr.op \in Control THEN DataFrames ELSE DataFrames \cup {n + 1}
  <2>1. /\ DataFrames = {i \in 1 .. n : sent[i].op \notin Control}
        /\ DataFrames' = {i \in 1 .. n + 1 : sent'[i].op \notin Control}
    BY <1>2, <1>3 DEF DataFrames
  <2> QED BY <1>3, <1>4, <1>5, <2>1
<1>7. \A j \in DataFrames' : j \in DataFrames \/ j = n + 1
  BY <1>6
<1>8. \A j \in DataFrames : j \in DataFrames' /\ sent'[j] = sent[j]
  BY <1>2, <1>3, <1>6
<1>9. ASSUME NEW i \in 1 .. n + 1
      PROVE  Finals(i)' = Finals(i)
  <2>1. ~(n + 1 < i)
    BY <1>2
  <2>2. {j \in DataFrames' : j < i /\ sent'[j].fin} = {j \in DataFrames : j < i /\ sent[j].fin}
    BY <1>7, <1>8, <2>1
  <2> QED BY <2>2 DEF Finals
<1>10. ASSUME NEW i \in 1 .. n
       PROVE  MessageOf(i)' = MessageOf(i)
  <2>1. ~(n + 1 <= i)
    BY <1>2
  <2>2. {j \in DataFrames' : j <= i /\ sent'[j].op = "text"}
          = {j \in DataFrames : j <= i /\ sent[j].op = "text"}
    BY <1>7, <1>8, <2>1
  <2> QED BY <2>2 DEF MessageOf
<1> QED BY <1>2, <1>3, <1>6, <1>9, <1>10 DEF n

LEMMA TurnsSends ==
  ASSUME Parsed, InTurns, NEW fr \in Frames, ClientSends(fr)
  PROVE  InTurns'
<1> DEFINE n == Len(sent)
           T == Cardinality(Texts)
           F == Cardinality(Finals(n + 1))
<1>1. TypeOK
  BY DEF Parsed
<1>2. /\ n \in Nat /\ Len(sent') = n + 1 /\ sent'[n + 1] = fr
      /\ DataFrames \subseteq 1 .. n
      /\ DataFrames' = IF fr.op \in Control THEN DataFrames ELSE DataFrames \cup {n + 1}
      /\ \A i \in 1 .. n : sent'[i] = sent[i]
      /\ \A i \in 1 .. n + 1 : Finals(i)' = Finals(i)
      /\ \A i \in 1 .. n : MessageOf(i)' = MessageOf(i)
  BY FrameMore
<1>3. /\ IsFiniteSet(Texts) /\ T \in Nat /\ IsFiniteSet(Finals(n + 1)) /\ F \in Nat
      /\ Texts \subseteq DataFrames
  BY <1>1, DataFacts DEF Texts
<1>4. /\ T = F + IF Unfinished THEN 1 ELSE 0
      /\ \A i \in DataFrames : MessageOf(i) = Cardinality(Finals(i)) + 1
  BY DEF InTurns
<1>5. Texts' = {i \in DataFrames' : sent'[i].op = "text"}
  BY DEF Texts
<1>6. Finals(Len(sent) + 1)' = {i \in DataFrames' : i < n + 2 /\ sent'[i].fin}
  <2>1. Len(sent') + 1 = n + 2
    BY <1>2
  <2> HIDE DEF n
  <2> QED BY <2>1 DEF Finals
<1>7. Unfinished' <=> \E i \in DataFrames' : ~sent'[i].fin /\ \A j \in DataFrames' : j <= i
  BY DEF Unfinished
<1>8. fr.op \in Opcodes /\ fr.fin \in BOOLEAN
  BY FrameFacts
<1>9. IF fr.op \in Control THEN fr.fin ELSE fr.op = "cont" <=> Unfinished
  BY DEF ClientSends, InTurn
<1> DEFINE E == Finals(n + 1)
<1>10. E = {i \in DataFrames : i < n + 1 /\ sent[i].fin}
  BY DEF Finals
<1>11. \A i \in DataFrames : /\ i \in Nat /\ i < n + 1 /\ i < n + 2 /\ i <= n + 1 /\ i # n + 1
                             /\ i \in 1 .. n /\ ~(n + 1 <= i)
                             /\ sent'[i] = sent[i]
  BY <1>2
<1>12. n + 1 <= n + 1 /\ n + 1 < n + 2
  BY <1>2
<1> HIDE DEF n, T, F, E
<1>13. ASSUME Cardinality(Texts') = Cardinality(Finals(Len(sent) + 1)') + IF Unfinished' THEN 1 ELSE 0,
              \A i : i = n + 1 /\ fr.op \notin Control =>
                     MessageOf(i)' = Cardinality(Finals(i)) + 1
       PROVE  InTurns'
  <2>1. ASSUME NEW i \in DataFrames' PROVE MessageOf(i)' = Cardinality(Finals(i)') + 1
    <3>1. CASE i \in DataFrames
      <4>1. i \in 1 .. n /\ i \in 1 .. n + 1
        BY <1>2, <1>11, <3>1
      <4>2. MessageOf(i)' = MessageOf(i) /\ Finals(i)' = Finals(i)
        BY <1>2, <4>1
      <4> QED BY <1>4, <3>1, <4>2
    <3>2. CASE i = n + 1 /\ fr.op \notin Control
      <4>1. i \in 1 .. n + 1
        BY <1>2, <3>2
      <4>2. Finals(i)' = Finals(i)
        BY <1>2, <4>1
      <4> QED BY <1>13, <3>2, <4>2
    <3> QED BY <1>2, <3>1, <3>2
  <2> QED BY <1>13, <2>1 DEF InTurns
<1>14. CASE fr.op \in Control
  <2>1. DataFrames' = DataFrames
    BY <1>2, <1>14
  <2>2. Texts' = Texts
    BY <1>5, <1>11, <2>1 DEF Texts
  <2>3. Finals(Len(sent) + 1)' = E
    BY <1>6, <1>10, <1>11, <2>1
  <2>4. Unfinished' <=> Unfinished
    BY <1>7, <1>11, <2>1 DEF Unfinished
  <2> QED BY <1>4, <1>13, <1>14, <2>2, <2>3, <2>4 DEF T, F, E
<1>15. CASE fr.op \notin Control
  <2>1. DataFrames' = DataFrames \cup {n + 1} /\ n + 1 \notin DataFrames
    BY <1>2, <1>11, <1>15
  <2>2. Cardinality(Texts') = F + 1
    <3>1. CASE Unfinished
      <4>1. fr.op = "cont"
        BY <1>9, <1>15, <3>1
      <4>2. Texts' = Texts
        BY <1>2, <1>5, <1>11, <2>1, <4>1 DEF Texts
      <4> QED BY <1>4, <3>1, <4>2 DEF T
    <3>2. CASE ~Unfinished
      <4>1. fr.op = "text"
        BY <1>8, <1>9, <1>15, <3>2 DEF Opcodes
      <4>2. Texts' = Texts \cup {n + 1} /\ n + 1 \notin Texts
        BY <1>2, <1>3, <1>5, <1>11, <2>1, <4>1 DEF Texts
      <4>3. Cardinality(Texts') = Cardinality(Texts) + 1
        BY <1>3, <4>2, FS_AddElement
      <4> QED BY <1>3, <1>4, <3>2, <4>3 DEF T
    <3> QED BY <3>1, <3>2
  <2>3. Unfinished' <=> ~fr.fin
    <3>1. ASSUME NEW i \in DataFrames', \A j \in DataFrames' : j <= i PROVE i = n + 1
      BY <1>11, <2>1, <3>1
    <3>2. \A j \in DataFrames' : j <= n + 1
      BY <1>11, <1>12, <2>1
    <3>3. n + 1 \in DataFrames'
      BY <2>1
    <3> QED BY <1>2, <1>7, <3>1, <3>2, <3>3
  <2>4. Cardinality(Finals(Len(sent) + 1)') = F + IF fr.fin THEN 1 ELSE 0
    <3>1. CASE fr.fin
      <4>1. Finals(Len(sent) + 1)' = E \cup {n + 1} /\ n + 1 \notin E
        BY <1>2, <1>6, <1>10, <1>11, <1>12, <2>1, <3>1
      <4>2. Cardinality(E \cup {n + 1}) = Cardinality(E) + 1
        BY <1>3, <4>1, FS_AddElement DEF E
      <4> QED BY <3>1, <4>1, <4>2 DEF E, F
    <3>2. CASE ~fr.fin
      <4>1. Finals(Len(sent) + 1)' = E
        BY <1>2, <1>6, <1>10, <1>11, <2>1, <3>2
      <4> QED BY <1>3, <3>2, <4>1 DEF E, F
    <3> QED BY <3>1, <3>2
  <2>5. ASSUME NEW i, i = n + 1
        PROVE  MessageOf(i)' = Cardinality(Finals(i)) + 1
    <3>1. {j \in DataFrames' : j <= i /\ sent'[j].op = "text"} = Texts'
      BY <1>5, <1>11, <1>12, <2>1, <2>5
    <3>2. MessageOf(i)' = Cardinality(Texts')
      BY <3>1 DEF MessageOf
    <3> QED BY <2>2, <2>5, <3>2 DEF F
  <2> QED BY <1>3, <1>8, <1>13, <2>2, <2>3, <2>4, <2>5
<1> QED BY <1>14, <1>15

LEMMA ReassembledSends ==
  ASSUME Parsed, InTurns, InTurns', Reassembled, NEW fr \in Frames, ClientSends(fr)
  PROVE  Reassembled'
<1> DEFINE n == Len(sent)
           c == Current
           L == Len(handled)
<1>1. TypeOK /\ Len(taken) <= n
  BY DEF Parsed, Returned
<1>2. /\ n \in Nat /\ DataFrames \subseteq 1 .. n
      /\ DataFrames' = IF fr.op \in Control THEN DataFrames ELSE DataFrames \cup {n + 1}
      /\ \A i \in 1 .. n + 1 : Finals(i)' = Finals(i)
      /\ \A i \in 1 .. n : MessageOf(i)' = MessageOf(i)
  BY FrameMore
<1>3. /\ \A i : Cardinality(Finals(i)) \in Nat
      /\ \A i, j \in Nat : i <= j => Cardinality(Finals(i)) <= Cardinality(Finals(j))
  BY <1>1, DataFacts, FinalsGrow
<1>4. UNCHANGED <<taken, handled, fragments>> /\ Current' = c
  BY DEF ClientSends, Current
<1>5. c \in 1 .. n + 1
  <2>1. Len(taken) \in Nat
    BY <1>1, LenProperties DEF TypeOK
  <2> QED BY <1>1, <1>2, <2>1 DEF Current
<1>6. /\ L = Cardinality(Finals(c))
      /\ From(fragments) = {i \in DataFrames : i < c /\ MessageOf(i) = L + 1}
      /\ InOrderOf(fragments)
      /\ \A m \in DOMAIN handled :
           From(handled[m]) = {i \in DataFrames : MessageOf(i) = m} /\ InOrderOf(handled[m])
  BY DEF Reassembled, WholeMessages, From, InOrderOf
<1>7. L \in Nat /\ DOMAIN handled = 1 .. L
  BY <1>1, LenProperties DEF TypeOK
<1>8. Len(handled') = L
  BY <1>4
<1>9. PICK k : k = c
  OBVIOUS
<1>10. Finals(Current)' = Finals(k)
  <2>1. k \in 1 .. n + 1
    BY <1>5, <1>9
  <2>2. Finals(k)' = Finals(k)
    BY <1>2, <2>1
  <2>3. Finals(Current)' = Finals(k)'
    BY <1>4, <1>9 DEF Finals
  <2> QED BY <2>2, <2>3
<1> HIDE DEF n, c, L
<1>11. \A i \in DataFrames' : i \in DataFrames \/ i = n + 1
  BY <1>2
<1>12. \A i \in DataFrames : i \in DataFrames' /\ MessageOf(i)' = MessageOf(i)
  BY <1>2
<1>13. ASSUME NEW i \in DataFrames', i = n + 1
       PROVE  MessageOf(i)' >= L + 1 /\ MessageOf(i)' \in Nat
  <2>1. MessageOf(i)' = Cardinality(Finals(i)') + 1
    BY <1>13 DEF InTurns
  <2>2. i \in 1 .. n + 1
    BY <1>2, <1>13
  <2>3. Finals(i)' = Finals(i)
    BY <1>2, <2>2
  <2>4. c <= i /\ c \in Nat /\ i \in Nat
    BY <1>2, <1>5, <1>13
  <2>5. Cardinality(Finals(c)) <= Cardinality(Finals(i))
    BY <1>3, <2>4
  <2> QED BY <1>3, <1>6, <1>7, <2>1, <2>3, <2>5
<1>14. (Len(handled) = Cardinality(Finals(Current)))'
  BY <1>6, <1>8, <1>9, <1>10
<1>15. (From(fragments) = {i \in DataFrames : i < Current /\ MessageOf(i) = Len(handled) + 1})'
  <2>1. ASSUME NEW i \in DataFrames' PROVE i < c => i \in DataFrames
    <3>1. ~(n + 1 < c)
      BY <1>2, <1>5
    <3> QED BY <1>11, <3>1
  <2>2. {i \in DataFrames' : i < c /\ MessageOf(i)' = L + 1}
          = {i \in DataFrames : i < c /\ MessageOf(i) = L + 1}
    BY <1>12, <2>1
  <2>3. {i \in DataFrames : i < Current /\ MessageOf(i) = Len(handled) + 1}'
          = {i \in DataFrames' : i < c /\ MessageOf(i)' = L + 1}
    BY <1>4, <1>8
  <2>4. From(fragments') = From(fragments)
    BY <1>4
  <2> QED BY <1>6, <2>2, <2>3, <2>4
<1>16. WholeMessages'
  <2>1. ASSUME NEW m \in 1 .. L
        PROVE  From(handled[m]) = {i \in DataFrames' : MessageOf(i)' = m} /\ InOrderOf(handled[m])
    <3>1. ASSUME NEW i \in DataFrames', MessageOf(i)' = m PROVE i \in DataFrames
      <4>1. i # n + 1
        <5> SUFFICES ASSUME i = n + 1 PROVE FALSE
          OBVIOUS
        <5>1. MessageOf(i)' >= L + 1
          BY <1>13
        <5>2. m >= L + 1
          BY <3>1, <5>1
        <5> QED BY <1>7, <5>2
      <4> QED BY <1>11, <4>1
    <3>2. {i \in DataFrames' : MessageOf(i)' = m} = {i \in DataFrames : MessageOf(i) = m}
      BY <1>12, <3>1
    <3> QED BY <1>6, <1>7, <3>2
  <2>2. handled' = handled /\ DOMAIN handled' = 1 .. L
    BY <1>4, <1>7
  <2> QED BY <2>1, <2>2 DEF WholeMessages, From, InOrderOf
<1>17. InOrderOf(fragments)'
  BY <1>4, <1>6
<1> QED BY <1>14, <1>15, <1>16, <1>17 DEF Reassembled

\* The invariant behind whole messages.
Gathering == InTurns /\ Reassembled

LEMMA GatheringStep ==
  ASSUME Parsed, Gathering, [ConnectionNext]_allVars
  PROVE  Gathering'
<1>1. ASSUME UNCHANGED sent
      PROVE  /\ InTurns'
             /\ UNCHANGED <<taken, handled, fragments>> => Reassembled'
  <2>1. /\ DataFrames' = DataFrames /\ Texts' = Texts /\ Unfinished' = Unfinished
        /\ \A i : Finals(i)' = Finals(i) /\ MessageOf(i)' = MessageOf(i)
        /\ Finals(Len(sent) + 1)' = Finals(Len(sent) + 1)
    BY <1>1 DEF DataFrames, Texts, Unfinished, Finals, MessageOf
  <2>2. InTurns'
    BY <2>1 DEF Gathering, InTurns
  <2>3. ASSUME UNCHANGED <<taken, handled, fragments>>
        PROVE  Reassembled'
    <3>1. Current' = Current /\ Finals(Current)' = Finals(Current)
      BY <1>1, <2>1, <2>3 DEF Current, Finals
    <3> QED BY <2>1, <2>3, <3>1 DEF Gathering, Reassembled, WholeMessages, From, InOrderOf
  <2> QED BY <2>2, <2>3
<1>2. CASE Next
  <2>1. CASE Read \/ Disconnect
    BY <1>1, <2>1 DEF Read, Disconnect, Gathering
  <2>2. CASE HeaderBasic \/ ExtendedLen \/ MaskKey \/ PayloadPart
    BY <1>1, <2>2 DEF HeaderBasic, ExtendedLen, MaskKey, PayloadPart, Gathering
  <2>3. CASE FrameComplete
    <3>1. Reassembled'
      BY <2>3, ReassembledComplete DEF Gathering
    <3>2. InTurns'
      BY <1>1, <2>3 DEF FrameComplete
    <3> QED BY <3>1, <3>2 DEF Gathering
  <2>4. ASSUME NEW fr \in Frames, ClientSends(fr) PROVE Gathering'
    <3>1. InTurns'
      BY <2>4, TurnsSends DEF Gathering
    <3>2. Reassembled'
      BY <2>4, <3>1, ReassembledSends DEF Gathering
    <3> QED BY <3>1, <3>2 DEF Gathering
  <2> QED BY <1>2, <2>1, <2>2, <2>3, <2>4 DEF Next, Parse
<1>3. CASE TcpStep
  BY <1>1, <1>3 DEF TcpStep, TcpRead, AnswerMetrics, UpgradeDone, UpgradeFails, NoRequest,
     NextLine, AfterLine, LinesDone, vars, Gathering
<1>4. CASE TcpDisconnect \/ SendsRequest
  BY <1>1, <1>4 DEF TcpDisconnect, SendsRequest, vars, Gathering
<1>5. ASSUME NEW len \in Lengths, SendsLine(len) PROVE Gathering'
  BY <1>1, <1>5 DEF SendsLine, vars, Gathering
<1>6. CASE UNCHANGED allVars
  BY <1>1, <1>6 DEF allVars, vars, Gathering
<1> QED BY <1>2, <1>3, <1>4, <1>5, <1>6 DEF ConnectionNext

LEMMA GatheringInit ==
  ASSUME ConnectionInit
  PROVE  Gathering
<1>1. sent = <<>> /\ taken = <<>> /\ handled = <<>> /\ fragments = <<>>
  BY DEF ConnectionInit, Init
<1>2. DataFrames = {}
  BY <1>1 DEF DataFrames
<1>3. Texts = {} /\ ~Unfinished /\ \A i : Finals(i) = {}
  BY <1>2 DEF Texts, Unfinished, Finals
<1>4. Cardinality({}) = 0
  BY FS_EmptySet
<1>5. InTurns
  <2>1. Cardinality(Texts) = 0 /\ Cardinality(Finals(Len(sent) + 1)) = 0
    BY <1>3, <1>4
  <2>2. Cardinality(Texts) = Cardinality(Finals(Len(sent) + 1)) + IF Unfinished THEN 1 ELSE 0
    BY <1>3, <2>1
  <2> QED BY <1>2, <2>2 DEF InTurns
<1>6. Reassembled
  BY <1>1, <1>2, <1>3, <1>4 DEF Reassembled, WholeMessages, From, InOrderOf
<1> QED BY <1>5, <1>6 DEF Gathering

\* A message that is handed over is made of all its frames, in order, and of no
\* other message's (reassembly in handleWsRead).
THEOREM MessagesWhole == ConnectionSpec => []WholeMessages
<1>1. ConnectionInit => Gathering
  BY GatheringInit
<1>2. Reading /\ Gathering /\ [ConnectionNext]_allVars => Gathering'
  BY GatheringStep DEF Reading
<1>3. Gathering => WholeMessages
  BY DEF Gathering, Reassembled
<1> QED BY <1>1, <1>2, <1>3, AlwaysReading, PTL DEF ConnectionSpec
=============================================================================
