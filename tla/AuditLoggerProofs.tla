-------------------------- MODULE AuditLoggerProofs --------------------------
(***************************************************************************)
(* Proofs about AuditLogger for any batch size and number of events: types,*)
(* that an event is in one place, and that events keep their order.        *)
(***************************************************************************)
EXTENDS AuditLogger, SequenceTheorems, TLAPS

-----------------------------------------------------------------------------
(* The invariant *)

\* Events in the order they were logged.
Rising(s) == \A i, j \in DOMAIN s : i < j => s[i] < s[j]

\* The events of s were logged before those of t.
Before(s, t) == \A x \in ToSet(s), y \in ToSet(t) : x < y

\* The three sequences an event passes through, each in order and one after
\* the other; there is a batch only while it is being posted.
Flow ==
  /\ worker # "post" => batch = <<>>
  /\ Rising(stored) /\ Rising(batch) /\ Rising(queue)
  /\ Before(stored, batch) /\ Before(stored, queue) /\ Before(batch, queue)
  /\ ToSet(stored) \cup ToSet(batch) \cup ToSet(queue) \cup dropped = 1 .. logged
  /\ dropped \cap (ToSet(stored) \cup ToSet(batch) \cup ToSet(queue)) = {}

-----------------------------------------------------------------------------
(* Sequences *)

LEMMA ToSetFacts ==
  ASSUME NEW S, NEW s \in Seq(S)
  PROVE  /\ DOMAIN s = 1 .. Len(s) /\ Len(s) \in Nat
         /\ ToSet(s) = {s[i] : i \in 1 .. Len(s)} /\ ToSet(s) \subseteq S
BY LenProperties, ElementOfSeq DEF ToSet

LEMMA ToSetEmpty == ToSet(<<>>) = {}
BY DEF ToSet

LEMMA ToSetConcat ==
  ASSUME NEW S, NEW s \in Seq(S), NEW t \in Seq(S)
  PROVE  ToSet(s \o t) = ToSet(s) \cup ToSet(t)
<1>1. Range(s \o t) = Range(s) \cup Range(t)
  BY RangeConcatenation
<1> QED BY <1>1 DEF ToSet, Range

\* One after the other, in both directions.
LEMMA RisingConcat ==
  ASSUME NEW s \in Seq(Nat), NEW t \in Seq(Nat)
  PROVE  Rising(s \o t) <=> Rising(s) /\ Rising(t) /\ Before(s, t)
<1> DEFINE u == s \o t
<1>1. /\ u \in Seq(Nat) /\ Len(u) = Len(s) + Len(t)
      /\ \A i \in 1 .. Len(s) + Len(t) : u[i] = IF i <= Len(s) THEN s[i] ELSE t[i - Len(s)]
  BY ConcatProperties
<1>2. /\ DOMAIN s = 1 .. Len(s) /\ Len(s) \in Nat /\ ToSet(s) = {s[i] : i \in 1 .. Len(s)}
      /\ DOMAIN t = 1 .. Len(t) /\ Len(t) \in Nat /\ ToSet(t) = {t[i] : i \in 1 .. Len(t)}
      /\ DOMAIN u = 1 .. Len(s) + Len(t)
  BY <1>1, ToSetFacts
<1> HIDE DEF u
<1>3. /\ \A i \in 1 .. Len(s) : u[i] = s[i]
      /\ \A i \in 1 .. Len(t) : u[Len(s) + i] = t[i]
  <2>1. ASSUME NEW i \in 1 .. Len(t) PROVE u[Len(s) + i] = t[i]
    <3>1. Len(s) + i \in 1 .. Len(s) + Len(t) /\ ~(Len(s) + i <= Len(s)) /\ Len(s) + i - Len(s) = i
      BY <1>2
    <3> QED BY <1>1, <3>1, SMTT(30)
  <2> QED BY <1>1, <1>2, <2>1
<1>4. ASSUME Rising(u)
      PROVE  Rising(s) /\ Rising(t) /\ Before(s, t)
  <2>1. Rising(s)
    BY <1>2, <1>3, <1>4 DEF Rising
  <2>2. Rising(t)
    <3> SUFFICES ASSUME NEW i \in 1 .. Len(t), NEW j \in 1 .. Len(t), i < j
                 PROVE  t[i] < t[j]
      BY <1>2 DEF Rising
    <3>1. Len(s) + i \in DOMAIN u /\ Len(s) + j \in DOMAIN u /\ Len(s) + i < Len(s) + j
      BY <1>2
    <3>2. u[Len(s) + i] < u[Len(s) + j]
      BY <1>4, <3>1 DEF Rising
    <3> QED BY <1>3, <3>2
  <2>3. ASSUME NEW i \in 1 .. Len(s), NEW j \in 1 .. Len(t)
        PROVE  s[i] < t[j]
    <3>1. i \in DOMAIN u /\ Len(s) + j \in DOMAIN u /\ i < Len(s) + j
      BY <1>2
    <3>2. u[i] < u[Len(s) + j]
      BY <1>4, <3>1 DEF Rising
    <3> QED BY <1>3, <3>2
  <2> QED BY <1>2, <2>1, <2>2, <2>3 DEF Before
<1>5. ASSUME Rising(s), Rising(t), Before(s, t)
      PROVE  Rising(u)
  <2> SUFFICES ASSUME NEW i \in DOMAIN u, NEW j \in DOMAIN u, i < j
               PROVE  u[i] < u[j]
    BY DEF Rising
  <2>1. CASE j <= Len(s)
    BY <1>2, <1>3, <1>5, <2>1 DEF Rising
  <2>2. CASE i > Len(s)
    <3>1. i - Len(s) \in 1 .. Len(t) /\ j - Len(s) \in 1 .. Len(t) /\ i - Len(s) < j - Len(s)
      BY <1>2, <2>2
    <3>2. t[i - Len(s)] < t[j - Len(s)]
      BY <1>2, <1>5, <3>1 DEF Rising
    <3>3. i \in 1 .. Len(s) + Len(t) /\ j \in 1 .. Len(s) + Len(t)
          /\ ~(i <= Len(s)) /\ ~(j <= Len(s))
      BY <1>2, <2>2
    <3>4. u[i] = t[i - Len(s)] /\ u[j] = t[j - Len(s)]
      BY <1>1, <3>3
    <3> QED BY <3>2, <3>4
  <2>3. CASE i <= Len(s) /\ j > Len(s)
    <3>1. i \in 1 .. Len(s) /\ j - Len(s) \in 1 .. Len(t)
      BY <1>2, <2>3
    <3>2. s[i] \in ToSet(s) /\ t[j - Len(s)] \in ToSet(t)
      BY <1>2, <3>1
    <3>3. s[i] < t[j - Len(s)]
      BY <1>5, <3>2 DEF Before
    <3>4. i \in 1 .. Len(s) + Len(t) /\ j \in 1 .. Len(s) + Len(t) /\ ~(j <= Len(s))
      BY <1>2, <2>3
    <3>5. u[i] = s[i] /\ u[j] = t[j - Len(s)]
      BY <1>1, <2>3, <3>4
    <3> QED BY <3>3, <3>5
  <2> QED BY <1>2, <2>1, <2>2, <2>3
<1> QED BY <1>4, <1>5 DEF u

\* What is in order holds nothing twice.
LEMMA RisingInjective ==
  ASSUME NEW s \in Seq(Nat), Rising(s)
  PROVE  IsInjective(s)
<1> SUFFICES ASSUME NEW i \in DOMAIN s, NEW j \in DOMAIN s, s[i] = s[j]
             PROVE  i = j
  BY DEF IsInjective
<1>1. i \in Nat /\ j \in Nat /\ s[i] \in Nat
  BY ToSetFacts, ElementOfSeq
<1>2. ~(i < j) /\ ~(j < i)
  BY <1>1 DEF Rising
<1> QED BY <1>1, <1>2

\* A batch and what is left of the queue make up the queue.
LEMMA TakeOutFacts ==
  ASSUME NEW S, NEW s \in Seq(S), NEW n \in 1 .. Len(s)
  PROVE  /\ SubSeq(s, 1, n) \in Seq(S) /\ Len(SubSeq(s, 1, n)) = n
         /\ SubSeq(s, n + 1, Len(s)) \in Seq(S)
         /\ SubSeq(s, 1, n) \o SubSeq(s, n + 1, Len(s)) = s
<1>1. Len(s) \in Nat /\ \A i \in 1 .. Len(s) : s[i] \in S
  BY LenProperties, ElementOfSeq
<1>2. SubSeq(s, 1, n) \in Seq(S) /\ Len(SubSeq(s, 1, n)) = n
  BY <1>1, SubSeqProperties
<1>3. SubSeq(s, n + 1, Len(s)) \in Seq(S)
  BY <1>1, SubSeqProperties
<1>4. SubSeq(s, 1, n) \o SubSeq(s, n + 1, Len(s)) = SubSeq(s, 1, Len(s))
  BY <1>1, ConcatAdjacentSubSeq
<1> QED BY <1>2, <1>3, <1>4, SubSeqFull

-----------------------------------------------------------------------------
(* Steps *)

AuditInv == TypeOK /\ Flow

LEMMA AuditInit == Init => AuditInv
<1> SUFFICES ASSUME Init PROVE AuditInv
  OBVIOUS
<1>1. TypeOK
  <2>1. <<>> \in Seq(Events) /\ Len(<<>>) = 0
    BY EmptySeq
  <2>2. queue \in Seq(Events) /\ stored \in Seq(Events) /\ batch \in Seq(Events)
    BY <2>1 DEF Init
  <2>3. Len(batch) <= BatchSize /\ logged \in 0 .. MaxEvents /\ dropped \subseteq Events
    BY <2>1, AuditAssumption DEF Init
  <2> QED BY <2>2, <2>3 DEF Init, TypeOK
<1>2. Rising(<<>>) /\ Before(<<>>, <<>>)
  BY ToSetEmpty DEF Rising, Before
<1>3. 1 .. 0 = {}
  OBVIOUS
<1> QED BY <1>1, <1>2, <1>3, ToSetEmpty DEF Init, AuditInv, Flow

\* The three sequences hold natural numbers.
LEMMA NatSeqs ==
  ASSUME TypeOK
  PROVE  /\ stored \in Seq(Nat) /\ batch \in Seq(Nat) /\ queue \in Seq(Nat)
         /\ ToSet(stored) \subseteq Nat /\ ToSet(batch) \subseteq Nat /\ ToSet(queue) \subseteq Nat
<1>1. Events \subseteq Nat
  BY DEF Events
<1>2. stored \in Seq(Nat) /\ batch \in Seq(Nat) /\ queue \in Seq(Nat)
  BY <1>1, SeqMonotonic DEF TypeOK
<1> QED BY <1>2, ToSetFacts

\* A new event is younger than all there are.
LEMMA LogStep ==
  ASSUME AuditInv, Log
  PROVE  AuditInv'
<1> DEFINE e == logged + 1
           one == <<e>>
<1>1. e \in Events /\ e \in Nat /\ logged' = e /\ logged \in Nat /\ logged' \in 0 .. MaxEvents
  BY AuditAssumption DEF AuditInv, Log, TypeOK, Events
<1>2. one \in Seq(Nat) /\ DOMAIN one = 1 .. 1 /\ ToSet(one) = {e} /\ Rising(one)
  BY <1>1 DEF ToSet, Rising
<1>3. queue' = queue \o one /\ queue' \in Seq(Events)
  <2>1. queue \in Seq(Events) /\ queue' = Append(queue, e)
    BY DEF AuditInv, TypeOK, Log
  <2> QED BY <1>1, <2>1, AppendProperties, AppendIsConcat
<1> HIDE DEF e, one
<1>4. \A x \in ToSet(stored) \cup ToSet(batch) \cup ToSet(queue) \cup dropped : x < e
  BY <1>1 DEF AuditInv, Flow, e
<1>5. ToSet(queue') = ToSet(queue) \cup {e}
  <2>1. queue \in Seq(Nat)
    BY NatSeqs DEF AuditInv
  <2>2. ToSet(queue \o one) = ToSet(queue) \cup ToSet(one)
    BY <1>2, <2>1, ToSetConcat
  <2> QED BY <1>2, <1>3, <2>2
<1>6. Rising(queue')
  <2>1. Before(queue, one)
    BY <1>2, <1>4 DEF Before
  <2> QED BY <1>2, <1>3, <2>1, NatSeqs, RisingConcat DEF AuditInv, Flow
<1>7. Before(stored, queue') /\ Before(batch, queue')
  BY <1>4, <1>5 DEF AuditInv, Flow, Before
<1>8. 1 .. e = (1 .. logged) \cup {e} /\ e \notin 1 .. logged
  BY <1>1 DEF e
<1>9. UNCHANGED <<running, main, worker, last, batch, stored, dropped>>
  BY DEF Log
<1>10. TypeOK'
  BY <1>1, <1>3, <1>9 DEF AuditInv, TypeOK
<1>11. ToSet(stored') \cup ToSet(batch') \cup ToSet(queue') \cup dropped' = 1 .. logged'
  BY <1>1, <1>5, <1>8, <1>9 DEF AuditInv, Flow
<1>12. dropped' \cap (ToSet(stored') \cup ToSet(batch') \cup ToSet(queue')) = {}
  BY <1>5, <1>8, <1>9 DEF AuditInv, Flow
<1> QED BY <1>6, <1>7, <1>9, <1>10, <1>11, <1>12 DEF AuditInv, Flow

\* The batch is the head of the queue.
LEMMA TakeStep ==
  ASSUME AuditInv, Take
  PROVE  AuditInv'
<1>1. CASE queue = <<>>
  BY <1>1 DEF Take, AuditInv, TypeOK, Flow, Returned
<1>2. CASE queue # <<>>
  <2> DEFINE n == Fill
  <2>1. n \in 1 .. Len(queue) /\ n <= BatchSize
    BY <1>2, AuditAssumption, EmptySeq DEF Fill, AuditInv, TypeOK
  <2>2. /\ worker' = "post" /\ batch' = SubSeq(queue, 1, n)
        /\ queue' = SubSeq(queue, n + 1, Len(queue))
        /\ UNCHANGED <<running, main, last, logged, stored, dropped>>
    BY <1>2 DEF Take, TakeOut
  <2> HIDE DEF n
  <2>3. queue \in Seq(Events)
    BY DEF AuditInv, TypeOK
  <2>4. /\ batch' \in Seq(Events) /\ Len(batch') = n /\ queue' \in Seq(Events)
        /\ batch' \o queue' = queue
    BY <2>1, <2>2, <2>3, TakeOutFacts
  <2>5. TypeOK'
    BY <2>1, <2>2, <2>4 DEF AuditInv, TypeOK
  <2>6. Rising(batch') /\ Rising(queue') /\ Before(batch', queue')
    <3>1. batch' \in Seq(Nat) /\ queue' \in Seq(Nat)
      <4>1. Events \subseteq Nat
        BY DEF Events
      <4>2. \A s \in Seq(Events) : s \in Seq(Nat)
        BY <4>1, SeqMonotonic
      <4> QED BY <2>4, <4>2
    <3> QED BY <2>4, <3>1, RisingConcat DEF AuditInv, Flow
  <2>7. ToSet(queue) = ToSet(batch') \cup ToSet(queue')
    <3>1. batch' \in Seq(Events) /\ queue' \in Seq(Events)
      BY <2>4
    <3>2. ToSet(batch' \o queue') = ToSet(batch') \cup ToSet(queue')
      BY ONLY <3>1, ToSetConcat, SMTT(30)
    <3> QED BY <2>4, <3>2
  <2>8. ToSet(batch) = {}
    BY ToSetEmpty DEF AuditInv, Flow, Take
  <2>9. Before(stored, batch') /\ Before(stored, queue')
    BY <2>7 DEF AuditInv, Flow, Before
  <2> QED BY <2>2, <2>5, <2>6, <2>7, <2>8, <2>9 DEF AuditInv, Flow
<1> QED BY <1>1, <1>2

\* The batch goes to the end of what is stored, or is dropped.
LEMMA PostStep ==
  ASSUME AuditInv, Post
  PROVE  AuditInv'
<1>1. /\ batch' = <<>> /\ worker' \in {"end", "test"}
      /\ UNCHANGED <<running, main, last, queue, logged>>
  BY DEF Post, Returned
<1>2. /\ batch' \in Seq(Events) /\ Len(batch') <= BatchSize /\ ToSet(batch') = {}
      /\ Rising(batch') /\ Before(stored', batch') /\ Before(batch', queue')
  BY <1>1, AuditAssumption, EmptySeq, ToSetEmpty DEF Rising, Before
<1>3. CASE stored' = stored \o batch /\ UNCHANGED dropped
  <2>1. stored' \in Seq(Events)
    BY <1>3, ConcatProperties DEF AuditInv, TypeOK
  <2>2. ToSet(stored') = ToSet(stored) \cup ToSet(batch)
    BY <1>3, NatSeqs, ToSetConcat DEF AuditInv
  <2>3. Rising(stored')
    BY <1>3, NatSeqs, RisingConcat DEF AuditInv, Flow
  <2>4. Before(stored', queue')
    BY <1>1, <2>2 DEF AuditInv, Flow, Before
  <2>5. TypeOK'
    BY <1>1, <1>2, <1>3, <2>1 DEF AuditInv, TypeOK
  <2> QED BY <1>1, <1>2, <1>3, <2>2, <2>3, <2>4, <2>5 DEF AuditInv, Flow
<1>4. CASE dropped' = dropped \cup ToSet(batch) /\ UNCHANGED stored
  <2>1. ToSet(batch) \cap (ToSet(stored) \cup ToSet(queue)) = {}
    <3>1. \A x \in ToSet(batch) \cup ToSet(stored) \cup ToSet(queue) : x \in Nat
      BY NatSeqs DEF AuditInv
    <3>2. \A x \in ToSet(batch) : x \notin ToSet(stored) /\ x \notin ToSet(queue)
      BY <3>1 DEF AuditInv, Flow, Before
    <3> QED BY <3>2
  <2>2. TypeOK'
    <3>1. ToSet(batch) \subseteq Events
      BY ToSetFacts DEF AuditInv, TypeOK
    <3> QED BY <1>1, <1>2, <1>4, <3>1 DEF AuditInv, TypeOK
  <2> QED BY <1>1, <1>2, <1>4, <2>1, <2>2 DEF AuditInv, Flow
<1> QED BY <1>3, <1>4 DEF Post

LEMMA AuditStep == AuditInv /\ [Next]_vars => AuditInv'
<1> SUFFICES ASSUME AuditInv, [Next]_vars PROVE AuditInv'
  OBVIOUS
<1>1. CASE Log \/ Take \/ Post
  BY <1>1, LogStep, TakeStep, PostStep
<1>2. CASE Shutdown \/ Join
  BY <1>2 DEF Shutdown, Join, AuditInv, TypeOK, Flow
<1>3. CASE Test \/ Wake
  BY <1>3 DEF Test, Wake, AuditInv, TypeOK, Flow
<1>4. CASE UNCHANGED vars
  BY <1>4 DEF vars, AuditInv, TypeOK, Flow
<1> QED BY <1>1, <1>2, <1>3, <1>4 DEF Next, Main, Worker

\* Every variable keeps its type; no batch is larger than batch_size_.
THEOREM AuditTypeCorrect == Spec => []TypeOK
<1>1. AuditInv => TypeOK
  BY DEF AuditInv
<1> QED BY <1>1, AuditInit, AuditStep, PTL DEF Spec

\* The whole way of an event, in order.
LEMMA PipeFacts ==
  ASSUME AuditInv
  PROVE  LET pipe == stored \o batch \o queue
         IN  /\ pipe \in Seq(Nat) /\ Rising(pipe)
             /\ ToSet(pipe) = ToSet(stored) \cup ToSet(batch) \cup ToSet(queue)
<1> DEFINE head == stored \o batch
<1>1. stored \in Seq(Nat) /\ batch \in Seq(Nat) /\ queue \in Seq(Nat)
  BY NatSeqs DEF AuditInv
<1>2. head \in Seq(Nat) /\ Rising(head) /\ ToSet(head) = ToSet(stored) \cup ToSet(batch)
  BY <1>1, ConcatProperties, ToSetConcat, RisingConcat DEF AuditInv, Flow
<1> HIDE DEF head
<1>3. Before(head, queue)
  BY <1>2 DEF AuditInv, Flow, Before
<1>4. /\ head \o queue \in Seq(Nat) /\ Rising(head \o queue)
      /\ ToSet(head \o queue) = ToSet(head) \cup ToSet(queue)
  BY <1>1, <1>2, <1>3, ConcatProperties, ToSetConcat, RisingConcat DEF AuditInv, Flow
<1> QED BY <1>2, <1>4 DEF head

\* The events reach the API in the order they were logged, across batches,
\* dropped batches and the final flush.
THEOREM EventsInOrder == Spec => []OrderKept
<1>1. AuditInv => OrderKept
  BY PipeFacts DEF OrderKept, Rising
<1> QED BY <1>1, AuditInit, AuditStep, PTL DEF Spec

\* An event that was logged is in exactly one place and is never posted twice.
THEOREM EventsOnce == Spec => []OnePlaceEach
<1>1. AuditInv => OnePlaceEach
  BY PipeFacts, RisingInjective DEF OnePlaceEach, AuditInv, Flow
<1> QED BY <1>1, AuditInit, AuditStep, PTL DEF Spec
=============================================================================
