---------------------------- MODULE AckPathProofs ----------------------------
(* Proofs about DeferredAcks and AckPath, for any capacities and bounds. *)
EXTENDS AckPath, FiniteSetTheorems, SequenceTheorems, WellFoundedInduction, TLAPS

-----------------------------------------------------------------------------
(* The relay's operations.                                                 *)

\* oldestTs is set exactly while something is deferred, is the time of no later
\* entry and never ahead of the clock.
RelayOK(r, t) ==
  /\ DOMAIN r = {"gen", "since", "oldest"}
  /\ r.gen \in Nat /\ r.oldest \in 0..t
  /\ Deferred(r) \subseteq Seqs
  /\ \A q \in Deferred(r) : r.since[q] \in Nat /\ r.oldest <= r.since[q]
  /\ r.oldest = 0 <=> Deferred(r) = {}

LEMMA RecordAllOK ==
  ASSUME NEW t \in Nat \ {0}, NEW r, RelayOK(r, t), NEW S \in SUBSET Seqs
  PROVE  RelayOK(RecordAll(r, S, t), t) /\ Deferred(RecordAll(r, S, t)) = Deferred(r) \cup S
<1> DEFINE n == RecordAll(r, S, t)
<1>1. /\ DOMAIN n = {"gen", "since", "oldest"} /\ n.gen = r.gen
      /\ n.since = [x \in DOMAIN r.since \cup S |-> IF x \in DOMAIN r.since THEN r.since[x] ELSE t]
      /\ n.oldest = IF r.oldest = 0 /\ S # {} THEN t ELSE r.oldest
  BY DEF RelayOK, RecordAll
<1> HIDE DEF n
<1>2. Deferred(n) = Deferred(r) \cup S
  BY <1>1 DEF Deferred
<1>3. RelayOK(n, t)
  BY <1>1, <1>2 DEF RelayOK, Deferred
<1>4. QED
  BY <1>2, <1>3 DEF n

LEMMA PurgeOK ==
  ASSUME NEW t \in Nat, NEW r, RelayOK(r, t), NEW S
  PROVE  RelayOK(Purge(r, S), t) /\ Deferred(Purge(r, S)) = Deferred(r) \ S
<1> DEFINE n == Purge(r, S)
<1>1. /\ DOMAIN n = {"gen", "since", "oldest"} /\ n.gen = r.gen
      /\ n.since = [x \in Deferred(r) \ S |-> r.since[x]]
      /\ n.oldest = IF Deferred(r) \ S = {} THEN 0 ELSE r.oldest
  BY DEF RelayOK, Purge, Restrict
<1> HIDE DEF n
<1>2. Deferred(n) = Deferred(r) \ S
  BY <1>1 DEF Deferred
<1>3. RelayOK(n, t)
  BY <1>1, <1>2 DEF RelayOK
<1>4. QED
  BY <1>2, <1>3 DEF n

LEMMA WipeOK ==
  ASSUME NEW t \in Nat, NEW g \in Nat
  PROVE  /\ RelayOK([EmptyRelay EXCEPT !.gen = g], t)
         /\ Deferred([EmptyRelay EXCEPT !.gen = g]) = {}
<1>1. [EmptyRelay EXCEPT !.gen = g] = [gen |-> g, since |-> <<>>, oldest |-> 0]
  BY DEF EmptyRelay
<1>2. DOMAIN <<>> = {}
  OBVIOUS
<1>3. QED
  BY <1>1, <1>2 DEF RelayOK, Deferred

LEMMA ExpireOK ==
  ASSUME NEW t \in Nat, NEW r, RelayOK(r, t), NEW cutoff
  PROVE  RelayOK(Expire(r, cutoff), t) /\ Deferred(Expire(r, cutoff)) \subseteq Deferred(r)
BY WipeOK DEF Expire, RelayOK

LEMMA EnsureOK ==
  ASSUME NEW t \in Nat, NEW r, RelayOK(r, t), NEW g \in Nat
  PROVE  RelayOK(EnsureGeneration(r, g), t) /\ Deferred(EnsureGeneration(r, g)) \subseteq Deferred(r)
BY WipeOK DEF EnsureGeneration, RelayOK

-----------------------------------------------------------------------------
(* The slot: what a number needs to get through the gate while it is live. *)

SlotFields == {"name", "set", "fifo", "min", "max", "tombed"}

\* The fifo holds every live number, and nothing in it is above the high bound.
SlotOK(st) ==
  /\ DOMAIN st = SlotFields /\ ~st.tombed
  /\ st.fifo \in Seq(Seqs) /\ st.min \in Nat /\ st.max \in Nat
  /\ \A x \in Store!Live(st) : \E i \in 1..Len(st.fifo) : st.fifo[i] = x
  /\ \A i \in 1..Len(st.fifo) : st.fifo[i] <= st.max
  /\ st.min <= st.max

\* The bounds enclose x, and whatever the low bound may still become by eviction
\* or purge, as long as x is there, is not above it.
GateOK(st, x) ==
  /\ x <= st.max /\ st.min <= x
  /\ \E i \in 1..Len(st.fifo) : st.fifo[i] = x /\ \A j \in 1..i : st.fifo[j] <= x

LEMMA LiveNumbers ==
  ASSUME NEW st, SlotOK(st) PROVE Store!Live(st) \subseteq Seqs
BY ElementOfSeq DEF SlotOK

LEMMA EmptySlotOK ==
  SlotOK(Store!EmptySlot("consumer")) /\ Store!Live(Store!EmptySlot("consumer")) = {}
<1>1. <<>> \in Seq(Seqs) /\ Len(<<>>) = 0 /\ DOMAIN <<>> = {}
  OBVIOUS
<1>2. QED
  BY <1>1 DEF SlotOK, SlotFields, Store!EmptySlot, Store!Live

LEMMA SmallestIsLeast ==
  ASSUME NEW S \in SUBSET Nat, S # {}
  PROVE  Store!SmallestOf(S) \in S /\ \A y \in S : Store!SmallestOf(S) <= y
<1>1. PICK x \in S : \A y \in S : ~ (<<y, x>> \in OpToRel(<, Nat))
  BY WFMin, NatLessThanWellFounded
<1>2. ASSUME NEW y \in S PROVE x <= y
  <2>1. ~ (y < x)
    <3>1. y < x => <<y, x>> \in OpToRel(<, Nat)
      BY DEF OpToRel
    <3>2. QED
      BY <1>1, <3>1
  <2>2. QED
    BY <2>1
<1>3. QED
  BY <1>2 DEF Store!SmallestOf

\* A cursor takes the numbers up to it and leaves the gate open for the others.
LEMMA ConfirmedOK ==
  ASSUME NEW st, SlotOK(st), NEW c \in Int
  PROVE  /\ SlotOK(Confirmed(st, c)) /\ Confirmed(st, c).fifo = st.fifo
         /\ Store!Live(Confirmed(st, c)) \subseteq Store!Live(st)
         /\ \A x \in Store!Live(st) \ Store!Live(Confirmed(st, c)) : x <= c
         /\ \A x \in Store!Live(Confirmed(st, c)) : GateOK(st, x) => GateOK(Confirmed(st, c), x)
<1> DEFINE gone == Store!UpTo(st, c)
           rest == Store!Live(st) \ gone
           m == Store!SmallestOf(rest)
           r == Confirmed(st, c)
<1>1. CASE gone = {}
  BY <1>1 DEF Confirmed, Store!MemConfirmUpTo
<1>2. CASE gone # {}
  <2>1. rest \subseteq Seqs /\ rest \subseteq Nat
    BY LiveNumbers, AckPathAssumption DEF Seqs
  <2>2. m \in Nat /\ m <= st.max /\ \A x \in rest : m <= x
    <3>1. CASE rest = {}
      BY <3>1 DEF Store!SmallestOf, SlotOK
    <3>2. CASE rest # {}
      <4>1. m \in rest /\ \A x \in rest : m <= x
        BY <2>1, <3>2, SmallestIsLeast
      <4>2. PICK i \in 1..Len(st.fifo) : st.fifo[i] = m
        BY <4>1 DEF SlotOK
      <4>3. QED
        BY <2>1, <4>1, <4>2 DEF SlotOK
    <3>3. QED
      BY <3>1, <3>2
  <2>3. r = [st EXCEPT !.set = Store!Without(@, gone), !.min = m]
    BY <1>2 DEF Confirmed, Store!MemConfirmUpTo
  <2>4. \A x \in gone : x <= c
    BY DEF Store!UpTo
  <2> HIDE DEF m, gone, r
  <2>5. /\ DOMAIN r = SlotFields /\ r.set = Store!Without(st.set, gone) /\ r.min = m
        /\ r.fifo = st.fifo /\ r.max = st.max /\ r.tombed = st.tombed
    BY <2>3 DEF SlotOK, SlotFields
  <2>6. Store!Live(r) = rest
    BY <2>5 DEF Store!Live, Store!Without, Store!Restrict
  <2>7. SlotOK(r)
    BY <2>2, <2>5, <2>6 DEF SlotOK
  <2>8. \A x \in rest : GateOK(st, x) => GateOK(r, x)
    BY <2>2, <2>5 DEF GateOK
  <2>9. QED
    BY <2>4, <2>5, <2>6, <2>7, <2>8 DEF r
<1>3. QED
  BY <1>1, <1>2

\* Record: a number that is not below the high bound gets through the gate, and no
\* number that got through is shut out by it, unless it is evicted.
LEMMA RecordOK ==
  ASSUME NEW st, SlotOK(st), NEW q \in Seqs, NEW cap \in Nat \ {0}, Len(st.fifo) <= cap
  PROVE  LET r == Store!CheckRecord(st, q, 0, cap)
         IN  /\ SlotOK(r) /\ Len(r.fifo) <= cap
             /\ Store!Live(r) \subseteq Store!Live(st) \cup {q}
             /\ \A x \in Store!Live(r) : GateOK(st, x) => GateOK(r, x)
             /\ q \in Store!Live(r) /\ st.max <= q => GateOK(r, q)
<1> DEFINE r == Store!CheckRecord(st, q, 0, cap)
           L == Len(st.fifo)
           fifo == Append(st.fifo, q)
           n == IF Len(fifo) > cap THEN Len(fifo) - cap ELSE 0
           out == {fifo[i] : i \in 1..n}
           rest == SubSeq(fifo, n + 1, Len(fifo))
           set == Store!Without(Store!With(st.set, q, 0), out)
           m == IF q > st.max THEN q ELSE st.max
<1> HIDE DEF r, L, fifo, n, out, rest, set, m
<1>0. q \in Nat \ {0} /\ Store!Live(st) \subseteq Seqs
  BY LiveNumbers, AckPathAssumption DEF Seqs
<1>1. CASE q \in Store!Live(st)
  <2>1. r = st
    BY <1>1 DEF r, Store!CheckRecord
  <2>2. ASSUME st.max <= q PROVE GateOK(st, q)
    <3>1. PICK i \in 1..Len(st.fifo) : st.fifo[i] = q
      BY <1>1 DEF SlotOK
    <3>2. \A j \in 1..Len(st.fifo) : st.fifo[j] \in Nat /\ st.fifo[j] <= st.max
      BY ElementOfSeq, AckPathAssumption DEF SlotOK, Seqs
    <3>3. st.min \in Nat /\ st.max \in Nat /\ st.min <= st.max /\ Len(st.fifo) \in Nat
      BY LenProperties DEF SlotOK
    <3>4. q <= st.max /\ st.min <= q
      BY <1>0, <2>2, <3>1, <3>2, <3>3
    <3>5. \A j \in 1..i : st.fifo[j] <= q
      BY <1>0, <2>2, <3>2, <3>3
    <3>6. QED
      BY <3>1, <3>4, <3>5 DEF GateOK
  <2>3. QED
    BY <2>1, <2>2 DEF r
<1>2. CASE q \notin Store!Live(st)
  <2>1. /\ st.fifo \in Seq(Seqs) /\ L \in Nat /\ L <= cap /\ st.max \in Nat
        /\ \A i \in 1..L : st.fifo[i] \in Nat /\ st.fifo[i] <= st.max
    BY LenProperties, ElementOfSeq, AckPathAssumption DEF SlotOK, Seqs, L
  <2>2. /\ fifo \in Seq(Seqs) /\ Len(fifo) = L + 1 /\ fifo[L + 1] = q
        /\ \A i \in 1..L : fifo[i] = st.fifo[i]
    BY <2>1, AppendProperties DEF fifo, L
  <2>3. n \in 0..L /\ Len(fifo) - n <= cap
    BY <2>1, <2>2 DEF n
  <2>4. /\ rest \in Seq(Seqs) /\ Len(rest) = L + 1 - n
        /\ \A i \in 1..(L + 1 - n) : rest[i] = fifo[i + n]
    <3>1. \A i \in (n + 1)..Len(fifo) : fifo[i] \in Seqs
      BY <2>1, <2>2, <2>3, ElementOfSeq
    <3>2. QED
      BY <2>1, <2>2, <2>3, <3>1, SubSeqProperties DEF rest
  <2>5. rest # <<>> /\ Head(rest) = rest[1] /\ rest[1] = fifo[n + 1]
    <3>1. Len(rest) >= 1 /\ 1 \in 1..(L + 1 - n)
      BY <2>1, <2>3, <2>4
    <3>2. QED
      BY <2>1, <2>3, <2>4, <3>1
  <2>6. DOMAIN set = (Store!Live(st) \cup {q}) \ out
    BY DEF set, Store!With, Store!Without, Store!Restrict, Store!Live
  <2>7. /\ DOMAIN r = SlotFields /\ r.tombed = st.tombed /\ r.fifo = rest /\ r.set = set
        /\ r.min = Head(rest) /\ r.max = m
    <3> DEFINE in == [st EXCEPT !.set = Store!With(@, q, 0), !.fifo = Append(@, q)]
               cut == Store!Evict(in, cap)
    <3>1. r = Store!RefreshBounds(cut, q)
      BY <1>2 DEF SlotOK, Store!CheckRecord, r
    <3>2. /\ DOMAIN in = SlotFields /\ in.fifo = fifo /\ in.set = Store!With(st.set, q, 0)
          /\ in.max = st.max /\ in.min = st.min /\ in.tombed = st.tombed
      BY DEF SlotOK, SlotFields, fifo
    <3>3. cut = [in EXCEPT !.fifo = rest, !.set = set]
      <4> HIDE DEF in
      <4>1. QED
        BY <3>2 DEF Store!Evict, n, out, rest, set, SlotFields
    <3>4. /\ DOMAIN cut = SlotFields /\ cut.fifo = rest /\ cut.set = set
          /\ cut.max = st.max /\ cut.min = st.min /\ cut.tombed = st.tombed
      <4> HIDE DEF in, cut
      <4>1. QED
        BY <3>2, <3>3 DEF SlotFields
    <3> HIDE DEF in, cut
    <3>5. r = [cut EXCEPT !.max = m, !.min = Head(rest)]
      BY <2>5, <3>1, <3>4 DEF Store!RefreshBounds, m, SlotFields
    <3>6. QED
      BY <3>4, <3>5 DEF SlotFields
  <2>8. Store!Live(r) = (Store!Live(st) \cup {q}) \ out
    BY <2>6, <2>7 DEF Store!Live
  <2>9. /\ m \in Nat /\ st.max <= m /\ q <= m
        /\ \A i \in 1..Len(rest) : i + n \in 1..(L + 1) /\ rest[i] = fifo[i + n]
    BY <1>0, <2>1, <2>3, <2>4 DEF m
  <2>10. \A i \in 1..(L + 1) : fifo[i] \in Nat /\ fifo[i] <= m
    <3> SUFFICES ASSUME NEW i \in 1..(L + 1) PROVE fifo[i] \in Nat /\ fifo[i] <= m
      OBVIOUS
    <3>1. CASE i = L + 1
      BY <1>0, <2>2, <2>9, <3>1
    <3>2. CASE i \in 1..L
      <4>1. fifo[i] = st.fifo[i] /\ fifo[i] \in Nat /\ fifo[i] <= st.max
        BY <2>1, <2>2, <3>2
      <4>2. QED
        BY ONLY <2>1, <2>9, <4>1
    <3>3. QED
      BY <2>1, <3>1, <3>2
  \* What stays and is at i in the longer fifo is further to the front in the rest.
  <2>11. ASSUME NEW x \in Store!Live(r), NEW i \in 1..(L + 1), fifo[i] = x
         PROVE  i - n \in 1..Len(rest) /\ rest[i - n] = x
    <3>1. i \notin 1..n
      BY <2>8, <2>11 DEF out
    <3>2. i - n \in 1..(L + 1 - n) /\ (i - n) + n = i
      BY <2>1, <2>3, <3>1
    <3>3. QED
      BY <2>4, <2>11, <3>2
  <2>12. SlotOK(r)
    <3>1. ASSUME NEW x \in Store!Live(r) PROVE \E i \in 1..Len(rest) : rest[i] = x
      <4>1. PICK i \in 1..(L + 1) : fifo[i] = x
        <5>1. CASE x = q
          BY <2>1, <2>2, <5>1
        <5>2. CASE x \in Store!Live(st)
          <6>1. PICK i \in 1..L : st.fifo[i] = x
            BY <5>2 DEF SlotOK, L
          <6>2. i \in 1..(L + 1) /\ fifo[i] = x
            BY <2>1, <2>2, <6>1
          <6>3. QED
            BY <6>2
        <5>3. QED
          BY <2>8, <5>1, <5>2
      <4>2. QED
        BY <2>11, <4>1
    <3>2. \A i \in 1..Len(rest) : rest[i] <= m
      BY <2>9, <2>10
    <3>3. Head(rest) \in Nat /\ Head(rest) <= m
      <4>1. n + 1 \in 1..(L + 1)
        BY <2>1, <2>3
      <4>2. QED
        BY <2>5, <2>10, <4>1
    <3>4. QED
      BY <2>4, <2>7, <2>9, <3>1, <3>2, <3>3 DEF SlotOK
  \* The first of the rest is no later than a number that is still there.
  <2>13. ASSUME NEW x \in Store!Live(r), x <= m, NEW i \in 1..(L + 1), fifo[i] = x,
                \A j \in 1..i : fifo[j] <= x
         PROVE  GateOK(r, x)
    <3>1. i - n \in 1..Len(rest) /\ rest[i - n] = x
      BY <2>11, <2>13
    <3>2. \A j \in 1..(i - n) : rest[j] <= x
      <4> SUFFICES ASSUME NEW j \in 1..(i - n) PROVE rest[j] <= x
        OBVIOUS
      <4>1. j \in 1..Len(rest) /\ j + n \in 1..i
        BY <2>1, <2>3, <2>4, <3>1
      <4>2. QED
        BY <2>9, <2>13, <4>1
    <3>3. Head(rest) <= x
      <4>1. 1 \in 1..(i - n)
        BY <2>1, <2>3, <2>4, <3>1
      <4>2. QED
        BY <2>5, <3>2, <4>1
    <3>4. QED
      BY <2>7, <2>13, <3>1, <3>2, <3>3 DEF GateOK
  <2>14. ASSUME NEW x \in Store!Live(r), GateOK(st, x) PROVE GateOK(r, x)
    <3>1. PICK i \in 1..L : st.fifo[i] = x /\ \A j \in 1..i : st.fifo[j] <= x
      BY <2>14 DEF GateOK, L
    <3>2. i \in 1..(L + 1) /\ fifo[i] = x /\ x \in Nat /\ x <= st.max
      BY <2>1, <2>2, <3>1
    <3>3. \A j \in 1..i : fifo[j] <= x
      BY <2>1, <2>2, <3>1
    <3>4. x <= m
      BY <2>1, <2>9, <3>2
    <3>5. QED
      BY <2>13, <3>2, <3>3, <3>4
  <2>15. ASSUME q \in Store!Live(r), st.max <= q PROVE GateOK(r, q)
    <3>1. m = q
      BY <1>0, <2>1, <2>15 DEF m
    <3>2. \A j \in 1..(L + 1) : fifo[j] <= q
      BY <2>10, <3>1
    <3>3. L + 1 \in 1..(L + 1) /\ q <= m
      BY <2>1, <2>9
    <3>4. QED
      BY <2>2, <2>13, <2>15, <3>2, <3>3
  <2>16. QED
    BY <2>3, <2>1, <2>2, <2>4, <2>7, <2>8, <2>12, <2>14, <2>15 DEF r
<1>3. QED
  BY <1>1, <1>2

-----------------------------------------------------------------------------
(* The inductive invariant: every place an ack can be in, on its way from  *)
(* Msg.Ack to the broker's release, holds acknowledged numbers only.       *)

OutFrames(A) == [kind : {"req", "ack", "batch"}, gen : Nat, seqs : SUBSET A]

CopyFrames  == [kind : {"copy"}, q : Seqs]
StateReps   == [kind : {"stateRep"}, known : BOOLEAN, low : Nat, gen : Nat, cursor : Nat]
BatchResps  == [kind : {"batchResp"}, cursor : Nat]
InFrames    == CopyFrames \cup StateReps \cup BatchResps

Consumers ==
  [exists : BOOLEAN, gen : Nat, bound : BOOLEAN, pending : SUBSET Nat, next : Nat,
   low : Nat \ {0}, settled : SUBSET Nat]

\* What stays in the process over a reconnect.
Client ==
  /\ setup \in Setups /\ now \in Nat \ {0}
  /\ acked \subseteq Seqs /\ unrecorded \subseteq acked /\ sweep \subseteq acked
  /\ SlotOK(slot) /\ Len(slot.fifo) <= SlotCap /\ Processed \subseteq acked
  /\ RelayOK(relay, now) /\ Deferred(relay) \subseteq acked

\* What belongs to the connection.
Traffic ==
  /\ ch \in Seq(acked)
  /\ queue \in Seq(OutFrames(acked)) /\ net \in Seq(OutFrames(acked))
  /\ inbox \in Seq(InFrames)

Broker ==
  /\ broker \in Consumers
  /\ ReleasedWasAcked

IInv == Client /\ Traffic /\ Broker

LEMMA EmptyRelayOK == ASSUME NEW t \in Nat PROVE RelayOK(EmptyRelay, t) /\ Deferred(EmptyRelay) = {}
<1>1. DOMAIN <<>> = {}
  OBVIOUS
<1>2. QED
  BY <1>1 DEF EmptyRelay, RelayOK, Deferred

\* Time only makes room between oldestTs and the clock.
LEMMA RelayLater ==
  ASSUME NEW t \in Nat, NEW r, RelayOK(r, t) PROVE RelayOK(r, t + 1)
BY DEF RelayOK

LEMMA FrameTypes ==
  ASSUME NEW A, NEW g \in Nat, NEW S \in SUBSET A
  PROVE  /\ StateReq(g) \in OutFrames(A) /\ AckFrame(S) \in OutFrames(A)
         /\ AckBatchFrame(g, S) \in OutFrames(A)
BY DEF StateReq, AckFrame, AckBatchFrame, OutFrames

LEMMA CursorType ==
  ASSUME NEW n \in Nat, NEW P
  PROVE  Cardinality({q \in 1..(n - 1) : \A p \in P : q < p}) \in Nat
<1> DEFINE C == {q \in 1..(n - 1) : \A p \in P : q < p}
<1>1. IsFiniteSet(1..(n - 1))
  BY FS_Interval
<1>2. C \in SUBSET (1..(n - 1))
  OBVIOUS
<1> HIDE DEF C
<1>3. IsFiniteSet(C)
  BY <1>1, <1>2, FS_Subset
<1>4. Cardinality(C) \in Nat
  BY <1>3, FS_CardinalityType
<1>5. QED
  BY <1>4 DEF C

\* What TrySend leaves in the write queue.
LEMMA TrySendOK ==
  ASSUME NEW A, queue \in Seq(OutFrames(A)), NEW f \in OutFrames(A), TrySend(f)
  PROVE  queue' \in Seq(OutFrames(A))
BY AppendProperties DEF TrySend

LEMMA BatcherAckOK ==
  ASSUME NEW A, ch \in Seq(A), NEW q \in A, BatcherAck(q)
  PROVE  ch' \in Seq(A)
BY AppendProperties DEF BatcherAck

-----------------------------------------------------------------------------
LEMMA InitOK == Init => IInv
<1> SUFFICES ASSUME Init PROVE IInv
  OBVIOUS
<1> USE DEF Init
<1>1. Client
  <2>1. setup.cap \in Nat /\ Len(slot.fifo) = 0
    BY AckPathAssumption DEF Store!EmptySlot
  <2>2. SlotOK(slot) /\ Processed = {}
    BY EmptySlotOK DEF Processed
  <2> HIDE DEF Init
  <2>3. QED
    BY <2>1, <2>2, EmptyRelayOK DEF Init, Client, SlotCap
<1>2. Traffic
  <2>1. <<>> \in Seq(acked) /\ <<>> \in Seq(OutFrames(acked)) /\ <<>> \in Seq(InFrames)
    BY EmptySeq
  <2>2. StateReq(0) \in OutFrames(acked)
    BY FrameTypes
  <2>3. <<StateReq(0)>> \in Seq(OutFrames(acked))
    BY <2>2
  <2>4. QED
    BY <2>1, <2>3 DEF Traffic
<1>3. Broker
  <2>1. setup.gens \in Nat
    BY AckPathAssumption
  <2>2. PICK g \in Nat : broker = NewConsumer(g)
    BY <2>1
  <2>3. QED
    BY <2>2 DEF Broker, Consumers, NewConsumer, ReleasedWasAcked
<1>4. QED
  BY <1>1, <1>2, <1>3 DEF IInv

-----------------------------------------------------------------------------
(* The application, the batcher and the writer.                            *)

LEMMA AckKeeps == ASSUME IInv, NEW q \in Seqs, Ack(q) PROVE IInv'
<1> USE DEF IInv, Ack, wire
<1>1. acked' = acked \cup {q} /\ acked \subseteq acked' /\ q \in acked'
  OBVIOUS
<1>2. Client'
  BY DEF Client, Processed, SlotCap
<1>3. Traffic'
  <2>1. ch \in Seq(acked')
    BY <1>1, SeqMonotonic DEF Traffic
  <2>2. ch' \in Seq(acked')
    BY <1>1, <2>1, BatcherAckOK
  <2>3. OutFrames(acked) \subseteq OutFrames(acked')
    BY <1>1 DEF OutFrames
  <2>4. queue \in Seq(OutFrames(acked')) /\ net \in Seq(OutFrames(acked'))
    BY <2>3, SeqMonotonic DEF Traffic
  <2>5. QED
    BY <2>2, <2>4 DEF Traffic
<1>4. Broker'
  BY <1>1 DEF Broker, ReleasedWasAcked
<1>5. QED
  BY <1>2, <1>3, <1>4

LEMMA AckRecordKeeps ==
  ASSUME IInv, NEW q \in Seqs, AckRecord(q)
  PROVE  /\ IInv'
         /\ \A x \in Processed' : GateOK(slot, x) => GateOK(slot', x)
         /\ q \in Processed' /\ InOrder(q) => GateOK(slot', q)
<1>1. /\ slot' = Store!CheckRecord(slot, q, 0, SlotCap) /\ unrecorded' \subseteq unrecorded
      /\ q \in acked
      /\ UNCHANGED <<setup, conn, link, replay, ch, batching, wire, relay, sweep, now, held,
                     acked, broker>>
  BY DEF AckRecord, IInv, Client
<1>2. SlotCap \in Nat \ {0} /\ SlotOK(slot) /\ Len(slot.fifo) <= SlotCap
  BY AckPathAssumption DEF IInv, Client, SlotCap
<1>3. /\ SlotOK(slot') /\ Len(slot'.fifo) <= SlotCap
      /\ Store!Live(slot') \subseteq Store!Live(slot) \cup {q}
      /\ \A x \in Store!Live(slot') : GateOK(slot, x) => GateOK(slot', x)
      /\ q \in Store!Live(slot') /\ slot.max <= q => GateOK(slot', q)
  BY <1>1, <1>2, RecordOK
<1>4. Client'
  BY <1>1, <1>3 DEF IInv, Client, Processed, SlotCap
<1>5. Traffic' /\ Broker'
  BY <1>1 DEF IInv, Traffic, Broker, ReleasedWasAcked, wire
<1>6. QED
  BY <1>3, <1>4, <1>5 DEF IInv, Processed, InOrder

LEMMA FlushKeeps == ASSUME IInv, Flush PROVE IInv'
<1> DEFINE n == IF Len(ch) < AckBatchMax THEN Len(ch) ELSE AckBatchMax
           S == {ch[i] : i \in 1..n}
<1>1. /\ ch' = SubSeq(ch, n + 1, Len(ch)) /\ TrySend(AckFrame(S))
      /\ relay' = IF Accepts THEN relay ELSE RecordAll(relay, S, now)
      /\ UNCHANGED <<setup, net, inbox, sweep, now, app, broker>>
  BY DEF Flush
<1>2. ch \in Seq(acked) /\ Len(ch) \in Nat /\ n \in 0..Len(ch)
  BY AckPathAssumption, LenProperties DEF IInv, Traffic
<1>3. \A i \in 1..Len(ch) : ch[i] \in acked
  BY <1>2, ElementOfSeq
<1>4. S \in SUBSET acked
  BY <1>2, <1>3
<1>5. ch' \in Seq(acked)
  BY <1>1, <1>2, <1>3, SubSeqProperties
<1> HIDE DEF n, S
<1>6. Client'
  BY <1>1, <1>4, RecordAllOK DEF IInv, Client, app, Processed, SlotCap
<1>7. Traffic'
  <2>1. AckFrame(S) \in OutFrames(acked)
    BY <1>4, FrameTypes
  <2>2. queue' \in Seq(OutFrames(acked))
    BY <1>1, <2>1, TrySendOK DEF IInv, Traffic
  <2>3. QED
    BY <1>1, <1>5, <2>2 DEF IInv, Traffic, app
<1>8. Broker'
  BY <1>1 DEF IInv, Broker, ReleasedWasAcked, app
<1>9. QED
  BY <1>6, <1>7, <1>8 DEF IInv

LEMMA BatcherEndsKeeps == ASSUME IInv, BatcherEnds PROVE IInv'
<1> USE DEF BatcherEnds, wire, app
<1>1. Client' /\ Broker'
  BY DEF IInv, Client, Broker, ReleasedWasAcked, Processed, SlotCap
<1>2. Traffic'
  BY EmptySeq DEF IInv, Traffic
<1>3. QED
  BY <1>1, <1>2 DEF IInv

LEMMA WriterSendKeeps == ASSUME IInv, WriterSend PROVE IInv'
<1> USE DEF WriterSend, app
<1>1. Client' /\ Broker'
  BY DEF IInv, Client, Broker, ReleasedWasAcked, Processed, SlotCap
<1>2. Traffic'
  <2>1. Head(queue) \in OutFrames(acked) /\ Tail(queue) \in Seq(OutFrames(acked))
    BY HeadTailProperties DEF IInv, Traffic
  <2>2. QED
    BY <2>1, AppendProperties DEF IInv, Traffic
<1>3. QED
  BY <1>1, <1>2 DEF IInv

-----------------------------------------------------------------------------
(* The relay's goroutine.                                                  *)

LEMMA SweepKeeps == ASSUME IInv, SweepRead \/ SweepSend \/ Tick PROVE IInv'
<1>1. CASE SweepRead
  BY <1>1 DEF SweepRead, wire, app, IInv, Client, Traffic, Broker, ReleasedWasAcked, Processed,
     SlotCap
<1>2. CASE SweepSend
  <2> USE <1>2 DEF SweepSend, app
  <2>1. Client'
    BY ExpireOK DEF IInv, Client, Processed, SlotCap
  <2>2. AckBatchFrame(relay.gen, sweep) \in OutFrames(acked)
    BY FrameTypes DEF IInv, Client, RelayOK
  <2>3. Traffic'
    BY <2>2, TrySendOK DEF IInv, Traffic
  <2>4. Broker'
    BY DEF IInv, Broker, ReleasedWasAcked
  <2>5. QED
    BY <2>1, <2>3, <2>4 DEF IInv
<1>3. CASE Tick
  BY <1>3, RelayLater DEF Tick, wire, app, IInv, Client, Traffic, Broker, ReleasedWasAcked,
     Processed, SlotCap
<1>4. QED
  BY <1>1, <1>2, <1>3

-----------------------------------------------------------------------------
(* The reader.                                                             *)

\* The numbers the reader may take from the slot or the relay when it meets f.
Drops(f) ==
  {q \in Seqs : \/ f.kind = "stateRep" /\ (q <= f.cursor \/ q < f.low)
                \/ f.kind = "batchResp" /\ q <= f.cursor}

\* The slot loses what the reply drops and nothing else, and the gate lets through
\* what is left.
SlotLoses ==
  /\ SlotOK(slot') /\ slot'.fifo = slot.fifo /\ Processed' \subseteq Processed
  /\ Processed \ Processed' \subseteq Drops(Head(inbox))
  /\ \A x \in Processed' : GateOK(slot, x) => GateOK(slot', x)

LEMMA ReaderSlot == ASSUME IInv, ReaderTake PROVE SlotLoses
<1> DEFINE f == Head(inbox)
<1>1. f \in InFrames /\ SlotOK(slot) /\ Processed \subseteq Seqs
  BY HeadTailProperties DEF ReaderTake, IInv, Client, Traffic
<1>2. /\ f.kind = "copy" => f \in CopyFrames
      /\ f.kind = "stateRep" => f \in StateReps
      /\ f.kind = "batchResp" => f \in BatchResps
  BY <1>1 DEF InFrames, CopyFrames, StateReps, BatchResps
<1>3. \/ f.kind = "copy" /\ TakeCopy(f)
      \/ f.kind = "stateRep" /\ TakeStateRep(f)
      \/ f.kind = "batchResp" /\ TakeBatchResp(f)
  BY DEF ReaderTake
<1> HIDE DEF f
<1>4. CASE f.kind = "copy" /\ TakeCopy(f)
  <2>1. slot' = slot
    BY <1>4 DEF TakeCopy
  <2>2. QED
    BY <1>1, <2>1 DEF SlotLoses, Processed
<1>5. CASE f.kind = "stateRep" /\ TakeStateRep(f)
  <2> DEFINE c == Vouched(f)
             l == f.low - 1
             told == Confirmed(slot, c)
             both == Confirmed(told, l)
  <2>1. slot' = told \/ slot' = both
    BY <1>5 DEF TakeStateRep
  <2>2. /\ c \in Int /\ l \in Int
        /\ \A x \in Seqs : x <= c \/ x <= l => x \in Drops(f)
    BY <1>2, <1>5, AckPathAssumption DEF Vouched, Drops, StateReps, Seqs
  <2> HIDE DEF c, l
  <2>3. /\ SlotOK(told) /\ told.fifo = slot.fifo
        /\ Store!Live(told) \subseteq Store!Live(slot)
        /\ \A x \in Store!Live(slot) \ Store!Live(told) : x <= c
        /\ \A x \in Store!Live(told) : GateOK(slot, x) => GateOK(told, x)
    BY <1>1, <2>2, ConfirmedOK
  <2> HIDE DEF told
  <2>4. /\ SlotOK(both) /\ both.fifo = told.fifo
        /\ Store!Live(both) \subseteq Store!Live(told)
        /\ \A x \in Store!Live(told) \ Store!Live(both) : x <= l
        /\ \A x \in Store!Live(both) : GateOK(told, x) => GateOK(both, x)
    BY <2>2, <2>3, ConfirmedOK
  <2> HIDE DEF both
  <2>5. CASE slot' = told
    BY <1>1, <2>2, <2>3, <2>5 DEF SlotLoses, Processed, f
  <2>6. CASE slot' = both
    BY <1>1, <2>2, <2>3, <2>4, <2>6 DEF SlotLoses, Processed, f
  <2>7. QED
    BY <2>1, <2>5, <2>6
<1>6. CASE f.kind = "batchResp" /\ TakeBatchResp(f)
  <2>1. slot' = Confirmed(slot, f.cursor)
    BY <1>6 DEF TakeBatchResp
  <2>2. /\ f.cursor \in Int
        /\ \A x \in Seqs : x <= f.cursor => x \in Drops(f)
    BY <1>2, <1>6 DEF Drops, BatchResps
  <2>3. /\ SlotOK(slot') /\ slot'.fifo = slot.fifo
        /\ Store!Live(slot') \subseteq Store!Live(slot)
        /\ \A x \in Store!Live(slot) \ Store!Live(slot') : x <= f.cursor
        /\ \A x \in Store!Live(slot') : GateOK(slot, x) => GateOK(slot', x)
    BY <1>1, <2>1, <2>2, ConfirmedOK
  <2>4. QED
    BY <1>1, <2>2, <2>3 DEF SlotLoses, Processed, f
<1>7. QED
  BY <1>3, <1>4, <1>5, <1>6

LEMMA ReaderKeeps == ASSUME IInv, ReaderTake PROVE IInv'
<1>0. SlotOK(slot') /\ Len(slot'.fifo) <= SlotCap /\ Processed' \subseteq acked
  BY ReaderSlot DEF SlotLoses, IInv, Client
<1> DEFINE f == Head(inbox)
<1>1. /\ f \in InFrames /\ inbox' \in Seq(InFrames)
      /\ UNCHANGED <<setup, net, sweep, now, acked, unrecorded, broker>>
  BY HeadTailProperties DEF ReaderTake, IInv, Traffic
<1>2. /\ f.kind = "copy" => f \in CopyFrames
      /\ f.kind = "stateRep" => f \in StateReps
      /\ f.kind = "batchResp" => f \in BatchResps
  BY <1>1 DEF InFrames, CopyFrames, StateReps, BatchResps
<1>3. \/ f.kind = "copy" /\ TakeCopy(f)
      \/ f.kind = "stateRep" /\ TakeStateRep(f)
      \/ f.kind = "batchResp" /\ TakeBatchResp(f)
  BY DEF ReaderTake
<1> HIDE DEF f
<1>4. Broker'
  BY <1>1 DEF IInv, Broker, ReleasedWasAcked
<1>5. CASE f.kind = "copy" /\ TakeCopy(f)
  <2>1. Client' /\ UNCHANGED queue
    BY <1>0, <1>1, <1>5 DEF TakeCopy, IInv, Client, SlotCap
  <2>2. ch' \in Seq(acked)
    <3>1. CASE Recorded(f.q) /\ BatcherAck(f.q)
      BY <3>1, BatcherAckOK DEF Recorded, Store!Seen, Processed, IInv, Client, Traffic
    <3>2. QED
      BY <1>5, <3>1 DEF TakeCopy, IInv, Traffic
  <2>3. QED
    BY <1>1, <1>4, <2>1, <2>2 DEF IInv, Traffic
<1>6. CASE f.kind = "stateRep" /\ TakeStateRep(f)
  <2> DEFINE settled == Purge(relay, UpTo(f.cursor) \cup UpTo(f.low - 1))
  <2>1. /\ RelayOK(settled, now) /\ Deferred(settled) \subseteq acked
        /\ f.gen \in Nat /\ ch' = ch
    BY <1>2, <1>6, PurgeOK DEF TakeStateRep, StateReps, IInv, Client
  <2>2. AckBatchFrame(f.gen, Deferred(settled)) \in OutFrames(acked)
    BY <2>1, FrameTypes
  <2>3. CASE f.gen # relay.gen
    <3>1. relay' = EnsureGeneration(relay, f.gen) /\ UNCHANGED queue
      BY <1>6, <2>3 DEF TakeStateRep
    <3>2. Client'
      BY <1>0, <1>1, <2>1, <3>1, EnsureOK DEF IInv, Client, SlotCap
    <3>3. QED
      BY <1>1, <1>4, <2>1, <3>1, <3>2 DEF IInv, Traffic
  <2>4. CASE f.gen = relay.gen
    <3>1. /\ relay' = settled
          /\ UNCHANGED queue \/ TrySend(AckBatchFrame(f.gen, Deferred(settled)))
      BY <1>6, <2>4 DEF TakeStateRep
    <3>2. Client'
      BY <1>0, <1>1, <2>1, <3>1 DEF IInv, Client, SlotCap
    <3>3. queue' \in Seq(OutFrames(acked))
      BY <2>2, <3>1, TrySendOK DEF IInv, Traffic
    <3>4. QED
      BY <1>1, <1>4, <2>1, <3>2, <3>3 DEF IInv, Traffic
  <2>5. QED
    BY <2>3, <2>4
<1>7. CASE f.kind = "batchResp" /\ TakeBatchResp(f)
  <2>1. /\ relay' = ConfirmUpTo(relay, f.cursor)
        /\ UNCHANGED <<queue, ch>>
    BY <1>7 DEF TakeBatchResp
  <2>2. Client'
    BY <1>0, <1>1, <2>1, PurgeOK DEF ConfirmUpTo, IInv, Client, SlotCap
  <2>3. QED
    BY <1>1, <1>4, <2>1, <2>2 DEF IInv, Traffic
<1>8. QED
  BY <1>3, <1>5, <1>6, <1>7

-----------------------------------------------------------------------------
(* Connections.                                                            *)

LEMMA ConnectionKeeps ==
  ASSUME IInv, Break \/ Notice \/ Reconnect \/ ReplaySubscriptions \/ ReplayAckState
  PROVE  IInv'
<1> USE DEF wire, app
<1>1. Client'
  BY DEF Break, Notice, Reconnect, ReplaySubscriptions, ReplayAckState, IInv, Client, Processed,
     SlotCap
<1>2. Broker'
  BY DEF Break, Notice, Reconnect, ReplaySubscriptions, ReplayAckState, IInv, Broker, Consumers,
     ReleasedWasAcked
<1>3. Traffic'
  <2>1. CASE Break \/ Notice \/ Reconnect \/ ReplaySubscriptions
    BY <2>1, EmptySeq DEF Break, Notice, Reconnect, ReplaySubscriptions, IInv, Traffic
  <2>2. CASE ReplayAckState
    <3>1. StateReq(relay.gen) \in OutFrames(acked)
      BY FrameTypes DEF IInv, Client, RelayOK
    <3>2. queue' \in Seq(OutFrames(acked))
      BY <2>2, <3>1, TrySendOK DEF ReplayAckState, IInv, Traffic
    <3>3. QED
      BY <2>2, <3>2 DEF ReplayAckState, IInv, Traffic
  <2>3. QED
    BY <2>1, <2>2
<1>4. QED
  BY <1>1, <1>2, <1>3 DEF IInv

-----------------------------------------------------------------------------
(* The broker.                                                             *)

\* Whoever names acknowledged numbers releases acknowledged numbers.
LEMMA ReleasedOK ==
  ASSUME broker \in Consumers, ReleasedWasAcked, NEW S \in SUBSET acked
  PROVE  /\ Released(S) \in Consumers
         /\ Released(S).settled \ (1..(Released(S).low - 1)) \subseteq acked
BY DEF Released, Consumers, ReleasedWasAcked

LEMMA AnswerOK ==
  ASSUME inbox \in Seq(InFrames), NEW f \in InFrames, Answer(f)
  PROVE  inbox' \in Seq(InFrames)
BY AppendProperties DEF Answer

LEMMA BrokerSendKeeps == ASSUME IInv, NEW q \in Seqs, BrokerSend(q) PROVE IInv'
<1> USE DEF BrokerSend, app
<1>1. Client'
  BY DEF IInv, Client, Processed, SlotCap
<1>2. Traffic'
  <2>1. [kind |-> "copy", q |-> q] \in InFrames
    BY DEF InFrames, CopyFrames
  <2>2. QED
    BY <2>1, AnswerOK DEF IInv, Traffic
<1>3. Broker'
  <2>1. q \in Nat
    BY AckPathAssumption DEF Seqs
  <2> DEFINE p == broker.pending \cup {q}
             n == IF q = broker.next THEN q + 1 ELSE broker.next
  <2>2. broker' \in Consumers
    <3>1. broker' = [broker EXCEPT !.pending = p, !.next = n]
      OBVIOUS
    <3>2. broker \in Consumers /\ p \in SUBSET Nat /\ n \in Nat
      BY <2>1 DEF IInv, Broker, Consumers
    <3> HIDE DEF p, n
    <3>3. QED
      BY <3>1, <3>2 DEF Consumers
  <2>3. broker'.settled = broker.settled /\ broker'.low = broker.low
    BY DEF IInv, Broker, Consumers
  <2>4. QED
    BY <2>2, <2>3 DEF IInv, Broker, ReleasedWasAcked
<1>4. QED
  BY <1>1, <1>2, <1>3 DEF IInv

LEMMA BrokerTakeKeeps == ASSUME IInv, BrokerTake PROVE IInv'
<1> DEFINE f == Head(net)
<1>1. /\ f \in OutFrames(acked) /\ net' \in Seq(OutFrames(acked))
      /\ UNCHANGED <<setup, ch, queue, relay, sweep, now, app>>
  BY HeadTailProperties DEF BrokerTake, IInv, Traffic
<1>2. \/ f.kind = "ack" /\ broker' = Released(f.seqs) /\ UNCHANGED inbox
      \/ /\ broker' = IF broker.exists /\ f.gen = broker.gen THEN Released(f.seqs) ELSE broker
         /\ Answer([kind |-> "batchResp", cursor |-> Cursor'])
      \/ /\ UNCHANGED broker
         /\ Answer([kind |-> "stateRep", known |-> broker.exists,
                    low    |-> IF broker.exists THEN broker.low ELSE 0,
                    gen    |-> IF broker.exists THEN broker.gen ELSE 0,
                    cursor |-> Cursor])
  BY DEF BrokerTake
<1> HIDE DEF f
<1>3. Client'
  BY <1>1 DEF app, IInv, Client, Processed, SlotCap
<1>4. Broker'
  <2>1. f.seqs \in SUBSET acked /\ acked' = acked
    BY <1>1 DEF OutFrames, app
  <2>2. broker' = broker \/ broker' = Released(f.seqs)
    BY <1>2
  <2>3. QED
    BY <2>1, <2>2, ReleasedOK DEF IInv, Broker, ReleasedWasAcked
<1>5. Cursor \in Nat /\ Cursor' \in Nat
  <2>1. broker \in Consumers /\ broker' \in Consumers
    BY <1>4 DEF IInv, Broker
  <2>2. broker.next \in Nat /\ broker'.next \in Nat
    BY <2>1 DEF Consumers
  <2>3. QED
    BY <2>2, CursorType DEF Cursor
<1>6. Traffic'
  <2>1. [kind |-> "batchResp", cursor |-> Cursor'] \in InFrames
    BY <1>5 DEF InFrames, BatchResps
  <2>2. [kind |-> "stateRep", known |-> broker.exists,
         low    |-> IF broker.exists THEN broker.low ELSE 0,
         gen    |-> IF broker.exists THEN broker.gen ELSE 0,
         cursor |-> Cursor] \in InFrames
    BY <1>5 DEF InFrames, StateReps, IInv, Broker, Consumers
  <2>3. inbox' \in Seq(InFrames)
    BY <1>2, <2>1, <2>2, AnswerOK DEF IInv, Traffic
  <2>4. QED
    BY <1>1, <2>3 DEF app, IInv, Traffic
<1>7. QED
  BY <1>3, <1>4, <1>6 DEF IInv

LEMMA BrokerRestKeeps == ASSUME IInv, BrokerTrim \/ BrokerDelete \/ BrokerCreate PROVE IInv'
<1> USE DEF wire, app
<1>1. Client' /\ Traffic'
  BY DEF BrokerTrim, BrokerDelete, BrokerCreate, IInv, Client, Traffic, Processed, SlotCap
<1>2. CASE BrokerTrim
  <2> DEFINE l == broker.low + 1
             p == broker.pending \ {broker.low}
             d == broker.settled \cup {broker.low}
  <2>1. broker' \in Consumers
    <3>1. broker' = [broker EXCEPT !.low = l, !.pending = p, !.settled = d]
      BY <1>2 DEF BrokerTrim
    <3>2. /\ broker \in Consumers /\ l \in Nat \ {0} /\ p \in SUBSET Nat
          /\ d \in SUBSET Nat
      BY DEF IInv, Broker, Consumers
    <3> HIDE DEF l, p, d
    <3>3. QED
      BY <3>1, <3>2 DEF Consumers
  <2>2. /\ broker'.settled = broker.settled \cup {broker.low} /\ broker'.low = broker.low + 1
        /\ broker.low \in Nat \ {0} /\ broker.settled \subseteq Nat
    BY <1>2 DEF BrokerTrim, IInv, Broker, Consumers
  <2>3. ReleasedWasAcked'
    BY <1>2, <2>2 DEF BrokerTrim, IInv, Broker, ReleasedWasAcked
  <2>4. QED
    BY <1>1, <2>1, <2>3 DEF IInv, Broker
<1>3. CASE BrokerDelete
  BY <1>1, <1>3 DEF BrokerDelete, IInv, Broker, Consumers, ReleasedWasAcked
<1>4. CASE BrokerCreate
  <2> DEFINE b == [exists |-> TRUE, gen |-> broker.gen + 1, bound |-> FALSE, pending |-> {},
                   next |-> broker.low, low |-> broker.low, settled |-> broker.settled]
  <2>1. broker' = b /\ acked' = acked
    BY <1>4 DEF BrokerCreate, NewConsumer
  <2>2. b \in Consumers /\ b.settled = broker.settled /\ b.low = broker.low
    BY DEF IInv, Broker, Consumers
  <2> HIDE DEF b
  <2>3. QED
    BY <1>1, <2>1, <2>2 DEF IInv, Broker, ReleasedWasAcked
<1>5. QED
  BY <1>2, <1>3, <1>4

-----------------------------------------------------------------------------
\* Every place an ack can be in holds acknowledged numbers only, in every behaviour
\* of the ack path.
THEOREM Inductive == Spec => []IInv
<1>1. IInv /\ [Next]_vars => IInv'
  <2> SUFFICES ASSUME IInv, [Next]_vars PROVE IInv'
    OBVIOUS
  <2>1. CASE UNCHANGED vars
    BY <2>1 DEF vars, IInv, Client, Traffic, Broker, ReleasedWasAcked, Processed, SlotCap
  <2>2. CASE Next
    <3>1. ASSUME NEW q \in Seqs, Ack(q) \/ AckRecord(q) \/ BrokerSend(q) PROVE IInv'
      BY <3>1, AckKeeps, AckRecordKeeps, BrokerSendKeeps
    <3>2. QED
      BY <2>2, <3>1, FlushKeeps, BatcherEndsKeeps, WriterSendKeeps, SweepKeeps, ReaderKeeps,
         ConnectionKeeps, BrokerTakeKeeps, BrokerRestKeeps DEF Next
  <2>3. QED
    BY <2>1, <2>2
<1>2. QED
  BY <1>1, InitOK, PTL DEF Spec

\* ReleasedWasAcked, over any number of connections, generations and restarts of the
\* consumer: neither the flush, nor the relay's batches, nor the reader's acks of
\* redeliveries tell the broker of a message the application has not acknowledged.
THEOREM NoForeignAck == Spec => []ReleasedWasAcked
<1>1. IInv => ReleasedWasAcked
  BY DEF IInv, Broker
<1>2. QED
  BY <1>1, Inductive, PTL

\* OldestCovers, for any TTL: no deferred ack is older than oldestTs, which is zero
\* exactly when nothing is deferred, so the test of ExpireOlderThan misses none.
THEOREM TTLFindsAll == Spec => []OldestCovers
<1>1. IInv => OldestCovers
  BY DEF IInv, Client, RelayOK, OldestCovers
<1>2. QED
  BY <1>1, Inductive, PTL

-----------------------------------------------------------------------------
(* No message is executed again.  What the slot drops on a reply of the    *)
(* broker must be behind the broker's cursor for good, and no copy of it   *)
(* may follow the reply on the wire.                                       *)

IsCopy(f, q) == f.kind = "copy" /\ f.q = q

Counted ==
  /\ held \in [Seqs -> Int]
  /\ broker.low <= broker.next
  /\ \A q \in broker.pending : broker.low <= q /\ q < broker.next
  /\ done \subseteq Seqs /\ \A q \in done : q < broker.next

\* No copy of q is under way, and none will be sent.
Gone(q) == q \notin broker.pending /\ \A i \in 1..Len(inbox) : ~IsCopy(inbox[i], q)

\* What was recorded in order is found by the reader, behind the gate, or will not
\* come again.
Recognized == \A q \in done : Gone(q) \/ (q \in Processed /\ GateOK(slot, q))

\* Nothing a reply lets go of is sent after it.
Ordered ==
  \A i \in 1..Len(inbox) : \A q \in Drops(inbox[i]) :
    q < broker.next =>
      q \notin broker.pending /\ \A j \in (i + 1)..Len(inbox) : ~IsCopy(inbox[j], q)

\* The replies of a living connection speak of the consumer that is there.
Current ==
  link = "up" =>
    \A i \in 1..Len(inbox) : \A q \in Drops(inbox[i]) : broker.exists /\ q < broker.next

NInv == Counted /\ Recognized /\ Ordered /\ Current

\* The cursor has nothing pending below it.
LEMMA CursorOK ==
  ASSUME NEW n \in Nat, NEW P \in SUBSET Nat,
         NEW q \in Nat \ {0},
         q <= Cardinality({x \in 1..(n - 1) : \A p \in P : x < p})
  PROVE  q < n /\ q \notin P
<1> DEFINE C == {x \in 1..(n - 1) : \A p \in P : x < p}
<1>1. SUFFICES q \in C
  OBVIOUS
<1>2. SUFFICES ASSUME q \notin C PROVE FALSE
  OBVIOUS
<1>3. \A x \in C : x < q
  BY <1>2
<1>4. C \in SUBSET (1..(q - 1))
  BY <1>3
<1>5. IsFiniteSet(1..(q - 1)) /\ Cardinality(1..(q - 1)) = q - 1
  BY FS_Interval
<1> HIDE DEF C
<1>6. Cardinality(C) <= q - 1
  BY <1>4, <1>5, FS_Subset
<1>7. IsFiniteSet(C)
  BY <1>4, <1>5, FS_Subset
<1>8. Cardinality(C) \in Nat /\ q <= Cardinality(C)
  BY <1>7, FS_CardinalityType DEF C
<1>9. QED
  BY <1>6, <1>8

LEMMA NInit == Init => NInv
<1> SUFFICES ASSUME Init PROVE NInv
  OBVIOUS
<1>1. /\ Len(inbox) = 0 /\ done = {} /\ held = [q \in Seqs |-> 0]
      /\ broker.low = 1 /\ broker.next = 1 /\ broker.pending = {}
  BY DEF Init, NewConsumer
<1>2. QED
  BY <1>1 DEF NInv, Counted, Recognized, Ordered, Current

\* Steps that send nothing and take nothing.
LEMMA QuietKeeps ==
  ASSUME IInv, NInv, UNCHANGED <<inbox, done, slot, held>>, link' = "up" => link = "up",
         broker'.next = broker.next, broker'.exists = broker.exists,
         broker'.pending \subseteq broker.pending, broker'.low <= broker.next,
         \A q \in broker'.pending : broker'.low <= q
  PROVE  NInv'
<1>1. Counted'
  BY DEF NInv, Counted
<1>2. Recognized' /\ Ordered' /\ Current'
  BY DEF NInv, Recognized, Gone, Ordered, Current, Processed
<1>3. QED
  BY <1>1, <1>2 DEF NInv

LEMMA NQuiet ==
  ASSUME IInv, NInv,
         \/ Flush \/ BatcherEnds \/ WriterSend \/ SweepRead \/ SweepSend \/ Tick
         \/ Break \/ Notice \/ ReplaySubscriptions \/ ReplayAckState \/ BrokerTrim
  PROVE  NInv'
<1> USE DEF wire, app
<1>1. UNCHANGED <<inbox, done, slot, held>> /\ (link' = "up" => link = "up")
  BY DEF Flush, BatcherEnds, WriterSend, SweepRead, SweepSend, Tick, Break, Notice,
     ReplaySubscriptions, ReplayAckState, BrokerTrim
<1>2. /\ broker'.next = broker.next /\ broker'.exists = broker.exists
      /\ broker'.pending \subseteq broker.pending /\ broker'.low <= broker.next
      /\ \A q \in broker'.pending : broker'.low <= q
  <2>1. /\ broker \in Consumers /\ broker.low <= broker.next
        /\ \A q \in broker.pending : broker.low <= q
    BY DEF IInv, Broker, NInv, Counted
  <2>2. CASE BrokerTrim
    <3> DEFINE d == broker.settled \cup {broker.low}
               p == broker.pending \ {broker.low}
               l == broker.low + 1
    <3>1. broker' = [broker EXCEPT !.low = l, !.pending = p, !.settled = d]
          /\ p \subseteq broker.pending
      BY <2>2 DEF BrokerTrim
    <3>2. l <= broker.next /\ \A q \in p : l <= q
      BY <2>1, <2>2 DEF BrokerTrim, Consumers
    <3> HIDE DEF d, p, l
    <3>3. QED
      BY <2>1, <3>1, <3>2 DEF Consumers
  <2>3. CASE Break \/ ReplaySubscriptions
    BY <2>1, <2>3 DEF Break, ReplaySubscriptions, Consumers
  <2>4. QED
    BY <2>1, <2>2, <2>3 DEF Flush, BatcherEnds, WriterSend, SweepRead, SweepSend, Tick, Notice,
       ReplayAckState
<1>3. QED
  BY <1>1, <1>2, QuietKeeps

LEMMA NAck == ASSUME IInv, NInv, NEW q \in Seqs, Ack(q) PROVE NInv'
<1> USE DEF Ack, wire
<1>1. Counted'
  BY DEF NInv, Counted
<1>2. Recognized'
  BY DEF NInv, Recognized, Gone, Processed
<1>3. Ordered' /\ Current'
  BY DEF NInv, Ordered, Current
<1>4. QED
  BY <1>1, <1>2, <1>3 DEF NInv

\* A number that is recorded shuts out none that stays.
LEMMA NRecord == ASSUME IInv, NInv, NEW q \in Seqs, AckRecord(q) PROVE NInv'
<1>1. /\ UNCHANGED <<link, inbox, held, broker>>
      /\ done' = (IF q < broker.next /\ InOrder(q) THEN done \cup {q} ELSE done) \ PushedOut(q)
  BY DEF AckRecord, wire
<1>2. /\ \A x \in Processed' : GateOK(slot, x) => GateOK(slot', x)
      /\ q \in Processed' /\ InOrder(q) => GateOK(slot', q)
  BY AckRecordKeeps
<1>3. Counted'
  BY <1>1 DEF NInv, Counted
<1>4. Recognized'
  <2> SUFFICES ASSUME NEW x \in done' PROVE Gone(x)' \/ (x \in Processed' /\ GateOK(slot', x))
    BY DEF Recognized
  <2>1. CASE x = q /\ InOrder(q)
    <3>1. q \in Processed'
      BY <1>1, <2>1 DEF PushedOut
    <3>2. QED
      BY <1>2, <2>1, <3>1
  <2>2. CASE ~(x = q /\ InOrder(q))
    <3>1. x \in done /\ x \notin PushedOut(q)
      BY <1>1, <2>2
    <3>2. CASE Gone(x)
      BY <1>1, <3>2 DEF Gone
    <3>3. CASE x \in Processed /\ GateOK(slot, x)
      <4>1. x \in Processed'
        BY <3>1, <3>3 DEF PushedOut
      <4>2. QED
        BY <1>2, <3>3, <4>1
    <3>4. QED
      BY <3>1, <3>2, <3>3 DEF NInv, Recognized
  <2>3. QED
    BY <2>1, <2>2
<1>5. Ordered' /\ Current'
  BY <1>1 DEF NInv, Ordered, Current
<1>6. QED
  BY <1>3, <1>4, <1>5 DEF NInv

LEMMA NReader == ASSUME IInv, NInv, ReaderTake PROVE NInv'
<1>1. /\ inbox \in Seq(InFrames) /\ inbox # <<>> /\ inbox' = Tail(inbox)
      /\ UNCHANGED <<link, done, broker>>
  BY DEF ReaderTake, IInv, Traffic
<1>2. /\ Len(inbox) \in Nat \ {0} /\ Len(inbox') = Len(inbox) - 1 /\ Head(inbox) = inbox[1]
      /\ \A i \in 1..Len(inbox') : inbox'[i] = inbox[i + 1]
  BY <1>1, HeadTailProperties, EmptySeq
<1>3. Counted'
  <2>1. held' \in [Seqs -> Int]
    BY DEF ReaderTake, TakeCopy, TakeStateRep, TakeBatchResp, NInv, Counted
  <2>2. QED
    BY <1>1, <2>1 DEF NInv, Counted
<1>4. Recognized'
  <2> SUFFICES ASSUME NEW q \in done PROVE Gone(q)' \/ (q \in Processed' /\ GateOK(slot', q))
    BY <1>1 DEF Recognized
  <2>1. CASE Gone(q)
    BY <1>1, <1>2, <2>1 DEF Gone
  <2>2. CASE q \in Processed' /\ GateOK(slot, q)
    BY <2>2, ReaderSlot DEF SlotLoses
  <2>3. CASE q \in Processed \ Processed'
    <3>1. q \in Drops(inbox[1])
      BY <1>2, <2>3, ReaderSlot DEF SlotLoses
    <3>2. q < broker.next
      BY DEF NInv, Counted
    <3>3. 1 \in 1..Len(inbox)
      BY <1>2
    <3>4. q \notin broker.pending /\ \A j \in 2..Len(inbox) : ~IsCopy(inbox[j], q)
      BY <3>1, <3>2, <3>3 DEF NInv, Ordered
    <3>5. QED
      BY <1>1, <1>2, <3>4 DEF Gone
  <2>4. QED
    BY <2>1, <2>2, <2>3 DEF NInv, Recognized
<1>5. Ordered'
  <2> SUFFICES ASSUME NEW i \in 1..Len(inbox'), NEW q \in Drops(inbox'[i]), q < broker.next
               PROVE  /\ q \notin broker.pending
                      /\ \A j \in (i + 1)..Len(inbox') : ~IsCopy(inbox'[j], q)
    BY <1>1 DEF Ordered
  <2>1. i + 1 \in 1..Len(inbox) /\ q \in Drops(inbox[i + 1])
    BY <1>2
  <2>2. /\ q \notin broker.pending
        /\ \A j \in (i + 2)..Len(inbox) : ~IsCopy(inbox[j], q)
    BY <2>1 DEF NInv, Ordered
  <2>3. QED
    BY <1>2, <2>2
<1>6. Current'
  BY <1>1, <1>2 DEF NInv, Current
<1>7. QED
  BY <1>3, <1>4, <1>5, <1>6 DEF NInv

LEMMA NReconnect == ASSUME IInv, NInv, Reconnect \/ BrokerDelete PROVE NInv'
<1>1. CASE Reconnect
  <2>1. Len(inbox') = 0
    BY <1>1 DEF Reconnect
  <2>2. UNCHANGED <<done, held, broker, slot>>
    BY <1>1 DEF Reconnect, app
  <2>3. QED
    <3>1. Counted'
      BY <2>2 DEF NInv, Counted
    <3>2. Recognized'
      BY <2>1, <2>2 DEF NInv, Recognized, Gone, Processed
    <3>3. Ordered' /\ Current'
      BY <2>1 DEF Ordered, Current
    <3>4. QED
      BY <3>1, <3>2, <3>3 DEF NInv
<1>2. CASE BrokerDelete
  <2>1. /\ UNCHANGED <<link, inbox, done, held, slot>> /\ link # "up"
        /\ broker'.pending = {} /\ broker'.next = broker.next /\ broker'.low = broker.low
    BY <1>2 DEF BrokerDelete, wire, app, IInv, Broker, Consumers
  <2>2. Counted' /\ Ordered' /\ Current'
    BY <2>1 DEF NInv, Counted, Ordered, Current
  <2>3. Recognized'
    BY <2>1 DEF NInv, Recognized, Gone, Processed
  <2>4. QED
    BY <2>2, <2>3 DEF NInv
<1>3. QED
  BY <1>1, <1>2

\* One more frame under way, which leaves the numbers at the broker alone.
LEMMA AppendKeeps ==
  ASSUME IInv, NInv, NEW f \in InFrames, inbox' = Append(inbox, f),
         UNCHANGED <<link, done, slot, held>>,
         broker'.next = broker.next, broker'.exists = broker.exists, broker'.low = broker.low,
         broker'.pending \subseteq broker.pending, f.kind # "copy",
         \A q \in Drops(f) : broker.exists /\ q < broker.next /\ q \notin broker'.pending
  PROVE  NInv'
<1>1. /\ Len(inbox) \in Nat /\ Len(inbox') = Len(inbox) + 1 /\ inbox'[Len(inbox) + 1] = f
      /\ \A i \in 1..Len(inbox) : inbox'[i] = inbox[i]
  BY AppendProperties, LenProperties DEF IInv, Traffic
<1>2. \A i \in 1..Len(inbox') : i \in 1..Len(inbox) \/ i = Len(inbox) + 1
  BY <1>1
<1>3. \A q : ~IsCopy(f, q)
  BY DEF IsCopy
<1>4. Counted'
  BY DEF NInv, Counted
<1>5. Recognized'
  BY <1>1, <1>2, <1>3 DEF NInv, Recognized, Gone, Processed
<1>6. Ordered'
  <2> SUFFICES ASSUME NEW i \in 1..Len(inbox'), NEW q \in Drops(inbox'[i]), q < broker.next
               PROVE  /\ q \notin broker'.pending
                      /\ \A j \in (i + 1)..Len(inbox') : ~IsCopy(inbox'[j], q)
    BY DEF Ordered
  <2>1. CASE i = Len(inbox) + 1
    BY <1>1, <2>1
  <2>2. CASE i \in 1..Len(inbox)
    <3>1. q \notin broker.pending /\ \A j \in (i + 1)..Len(inbox) : ~IsCopy(inbox[j], q)
      BY <1>1, <2>2 DEF NInv, Ordered
    <3>2. QED
      BY <1>1, <1>2, <1>3, <2>2, <3>1
  <2>3. QED
    BY <1>2, <2>1, <2>2
<1>7. Current'
  BY <1>1, <1>2 DEF NInv, Current
<1>8. QED
  BY <1>4, <1>5, <1>6, <1>7 DEF NInv

LEMMA NTake == ASSUME IInv, NInv, BrokerTake PROVE NInv'
<1> DEFINE f == Head(net)
           resp == [kind |-> "batchResp", cursor |-> Cursor']
           rep == [kind |-> "stateRep", known |-> broker.exists,
                   low    |-> IF broker.exists THEN broker.low ELSE 0,
                   gen    |-> IF broker.exists THEN broker.gen ELSE 0,
                   cursor |-> Cursor]
<1>1. UNCHANGED <<link, done, slot, held>>
  BY DEF BrokerTake, app
<1>2. \/ broker' = Released(f.seqs) /\ UNCHANGED inbox
      \/ (broker' = broker \/ broker' = Released(f.seqs)) /\ inbox' = Append(inbox, resp)
      \/ UNCHANGED broker /\ inbox' = Append(inbox, rep)
  BY DEF BrokerTake, Answer
<1>3. broker \in Consumers /\ broker.low <= broker.next
  BY DEF IInv, Broker, NInv, Counted
<1>4. /\ broker'.next = broker.next /\ broker'.exists = broker.exists /\ broker'.low = broker.low
      /\ broker'.pending \subseteq broker.pending
  BY <1>2, <1>3 DEF Released, Consumers
<1>5. broker.next \in Nat /\ broker.pending \in SUBSET Nat /\ broker'.pending \in SUBSET Nat
  BY <1>3, <1>4 DEF Consumers
<1>6. Cursor \in Nat /\ Cursor' \in Nat
  BY <1>4, <1>5, CursorType DEF Cursor
<1> HIDE DEF f
<1>7. CASE UNCHANGED inbox
  <2>1. \A q \in broker'.pending : broker'.low <= q
    BY <1>4 DEF NInv, Counted
  <2>2. QED
    BY <1>1, <1>3, <1>4, <1>7, <2>1, QuietKeeps
<1>8. CASE inbox' = Append(inbox, resp)
  <2>1. resp \in InFrames /\ resp.kind # "copy"
    BY <1>6 DEF InFrames, BatchResps
  <2>2. ASSUME NEW q \in Drops(resp)
        PROVE  broker.exists /\ q < broker.next /\ q \notin broker'.pending
    <3>1. q \in Nat \ {0} /\ q <= Cursor'
      BY <2>2, AckPathAssumption DEF Drops, Seqs
    <3>2. broker'.exists
      BY <3>1 DEF Cursor
    <3>3. q <= Cardinality({x \in 1..(broker'.next - 1) : \A p \in broker'.pending : x < p})
      BY <3>1, <3>2 DEF Cursor
    <3>4. QED
      BY <1>4, <1>5, <3>1, <3>2, <3>3, CursorOK
  <2> HIDE DEF resp
  <2>3. QED
    BY <1>1, <1>4, <1>8, <2>1, <2>2, AppendKeeps
<1>9. CASE UNCHANGED broker /\ inbox' = Append(inbox, rep)
  <2>1. rep \in InFrames /\ rep.kind # "copy"
    BY <1>3, <1>6 DEF InFrames, StateReps, Consumers
  <2>2. ASSUME NEW q \in Drops(rep)
        PROVE  broker.exists /\ q < broker.next /\ q \notin broker'.pending
    <3>1. q \in Nat \ {0}
      BY <2>2, AckPathAssumption DEF Drops, Seqs
    <3>2. broker.exists /\ (q <= Cursor \/ q < broker.low)
      BY <2>2, <3>1 DEF Drops, Cursor
    <3>3. CASE q <= Cursor
      <4>1. q <= Cardinality({x \in 1..(broker.next - 1) : \A p \in broker.pending : x < p})
        BY <3>2, <3>3 DEF Cursor
      <4>2. QED
        BY <1>4, <1>5, <3>1, <3>2, <4>1, CursorOK
    <3>4. CASE q < broker.low
      BY <1>3, <1>4, <1>9, <3>1, <3>2, <3>4 DEF NInv, Counted, Consumers
    <3>5. QED
      BY <3>2, <3>3, <3>4
  <2> HIDE DEF rep
  <2>3. QED
    BY <1>1, <1>4, <1>9, <2>1, <2>2, AppendKeeps
<1>10. QED
  BY <1>2, <1>7, <1>8, <1>9

LEMMA NSend == ASSUME IInv, NInv, NEW q \in Seqs, BrokerSend(q) PROVE NInv'
<1> DEFINE f == [kind |-> "copy", q |-> q]
           p == broker.pending \cup {q}
           n == IF q = broker.next THEN q + 1 ELSE broker.next
<1>1. /\ inbox' = Append(inbox, f) /\ link = "up" /\ broker.exists
      /\ q \in broker.pending \cup {broker.next}
      /\ broker' = [broker EXCEPT !.pending = p, !.next = n]
      /\ UNCHANGED <<link, done, slot, held>>
  BY DEF BrokerSend, Answer, app
<1>2. broker \in Consumers /\ q \in Nat /\ broker.low <= broker.next
  BY AckPathAssumption DEF IInv, Broker, Seqs, NInv, Counted
<1>3. f \in InFrames /\ Drops(f) = {} /\ \A x : IsCopy(f, x) => x = q
  BY DEF InFrames, CopyFrames, Drops, IsCopy
<1>4. /\ broker'.pending = p /\ broker'.next = n /\ broker'.low = broker.low
      /\ broker'.exists = broker.exists /\ n \in Nat /\ broker.next <= n
  <2>1. n \in Nat /\ broker.next <= n
    BY <1>2 DEF Consumers
  <2> HIDE DEF p, n
  <2>2. QED
    BY <1>1, <1>2, <2>1 DEF Consumers
<1>5. /\ Len(inbox) \in Nat /\ Len(inbox') = Len(inbox) + 1 /\ inbox'[Len(inbox) + 1] = f
      /\ \A i \in 1..Len(inbox) : inbox'[i] = inbox[i]
  BY <1>1, <1>3, AppendProperties, LenProperties DEF IInv, Traffic
<1>6. \A i \in 1..Len(inbox') : i \in 1..Len(inbox) \/ i = Len(inbox) + 1
  BY <1>5
<1> HIDE DEF f
<1>7. Counted'
  <2>1. broker.next \in Nat /\ broker.low \in Nat
    BY <1>2 DEF Consumers
  <2>2. ASSUME NEW x \in p PROVE broker.low <= x /\ x < n
    BY <1>1, <1>2, <2>1, <2>2 DEF NInv, Counted, Consumers
  <2>3. ASSUME NEW x \in done PROVE x < n
    <3>1. x < broker.next /\ x \in Int
      BY DEF Seqs, NInv, Counted
    <3>2. QED
      BY <1>4, <2>1, <3>1
  <2> HIDE DEF p, n
  <2>4. QED
    BY <1>1, <1>2, <1>4, <2>1, <2>2, <2>3 DEF NInv, Counted
<1>8. Recognized'
  <2> SUFFICES ASSUME NEW x \in done PROVE Gone(x)' \/ (x \in Processed' /\ GateOK(slot', x))
    BY <1>1 DEF Recognized
  <2>1. CASE Gone(x)
    <3>1. x < broker.next /\ x \notin broker.pending
      BY <2>1 DEF NInv, Counted, Gone
    <3>2. x # q
      BY <1>1, <1>2, <3>1 DEF Consumers
    <3>3. QED
      BY <1>3, <1>4, <1>5, <1>6, <2>1, <3>2 DEF Gone
  <2>2. CASE x \in Processed /\ GateOK(slot, x)
    BY <1>1, <2>2 DEF Processed
  <2>3. QED
    BY <2>1, <2>2 DEF NInv, Recognized
<1>9. Ordered'
  <2> SUFFICES ASSUME NEW i \in 1..Len(inbox'), NEW x \in Drops(inbox'[i]), x < n
               PROVE  x \notin p /\ \A j \in (i + 1)..Len(inbox') : ~IsCopy(inbox'[j], x)
    BY <1>4 DEF Ordered
  <2>1. i \in 1..Len(inbox) /\ x \in Drops(inbox[i])
    BY <1>3, <1>5, <1>6
  <2>2. x < broker.next
    BY <1>1, <2>1 DEF NInv, Current
  <2>3. x \notin broker.pending /\ \A j \in (i + 1)..Len(inbox) : ~IsCopy(inbox[j], x)
    BY <2>1, <2>2 DEF NInv, Ordered
  <2>4. x # q
    BY <1>1, <1>2, <2>2, <2>3 DEF Consumers
  <2>5. QED
    BY <1>3, <1>5, <1>6, <2>1, <2>3, <2>4
<1>10. Current'
  <2> SUFFICES ASSUME NEW i \in 1..Len(inbox'), NEW x \in Drops(inbox'[i])
               PROVE  broker.exists /\ x < n
    BY <1>4 DEF Current
  <2>1. i \in 1..Len(inbox) /\ x \in Drops(inbox[i])
    BY <1>3, <1>5, <1>6
  <2>2. x \in Nat
    BY <2>1, AckPathAssumption DEF Drops, Seqs
  <2>3. broker.exists /\ x < broker.next
    BY <1>1, <2>1 DEF NInv, Current
  <2>4. QED
    BY <1>1, <1>2, <1>4, <2>2, <2>3 DEF Consumers
<1>11. QED
  BY <1>7, <1>8, <1>9, <1>10 DEF NInv

\* The new consumer has sent nothing; what is under way is the old one's.
LEMMA NCreate == ASSUME IInv, NInv, BrokerCreate PROVE NInv'
<1>1. /\ ~broker.exists /\ done' = {} /\ UNCHANGED <<link, inbox, slot, held>>
      /\ broker'.pending = {} /\ broker'.next = broker.low /\ broker'.low = broker.low
      /\ broker'.exists
  BY DEF BrokerCreate, NewConsumer, wire
<1>2. broker \in Consumers /\ broker.low <= broker.next
  BY DEF IInv, Broker, NInv, Counted
<1>3. Counted' /\ Recognized'
  BY <1>1, <1>2 DEF NInv, Counted, Recognized, Consumers
<1>4. Ordered'
  <2> SUFFICES ASSUME NEW i \in 1..Len(inbox), NEW q \in Drops(inbox[i]), q < broker.low
               PROVE  \A j \in (i + 1)..Len(inbox) : ~IsCopy(inbox[j], q)
    BY <1>1 DEF Ordered
  <2>1. q < broker.next
    BY <1>2, AckPathAssumption DEF Drops, Seqs, Consumers
  <2>2. QED
    BY <2>1 DEF NInv, Ordered
<1>5. Current'
  BY <1>1 DEF NInv, Current
<1>6. QED
  BY <1>3, <1>4, <1>5 DEF NInv

THEOREM NInductive == Spec => []NInv
<1>1. IInv /\ NInv /\ [Next]_vars => NInv'
  <2> SUFFICES ASSUME IInv, NInv, [Next]_vars PROVE NInv'
    OBVIOUS
  <2>1. CASE UNCHANGED vars
    BY <2>1 DEF vars, NInv, Counted, Recognized, Gone, Ordered, Current, Processed
  <2>2. CASE Next
    <3>1. ASSUME NEW q \in Seqs, Ack(q) \/ AckRecord(q) \/ BrokerSend(q) PROVE NInv'
      BY <3>1, NAck, NRecord, NSend
    <3>2. QED
      BY <2>2, <3>1, NQuiet, NReader, NReconnect, NTake, NCreate DEF Next
  <2>3. QED
    BY <2>1, <2>2
<1>2. QED
  BY <1>1, NInit, Inductive, PTL DEF Spec

\* NotRerun, over any number of connections, redeliveries, generations and retention
\* steps and for any capacity of the slot: of a number recorded with no later one before
\* it, the cursors of AckStateRep and AckBatchResp, which onAckConfirm trusts, take from
\* the slot only what no copy is under way of or will be sent, and the low bound of the
\* gate stays behind it whatever is recorded, evicted or confirmed after it.
THEOREM NoRerun == Spec => NotRerun
<1>1. NInv /\ IInv /\ [Next]_vars => [\A q \in Seqs : held'[q] > held[q] => q \notin done]_vars
  <2> SUFFICES ASSUME NInv, IInv, Next, NEW q \in Seqs, held'[q] > held[q], q \in done
               PROVE  FALSE
    OBVIOUS
  <2>1. held \in [Seqs -> Int]
    BY DEF NInv, Counted
  <2>2. \A r \in Seqs : ~Ack(r) /\ ~AckRecord(r)
    BY <2>1 DEF Ack, AckRecord
  <2>3. ReaderTake
    <3>1. held' # held
      BY <2>1
    <3>2. \A r \in Seqs : ~BrokerSend(r)
      BY <3>1 DEF BrokerSend, app
    <3>3. ~Flush /\ ~BatcherEnds /\ ~WriterSend /\ ~SweepRead /\ ~SweepSend /\ ~Tick
      BY <3>1 DEF Flush, BatcherEnds, WriterSend, SweepRead, SweepSend, Tick, app
    <3>4. ~Break /\ ~Notice /\ ~Reconnect /\ ~ReplaySubscriptions /\ ~ReplayAckState
      BY <3>1 DEF Break, Notice, Reconnect, ReplaySubscriptions, ReplayAckState, app
    <3>5. ~BrokerTake /\ ~BrokerTrim /\ ~BrokerDelete /\ ~BrokerCreate
      BY <3>1 DEF BrokerTake, BrokerTrim, BrokerDelete, BrokerCreate, app
    <3>6. QED
      BY <2>2, <3>2, <3>3, <3>4, <3>5 DEF Next
  <2>4. TakeCopy(Head(inbox)) /\ Head(inbox).kind = "copy"
    BY <2>1, <2>3 DEF ReaderTake, TakeStateRep, TakeBatchResp
  <2>5. Head(inbox).q = q /\ ~Recorded(q)
    BY <2>1, <2>4 DEF TakeCopy
  <2>6. 1 \in 1..Len(inbox) /\ Head(inbox) = inbox[1]
    BY <2>3, EmptySeq DEF ReaderTake, IInv, Traffic
  <2>7. q \in Processed /\ GateOK(slot, q)
    BY <2>4, <2>5, <2>6 DEF NInv, Recognized, Gone, IsCopy
  <2>8. q \in Nat \ {0} /\ slot.min \in Nat /\ slot.max \in Nat
    BY AckPathAssumption DEF Seqs, IInv, Client, SlotOK
  <2>9. Recorded(q)
    BY <2>7, <2>8 DEF Recorded, Store!Seen, Store!Fresh, Processed, GateOK
  <2>10. QED
    BY <2>5, <2>9
<1>2. QED
  BY <1>1, Inductive, NInductive, PTL DEF NotRerun, Spec

-----------------------------------------------------------------------------
(* The relay's purge.                                                      *)

\* Whatever the consumer has sent is pending or settled, and what a reply drops is
\* settled.
Settled ==
  /\ \A x \in 1..(broker.low - 1) : x \in broker.settled
  /\ broker.exists => \A x \in 1..(broker.next - 1) : x \in broker.pending \cup broker.settled
  /\ \A i \in 1..Len(inbox) : Drops(inbox[i]) \subseteq broker.settled

LEMMA SInit == Init => Settled
BY DEF Init, NewConsumer, Settled

\* Steps that take nothing back: no frame is new but f, and what stops being pending is
\* settled.
LEMMA SettledKeeps ==
  ASSUME IInv, Settled, broker' \in Consumers, broker'.low = broker.low,
         broker.settled \subseteq broker'.settled,
         broker'.exists =>
           \A x \in 1..(broker'.next - 1) : x \in broker'.pending \cup broker'.settled,
         inbox' \in Seq(InFrames),
         \A i \in 1..Len(inbox') :
           \/ \E j \in 1..Len(inbox) : inbox'[i] = inbox[j]
           \/ Drops(inbox'[i]) \subseteq broker'.settled
  PROVE  Settled'
BY DEF Settled

LEMMA STake == ASSUME IInv, IInv', NInv, Settled, BrokerTake PROVE Settled'
<1> DEFINE f == Head(net)
           resp == [kind |-> "batchResp", cursor |-> Cursor']
           rep == [kind |-> "stateRep", known |-> broker.exists,
                   low    |-> IF broker.exists THEN broker.low ELSE 0,
                   gen    |-> IF broker.exists THEN broker.gen ELSE 0,
                   cursor |-> Cursor]
<1>1. \/ broker' = Released(f.seqs) /\ UNCHANGED inbox
      \/ (broker' = broker \/ broker' = Released(f.seqs)) /\ inbox' = Append(inbox, resp)
      \/ UNCHANGED broker /\ inbox' = Append(inbox, rep)
  BY DEF BrokerTake, Answer
<1>2. /\ broker \in Consumers /\ broker' \in Consumers
      /\ inbox \in Seq(InFrames) /\ inbox' \in Seq(InFrames)
  BY DEF IInv, Broker, Traffic
<1>3. /\ broker'.next = broker.next /\ broker'.exists = broker.exists /\ broker'.low = broker.low
      /\ broker.settled \subseteq broker'.settled
      /\ broker.pending \cup broker.settled \subseteq broker'.pending \cup broker'.settled
  BY <1>1, <1>2 DEF Released, Consumers
<1>4. broker'.exists =>
        \A x \in 1..(broker'.next - 1) : x \in broker'.pending \cup broker'.settled
  BY <1>3 DEF Settled
<1>5. Drops(resp) \subseteq broker'.settled
  <2> SUFFICES ASSUME NEW q \in Drops(resp) PROVE q \in broker'.settled
    OBVIOUS
  <2>1. q \in Nat \ {0} /\ q <= Cursor'
    BY AckPathAssumption DEF Drops, Seqs
  <2>2. broker'.exists /\ broker'.next \in Nat /\ broker'.pending \in SUBSET Nat
    BY <1>2, <2>1 DEF Cursor, Consumers
  <2>3. q <= Cardinality({x \in 1..(broker'.next - 1) : \A p \in broker'.pending : x < p})
    BY <2>1, <2>2 DEF Cursor
  <2>4. q < broker'.next /\ q \notin broker'.pending
    BY <2>1, <2>2, <2>3, CursorOK
  <2>5. QED
    BY <1>4, <2>1, <2>2, <2>4
<1>6. Drops(rep) \subseteq broker.settled
  <2> SUFFICES ASSUME NEW q \in Drops(rep) PROVE q \in broker.settled
    OBVIOUS
  <2>1. q \in Nat \ {0} /\ broker.exists /\ (q <= Cursor \/ q < broker.low)
    BY AckPathAssumption DEF Drops, Seqs, Cursor
  <2>2. broker.next \in Nat /\ broker.low \in Nat /\ broker.pending \in SUBSET Nat
    BY <1>2 DEF Consumers
  <2>3. CASE q < broker.low
    BY <2>1, <2>2, <2>3 DEF Settled
  <2>4. CASE q <= Cursor
    <3>1. q <= Cardinality({x \in 1..(broker.next - 1) : \A p \in broker.pending : x < p})
      BY <2>1, <2>4 DEF Cursor
    <3>2. q < broker.next /\ q \notin broker.pending
      BY <2>1, <2>2, <3>1, CursorOK
    <3>3. QED
      BY <2>1, <2>2, <3>2 DEF Settled
  <2>5. QED
    BY <2>1, <2>3, <2>4
<1>7. \A i \in 1..Len(inbox') :
        \/ \E j \in 1..Len(inbox) : inbox'[i] = inbox[j]
        \/ Drops(inbox'[i]) \subseteq broker'.settled
  <2>1. \A g \in InFrames : inbox' = Append(inbox, g) =>
          \A i \in 1..Len(inbox') : (i \in 1..Len(inbox) /\ inbox'[i] = inbox[i]) \/ inbox'[i] = g
    BY <1>2, AppendProperties, LenProperties
  <2>2. resp \in InFrames /\ rep \in InFrames
    <3>1. broker.next \in Nat /\ broker'.next \in Nat
      BY <1>2 DEF Consumers
    <3>2. Cursor \in Nat /\ Cursor' \in Nat
      BY <3>1, CursorType DEF Cursor
    <3>3. QED
      BY <1>2, <3>2 DEF InFrames, BatchResps, StateReps, Consumers
  <2> HIDE DEF resp, rep
  <2>3. QED
    BY <1>1, <1>3, <1>5, <1>6, <2>1, <2>2
<1>8. QED
  BY <1>2, <1>3, <1>4, <1>7, SettledKeeps

LEMMA SSend == ASSUME IInv, IInv', NInv, Settled, NEW q \in Seqs, BrokerSend(q) PROVE Settled'
<1> DEFINE f == [kind |-> "copy", q |-> q]
<1>1. inbox' = Append(inbox, f) /\ q \in broker.pending \cup {broker.next} /\ broker.exists
  BY DEF BrokerSend, Answer
<1>2. /\ broker \in Consumers /\ broker' \in Consumers
      /\ inbox \in Seq(InFrames) /\ inbox' \in Seq(InFrames)
  BY DEF IInv, Broker, Traffic
<1>3. /\ broker'.low = broker.low /\ broker'.settled = broker.settled
      /\ broker'.pending = broker.pending \cup {q}
      /\ broker'.next = IF q = broker.next THEN q + 1 ELSE broker.next
  BY <1>2 DEF BrokerSend, Consumers
<1>4. \A x \in 1..(broker'.next - 1) : x \in broker'.pending \cup broker'.settled
  BY <1>1, <1>2, <1>3 DEF Settled, Consumers
<1>5. f \in InFrames /\ Drops(f) = {}
  BY DEF InFrames, CopyFrames, Drops
<1> HIDE DEF f
<1>6. \A i \in 1..Len(inbox') : (i \in 1..Len(inbox) /\ inbox'[i] = inbox[i]) \/ inbox'[i] = f
  BY <1>1, <1>2, <1>5, AppendProperties, LenProperties
<1>7. QED
  BY <1>2, <1>3, <1>4, <1>5, <1>6, SettledKeeps

LEMMA SRest ==
  ASSUME IInv, IInv', NInv, Settled,
         \/ Flush \/ BatcherEnds \/ WriterSend \/ SweepRead \/ SweepSend \/ Tick \/ Break
         \/ Notice \/ ReplaySubscriptions \/ ReplayAckState \/ Reconnect \/ ReaderTake
         \/ BrokerDelete
         \/ \E q \in Seqs : Ack(q) \/ AckRecord(q)
  PROVE  Settled'
<1>1. /\ broker \in Consumers /\ broker' \in Consumers
      /\ inbox \in Seq(InFrames) /\ inbox' \in Seq(InFrames)
  BY DEF IInv, Broker, Traffic
<1>2. /\ broker'.low = broker.low /\ broker'.settled = broker.settled
      /\ broker'.exists => /\ broker.exists /\ broker'.next = broker.next
                           /\ broker'.pending = broker.pending
  <2>1. CASE Break \/ ReplaySubscriptions \/ BrokerDelete
    BY <1>1, <2>1 DEF Break, ReplaySubscriptions, BrokerDelete, Consumers
  <2>2. CASE UNCHANGED broker
    BY <2>2
  <2>3. QED
    BY <2>1, <2>2 DEF Flush, BatcherEnds, WriterSend, SweepRead, SweepSend, Tick, Notice,
       ReplayAckState, Reconnect, ReaderTake, Ack, AckRecord
<1>3. broker'.exists => \A x \in 1..(broker'.next - 1) : x \in broker'.pending \cup broker'.settled
  BY <1>2 DEF Settled
<1>4. \A i \in 1..Len(inbox') : \E j \in 1..Len(inbox) : inbox'[i] = inbox[j]
  <2>1. CASE Reconnect
    BY <2>1 DEF Reconnect
  <2>2. CASE ReaderTake
    <3>1. inbox # <<>> /\ inbox' = Tail(inbox)
      BY <2>2 DEF ReaderTake
    <3>2. /\ Len(inbox) \in Nat /\ Len(inbox') = Len(inbox) - 1
          /\ \A i \in 1..Len(inbox') : inbox'[i] = inbox[i + 1]
      BY <1>1, <3>1, HeadTailProperties, LenProperties
    <3>3. \A i \in 1..Len(inbox') : i + 1 \in 1..Len(inbox)
      BY <3>2
    <3>4. QED
      BY <3>2, <3>3
  <2>3. CASE UNCHANGED inbox
    BY <2>3
  <2>4. QED
    BY <2>1, <2>2, <2>3 DEF Flush, BatcherEnds, WriterSend, SweepRead, SweepSend, Tick, Break,
       Notice, ReplaySubscriptions, ReplayAckState, BrokerDelete, Ack, AckRecord, wire
<1>5. QED
  BY <1>1, <1>2, <1>3, <1>4, SettledKeeps

LEMMA SRetention ==
  ASSUME IInv, NInv, Settled, BrokerTrim \/ BrokerCreate PROVE Settled'
<1>1. broker \in Consumers
  BY DEF IInv, Broker
<1>2. CASE BrokerTrim
  <2>1. /\ broker'.low = broker.low + 1 /\ broker'.settled = broker.settled \cup {broker.low}
        /\ broker'.pending = broker.pending \ {broker.low} /\ UNCHANGED inbox
        /\ broker'.next = broker.next /\ broker.exists
    BY <1>1, <1>2 DEF BrokerTrim, Consumers, wire
  <2>2. broker.low \in Nat
    BY <1>1 DEF Consumers
  <2>3. QED
    BY <2>1, <2>2 DEF Settled
<1>3. CASE BrokerCreate
  <2>1. /\ broker'.low = broker.low /\ broker'.settled = broker.settled
        /\ broker'.next = broker.low /\ UNCHANGED inbox
    BY <1>3 DEF BrokerCreate, NewConsumer, wire
  <2>2. QED
    BY <2>1 DEF Settled
<1>4. QED
  BY <1>2, <1>3

THEOREM SInductive == Spec => []Settled
<1>1. IInv /\ IInv' /\ NInv /\ Settled /\ [Next]_vars => Settled'
  <2> SUFFICES ASSUME IInv, IInv', NInv, Settled, [Next]_vars PROVE Settled'
    OBVIOUS
  <2>1. CASE UNCHANGED vars
    BY <2>1 DEF vars, Settled
  <2>2. CASE Next
    BY <2>2, STake, SSend, SRest, SRetention DEF Next
  <2>3. QED
    BY <2>1, <2>2
<1>2. QED
  BY <1>1, SInit, Inductive, NInductive, PTL DEF Spec

\* What the reader takes from the relay of one generation is settled.
LEMMA ReaderPurges ==
  ASSUME IInv, Settled, ReaderTake, relay'.gen = relay.gen
  PROVE  Deferred(relay) \ Deferred(relay') \subseteq broker.settled
<1> DEFINE f == Head(inbox)
<1>1. /\ f \in InFrames /\ RelayOK(relay, now) /\ now \in Nat /\ Deferred(relay) \subseteq Seqs
      /\ f = inbox[1] /\ 1 \in 1..Len(inbox)
  BY HeadTailProperties, EmptySeq DEF ReaderTake, IInv, Client, Traffic
<1>2. /\ f.kind = "stateRep" => f \in StateReps
      /\ f.kind = "batchResp" => f \in BatchResps
  BY <1>1 DEF InFrames, CopyFrames, StateReps, BatchResps
<1>3. Drops(f) \subseteq broker.settled
  BY <1>1 DEF Settled
<1>4. \/ f.kind = "copy" /\ TakeCopy(f)
      \/ f.kind = "stateRep" /\ TakeStateRep(f)
      \/ f.kind = "batchResp" /\ TakeBatchResp(f)
  BY DEF ReaderTake
<1> HIDE DEF f
<1>5. CASE f.kind = "copy" /\ TakeCopy(f)
  BY <1>5 DEF TakeCopy
<1>6. CASE f.kind = "batchResp" /\ TakeBatchResp(f)
  <2>1. Deferred(relay') = Deferred(relay) \ {q \in Deferred(relay) : q <= f.cursor}
    BY <1>1, <1>6, PurgeOK DEF TakeBatchResp, ConfirmUpTo
  <2>2. QED
    BY <1>1, <1>3, <1>6, <2>1 DEF Drops
<1>7. CASE f.kind = "stateRep" /\ TakeStateRep(f)
  <2>1. CASE f.gen # relay.gen
    BY <1>7, <2>1 DEF TakeStateRep, EnsureGeneration, EmptyRelay
  <2>2. CASE f.gen = relay.gen
    <3>1. relay' = Purge(relay, UpTo(f.cursor) \cup UpTo(f.low - 1))
      BY <1>7, <2>2 DEF TakeStateRep
    <3>2. Deferred(relay') = Deferred(relay) \ (UpTo(f.cursor) \cup UpTo(f.low - 1))
      BY <1>1, <3>1, PurgeOK
    <3>3. QED
      BY <1>1, <1>2, <1>3, <1>7, <3>2, AckPathAssumption DEF UpTo, Drops, StateReps, Seqs
  <2>3. QED
    BY <2>1, <2>2
<1>8. QED
  BY <1>4, <1>5, <1>6, <1>7

\* DeferredUntilSettled, over any number of connections and generations and for any TTL:
\* neither a flush, nor a confirmation of an earlier connection, nor a retention floor
\* makes the relay forget an ack the broker has not acted upon.
THEOREM DeferredIsKept == Spec => DeferredUntilSettled
<1> DEFINE Step == \A q \in Deferred(relay) \ Deferred(relay)' :
                     \/ q \in broker.settled
                     \/ relay'.gen # relay.gen
                     \/ \E p \in Deferred(relay) : setup.ttl > 0 /\ relay.oldest < now - setup.ttl
<1>1. IInv /\ Settled /\ [Next]_vars => [Step]_vars
  <2> SUFFICES ASSUME IInv, Settled, Next, NEW q \in Deferred(relay), q \notin Deferred(relay'),
                      relay'.gen = relay.gen, q \notin broker.settled
               PROVE  setup.ttl > 0 /\ relay.oldest < now - setup.ttl
    BY DEF Deferred
  <2>1. RelayOK(relay, now) /\ now \in Nat \ {0} /\ acked \in SUBSET Seqs
    BY DEF IInv, Client
  <2>2. ~ReaderTake
    BY ReaderPurges
  <2>3. ~Flush
    <3> SUFFICES ASSUME Flush PROVE FALSE
      OBVIOUS
    <3> DEFINE n == IF Len(ch) < AckBatchMax THEN Len(ch) ELSE AckBatchMax
               S == {ch[i] : i \in 1..n}
    <3>1. relay' = relay \/ relay' = RecordAll(relay, S, now)
      BY DEF Flush
    <3>2. ch \in Seq(Seqs) /\ n \in Int /\ n <= Len(ch)
      BY <2>1, AckPathAssumption, SeqMonotonic, LenProperties DEF IInv, Traffic
    <3>3. S \in SUBSET Seqs
      BY <3>2, ElementOfSeq
    <3> HIDE DEF n, S
    <3>4. QED
      BY <2>1, <3>1, <3>3, RecordAllOK
  <2>4. relay' # relay
    OBVIOUS
  <2>5. \A r \in Seqs : ~Ack(r) /\ ~AckRecord(r) /\ ~BrokerSend(r)
    BY <2>4 DEF Ack, AckRecord, BrokerSend
  <2>6. SweepSend
    <3>1. ~BatcherEnds /\ ~WriterSend /\ ~SweepRead /\ ~Tick
      BY <2>4 DEF BatcherEnds, WriterSend, SweepRead, Tick
    <3>2. ~Break /\ ~Notice /\ ~Reconnect /\ ~ReplaySubscriptions /\ ~ReplayAckState
      BY <2>4 DEF Break, Notice, Reconnect, ReplaySubscriptions, ReplayAckState
    <3>3. ~BrokerTake /\ ~BrokerTrim /\ ~BrokerDelete /\ ~BrokerCreate
      BY <2>4 DEF BrokerTake, BrokerTrim, BrokerDelete, BrokerCreate
    <3>4. QED
      BY <2>2, <2>3, <2>5, <3>1, <3>2, <3>3 DEF Next
  <2>7. QED
    BY <2>4, <2>6 DEF SweepSend, Expire
<1>2. QED
  BY <1>1, Inductive, SInductive, PTL DEF DeferredUntilSettled, Spec

-----------------------------------------------------------------------------
(* Type correctness, capacities and bounds.                                *)

\* A connection that is lost leaves room for another; the generations at the
\* broker and in its replies are bounded; a copy is sent only for a hand that is free.
CountersFit ==
  /\ link # "up" => conn < MaxConn
  /\ broker.gen <= setup.gens /\ (~broker.exists => broker.gen < setup.gens)
  /\ broker.next # 0

InboxFits ==
  \A i \in 1..Len(inbox) :
    /\ inbox[i].kind = "stateRep" => inbox[i].gen <= setup.gens
    /\ inbox[i].kind = "copy" => held[inbox[i].q] < setup.hands
    /\ \A j \in 1..Len(inbox) :
         inbox[i].kind = "copy" /\ inbox[j].kind = "copy" /\ inbox[i].q = inbox[j].q => i = j

Bounded == CountersFit /\ InboxFits

TInv == TypeOK /\ Bounded

LEMMA SetupBounds ==
  ASSUME setup \in Setups
  PROVE  /\ setup.chan \in Nat \ {0} /\ setup.queue \in Nat \ {0}
         /\ setup.conns \in Nat \ {0} /\ setup.ticks \in Nat \ {0}
         /\ setup.ttl \in Nat /\ setup.seqs \in Nat /\ setup.wire \in Nat
         /\ setup.hands \in Nat /\ setup.gens \in Nat /\ setup.trims \in Nat
         /\ setup.cap \in Nat \ {0}
BY AckPathAssumption

LEMMA TInit == Init => TInv
<1> SUFFICES ASSUME Init PROVE TInv
  OBVIOUS
<1> USE DEF Init
<1>1. setup \in Setups
  OBVIOUS
<1>2. Len(queue) <= setup.queue /\ Len(net) <= setup.wire /\ Len(inbox) <= setup.wire
  <2>1. Len(net) = 0 /\ Len(inbox) = 0
    OBVIOUS
  <2>2. Len(queue) = 0 \/ Len(queue) = 1
    <3>1. CASE Dedup
      BY <3>1
    <3>2. CASE ~Dedup
      BY <3>2
    <3>3. QED
      BY <3>1, <3>2
  <2>3. setup.queue \in Nat \ {0} /\ setup.wire \in Nat
    BY <1>1, SetupBounds
  <2>4. QED
    BY <2>1, <2>2, <2>3
<1>3. PICK g \in 0..setup.gens : broker = NewConsumer(g)
  OBVIOUS
<1>4. /\ broker.pending = {} /\ broker.next = 1 /\ broker.gen = g /\ broker.exists
  BY <1>3 DEF NewConsumer
<1>5. Deferred(relay) = {} /\ relay.gen = 0
  BY EmptyRelayOK DEF EmptyRelay
<1>6. held \in [Seqs -> 0..setup.hands]
  BY <1>1, SetupBounds
<1>7. ch \in Seq(Seqs) /\ Len(ch) <= setup.chan
  <2>1. ch \in Seq(Seqs) /\ Len(ch) = 0
    OBVIOUS
  <2>2. QED
    BY <1>1, <2>1, SetupBounds
<1>8. Processed = {} /\ Len(slot.fifo) <= SlotCap
  <2>1. Processed = {} /\ Len(slot.fifo) = 0
    BY EmptySlotOK DEF Processed, Store!EmptySlot
  <2>2. QED
    BY <1>1, <2>1, SetupBounds DEF SlotCap
<1>9. TypeOK
  <2>1. conn \in 1..MaxConn /\ now \in 1..setup.ticks /\ relay.gen \in 0..setup.gens
    <3>1. conn = 1 /\ now = 1
      OBVIOUS
    <3>2. setup.conns \in Nat \ {0} /\ setup.ticks \in Nat \ {0} /\ setup.gens \in Nat
      BY <1>1, SetupBounds
    <3>3. QED
      BY ONLY <1>5, <3>1, <3>2 DEF MaxConn
  <2>2. /\ link = "up" /\ replay = "done" /\ batching = TRUE /\ sweep = {}
        /\ acked = {} /\ unrecorded = {} /\ done = {}
    OBVIOUS
  <2>3. QED
    BY ONLY <1>2, <1>4, <1>5, <1>6, <1>7, <1>8, <2>1, <2>2 DEF TypeOK, WireCap, AckChanCap
<1>10. Bounded
  BY <1>1, <1>4, SetupBounds DEF Bounded, CountersFit, InboxFits
<1>11. QED
  BY <1>9, <1>10 DEF TInv

\* What the queue and the channel of the batcher take.
LEMMA TrySendFits ==
  ASSUME NEW A, queue \in Seq(A), Len(queue) <= setup.queue, setup.queue \in Nat, NEW f \in A,
         TrySend(f)
  PROVE  Len(queue') <= setup.queue
<1>1. Len(queue) \in Nat /\ Len(Append(queue, f)) = Len(queue) + 1
  BY LenProperties, AppendProperties
<1>2. QED
  BY <1>1 DEF TrySend, Accepts

LEMMA BatcherAckFits ==
  ASSUME ch \in Seq(Seqs), Len(ch) <= setup.chan, setup.chan \in Nat, NEW q \in Seqs, BatcherAck(q)
  PROVE  ch' \in Seq(Seqs) /\ Len(ch') <= setup.chan
<1>1. Len(ch) \in Nat /\ Len(Append(ch, q)) = Len(ch) + 1
  BY LenProperties, AppendProperties
<1>2. QED
  BY <1>1, BatcherAckOK DEF BatcherAck, AckChanCap

LEMMA InboxTypes ==
  ASSUME inbox \in Seq(InFrames), NEW i \in 1..Len(inbox)
  PROVE  /\ inbox[i].kind = "copy" => inbox[i].q \in Seqs
         /\ inbox[i].kind = "stateRep" => inbox[i].gen \in Nat
<1> DEFINE f == inbox[i]
<1>1. f \in InFrames
  BY ElementOfSeq
<1> HIDE DEF f
<1>2. (f.kind = "copy" => f.q \in Seqs) /\ (f.kind = "stateRep" => f.gen \in Nat)
  BY <1>1 DEF InFrames, CopyFrames, StateReps, BatchResps
<1>3. QED
  BY <1>2 DEF f

LEMMA TAck == ASSUME IInv, TInv, NEW q \in Seqs, Ack(q) PROVE TInv'
<1> USE DEF Ack, wire
<1>1. setup \in Setups
  BY DEF IInv, Client
<1>2. ch' \in Seq(Seqs) /\ Len(ch') <= setup.chan
  BY <1>1, SetupBounds, BatcherAckFits DEF TInv, TypeOK, AckChanCap
<1>3. /\ held' \in [Seqs -> 0..setup.hands]
      /\ \A r \in Seqs : held'[r] <= held[r]
  <2>1. held \in [Seqs -> 0..setup.hands] /\ setup.hands \in Nat
    BY <1>1, SetupBounds DEF TInv, TypeOK
  <2>2. \A r \in Seqs : held'[r] = IF r = q THEN held[r] - 1 ELSE held[r]
    BY <2>1
  <2>3. \A r \in Seqs : held'[r] \in 0..setup.hands /\ held'[r] <= held[r]
    BY <2>1, <2>2
  <2>4. QED
    BY <2>1, <2>3
<1>4. /\ acked' \subseteq Seqs /\ unrecorded' \subseteq acked' /\ done' \subseteq acked'
      /\ UNCHANGED <<slot, Processed, SlotCap>>
  BY DEF TInv, TypeOK, Processed, SlotCap
<1>5. TypeOK'
  BY <1>2, <1>3, <1>4 DEF TInv, TypeOK, AckChanCap, MaxConn, WireCap
<1>6. Bounded'
  <2>1. \A i \in 1..Len(inbox) : inbox[i].kind = "copy" => inbox[i].q \in Seqs
    BY InboxTypes DEF IInv, Traffic
  <2>2. ASSUME NEW i \in 1..Len(inbox), inbox[i].kind = "copy"
        PROVE  held'[inbox[i].q] < setup.hands
    <3> DEFINE r == inbox[i].q
    <3>1. r \in Seqs /\ held[r] < setup.hands
      BY <2>1, <2>2 DEF TInv, Bounded, InboxFits
    <3> HIDE DEF r
    <3>2. held[r] \in Nat /\ held'[r] \in Nat /\ held'[r] <= held[r] /\ setup.hands \in Nat
      BY <1>1, <1>3, <3>1, SetupBounds DEF TInv, TypeOK
    <3>3. held'[r] < setup.hands
      BY ONLY <3>1, <3>2
    <3>4. QED
      BY <3>3 DEF r
  <2>3. CountersFit'
    BY DEF TInv, Bounded, CountersFit, MaxConn
  <2>4. InboxFits'
    BY <2>2 DEF TInv, Bounded, InboxFits
  <2>5. QED
    BY <2>3, <2>4 DEF Bounded
<1>7. QED
  BY <1>5, <1>6 DEF TInv

LEMMA TRecord == ASSUME IInv, TInv, NEW q \in Seqs, AckRecord(q) PROVE TInv'
<1>1. /\ Processed' \subseteq acked' /\ Len(slot'.fifo) <= SlotCap'
      /\ acked' \subseteq Seqs
  BY AckRecordKeeps DEF IInv, Client
<1>2. /\ unrecorded' \subseteq acked' /\ done' \subseteq acked'
      /\ UNCHANGED <<setup, conn, link, replay, ch, batching, wire, relay, sweep, now, held,
                     acked, broker>>
  BY DEF AckRecord, TInv, TypeOK
<1>3. TypeOK'
  BY <1>1, <1>2 DEF TInv, TypeOK, AckChanCap, MaxConn, WireCap, wire
<1>4. CountersFit' /\ InboxFits'
  BY <1>2 DEF TInv, Bounded, CountersFit, InboxFits, MaxConn, wire
<1>5. QED
  BY <1>3, <1>4 DEF TInv, Bounded

\* Steps that leave the reader's side, the hands and the broker's counters alone.
LEMMA TQuiet ==
  ASSUME IInv, TInv,
         UNCHANGED <<setup, conn, inbox, held, acked, unrecorded, slot, done>>,
         broker'.next = broker.next, broker'.gen = broker.gen, broker'.exists = broker.exists,
         broker'.pending \subseteq broker.pending,
         link' \in {"up", "broken", "closed"}, link = "up" /\ link' # "up" => conn < MaxConn,
         replay' \in {"subs", "acks", "done"}, batching' \in BOOLEAN,
         ch' \in Seq(Seqs), Len(ch') <= setup.chan,
         Len(queue') <= setup.queue, Len(net') <= setup.wire,
         Deferred(relay') \subseteq Seqs, relay'.gen \in 0..setup.gens,
         sweep' \subseteq Seqs, now' \in 1..setup.ticks
  PROVE  TInv'
<1>1. TypeOK'
  BY DEF TInv, TypeOK, AckChanCap, MaxConn, WireCap, Deferred, Processed, SlotCap
<1>2. CountersFit' /\ InboxFits'
  BY DEF TInv, Bounded, CountersFit, InboxFits, MaxConn
<1>3. QED
  BY <1>1, <1>2 DEF TInv, Bounded

\* What the invariants say of the places an ack can be in.
LEMMA TFacts ==
  ASSUME IInv, TInv
  PROVE  /\ setup \in Setups /\ conn \in 1..setup.conns /\ link \in {"up", "broken", "closed"}
         /\ replay \in {"subs", "acks", "done"} /\ batching \in BOOLEAN
         /\ ch \in Seq(Seqs) /\ Len(ch) <= setup.chan
         /\ queue \in Seq(OutFrames(acked)) /\ Len(queue) <= setup.queue
         /\ net \in Seq(OutFrames(acked)) /\ Len(net) <= setup.wire
         /\ Deferred(relay) \subseteq Seqs /\ relay.gen \in 0..setup.gens
         /\ RelayOK(relay, now) /\ acked \subseteq Seqs
         /\ sweep \subseteq Seqs /\ now \in 1..setup.ticks
         /\ broker \in Consumers
BY DEF IInv, Client, Traffic, Broker, TInv, TypeOK, MaxConn, WireCap, AckChanCap

\* Arithmetic on lengths.
LEMMA Later ==
  ASSUME NEW A, NEW q \in Seq(A), NEW n \in 0..Len(q), NEW c \in Nat, Len(q) <= c
  PROVE  Len(SubSeq(q, n + 1, Len(q))) <= c
<1>1. Len(q) \in Nat /\ \A i \in 1..Len(q) : q[i] \in A
  BY LenProperties, ElementOfSeq
<1>2. Len(SubSeq(q, n + 1, Len(q))) = IF n + 1 <= Len(q) THEN Len(q) - n ELSE 0
  BY <1>1, SubSeqProperties
<1>3. QED
  BY <1>1, <1>2

LEMMA Shorter ==
  ASSUME NEW A, NEW q \in Seq(A), q # <<>>, NEW c \in Nat, Len(q) <= c
  PROVE  Len(Tail(q)) <= c
<1>1. Len(q) \in Nat /\ Len(Tail(q)) = Len(q) - 1
  BY LenProperties, HeadTailProperties
<1>2. QED
  BY <1>1

LEMMA Longer ==
  ASSUME NEW A, NEW q \in Seq(A), NEW x \in A, NEW c \in Nat, Len(q) < c
  PROVE  Len(Append(q, x)) <= c
<1>1. Len(q) \in Nat /\ Len(Append(q, x)) = Len(q) + 1
  BY LenProperties, AppendProperties
<1>2. QED
  BY <1>1

LEMMA TBatcher == ASSUME IInv, TInv, Flush \/ BatcherEnds \/ WriterSend PROVE TInv'
<1> USE TFacts, SetupBounds DEF app, wire
<1>1. CASE Flush
  <2> DEFINE n == IF Len(ch) < AckBatchMax THEN Len(ch) ELSE AckBatchMax
             S == {ch[i] : i \in 1..n}
  <2>1. /\ ch' = SubSeq(ch, n + 1, Len(ch)) /\ TrySend(AckFrame(S))
        /\ relay' = IF Accepts THEN relay ELSE RecordAll(relay, S, now)
        /\ UNCHANGED <<setup, conn, link, replay, batching, net, inbox, sweep, now, app, broker>>
    BY <1>1 DEF Flush
  <2>2. ch \in Seq(Seqs) /\ ch \in Seq(acked) /\ Len(ch) \in Nat /\ n \in 0..Len(ch)
    <3> HIDE TFacts, SetupBounds DEF app, wire
    <3>1. ch \in Seq(Seqs) /\ ch \in Seq(acked)
      BY TFacts DEF IInv, Traffic
    <3>2. Len(ch) \in Nat
      BY <3>1, LenProperties
    <3>3. QED
      BY <3>1, <3>2, AckPathAssumption
  <2>3. \A i \in 1..Len(ch) : ch[i] \in acked /\ ch[i] \in Seqs
    BY <2>2, ElementOfSeq
  <2>4. S \in SUBSET acked /\ S \in SUBSET Seqs
    <3>1. \A i \in 1..n : i \in 1..Len(ch)
      BY ONLY <2>2
    <3> HIDE DEF n
    <3>2. QED
      BY ONLY <2>3, <3>1
  <2>5. ch' \in Seq(Seqs)
    BY <2>1, <2>2, <2>3, SubSeqProperties
  <2> HIDE DEF n, S
  <2>6. Len(ch') <= setup.chan
    BY <2>1, <2>2, Later
  <2>7. Len(queue') <= setup.queue
    BY <2>1, <2>4, FrameTypes, TrySendFits
  <2>8. now \in Nat \ {0}
    <3> HIDE TFacts, SetupBounds
    <3>1. QED
      BY DEF IInv, Client
  <2>9. Deferred(relay') \subseteq Seqs /\ relay'.gen \in 0..setup.gens
    <3>1. RecordAll(relay, S, now).gen = relay.gen
      BY DEF RecordAll, RelayOK
    <3>2. Deferred(RecordAll(relay, S, now)) = Deferred(relay) \cup S
      BY <2>4, <2>8, RecordAllOK
    <3>3. CASE relay' = relay
      BY <3>3
    <3>4. CASE relay' = RecordAll(relay, S, now)
      BY <2>4, <3>1, <3>2, <3>4
    <3>5. QED
      BY <2>1, <3>3, <3>4
  <2>10. QED
    BY <2>1, <2>5, <2>6, <2>7, <2>9, TQuiet
<1>2. CASE BatcherEnds
  <2>1. ch' \in Seq(Seqs) /\ Len(ch') = 0 /\ batching' = FALSE
    BY <1>2 DEF BatcherEnds
  <2>2. Len(ch') <= setup.chan
    BY <2>1
  <2>3. QED
    BY <1>2, <2>1, <2>2, TQuiet DEF BatcherEnds
<1>3. CASE WriterSend
  <2>1. queue # <<>> /\ Len(net) < setup.wire /\ net' = Append(net, Head(queue))
        /\ queue' = Tail(queue)
    BY <1>3 DEF WriterSend, WireCap
  <2>2. Len(queue') <= setup.queue
    BY <2>1, Shorter
  <2>3. Len(net') <= setup.wire
    <3>1. Head(queue) \in OutFrames(acked)
      BY <2>1, HeadTailProperties
    <3>2. QED
      BY <2>1, <3>1, Longer
  <2>4. QED
    BY <1>3, <2>2, <2>3, TQuiet DEF WriterSend
<1>4. QED
  BY <1>1, <1>2, <1>3

LEMMA TSweep == ASSUME IInv, TInv, SweepRead \/ SweepSend \/ Tick PROVE TInv'
<1> USE TFacts, SetupBounds DEF app, wire
<1>1. CASE SweepRead
  BY <1>1, TQuiet DEF SweepRead
<1>2. CASE SweepSend
  <2>1. AckBatchFrame(relay.gen, sweep) \in OutFrames(acked)
    BY FrameTypes DEF RelayOK, IInv, Client
  <2>2. TrySend(AckBatchFrame(relay.gen, sweep))
    BY <1>2 DEF SweepSend
  <2>3. Len(queue') <= setup.queue
    BY <2>1, <2>2, TrySendFits
  <2>4. Deferred(relay') \subseteq Seqs /\ relay'.gen = relay.gen
    <3>1. Deferred(Expire(relay, now - setup.ttl)) \subseteq Deferred(relay)
      BY ExpireOK
    <3>2. Expire(relay, now - setup.ttl).gen = relay.gen
      BY DEF Expire, EmptyRelay
    <3>3. relay' = relay \/ relay' = Expire(relay, now - setup.ttl)
      BY <1>2 DEF SweepSend
    <3>4. QED
      BY <3>1, <3>2, <3>3
  <2>5. {} \subseteq Seqs
    OBVIOUS
  <2>6. QED
    BY <1>2, <2>3, <2>4, <2>5, TQuiet DEF SweepSend
<1>3. CASE Tick
  <2>1. now' \in 1..setup.ticks
    <3>1. now < setup.ticks /\ now' = now + 1
      BY <1>3 DEF Tick
    <3>2. now \in Nat /\ setup.ticks \in Nat
      <4> HIDE TFacts, SetupBounds
      <4>1. setup \in Setups /\ now \in Nat
        BY DEF IInv, Client
      <4>2. QED
        BY <4>1, SetupBounds
    <3>3. QED
      BY ONLY <3>1, <3>2
  <2>2. UNCHANGED <<setup, conn, link, replay, ch, batching, queue, net, inbox, relay, sweep,
                    held, slot, acked, unrecorded, done, broker>>
    BY <1>3 DEF Tick
  <2>3. QED
    BY <2>1, <2>2, TQuiet
<1>4. QED
  BY <1>1, <1>2, <1>3

LEMMA TConnections ==
  ASSUME IInv, TInv, Break \/ Notice \/ ReplaySubscriptions \/ ReplayAckState PROVE TInv'
<1> USE TFacts, SetupBounds DEF app, wire
<1>1. CASE Break
  <2>1. Len(net') = 0
    BY <1>1 DEF Break
  <2>2. broker' = [broker EXCEPT !.bound = FALSE]
    BY <1>1 DEF Break
  <2>3. /\ broker'.next = broker.next /\ broker'.gen = broker.gen
        /\ broker'.exists = broker.exists /\ broker'.pending = broker.pending
    BY <2>2 DEF Consumers
  <2>4. QED
    BY <1>1, <2>1, <2>3, TQuiet DEF Break
<1>2. CASE Notice
  BY <1>2, TQuiet DEF Notice
<1>3. CASE ReplaySubscriptions
  <2>1. PICK b : broker' = [broker EXCEPT !.bound = b]
    BY <1>3 DEF ReplaySubscriptions
  <2>2. /\ broker'.next = broker.next /\ broker'.gen = broker.gen
        /\ broker'.exists = broker.exists /\ broker'.pending = broker.pending
    BY <2>1 DEF Consumers
  <2>3. QED
    BY <1>3, <2>2, TQuiet DEF ReplaySubscriptions
<1>4. CASE ReplayAckState
  <2>1. StateReq(relay.gen) \in OutFrames(acked)
    BY FrameTypes DEF RelayOK
  <2>2. UNCHANGED queue \/ TrySend(StateReq(relay.gen))
    BY <1>4 DEF ReplayAckState
  <2>3. Len(queue') <= setup.queue
    BY <2>1, <2>2, TrySendFits
  <2>4. QED
    BY <1>4, <2>3, TQuiet DEF ReplayAckState
<1>5. QED
  BY <1>1, <1>2, <1>3, <1>4

LEMMA TReconnect == ASSUME IInv, TInv, Reconnect PROVE TInv'
<1> USE TFacts, SetupBounds DEF app
<1>1. /\ ch' \in Seq(Seqs) /\ Len(ch') = 0
      /\ Len(queue') = 0 /\ Len(net') = 0 /\ Len(inbox') = 0
  BY DEF Reconnect
<1>2. conn' \in 1..setup.conns
  <2>1. conn \in Nat /\ conn < setup.conns /\ conn' = conn + 1
    BY DEF Reconnect, TInv, Bounded, CountersFit, MaxConn
  <2>2. QED
    BY <2>1
<1>3. TypeOK'
  <2>1. /\ Len(ch') <= setup.chan /\ Len(queue') <= setup.queue
        /\ Len(net') <= setup.wire /\ Len(inbox') <= setup.wire
    <3> HIDE TFacts, SetupBounds
    <3>1. setup \in Setups
      BY DEF IInv, Client
    <3>2. setup.chan \in Nat /\ setup.queue \in Nat /\ setup.wire \in Nat
      BY <3>1, SetupBounds
    <3>3. QED
      BY ONLY <1>1, <3>2
  <2>2. QED
    BY <1>1, <1>2, <2>1
       DEF Reconnect, TInv, TypeOK, MaxConn, WireCap, AckChanCap, Processed, SlotCap
<1>4. CountersFit' /\ InboxFits'
  BY <1>1 DEF Reconnect, TInv, Bounded, CountersFit, InboxFits
<1>5. QED
  BY <1>3, <1>4 DEF TInv, Bounded

\* The reader takes a frame: the others stay as they are, one place further.
LEMMA TReader == ASSUME IInv, TInv, ReaderTake PROVE TInv'
<1> USE TFacts, SetupBounds
<1> DEFINE f == Head(inbox)
           n == Len(inbox)
<1>1. /\ inbox \in Seq(InFrames) /\ inbox # <<>>
      /\ inbox' = Tail(inbox) /\ f = inbox[1] /\ n \in Nat /\ n >= 1
      /\ UNCHANGED <<setup, conn, link, replay, batching, net, sweep, now, acked, unrecorded,
                     done, broker>>
  BY EmptySeq, LenProperties DEF ReaderTake, IInv, Traffic
<1>2. Len(inbox') = n - 1 /\ \A i \in 1..(n - 1) : inbox'[i] = inbox[i + 1]
  BY <1>1, HeadTailProperties
<1>3. /\ 1 \in 1..n
      /\ f.kind = "copy" => f.q \in Seqs /\ held[f.q] < setup.hands
      /\ f.kind = "stateRep" => f.gen \in Nat /\ f.gen <= setup.gens
  <2> HIDE TFacts, SetupBounds
  <2>1. 1 \in 1..n
    BY <1>1
  <2>2. (f.kind = "copy" => f.q \in Seqs) /\ (f.kind = "stateRep" => f.gen \in Nat)
    BY <1>1, <2>1, InboxTypes
  <2>3. (f.kind = "copy" => held[f.q] < setup.hands) /\ (f.kind = "stateRep" => f.gen <= setup.gens)
    BY <1>1, <2>1 DEF TInv, Bounded, InboxFits
  <2>4. QED
    BY <2>1, <2>2, <2>3
<1>4. \/ f.kind = "copy" /\ TakeCopy(f)
      \/ f.kind = "stateRep" /\ TakeStateRep(f)
      \/ f.kind = "batchResp" /\ TakeBatchResp(f)
  BY DEF ReaderTake
<1>5. /\ ch' \in Seq(Seqs) /\ Len(ch') <= setup.chan /\ Len(queue') <= setup.queue
      /\ Deferred(relay') \subseteq Seqs /\ relay'.gen \in 0..setup.gens
  <2> HIDE DEF f
  <2>1. CASE f.kind = "copy" /\ TakeCopy(f)
    <3>1. BatcherAck(f.q) \/ UNCHANGED ch
      BY <2>1 DEF TakeCopy
    <3>2. ch' \in Seq(Seqs) /\ Len(ch') <= setup.chan
      BY <1>3, <2>1, <3>1, BatcherAckFits
    <3>3. QED
      BY <2>1, <3>2 DEF TakeCopy
  <2>2. CASE f.kind = "batchResp" /\ TakeBatchResp(f)
    <3>1. Deferred(ConfirmUpTo(relay, f.cursor)) \subseteq Deferred(relay)
      BY PurgeOK DEF ConfirmUpTo
    <3>2. ConfirmUpTo(relay, f.cursor).gen = relay.gen
      BY DEF ConfirmUpTo, Purge, RelayOK
    <3>3. QED
      BY <2>2, <3>1, <3>2 DEF TakeBatchResp
  <2>3. CASE f.kind = "stateRep" /\ TakeStateRep(f)
    <3> DEFINE settled == Purge(relay, UpTo(f.cursor) \cup UpTo(f.low - 1))
    <3>1. /\ Deferred(settled) \subseteq Deferred(relay) /\ settled.gen = relay.gen
      <4>1. PICK S : settled = Purge(relay, S)
        OBVIOUS
      <4> HIDE DEF settled
      <4>2. Deferred(Purge(relay, S)) = Deferred(relay) \ S
        <5> HIDE TFacts, SetupBounds
        <5>1. RelayOK(relay, now) /\ now \in Nat
          BY DEF IInv, Client
        <5>2. QED
          BY <5>1, PurgeOK
      <4>3. Purge(relay, S).gen = relay.gen
        BY DEF Purge, RelayOK
      <4>4. QED
        BY <4>1, <4>2, <4>3
    <3>2. ch' = ch
      BY <2>3 DEF TakeStateRep
    <3>3. \/ relay' = settled /\ (UNCHANGED queue \/ TrySend(AckBatchFrame(f.gen, Deferred(settled))))
          \/ relay' = EnsureGeneration(relay, f.gen) /\ UNCHANGED queue
      BY <2>3 DEF TakeStateRep
    <3> HIDE DEF settled
    <3>4. CASE relay' = EnsureGeneration(relay, f.gen) /\ UNCHANGED queue
      <4>1. f.gen \in Nat /\ f.gen <= setup.gens /\ now \in Nat
        BY <1>3, <2>3
      <4>2. Deferred(EnsureGeneration(relay, f.gen)) \subseteq Deferred(relay)
        BY <4>1, EnsureOK
      <4>3. EnsureGeneration(relay, f.gen).gen = f.gen
        BY DEF EnsureGeneration, EmptyRelay
      <4>4. QED
        BY <3>2, <3>4, <4>1, <4>2, <4>3
    <3>5. CASE relay' = settled /\ (UNCHANGED queue \/ TrySend(AckBatchFrame(f.gen, Deferred(settled))))
      <4>1. Deferred(settled) \in SUBSET acked /\ f.gen \in Nat
        BY <1>3, <2>3, <3>1 DEF IInv, Client
      <4>2. AckBatchFrame(f.gen, Deferred(settled)) \in OutFrames(acked)
        BY <4>1, FrameTypes
      <4>3. Len(queue') <= setup.queue
        BY <3>5, <4>2, TrySendFits
      <4>4. QED
        BY <3>1, <3>2, <3>5, <4>3
    <3>6. QED
      BY <3>3, <3>4, <3>5
  <2>4. QED
    BY <1>4, <2>1, <2>2, <2>3
<1>6. /\ held' = held \/ (f.kind = "copy" /\ held' = [held EXCEPT ![f.q] = @ + 1])
      /\ held \in [Seqs -> 0..setup.hands]
  BY <1>4 DEF TakeCopy, TakeStateRep, TakeBatchResp, TInv, TypeOK
<1> HIDE DEF f, n
<1>7. held' \in [Seqs -> 0..setup.hands]
  <2>1. CASE held' = held
    BY <1>6, <2>1
  <2>2. CASE f.kind = "copy" /\ held' = [held EXCEPT ![f.q] = @ + 1]
    <3>1. PICK q \in Seqs : q = f.q
      BY <1>3, <2>2
    <3>2. held[q] \in 0..setup.hands /\ held[q] < setup.hands /\ setup.hands \in Nat
      BY <1>3, <1>6, <2>2, <3>1
    <3>3. held[q] + 1 \in 0..setup.hands
      BY ONLY <3>2
    <3>4. QED
      BY ONLY <1>6, <2>2, <3>1, <3>3
  <2>3. QED
    BY <1>6, <2>1, <2>2
<1>8. TypeOK'
  <2>1. Len(inbox') <= setup.wire
    <3>1. n <= setup.wire /\ setup.wire \in Nat
      BY DEF TInv, TypeOK, WireCap, n
    <3>2. QED
      BY ONLY <1>1, <1>2, <3>1
  <2>2. Processed' \subseteq Seqs /\ Len(slot'.fifo) <= SlotCap'
    BY <1>1, ReaderSlot DEF SlotLoses, TInv, TypeOK, SlotCap
  <2>3. QED
    BY <1>1, <1>5, <1>7, <2>1, <2>2 DEF TInv, TypeOK, MaxConn, WireCap, AckChanCap
<1>9. Bounded'
  <2>1. \A i \in 1..(n - 1) : i + 1 \in 1..n
    BY <1>1
  <2>2. ASSUME NEW i \in 1..(n - 1), inbox'[i].kind = "copy"
        PROVE  held'[inbox'[i].q] < setup.hands
    <3> DEFINE g == inbox[i + 1]
    <3>1. g = inbox'[i] /\ i + 1 \in 1..n
      BY <1>2, <2>1
    <3>2. g.q \in Seqs /\ held[g.q] < setup.hands
      BY <1>1, <2>2, <3>1, InboxTypes DEF TInv, Bounded, InboxFits, n
    <3>3. f.kind = "copy" => f.q # g.q
      <4>1. 1 # i + 1
        OBVIOUS
      <4>2. QED
        BY <1>1, <1>3, <2>2, <3>1, <4>1 DEF TInv, Bounded, InboxFits, n
    <3> HIDE DEF g
    <3>4. held'[g.q] = held[g.q]
      BY <1>3, <1>6, <3>2, <3>3
    <3>5. QED
      BY <3>1, <3>2, <3>4
  <2>3. ASSUME NEW i \in 1..(n - 1), inbox'[i].kind = "stateRep"
        PROVE  inbox'[i].gen <= setup.gens
    BY <1>2, <2>1, <2>3 DEF TInv, Bounded, InboxFits, n
  <2>4. ASSUME NEW i \in 1..(n - 1), NEW j \in 1..(n - 1),
               inbox'[i].kind = "copy", inbox'[j].kind = "copy", inbox'[i].q = inbox'[j].q
        PROVE  i = j
    <3>1. i + 1 = j + 1
      BY <1>2, <2>1, <2>4 DEF TInv, Bounded, InboxFits, n
    <3>2. QED
      BY <3>1
  <2>5. CountersFit'
    BY <1>1 DEF TInv, Bounded, CountersFit, MaxConn
  <2>6. InboxFits'
    <3>1. setup' = setup /\ Len(inbox') = n - 1
      BY <1>1, <1>2
    <3>2. QED
      BY ONLY <3>1, <2>2, <2>3, <2>4 DEF InboxFits
  <2>7. QED
    BY <2>5, <2>6 DEF Bounded
<1>10. QED
  BY <1>8, <1>9 DEF TInv

\* An answer of the broker that is no copy.
LEMMA TAnswer ==
  ASSUME IInv, TInv, NEW f \in InFrames, Answer(f), f.kind # "copy",
         f.kind = "stateRep" => f.gen <= setup.gens,
         UNCHANGED <<setup, held>>
  PROVE  Len(inbox') <= setup.wire /\ InboxFits'
<1> DEFINE n == Len(inbox)
<1>1. inbox \in Seq(InFrames) /\ n \in Nat /\ n < setup.wire /\ setup.wire \in Nat
  BY TFacts, SetupBounds, LenProperties DEF IInv, Traffic, Answer, WireCap
<1>2. inbox' = Append(inbox, f)
  BY DEF Answer
<1>3. /\ Len(inbox') = n + 1 /\ inbox'[n + 1] = f
      /\ \A i \in 1..n : inbox'[i] = inbox[i]
  BY <1>1, <1>2, AppendProperties
<1>4. \A i \in 1..(n + 1) : i \in 1..n \/ i = n + 1
  BY <1>1
<1>5. \A i \in 1..(n + 1) : inbox'[i].kind = "copy" => i \in 1..n
  BY <1>3, <1>4
<1>6. InboxFits'
  BY <1>3, <1>4, <1>5 DEF TInv, Bounded, InboxFits
<1>7. QED
  BY <1>1, <1>3, <1>6

LEMMA TTake == ASSUME IInv, IInv', TInv, BrokerTake PROVE TInv'
<1> USE TFacts, SetupBounds
<1> DEFINE f == Head(net)
<1>1. /\ net' = Tail(net) /\ net # <<>>
      /\ UNCHANGED <<setup, conn, link, replay, ch, batching, queue, relay, sweep, now, app>>
  BY DEF BrokerTake
<1>2. Len(net') <= setup.wire
  BY <1>1, Shorter
<1>3. \E S : broker' = Released(S) \/ broker' = broker
  BY DEF BrokerTake
<1>4. /\ broker'.next = broker.next /\ broker'.gen = broker.gen
      /\ broker'.exists = broker.exists /\ broker'.pending \subseteq broker.pending
  <2>1. PICK S : broker' = Released(S) \/ broker' = broker
    BY <1>3
  <2>2. QED
    BY <2>1 DEF Released, Consumers
<1>5. \/ UNCHANGED inbox
      \/ Answer([kind |-> "batchResp", cursor |-> Cursor'])
      \/ Answer([kind |-> "stateRep", known |-> broker.exists,
                 low    |-> IF broker.exists THEN broker.low ELSE 0,
                 gen    |-> IF broker.exists THEN broker.gen ELSE 0,
                 cursor |-> Cursor])
  BY DEF BrokerTake
<1>6. Cursor \in Nat /\ Cursor' \in Nat
  BY CursorType DEF Cursor, IInv, Broker, Consumers
<1>7. CASE UNCHANGED inbox
  BY <1>1, <1>2, <1>4, <1>7, TQuiet DEF app
<1>8. ASSUME NEW r \in InFrames, Answer(r), r.kind # "copy",
             r.kind = "stateRep" => r.gen <= setup.gens
      PROVE  TInv'
  <2>1. UNCHANGED <<setup, held>>
    BY <1>1 DEF app
  <2>2. Len(inbox') <= setup.wire /\ InboxFits'
    BY <1>8, <2>1, TAnswer
  <2>3. TypeOK'
    BY <1>1, <1>2, <1>4, <2>2
       DEF TInv, TypeOK, MaxConn, WireCap, AckChanCap, app, Processed, SlotCap
  <2>4. CountersFit'
    BY <1>1, <1>4 DEF TInv, Bounded, CountersFit, MaxConn, app
  <2>5. QED
    BY <2>2, <2>3, <2>4 DEF TInv, Bounded
<1>9. CASE Answer([kind |-> "batchResp", cursor |-> Cursor'])
  <2>1. [kind |-> "batchResp", cursor |-> Cursor'] \in InFrames
    BY <1>6 DEF InFrames, BatchResps
  <2>2. QED
    BY <1>8, <1>9, <2>1
<1>10. CASE Answer([kind |-> "stateRep", known |-> broker.exists,
                    low    |-> IF broker.exists THEN broker.low ELSE 0,
                    gen    |-> IF broker.exists THEN broker.gen ELSE 0,
                    cursor |-> Cursor])
  <2> DEFINE l == IF broker.exists THEN broker.low ELSE 0
             g == IF broker.exists THEN broker.gen ELSE 0
  <2>1. l \in Nat /\ g \in Nat /\ g <= setup.gens /\ broker.exists \in BOOLEAN
    <3> HIDE TFacts, SetupBounds
    <3>1. broker.low \in Nat /\ broker.gen \in Nat /\ broker.exists \in BOOLEAN
      BY TFacts DEF Consumers
    <3>2. broker.gen <= setup.gens
      BY DEF TInv, Bounded, CountersFit
    <3>3. setup.gens \in Nat
      BY TFacts, SetupBounds
    <3>4. QED
      BY ONLY <3>1, <3>2, <3>3
  <2> HIDE DEF l, g
  <2> DEFINE r == [kind |-> "stateRep", known |-> broker.exists, low |-> l, gen |-> g,
                   cursor |-> Cursor]
  <2>2. r \in InFrames
    BY <1>6, <2>1 DEF InFrames, StateReps
  <2>3. r.gen = g /\ r.kind = "stateRep"
    OBVIOUS
  <2>4. Answer(r)
    BY <1>10 DEF l, g
  <2> HIDE DEF r
  <2>5. QED
    BY <1>8, <2>1, <2>2, <2>3, <2>4
<1>11. QED
  BY <1>5, <1>7, <1>9, <1>10

LEMMA TSend == ASSUME IInv, TInv, NEW q \in Seqs, BrokerSend(q) PROVE TInv'
<1> USE TFacts, SetupBounds
<1> DEFINE n == Len(inbox)
           f == [kind |-> "copy", q |-> q]
           K == {i \in 1..n : inbox[i].kind = "copy" /\ inbox[i].q = q}
<1>1. /\ q \in broker.pending \cup {broker.next} /\ held[q] < setup.hands
      /\ n < setup.wire /\ inbox' = Append(inbox, f)
      /\ UNCHANGED <<setup, conn, link, replay, ch, batching, queue, net, relay, sweep, now, app>>
      /\ broker' = [broker EXCEPT !.pending = @ \cup {q}, !.next = IF q = @ THEN q + 1 ELSE @]
  BY DEF BrokerSend, Answer, WireCap
<1>2. inbox \in Seq(InFrames) /\ n \in Nat /\ q \in Nat
  BY AckPathAssumption, LenProperties DEF IInv, Traffic, Seqs
<1>3. K = {}
  <2>1. IsFiniteSet(1..n) /\ K \in SUBSET (1..n)
    BY <1>2, FS_Interval
  <2>2. Cardinality(K) = 0
    BY DEF BrokerSend, Copies
  <2> HIDE DEF K
  <2>3. QED
    BY <2>1, <2>2, FS_Subset, FS_EmptySet
<1>4. Len(inbox') = n + 1 /\ inbox'[n + 1] = f /\ \A i \in 1..n : inbox'[i] = inbox[i]
  <2>1. f \in InFrames
    BY DEF InFrames, CopyFrames
  <2>2. QED
    BY <1>1, <1>2, <2>1, AppendProperties
<1>5. /\ broker'.pending = broker.pending \cup {q} /\ broker'.gen = broker.gen
      /\ broker'.next = IF q = broker.next THEN q + 1 ELSE broker.next
      /\ broker'.exists = broker.exists
  BY <1>1 DEF Consumers
<1>6. /\ broker.next \in Nat \ {0} /\ broker.pending \subseteq 1..(broker.next - 1)
  <2> HIDE TFacts, SetupBounds
  <2>1. broker.next \in Nat /\ broker.next # 0
    BY TFacts DEF Consumers, TInv, Bounded, CountersFit
  <2>2. QED
    BY <2>1 DEF TInv, TypeOK
<1>7. broker'.next \in Nat \ {0} /\ broker'.pending \subseteq 1..(broker'.next - 1)
  <2>1. CASE q = broker.next
    <3>1. broker'.next = q + 1 /\ q \in Nat \ {0}
      BY ONLY <1>5, <1>6, <2>1
    <3>2. broker.pending \subseteq 1..(q - 1)
      BY ONLY <1>6, <2>1
    <3>3. broker.pending \cup {q} \subseteq 1..q
      BY ONLY <3>1, <3>2
    <3>4. broker'.next - 1 = q /\ broker'.next \in Nat \ {0}
      BY ONLY <3>1
    <3>5. QED
      BY ONLY <1>5, <3>3, <3>4
  <2>2. CASE q \in broker.pending /\ q # broker.next
    <3>1. broker'.pending = broker.pending /\ broker'.next = broker.next
      BY ONLY <1>5, <2>2
    <3>2. QED
      BY ONLY <1>6, <3>1
  <2>3. QED
    BY ONLY <1>1, <2>1, <2>2
<1>8. f.kind = "copy" /\ f.q = q
  OBVIOUS
<1>9. \A i \in 1..n : inbox[i].kind = "copy" => inbox[i].q # q
  BY <1>3
<1> HIDE DEF f, n, K
<1>10. \A i \in 1..(n + 1) : i \in 1..n \/ i = n + 1
  BY <1>2
<1>11. TypeOK'
  <2>1. Len(inbox') <= setup.wire
    BY <1>1, <1>2, <1>4
  <2>2. QED
    BY <1>1, <1>7, <2>1 DEF TInv, TypeOK, MaxConn, WireCap, AckChanCap, app, Processed, SlotCap
<1>12. Bounded'
  <2> HIDE TFacts, SetupBounds
  <2>1. held' = held /\ setup' = setup /\ conn' = conn /\ link' = link
    BY <1>1 DEF app
  <2>2. \A i \in 1..(n + 1) : inbox'[i].kind = "copy" => held'[inbox'[i].q] < setup.hands
    BY <1>1, <1>4, <1>8, <1>10, <2>1 DEF TInv, Bounded, InboxFits, n
  <2>3. \A i \in 1..(n + 1) : inbox'[i].kind = "stateRep" => inbox'[i].gen <= setup.gens
    BY <1>4, <1>8, <1>10 DEF TInv, Bounded, InboxFits, n
  <2>4. \A i, j \in 1..(n + 1) :
          inbox'[i].kind = "copy" /\ inbox'[j].kind = "copy" /\ inbox'[i].q = inbox'[j].q => i = j
    <3>1. \A i, j \in 1..n :
            inbox[i].kind = "copy" /\ inbox[j].kind = "copy" /\ inbox[i].q = inbox[j].q => i = j
      BY DEF TInv, Bounded, InboxFits, n
    <3>2. QED
      BY ONLY <1>4, <1>8, <1>9, <1>10, <3>1
  <2>5. CountersFit'
    BY <1>5, <1>7, <2>1 DEF TInv, Bounded, CountersFit, MaxConn
  <2>6. InboxFits'
    BY <1>4, <2>1, <2>2, <2>3, <2>4 DEF InboxFits
  <2>7. QED
    BY <2>5, <2>6 DEF Bounded
<1>13. QED
  BY <1>11, <1>12 DEF TInv

LEMMA TRest == ASSUME IInv, TInv, BrokerTrim \/ BrokerDelete \/ BrokerCreate PROVE TInv'
<1> USE TFacts, SetupBounds DEF wire, app
<1>1. CASE BrokerTrim
  <2> DEFINE p == broker.pending \ {broker.low}
             l == broker.low + 1
             d == broker.settled \cup {broker.low}
  <2>1. broker' = [broker EXCEPT !.low = l, !.pending = p, !.settled = d]
        /\ p \subseteq broker.pending
    BY <1>1 DEF BrokerTrim
  <2> HIDE DEF p, l, d
  <2>2. /\ broker'.next = broker.next /\ broker'.gen = broker.gen
        /\ broker'.exists = broker.exists /\ broker'.pending \subseteq broker.pending
    BY <2>1 DEF Consumers
  <2>3. QED
    BY <1>1, <2>2, TQuiet DEF BrokerTrim
<1>2. CASE BrokerDelete
  <2>1. broker' = [broker EXCEPT !.exists = FALSE, !.pending = {}] /\ broker.gen < setup.gens
    BY <1>2 DEF BrokerDelete
  <2>2. /\ broker'.next = broker.next /\ broker'.gen = broker.gen
        /\ broker'.pending = {}
    BY <2>1 DEF Consumers
  <2>3. TypeOK'
    BY <1>2, <2>2
       DEF BrokerDelete, TInv, TypeOK, MaxConn, WireCap, AckChanCap, Processed, SlotCap
  <2>4. CountersFit' /\ InboxFits'
    BY <1>2, <2>1, <2>2 DEF BrokerDelete, TInv, Bounded, CountersFit, InboxFits, MaxConn
  <2>5. QED
    BY <2>3, <2>4 DEF TInv, Bounded
<1>3. CASE BrokerCreate
  <2>1. /\ broker'.gen = broker.gen + 1 /\ broker'.exists /\ broker'.pending = {}
        /\ broker'.next = broker.low
    BY <1>3 DEF BrokerCreate, NewConsumer
  <2>2. broker.gen < setup.gens /\ broker.low \in Nat \ {0} /\ broker.gen \in Nat
    <3>1. broker.gen < setup.gens
      BY <1>3 DEF BrokerCreate, TInv, Bounded, CountersFit
    <3>2. QED
      BY <3>1 DEF Consumers
  <2>3. TypeOK'
    BY <1>3, <2>1
       DEF BrokerCreate, TInv, TypeOK, MaxConn, WireCap, AckChanCap, Processed, SlotCap
  <2>4. CountersFit' /\ InboxFits'
    <3> HIDE TFacts, SetupBounds DEF wire, app
    <3>1. setup.gens \in Nat
      BY TFacts, SetupBounds
    <3>2. broker'.gen <= setup.gens /\ broker'.next # 0
      BY ONLY <2>1, <2>2, <3>1
    <3>3. UNCHANGED <<setup, conn, link, inbox, held>>
      BY <1>3 DEF BrokerCreate, wire, app
    <3>4. InboxFits'
      BY <3>3 DEF TInv, Bounded, InboxFits
    <3>5. CountersFit'
      BY <2>1, <3>2, <3>3 DEF TInv, Bounded, CountersFit, MaxConn
    <3>6. QED
      BY <3>4, <3>5
  <2>5. QED
    BY <2>3, <2>4 DEF TInv, Bounded
<1>4. QED
  BY <1>1, <1>2, <1>3

\* TypeOK, for any capacities and bounds: no channel, queue or direction of the
\* socket holds more than its capacity, the relay's generation is one the broker has
\* had, and the application is never handed more copies than it has hands for.
THEOREM TypeCorrect == Spec => []TypeOK
<1>1. IInv /\ IInv' /\ TInv /\ [Next]_vars => TInv'
  <2> SUFFICES ASSUME IInv, IInv', TInv, [Next]_vars PROVE TInv'
    OBVIOUS
  <2>1. CASE UNCHANGED vars
    BY <2>1 DEF vars, TInv, TypeOK, Bounded, CountersFit, InboxFits, MaxConn, WireCap, AckChanCap,
       Processed, SlotCap
  <2>2. CASE Next
    <3>1. ASSUME NEW q \in Seqs, Ack(q) \/ AckRecord(q) \/ BrokerSend(q) PROVE TInv'
      BY <3>1, TAck, TRecord, TSend
    <3>2. QED
      BY <2>2, <3>1, TBatcher, TSweep, TReader, TConnections, TReconnect, TTake, TRest DEF Next
  <2>3. QED
    BY <2>1, <2>2
<1>2. TInv => TypeOK
  BY DEF TInv
<1>3. QED
  BY <1>1, <1>2, Inductive, TInit, PTL DEF Spec
=============================================================================
