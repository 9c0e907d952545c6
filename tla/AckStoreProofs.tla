--------------------------- MODULE AckStoreProofs ---------------------------
(* The slot operations, and the memory backend built from them, for any    *)
(* names, capacity and range of sequence numbers.                          *)
EXTENDS AckStoreMemory, SequenceTheorems, WellFoundedInduction, TLAPS

SetType == UNION {[S -> {0}] : S \in SUBSET Seqs}

Sorted(q) == \A j, k \in 1..Len(q) : j < k => q[j] < q[k]

\* The least number of a set is in it and below the others.
LEMMA SmallestIsLeast ==
  ASSUME NEW S \in SUBSET Nat, S # {}
  PROVE  SmallestOf(S) \in S /\ \A y \in S : SmallestOf(S) <= y
<1>1. PICK x \in S : \A y \in S : ~ (<<y, x>> \in OpToRel(<, Nat))
  BY WFMin, NatLessThanWellFounded
<1>2. ASSUME NEW y \in S PROVE x <= y
  <2>1. ~ (y < x)
    <3>1. y < x => <<y, x>> \in OpToRel(<, Nat)
      BY DEF OpToRel
    <3>2. QED
      BY <1>1, <3>1
  <2>2. QED
    BY <2>1
<1>3. QED
  BY <1>2 DEF SmallestOf

\* A confirmed or evicted number leaves the live set.
LEMMA RemoveFrom ==
  ASSUME NEW f \in SetType, NEW S
  PROVE  Without(f, S) \in SetType /\ DOMAIN Without(f, S) = DOMAIN f \ S
<1>1. PICK D \in SUBSET Seqs : f \in [D -> {0}]
  BY DEF SetType
<1>2. Without(f, S) \in [D \ S -> {0}]
  BY <1>1 DEF Without, Restrict
<1>3. QED
  BY <1>1, <1>2 DEF SetType

\* A recorded number joins the live set.
LEMMA AddTo ==
  ASSUME NEW f \in SetType, NEW s \in Seqs
  PROVE  With(f, s, 0) \in SetType /\ DOMAIN With(f, s, 0) = DOMAIN f \cup {s}
<1>1. PICK D \in SUBSET Seqs : f \in [D -> {0}]
  BY DEF SetType
<1>2. With(f, s, 0) \in [D \cup {s} -> {0}]
  BY <1>1 DEF With
<1>3. QED
  BY <1>1, <1>2 DEF SetType

\* What falls out of the front of the fifo: the rest moves down.
LEMMA FifoOps ==
  ASSUME NEW q \in Seq(Seqs), NEW s \in Seqs, NEW n \in 0..Len(q)
  PROVE  /\ SubSeq(q, n + 1, Len(q)) \in Seq(Seqs)
         /\ Len(SubSeq(q, n + 1, Len(q))) = Len(q) - n
         /\ \A i \in 1..(Len(q) - n) : SubSeq(q, n + 1, Len(q))[i] = q[i + n]
<1>1. \A i \in (n + 1)..Len(q) : q[i] \in Seqs
  BY ElementOfSeq
<1>2. QED
  BY <1>1, SubSeqProperties

-----------------------------------------------------------------------------
(* The invariant of a slot and the operations that keep it.                *)

\* What falls out of the fifo leaves the set, so the fifo holds every live
\* number; a deleted slot is empty; in delivery order the fifo is sorted and
\* the low bound never passes a live number.
FifoPart(st)  == Len(st.fifo) <= MaxCap /\ Live(st) \subseteq Range(st.fifo)
MaxPart(st)   == \A s \in Live(st) : s <= st.max
TombPart(st)  == st.tombed => Live(st) = {}
OrderPart(st) ==
  st.name \in Ordered =>
    /\ Sorted(st.fifo)
    /\ \A j \in 1..Len(st.fifo) : st.fifo[j] <= st.max
    /\ \A s \in Live(st) : st.min <= s

SlotOK(st) == FifoPart(st) /\ MaxPart(st) /\ TombPart(st) /\ OrderPart(st)

\* A slot as Slot registers it.
LEMMA EmptyOK ==
  ASSUME NEW n \in Names
  PROVE  /\ EmptySlot(n) \in SlotType /\ SlotOK(EmptySlot(n))
         /\ EmptySlot(n).name = n /\ ~EmptySlot(n).tombed
<1> USE MemoryAssumption DEF MemoryAssumption
<1>1. <<>> \in SetType /\ DOMAIN <<>> = {} /\ <<>> \in Seq(Seqs) /\ Len(<<>>) = 0
  <2>1. <<>> \in [{} -> {0}]
    OBVIOUS
  <2>2. QED
    BY <2>1 DEF SetType
<1>2. EmptySlot(n) \in SlotType
  BY <1>1 DEF EmptySlot, SlotType, SetType
<1>3. SlotOK(EmptySlot(n))
  BY <1>1 DEF EmptySlot, SlotOK, FifoPart, MaxPart, TombPart, OrderPart, Live, Sorted
<1>4. QED
  BY <1>2, <1>3 DEF EmptySlot

\* A set that shrinks with its bound below keeps everything.
LEMMA ShrinkOK ==
  ASSUME NEW st \in SlotType, SlotOK(st), NEW S, NEW m \in 0..MaxSeq,
         \A s \in Live(st) \ S : st.min <= s => m <= s
  PROVE  LET r == [st EXCEPT !.set = Without(@, S), !.min = m]
         IN  /\ r \in SlotType /\ SlotOK(r)
             /\ r.name = st.name /\ r.tombed = st.tombed
<1> DEFINE r == [st EXCEPT !.set = Without(@, S), !.min = m]
<1>1. /\ r.fifo = st.fifo /\ r.max = st.max /\ r.name = st.name /\ r.tombed = st.tombed
      /\ r.set = Without(st.set, S) /\ r.min = m
  BY DEF SlotType
<1>2. Without(st.set, S) \in SetType /\ Live(r) = Live(st) \ S
  <2>1. st.set \in SetType
    BY DEF SlotType, SetType
  <2>2. QED
    BY <1>1, <2>1, RemoveFrom DEF Live
<1>3. r \in SlotType
  BY <1>2 DEF SlotType, SetType
<1>4. SlotOK(r)
  BY <1>1, <1>2 DEF SlotOK, FifoPart, MaxPart, TombPart, OrderPart
<1>5. QED
  BY <1>1, <1>3, <1>4

\* Confirm.
LEMMA ConfirmOK ==
  ASSUME NEW st \in SlotType, SlotOK(st), NEW s \in Seqs
  PROVE  LET r == Confirm(st, s)
         IN  /\ r \in SlotType /\ SlotOK(r)
             /\ r.name = st.name /\ r.tombed = st.tombed
<1>1. Confirm(st, s) = [st EXCEPT !.set = Without(@, {s}), !.min = st.min]
  BY DEF Confirm, SlotType
<1>2. st.min \in 0..MaxSeq
  BY DEF SlotType
<1> DEFINE r == [st EXCEPT !.set = Without(@, {s}), !.min = st.min]
<1>3. r \in SlotType /\ SlotOK(r) /\ r.name = st.name /\ r.tombed = st.tombed
  BY <1>2, ShrinkOK
<1>4. QED
  BY <1>1, <1>3

\* ConfirmUpTo of the memory backend.
LEMMA ConfirmUpToOK ==
  ASSUME NEW st \in SlotType, SlotOK(st), NEW s \in Seqs
  PROVE  LET r == MemConfirmUpTo(st, s)
         IN  /\ r \in SlotType /\ SlotOK(r)
             /\ r.name = st.name /\ r.tombed = st.tombed
<1> DEFINE rest == Live(st) \ UpTo(st, s)
<1>1. rest \in SUBSET Seqs
  BY DEF SlotType, Live
<1>2. SmallestOf(rest) \in 0..MaxSeq /\ \A x \in rest : SmallestOf(rest) <= x
  <2>1. CASE rest = {}
    BY <2>1, MemoryAssumption DEF SmallestOf, MemoryAssumption
  <2>2. CASE rest # {}
    <3>1. rest \in SUBSET Nat
      BY <1>1 DEF Seqs
    <3>2. QED
      BY <1>1, <2>2, <3>1, SmallestIsLeast DEF Seqs
  <2>3. QED
    BY <2>1, <2>2
<1>3. CASE UpTo(st, s) = {}
  BY <1>3 DEF MemConfirmUpTo
<1>4. CASE UpTo(st, s) # {}
  BY <1>2, <1>4, ShrinkOK DEF MemConfirmUpTo
<1>5. QED
  BY <1>3, <1>4

\* DeleteSlot.
LEMMA DeleteOK ==
  ASSUME NEW st \in SlotType
  PROVE  Delete(st) \in SlotType /\ SlotOK(Delete(st)) /\ Delete(st).name = st.name
<1>1. st.name \in Names
  BY DEF SlotType
<1> DEFINE e == EmptySlot(st.name)
<1>2. e \in SlotType /\ SlotOK(e) /\ e.name = st.name
  BY <1>1, EmptyOK
<1>3. /\ Delete(st) \in SlotType /\ Delete(st).name = e.name
      /\ Delete(st).set = e.set /\ Delete(st).fifo = e.fifo
      /\ Delete(st).min = e.min /\ Delete(st).max = e.max
  BY <1>2 DEF Delete, SlotType
<1>4. Live(e) = {}
  BY DEF EmptySlot, Live
<1>5. QED
  BY <1>2, <1>3, <1>4 DEF SlotOK, FifoPart, MaxPart, TombPart, OrderPart, Live

\* Record: the new number enters both the set and the fifo, and eviction takes
\* from both what falls out of the front.
LEMMA CheckRecordOK ==
  ASSUME NEW st \in SlotType, SlotOK(st), NEW s \in Seqs,
         st.name \in Ordered => s > st.max
  PROVE  LET r == CheckRecord(st, s, 0, MaxCap)
         IN  /\ r \in SlotType /\ SlotOK(r)
             /\ r.name = st.name /\ r.tombed = st.tombed
<1> USE MemoryAssumption DEF MemoryAssumption
<1> DEFINE r  == CheckRecord(st, s, 0, MaxCap)
           q  == Append(st.fifo, s)
           n  == IF Len(q) > MaxCap THEN Len(q) - MaxCap ELSE 0
           q2 == SubSeq(q, n + 1, Len(q))
           f  == With(st.set, s, 0)
           f2 == Without(f, {q[i] : i \in 1..n})
           m  == IF s > st.max THEN s ELSE st.max
<1> HIDE DEF r, q, n, q2, f, f2, m
<1>1. CASE st.tombed \/ s \in Live(st)
  BY <1>1 DEF CheckRecord, r
<1>2. CASE ~(st.tombed \/ s \in Live(st))
  <2>1. /\ st.fifo \in Seq(Seqs) /\ st.set \in SetType /\ st.max \in 0..MaxSeq
        /\ Len(st.fifo) \in Nat /\ Len(st.fifo) <= MaxCap
    BY LenProperties DEF SlotType, SetType, SlotOK, FifoPart
  <2>2. /\ q \in Seq(Seqs) /\ Len(q) = Len(st.fifo) + 1
        /\ \A i \in 1..Len(st.fifo) : q[i] = st.fifo[i]
        /\ q[Len(st.fifo) + 1] = s
    BY <2>1, AppendProperties DEF q
  <2>3. n \in 0..(Len(q) - 1) /\ n = IF Len(q) > MaxCap THEN Len(q) - MaxCap ELSE 0
    BY <2>1, <2>2 DEF n
  <2>4. /\ q2 \in Seq(Seqs) /\ Len(q2) = Len(q) - n
        /\ \A i \in 1..(Len(q) - n) : q2[i] = q[i + n]
    <3>1. n \in 0..Len(q)
      BY <2>1, <2>2, <2>3
    <3>2. QED
      BY <2>2, <3>1, FifoOps DEF q2
  <2>5. q2 # <<>> /\ Head(q2) = q2[1] /\ q2[1] \in Seqs
    <3>1. Len(q2) \in Nat /\ Len(q2) >= 1
      BY <2>1, <2>2, <2>3, <2>4
    <3>2. q2 # <<>> /\ Head(q2) = q2[1]
      BY <2>4, <3>1
    <3>3. QED
      BY <2>4, <3>1, <3>2, ElementOfSeq
  <2>6. /\ f \in SetType /\ DOMAIN f = Live(st) \cup {s}
        /\ f2 \in SetType /\ DOMAIN f2 = (Live(st) \cup {s}) \ {q[i] : i \in 1..n}
    <3>1. f \in SetType /\ DOMAIN f = Live(st) \cup {s}
      BY <2>1, AddTo DEF Live, f
    <3>2. QED
      BY <3>1, RemoveFrom DEF f2
  <2>7. /\ r.set = f2 /\ r.fifo = q2 /\ r.min = Head(q2) /\ r.max = m
        /\ r.name = st.name /\ r.tombed = st.tombed
        /\ r = [st EXCEPT !.set = f2, !.fifo = q2, !.min = Head(q2), !.max = m]
    <3>1. r = RefreshBounds(Evict([st EXCEPT !.set = f, !.fifo = q], MaxCap), s)
      BY <1>2 DEF CheckRecord, r, f, q
    <3>2. Evict([st EXCEPT !.set = f, !.fifo = q], MaxCap)
            = [st EXCEPT !.set = f2, !.fifo = q2]
      BY DEF Evict, SlotType, n, f2, q2
    <3>3. QED
      BY <2>5, <3>1, <3>2 DEF RefreshBounds, SlotType, m
  <2>8. r \in SlotType
    <3>1. m \in 0..MaxSeq /\ Head(q2) \in 0..MaxSeq
      BY <2>1, <2>5 DEF Seqs, m
    <3>2. QED
      BY <2>4, <2>6, <2>7, <3>1 DEF SlotType, SetType
  <2>9. FifoPart(r)
    <3>1. Len(q2) <= MaxCap
      BY <2>1, <2>2, <2>3, <2>4
    <3>2. Range(q2) = {q2[i] : i \in 1..Len(q2)}
      BY <2>4, RangeEquality
    <3>3. Live(st) \subseteq {st.fifo[i] : i \in 1..Len(st.fifo)}
      BY <2>1, RangeEquality DEF SlotOK, FifoPart
    <3>4. ASSUME NEW x \in DOMAIN f2 PROVE x \in {q2[i] : i \in 1..Len(q2)}
      <4>1. PICK j \in 1..Len(q) : x = q[j]
        BY <2>1, <2>2, <2>6, <3>3, <3>4
      <4>2. j \notin 1..n
        BY <2>6, <3>4, <4>1
      <4>3. j - n \in 1..Len(q2) /\ q2[j - n] = q[j]
        <5>1. j - n \in 1..(Len(q) - n) /\ (j - n) + n = j
          BY <2>1, <2>2, <2>3, <4>1, <4>2
        <5>2. QED
          BY <2>4, <5>1
      <4>4. QED
        BY <4>1, <4>3
    <3>5. QED
      BY <2>7, <3>1, <3>2, <3>4 DEF FifoPart, Live
  <2>10. MaxPart(r)
    <3>1. \A x \in Live(st) : x <= st.max /\ x \in Nat
      <4>1. Live(st) \subseteq Seqs
        BY DEF SlotType, Live
      <4>2. QED
        BY <4>1 DEF SlotOK, MaxPart, Seqs
    <3>2. QED
      BY <2>1, <2>6, <2>7, <3>1 DEF MaxPart, Live, Seqs, m
  <2>11. TombPart(r)
    BY <1>2, <2>7 DEF TombPart
  <2>12. ASSUME st.name \in Ordered PROVE OrderPart(r)
    <3>1. /\ \A j, k \in 1..Len(st.fifo) : j < k => st.fifo[j] < st.fifo[k]
          /\ \A j \in 1..Len(st.fifo) : st.fifo[j] <= st.max
      BY <2>12 DEF SlotOK, OrderPart, Sorted
    <3>2. s > st.max /\ m = s
      BY <2>1, <2>12 DEF Seqs, m
    <3>3. \A j \in 1..Len(st.fifo) : st.fifo[j] \in Nat
      BY <2>1, ElementOfSeq DEF Seqs
    <3>4. \A j, k \in 1..Len(q) : j < k => q[j] < q[k]
      <4> SUFFICES ASSUME NEW j \in 1..Len(q), NEW k \in 1..Len(q), j < k
                   PROVE  q[j] < q[k]
        OBVIOUS
      <4>1. j \in 1..Len(st.fifo) /\ q[j] = st.fifo[j] /\ q[j] < s
        <5>1. j \in 1..Len(st.fifo)
          BY <2>1, <2>2
        <5>2. q[j] = st.fifo[j] /\ st.fifo[j] <= st.max /\ st.fifo[j] \in Nat
          BY <2>2, <3>1, <3>3, <5>1
        <5>3. QED
          BY <2>1, <3>2, <5>1, <5>2 DEF Seqs
      <4>2. CASE k \in 1..Len(st.fifo)
        BY <2>2, <3>1, <4>1, <4>2
      <4>3. CASE k = Len(st.fifo) + 1
        BY <2>2, <4>1, <4>3
      <4>4. QED
        BY <2>1, <2>2, <4>2, <4>3
    <3>5. \A j \in 1..Len(q) : q[j] <= s
      <4> SUFFICES ASSUME NEW j \in 1..Len(q) PROVE q[j] <= s
        OBVIOUS
      <4>1. CASE j \in 1..Len(st.fifo)
        <5>1. q[j] \in Nat /\ q[j] <= st.max
          BY <2>2, <3>1, <3>3, <4>1
        <5>2. QED
          BY <2>1, <3>2, <5>1 DEF Seqs
      <4>2. CASE j = Len(st.fifo) + 1
        BY <2>2, <4>2 DEF Seqs
      <4>3. QED
        BY <2>1, <2>2, <4>1, <4>2
    <3>6. Sorted(q2) /\ \A j \in 1..Len(q2) : q2[j] <= s
      <4>1. \A j \in 1..Len(q2) : j + n \in 1..Len(q) /\ q2[j] = q[j + n]
        <5>1. Len(q) \in Nat /\ n \in Nat /\ Len(q2) = Len(q) - n
          BY <2>1, <2>2, <2>3, <2>4
        <5>2. \A j \in 1..Len(q2) : j + n \in 1..Len(q)
          BY <5>1
        <5>3. QED
          BY <2>4, <5>2
      <4>2. \A j \in 1..Len(q2) : q2[j] <= s
        BY <3>5, <4>1
      <4>3. ASSUME NEW j \in 1..Len(q2), NEW k \in 1..Len(q2), j < k PROVE q2[j] < q2[k]
        <5>1. j + n < k + n
          BY <2>1, <2>2, <2>3, <2>4, <4>3
        <5>2. QED
          BY <3>4, <4>1, <5>1
      <4>4. QED
        BY <4>2, <4>3 DEF Sorted
    <3>7. \A x \in DOMAIN f2 : Head(q2) <= x
      <4>1. Range(q2) = {q2[i] : i \in 1..Len(q2)}
        BY <2>4, RangeEquality
      <4>2. \A i \in 1..Len(q2) : q2[1] <= q2[i]
        <5>1. \A i \in 1..Len(q2) : q2[i] \in Nat
          BY <2>4, ElementOfSeq DEF Seqs
        <5>2. 1 \in 1..Len(q2)
          BY <2>1, <2>2, <2>3, <2>4
        <5>3. QED
          BY <2>4, <3>6, <5>1, <5>2 DEF Sorted
      <4>3. DOMAIN f2 \subseteq Range(q2)
        BY <2>7, <2>9 DEF FifoPart, Live
      <4>4. QED
        BY <2>5, <4>1, <4>2, <4>3
    <3>8. QED
      BY <2>7, <3>2, <3>6, <3>7 DEF OrderPart, Live
  <2>13. QED
    <3>1. OrderPart(r)
      BY <2>7, <2>12 DEF OrderPart
    <3>2. QED
      <4>1. SlotOK(r)
        BY <2>9, <2>10, <2>11, <3>1 DEF SlotOK
      <4>2. QED
        BY <2>7, <2>8, <4>1 DEF r
<1>3. QED
  BY <1>1, <1>2 DEF r

-----------------------------------------------------------------------------
(* The memory backend.                                                     *)

IInv == TypeOK /\ \A i \in DOMAIN slots : SlotOK(slots[i])

\* An operation through a handle touches no other slot and no name.
LEMMA UpdateKeeps ==
  ASSUME IInv, NEW i \in DOMAIN slots, NEW st \in SlotType, SlotOK(st),
         st.name = slots[i].name, st.tombed = slots[i].tombed, Update(i, st)
  PROVE  IInv'
<1>1. /\ DOMAIN slots' = DOMAIN slots
      /\ \A j \in DOMAIN slots : slots'[j] = IF j = i THEN st ELSE slots[j]
      /\ UNCHANGED <<byName, nextID>>
  BY DEF Update
<1>2. /\ \A j \in DOMAIN slots' : slots'[j] \in SlotType /\ SlotOK(slots'[j])
      /\ \A j \in DOMAIN slots' : slots'[j].name = slots[j].name
                                  /\ slots'[j].tombed = slots[j].tombed
  BY <1>1 DEF IInv, TypeOK
<1>3. QED
  BY <1>1, <1>2 DEF IInv, TypeOK

\* Slot, DeleteSlot, Record, Confirm and ConfirmUpTo keep the invariant in any
\* order and on any handle, those of deleted slots included.
THEOREM Inductive == Spec => []IInv
<1> USE MemoryAssumption DEF MemoryAssumption
<1>1. Init => IInv
  BY DEF Init, IInv, TypeOK, Ids, None
<1>2. IInv /\ [Next]_vars => IInv'
  <2> SUFFICES ASSUME IInv, [Next]_vars PROVE IInv'
    OBVIOUS
  <2>1. ASSUME NEW n \in Names, Slot(n) PROVE IInv'
    <3> DEFINE e == EmptySlot(n)
    <3>1. e \in SlotType /\ SlotOK(e) /\ e.name = n /\ ~e.tombed
      BY EmptyOK
    <3> HIDE DEF e
    <3>2. /\ DOMAIN slots = 0..(nextID - 1) /\ nextID \in 0..MaxSlots /\ nextID < MaxSlots
          /\ nextID' = nextID + 1 /\ byName' = [byName EXCEPT ![n] = nextID]
          /\ slots' = [x \in DOMAIN slots \cup {nextID} |-> IF x = nextID THEN e ELSE slots[x]]
      BY <2>1 DEF IInv, TypeOK, Slot, With, e
    <3>3. DOMAIN slots' = 0..(nextID' - 1) /\ nextID' \in 0..MaxSlots
      BY <3>2
    <3>4. nextID \notin DOMAIN slots
      BY <3>2
    <3>5. \A j \in DOMAIN slots' : slots'[j] \in SlotType /\ SlotOK(slots'[j])
      BY <3>1, <3>2 DEF IInv, TypeOK
    <3>6. byName' \in [Names -> Ids \cup {None}]
      BY <3>2 DEF IInv, TypeOK, Ids
    <3>7. ASSUME NEW m \in Names, byName'[m] # None
          PROVE  /\ byName'[m] \in DOMAIN slots'
                 /\ slots'[byName'[m]].name = m /\ ~slots'[byName'[m]].tombed
      <4>1. CASE m = n
        BY <3>1, <3>2, <4>1 DEF IInv, TypeOK
      <4>2. CASE m # n
        <5>1. byName'[m] = byName[m] /\ byName[m] \in DOMAIN slots
          BY <3>2, <3>7, <4>2 DEF IInv, TypeOK
        <5>2. slots'[byName[m]] = slots[byName[m]]
          BY <3>2, <3>4, <5>1
        <5>3. QED
          BY <3>2, <3>7, <5>1, <5>2 DEF IInv, TypeOK
      <4>3. QED
        BY <4>1, <4>2
    <3>8. QED
      BY <3>3, <3>5, <3>6, <3>7 DEF IInv, TypeOK
  <2>2. ASSUME NEW n \in Names, DeleteSlot(n) PROVE IInv'
    <3> DEFINE i == byName[n]
               d == Delete(slots[i])
    <3>1. i \in DOMAIN slots /\ slots[i] \in SlotType /\ slots[i].name = n
      BY <2>2 DEF IInv, TypeOK, DeleteSlot
    <3>2. d \in SlotType /\ SlotOK(d)
      BY <3>1, DeleteOK
    <3> HIDE DEF d
    <3>3. /\ DOMAIN slots' = DOMAIN slots /\ UNCHANGED nextID
          /\ \A j \in DOMAIN slots : slots'[j] = IF j = i THEN d ELSE slots[j]
          /\ byName' = [byName EXCEPT ![n] = None]
      BY <2>2 DEF DeleteSlot, d
    <3>4. \A j \in DOMAIN slots' : slots'[j] \in SlotType /\ SlotOK(slots'[j])
      BY <3>2, <3>3 DEF IInv, TypeOK
    <3>5. \A m \in Names : byName'[m] # None =>
            /\ byName'[m] \in DOMAIN slots'
            /\ slots'[byName'[m]].name = m /\ ~slots'[byName'[m]].tombed
      BY <3>1, <3>3 DEF IInv, TypeOK
    <3>6. QED
      BY <3>3, <3>4, <3>5 DEF IInv, TypeOK
  <2>3. ASSUME NEW i \in DOMAIN slots, NEW s \in Seqs, Record(i, s) PROVE IInv'
    <3> DEFINE r == CheckRecord(slots[i], s, 0, MaxCap)
    <3>1. r \in SlotType /\ SlotOK(r) /\ r.name = slots[i].name /\ r.tombed = slots[i].tombed
      BY <2>3, CheckRecordOK DEF IInv, TypeOK, Record
    <3> HIDE DEF r
    <3>2. Update(i, r)
      BY <2>3 DEF Record, r
    <3>3. QED
      BY <3>1, <3>2, UpdateKeeps
  <2>4. ASSUME NEW i \in DOMAIN slots, NEW s \in Seqs, ConfirmOne(i, s) PROVE IInv'
    <3> DEFINE r == Confirm(slots[i], s)
    <3>1. r \in SlotType /\ SlotOK(r) /\ r.name = slots[i].name /\ r.tombed = slots[i].tombed
      BY ConfirmOK DEF IInv, TypeOK
    <3> HIDE DEF r
    <3>2. Update(i, r)
      BY <2>4 DEF ConfirmOne, r
    <3>3. QED
      BY <3>1, <3>2, UpdateKeeps
  <2>5. ASSUME NEW i \in DOMAIN slots, NEW s \in Seqs, ConfirmCursor(i, s) PROVE IInv'
    <3> DEFINE r == MemConfirmUpTo(slots[i], s)
    <3>1. r \in SlotType /\ SlotOK(r) /\ r.name = slots[i].name /\ r.tombed = slots[i].tombed
      BY ConfirmUpToOK DEF IInv, TypeOK
    <3> HIDE DEF r
    <3>2. Update(i, r)
      BY <2>5 DEF ConfirmCursor, r
    <3>3. QED
      BY <3>1, <3>2, UpdateKeeps
  <2>6. CASE UNCHANGED vars
    BY <2>6 DEF vars, IInv, TypeOK
  <2>7. QED
    BY <2>1, <2>2, <2>3, <2>4, <2>5, <2>6 DEF Next
<1>3. QED
  BY <1>1, <1>2, PTL DEF Spec

\* The slots keep their shape, and a name never leads to a deleted slot.
THEOREM TypeCorrect == Spec => []TypeOK
<1>1. IInv => TypeOK
  BY DEF IInv
<1>2. QED
  BY <1>1, Inductive, PTL

\* MaxCap bounds what a slot remembers, whatever mixture of Record, Confirm
\* and ConfirmUpTo it has seen.
THEOREM CapacityRespected == Spec => []CapHolds
<1>1. IInv => CapHolds
  BY DEF IInv, SlotOK, FifoPart, CapHolds
<1>2. QED
  BY <1>1, Inductive, PTL

\* No live number is above the gate's high bound, in any recording order.
THEOREM HighBound == Spec => []MaxIsABound
<1>1. IInv => MaxIsABound
  BY DEF IInv, SlotOK, MaxPart, MaxIsABound
<1>2. QED
  BY <1>1, Inductive, PTL

\* The handle of a deleted slot recognizes nothing.
THEOREM DeletedSlots == Spec => []DeletedForgets
<1>1. IInv => DeletedForgets
  BY DEF IInv, SlotOK, TombPart, DeletedForgets, Seen
<1>2. QED
  BY <1>1, Inductive, PTL

\* For an application that acknowledges in delivery order the lock-free gate
\* never hides a number the slot has recorded.
THEOREM GateIsSound == Spec => []FreshMeansUnseen
<1>1. IInv => FreshMeansUnseen
  <2> SUFFICES ASSUME IInv, NEW i \in DOMAIN slots, NEW s \in Seqs,
                      slots[i].name \in Ordered,
                      Fresh(slots[i], s), s \in Live(slots[i])
               PROVE  FALSE
    BY DEF FreshMeansUnseen
  <2>1. slots[i].min <= s /\ s <= slots[i].max
    BY DEF IInv, SlotOK, MaxPart, OrderPart
  <2>2. slots[i].min \in Nat /\ slots[i].max \in Nat /\ s \in Nat /\ s >= 1
    BY MemoryAssumption DEF IInv, TypeOK, SlotType, Seqs, MemoryAssumption
  <2>3. QED
    BY <2>1, <2>2 DEF Fresh
<1>2. QED
  BY <1>1, Inductive, PTL
=============================================================================
