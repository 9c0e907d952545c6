------------------------------ MODULE AckSlot ------------------------------
(***************************************************************************)
(* One slot of the redelivery-dedup store (internal/ackstore): the numbers *)
(* one (stream, consumer) has processed, and what each SlotRef operation   *)
(* does to them.  The WAL's slotState and the memory backend's memSlot     *)
(* share these operators; where they differ there are two.  All of it runs *)
(* under the slot's mutex, except Fresh, which only reads min and max.     *)
(***************************************************************************)
EXTENDS Integers, Sequences, FiniteSets, Functions

\* set maps a live number to the time it was recorded.  fifo is the insertion
\* order and may still hold numbers that have left the set.  min and max are
\* the bounds of the lock-free gate, 0 for none.
EmptySlot(n) ==
  [name |-> n, set |-> <<>>, fifo |-> <<>>, min |-> 0, max |-> 0, tombed |-> FALSE]

Live(st) == DOMAIN st.set

\* The bounds gate: TRUE is "outside the recorded range, never recorded".
Fresh(st, s) == st.max = 0 \/ s > st.max \/ s < st.min

\* The dedup check of the delivery path.
Seen(st, s) == ~Fresh(st, s) /\ s \in Live(st)

Without(f, S) == Restrict(f, DOMAIN f \ S)
With(f, s, t) == [x \in DOMAIN f \cup {s} |-> IF x = s THEN t ELSE f[x]]

\* The eviction loop of evictLocked: the fifo gives up its front until it
\* fits, and whatever falls out of it leaves the set.
EvictFifo(st, cap) ==  \* mutant: what falls out of the fifo stays in the set
  [st EXCEPT !.fifo = IF Len(@) > cap THEN Tail(@) ELSE @]
Evict(st, cap) ==
  LET n == IF Len(st.fifo) > cap THEN Len(st.fifo) - cap ELSE 0 IN
  [st EXCEPT !.fifo = SubSeq(@, n + 1, Len(@)),
             !.set  = Without(@, {st.fifo[i] : i \in 1..n})]

NewestIsMin(st, s) ==  \* mutant: the low bound is the number just inserted
  [st EXCEPT !.max = IF s > @ THEN s ELSE @, !.min = s]

\* refreshBoundsLocked: the low bound is the oldest insertion, not the least.
RefreshBounds(st, s) ==
  [st EXCEPT !.max = IF s > @ THEN s ELSE @,
             !.min = IF st.fifo = <<>> THEN @ ELSE Head(st.fifo)]

\* CheckRecord, and Record, which is CheckRecord without its answer: nothing
\* happens on a deleted slot or for a number that is there already.
CheckRecord(st, s, t, cap) ==
  IF st.tombed \/ s \in Live(st) THEN st
  ELSE LET in == [st EXCEPT !.set = With(@, s, t), !.fifo = Append(@, s)]
       IN RefreshBounds(Evict(in, cap), s)

\* A single confirmed number leaves the set and stays in the fifo.
Confirm(st, s) == [st EXCEPT !.set = Without(@, {s})]

SmallestOf(S) ==
  IF S = {} THEN 0 ELSE CHOOSE x \in S : \A y \in S : x <= y

\* The numbers of a finite set in their order, each found by its rank.
Ascending(S) ==
  [k \in 1..Cardinality(S) |-> CHOOSE x \in S : Cardinality({y \in S : y <= x}) = k]

\* The members of q that are in S, in their order: every loop that copies what it
\* keeps (SelectSeq is recursive, which proofs cannot open).
Kept(q, S) ==
  LET at == Ascending({k \in 1..Len(q) : q[k] \in S})
  IN [i \in DOMAIN at |-> q[at[i]]]

\* compactFifoLocked (WAL): dead numbers leave the fifo and the low bound
\* becomes the least live number; the high bound is never lowered.
RaiseMin(st) ==  \* mutant: the bound is set past the least live number
  IF st.fifo = <<>> THEN st
  ELSE [st EXCEPT !.fifo = Kept(@, Live(st)),
                  !.min  = 1 + SmallestOf(Live(st) \cap Range(st.fifo))]
CompactFifo(st) ==
  IF st.fifo = <<>> THEN st
  ELSE [st EXCEPT !.fifo = Kept(@, Live(st)),
                  !.min  = SmallestOf(Live(st) \cap Range(st.fifo))]

Drop(st, S) ==
  IF Live(st) \cap S = {} THEN st
  ELSE CompactFifo([st EXCEPT !.set = Without(@, S)])

UpTo(st, cursor) == {s \in Live(st) : s <= cursor}

\* ConfirmUpTo of the WAL.
ConfirmUpTo(st, cursor) == Drop(st, UpTo(st, cursor))

\* ConfirmUpTo of the memory backend: the fifo keeps the dead numbers.
MemConfirmUpTo(st, cursor) ==
  IF UpTo(st, cursor) = {} THEN st
  ELSE [st EXCEPT !.set = Without(@, UpTo(st, cursor)),
                  !.min = SmallestOf(Live(st) \ UpTo(st, cursor))]

\* What one sweep of the TTL finds in a slot.
Expired(st, cutoff) == {s \in Live(st) : st.set[s] < cutoff}

\* DeleteSlot: the handle stays with whoever holds it and records no more.
Delete(st) == [EmptySlot(st.name) EXCEPT !.tombed = TRUE]
=============================================================================
