--------------------------- MODULE AckStoreMemory ---------------------------
(***************************************************************************)
(* The volatile backend of the dedup store (internal/ackstore/memory.go):  *)
(* a table of slots by name, and the handles that outlive a DeleteSlot.    *)
(***************************************************************************)
EXTENDS AckSlot

CONSTANTS
  Names,     \* (stream, consumer) pairs
  MaxCap,    \* live numbers a slot may hold
  MaxSeq,    \* bound: numbers are 1..MaxSeq
  MaxSlots,  \* bound: slots registered in a run
  Ordered    \* names whose application acknowledges in delivery order

ASSUME MemoryAssumption ==
  /\ MaxCap \in Nat \ {0}
  /\ MaxSeq \in Nat
  /\ MaxSlots \in Nat
  /\ Ordered \subseteq Names

Seqs == 1..MaxSeq
Ids  == 0..(MaxSlots - 1)
None == MaxSlots  \* no slot

VARIABLES
  byName,  \* name -> id of its slot, or None
  nextID,
  slots    \* id -> slot; handles of deleted slots included

vars == <<byName, nextID, slots>>

Init ==
  /\ byName = [n \in Names |-> None]
  /\ nextID = 0
  /\ slots = <<>>

\* Slot resolves a name, registering it on first use.
Slot(n) ==
  /\ byName[n] = None
  /\ nextID < MaxSlots
  /\ byName' = [byName EXCEPT ![n] = nextID]
  /\ slots' = With(slots, nextID, EmptySlot(n))
  /\ nextID' = nextID + 1

Update(i, st) ==
  /\ slots' = [slots EXCEPT ![i] = st]
  /\ UNCHANGED <<byName, nextID>>

Record(i, s) ==
  /\ slots[i].name \in Ordered => s > slots[i].max
  /\ Update(i, CheckRecord(slots[i], s, 0, MaxCap))

ConfirmOne(i, s) == Update(i, Confirm(slots[i], s))

ConfirmCursor(i, s) == Update(i, MemConfirmUpTo(slots[i], s))

DeleteSlot(n) ==
  /\ byName[n] # None
  /\ byName' = [byName EXCEPT ![n] = None]
  /\ slots' = [slots EXCEPT ![byName[n]] = Delete(@)]
  /\ UNCHANGED nextID

Next ==
  \/ \E n \in Names : Slot(n) \/ DeleteSlot(n)
  \/ \E i \in DOMAIN slots, s \in Seqs :
       Record(i, s) \/ ConfirmOne(i, s) \/ ConfirmCursor(i, s)

Spec == Init /\ [][Next]_vars

-----------------------------------------------------------------------------
(* Properties.                                                             *)

SlotType ==
  [name : Names, set : UNION {[S -> {0}] : S \in SUBSET Seqs}, fifo : Seq(Seqs),
   min : 0..MaxSeq, max : 0..MaxSeq, tombed : BOOLEAN]

\* Every handle is a slot, and a name leads to a slot of that name that has not
\* been deleted: DeleteSlot unlinks before it marks.
TypeOK ==
  /\ nextID \in 0..MaxSlots
  /\ DOMAIN slots = 0..(nextID - 1)
  /\ \A i \in DOMAIN slots : slots[i] \in SlotType
  /\ byName \in [Names -> Ids \cup {None}]
  /\ \A n \in Names : byName[n] # None =>
       /\ byName[n] \in DOMAIN slots
       /\ slots[byName[n]].name = n /\ ~slots[byName[n]].tombed

\* A slot remembers at most MaxCap numbers, whatever was confirmed in between:
\* every live number is still in the fifo, and the fifo is never longer.
CapHolds ==
  \A i \in DOMAIN slots :
    /\ Len(slots[i].fifo) <= MaxCap
    /\ Live(slots[i]) \subseteq Range(slots[i].fifo)

\* The high bound of the lock-free gate is above every live number, in
\* whatever order they were recorded.
MaxIsABound ==
  \A i \in DOMAIN slots : \A s \in Live(slots[i]) : s <= slots[i].max

\* Of a deleted slot's handle nothing is left to answer from: a subscription
\* that still holds it sees every message as new.
DeletedForgets ==
  \A i \in DOMAIN slots, s \in Seqs : slots[i].tombed => ~Seen(slots[i], s)

\* "Fresh: definitely not seen", for an application that acknowledges in
\* delivery order.
FreshMeansUnseen ==
  \A i \in DOMAIN slots, s \in Seqs :
    slots[i].name \in Ordered /\ Fresh(slots[i], s) => s \notin Live(slots[i])
=============================================================================
