--------------------------- MODULE DeliveryProofs ---------------------------
(* Proofs about Delivery, for any subscriptions, filters, modes and bounds. *)
EXTENDS Delivery, FiniteSetTheorems, SequenceTheorems, TLAPS

-----------------------------------------------------------------------------
(* Slices.                                                                 *)

\* The positions Kept looks at, and the rank of one of them.
At(q, S)   == {k \in 1..Len(q) : q[k] \in S}
Rank(K, k) == Cardinality({j \in K : j <= k})

\* The n-th position has rank n, every rank is taken, and none twice.
LEMMA RanksCount ==
  ASSUME NEW n \in Nat, NEW K \in SUBSET (1..n)
  PROVE  /\ Cardinality(K) \in Nat
         /\ \A k \in K : Rank(K, k) \in 1..Cardinality(K)
         /\ \A k, l \in K : Rank(K, k) = Rank(K, l) => k = l
         /\ \A i \in 1..Cardinality(K) : \E k \in K : Rank(K, k) = i
<1>1. IsFiniteSet(K)
  <2>1. IsFiniteSet(1..n)
    BY FS_Interval
  <2>2. QED
    BY <2>1, FS_Subset
<1>2. Cardinality(K) \in Nat
  BY <1>1, FS_CardinalityType
<1>3. ASSUME NEW k \in K
      PROVE  Rank(K, k) \in 1..Cardinality(K)
  <2> DEFINE U == {j \in K : j <= k}
  <2>1. U \in SUBSET K /\ k \in U
    OBVIOUS
  <2> HIDE DEF U
  <2>2. IsFiniteSet(U) /\ Cardinality(U) <= Cardinality(K)
    BY <1>1, <2>1, FS_Subset
  <2>3. Cardinality(U) \in Nat
    BY <2>2, FS_CardinalityType
  <2>4. Cardinality(U) # 0
    BY <2>1, <2>2, FS_EmptySet
  <2>5. Cardinality(U) \in 1..Cardinality(K)
    BY <1>2, <2>2, <2>3, <2>4
  <2>6. QED
    BY <2>5 DEF Rank, U
<1>4. ASSUME NEW k \in K, NEW l \in K, k < l
      PROVE  Rank(K, k) # Rank(K, l)
  <2> DEFINE U == {j \in K : j <= k}
             V == {j \in K : j <= l}
  <2>1. U \in SUBSET V /\ V \in SUBSET K /\ l \in V /\ l \notin U
    <3>1. k \in Int /\ l \in Int /\ \A j \in K : j \in Int
      OBVIOUS
    <3>2. (\A j \in K : j <= k => j <= l) /\ ~ (l <= k) /\ l <= l
      BY <1>4, <3>1
    <3>3. U \subseteq V /\ V \subseteq K
      BY <3>2
    <3>4. QED
      BY <3>2, <3>3
  <2> HIDE DEF U, V
  <2>2. IsFiniteSet(V)
    BY <1>1, <2>1, FS_Subset
  <2>3. Cardinality(V) = Cardinality(U) => V = U
    BY <2>1, <2>2, FS_Subset
  <2>4. Cardinality(V) # Cardinality(U)
    BY <2>1, <2>3
  <2>5. QED
    BY <2>4 DEF Rank, U, V
<1>5. ASSUME NEW k \in K, NEW l \in K, Rank(K, k) = Rank(K, l)
      PROVE  k = l
  <2>1. k \in Int /\ l \in Int
    OBVIOUS
  <2>2. ~ (k < l) /\ ~ (l < k)
    BY <1>4, <1>5
  <2>3. QED
    BY <2>1, <2>2
<1>6. \A i \in 1..Cardinality(K) : \E k \in K : Rank(K, k) = i
  <2> DEFINE m == Cardinality(K)
             f == [k \in K |-> Rank(K, k)]
  <2>1. f \in [K -> 1..m] /\ \A k \in K : f[k] = Rank(K, k)
    BY <1>3
  <2> HIDE DEF f
  <2>2. \A k, l \in K : f[k] = f[l] => k = l
    BY <1>5, <2>1
  <2>3. f \in Injection(K, 1..m)
    BY <2>1, <2>2 DEF Injection, IsInjective
  <2>4. IsFiniteSet(1..m) /\ Cardinality(1..m) = m
    BY <1>2, FS_Interval
  <2>5. f \in Surjection(K, 1..m)
    BY <2>3, <2>4, FS_Injection
  <2>6. \A i \in 1..m : \E k \in K : f[k] = i
    BY <2>5 DEF Surjection
  <2>7. QED
    BY <2>1, <2>6
<1>7. QED
  BY <1>2, <1>3, <1>5, <1>6

NoRepeat(q) == \A j, k \in 1..Len(q) : q[j] = q[k] => j = k

\* Kept gives a slice of the members that are in S, and repeats none that was not
\* repeated.
LEMMA KeptMembers ==
  ASSUME NEW A, NEW q \in Seq(A), NEW S
  PROVE  /\ Kept(q, S) \in Seq(A)
         /\ Range(Kept(q, S)) = Range(q) \cap S
         /\ NoRepeat(q) => NoRepeat(Kept(q, S))
<1> DEFINE K      == At(q, S)
           n      == Cardinality(K)
           Nth(i) == CHOOSE k \in K : Rank(K, k) = i
<1>1. Len(q) \in Nat /\ DOMAIN q = 1..Len(q) /\ \A k \in 1..Len(q) : q[k] \in A
  BY LenProperties, ElementOfSeq
<1>2. K \in SUBSET (1..Len(q)) /\ \A k \in K : q[k] \in S
  BY DEF At
<1>3. \A k \in 1..Len(q) : q[k] \in S => k \in K
  BY DEF At
<1>4. Kept(q, S) = [i \in 1..n |-> q[Nth(i)]]
  <2>1. Ascending(K) = [i \in 1..n |-> Nth(i)]
    BY DEF Ascending, Rank
  <2>2. QED
    BY <2>1 DEF Kept, At
<1> HIDE DEF K
<1>5. /\ n \in Nat
      /\ \A k \in K : Rank(K, k) \in 1..n
      /\ \A k, l \in K : Rank(K, k) = Rank(K, l) => k = l
      /\ \A i \in 1..n : \E k \in K : Rank(K, k) = i
  BY <1>1, <1>2, RanksCount
<1>6. \A i \in 1..n : Nth(i) \in K /\ Rank(K, Nth(i)) = i
  BY <1>5
<1>7. \A k \in K : Nth(Rank(K, k)) = k
  BY <1>5, <1>6
<1> HIDE DEF Nth, n
<1>8. Kept(q, S) \in [1..n -> A]
  BY <1>1, <1>2, <1>4, <1>6
<1>9. Kept(q, S) \in Seq(A) /\ Len(Kept(q, S)) = n /\ DOMAIN Kept(q, S) = 1..n
  BY <1>5, <1>8
<1>10. ASSUME NEW x \in Range(Kept(q, S))
       PROVE  x \in Range(q) \cap S
  <2>1. PICK i \in 1..n : x = q[Nth(i)]
    BY <1>4, <1>9 DEF Range
  <2>2. QED
    BY <1>1, <1>2, <1>6, <2>1 DEF Range
<1>11. ASSUME NEW x \in Range(q) \cap S
       PROVE  x \in Range(Kept(q, S))
  <2>1. PICK k \in 1..Len(q) : x = q[k]
    BY <1>1 DEF Range
  <2>2. k \in K
    BY <1>3, <2>1
  <2>3. Rank(K, k) \in 1..n /\ Nth(Rank(K, k)) = k
    BY <1>5, <1>7, <2>2
  <2>4. Kept(q, S)[Rank(K, k)] = x
    BY <1>4, <2>1, <2>3
  <2>5. QED
    BY <1>9, <2>3, <2>4 DEF Range
<1>12. ASSUME NoRepeat(q) PROVE NoRepeat(Kept(q, S))
  <2> SUFFICES ASSUME NEW i \in 1..n, NEW j \in 1..n, Kept(q, S)[i] = Kept(q, S)[j]
               PROVE  i = j
    BY <1>9 DEF NoRepeat
  <2>1. q[Nth(i)] = q[Nth(j)]
    BY <1>4
  <2>2. Nth(i) = Nth(j)
    BY <1>2, <1>6, <1>12, <2>1 DEF NoRepeat
  <2>3. QED
    BY <1>6, <2>2
<1>13. QED
  BY <1>9, <1>10, <1>11, <1>12

\* A finite set laid out as a sequence: every member once.
LEMMA LaidOut ==
  ASSUME NEW S, IsFiniteSet(S)
  PROVE  SetToSeq(S) \in Seq(S) /\ Range(SetToSeq(S)) = S /\ NoRepeat(SetToSeq(S))
<1> DEFINE n == Cardinality(S)
           q == SetToSeq(S)
<1>1. n \in Nat /\ ExistsBijection(1..n, S)
  BY FS_CardinalityType
<1>2. \E f \in [1..n -> S] : IsInjective(f)
  BY <1>1 DEF ExistsBijection, Bijection, Injection
<1>3. q \in [1..n -> S] /\ IsInjective(q)
  BY <1>2 DEF SetToSeq
<1>4. q \in Injection(1..n, S)
  BY <1>3 DEF Injection
<1>5. IsFiniteSet(1..n) /\ Cardinality(1..n) = n
  BY <1>1, FS_Interval
<1> HIDE DEF q
<1>6. q \in Surjection(1..n, S)
  BY <1>4, <1>5, FS_Injection
<1>7. q \in Seq(S) /\ Len(q) = n /\ DOMAIN q = 1..n
  BY <1>1, <1>3
<1>8. Range(q) = S
  BY <1>6, <1>7 DEF Surjection, Range
<1>9. NoRepeat(q)
  BY <1>3, <1>7 DEF NoRepeat, IsInjective
<1>10. QED
  BY <1>7, <1>8, <1>9 DEF q

\* A slice without repetition is no longer than the set it is from.
LEMMA NoLonger ==
  ASSUME NEW S, IsFiniteSet(S), NEW q \in Seq(S), NoRepeat(q)
  PROVE  Len(q) <= Cardinality(S)
<1>1. Len(q) \in Nat /\ q \in [1..Len(q) -> S]
  BY LenProperties, ElementOfSeq
<1>2. q \in Injection(1..Len(q), S)
  BY <1>1 DEF Injection, IsInjective, NoRepeat
<1>3. Cardinality(1..Len(q)) <= Cardinality(S)
  BY <1>2, FS_Injection
<1>4. Cardinality(1..Len(q)) = Len(q)
  BY <1>1, FS_Interval
<1>5. QED
  BY <1>3, <1>4

-----------------------------------------------------------------------------
(* The inductive invariant.                                                *)

Lives    == {"none", "calling", "replied", "owned", "lost", "marked", "removed",
             "closed", "dropped"}
Verdicts == {"none", "ok", "refused"}
Routes   == [fanout : BOOLEAN, idx : Nat, subs : Seq(Subs)]
Copies   == [q : 0..MaxSeq, todo : Seq(Subs)]
Replies     == [kind : {"reply"}, subs : SUBSET Subs]
CursorNotes == [kind : {"cursor"}, upto : Seqs]
CopyFrames  == [kind : {"copy"}, sub : Subs, q : Seqs]
Frames      == Replies \cup CursorNotes \cup CopyFrames

Typed ==
  /\ setup \in Setups
  /\ life \in [Subs -> Lives] /\ verdict \in [Subs -> Verdicts]
  /\ sibs \in Seq(Subs) /\ NoRepeat(sibs)
  /\ route \in [Subs -> Routes]
  /\ chan \in [Subs -> Seq(Seqs)] /\ \A s \in Subs : Len(chan[s]) <= ChanCap
  /\ copy \in Copies /\ (copy.todo # <<>> => copy.q \in Seqs) /\ panicked \in BOOLEAN
  /\ held \in [Subs \X Seqs -> Nat]
  /\ acked \subseteq Subs \X Seqs /\ unrecorded \subseteq acked
  /\ wire \in Seq(Frames) /\ acks \subseteq Subs \X Seqs
  /\ bound \subseteq Subs /\ pending \in [Subs -> SUBSET Seqs]
  /\ released \subseteq Subs \X Seqs
  /\ copies \in 0..MaxCopies /\ cursors \in 0..MaxCursors

\* What the slot holds, some subscription has acknowledged.
SlotOK ==
  /\ DOMAIN slot = {"name", "set", "fifo", "min", "max", "tombed"}
  /\ \A q \in Live(slot) : \E t \in Subs : <<t, q>> \in acked

\* The life of a subscription says whether it is in the slice, and the routes are
\* those of the slice's members, each with its own position.
Member(s) == life[s] \in {"calling", "replied", "owned", "lost", "marked"}
Leads(r, ss, s) == r[s].subs = ss /\ r[s].idx \in 1..Len(ss) /\ ss[r[s].idx] = s

MembersOK ==
  \A s \in Subs :
    /\ s \in Range(sibs) <=> Member(s)
    /\ IF s \in Range(sibs) THEN Leads(route, sibs, s) ELSE route[s] = NoRoute

\* A reply on the wire, or taken, was decided; a batch gives nobody a handle of a
\* refused entry and leaves no call half open.
VerdictOK ==
  /\ \A s \in Subs : life[s] = "replied" => verdict[s] # "none"
  /\ \A i \in 1..Len(wire) : wire[i].kind = "reply" =>
       \A s \in wire[i].subs : verdict[s] # "none"
  /\ ~MayRefuse => \A s \in Subs : verdict[s] # "refused"
  /\ Batch => \A s \in Subs :
       /\ life[s] # "lost"
       /\ life[s] \in {"owned", "marked"} => verdict[s] # "refused"

\* Once a call has returned the mode is known to all siblings, also to those that
\* come later.
Sure == MayRefuse => Batch
ModeOK ==
  Sure /\ Fanout /\ (\E s \in Range(sibs) : life[s] = "owned") =>
    \A t \in Range(sibs) : route[t].fanout = TRUE

\* Every ack on its way, and every one the broker has seen, answers for a handler
\* that ran.
Handled(sq) == \E t \in Subs : <<t, sq[2]>> \in acked /\ (Fanout => t = sq[1])
Apart == ~ (Fanout /\ Dedup)
HandledOK == Apart => \A sq \in acks \cup released : Handled(sq)

IInv == Typed /\ SlotOK /\ MembersOK /\ VerdictOK /\ ModeOK /\ HandledOK

-----------------------------------------------------------------------------
(* What every step keeps.                                                  *)

LEMMA Fixed ==
  ASSUME setup' = setup
  PROVE  /\ Subs' = Subs /\ Wanted' = Wanted /\ Fanout' = Fanout /\ Dedup' = Dedup
         /\ MayRefuse' = MayRefuse /\ Batch' = Batch /\ Seqs' = Seqs /\ MaxSeq' = MaxSeq
         /\ MaxCopies' = MaxCopies /\ MaxCursors' = MaxCursors /\ Sure' = Sure /\ Apart' = Apart
         /\ Routes' = Routes /\ Copies' = Copies /\ Frames' = Frames
BY DEF Subs, Wanted, Fanout, Dedup, MayRefuse, Batch, Seqs, MaxSeq, MaxCopies, MaxCursors,
       Sure, Apart, Routes, Copies, Frames, Replies, CursorNotes, CopyFrames

LEMMA SetupOK ==
  ASSUME setup \in Setups
  PROVE  /\ IsFiniteSet(Subs) /\ MaxSeq \in Nat /\ MaxCopies \in Nat /\ MaxCursors \in Nat
         /\ \A s \in Subs : Wanted[s] \subseteq Seqs
         /\ Fanout \in BOOLEAN /\ Dedup \in BOOLEAN /\ Batch \in BOOLEAN
         /\ MayRefuse \in BOOLEAN
<1>1. /\ Subs \in SUBSET AllSubs /\ MaxSeq \in Nat /\ MaxCopies \in Nat /\ MaxCursors \in Nat
      /\ Wanted \in [AllSubs -> SUBSET Seqs]
  BY DeliveryAssumption DEF DeliveryAssumption, Subs, MaxSeq, MaxCopies, MaxCursors, Wanted, Seqs
<1>2. IsFiniteSet(Subs)
  BY <1>1, DeliveryAssumption, FS_Subset DEF DeliveryAssumption
<1>3. \A b \in {setup.fanout, setup.dedup, setup.batch, setup.mayRefuse} : b \in BOOLEAN
  BY DeliveryAssumption DEF DeliveryAssumption
<1>4. QED
  BY <1>1, <1>2, <1>3 DEF Fanout, Dedup, Batch, MayRefuse

-----------------------------------------------------------------------------
(* The registry.                                                           *)

LEMMA NoRouteOK == NoRoute \in Routes
BY EmptySeq DEF NoRoute, Routes

LEMMA HeadIn ==
  ASSUME NEW ss \in Seq(Subs), ss # <<>>
  PROVE  Head(ss) \in Range(ss) /\ Head(ss) \in Subs
<1>1. Len(ss) \in Nat /\ DOMAIN ss = 1..Len(ss) /\ \A k \in 1..Len(ss) : ss[k] \in Subs
  BY LenProperties, ElementOfSeq
<1>2. Head(ss) = ss[1] /\ 1 \in 1..Len(ss)
  BY <1>1, EmptySeq
<1>3. QED
  BY <1>1, <1>2 DEF Range

\* rebuild, whatever the slice: its members lead to it and share one mode.
LEMMA RebuildRoutes ==
  ASSUME NEW old \in [Subs -> Routes], NEW ss \in Seq(Subs)
  PROVE  LET new == Rebuild(old, ss)
         IN  /\ new \in [Subs -> Routes]
             /\ \A s \in Range(ss) :
                  Leads(new, ss, s) /\ new[s].fanout = old[Head(ss)].fanout
             /\ \A s \in Subs \ Range(ss) : new[s] = old[s]
<1> DEFINE new == Rebuild(old, ss)
           fan == ss # <<>> /\ old[Head(ss)].fanout
           idx(s) == CHOOSE k \in 1..Len(ss) : ss[k] = s
<1>1. Len(ss) \in Nat /\ DOMAIN ss = 1..Len(ss) /\ \A k \in 1..Len(ss) : ss[k] \in Subs
  BY LenProperties, ElementOfSeq
<1>2. new = [s \in Subs |-> IF s \in Range(ss)
                            THEN [fanout |-> fan, idx |-> idx(s), subs |-> ss]
                            ELSE old[s]]
  BY DEF Rebuild
<1>3. \A s \in Range(ss) : idx(s) \in 1..Len(ss) /\ ss[idx(s)] = s
  BY <1>1 DEF Range
<1>4. Range(ss) \subseteq Subs /\ (Range(ss) # {} => ss # <<>>)
  BY <1>1, EmptySeq DEF Range
<1>5. PICK b \in BOOLEAN : b = fan
  OBVIOUS
<1>6. ss # <<>> => old[Head(ss)].fanout \in BOOLEAN
  BY HeadIn DEF Routes
<1>7. ss # <<>> => b = old[Head(ss)].fanout
  BY <1>5, <1>6
<1>8. new = [s \in Subs |-> IF s \in Range(ss)
                           THEN [fanout |-> b, idx |-> idx(s), subs |-> ss]
                           ELSE old[s]]
  BY <1>2, <1>5
<1> HIDE DEF new, fan, idx
<1>9. \A s \in Range(ss) : [fanout |-> b, idx |-> idx(s), subs |-> ss] \in Routes
  BY <1>1, <1>3, <1>5 DEF Routes
<1>10. \A s \in Range(ss) : new[s] = [fanout |-> b, idx |-> idx(s), subs |-> ss]
  BY <1>4, <1>8
<1>11. \A s \in Subs \ Range(ss) : new[s] = old[s]
  BY <1>8
<1>12. new \in [Subs -> Routes]
  BY <1>9, <1>8
<1>13. ASSUME NEW s \in Range(ss)
       PROVE  Leads(new, ss, s) /\ new[s].fanout = old[Head(ss)].fanout
  <2> DEFINE k == idx(s)
             rec == [fanout |-> b, idx |-> k, subs |-> ss]
  <2>1. new[s] = rec
    BY <1>10
  <2>2. rec.subs = ss /\ rec.idx = k /\ rec.fanout = b
    OBVIOUS
  <2> HIDE DEF rec, k
  <2>3. new[s].subs = ss /\ new[s].idx = k /\ new[s].fanout = b
    BY <2>1, <2>2
  <2> USE DEF k
  <2>4. QED
    BY <1>3, <1>4, <1>7, <2>3 DEF Leads
<1>14. QED
  BY <1>11, <1>12, <1>13 DEF new

\* Putting new members behind those that are there.
LEMMA Registers ==
  ASSUME Typed, MembersOK, NEW new \in Seq(Subs), NoRepeat(new),
         Range(new) \cap Range(sibs) = {}, RegisterAll(new)
  PROVE  /\ sibs' \in Seq(Subs) /\ NoRepeat(sibs')
         /\ Range(sibs') = Range(sibs) \cup Range(new)
         /\ route' \in [Subs -> Routes]
         /\ \A s \in Range(sibs') : Leads(route', sibs', s)
         /\ \A s \in Subs \ Range(sibs') : route'[s] = NoRoute
         /\ sibs # <<>> => \A s \in Range(sibs') : route'[s].fanout = route[Head(sibs)].fanout
<1>1. sibs \in Seq(Subs) /\ NoRepeat(sibs) /\ route \in [Subs -> Routes]
  BY DEF Typed
<1>2. sibs' = sibs \o new /\ route' = Rebuild(route, sibs')
  BY DEF RegisterAll
<1>3. /\ sibs' \in Seq(Subs) /\ Len(sibs') = Len(sibs) + Len(new)
      /\ Len(sibs) \in Nat /\ Len(new) \in Nat
      /\ DOMAIN sibs = 1..Len(sibs) /\ DOMAIN new = 1..Len(new) /\ DOMAIN sibs' = 1..Len(sibs')
      /\ \A i \in 1..Len(sibs') :
           sibs'[i] = IF i <= Len(sibs) THEN sibs[i] ELSE new[i - Len(sibs)]
  BY <1>1, <1>2, ConcatProperties, LenProperties
<1>4. NoRepeat(sibs')
  <2> SUFFICES ASSUME NEW j \in 1..Len(sibs'), NEW k \in 1..Len(sibs'), sibs'[j] = sibs'[k]
               PROVE  j = k
    BY DEF NoRepeat
  <2>1. CASE j <= Len(sibs) /\ k <= Len(sibs)
    BY <1>1, <1>3, <2>1 DEF NoRepeat
  <2>2. CASE j > Len(sibs) /\ k > Len(sibs)
    <3>1. j - Len(sibs) \in 1..Len(new) /\ k - Len(sibs) \in 1..Len(new)
      BY <1>3, <2>2
    <3>2. new[j - Len(sibs)] = new[k - Len(sibs)]
      BY <1>3, <2>2
    <3>3. j - Len(sibs) = k - Len(sibs)
      BY <3>1, <3>2 DEF NoRepeat
    <3>4. QED
      BY <1>3, <3>3
  <2>3. ASSUME NEW a \in 1..Len(sibs'), NEW b \in 1..Len(sibs'), a <= Len(sibs), b > Len(sibs)
        PROVE  sibs'[a] # sibs'[b]
    <3>1. a \in 1..Len(sibs) /\ b - Len(sibs) \in 1..Len(new)
      BY <1>3, <2>3
    <3>2. sibs'[a] = sibs[a] /\ sibs'[b] = new[b - Len(sibs)]
      BY <1>3, <2>3
    <3>3. sibs[a] \in Range(sibs) /\ new[b - Len(sibs)] \in Range(new)
      BY <1>3, <3>1 DEF Range
    <3>4. QED
      BY <3>2, <3>3
  <2>4. QED
    BY <1>3, <2>1, <2>2, <2>3
<1>5. Range(sibs') = Range(sibs) \cup Range(new)
  <2>1. ASSUME NEW x \in Range(sibs') PROVE x \in Range(sibs) \cup Range(new)
    <3>1. PICK i \in 1..Len(sibs') : x = sibs'[i]
      BY <1>3 DEF Range
    <3>2. CASE i <= Len(sibs)
      BY <1>3, <3>1, <3>2 DEF Range
    <3>3. CASE i > Len(sibs)
      <4>1. i - Len(sibs) \in 1..Len(new) /\ x = new[i - Len(sibs)]
        BY <1>3, <3>1, <3>3
      <4>2. QED
        BY <1>3, <4>1 DEF Range
    <3>4. QED
      BY <1>3, <3>2, <3>3
  <2>2. ASSUME NEW x \in Range(sibs) PROVE x \in Range(sibs')
    <3>1. PICK i \in 1..Len(sibs) : x = sibs[i]
      BY <1>3 DEF Range
    <3>2. i \in 1..Len(sibs') /\ sibs'[i] = x
      BY <1>3, <3>1
    <3>3. QED
      BY <1>3, <3>2 DEF Range
  <2>3. ASSUME NEW x \in Range(new) PROVE x \in Range(sibs')
    <3>1. PICK i \in 1..Len(new) : x = new[i]
      BY <1>3 DEF Range
    <3>2. i + Len(sibs) \in 1..Len(sibs') /\ ~ (i + Len(sibs) <= Len(sibs))
          /\ (i + Len(sibs)) - Len(sibs) = i
      BY <1>3, <3>1
    <3>3. sibs'[i + Len(sibs)] = x
      BY <1>3, <3>1, <3>2
    <3>4. QED
      BY <1>3, <3>2, <3>3 DEF Range
  <2>4. QED
    BY <2>1, <2>2, <2>3
<1>6. /\ route' \in [Subs -> Routes]
      /\ \A s \in Range(sibs') :
           Leads(route', sibs', s) /\ route'[s].fanout = route[Head(sibs')].fanout
      /\ \A s \in Subs \ Range(sibs') : route'[s] = route[s]
  <2>1. PICK r : r = Rebuild(route, sibs')
    OBVIOUS
  <2>2. sibs' \in Seq(Subs) /\ route \in [Subs -> Routes]
    BY ONLY <1>1, <1>3
  <2>3. /\ r \in [Subs -> Routes]
        /\ \A s \in Range(sibs') : Leads(r, sibs', s) /\ r[s].fanout = route[Head(sibs')].fanout
        /\ \A s \in Subs \ Range(sibs') : r[s] = route[s]
    BY ONLY <2>1, <2>2, RebuildRoutes
  <2>4. route' = r
    BY <1>2, <2>1
  <2>5. QED
    BY ONLY <2>3, <2>4
<1>7. \A s \in Subs \ Range(sibs') : route'[s] = NoRoute
  BY <1>5, <1>6 DEF MembersOK
<1>8. sibs # <<>> => Head(sibs') = Head(sibs)
  <2> HAVE sibs # <<>>
  <2>1. 1 \in 1..Len(sibs) /\ 1 \in 1..Len(sibs') /\ Len(sibs) >= 1
    BY <1>1, <1>3, EmptySeq
  <2>2. sibs'[1] = sibs[1] /\ Head(sibs') = sibs'[1] /\ Head(sibs) = sibs[1]
    BY <1>3, <2>1
  <2>3. QED
    BY <2>2
<1>9. QED
  BY <1>3, <1>4, <1>5, <1>6, <1>7, <1>8

Cleared(old, S) == [t \in Subs |-> IF t \in S THEN NoRoute ELSE old[t]]

\* Taking members out: those that stay agree with one of themselves on the mode.
LEMMA Removes ==
  ASSUME NEW q \in Seq(Subs), NoRepeat(q), NEW S, NEW old \in [Subs -> Routes],
         \A s \in Subs \ Range(q) : old[s] = NoRoute,
         NEW T, \A s \in Subs : s \in T <=> s \notin S,
         NEW p, p = Kept(q, T), NEW r, r = Rebuild(Cleared(old, S), p)
  PROVE  /\ p \in Seq(Subs) /\ NoRepeat(p)
         /\ Range(p) = Range(q) \ S
         /\ r \in [Subs -> Routes]
         /\ \A s \in Range(p) : Leads(r, p, s)
         /\ \A s \in Subs \ Range(p) : r[s] = NoRoute
         /\ \A s \in Range(p) : \E h \in Range(p) : r[s].fanout = old[h].fanout
<1> DEFINE mid == Cleared(old, S)
<1>1. p \in Seq(Subs) /\ NoRepeat(p) /\ Range(p) = Range(q) \cap T
  BY KeptMembers
<1>2. Range(q) \subseteq Subs
  BY LenProperties, ElementOfSeq DEF Range
<1>3. Range(p) = Range(q) \ S
  BY <1>1, <1>2
<1>4. mid \in [Subs -> Routes]
  BY NoRouteOK DEF Cleared
<1>5. \A s \in Subs \ Range(p) : mid[s] = NoRoute
  BY <1>3 DEF Cleared
<1>6. \A s \in Range(p) : s \in Subs /\ mid[s] = old[s]
  BY <1>2, <1>3 DEF Cleared
<1> HIDE DEF mid
<1>7. /\ r \in [Subs -> Routes]
      /\ \A s \in Range(p) : Leads(r, p, s) /\ r[s].fanout = mid[Head(p)].fanout
      /\ \A s \in Subs \ Range(p) : r[s] = mid[s]
  <2>1. PICK ss : ss = p
    OBVIOUS
  <2>2. PICK n : n = Rebuild(mid, ss)
    OBVIOUS
  <2>3. ss \in Seq(Subs)
    BY <1>1, <2>1
  <2>4. /\ n \in [Subs -> Routes]
        /\ \A s \in Range(ss) : Leads(n, ss, s) /\ n[s].fanout = mid[Head(ss)].fanout
        /\ \A s \in Subs \ Range(ss) : n[s] = mid[s]
    BY <1>4, <2>2, <2>3, RebuildRoutes
  <2>5. n = r
    BY <2>1, <2>2 DEF mid
  <2>6. QED
    BY <2>1, <2>4, <2>5
<1>8. ASSUME NEW s \in Range(p) PROVE Head(p) \in Range(p)
  <2>1. Len(p) \in Nat /\ DOMAIN p = 1..Len(p)
    BY <1>1, LenProperties
  <2>2. PICK i \in 1..Len(p) : s = p[i]
    BY <2>1 DEF Range
  <2>3. Len(p) # 0
    BY <2>1, <2>2
  <2>4. QED
    BY <1>1, <2>3, HeadIn, EmptySeq
<1>9. QED
  BY <1>1, <1>3, <1>5, <1>6, <1>7, <1>8

\* Steps that add no ack, and steps that leave the registry and open nothing.
LEMMA SameHandled ==
  ASSUME setup' = setup, HandledOK, acked \subseteq acked', acks' \subseteq acks,
         released' \subseteq released
  PROVE  HandledOK'
<1> SUFFICES ASSUME Apart, NEW sq \in acks' \cup released'
             PROVE  \E t \in Subs : <<t, sq[2]>> \in acked' /\ (Fanout => t = sq[1])
  BY DEF HandledOK, Handled, Apart, Fanout, Dedup, Subs
<1>1. Handled(sq)
  BY DEF HandledOK
<1>2. QED
  BY <1>1 DEF Handled

LEMMA SameModes ==
  ASSUME setup' = setup, Typed, ModeOK, sibs' = sibs, route' = route,
         \A s \in Subs : life'[s] = "owned" => life[s] = "owned"
  PROVE  ModeOK'
<1>1. Range(sibs) \subseteq Subs
  BY LenProperties, ElementOfSeq DEF Typed, Range
<1> SUFFICES ASSUME Sure, Fanout, NEW s \in Range(sibs), life'[s] = "owned",
                    NEW t \in Range(sibs)
             PROVE  route[t].fanout = TRUE
  BY Fixed DEF ModeOK
<1>2. QED
  BY <1>1 DEF ModeOK

\* One frame leaves the wire, one goes onto it.
LEMMA WireTail ==
  ASSUME Typed, wire # <<>>, wire' = Tail(wire)
  PROVE  /\ Head(wire) \in Frames /\ 1 \in 1..Len(wire) /\ Head(wire) = wire[1]
         /\ wire' \in Seq(Frames)
         /\ \A i \in 1..Len(wire') : i + 1 \in 1..Len(wire) /\ wire'[i] = wire[i + 1]
<1>1. wire \in Seq(Frames) /\ Len(wire) \in Nat /\ Len(wire) # 0
  BY LenProperties, EmptySeq DEF Typed
<1>2. /\ Head(wire) \in Frames /\ wire' \in Seq(Frames) /\ Len(wire') = Len(wire) - 1
      /\ \A i \in 1..(Len(wire) - 1) : wire'[i] = wire[i + 1]
  BY <1>1, HeadTailProperties
<1>3. Head(wire) = wire[1] /\ 1 \in 1..Len(wire)
  BY <1>1
<1>4. \A i \in 1..Len(wire') : i + 1 \in 1..Len(wire)
  BY <1>1, <1>2
<1>5. QED
  BY <1>2, <1>3, <1>4

LEMMA WireAppend ==
  ASSUME Typed, NEW f \in Frames, wire' = Append(wire, f)
  PROVE  /\ wire' \in Seq(Frames)
         /\ \A i \in 1..Len(wire') : (i \in 1..Len(wire) /\ wire'[i] = wire[i]) \/ wire'[i] = f
<1>1. wire \in Seq(Frames) /\ Len(wire) \in Nat
  BY LenProperties DEF Typed
<1>2. /\ wire' \in Seq(Frames) /\ Len(wire') = Len(wire) + 1
      /\ \A i \in 1..Len(wire) : wire'[i] = wire[i]
      /\ wire'[Len(wire) + 1] = f
  BY <1>1, AppendProperties
<1>3. \A i \in 1..Len(wire') : i \in 1..Len(wire) \/ i = Len(wire) + 1
  BY <1>1, <1>2
<1>4. QED
  BY <1>2, <1>3

LEMMA Kinds ==
  \A f \in Frames :
    /\ f.kind = "reply"  => f \in Replies
    /\ f.kind = "cursor" => f \in CursorNotes
    /\ f.kind = "copy"   => f \in CopyFrames
    /\ f.kind \in {"reply", "cursor", "copy"}
BY DEF Frames, Replies, CursorNotes, CopyFrames

-----------------------------------------------------------------------------
(* The slot.                                                               *)

SlotFields == {"name", "set", "fifo", "min", "max", "tombed"}

\* Recording adds the number at most, a cursor only takes away.
LEMMA CheckRecordLive ==
  ASSUME NEW st, DOMAIN st = SlotFields, NEW q, NEW t, NEW cap
  PROVE  /\ DOMAIN CheckRecord(st, q, t, cap) = SlotFields
         /\ Live(CheckRecord(st, q, t, cap)) \subseteq Live(st) \cup {q}
<1> DEFINE in  == [st EXCEPT !.set = With(@, q, t), !.fifo = Append(@, q)]
           out == Evict(in, cap)
<1>1. DOMAIN in = SlotFields /\ in.set = With(st.set, q, t)
  BY DEF SlotFields
<1>2. DOMAIN With(st.set, q, t) = Live(st) \cup {q}
  BY DEF With, Live
<1>3. Live(in) = Live(st) \cup {q}
  BY <1>1, <1>2 DEF Live
<1> HIDE DEF in
<1>4. PICK S : DOMAIN out = SlotFields /\ out.set = Without(in.set, S)
  <2> DEFINE n == IF Len(in.fifo) > cap THEN Len(in.fifo) - cap ELSE 0
             S == {in.fifo[i] : i \in 1..n}
  <2>1. out = [in EXCEPT !.fifo = SubSeq(@, n + 1, Len(@)), !.set = Without(@, S)]
    BY DEF Evict
  <2> HIDE DEF S, n
  <2>2. QED
    BY <1>1, <2>1 DEF SlotFields
<1> HIDE DEF out
<1>5. Live(out) \subseteq Live(in)
  BY <1>4 DEF Live, Without, Restrict
<1>6. DOMAIN RefreshBounds(out, q) = SlotFields /\ RefreshBounds(out, q).set = out.set
  BY <1>4 DEF RefreshBounds, SlotFields
<1>7. CASE st.tombed \/ q \in Live(st)
  BY <1>7 DEF CheckRecord
<1>8. CASE ~ (st.tombed \/ q \in Live(st))
  <2>1. CheckRecord(st, q, t, cap) = RefreshBounds(out, q)
    BY <1>8 DEF CheckRecord, out, in
  <2>2. QED
    BY <1>3, <1>5, <1>6, <2>1 DEF Live
<1>9. QED
  BY <1>7, <1>8

LEMMA PurgedLive ==
  ASSUME DOMAIN slot = SlotFields, NEW c
  PROVE  DOMAIN Purged(c) = SlotFields /\ Live(Purged(c)) \subseteq Live(slot)
<1>1. CASE UpTo(slot, c) = {}
  BY <1>1 DEF Purged, MemConfirmUpTo
<1>2. CASE UpTo(slot, c) # {}
  <2> DEFINE m == SmallestOf(Live(slot) \ UpTo(slot, c))
  <2>1. Purged(c) = [slot EXCEPT !.set = Without(@, UpTo(slot, c)), !.min = m]
    BY <1>2 DEF Purged, MemConfirmUpTo
  <2> HIDE DEF m
  <2>2. DOMAIN Purged(c) = SlotFields /\ Purged(c).set = Without(slot.set, UpTo(slot, c))
    BY <2>1 DEF SlotFields
  <2>3. QED
    BY <2>2 DEF Live, Without, Restrict
<1>3. QED
  BY <1>1, <1>2

-----------------------------------------------------------------------------
(* Opening.                                                                *)

LEMMA OpenKeeps ==
  ASSUME IInv, UNCHANGED setup, NEW new \in Seq(Subs), NoRepeat(new),
         \A s \in Range(new) : life[s] = "none", Open(new)
  PROVE  IInv'
<1> USE DEF client, app, broker
<1>1. setup' = setup /\ Typed
  BY DEF IInv
<1>2. /\ sibs' \in Seq(Subs) /\ NoRepeat(sibs')
      /\ Range(sibs') = Range(sibs) \cup Range(new)
      /\ route' \in [Subs -> Routes]
      /\ \A s \in Range(sibs') : Leads(route', sibs', s)
      /\ \A s \in Subs \ Range(sibs') : route'[s] = NoRoute
      /\ sibs # <<>> => \A s \in Range(sibs') : route'[s].fanout = route[Head(sibs)].fanout
  <2>1. \A s \in Range(new) : s \in Subs
    BY LenProperties, ElementOfSeq DEF Range
  <2>2. Range(new) \cap Range(sibs) = {}
    BY <1>1, <2>1 DEF IInv, MembersOK, Member
  <2>3. QED
    BY <1>1, <2>2, Registers DEF Open, IInv
<1>3. /\ life' = [s \in Subs |-> IF s \in Range(new) THEN "calling" ELSE life[s]]
      /\ UNCHANGED <<verdict, chan, slot, copy, panicked, held, acked, unrecorded, wire, acks,
                     bound, pending, released, copies, cursors>>
  BY DEF Open
<1>4. Typed'
  BY <1>1, <1>2, <1>3, Fixed DEF Typed, Lives, Verdicts
<1>5. SlotOK'
  BY <1>1, <1>3, Fixed DEF IInv, SlotOK
<1>6. MembersOK'
  BY <1>1, <1>2, <1>3, Fixed DEF IInv, MembersOK, Member, Leads, Typed
<1>7. VerdictOK'
  BY <1>1, <1>3, Fixed DEF IInv, VerdictOK, Typed
<1>8. ModeOK'
  <2> SUFFICES ASSUME Sure, Fanout, NEW s \in Range(sibs'), life'[s] = "owned",
                      NEW t \in Range(sibs')
               PROVE  route'[t].fanout = TRUE
    BY <1>1, Fixed DEF ModeOK
  <2>1. s \in Range(sibs) /\ life[s] = "owned" /\ sibs \in Seq(Subs)
    <3>1. s \in Subs
      BY <1>2, LenProperties, ElementOfSeq DEF Range
    <3>2. s \notin Range(new)
      BY <1>3, <3>1
    <3>3. QED
      BY <1>1, <1>2, <1>3, <3>1, <3>2 DEF Typed
  <2>2. sibs # <<>>
    BY <2>1, LenProperties, EmptySeq DEF Range
  <2>3. Head(sibs) \in Range(sibs)
    BY <2>1, <2>2, HeadIn
  <2>4. route[Head(sibs)].fanout = TRUE
    BY <2>1, <2>3 DEF IInv, ModeOK
  <2>5. QED
    BY <1>2, <2>2, <2>4
<1>9. HandledOK'
  BY <1>1, <1>3, SameHandled DEF IInv
<1>10. QED
  BY <1>4, <1>5, <1>6, <1>7, <1>8, <1>9 DEF IInv

LEMMA SubscribeKeeps ==
  ASSUME IInv, UNCHANGED setup, NEW s \in Subs, Subscribe(s)
  PROVE  IInv'
<1>1. <<s>> \in Seq(Subs) /\ Len(<<s>>) = 1 /\ DOMAIN <<s>> = 1..1 /\ <<s>>[1] = s
  OBVIOUS
<1>2. Range(<<s>>) = {s} /\ NoRepeat(<<s>>)
  BY <1>1 DEF Range, NoRepeat
<1>3. Open(<<s>>) /\ life[s] = "none"
  BY DEF Subscribe
<1>4. QED
  BY <1>1, <1>2, <1>3, OpenKeeps

LEMMA SubscribeBatchKeeps ==
  ASSUME IInv, UNCHANGED setup, SubscribeBatch
  PROVE  IInv'
<1>1. IsFiniteSet(Subs)
  BY SetupOK DEF IInv, Typed
<1>2. SetToSeq(Subs) \in Seq(Subs) /\ Range(SetToSeq(Subs)) = Subs /\ NoRepeat(SetToSeq(Subs))
  BY <1>1, LaidOut
<1>3. Open(SetToSeq(Subs)) /\ \A s \in Subs : life[s] = "none"
  BY DEF SubscribeBatch
<1>4. QED
  BY <1>2, <1>3, OpenKeeps

\* setFanout changes nothing but the mode.
LEMMA ModesSet ==
  ASSUME Typed, NEW fan \in BOOLEAN
  PROVE  LET new == SetFanout(route, fan)
         IN  /\ new \in [Subs -> Routes]
             /\ \A s \in Subs : new[s].subs = route[s].subs /\ new[s].idx = route[s].idx
             /\ \A s \in Subs \cap Range(sibs) : new[s].fanout = fan
             /\ \A s \in Subs \ Range(sibs) : new[s] = route[s]
<1> DEFINE new == SetFanout(route, fan)
<1>1. route \in [Subs -> Routes]
  BY DEF Typed
<1>2. new = [s \in Subs |-> IF s \in Range(sibs) THEN [route[s] EXCEPT !.fanout = fan]
                            ELSE route[s]]
  BY DEF SetFanout
<1> HIDE DEF new
<1>3. ASSUME NEW s \in Subs, s \in Range(sibs)
      PROVE  /\ new[s] \in Routes /\ new[s].fanout = fan
             /\ new[s].subs = route[s].subs /\ new[s].idx = route[s].idx
  <2>1. new[s] = [route[s] EXCEPT !.fanout = fan]
    BY <1>2, <1>3
  <2>2. route[s] \in Routes
    BY <1>1
  <2>3. QED
    BY <2>1, <2>2 DEF Routes
<1>4. \A s \in Subs \ Range(sibs) : new[s] = route[s]
  BY <1>2
<1>5. new \in [Subs -> Routes]
  BY <1>1, <1>2, <1>3, <1>4
<1>6. QED
  BY <1>3, <1>4, <1>5 DEF new

LEMMA SubscribeReturnKeeps ==
  ASSUME IInv, UNCHANGED setup, NEW s \in Subs, SubscribeReturn(s)
  PROVE  IInv'
<1> USE DEF client, app, broker
<1>1. setup' = setup /\ Typed
  BY DEF IInv
<1>2. PICK fan \in BOOLEAN : fan = (Fanout /\ verdict[s] = "ok")
  OBVIOUS
<1>3. /\ life[s] = "replied" /\ life' = [life EXCEPT ![s] = "owned"] /\ ~Batch
      /\ route' = SetFanout(route, fan)
      /\ UNCHANGED <<verdict, sibs, slot, chan, copy, panicked, held, acked, unrecorded, wire,
                     acks, bound, pending, released, copies, cursors>>
  BY <1>2 DEF SubscribeReturn
<1>4. /\ route' \in [Subs -> Routes]
      /\ \A t \in Subs : route'[t].subs = route[t].subs /\ route'[t].idx = route[t].idx
      /\ \A t \in Subs \cap Range(sibs) : route'[t].fanout = fan
      /\ \A t \in Subs \ Range(sibs) : route'[t] = route[t]
  BY <1>1, <1>3, ModesSet
<1>5. Typed'
  BY <1>1, <1>3, <1>4, Fixed DEF Typed, Lives, Verdicts
<1>6. SlotOK'
  BY <1>1, <1>3, Fixed DEF IInv, SlotOK
<1>7. MembersOK'
  <2> SUFFICES ASSUME NEW t \in Subs
               PROVE  /\ t \in Range(sibs) <=> Member(t)'
                      /\ IF t \in Range(sibs) THEN Leads(route', sibs, t) ELSE route'[t] = NoRoute
    BY <1>1, <1>3, Fixed DEF MembersOK
  <2>1. t \in Range(sibs) <=> Member(t)'
    BY <1>1, <1>3 DEF IInv, MembersOK, Member, Typed
  <2>2. IF t \in Range(sibs) THEN Leads(route, sibs, t) ELSE route[t] = NoRoute
    BY DEF IInv, MembersOK
  <2>3. QED
    BY <1>4, <2>1, <2>2 DEF Leads
<1>8. VerdictOK'
  BY <1>1, <1>3 DEF IInv, VerdictOK, Typed, Subs, Batch, MayRefuse
<1>9. ModeOK'
  <2> SUFFICES ASSUME Sure, Fanout, NEW t \in Range(sibs)
               PROVE  route'[t].fanout = TRUE
    BY <1>1, <1>3, Fixed DEF ModeOK
  <2>1. t \in Subs
    BY <1>1, LenProperties, ElementOfSeq DEF Typed, Range
  <2>2. verdict[s] \in Verdicts /\ verdict[s] # "none" /\ verdict[s] # "refused"
    BY <1>1, <1>3 DEF IInv, VerdictOK, Sure, Typed
  <2>3. verdict[s] = "ok"
    BY <2>2 DEF Verdicts
  <2>4. fan = TRUE
    BY <1>2, <2>3
  <2>5. QED
    BY <1>4, <2>1, <2>4
<1>10. HandledOK'
  BY <1>1, <1>3, SameHandled DEF IInv
<1>11. QED
  BY <1>5, <1>6, <1>7, <1>8, <1>9, <1>10 DEF IInv

LEMMA SubscribeFailsKeeps ==
  ASSUME IInv, UNCHANGED setup, NEW s \in Subs, SubscribeFails(s)
  PROVE  IInv'
<1> USE DEF client, app, broker
<1>1. setup' = setup /\ Typed
  BY DEF IInv
<1>2. Typed'
  BY <1>1, Fixed DEF SubscribeFails, Typed, Lives, Verdicts
<1>3. SlotOK'
  BY <1>1, Fixed DEF SubscribeFails, IInv, SlotOK
<1>4. MembersOK'
  BY <1>1, Fixed DEF SubscribeFails, IInv, MembersOK, Member, Typed
<1>5. VerdictOK'
  BY <1>1, Fixed DEF SubscribeFails, IInv, VerdictOK, Typed
<1>6. ModeOK'
  BY <1>1, SameModes DEF SubscribeFails, IInv, Typed, Lives
<1>7. HandledOK'
  BY <1>1, SameHandled DEF SubscribeFails, IInv
<1>8. QED
  BY <1>2, <1>3, <1>4, <1>5, <1>6, <1>7 DEF IInv

\* The batch's call gives up: its entries leave the registry.
LEMMA BatchFailsKeeps ==
  ASSUME IInv, UNCHANGED setup, BatchFails
  PROVE  IInv'
<1> USE DEF client, app, broker
<1>1. setup' = setup /\ Typed
  BY DEF IInv
<1>2. /\ life' = [s \in Subs |-> IF s \in Calling THEN "dropped" ELSE life[s]]
      /\ sibs' = Kept(sibs, Subs \ Calling)
      /\ route' = Rebuild(Cleared(route, Calling), sibs')
      /\ UNCHANGED <<verdict, slot, chan, copy, panicked, held, acked, unrecorded, wire, acks,
                     bound, pending, released, copies, cursors>>
  BY DEF BatchFails, RemoveRoutes, Cleared
<1>3. /\ sibs' \in Seq(Subs) /\ NoRepeat(sibs')
      /\ Range(sibs') = Range(sibs) \ Calling
      /\ route' \in [Subs -> Routes]
      /\ \A s \in Range(sibs') : Leads(route', sibs', s)
      /\ \A s \in Subs \ Range(sibs') : route'[s] = NoRoute
      /\ \A s \in Range(sibs') : \E h \in Range(sibs') : route'[s].fanout = route[h].fanout
  <2>1. /\ sibs \in Seq(Subs) /\ NoRepeat(sibs) /\ route \in [Subs -> Routes]
        /\ \A s \in Subs \ Range(sibs) : route[s] = NoRoute
    BY <1>1 DEF IInv, MembersOK, Typed
  <2>2. PICK p, r, T : p = sibs' /\ r = route' /\ T = Subs \ Calling
    OBVIOUS
  <2>3. p = Kept(sibs, T) /\ (\A s \in Subs : s \in T <=> s \notin Calling)
        /\ r = Rebuild(Cleared(route, Calling), p)
    BY <1>2, <2>2
  <2>4. /\ p \in Seq(Subs) /\ NoRepeat(p)
        /\ Range(p) = Range(sibs) \ Calling
        /\ r \in [Subs -> Routes]
        /\ \A s \in Range(p) : Leads(r, p, s)
        /\ \A s \in Subs \ Range(p) : r[s] = NoRoute
        /\ \A s \in Range(p) : \E h \in Range(p) : r[s].fanout = route[h].fanout
    BY <2>1, <2>3, Removes
  <2>5. QED
    BY <2>2, <2>4
<1>4. Range(sibs) \subseteq Subs
  BY <1>1, LenProperties, ElementOfSeq DEF Typed, Range
<1>5. Typed'
  BY <1>1, <1>2, <1>3, Fixed DEF Typed, Lives, Verdicts
<1>6. SlotOK'
  BY <1>1, <1>2, Fixed DEF IInv, SlotOK
<1>7. MembersOK'
  BY <1>1, <1>2, <1>3, <1>4, Fixed DEF IInv, MembersOK, Member, Leads, Typed, Calling
<1>8. VerdictOK'
  BY <1>1, <1>2, <1>4 DEF IInv, VerdictOK, Typed, Subs, Batch, MayRefuse, Calling
<1>9. ModeOK'
  <2> SUFFICES ASSUME Sure, Fanout, NEW s \in Range(sibs'), life'[s] = "owned",
                      NEW t \in Range(sibs')
               PROVE  route'[t].fanout = TRUE
    BY <1>1, Fixed DEF ModeOK
  <2>1. s \in Range(sibs) /\ life[s] = "owned"
    BY <1>1, <1>2, <1>3, <1>4 DEF Typed
  <2>2. \A h \in Range(sibs) : route[h].fanout = TRUE
    BY <2>1 DEF IInv, ModeOK
  <2>3. QED
    BY <1>3, <2>2
<1>10. HandledOK'
  BY <1>1, <1>2, SameHandled DEF IInv
<1>11. QED
  BY <1>5, <1>6, <1>7, <1>8, <1>9, <1>10 DEF IInv

\* The reply names the refused entries; the others have their mode.
LEMMA BatchReturnKeeps ==
  ASSUME IInv, UNCHANGED setup, BatchReturn
  PROVE  IInv'
<1> USE DEF client, app, broker
<1>1. setup' = setup /\ Typed
  BY DEF IInv
<1> DEFINE out == RefusedOf(Calling)
           old == SetFanout(route, Fanout)
<1>2. Fanout \in BOOLEAN
  BY <1>1, SetupOK DEF Typed
<1>3. /\ old \in [Subs -> Routes]
      /\ \A s \in Subs \cap Range(sibs) : old[s].fanout = Fanout
      /\ \A s \in Subs \ Range(sibs) : old[s] = NoRoute
  BY <1>1, <1>2, ModesSet DEF IInv, MembersOK
<1>4. out = {s \in Calling : verdict[s] = "refused"}
  BY DEF RefusedOf
<1>5. /\ Batch
      /\ life' = [s \in Subs |-> IF s \in out THEN "dropped"
                                  ELSE IF s \in Calling THEN "owned" ELSE life[s]]
      /\ sibs' = Kept(sibs, Subs \ out)
      /\ route' = Rebuild(Cleared(old, out), sibs')
      /\ UNCHANGED <<verdict, slot, chan, copy, panicked, held, acked, unrecorded, wire, acks,
                     bound, pending, released, copies, cursors>>
  BY DEF BatchReturn, Cleared
<1> HIDE DEF out, old
<1>6. /\ sibs' \in Seq(Subs) /\ NoRepeat(sibs')
      /\ Range(sibs') = Range(sibs) \ out
      /\ route' \in [Subs -> Routes]
      /\ \A s \in Range(sibs') : Leads(route', sibs', s)
      /\ \A s \in Subs \ Range(sibs') : route'[s] = NoRoute
      /\ \A s \in Range(sibs') : \E h \in Range(sibs') : route'[s].fanout = old[h].fanout
  <2>1. sibs \in Seq(Subs) /\ NoRepeat(sibs)
    BY <1>1 DEF Typed
  <2>2. PICK p, r, T : p = sibs' /\ r = route' /\ T = Subs \ out
    OBVIOUS
  <2>3. p = Kept(sibs, T) /\ (\A s \in Subs : s \in T <=> s \notin out)
        /\ r = Rebuild(Cleared(old, out), p)
    BY <1>5, <2>2
  <2>4. /\ p \in Seq(Subs) /\ NoRepeat(p)
        /\ Range(p) = Range(sibs) \ out
        /\ r \in [Subs -> Routes]
        /\ \A s \in Range(p) : Leads(r, p, s)
        /\ \A s \in Subs \ Range(p) : r[s] = NoRoute
        /\ \A s \in Range(p) : \E h \in Range(p) : r[s].fanout = old[h].fanout
    BY <1>3, <2>1, <2>3, Removes
  <2>5. QED
    BY <2>2, <2>4
<1>7. Range(sibs) \subseteq Subs
  BY <1>1, LenProperties, ElementOfSeq DEF Typed, Range
<1>8. Typed'
  BY <1>1, <1>5, <1>6, Fixed DEF Typed, Lives, Verdicts
<1>9. SlotOK'
  BY <1>1, <1>5, Fixed DEF IInv, SlotOK
<1>10. MembersOK'
  <2> SUFFICES ASSUME NEW s \in Subs
               PROVE  /\ s \in Range(sibs') <=> Member(s)'
                      /\ IF s \in Range(sibs') THEN Leads(route', sibs', s) ELSE route'[s] = NoRoute
    BY <1>1, Fixed DEF MembersOK
  <2>1. s \in Range(sibs) <=> Member(s)
    BY DEF IInv, MembersOK
  <2>2. Member(s)' <=> Member(s) /\ s \notin out
    BY <1>5, <1>4 DEF Member, Calling
  <2>3. QED
    BY <1>6, <2>1, <2>2
<1>11. VerdictOK'
  BY <1>1, <1>5, <1>4 DEF IInv, VerdictOK, Typed, Subs, Batch, MayRefuse, Calling
<1>12. ModeOK'
  <2> SUFFICES ASSUME Fanout, NEW t \in Range(sibs')
               PROVE  route'[t].fanout = TRUE
    BY <1>1, Fixed DEF ModeOK
  <2>1. PICK h \in Range(sibs') : route'[t].fanout = old[h].fanout
    BY <1>6
  <2>2. old[h].fanout = Fanout
    BY <1>6, <1>7, <1>3
  <2>3. QED
    BY <2>1, <2>2
<1>13. HandledOK'
  BY <1>1, <1>5, SameHandled DEF IInv
<1>14. QED
  BY <1>8, <1>9, <1>10, <1>11, <1>12, <1>13 DEF IInv

LEMMA CloseRemoveKeeps ==
  ASSUME IInv, UNCHANGED setup, NEW c \in Subs, CloseRemove(c)
  PROVE  IInv'
<1> USE DEF client, app, broker
<1>1. setup' = setup /\ Typed
  BY DEF IInv
<1> DEFINE gone == {c}
<1>2. \A s \in Subs : s \in gone <=> s = c
  OBVIOUS
<1>3. /\ life[c] = "marked" /\ life' = [life EXCEPT ![c] = "removed"]
      /\ sibs' = Kept(sibs, Subs \ gone)
      /\ route' = Rebuild(Cleared(route, gone), sibs')
      /\ UNCHANGED <<verdict, slot, chan, copy, panicked, held, acked, unrecorded, wire, acks,
                     bound, pending, released, copies, cursors>>
  BY DEF CloseRemove, RemoveRoutes, Cleared
<1> HIDE DEF gone
<1>4. /\ sibs' \in Seq(Subs) /\ NoRepeat(sibs')
      /\ Range(sibs') = Range(sibs) \ gone
      /\ route' \in [Subs -> Routes]
      /\ \A s \in Range(sibs') : Leads(route', sibs', s)
      /\ \A s \in Subs \ Range(sibs') : route'[s] = NoRoute
      /\ \A s \in Range(sibs') : \E h \in Range(sibs') : route'[s].fanout = route[h].fanout
  <2>1. /\ sibs \in Seq(Subs) /\ NoRepeat(sibs) /\ route \in [Subs -> Routes]
        /\ \A s \in Subs \ Range(sibs) : route[s] = NoRoute
    BY <1>1 DEF IInv, MembersOK, Typed
  <2>2. PICK p, r, T : p = sibs' /\ r = route' /\ T = Subs \ gone
    OBVIOUS
  <2>3. p = Kept(sibs, T) /\ (\A s \in Subs : s \in T <=> s \notin gone)
        /\ r = Rebuild(Cleared(route, gone), p)
    BY <1>3, <2>2
  <2>4. /\ p \in Seq(Subs) /\ NoRepeat(p)
        /\ Range(p) = Range(sibs) \ gone
        /\ r \in [Subs -> Routes]
        /\ \A s \in Range(p) : Leads(r, p, s)
        /\ \A s \in Subs \ Range(p) : r[s] = NoRoute
        /\ \A s \in Range(p) : \E h \in Range(p) : r[s].fanout = route[h].fanout
    BY <2>1, <2>3, Removes
  <2>5. QED
    BY <2>2, <2>4
<1>5. Range(sibs) \subseteq Subs
  BY <1>1, LenProperties, ElementOfSeq DEF Typed, Range
<1>6. Typed'
  BY <1>1, <1>3, <1>4, Fixed DEF Typed, Lives, Verdicts
<1>7. SlotOK'
  BY <1>1, <1>3, Fixed DEF IInv, SlotOK
<1>8. MembersOK'
  <2> SUFFICES ASSUME NEW s \in Subs
               PROVE  /\ s \in Range(sibs') <=> Member(s)'
                      /\ IF s \in Range(sibs') THEN Leads(route', sibs', s) ELSE route'[s] = NoRoute
    BY <1>1, Fixed DEF MembersOK
  <2>1. s \in Range(sibs) <=> Member(s)
    BY DEF IInv, MembersOK
  <2>2. Member(s)' <=> Member(s) /\ s \notin gone
    BY <1>1, <1>3, <1>2 DEF Member, Typed
  <2>3. QED
    BY <1>4, <2>1, <2>2
<1>9. VerdictOK'
  BY <1>1, <1>3, <1>5 DEF IInv, VerdictOK, Typed, Subs, Batch, MayRefuse, Calling
<1>10. ModeOK'
  <2> SUFFICES ASSUME Sure, Fanout, NEW s \in Range(sibs'), life'[s] = "owned",
                      NEW t \in Range(sibs')
               PROVE  route'[t].fanout = TRUE
    BY <1>1, Fixed DEF ModeOK
  <2>1. s \in Range(sibs) /\ life[s] = "owned"
    BY <1>1, <1>3, <1>4, <1>5 DEF Typed
  <2>2. \A h \in Range(sibs) : route[h].fanout = TRUE
    BY <2>1 DEF IInv, ModeOK
  <2>3. QED
    BY <1>4, <2>2
<1>11. HandledOK'
  BY <1>1, <1>3, SameHandled DEF IInv
<1>12. QED
  BY <1>6, <1>7, <1>8, <1>9, <1>10, <1>11 DEF IInv

-----------------------------------------------------------------------------
(* The application.                                                        *)

LEMMA CloseMarkKeeps ==
  ASSUME IInv, UNCHANGED setup, NEW c \in Subs, CloseMark(c)
  PROVE  IInv'
<1> USE DEF client, app, broker
<1>1. setup' = setup /\ Typed
  BY DEF IInv
<1>2. Typed'
  BY <1>1, Fixed DEF CloseMark, Typed, Lives, Verdicts
<1>3. SlotOK'
  BY <1>1, Fixed DEF CloseMark, IInv, SlotOK
<1>4. MembersOK'
  BY <1>1, Fixed DEF CloseMark, IInv, MembersOK, Member, Typed
<1>5. VerdictOK'
  BY <1>1, Fixed DEF CloseMark, IInv, VerdictOK, Typed
<1>6. ModeOK'
  BY <1>1, SameModes DEF CloseMark, IInv, Typed, Lives
<1>7. HandledOK'
  BY <1>1, SameHandled DEF CloseMark, IInv
<1>8. QED
  BY <1>2, <1>3, <1>4, <1>5, <1>6, <1>7 DEF IInv

LEMMA CloseChannelKeeps ==
  ASSUME IInv, UNCHANGED setup, NEW c \in Subs, CloseChannel(c)
  PROVE  IInv'
<1> USE DEF client, app, broker
<1>1. setup' = setup /\ Typed
  BY DEF IInv
<1>2. Typed'
  BY <1>1, Fixed DEF CloseChannel, Typed, Lives, Verdicts
<1>3. SlotOK'
  BY <1>1, Fixed DEF CloseChannel, IInv, SlotOK
<1>4. MembersOK'
  BY <1>1, Fixed DEF CloseChannel, IInv, MembersOK, Member, Typed
<1>5. VerdictOK'
  BY <1>1, Fixed DEF CloseChannel, IInv, VerdictOK, Typed
<1>6. ModeOK'
  BY <1>1, SameModes DEF CloseChannel, IInv, Typed, Lives
<1>7. HandledOK'
  BY <1>1, SameHandled DEF CloseChannel, IInv
<1>8. QED
  BY <1>2, <1>3, <1>4, <1>5, <1>6, <1>7 DEF IInv

LEMMA ReceiveKeeps ==
  ASSUME IInv, UNCHANGED setup, NEW c \in Subs, Receive(c)
  PROVE  IInv'
<1> USE DEF client, app, broker
<1>1. setup' = setup /\ Typed
  BY DEF IInv
<1>2. /\ chan[c] \in Seq(Seqs) /\ Head(chan[c]) \in Seqs /\ Tail(chan[c]) \in Seq(Seqs)
      /\ Len(Tail(chan[c])) <= ChanCap
  <2>1. chan[c] \in Seq(Seqs) /\ chan[c] # <<>> /\ Len(chan[c]) <= ChanCap
    BY <1>1 DEF Typed, Receive
  <2>2. Len(Tail(chan[c])) = Len(chan[c]) - 1 /\ Len(chan[c]) \in Nat
    BY <2>1, HeadTailProperties, LenProperties
  <2>3. Len(Tail(chan[c])) <= ChanCap
    BY <2>1, <2>2, DeliveryAssumption DEF DeliveryAssumption
  <2>4. QED
    BY <2>1, <2>3, HeadTailProperties
<1>3. Typed'
  <2>1. chan' \in [Subs -> Seq(Seqs)] /\ \A s \in Subs : Len(chan'[s]) <= ChanCap
    <3>1. chan \in [Subs -> Seq(Seqs)] /\ \A s \in Subs : Len(chan[s]) <= ChanCap
      BY <1>1 DEF Typed
    <3>2. chan' = [chan EXCEPT ![c] = Tail(chan[c])]
      BY DEF Receive
    <3>3. QED
      BY ONLY <1>2, <3>1, <3>2
  <2>2. held' \in [Subs \X Seqs -> Nat]
    <3>1. held \in [Subs \X Seqs -> Nat] /\ <<c, Head(chan[c])>> \in Subs \X Seqs
      BY <1>1, <1>2 DEF Typed
    <3>2. held' = [held EXCEPT ![<<c, Head(chan[c])>>] = @ + 1]
      BY DEF Receive
    <3>3. QED
      BY ONLY <3>1, <3>2
  <2>3. UNCHANGED <<client, copy, panicked, acked, unrecorded, wire, acks, broker>>
    BY DEF Receive
  <2>4. QED
    BY <1>1, Fixed, <2>1, <2>2, <2>3 DEF Typed, Lives, Verdicts
<1>4. SlotOK'
  BY <1>1, Fixed DEF Receive, IInv, SlotOK
<1>5. MembersOK'
  BY <1>1, Fixed DEF Receive, IInv, MembersOK, Member, Typed
<1>6. VerdictOK'
  BY <1>1, Fixed DEF Receive, IInv, VerdictOK, Typed
<1>7. ModeOK'
  BY <1>1, SameModes DEF Receive, IInv, Typed, Lives
<1>8. HandledOK'
  BY <1>1, SameHandled DEF Receive, IInv
<1>9. QED
  BY <1>3, <1>4, <1>5, <1>6, <1>7, <1>8 DEF IInv

LEMMA AckKeeps ==
  ASSUME IInv, UNCHANGED setup, NEW c \in Subs, NEW q \in Seqs, Ack(c, q)
  PROVE  IInv'
<1> USE DEF client, app, broker
<1>1. setup' = setup /\ Typed
  BY DEF IInv
<1>2. acked' = acked \cup {<<c, q>>} /\ acks' = acks \cup {<<c, q>>} /\ released' = released
  BY DEF Ack
<1>3. Typed'
  BY <1>1, Fixed DEF Ack, Typed, Lives, Verdicts
<1>4. SlotOK'
  BY <1>1, Fixed DEF Ack, IInv, SlotOK
<1>5. MembersOK'
  BY <1>1, Fixed DEF Ack, IInv, MembersOK, Member, Typed
<1>6. VerdictOK'
  BY <1>1, Fixed DEF Ack, IInv, VerdictOK, Typed
<1>7. ModeOK'
  BY <1>1, SameModes DEF Ack, IInv, Typed, Lives
<1>8. HandledOK'
  <2> SUFFICES ASSUME Apart, NEW sq \in acks' \cup released'
               PROVE  \E t \in Subs : <<t, sq[2]>> \in acked' /\ (Fanout => t = sq[1])
    BY <1>1 DEF HandledOK, Handled, Apart, Fanout, Dedup, Subs
  <2>1. CASE sq = <<c, q>>
    <3>1. sq[1] = c /\ sq[2] = q
      BY <2>1
    <3>2. QED
      BY <1>2, <3>1
  <2>2. CASE sq \in acks \cup released
    <3>1. Handled(sq)
      BY <2>2 DEF IInv, HandledOK
    <3>2. QED
      BY <1>2, <3>1 DEF Handled
  <2>3. QED
    BY <1>2, <2>1, <2>2
<1>9. QED
  BY <1>3, <1>4, <1>5, <1>6, <1>7, <1>8 DEF IInv

LEMMA AckRecordKeeps ==
  ASSUME IInv, UNCHANGED setup, NEW c \in Subs, NEW q \in Seqs, AckRecord(c, q)
  PROVE  IInv'
<1> USE DEF client, app, broker
<1>1. setup' = setup /\ Typed
  BY DEF IInv
<1>2. /\ DOMAIN slot' = SlotFields /\ Live(slot') \subseteq Live(slot) \cup {q}
      /\ <<c, q>> \in acked /\ acked' = acked
  <2>1. DOMAIN slot = SlotFields
    BY DEF IInv, SlotOK, SlotFields
  <2>2. slot' = CheckRecord(slot, q, 0, MaxSeq) /\ <<c, q>> \in unrecorded /\ acked' = acked
    BY DEF AckRecord
  <2>3. QED
    BY <1>1, <2>1, <2>2, CheckRecordLive DEF Typed
<1>3. Typed'
  BY <1>1, Fixed DEF AckRecord, Typed, Lives, Verdicts
<1>4. SlotOK'
  <2> SUFFICES ASSUME NEW p \in Live(slot')
               PROVE  \E t \in Subs : <<t, p>> \in acked
    BY <1>1, <1>2, Fixed DEF SlotOK, SlotFields, Live
  <2>1. QED
    BY <1>2 DEF IInv, SlotOK
<1>5. MembersOK'
  BY <1>1, Fixed DEF AckRecord, IInv, MembersOK, Member, Typed
<1>6. VerdictOK'
  BY <1>1, Fixed DEF AckRecord, IInv, VerdictOK, Typed
<1>7. ModeOK'
  BY <1>1, SameModes DEF AckRecord, IInv, Typed, Lives
<1>8. HandledOK'
  BY <1>1, SameHandled DEF AckRecord, IInv
<1>9. QED
  BY <1>3, <1>4, <1>5, <1>6, <1>7, <1>8 DEF IInv

LEMMA NackKeeps ==
  ASSUME IInv, UNCHANGED setup, NEW c \in Subs, NEW q \in Seqs, Nack(c, q)
  PROVE  IInv'
<1> USE DEF client, app, broker
<1>1. setup' = setup /\ Typed
  BY DEF IInv
<1>2. Typed'
  BY <1>1, Fixed DEF Nack, Typed, Lives, Verdicts
<1>3. SlotOK'
  BY <1>1, Fixed DEF Nack, IInv, SlotOK
<1>4. MembersOK'
  BY <1>1, Fixed DEF Nack, IInv, MembersOK, Member, Typed
<1>5. VerdictOK'
  BY <1>1, Fixed DEF Nack, IInv, VerdictOK, Typed
<1>6. ModeOK'
  BY <1>1, SameModes DEF Nack, IInv, Typed, Lives
<1>7. HandledOK'
  BY <1>1, SameHandled DEF Nack, IInv
<1>8. QED
  BY <1>2, <1>3, <1>4, <1>5, <1>6, <1>7 DEF IInv

-----------------------------------------------------------------------------
(* The broker.                                                             *)

LEMMA BrokerBindKeeps ==
  ASSUME IInv, UNCHANGED setup, BrokerBind
  PROVE  IInv'
<1> USE DEF client, app, broker
<1>1. setup' = setup /\ Typed
  BY DEF IInv
<1>2. PICK S \in SUBSET Subs, R \in SUBSET Subs :
        /\ R \subseteq S
        /\ \A s \in S : life[s] \in {"calling", "lost"}
        /\ R # {} => MayRefuse
        /\ verdict' = [s \in Subs |-> IF s \in R THEN "refused"
                                      ELSE IF s \in S THEN "ok" ELSE verdict[s]]
        /\ bound' = bound \cup (S \ R)
        /\ wire' = Append(wire, [kind |-> "reply", subs |-> S])
        /\ UNCHANGED <<life, route, sibs, slot, chan, copy, panicked, held, acked, unrecorded,
                       acks, pending, released, copies, cursors>>
  BY DEF BrokerBind
<1> DEFINE f == [kind |-> "reply", subs |-> S]
<1>3. f \in Frames /\ f.subs = S
  BY DEF Frames, Replies
<1>4. /\ wire' \in Seq(Frames)
      /\ \A i \in 1..Len(wire') : (i \in 1..Len(wire) /\ wire'[i] = wire[i]) \/ wire'[i] = f
  BY <1>1, <1>2, <1>3, WireAppend
<1> HIDE DEF f
<1>5. \A s \in Subs :
        /\ s \in S => verdict'[s] # "none"
        /\ verdict[s] # "none" => verdict'[s] # "none"
        /\ s \notin S => verdict'[s] = verdict[s]
  BY <1>2
<1>6. Typed'
  BY <1>1, <1>2, <1>4, Fixed DEF Typed, Verdicts
<1>7. SlotOK'
  BY <1>1, <1>2, Fixed DEF IInv, SlotOK
<1>8. MembersOK'
  BY <1>1, <1>2, Fixed DEF IInv, MembersOK, Member, Typed
<1>9. VerdictOK'
  <2>1. \A s \in Subs : life'[s] = "replied" => verdict'[s] # "none"
    BY <1>2, <1>5 DEF IInv, VerdictOK
  <2>2. ASSUME NEW i \in 1..Len(wire'), wire'[i].kind = "reply"
        PROVE  \A s \in wire'[i].subs : verdict'[s] # "none"
    <3>1. CASE wire'[i] = f
      BY <1>3, <1>5, <3>1
    <3>2. CASE i \in 1..Len(wire) /\ wire'[i] = wire[i]
      <4>1. wire[i] \in Frames
        BY <1>1, <3>2, ElementOfSeq DEF Typed
      <4>2. \A s \in wire[i].subs : s \in Subs
        BY <2>2, <3>2, <4>1, Kinds DEF Replies
      <4>3. \A s \in wire[i].subs : verdict[s] # "none"
        BY <2>2, <3>2 DEF IInv, VerdictOK
      <4>4. QED
        BY <1>5, <3>2, <4>2, <4>3
    <3>3. QED
      BY <1>4, <3>1, <3>2
  <2>3. ~MayRefuse => \A s \in Subs : verdict'[s] # "refused"
    BY <1>2 DEF IInv, VerdictOK
  <2>4. Batch => \A s \in Subs :
          /\ life'[s] # "lost"
          /\ life'[s] \in {"owned", "marked"} => verdict'[s] # "refused"
    BY <1>2, <1>5 DEF IInv, VerdictOK
  <2>5. QED
    BY <1>1, <2>1, <2>2, <2>3, <2>4, Fixed DEF VerdictOK
<1>10. ModeOK'
  BY <1>1, <1>2, SameModes DEF IInv
<1>11. HandledOK'
  BY <1>1, <1>2, SameHandled DEF IInv
<1>12. QED
  BY <1>6, <1>7, <1>8, <1>9, <1>10, <1>11 DEF IInv

LEMMA BrokerDeliverKeeps ==
  ASSUME IInv, UNCHANGED setup, NEW s \in Subs, NEW q \in Seqs, BrokerDeliver(s, q)
  PROVE  IInv'
<1> USE DEF client, app, broker
<1>1. setup' = setup /\ Typed
  BY DEF IInv
<1> DEFINE f == [kind |-> "copy", sub |-> s, q |-> q]
<1>2. f \in Frames /\ wire' = Append(wire, f)
  BY <1>1, SetupOK DEF BrokerDeliver, SendCopy, Frames, CopyFrames, CursorNotes, Typed
<1>3. /\ wire' \in Seq(Frames)
      /\ \A i \in 1..Len(wire') : (i \in 1..Len(wire) /\ wire'[i] = wire[i]) \/ wire'[i] = f
  BY <1>1, <1>2, WireAppend
<1>4. copies' \in 0..MaxCopies /\ cursors' \in 0..MaxCursors
  BY <1>1, SetupOK DEF BrokerDeliver, SendCopy, Typed
<1>5. Typed'
  BY <1>1, <1>3, <1>4, Fixed DEF BrokerDeliver, SendCopy, Typed
<1>6. SlotOK'
  BY <1>1, Fixed DEF BrokerDeliver, SendCopy, IInv, SlotOK
<1>7. MembersOK'
  BY <1>1, Fixed DEF BrokerDeliver, SendCopy, IInv, MembersOK, Member, Typed
<1>8. VerdictOK'
  <2>1. f.kind # "reply"
    BY DEF f
  <2> HIDE DEF f
  <2>2. QED
    BY <1>1, <1>3, <2>1 DEF BrokerDeliver, SendCopy, IInv, VerdictOK, Typed, Subs, Batch, MayRefuse
<1>9. ModeOK'
  BY <1>1, SameModes DEF BrokerDeliver, SendCopy, IInv
<1>10. HandledOK'
  BY <1>1, SameHandled DEF BrokerDeliver, SendCopy, IInv
<1>11. QED
  BY <1>5, <1>6, <1>7, <1>8, <1>9, <1>10 DEF IInv

LEMMA BrokerRedeliverKeeps ==
  ASSUME IInv, UNCHANGED setup, NEW s \in Subs, NEW t \in Subs, NEW q \in Seqs, BrokerRedeliver(s, t, q)
  PROVE  IInv'
<1> USE DEF client, app, broker
<1>1. setup' = setup /\ Typed
  BY DEF IInv
<1> DEFINE f == [kind |-> "copy", sub |-> t, q |-> q]
<1>2. f \in Frames /\ wire' = Append(wire, f)
  BY <1>1, SetupOK DEF BrokerRedeliver, SendCopy, Frames, CopyFrames, CursorNotes, Typed
<1>3. /\ wire' \in Seq(Frames)
      /\ \A i \in 1..Len(wire') : (i \in 1..Len(wire) /\ wire'[i] = wire[i]) \/ wire'[i] = f
  BY <1>1, <1>2, WireAppend
<1>4. copies' \in 0..MaxCopies /\ cursors' \in 0..MaxCursors
  BY <1>1, SetupOK DEF BrokerRedeliver, SendCopy, Typed
<1>5. Typed'
  BY <1>1, <1>3, <1>4, Fixed DEF BrokerRedeliver, SendCopy, Typed
<1>6. SlotOK'
  BY <1>1, Fixed DEF BrokerRedeliver, SendCopy, IInv, SlotOK
<1>7. MembersOK'
  BY <1>1, Fixed DEF BrokerRedeliver, SendCopy, IInv, MembersOK, Member, Typed
<1>8. VerdictOK'
  <2>1. f.kind # "reply"
    BY DEF f
  <2> HIDE DEF f
  <2>2. QED
    BY <1>1, <1>3, <2>1 DEF BrokerRedeliver, SendCopy, IInv, VerdictOK, Typed, Subs, Batch, MayRefuse
<1>9. ModeOK'
  BY <1>1, SameModes DEF BrokerRedeliver, SendCopy, IInv
<1>10. HandledOK'
  BY <1>1, SameHandled DEF BrokerRedeliver, SendCopy, IInv
<1>11. QED
  BY <1>5, <1>6, <1>7, <1>8, <1>9, <1>10 DEF IInv

LEMMA BrokerCursorKeeps ==
  ASSUME IInv, UNCHANGED setup, NEW c \in Seqs, BrokerCursor(c)
  PROVE  IInv'
<1> USE DEF client, app, broker
<1>1. setup' = setup /\ Typed
  BY DEF IInv
<1> DEFINE f == [kind |-> "cursor", upto |-> c]
<1>2. f \in Frames /\ wire' = Append(wire, f)
  BY <1>1, SetupOK DEF BrokerCursor, SendCopy, Frames, CopyFrames, CursorNotes, Typed
<1>3. /\ wire' \in Seq(Frames)
      /\ \A i \in 1..Len(wire') : (i \in 1..Len(wire) /\ wire'[i] = wire[i]) \/ wire'[i] = f
  BY <1>1, <1>2, WireAppend
<1>4. copies' \in 0..MaxCopies /\ cursors' \in 0..MaxCursors
  BY <1>1, SetupOK DEF BrokerCursor, SendCopy, Typed
<1>5. Typed'
  BY <1>1, <1>3, <1>4, Fixed DEF BrokerCursor, SendCopy, Typed
<1>6. SlotOK'
  BY <1>1, Fixed DEF BrokerCursor, SendCopy, IInv, SlotOK
<1>7. MembersOK'
  BY <1>1, Fixed DEF BrokerCursor, SendCopy, IInv, MembersOK, Member, Typed
<1>8. VerdictOK'
  <2>1. f.kind # "reply"
    BY DEF f
  <2> HIDE DEF f
  <2>2. QED
    BY <1>1, <1>3, <2>1 DEF BrokerCursor, SendCopy, IInv, VerdictOK, Typed, Subs, Batch, MayRefuse
<1>9. ModeOK'
  BY <1>1, SameModes DEF BrokerCursor, SendCopy, IInv
<1>10. HandledOK'
  BY <1>1, SameHandled DEF BrokerCursor, SendCopy, IInv
<1>11. QED
  BY <1>5, <1>6, <1>7, <1>8, <1>9, <1>10 DEF IInv

LEMMA BrokerAckKeeps ==
  ASSUME IInv, UNCHANGED setup, NEW s \in Subs, NEW q \in Seqs, BrokerAck(s, q)
  PROVE  IInv'
<1> USE DEF client, app, broker
<1>1. setup' = setup /\ Typed
  BY DEF IInv
<1>2. Typed'
  BY <1>1, Fixed DEF BrokerAck, Typed, Lives, Verdicts
<1>3. SlotOK'
  BY <1>1, Fixed DEF BrokerAck, IInv, SlotOK
<1>4. MembersOK'
  BY <1>1, Fixed DEF BrokerAck, IInv, MembersOK, Member, Typed
<1>5. VerdictOK'
  BY <1>1, Fixed DEF BrokerAck, IInv, VerdictOK, Typed
<1>6. ModeOK'
  BY <1>1, SameModes DEF BrokerAck, IInv, Typed, Lives
<1>7. HandledOK'
  <2> SUFFICES ASSUME Apart, NEW sq \in acks' \cup released'
               PROVE  \E t \in Subs : <<t, sq[2]>> \in acked /\ (Fanout => t = sq[1])
    BY <1>1 DEF BrokerAck, HandledOK, Handled, Apart, Fanout, Dedup, Subs
  <2>1. sq \in acks \cup released
    BY DEF BrokerAck
  <2>2. QED
    BY <2>1 DEF IInv, HandledOK, Handled
<1>8. QED
  BY <1>2, <1>3, <1>4, <1>5, <1>6, <1>7 DEF IInv

-----------------------------------------------------------------------------
(* The reader.                                                             *)

\* What the reader hands out: members of the slice, all whose filter accepts when
\* the route says fanout.
LEMMA TargetsOK ==
  ASSUME Typed, MembersOK, NEW c \in Subs, Routed(c), NEW q \in Seqs
  PROVE  /\ Targets(route[c], q) \in Seq(Subs)
         /\ c \in Range(sibs)
         /\ route[c].fanout => \A s \in Range(sibs) : q \in Wanted[s] <=>
                                                    s \in Range(Targets(route[c], q))
<1>1. c \in Range(sibs)
  <2>1. route[c] # NoRoute
    BY DEF Routed, NoRoute
  <2>2. QED
    BY <2>1 DEF MembersOK
<1>2. /\ route[c].subs = sibs /\ route[c].idx \in 1..Len(sibs) /\ sibs[route[c].idx] = c
      /\ sibs \in Seq(Subs)
  BY <1>1 DEF MembersOK, Leads, Typed
<1>3. CASE route[c].fanout
  <2> DEFINE T == {s \in Subs : q \in Wanted[s]}
  <2>1. Targets(route[c], q) = Kept(sibs, T)
    BY <1>2, <1>3 DEF Targets
  <2>2. \A s \in Subs : s \in T <=> q \in Wanted[s]
    OBVIOUS
  <2> HIDE DEF T
  <2>3. Kept(sibs, T) \in Seq(Subs) /\ Range(Kept(sibs, T)) = Range(sibs) \cap T
    BY <1>2, KeptMembers
  <2>4. Range(sibs) \subseteq Subs
    BY <1>2, LenProperties, ElementOfSeq DEF Range
  <2>5. QED
    BY <1>1, <2>1, <2>2, <2>3, <2>4
<1>4. CASE ~route[c].fanout
  <2>1. Targets(route[c], q) = <<c>>
    BY <1>2, <1>4 DEF Targets
  <2>2. QED
    BY <1>1, <1>4, <2>1
<1>5. QED
  BY <1>3, <1>4

\* The copy the reader begins with is the one at the head of the wire.
LEMMA TakeFrame ==
  ASSUME Typed, ReaderTake
  PROVE  /\ wire # <<>> /\ wire' = Tail(wire) /\ copy.todo = <<>>
         /\ Head(wire) \in Frames
         /\ \/ Head(wire) \in Replies /\ TakeReply(Head(wire))
            \/ Head(wire) \in CursorNotes /\ TakeCursor(Head(wire))
            \/ Head(wire) \in CopyFrames /\ TakeCopy(Head(wire))
<1> DEFINE f == Head(wire)
<1>1. wire # <<>> /\ wire' = Tail(wire) /\ copy.todo = <<>>
  BY DEF ReaderTake
<1>2. f \in Frames
  BY <1>1, WireTail
<1>3. \/ f.kind = "reply" /\ TakeReply(f)
      \/ f.kind = "cursor" /\ TakeCursor(f)
      \/ f.kind = "copy" /\ TakeCopy(f)
  <2>1. CASE f.kind = "reply"
    BY <2>1 DEF ReaderTake
  <2>2. CASE f.kind = "cursor"
    BY <2>2 DEF ReaderTake
  <2>3. CASE f.kind = "copy"
    BY <2>3 DEF ReaderTake
  <2>4. QED
    BY <1>2, <2>1, <2>2, <2>3, Kinds
<1> HIDE DEF f
<1>4. \/ f \in Replies /\ TakeReply(f)
      \/ f \in CursorNotes /\ TakeCursor(f)
      \/ f \in CopyFrames /\ TakeCopy(f)
  BY <1>2, <1>3, Kinds
<1>5. QED
  BY <1>1, <1>2, <1>4 DEF f

LEMMA TakeReplyKeeps ==
  ASSUME IInv, UNCHANGED setup, NEW f, f = Head(wire), wire # <<>>, wire' = Tail(wire),
         f \in Replies, TakeReply(f)
  PROVE  IInv'
<1> USE DEF client, app, broker
<1>1. setup' = setup /\ Typed
  BY DEF IInv
<1>2. /\ wire' \in Seq(Frames)
      /\ \A i \in 1..Len(wire') : i + 1 \in 1..Len(wire) /\ wire'[i] = wire[i + 1]
      /\ 1 \in 1..Len(wire) /\ f = wire[1]
  BY <1>1, WireTail
<1>3. Typed'
  BY <1>1, Fixed, <1>2 DEF TakeReply, Typed, Lives, Verdicts
<1>4. SlotOK'
  BY <1>1, Fixed DEF TakeReply, IInv, SlotOK
<1>5. MembersOK'
  BY <1>1, Fixed DEF TakeReply, IInv, MembersOK, Member, Typed
<1>6. VerdictOK'
  <2>1. \A i \in 1..Len(wire') : wire'[i].kind = "reply" =>
          \A s \in wire'[i].subs : verdict[s] # "none"
    BY <1>2 DEF IInv, VerdictOK
  <2>2. \A s \in f.subs : verdict[s] # "none"
    BY <1>2 DEF IInv, VerdictOK, Replies
  <2>3. \A s \in Subs : life'[s] = "replied" => verdict[s] # "none"
    BY <1>1, <2>2 DEF TakeReply, IInv, VerdictOK, Typed
  <2>4. QED
    BY <1>1, <2>1, <2>3 DEF TakeReply, IInv, VerdictOK, Typed, Subs, Batch, MayRefuse
<1>7. ModeOK'
  BY <1>1, SameModes DEF TakeReply, IInv, Typed, Lives
<1>8. HandledOK'
  BY <1>1, SameHandled DEF TakeReply, IInv
<1>9. QED
  BY <1>3, <1>4, <1>5, <1>6, <1>7, <1>8 DEF IInv

LEMMA TakeCursorKeeps ==
  ASSUME IInv, UNCHANGED setup, NEW f, f = Head(wire), wire # <<>>, wire' = Tail(wire),
         f \in CursorNotes, TakeCursor(f)
  PROVE  IInv'
<1> USE DEF client, app, broker
<1>1. setup' = setup /\ Typed
  BY DEF IInv
<1>2. /\ wire' \in Seq(Frames)
      /\ \A i \in 1..Len(wire') : i + 1 \in 1..Len(wire) /\ wire'[i] = wire[i + 1]
      /\ 1 \in 1..Len(wire) /\ f = wire[1]
  BY <1>1, WireTail
<1>3. DOMAIN slot' = SlotFields /\ Live(slot') \subseteq Live(slot) /\ acked' = acked
  <2>1. DOMAIN slot = SlotFields
    BY DEF IInv, SlotOK, SlotFields
  <2>2. QED
    BY <2>1, PurgedLive DEF TakeCursor, Skip
<1>4. Typed'
  BY <1>1, <1>2, Fixed DEF TakeCursor, Skip, Typed
<1>5. SlotOK'
  <2> SUFFICES ASSUME NEW p \in Live(slot')
               PROVE  \E t \in Subs : <<t, p>> \in acked
    BY <1>1, <1>3, Fixed DEF SlotOK, SlotFields, Live
  <2>1. QED
    BY <1>3 DEF IInv, SlotOK
<1>6. MembersOK'
  BY <1>1, Fixed DEF TakeCursor, Skip, IInv, MembersOK, Member, Typed
<1>7. VerdictOK'
  <2>1. \A i \in 1..Len(wire') : wire'[i].kind = "reply" =>
          \A s \in wire'[i].subs : verdict[s] # "none"
    BY <1>2 DEF IInv, VerdictOK
  <2>2. QED
    BY <1>1, <2>1 DEF TakeCursor, Skip, IInv, VerdictOK, Typed, Subs, Batch, MayRefuse
<1>8. ModeOK'
  BY <1>1, SameModes DEF TakeCursor, Skip, IInv
<1>9. HandledOK'
  BY <1>1, SameHandled DEF TakeCursor, Skip, IInv
<1>10. QED
  BY <1>4, <1>5, <1>6, <1>7, <1>8, <1>9 DEF IInv

LEMMA TakeCopyKeeps ==
  ASSUME IInv, UNCHANGED setup, NEW f, f = Head(wire), wire # <<>>, wire' = Tail(wire),
         f \in CopyFrames, copy.todo = <<>>, TakeCopy(f)
  PROVE  IInv'
<1> USE DEF client, app, broker
<1>1. setup' = setup /\ Typed
  BY DEF IInv
<1>2. /\ wire' \in Seq(Frames)
      /\ \A i \in 1..Len(wire') : i + 1 \in 1..Len(wire) /\ wire'[i] = wire[i + 1]
      /\ 1 \in 1..Len(wire) /\ f = wire[1]
  BY <1>1, WireTail
<1>3. f.sub \in Subs /\ f.q \in Seqs /\ Seqs \subseteq 0..MaxSeq
  BY <1>1, SetupOK DEF CopyFrames, Seqs, Typed
<1>4. \/ UNCHANGED copy /\ acks' = acks
      \/ UNCHANGED copy /\ IsDup(f.q) /\ acks' = acks \cup {<<f.sub, f.q>>}
      \/ /\ acks' = acks /\ Routed(f.sub)
         /\ copy' = [q |-> f.q, todo |-> Targets(route[f.sub], f.q)]
  BY DEF TakeCopy
<1>5. Typed'
  <2>1. copy' \in Copies /\ (copy'.todo # <<>> => copy'.q \in Seqs)
    <3>1. CASE copy' = [q |-> f.q, todo |-> Targets(route[f.sub], f.q)] /\ Routed(f.sub)
      BY <1>1, <1>3, <3>1, TargetsOK DEF IInv, Copies
    <3>2. QED
      BY <1>1, <1>4, <3>1 DEF Typed
  <2>2. acks' \subseteq Subs \X Seqs
    BY <1>1, <1>3, <1>4 DEF Typed
  <2>3. QED
    BY <1>1, <1>2, <2>1, <2>2, Fixed DEF TakeCopy, Skip, Typed
<1>6. SlotOK'
  BY <1>1, Fixed DEF TakeCopy, Skip, IInv, SlotOK
<1>7. MembersOK'
  BY <1>1, Fixed DEF TakeCopy, Skip, IInv, MembersOK, Member, Typed
<1>8. VerdictOK'
  <2>1. \A i \in 1..Len(wire') : wire'[i].kind = "reply" =>
          \A s \in wire'[i].subs : verdict[s] # "none"
    BY <1>2 DEF IInv, VerdictOK
  <2>2. QED
    BY <1>1, <2>1 DEF TakeCopy, Skip, IInv, VerdictOK, Typed, Subs, Batch, MayRefuse
<1>9. ModeOK'
  BY <1>1, SameModes DEF TakeCopy, Skip, IInv
<1>10. HandledOK'
  <2> SUFFICES ASSUME Apart, NEW sq \in acks' \cup released'
               PROVE  \E t \in Subs : <<t, sq[2]>> \in acked /\ (Fanout => t = sq[1])
    BY <1>1 DEF TakeCopy, Skip, HandledOK, Handled, Apart, Fanout, Dedup, Subs
  <2>1. CASE sq \in acks \cup released
    BY <2>1 DEF IInv, HandledOK, Handled
  <2>2. CASE sq = <<f.sub, f.q>> /\ IsDup(f.q)
    <3>1. sq[2] = f.q
      BY <2>2
    <3>2. ~Fanout /\ f.q \in Live(slot)
      BY <2>2 DEF Apart, IsDup, Seen
    <3>3. QED
      BY <3>1, <3>2 DEF IInv, SlotOK
  <2>3. released' = released
    BY DEF TakeCopy, Skip
  <2>4. QED
    BY <1>4, <2>1, <2>2, <2>3
<1>11. QED
  BY <1>5, <1>6, <1>7, <1>8, <1>9, <1>10 DEF IInv

LEMMA ReaderTakeKeeps ==
  ASSUME IInv, UNCHANGED setup, ReaderTake
  PROVE  IInv'
<1>1. PICK f : f = Head(wire)
  OBVIOUS
<1>2. /\ wire # <<>> /\ wire' = Tail(wire) /\ copy.todo = <<>>
      /\ \/ f \in Replies /\ TakeReply(f)
         \/ f \in CursorNotes /\ TakeCursor(f)
         \/ f \in CopyFrames /\ TakeCopy(f)
  BY <1>1, TakeFrame DEF IInv
<1>3. QED
  BY <1>1, <1>2, TakeReplyKeeps, TakeCursorKeeps, TakeCopyKeeps

LEMMA ReaderDeliverKeeps ==
  ASSUME IInv, UNCHANGED setup, ReaderDeliver
  PROVE  IInv'
<1> USE DEF client, app, broker
<1>1. setup' = setup /\ Typed
  BY DEF IInv
<1>2. /\ copy.todo \in Seq(Subs) /\ copy.todo # <<>> /\ copy.q \in Seqs
      /\ Head(copy.todo) \in Subs /\ Tail(copy.todo) \in Seq(Subs)
  <2>1. copy.todo \in Seq(Subs) /\ copy.todo # <<>> /\ copy.q \in Seqs
    BY <1>1 DEF Typed, Copies, ReaderDeliver
  <2>2. QED
    BY <2>1, HeadTailProperties
<1>3. [copy EXCEPT !.todo = Tail(@)] \in Copies /\ [copy EXCEPT !.todo = Tail(@)].q = copy.q
  BY <1>1, <1>2 DEF Typed, Copies
<1>4. ASSUME NEW s \in Subs, HasRoom(s)
      PROVE  Append(chan[s], copy.q) \in Seq(Seqs) /\ Len(Append(chan[s], copy.q)) <= ChanCap
  <2>1. chan[s] \in Seq(Seqs) /\ Len(chan[s]) \in Nat /\ Len(chan[s]) < ChanCap
    BY <1>1, <1>4, LenProperties DEF Typed, HasRoom
  <2>2. Append(chan[s], copy.q) \in Seq(Seqs) /\ Len(Append(chan[s], copy.q)) = Len(chan[s]) + 1
    BY <1>2, <2>1, AppendProperties
  <2>3. QED
    BY <2>1, <2>2, DeliveryAssumption DEF DeliveryAssumption
<1>5. Typed'
  <2>1. UNCHANGED <<life, verdict, route, sibs, slot, held, acked, unrecorded, wire, acks, bound,
                    pending, released, copies, cursors>>
    BY DEF ReaderDeliver
  <2>2. /\ copy' \in Copies /\ (copy'.todo # <<>> => copy'.q \in Seqs) /\ panicked' \in BOOLEAN
    BY <1>1, <1>2, <1>3 DEF ReaderDeliver, Typed
  <2>3. chan' \in [Subs -> Seq(Seqs)] /\ \A s \in Subs : Len(chan'[s]) <= ChanCap
    <3>1. \/ UNCHANGED chan
          \/ /\ HasRoom(Head(copy.todo))
             /\ chan' = [chan EXCEPT ![Head(copy.todo)] = Append(@, copy.q)]
      BY DEF ReaderDeliver
    <3>2. QED
      BY <1>1, <1>2, <1>4, <3>1 DEF Typed
  <2>4. QED
    BY <1>1, <2>1, <2>2, <2>3, Fixed DEF Typed
<1>6. SlotOK'
  BY <1>1, Fixed DEF ReaderDeliver, IInv, SlotOK
<1>7. MembersOK'
  BY <1>1, Fixed DEF ReaderDeliver, IInv, MembersOK, Member, Typed
<1>8. VerdictOK'
  BY <1>1, Fixed DEF ReaderDeliver, IInv, VerdictOK, Typed
<1>9. ModeOK'
  BY <1>1, SameModes DEF ReaderDeliver, IInv, Typed, Lives
<1>10. HandledOK'
  BY <1>1, SameHandled DEF ReaderDeliver, IInv
<1>11. QED
  BY <1>5, <1>6, <1>7, <1>8, <1>9, <1>10 DEF IInv

-----------------------------------------------------------------------------
(* The theorems.                                                           *)

LEMMA InitOK == Init => IInv
<1> SUFFICES ASSUME Init PROVE IInv
  OBVIOUS
<1> USE DEF Init
<1>1. /\ MaxSeq \in Nat /\ MaxCopies \in Nat /\ MaxCursors \in Nat /\ ChanCap \in Nat
  BY SetupOK, DeliveryAssumption DEF DeliveryAssumption
<1>2. /\ <<>> \in Seq(Subs) /\ <<>> \in Seq(Seqs) /\ <<>> \in Seq(Frames) /\ Len(<<>>) = 0
      /\ DOMAIN <<>> = {}
  BY EmptySeq
<1>3. Range(sibs) = {} /\ NoRepeat(sibs)
  BY <1>2 DEF Range, NoRepeat
<1>4. NoCopy \in Copies /\ NoCopy.todo = <<>>
  BY <1>1, <1>2 DEF NoCopy, Copies
<1>5. Typed
  <2>1. life \in [Subs -> Lives] /\ verdict \in [Subs -> Verdicts] /\ route \in [Subs -> Routes]
    BY NoRouteOK DEF Lives, Verdicts
  <2>2. chan \in [Subs -> Seq(Seqs)] /\ \A s \in Subs : Len(chan[s]) <= ChanCap
    BY <1>1, <1>2
  <2>3. held \in [Subs \X Seqs -> Nat] /\ pending \in [Subs -> SUBSET Seqs]
    OBVIOUS
  <2>4. 0 \in 0..MaxCopies /\ 0 \in 0..MaxCursors
    BY <1>1
  <2>5. QED
    BY <1>2, <1>3, <1>4, <2>1, <2>2, <2>3, <2>4 DEF Typed
<1>6. SlotOK
  BY <1>2 DEF SlotOK, EmptySlot, Live
<1>7. MembersOK
  BY <1>3 DEF MembersOK, Member
<1>8. VerdictOK
  BY <1>2 DEF VerdictOK
<1>9. ModeOK /\ HandledOK
  BY <1>3 DEF ModeOK, HandledOK
<1>10. QED
  BY <1>5, <1>6, <1>7, <1>8, <1>9 DEF IInv

LEMMA StepKeeps == IInv /\ [Next]_vars => IInv'
<1> SUFFICES ASSUME IInv, [Next]_vars PROVE IInv'
  OBVIOUS
<1>1. CASE UNCHANGED vars
  <2>1. Typed' /\ SlotOK'
    BY <1>1, Fixed DEF vars, IInv, Typed, SlotOK
  <2>2. MembersOK' /\ VerdictOK'
    BY <1>1 DEF vars, IInv, MembersOK, Member, VerdictOK, Subs, MayRefuse, Batch
  <2>3. ModeOK' /\ HandledOK'
    BY <1>1, SameModes, SameHandled DEF vars, IInv
  <2>4. QED
    BY <2>1, <2>2, <2>3 DEF IInv
<1>2. CASE Next
  <2> UNCHANGED setup
    BY <1>2 DEF Next
  <2>1. ASSUME NEW s \in Subs, Subscribe(s) \/ SubscribeReturn(s) \/ SubscribeFails(s)
        PROVE  IInv'
    BY <2>1, SubscribeKeeps, SubscribeReturnKeeps, SubscribeFailsKeeps
  <2>2. CASE SubscribeBatch \/ BatchReturn \/ BatchFails
    BY <2>2, SubscribeBatchKeeps, BatchReturnKeeps, BatchFailsKeeps
  <2>3. CASE ReaderTake \/ ReaderDeliver
    BY <2>3, ReaderTakeKeeps, ReaderDeliverKeeps
  <2>4. ASSUME NEW s \in Subs, Receive(s) \/ CloseMark(s) \/ CloseRemove(s) \/ CloseChannel(s)
        PROVE  IInv'
    BY <2>4, ReceiveKeeps, CloseMarkKeeps, CloseRemoveKeeps, CloseChannelKeeps
  <2>5. ASSUME NEW s \in Subs, NEW q \in Seqs, Ack(s, q) \/ AckRecord(s, q) \/ Nack(s, q)
        PROVE  IInv'
    BY <2>5, AckKeeps, AckRecordKeeps, NackKeeps
  <2>6. ASSUME NEW s \in Subs, NEW q \in Seqs, BrokerDeliver(s, q) \/ BrokerAck(s, q)
        PROVE  IInv'
    BY <2>6, BrokerDeliverKeeps, BrokerAckKeeps
  <2>7. ASSUME NEW s \in Subs, NEW t \in Subs, NEW q \in Seqs, BrokerRedeliver(s, t, q)
        PROVE  IInv'
    BY <2>7, BrokerRedeliverKeeps
  <2>8. ASSUME NEW c \in Seqs, BrokerCursor(c) PROVE IInv'
    BY <2>8, BrokerCursorKeeps
  <2>9. CASE BrokerBind
    BY <2>9, BrokerBindKeeps
  <2>10. QED
    BY <1>2, <2>1, <2>2, <2>3, <2>4, <2>5, <2>6, <2>7, <2>8, <2>9 DEF Next
<1>3. QED
  BY <1>1, <1>2

\* The invariant is inductive: no subscription, call, copy, ack or answer of the
\* broker leads out of it, for any consumer the assumption admits.
THEOREM Inductive == Spec => []IInv
<1>1. QED
  BY InitOK, StepKeeps, PTL DEF Spec

\* Every variable keeps its type; the slice repeats no subscription and no channel
\* holds more than its capacity.
THEOREM TypeCorrect == Spec => []TypeOK
<1>1. IInv => TypeOK
  <2> SUFFICES ASSUME IInv PROVE TypeOK
    OBVIOUS
  <2>1. Typed /\ MembersOK /\ SlotOK
    BY DEF IInv
  <2>2. IsFiniteSet(Subs) /\ Cardinality(Subs) \in Nat
    BY <2>1, SetupOK, FS_CardinalityType DEF Typed
  <2>3. sibs \in Seq(Subs) /\ Len(sibs) \in Nat /\ Len(sibs) <= Cardinality(Subs)
    BY <2>1, <2>2, NoLonger, LenProperties DEF Typed
  <2>4. \A s \in Subs : route[s].idx \in 0..Cardinality(Subs)
    <3> SUFFICES ASSUME NEW s \in Subs PROVE route[s].idx \in 0..Cardinality(Subs)
      OBVIOUS
    <3>1. route[s].idx \in 1..Len(sibs) \/ route[s].idx = 0
      BY <2>1 DEF MembersOK, Leads, NoRoute
    <3>2. QED
      BY <2>2, <2>3, <3>1
  <2>5. \A s \in Subs : route[s].fanout \in BOOLEAN /\ route[s].subs \in Seq(Subs)
    BY <2>1 DEF Typed, Routes
  <2>6. Live(slot) \subseteq Seqs
    BY <2>1 DEF Typed, SlotOK
  <2>7. /\ life \in [Subs -> Lives] /\ verdict \in [Subs -> Verdicts]
        /\ copy.q \in 0..MaxSeq /\ copy.todo \in Seq(Subs) /\ panicked \in BOOLEAN
        /\ \A s \in Subs : chan[s] \in Seq(Seqs) /\ Len(chan[s]) <= ChanCap
    BY <2>1 DEF Typed, Copies
  <2>8. /\ held \in [Subs \X Seqs -> Nat]
        /\ acked \subseteq Subs \X Seqs /\ unrecorded \subseteq acked
        /\ acks \subseteq Subs \X Seqs /\ released \subseteq Subs \X Seqs
        /\ bound \subseteq Subs /\ pending \in [Subs -> SUBSET Seqs]
        /\ copies \in 0..MaxCopies /\ cursors \in 0..MaxCursors
    BY <2>1 DEF Typed
  <2>9. QED
    BY <2>3, <2>4, <2>5, <2>6, <2>7, <2>8 DEF TypeOK, Lives, Verdicts
<1>2. QED
  BY <1>1, Inductive, PTL

\* The registry holds together (register, setFanout, remove, rebuild): every route leads
\* to its own subscription and to the slice of the moment, and who left has none.
THEOREM RegistryAgrees == Spec => []RoutesAgree
<1>1. IInv => RoutesAgree
  <2> SUFFICES ASSUME IInv, NEW s \in Subs
               PROVE  IF Routed(s) THEN route[s].subs = sibs /\ sibs[route[s].idx] = s
                      ELSE s \notin Range(sibs)
    BY DEF RoutesAgree
  <2>1. CASE s \in Range(sibs)
    <3>1. sibs # <<>>
      BY <2>1, LenProperties, EmptySeq DEF IInv, Typed, Range
    <3>2. QED
      BY <2>1, <3>1 DEF IInv, MembersOK, Leads, Routed
  <2>2. CASE s \notin Range(sibs)
    BY <2>2 DEF IInv, MembersOK, Routed, NoRoute
  <2>3. QED
    BY <2>1, <2>2
<1>2. QED
  BY <1>1, Inductive, PTL

\* What the broker releases was handled (dispatchSingleDeliver's own ack included), for
\* every consumer that is not a fanout one with the ack store on: those share one slot, and the
\* shared slot does release for a sibling that has handled nothing.
THEOREM ReleasesAreHandled ==
  Spec => [](~ (Fanout /\ Dedup) => ReleasedWasHandled)
<1>1. IInv => (~ (Fanout /\ Dedup) => ReleasedWasHandled)
  BY DEF IInv, HandledOK, Handled, Apart, ReleasedWasHandled
<1>2. QED
  BY <1>1, Inductive, PTL

\* A refused entry of a batch, one whose call failed and a closed handle have no route
\* (SubscribeBatch, unregisterSubscription).
THEOREM RoutesHaveOwners == Spec => []NoRouteWithoutOwner
<1>1. IInv => NoRouteWithoutOwner
  <2> SUFFICES ASSUME IInv, Batch, NEW s \in Subs, Routed(s)
               PROVE  \/ life[s] \in {"calling", "replied"}
                      \/ life[s] \in {"owned", "marked"} /\ verdict[s] # "refused"
    BY DEF NoRouteWithoutOwner
  <2>1. route[s] # NoRoute
    BY DEF Routed, NoRoute
  <2>2. Member(s)
    BY <2>1 DEF IInv, MembersOK
  <2>3. QED
    BY <2>2 DEF IInv, VerdictOK, Member
<1>2. QED
  BY <1>1, Inductive, PTL

\* A fanout copy goes to every sibling whose filter accepts it and to no other once a
\* Subscribe has returned, whoever registers, fails or closes meanwhile; when the broker
\* refuses no single Subscribe, whose error would read as queue mode.
THEOREM CopiesReachAll == Spec /\ [](MayRefuse => Batch) => CopyReachesAll
<1> DEFINE Reaches ==
      \A q \in Seqs :
        Begins(q) /\ Fanout /\ (\E s \in Range(sibs) : life[s] = "owned") =>
          \A s \in Range(sibs) : q \in Wanted[s] <=> s \in Range(copy'.todo)
<1>1. IInv /\ (MayRefuse => Batch) /\ [Next]_vars => [Reaches]_vars
  <2> SUFFICES ASSUME IInv, MayRefuse => Batch, [Next]_vars, NEW q \in Seqs, Begins(q), Fanout,
                      NEW o \in Range(sibs), life[o] = "owned"
               PROVE  \A s \in Range(sibs) : q \in Wanted[s] <=> s \in Range(copy'.todo)
    OBVIOUS
  <2>1. copy.todo = <<>> /\ copy'.todo # <<>> /\ copy'.q = q
    BY DEF Begins
  <2>2. ~ UNCHANGED copy
    BY <2>1
  <2>3. ReaderTake
    <3>1. \A s \in Subs : ~ (Subscribe(s) \/ SubscribeReturn(s) \/ SubscribeFails(s))
      BY <2>2 DEF Subscribe, Open, SubscribeReturn, SubscribeFails
    <3>2. ~ (SubscribeBatch \/ BatchReturn \/ BatchFails)
      BY <2>2 DEF SubscribeBatch, Open, BatchReturn, BatchFails
    <3>3. ~ ReaderDeliver
      BY <2>1 DEF ReaderDeliver
    <3>4. \A s \in Subs : ~ (Receive(s) \/ CloseMark(s) \/ CloseRemove(s) \/ CloseChannel(s))
      BY <2>2 DEF Receive, CloseMark, CloseRemove, CloseChannel
    <3>5. \A s \in Subs, p \in Seqs : ~ (Ack(s, p) \/ AckRecord(s, p) \/ Nack(s, p))
      BY <2>2 DEF Ack, AckRecord, Nack
    <3>6. \A s \in Subs, p \in Seqs : ~ (BrokerDeliver(s, p) \/ BrokerAck(s, p))
      BY <2>2 DEF BrokerDeliver, SendCopy, BrokerAck
    <3>7. \A s, t \in Subs, p \in Seqs : ~ BrokerRedeliver(s, t, p)
      BY <2>2 DEF BrokerRedeliver, SendCopy
    <3>8. ~ BrokerBind /\ \A p \in Seqs : ~ BrokerCursor(p)
      BY <2>2 DEF BrokerBind, BrokerCursor
    <3>9. Next
      BY <2>2 DEF vars
    <3>10. QED
      BY <3>1, <3>2, <3>3, <3>4, <3>5, <3>6, <3>7, <3>8, <3>9 DEF Next
  <2>4. PICK f : f = Head(wire)
    OBVIOUS
  <2>5. f \in CopyFrames /\ TakeCopy(f)
    BY <2>2, <2>3, <2>4, TakeFrame DEF IInv, TakeReply, TakeCursor
  <2>6. copy' = [q |-> f.q, todo |-> Targets(route[f.sub], f.q)] /\ Routed(f.sub)
    BY <2>2, <2>5 DEF TakeCopy
  <2>7. f.sub \in Subs /\ f.q = q /\ copy'.todo = Targets(route[f.sub], q)
    BY <2>1, <2>5, <2>6 DEF CopyFrames
  <2>8. f.sub \in Range(sibs)
    BY <2>6, <2>7, TargetsOK DEF IInv
  <2>9. route[f.sub].fanout = TRUE
    BY <2>8 DEF IInv, ModeOK, Sure
  <2>10. QED
    BY <2>6, <2>7, <2>9, TargetsOK DEF IInv
<1>2. QED
  BY <1>1, Inductive, PTL DEF Spec, CopyReachesAll
=============================================================================
