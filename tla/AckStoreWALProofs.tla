------------------------- MODULE AckStoreWALProofs -------------------------
(* Proofs about AckStoreWAL, for any names, capacities, TTL, thresholds and *)
(* bounds.                                                                 *)
EXTENDS AckStoreWAL, FiniteSetTheorems, SequenceTheorems, WellFoundedInduction, TLAPS

-----------------------------------------------------------------------------
(* Numbers.                                                                *)

\* What holds at m and goes up by one as far as n holds from m to n.
LEMMA StepUp ==
  ASSUME NEW m \in Nat, NEW n \in Nat, m <= n, NEW T, m \in T,
         \A k \in m..(n - 1) : k \in T => k + 1 \in T
  PROVE  \A k \in m..n : k \in T
<1> DEFINE Bad == {k \in m..n : k \notin T}
<1> SUFFICES ASSUME Bad # {} PROVE FALSE
  OBVIOUS
<1>1. Bad \subseteq Nat
  OBVIOUS
<1> HIDE DEF Bad
<1>2. PICK k \in Bad : \A j \in Bad : ~ (<<j, k>> \in OpToRel(<, Nat))
  BY <1>1, WFMin, NatLessThanWellFounded
<1>3. k \in m..n /\ k \notin T /\ k # m
  BY DEF Bad
<1>4. k - 1 \in Nat /\ k - 1 \in m..(n - 1) /\ k - 1 < k /\ k \in Nat /\ (k - 1) + 1 = k
  BY <1>3
<1>5. k - 1 \notin Bad
  BY <1>2, <1>4 DEF OpToRel
<1>6. k - 1 \in T
  BY <1>4, <1>5 DEF Bad
<1>7. k \in T
  BY <1>4, <1>6
<1>8. QED
  BY <1>3, <1>7

LEMMA FromZero ==
  ASSUME NEW n \in Nat, NEW T, 0 \in T, \A k \in 0..(n - 1) : k \in T => k + 1 \in T
  PROVE  \A k \in 0..n : k \in T
<1>1. 0 \in Nat /\ 0 <= n
  OBVIOUS
<1>2. QED
  BY <1>1, StepUp

\* The least and the greatest of a set.
LEMMA SmallestIsLeast ==
  ASSUME NEW S \in SUBSET Nat, S # {}
  PROVE  SmallestOf(S) \in S /\ \A y \in S : SmallestOf(S) <= y
<1>1. PICK x \in S : \A y \in S : ~ (<<y, x>> \in OpToRel(<, Nat))
  BY WFMin, NatLessThanWellFounded
<1>2. ASSUME NEW y \in S PROVE x <= y
  <2>1. ~ (y < x)
    BY <1>1 DEF OpToRel
  <2>2. QED
    BY <2>1
<1>3. QED
  BY <1>2 DEF SmallestOf

LEMMA GreatestIsGreatest ==
  ASSUME NEW n \in Nat, NEW S \in SUBSET (0..n), S # {}
  PROVE  GreatestOf(S) \in S /\ \A y \in S : y <= GreatestOf(S)
<1> DEFINE T == {n - y : y \in S}
<1>1. T \in SUBSET Nat /\ T # {}
  <2>1. \A y \in S : y \in 0..n /\ n - y \in Nat /\ n - y \in T
    OBVIOUS
  <2>2. \A x \in T : x \in Nat
    BY <2>1
  <2> HIDE DEF T
  <2>3. QED
    BY <2>1, <2>2
<1> HIDE DEF T
<1>2. SmallestOf(T) \in T /\ \A y \in T : SmallestOf(T) <= y
  BY <1>1, SmallestIsLeast
<1>3. PICK x \in S : SmallestOf(T) = n - x
  BY <1>2 DEF T
<1>4. \A y \in S : n - x <= n - y
  BY <1>2, <1>3 DEF T
<1>5. \A y \in S : y <= x
  BY <1>4
<1>6. QED
  BY <1>5 DEF GreatestOf

-----------------------------------------------------------------------------
(* The replay of a log.                                                    *)

\* The recursion has a solution: what the scan computes is what each record makes of
\* what the records before it amounted to.
LEMMA Unfold ==
  ASSUME NEW q, NEW n \in Nat, Len(q) = n, NEW i, NEW c
  PROVE  LET a == Accumulated(q, i, c)
         IN /\ DOMAIN a = 0..n
            /\ a[0] = Blank
            /\ \A k \in 1..n :
                 a[k] = IF q[k].id = i THEN Apply(a[k - 1], q[k], c) ELSE a[k - 1]
<1> DEFINE Step(b, k) == IF q[k].id = i THEN Apply(b, q[k], c) ELSE b
           Runs(f, m) == /\ f = [k \in 0..m |-> f[k]]
                         /\ f[0] = Blank
                         /\ \A k \in 1..m : f[k] = Step(f[k - 1], k)
           T == {m \in 0..n : \E f : Runs(f, m)}
           Solves(a) == a = [k \in 0..n |-> IF k = 0 THEN Blank ELSE Step(a[k - 1], k)]
<1>1. Accumulated(q, i, c) = CHOOSE a : Solves(a)
  BY DEF Accumulated
<1> HIDE DEF Step
<1>2. 0 \in T
  <2> DEFINE g == [k \in 0..0 |-> Blank]
  <2>1. g = [k \in 0..0 |-> g[k]] /\ g[0] = Blank /\ 1..0 = {}
    OBVIOUS
  <2> HIDE DEF g
  <2>2. Runs(g, 0)
    BY <2>1
  <2>3. QED
    BY <2>2
<1>3. ASSUME NEW m \in 0..(n - 1), m \in T PROVE m + 1 \in T
  <2>1. PICK f : Runs(f, m)
    BY <1>3
  <2> DEFINE g == [k \in 0..(m + 1) |-> IF k = m + 1 THEN Step(f[m], m + 1) ELSE f[k]]
  <2>2. g = [k \in 0..(m + 1) |-> g[k]] /\ g[0] = Blank
    BY <2>1
  <2>3. ASSUME NEW k \in 1..(m + 1) PROVE g[k] = Step(g[k - 1], k)
    <3>1. CASE k = m + 1
      BY <3>1
    <3>2. CASE k \in 1..m
      <4>1. k - 1 \in 0..(m + 1) /\ k - 1 # m + 1 /\ k # m + 1
        BY <3>2
      <4>2. g[k] = f[k] /\ g[k - 1] = f[k - 1]
        BY <4>1
      <4>3. QED
        BY <2>1, <3>2, <4>2
    <3>3. QED
      BY <3>1, <3>2
  <2> HIDE DEF g
  <2>4. \E h : Runs(h, m + 1)
    BY <2>2, <2>3
  <2> HIDE DEF Runs
  <2>5. QED
    BY <2>4
<1>4. \E f : Runs(f, n)
  <2>1. n \in T
    <3> HIDE DEF T
    <3>1. \A k \in 0..n : k \in T
      BY <1>2, <1>3, FromZero
    <3>2. QED
      BY <3>1
  <2> HIDE DEF Runs
  <2>2. QED
    BY <2>1
<1>5. PICK f : Runs(f, n)
  BY <1>4
<1>6. \A k \in 0..n : f[k] = IF k = 0 THEN Blank ELSE Step(f[k - 1], k)
  <2>1. f[0] = Blank /\ \A k \in 1..n : f[k] = Step(f[k - 1], k)
    BY <1>5
  <2>2. \A k \in 0..n : k = 0 \/ (k \in 1..n /\ k # 0)
    OBVIOUS
  <2> HIDE DEF Runs
  <2>3. QED
    BY <2>1, <2>2
<1>7. Solves(f)
  <2>1. f = [k \in 0..n |-> f[k]]
    BY <1>5
  <2>2. QED
    BY <1>6, <2>1
<1>8. Solves(Accumulated(q, i, c))
  <2> HIDE DEF Solves
  <2>1. QED
    BY <1>1, <1>7
<1> DEFINE a == Accumulated(q, i, c)
<1> HIDE DEF a
<1>9. DOMAIN a = 0..n /\ a[0] = Blank /\ \A k \in 1..n : a[k] = Step(a[k - 1], k)
  BY <1>8 DEF a
<1>10. QED
  BY <1>9 DEF a, Step

-----------------------------------------------------------------------------
(* Numbers with their times.                                               *)

Maps(S, T) == UNION {[D -> T] : D \in SUBSET S}

LEMMA MapsDef ==
  ASSUME NEW S, NEW T, NEW f
  PROVE  f \in Maps(S, T) <=> DOMAIN f \subseteq S /\ f \in [DOMAIN f -> T]
<1>1. ASSUME f \in Maps(S, T)
      PROVE  DOMAIN f \subseteq S /\ f \in [DOMAIN f -> T]
  <2>1. PICK D \in SUBSET S : f \in [D -> T]
    BY <1>1 DEF Maps
  <2>2. QED
    BY <2>1
<1>2. ASSUME DOMAIN f \subseteq S, f \in [DOMAIN f -> T]
      PROVE  f \in Maps(S, T)
  BY <1>2 DEF Maps
<1>3. QED
  BY <1>1, <1>2

\* More numbers and more times.
LEMMA MapsGrow ==
  ASSUME NEW S, NEW T, NEW U, T \subseteq U, NEW f \in Maps(S, T)
  PROVE  f \in Maps(S, U)
BY MapsDef

LEMMA EmptyMap ==
  ASSUME NEW S, NEW T
  PROVE  /\ <<>> \in Maps(S, T) /\ DOMAIN <<>> = {}
         /\ \A f \in Maps(S, T) : DOMAIN f = {} => f = <<>>
<1>1. <<>> \in [{} -> T] /\ DOMAIN <<>> = {}
  OBVIOUS
<1>2. <<>> \in Maps(S, T)
  BY <1>1, MapsDef
<1>3. ASSUME NEW f \in Maps(S, T), DOMAIN f = {} PROVE f = <<>>
  <2>1. f \in [{} -> T]
    BY <1>3, MapsDef
  <2>2. QED
    BY <1>1, <2>1
<1>4. QED
  BY <1>1, <1>2, <1>3

More(f, s, t, g) ==
  /\ DOMAIN g = DOMAIN f \cup {s} /\ g[s] = t
  /\ \A x \in DOMAIN f : x # s => g[x] = f[x]

LEMMA WithMap ==
  ASSUME NEW S, NEW T, NEW f \in Maps(S, T), NEW s \in S, NEW t \in T, NEW g, g = With(f, s, t)
  PROVE  g \in Maps(S, T) /\ More(f, s, t, g)
<1>1. DOMAIN f \subseteq S /\ f \in [DOMAIN f -> T]
  BY MapsDef
<1>2. g \in [DOMAIN f \cup {s} -> T] /\ DOMAIN g = DOMAIN f \cup {s}
  BY <1>1 DEF With
<1>3. g \in Maps(S, T)
  BY <1>1, <1>2, MapsDef
<1>4. QED
  BY <1>2, <1>3 DEF With, More

Less(f, X, g) == DOMAIN g = DOMAIN f \ X /\ \A x \in DOMAIN g : g[x] = f[x]

LEMMA WithoutMap ==
  ASSUME NEW S, NEW T, NEW f \in Maps(S, T), NEW X, NEW g, g = Without(f, X)
  PROVE  g \in Maps(S, T) /\ Less(f, X, g)
<1>1. DOMAIN f \subseteq S /\ f \in [DOMAIN f -> T]
  BY MapsDef
<1>2. g \in [DOMAIN f \ X -> T] /\ DOMAIN g = DOMAIN f \ X
  BY <1>1 DEF Without, Restrict
<1>3. g \in Maps(S, T)
  BY <1>1, <1>2, MapsDef
<1>4. QED
  BY <1>2, <1>3 DEF Without, Restrict, Less

-----------------------------------------------------------------------------
(* Records and accumulators.                                               *)

\* The records about ids in I, with numbers in S and times in T, and what a scan of
\* them can accumulate.
RecSet(I, S, T) ==
  [op : {"register"}, id : I, name : Names \cup {NoName}]
    \cup [op : {"record"}, id : I, seq : S, ts : T]
    \cup [op : {"confirm", "upto"}, id : I, seq : S]
    \cup [op : {"tombstone"}, id : I]
    \cup [op : {"snapshot"}, id : I, seqs : SUBSET S, ts : T]

AccSet(S, T) == [name : Names \cup {NoName, Unnamed}, live : Maps(S, T)]

LEMMA BlankAcc ==
  ASSUME NEW S, NEW T
  PROVE  Blank \in AccSet(S, T) /\ Blank.name = Unnamed /\ DOMAIN Blank.live = {}
BY EmptyMap DEF AccSet, Blank

\* What a record does to an accumulator, number by number.
Hits(r, s) == IF r.op = "confirm" THEN s = r.seq ELSE s <= r.seq
Becomes(a, r, c, b) ==
  /\ r.op = "register" => b.name = r.name /\ b.live = a.live
  /\ r.op \in {"record", "confirm", "upto", "snapshot"} => b.name = a.name
  /\ r.op = "record" /\ TooOld(r.ts, c) => b.live = a.live
  /\ r.op = "record" /\ ~TooOld(r.ts, c) =>
       /\ DOMAIN b.live = DOMAIN a.live \cup {r.seq} /\ b.live[r.seq] = r.ts
       /\ \A s \in DOMAIN a.live : s # r.seq => b.live[s] = a.live[s]
  /\ r.op \in {"confirm", "upto"} =>
       /\ \A s : s \in DOMAIN b.live <=> s \in DOMAIN a.live /\ ~Hits(r, s)
       /\ \A s \in DOMAIN b.live : b.live[s] = a.live[s]
  /\ r.op = "tombstone" => b = Blank
  /\ r.op = "snapshot" =>
       /\ DOMAIN b.live = IF TooOld(r.ts, c) THEN {} ELSE r.seqs
       /\ \A s \in DOMAIN b.live : b.live[s] = r.ts

LEMMA Applied ==
  ASSUME NEW I, NEW S, NEW T, NEW a \in AccSet(S, T), NEW r \in RecSet(I, S, T), NEW c,
         NEW b, b = Apply(a, r, c)
  PROVE  b \in AccSet(S, T) /\ Becomes(a, r, c, b)
<1> USE DEF AccSet
<1>0. a.live \in Maps(S, T)
  OBVIOUS
<1>1. CASE r.op = "register"
  <2>1. r.name \in Names \cup {NoName}
    BY <1>1 DEF RecSet
  <2>2. b = [a EXCEPT !.name = r.name]
    BY <1>1 DEF Apply
  <2>3. QED
    BY <1>1, <2>1, <2>2 DEF Becomes
<1>2. CASE r.op = "record"
  <2>1. r.seq \in S /\ r.ts \in T
    BY <1>2 DEF RecSet
  <2>2. b = IF TooOld(r.ts, c) THEN a ELSE [a EXCEPT !.live = With(a.live, r.seq, r.ts)]
    BY <1>2 DEF Apply
  <2>3. PICK m : m = With(a.live, r.seq, r.ts)
    OBVIOUS
  <2>4. m \in Maps(S, T) /\ More(a.live, r.seq, r.ts, m)
    BY <1>0, <2>1, <2>3, WithMap
  <2>5. b = IF TooOld(r.ts, c) THEN a ELSE [a EXCEPT !.live = m]
    BY <2>2, <2>3
  <2>6. QED
    BY <1>2, <2>4, <2>5 DEF Becomes, More
<1>3. CASE r.op \in {"confirm", "upto"}
  <2>1. PICK X : /\ b = [a EXCEPT !.live = Without(a.live, X)]
                 /\ \A s \in DOMAIN a.live : s \in X <=> Hits(r, s)
    <3>1. CASE r.op = "confirm"
      <4>1. b = [a EXCEPT !.live = Without(a.live, {r.seq})]
        BY <3>1 DEF Apply
      <4>2. \A s \in DOMAIN a.live : s \in {r.seq} <=> Hits(r, s)
        BY <3>1 DEF Hits
      <4>3. QED
        BY <4>1, <4>2
    <3>2. CASE r.op = "upto"
      <4> DEFINE X == {s \in DOMAIN a.live : s <= r.seq}
      <4>1. b = [a EXCEPT !.live = Without(a.live, X)]
        BY <3>2 DEF Apply, DropUpTo
      <4>2. \A s \in DOMAIN a.live : s \in X <=> Hits(r, s)
        BY <3>2 DEF Hits
      <4> HIDE DEF X
      <4>3. QED
        BY <4>1, <4>2
    <3>3. QED
      BY <1>3, <3>1, <3>2
  <2>2. PICK m : m = Without(a.live, X)
    OBVIOUS
  <2>3. m \in Maps(S, T) /\ Less(a.live, X, m)
    BY <1>0, <2>2, WithoutMap
  <2>4. b = [a EXCEPT !.live = m]
    BY <2>1, <2>2
  <2>5. b \in AccSet(S, T) /\ b.live = m /\ b.name = a.name
    BY <2>3, <2>4
  <2>6. QED
    BY <1>3, <2>1, <2>3, <2>5 DEF Becomes, Less
<1>4. CASE r.op = "tombstone"
  BY <1>4, BlankAcc DEF Apply, WipeSlot, Becomes
<1>5. CASE r.op = "snapshot"
  <2>1. r.seqs \in SUBSET S /\ r.ts \in T
    BY <1>5 DEF RecSet
  <2>2. PICK m : m = IF TooOld(r.ts, c) THEN <<>> ELSE [s \in r.seqs |-> r.ts]
    OBVIOUS
  <2>3. b = [a EXCEPT !.live = m]
    BY <1>5, <2>2 DEF Apply, ResetTo
  <2>4. /\ m \in Maps(S, T) /\ DOMAIN m = IF TooOld(r.ts, c) THEN {} ELSE r.seqs
        /\ \A s \in DOMAIN m : m[s] = r.ts
    BY <2>1, <2>2, EmptyMap, MapsDef
  <2>5. b \in AccSet(S, T) /\ b.live = m /\ b.name = a.name
    BY <2>3, <2>4
  <2>6. QED
    BY <1>5, <2>4, <2>5 DEF Becomes
<1>6. QED
  BY <1>1, <1>2, <1>3, <1>4, <1>5 DEF RecSet

\* What a scan has accumulated is well typed after every record.
LEMMA Accumulates ==
  ASSUME NEW I, NEW S, NEW T, NEW q \in Seq(RecSet(I, S, T)), NEW i, NEW c
  PROVE  \A k \in 0..Len(q) : Accumulated(q, i, c)[k] \in AccSet(S, T)
<1> DEFINE n == Len(q)
           G == {k \in 0..n : Accumulated(q, i, c)[k] \in AccSet(S, T)}
<1>1. n \in Nat /\ \A k \in 1..n : q[k] \in RecSet(I, S, T)
  BY LenProperties, ElementOfSeq
<1> HIDE DEF n
<1>2. PICK a : a = Accumulated(q, i, c)
  OBVIOUS
<1>3. /\ a[0] = Blank
      /\ \A k \in 1..n : a[k] = IF q[k].id = i THEN Apply(a[k - 1], q[k], c) ELSE a[k - 1]
  BY <1>1, <1>2, Unfold DEF n
<1>4. 0 \in G
  BY <1>1, <1>2, <1>3, BlankAcc
<1>5. ASSUME NEW k \in 0..(n - 1), k \in G PROVE k + 1 \in G
  <2>1. k + 1 \in 1..n /\ (k + 1) - 1 = k /\ a[k] \in AccSet(S, T)
    BY <1>1, <1>2, <1>5
  <2>2. a[k + 1] = IF q[k + 1].id = i THEN Apply(a[k], q[k + 1], c) ELSE a[k]
    BY <1>3, <2>1
  <2>3. q[k + 1] \in RecSet(I, S, T)
    BY <1>1, <2>1
  <2>4. Apply(a[k], q[k + 1], c) \in AccSet(S, T)
    BY <2>1, <2>3, Applied
  <2>5. QED
    BY <1>2, <2>1, <2>2, <2>4
<1> HIDE DEF G
<1>6. \A k \in 0..n : k \in G
  BY <1>1, <1>4, <1>5, FromZero
<1>7. QED
  BY <1>6 DEF G, n

\* Two logs that begin alike have the same accumulators so far.
Alike(p, q, m) ==
  /\ Len(q) \in Nat /\ Len(p) \in Nat /\ m <= Len(q) /\ m <= Len(p)
  /\ \A k \in 1..m : p[k] = q[k]

\* Cutting the tail off a log leaves what was accumulated before it.
LEMMA Prefix ==
  ASSUME NEW m \in Nat, NEW p, NEW q, Alike(p, q, m), NEW i, NEW c
  PROVE  \A k \in 0..m : Accumulated(p, i, c)[k] = Accumulated(q, i, c)[k]
<1> USE DEF Alike
<1>1. PICK a : a = Accumulated(q, i, c)
  OBVIOUS
<1>2. PICK b : b = Accumulated(p, i, c)
  OBVIOUS
<1> DEFINE G == {k \in 0..m : b[k] = a[k]}
<1>3. /\ a[0] = Blank
      /\ \A k \in 1..m : a[k] = IF q[k].id = i THEN Apply(a[k - 1], q[k], c) ELSE a[k - 1]
  <2>1. \A k \in 1..m : k \in 1..Len(q)
    OBVIOUS
  <2>2. QED
    BY <1>1, <2>1, Unfold
<1>4. /\ b[0] = Blank
      /\ \A k \in 1..m : b[k] = IF p[k].id = i THEN Apply(b[k - 1], p[k], c) ELSE b[k - 1]
  <2>1. \A k \in 1..m : k \in 1..Len(p)
    OBVIOUS
  <2>2. QED
    BY <1>2, <2>1, Unfold
<1>5. 0 \in G
  BY <1>3, <1>4
<1>6. ASSUME NEW k \in 0..(m - 1), k \in G PROVE k + 1 \in G
  <2>1. k + 1 \in 1..m /\ (k + 1) - 1 = k /\ b[k] = a[k]
    BY <1>6
  <2>2. QED
    BY <1>3, <1>4, <2>1
<1> HIDE DEF G
<1>7. \A k \in 0..m : k \in G
  BY <1>5, <1>6, FromZero
<1>8. QED
  BY <1>1, <1>2, <1>7 DEF G

\* An id without a record has nothing.
LEMMA NoRecord ==
  ASSUME NEW q, Len(q) \in Nat, NEW i, i \notin IdsOf(q), NEW c
  PROVE  \A k \in 0..Len(q) : Accumulated(q, i, c)[k] = Blank
<1>1. PICK n \in Nat : n = Len(q)
  OBVIOUS
<1>2. PICK a : a = Accumulated(q, i, c)
  OBVIOUS
<1>3. /\ a[0] = Blank
      /\ \A k \in 1..n : a[k] = IF q[k].id = i THEN Apply(a[k - 1], q[k], c) ELSE a[k - 1]
  BY <1>1, <1>2, Unfold
<1>4. \A k \in 1..n : q[k].id # i
  BY <1>1 DEF IdsOf
<1> DEFINE G == {k \in 0..n : a[k] = Blank}
<1>5. 0 \in G
  BY <1>3
<1>6. ASSUME NEW k \in 0..(n - 1), k \in G PROVE k + 1 \in G
  <2>1. k + 1 \in 1..n /\ (k + 1) - 1 = k /\ a[k] = Blank
    BY <1>6
  <2>2. QED
    BY <1>3, <1>4, <2>1
<1> HIDE DEF G
<1>7. \A k \in 0..n : k \in G
  BY <1>5, <1>6, FromZero
<1>8. QED
  BY <1>1, <1>2, <1>7 DEF G

\* A later scan of the same log knows the same names, and of the numbers those that the
\* TTL has left.
Later(a, b, d) ==
  /\ b.name = a.name
  /\ DOMAIN b.live \subseteq DOMAIN a.live
  /\ \A s \in DOMAIN a.live :
       a.live[s] >= d => s \in DOMAIN b.live /\ b.live[s] = a.live[s]

\* A later cutoff drops numbers the TTL has passed and no others, record by record ...
LEMMA LaterApplied ==
  ASSUME NEW I, NEW S, NEW T \in SUBSET Int, NEW a \in AccSet(S, T), NEW b \in AccSet(S, T),
         NEW c \in Int, NEW d \in Int, c <= d, Later(a, b, d), NEW r \in RecSet(I, S, T)
  PROVE  Later(Apply(a, r, c), Apply(b, r, d), d)
<1>1. PICK x : x = Apply(a, r, c)
  OBVIOUS
<1>2. PICK y : y = Apply(b, r, d)
  OBVIOUS
<1>3. x \in AccSet(S, T) /\ Becomes(a, r, c, x)
  BY <1>1, Applied
<1>4. y \in AccSet(S, T) /\ Becomes(b, r, d, y)
  BY <1>2, Applied
<1>5. /\ b.name = a.name /\ DOMAIN b.live \subseteq DOMAIN a.live
      /\ \A s \in DOMAIN a.live :
           a.live[s] >= d => s \in DOMAIN b.live /\ b.live[s] = a.live[s]
  BY DEF Later
<1>6. Later(x, y, d)
  <2>1. CASE r.op = "register"
    BY <1>3, <1>4, <1>5, <2>1 DEF Later, Becomes
  <2>2. CASE r.op = "record"
    <3>1. r.ts \in Int
      BY <2>2 DEF RecSet
    <3>2. x.name = a.name /\ y.name = b.name
      BY <1>3, <1>4, <2>2 DEF Becomes
    <3>3. CASE r.ts < c
      <4>1. r.ts < d
        BY <3>1, <3>3
      <4>2. x.live = a.live /\ y.live = b.live
        BY <1>3, <1>4, <2>2, <3>3, <4>1 DEF TooOld, Becomes
      <4>3. QED
        BY <1>5, <3>2, <4>2 DEF Later
    <3>4. CASE ~ (r.ts < c) /\ r.ts < d
      <4>1. /\ DOMAIN x.live = DOMAIN a.live \cup {r.seq} /\ x.live[r.seq] = r.ts
            /\ \A s \in DOMAIN a.live : s # r.seq => x.live[s] = a.live[s]
            /\ y.live = b.live
        BY <1>3, <1>4, <2>2, <3>4 DEF TooOld, Becomes
      <4>2. ~ (r.ts >= d)
        BY <3>1, <3>4
      <4>3. QED
        BY <1>5, <3>2, <4>1, <4>2 DEF Later
    <3>5. CASE ~ (r.ts < d)
      <4>1. ~ (r.ts < c)
        BY <3>1, <3>5
      <4>2. /\ DOMAIN x.live = DOMAIN a.live \cup {r.seq} /\ x.live[r.seq] = r.ts
            /\ \A s \in DOMAIN a.live : s # r.seq => x.live[s] = a.live[s]
            /\ DOMAIN y.live = DOMAIN b.live \cup {r.seq} /\ y.live[r.seq] = r.ts
            /\ \A s \in DOMAIN b.live : s # r.seq => y.live[s] = b.live[s]
        BY <1>3, <1>4, <2>2, <3>5, <4>1 DEF TooOld, Becomes
      <4>3. QED
        BY <1>5, <3>2, <4>2 DEF Later
    <3>6. QED
      BY <3>3, <3>4, <3>5
  <2>3. CASE r.op \in {"confirm", "upto"}
    BY <1>3, <1>4, <1>5, <2>3 DEF Later, Becomes
  <2>4. CASE r.op = "tombstone"
    BY <1>3, <1>4, <2>4, BlankAcc DEF Later, Becomes
  <2>5. CASE r.op = "snapshot"
    <3>1. r.ts \in Int
      BY <2>5 DEF RecSet
    <3>2. r.ts < c => r.ts < d
      BY <3>1
    <3>3. r.ts < d => ~ (r.ts >= d)
      BY <3>1
    <3>4. QED
      BY <1>3, <1>4, <1>5, <2>5, <3>2, <3>3 DEF Later, Becomes, TooOld
  <2>6. QED
    BY <2>1, <2>2, <2>3, <2>4, <2>5 DEF RecSet
<1>7. QED
  BY <1>1, <1>2, <1>6

\* ... and so in every scan.
LEMMA LaterScan ==
  ASSUME NEW I, NEW S, NEW T \in SUBSET Int, NEW q \in Seq(RecSet(I, S, T)), NEW i,
         NEW c \in Int, NEW d \in Int, c <= d
  PROVE  \A k \in 0..Len(q) : Later(Accumulated(q, i, c)[k], Accumulated(q, i, d)[k], d)
<1>1. PICK n \in Nat : n = Len(q)
  BY LenProperties
<1>2. PICK a : a = Accumulated(q, i, c)
  OBVIOUS
<1>3. PICK b : b = Accumulated(q, i, d)
  OBVIOUS
<1>4. \A k \in 1..n : q[k] \in RecSet(I, S, T)
  BY <1>1, ElementOfSeq
<1>5. \A k \in 0..n : a[k] \in AccSet(S, T) /\ b[k] \in AccSet(S, T)
  BY <1>1, <1>2, <1>3, Accumulates
<1>6. /\ a[0] = Blank
      /\ \A k \in 1..n : a[k] = IF q[k].id = i THEN Apply(a[k - 1], q[k], c) ELSE a[k - 1]
  BY <1>1, <1>2, Unfold
<1>7. /\ b[0] = Blank
      /\ \A k \in 1..n : b[k] = IF q[k].id = i THEN Apply(b[k - 1], q[k], d) ELSE b[k - 1]
  BY <1>1, <1>3, Unfold
<1> DEFINE G == {k \in 0..n : Later(a[k], b[k], d)}
<1>8. 0 \in G
  BY <1>6, <1>7, BlankAcc DEF Later
<1>9. ASSUME NEW k \in 0..(n - 1), k \in G PROVE k + 1 \in G
  <2>1. k + 1 \in 1..n /\ (k + 1) - 1 = k /\ k \in 0..n /\ Later(a[k], b[k], d)
    BY <1>9
  <2>2. Later(Apply(a[k], q[k + 1], c), Apply(b[k], q[k + 1], d), d)
    BY <1>4, <1>5, <2>1, LaterApplied
  <2>3. QED
    BY <1>6, <1>7, <2>1, <2>2
<1> HIDE DEF G
<1>10. \A k \in 0..n : k \in G
  BY <1>8, <1>9, FromZero
<1>11. QED
  BY <1>1, <1>2, <1>3, <1>10 DEF G

-----------------------------------------------------------------------------
(* Numbers in their order.                                                 *)

Rank(K, k) == Cardinality({j \in K : j <= k})

\* Every rank is taken, and none twice; a greater number has a greater rank.
LEMMA RanksCount ==
  ASSUME NEW n \in Nat, NEW K \in SUBSET (0..n)
  PROVE  /\ Cardinality(K) \in Nat
         /\ \A k \in K : Rank(K, k) \in 1..Cardinality(K)
         /\ \A k, l \in K : k < l => Rank(K, k) < Rank(K, l)
         /\ \A k, l \in K : Rank(K, k) = Rank(K, l) => k = l
         /\ \A i \in 1..Cardinality(K) : \E k \in K : Rank(K, k) = i
<1>1. IsFiniteSet(K)
  <2>1. IsFiniteSet(0..n)
    BY FS_Interval
  <2>2. QED
    BY <2>1, FS_Subset
<1>2. Cardinality(K) \in Nat
  BY <1>1, FS_CardinalityType
<1>3. ASSUME NEW k \in K
      PROVE  Rank(K, k) \in 1..Cardinality(K)
  <2> DEFINE U == {j \in K : j <= k}
  <2>1. U \in SUBSET K /\ k \in U
    OBVIOUS
  <2> HIDE DEF U
  <2>2. IsFiniteSet(U) /\ Cardinality(U) <= Cardinality(K)
    BY <1>1, <2>1, FS_Subset
  <2>3. Cardinality(U) \in Nat
    BY <2>2, FS_CardinalityType
  <2>4. Cardinality(U) # 0
    BY <2>1, <2>2, FS_EmptySet
  <2>5. Cardinality(U) \in 1..Cardinality(K)
    BY <1>2, <2>2, <2>3, <2>4
  <2>6. QED
    BY <2>5 DEF Rank, U
<1>4. ASSUME NEW k \in K, NEW l \in K, k < l
      PROVE  Rank(K, k) < Rank(K, l)
  <2> DEFINE U == {j \in K : j <= k}
             V == {j \in K : j <= l}
  <2>1. U \in SUBSET V /\ V \in SUBSET K /\ l \in V /\ l \notin U
    <3>1. k \in Int /\ l \in Int /\ \A j \in K : j \in Int
      OBVIOUS
    <3>2. (\A j \in K : j <= k => j <= l) /\ ~ (l <= k) /\ l <= l
      BY <1>4, <3>1
    <3>3. U \subseteq V /\ V \subseteq K
      BY <3>2
    <3>4. QED
      BY <3>2, <3>3
  <2> HIDE DEF U, V
  <2>2. IsFiniteSet(V) /\ IsFiniteSet(U) /\ Cardinality(U) <= Cardinality(V)
    BY <1>1, <2>1, FS_Subset
  <2>3. Cardinality(V) = Cardinality(U) => V = U
    BY <2>1, <2>2, FS_Subset
  <2>4. Cardinality(V) # Cardinality(U)
    BY <2>1, <2>3
  <2>5. Cardinality(U) \in Nat /\ Cardinality(V) \in Nat
    BY <2>2, FS_CardinalityType
  <2>6. Cardinality(U) < Cardinality(V)
    BY <2>2, <2>4, <2>5
  <2>7. QED
    BY <2>6 DEF Rank, U, V
<1>5. ASSUME NEW k \in K, NEW l \in K, Rank(K, k) = Rank(K, l)
      PROVE  k = l
  <2>1. k \in Int /\ l \in Int
    OBVIOUS
  <2>2. Rank(K, k) \in Int
    BY <1>2, <1>3
  <2>4. ~ (k < l) /\ ~ (l < k)
    BY <1>4, <1>5, <2>2
  <2>5. QED
    BY <2>1, <2>4
<1>6. \A i \in 1..Cardinality(K) : \E k \in K : Rank(K, k) = i
  <2> DEFINE m == Cardinality(K)
             f == [k \in K |-> Rank(K, k)]
  <2>1. f \in [K -> 1..m] /\ \A k \in K : f[k] = Rank(K, k)
    BY <1>3
  <2> HIDE DEF f
  <2>2. \A k, l \in K : f[k] = f[l] => k = l
    BY <1>5, <2>1
  <2>3. f \in Injection(K, 1..m)
    BY <2>1, <2>2 DEF Injection, IsInjective
  <2>4. IsFiniteSet(1..m) /\ Cardinality(1..m) = m
    BY <1>2, FS_Interval
  <2>5. f \in Surjection(K, 1..m)
    BY <2>3, <2>4, FS_Injection
  <2>6. \A i \in 1..m : \E k \in K : f[k] = i
    BY <2>5 DEF Surjection
  <2>7. QED
    BY <2>1, <2>6
<1>7. QED
  BY <1>2, <1>3, <1>4, <1>5, <1>6

\* Ascending lists every number of a set once, in order.
LEMMA Listed ==
  ASSUME NEW n \in Nat, NEW S \in SUBSET (0..n), NEW a, a = Ascending(S)
  PROVE  /\ Len(a) \in Nat /\ DOMAIN a = 1..Len(a) /\ a \in Seq(S)
         /\ \A k \in 1..Len(a) : a[k] \in S
         /\ \A x \in S : Rank(S, x) \in 1..Len(a) /\ a[Rank(S, x)] = x
         /\ \A j, k \in 1..Len(a) : j < k => a[j] < a[k]
         /\ \A j, k \in 1..Len(a) : a[j] = a[k] => j = k
<1>1. PICK m : m = Cardinality(S)
  OBVIOUS
<1>2. /\ m \in Nat
      /\ \A k \in S : Rank(S, k) \in 1..m
      /\ \A k, l \in S : k < l => Rank(S, k) < Rank(S, l)
      /\ \A k, l \in S : Rank(S, k) = Rank(S, l) => k = l
      /\ \A i \in 1..m : \E k \in S : Rank(S, k) = i
  BY <1>1, RanksCount
<1>3. a = [k \in 1..m |-> CHOOSE x \in S : Rank(S, x) = k]
  BY <1>1 DEF Ascending, Rank
<1>4. \A k \in 1..m : a[k] \in S /\ Rank(S, a[k]) = k
  BY <1>2, <1>3
<1>5. a \in [1..m -> S]
  BY <1>3, <1>4
<1>6. Len(a) = m /\ a \in Seq(S) /\ DOMAIN a = 1..m
  BY <1>2, <1>5
<1>7. \A x \in S : a[Rank(S, x)] = x
  BY <1>2, <1>4
<1>8. ASSUME NEW j \in 1..m, NEW k \in 1..m, j < k PROVE a[j] < a[k]
  <2>1. a[j] \in 0..n /\ a[k] \in 0..n /\ Rank(S, a[j]) = j /\ Rank(S, a[k]) = k
    BY <1>4
  <2>2. a[j] # a[k]
    BY <1>8, <2>1
  <2>3. ~ (a[k] < a[j])
    BY <1>2, <1>4, <1>8, <2>1
  <2>4. QED
    BY <2>1, <2>2, <2>3
<1>9. QED
  BY <1>2, <1>4, <1>6, <1>7, <1>8

\* The same, in one word.
Lists(a, S) ==
  /\ Len(a) \in Nat /\ DOMAIN a = 1..Len(a)
  /\ \A k \in 1..Len(a) : a[k] \in S
  /\ \A x \in S : Rank(S, x) \in 1..Len(a) /\ a[Rank(S, x)] = x
  /\ \A j, k \in 1..Len(a) : a[j] = a[k] => j = k

LEMMA AscendingLists ==
  ASSUME NEW n \in Nat, NEW S \in SUBSET (0..n), NEW a, a = Ascending(S)
  PROVE  Lists(a, S)
BY Listed DEF Lists

Sorted(q) == \A j, k \in 1..Len(q) : j < k => q[j] < q[k]

\* What Kept leaves of a sequence.
LEMMA KeptMembers ==
  ASSUME NEW A, NEW q \in Seq(A), NEW S, NEW p, p = Kept(q, S)
  PROVE  /\ p \in Seq(A)
         /\ Range(p) = Range(q) \cap S
         /\ Sorted(q) => Sorted(p)
<1>1. PICK n \in Nat : n = Len(q)
  BY LenProperties
<1>2. \A k \in 1..n : q[k] \in A
  BY <1>1, ElementOfSeq
<1>3. PICK K : K = {k \in 1..n : q[k] \in S}
  OBVIOUS
<1>4. PICK a : a = Ascending(K)
  OBVIOUS
<1>5. K \in SUBSET (0..n) /\ K \subseteq 1..n
  BY <1>3
<1>6. PICK m : m = Len(a)
  OBVIOUS
<1>7. /\ m \in Nat /\ DOMAIN a = 1..m
      /\ \A k \in 1..m : a[k] \in K
      /\ \A x \in K : Rank(K, x) \in 1..m /\ a[Rank(K, x)] = x
      /\ \A j, k \in 1..m : j < k => a[j] < a[k]
  BY <1>4, <1>5, <1>6, Listed
<1>8. p = [i \in 1..m |-> q[a[i]]]
  BY <1>1, <1>3, <1>4, <1>7 DEF Kept
<1>9. p \in [1..m -> A]
  BY <1>2, <1>5, <1>7, <1>8
<1>10. p \in Seq(A) /\ Len(p) = m
  BY <1>7, <1>9
<1>11. \A j \in 1..m : p[j] = q[a[j]] /\ a[j] \in 1..n
  BY <1>5, <1>7, <1>8
<1>12. ASSUME NEW k \in 1..n, q[k] \in S PROVE \E j \in 1..m : p[j] = q[k]
  <2>1. Rank(K, k) \in 1..m /\ a[Rank(K, k)] = k
    BY <1>3, <1>7, <1>12
  <2>2. QED
    BY <1>11, <2>1
<1>13. Sorted(q) => Sorted(p)
  BY <1>1, <1>7, <1>10, <1>11 DEF Sorted
<1>14. DOMAIN p = 1..m /\ DOMAIN q = 1..n
  BY <1>1, <1>8, LenProperties
<1>15. \A j \in 1..m : p[j] \in S
  BY <1>3, <1>7, <1>11
<1>16. Range(p) = Range(q) \cap S
  <2>1. ASSUME NEW x \in Range(p) PROVE x \in Range(q) \cap S
    BY <1>11, <1>14, <1>15, <2>1 DEF Range
  <2>2. ASSUME NEW x \in Range(q) \cap S PROVE x \in Range(p)
    BY <1>12, <1>14, <2>2 DEF Range
  <2>3. QED
    BY <2>1, <2>2
<1>17. QED
  BY <1>10, <1>13, <1>16

-----------------------------------------------------------------------------
(* Slots in memory.                                                        *)

\* Slots with numbers in S, from 1 to m, and times in T.
SlotSet(S, m, T) ==
  [name : Names \cup {NoName}, set : Maps(S, T), fifo : Seq(S),
   min : 0..m, max : 0..m, tombed : BOOLEAN]

\* The fifo holds every live number and a deleted slot is empty; for an application
\* that acknowledges in delivery order the fifo is sorted, below the high bound, and
\* the low bound passes no live number.
InFifo(st) == Live(st) \subseteq Range(st.fifo)
InOrderPart(st) ==
  /\ Sorted(st.fifo)
  /\ \A x \in Range(st.fifo) : x <= st.max
  /\ \A s \in Live(st) : st.min <= s
SlotOK(st, ordered) ==
  InFifo(st) /\ (st.tombed => Live(st) = {}) /\ (ordered => InOrderPart(st))

\* The same slot with the numbers in X gone.
Thinned(st, X, r) ==
  /\ r.name = st.name /\ r.tombed = st.tombed
  /\ Live(r) = Live(st) \ X /\ \A s \in Live(r) : r.set[s] = st.set[s]

LEMMA SlotFields ==
  ASSUME NEW m \in Nat, NEW S, S = 1..m, NEW T, NEW st \in SlotSet(S, m, T)
  PROVE  /\ st.set \in Maps(S, T) /\ Live(st) \subseteq S
         /\ \A s \in Live(st) : st.set[s] \in T
         /\ st.fifo \in Seq(S) /\ Len(st.fifo) \in Nat /\ DOMAIN st.fifo = 1..Len(st.fifo)
         /\ \A j \in 1..Len(st.fifo) : st.fifo[j] \in S
         /\ st.min \in 0..m /\ st.max \in 0..m /\ st.tombed \in BOOLEAN
         /\ st.name \in Names \cup {NoName}
<1>1. st.set \in Maps(S, T) /\ st.fifo \in Seq(S)
  BY DEF SlotSet
<1>2. DOMAIN st.set \subseteq S /\ st.set \in [DOMAIN st.set -> T]
  BY <1>1, MapsDef
<1>3. Len(st.fifo) \in Nat /\ DOMAIN st.fifo = 1..Len(st.fifo)
  BY <1>1, LenProperties
<1>4. \A j \in 1..Len(st.fifo) : st.fifo[j] \in S
  BY <1>1, ElementOfSeq
<1>5. QED
  BY <1>1, <1>2, <1>3, <1>4 DEF Live, SlotSet

\* Times only become more.
LEMMA SlotsGrow ==
  ASSUME NEW m \in Nat, NEW S, S = 1..m, NEW T, NEW U, T \subseteq U, NEW st \in SlotSet(S, m, T)
  PROVE  st \in SlotSet(S, m, U)
<1>1. st.set \in Maps(S, U)
  BY MapsGrow DEF SlotSet
<1>2. QED
  BY <1>1 DEF SlotSet

LEMMA EmptyOK ==
  ASSUME NEW m \in Nat, NEW S, S = 1..m, NEW T, NEW n \in Names, NEW o, NEW st, st = EmptySlot(n)
  PROVE  /\ st \in SlotSet(S, m, T) /\ SlotOK(st, o)
         /\ st.name = n /\ ~st.tombed /\ Live(st) = {} /\ st.set = <<>>
<1>1. <<>> \in Maps(S, T) /\ DOMAIN <<>> = {} /\ <<>> \in Seq(S) /\ Len(<<>>) = 0
  BY EmptyMap, EmptySeq
<1>2. st \in SlotSet(S, m, T)
  BY <1>1 DEF EmptySlot, SlotSet
<1>3. /\ st.set = <<>> /\ st.fifo = <<>> /\ st.name = n /\ ~st.tombed
      /\ Live(st) = {} /\ Range(<<>>) = {}
  BY <1>1 DEF EmptySlot, Live, Range
<1>4. Sorted(st.fifo)
  BY <1>1, <1>3 DEF Sorted
<1>5. QED
  BY <1>2, <1>3, <1>4 DEF SlotOK, InFifo, InOrderPart

LEMMA DeleteOK ==
  ASSUME NEW m \in Nat, NEW S, S = 1..m, NEW T, NEW st \in SlotSet(S, m, T), st.name \in Names, NEW o,
         NEW r, r = Delete(st)
  PROVE  /\ r \in SlotSet(S, m, T) /\ SlotOK(r, o)
         /\ r.name = st.name /\ r.tombed /\ Live(r) = {}
<1>1. PICK n : n = st.name
  OBVIOUS
<1>2. PICK e : e = EmptySlot(n)
  OBVIOUS
<1>3. e \in SlotSet(S, m, T) /\ SlotOK(e, o) /\ e.name = n /\ Live(e) = {}
  BY <1>1, <1>2, EmptyOK
<1>4. r = [e EXCEPT !.tombed = TRUE]
  BY <1>1, <1>2 DEF Delete
<1>5. r \in SlotSet(S, m, T)
  BY <1>3, <1>4 DEF SlotSet
<1>6. /\ r.set = e.set /\ r.fifo = e.fifo /\ r.min = e.min /\ r.max = e.max
      /\ r.name = e.name /\ r.tombed
  BY <1>3, <1>4 DEF SlotSet
<1>7. QED
  BY <1>1, <1>3, <1>5, <1>6 DEF SlotOK, InFifo, InOrderPart, Live

LEMMA ConfirmOK ==
  ASSUME NEW m \in Nat, NEW S, S = 1..m, NEW T, NEW st \in SlotSet(S, m, T), NEW o, SlotOK(st, o), NEW s,
         NEW r, r = Confirm(st, s)
  PROVE  r \in SlotSet(S, m, T) /\ SlotOK(r, o) /\ Thinned(st, {s}, r)
<1>1. PICK f : f = Without(st.set, {s})
  OBVIOUS
<1>2. st.set \in Maps(S, T)
  BY SlotFields
<1>3. f \in Maps(S, T) /\ Less(st.set, {s}, f)
  BY <1>1, <1>2, WithoutMap
<1>4. r = [st EXCEPT !.set = f]
  BY <1>1 DEF Confirm
<1>5. r \in SlotSet(S, m, T)
  BY <1>3, <1>4 DEF SlotSet
<1>6. /\ r.set = f /\ r.fifo = st.fifo /\ r.min = st.min /\ r.max = st.max
      /\ r.name = st.name /\ r.tombed = st.tombed
  BY <1>4 DEF SlotSet
<1>7. QED
  BY <1>3, <1>5, <1>6 DEF SlotOK, InFifo, InOrderPart, Live, Thinned, Less

\* Drop and ConfirmUpTo: what is gone leaves the fifo too, and the low bound becomes the
\* least live number.
LEMMA DropOK ==
  ASSUME NEW m \in Nat, NEW S, S = 1..m, NEW T, NEW st \in SlotSet(S, m, T), NEW o, SlotOK(st, o), NEW X,
         NEW r, r = Drop(st, X)
  PROVE  r \in SlotSet(S, m, T) /\ SlotOK(r, o) /\ Thinned(st, X, r)
<1>1. CASE Live(st) \cap X = {}
  <2>1. r = st
    BY <1>1 DEF Drop
  <2>2. QED
    BY <1>1, <2>1 DEF Thinned
<1>2. CASE Live(st) \cap X # {}
  <2>1. PICK f : f = Without(st.set, X)
    OBVIOUS
  <2>2. /\ f \in Maps(S, T) /\ DOMAIN f = Live(st) \ X
        /\ \A x \in Live(st) \ X : f[x] = st.set[x]
    <3>1. st.set \in Maps(S, T)
      BY SlotFields
    <3>2. f \in Maps(S, T) /\ Less(st.set, X, f)
      BY <2>1, <3>1, WithoutMap
    <3>3. QED
      BY <3>2 DEF Live, Less
  <2>3. PICK q : q = Kept(st.fifo, DOMAIN f)
    OBVIOUS
  <2>4. /\ Live(st) \subseteq S
        /\ st.fifo \in Seq(S) /\ Len(st.fifo) \in Nat /\ DOMAIN st.fifo = 1..Len(st.fifo)
        /\ \A j \in 1..Len(st.fifo) : st.fifo[j] \in S
    BY SlotFields
  <2>5. q \in Seq(S) /\ Range(q) = Range(st.fifo) \cap DOMAIN f /\ (Sorted(st.fifo) => Sorted(q))
    <3>1. PICK p : p = st.fifo
      OBVIOUS
    <3>2. PICK D : D = DOMAIN f
      OBVIOUS
    <3>3. q \in Seq(S) /\ Range(q) = Range(p) \cap D /\ (Sorted(p) => Sorted(q))
      BY <2>3, <2>4, <3>1, <3>2, KeptMembers
    <3>4. QED
      BY <3>1, <3>2, <3>3
  <2>8. st.fifo # <<>>
    BY <1>2, <2>4 DEF SlotOK, InFifo, Range
  <2>9. PICK w : w = SmallestOf(DOMAIN f)
    OBVIOUS
  <2>10. w \in 0..m /\ \A x \in DOMAIN f : w <= x
    <3>1. PICK D \in SUBSET Nat : D = DOMAIN f
      <4>1. \A x \in S : x \in Nat
        OBVIOUS
      <4>2. QED
        BY <2>2, <2>4, <4>1
    <3>2. D \subseteq S
      BY <2>2, <2>4, <3>1
    <3>3. CASE D = {}
      BY <2>9, <3>1, <3>3 DEF SmallestOf
    <3>4. CASE D # {}
      <4>1. SmallestOf(D) \in D /\ \A y \in D : SmallestOf(D) <= y
        BY <3>1, <3>4, SmallestIsLeast
      <4>2. QED
        BY <2>9, <3>1, <3>2, <4>1
    <3>5. QED
      BY <3>3, <3>4
  <2>11. r = [st EXCEPT !.set = f, !.fifo = q, !.min = w]
    <3>1. PICK e : e = [st EXCEPT !.set = f]
      OBVIOUS
    <3>2. r = CompactFifo(e)
      BY <1>2, <2>1, <3>1 DEF Drop
    <3>3. e.set = f /\ e.fifo = st.fifo
      BY <3>1 DEF SlotSet
    <3>4. Live(e) = DOMAIN f
      BY <3>3 DEF Live
    <3>5. Live(e) \cap Range(e.fifo) = DOMAIN f
      BY <2>2, <3>3, <3>4 DEF SlotOK, InFifo
    <3>6. r = [e EXCEPT !.fifo = q, !.min = w]
      <4>1. e.fifo # <<>>
        BY <2>8, <3>3
      <4>2. r = [e EXCEPT !.fifo = Kept(e.fifo, Live(e)),
                          !.min = SmallestOf(Live(e) \cap Range(e.fifo))]
        BY <3>2, <4>1 DEF CompactFifo
      <4>3. Kept(e.fifo, Live(e)) = q
        BY <2>3, <3>3, <3>4
      <4>4. SmallestOf(Live(e) \cap Range(e.fifo)) = w
        BY <2>9, <3>5
      <4>5. QED
        BY <4>2, <4>3, <4>4
    <3>7. QED
      BY <3>1, <3>6 DEF SlotSet
  <2>12. r \in SlotSet(S, m, T)
    BY <2>2, <2>5, <2>10, <2>11 DEF SlotSet
  <2>13. /\ r.set = f /\ r.fifo = q /\ r.min = w /\ r.max = st.max
         /\ r.name = st.name /\ r.tombed = st.tombed
    BY <2>11 DEF SlotSet
  <2>14. Thinned(st, X, r)
    BY <2>2, <2>13 DEF Thinned, Live
  <2>15. InFifo(r)
    <3>1. DOMAIN f \subseteq Range(q)
      BY <2>2, <2>5 DEF SlotOK, InFifo
    <3>2. QED
      BY <2>13, <3>1 DEF InFifo, Live
  <2>16. r.tombed => Live(r) = {}
    BY <2>14 DEF Thinned, SlotOK
  <2>17. o => InOrderPart(r)
    <3> SUFFICES ASSUME o PROVE InOrderPart(r)
      OBVIOUS
    <3>1. Sorted(st.fifo) /\ \A x \in Range(st.fifo) : x <= st.max
      BY DEF SlotOK, InOrderPart
    <3>2. Sorted(q) /\ \A x \in Range(q) : x <= st.max
      BY <2>5, <3>1
    <3>3. QED
      BY <2>10, <2>13, <3>2 DEF InOrderPart, Live
  <2>18. QED
    BY <2>12, <2>14, <2>15, <2>16, <2>17 DEF SlotOK
<1>3. QED
  BY <1>1, <1>2

\* Record: the new number enters both the set and the fifo, and eviction takes from both
\* what falls out of the front.
Joined(st, s, t, r) ==
  /\ r.name = st.name /\ r.tombed = st.tombed
  /\ Live(r) \subseteq Live(st) \cup {s}
  /\ \A x \in Live(r) : r.set[x] = IF x = s THEN t ELSE st.set[x]

LEMMA CheckRecordOK ==
  ASSUME NEW m \in Nat, NEW S, S = 1..m, NEW T, NEW st \in SlotSet(S, m, T), NEW o, SlotOK(st, o),
         ~st.tombed, NEW s \in S, s \notin Live(st), o => s > st.max, NEW t \in T,
         NEW cap \in Nat \ {0}, NEW r, r = CheckRecord(st, s, t, cap)
  PROVE  r \in SlotSet(S, m, T) /\ SlotOK(r, o) /\ Joined(st, s, t, r)
<1>1. /\ st.set \in Maps(S, T) /\ Live(st) \subseteq S
      /\ st.fifo \in Seq(S) /\ Len(st.fifo) \in Nat /\ DOMAIN st.fifo = 1..Len(st.fifo)
      /\ \A j \in 1..Len(st.fifo) : st.fifo[j] \in S
      /\ st.max \in 0..m
  BY SlotFields
<1>2. PICK l \in Nat : l = Len(st.fifo)
  BY <1>1
<1>3. PICK q : q = Append(st.fifo, s)
  OBVIOUS
<1>4. /\ q \in Seq(S) /\ Len(q) = l + 1 /\ DOMAIN q = 1..(l + 1)
      /\ \A j \in 1..l : q[j] = st.fifo[j]
      /\ q[l + 1] = s
  <2>1. q \in Seq(S) /\ Len(q) = l + 1
    BY <1>1, <1>2, <1>3, AppendProperties
  <2>2. DOMAIN q = 1..(l + 1)
    BY <2>1, LenProperties
  <2>3. (\A j \in 1..l : q[j] = st.fifo[j]) /\ q[l + 1] = s
    BY <1>1, <1>2, <1>3, AppendProperties
  <2>4. QED
    BY <2>1, <2>2, <2>3
<1>5. PICK n : n = IF l + 1 > cap THEN (l + 1) - cap ELSE 0
  OBVIOUS
<1>6. n \in 0..l
  BY <1>2, <1>5
<1>7. PICK q2 : q2 = SubSeq(q, n + 1, l + 1)
  OBVIOUS
<1>8. /\ q2 \in Seq(S) /\ Len(q2) = (l + 1) - n
      /\ \A i \in 1..((l + 1) - n) : q2[i] = q[n + i]
  <2>1. \A i \in (n + 1)..(l + 1) : q[i] \in S
    <3>1. \A i \in 1..(l + 1) : q[i] \in S
      BY <1>4, ElementOfSeq
    <3>2. QED
      BY <1>2, <1>6, <3>1
  <2>2. n + 1 \in Int /\ l + 1 \in Int /\ n + 1 <= l + 1
    BY <1>2, <1>6
  <2>3. /\ q2 \in Seq(S) /\ Len(q2) = (l + 1) - (n + 1) + 1
        /\ \A i \in 1..((l + 1) - (n + 1) + 1) : q2[i] = q[(n + 1) + i - 1]
    BY <1>7, <2>1, <2>2, SubSeqProperties
  <2>4. QED
    BY <1>2, <1>6, <2>3
<1>9. PICK len \in Nat \ {0} : len = (l + 1) - n
  <2>1. (l + 1) - n \in Nat \ {0}
    BY <1>2, <1>6
  <2>2. QED
    BY <2>1
<1>10. q2 # <<>> /\ Head(q2) = q2[1] /\ q2[1] \in S /\ DOMAIN q2 = 1..len /\ Len(q2) = len
  <2>1. Len(q2) = len /\ DOMAIN q2 = 1..len
    BY <1>8, <1>9, LenProperties
  <2>2. 1 \in 1..len
    BY <1>9
  <2>3. q2[1] \in S
    BY <1>8, <2>1, <2>2, ElementOfSeq
  <2>4. q2 # <<>> /\ Head(q2) = q2[1]
    BY <1>8, <1>9, <2>1
  <2>5. QED
    BY <2>1, <2>3, <2>4
<1>11. PICK out : out = {q[i] : i \in 1..n}
  OBVIOUS
<1>12. PICK f : f = With(st.set, s, t)
  OBVIOUS
<1>13. PICK g : g = Without(f, out)
  OBVIOUS
<1>14. f \in Maps(S, T) /\ More(st.set, s, t, f)
  BY <1>1, <1>12, WithMap
<1>15. g \in Maps(S, T) /\ Less(f, out, g)
  BY <1>13, <1>14, WithoutMap
<1>16. /\ DOMAIN g = (Live(st) \cup {s}) \ out
       /\ \A x \in DOMAIN g : g[x] = IF x = s THEN t ELSE st.set[x]
  BY <1>14, <1>15 DEF More, Less, Live
<1>17. PICK w : w = IF s > st.max THEN s ELSE st.max
  OBVIOUS
<1>18. r = [st EXCEPT !.set = g, !.fifo = q2, !.min = q2[1], !.max = w]
  <2>1. PICK e : e = [st EXCEPT !.set = f, !.fifo = q]
    OBVIOUS
  <2>2. PICK h : h = Evict(e, cap)
    OBVIOUS
  <2>3. r = RefreshBounds(h, s)
    BY <1>3, <1>12, <2>1, <2>2 DEF CheckRecord
  <2>4. e.set = f /\ e.fifo = q /\ e.max = st.max
    BY <2>1 DEF SlotSet
  <2>5. h = [e EXCEPT !.fifo = q2, !.set = g]
    <3>1. h = [e EXCEPT !.fifo = SubSeq(e.fifo, n + 1, Len(e.fifo)),
                        !.set = Without(e.set, {e.fifo[i] : i \in 1..n})]
      <4>1. n = IF Len(e.fifo) > cap THEN Len(e.fifo) - cap ELSE 0
        BY <1>4, <1>5, <2>4
      <4>2. QED
        BY <2>2, <4>1, <2>1 DEF Evict, SlotSet
    <3>2. SubSeq(e.fifo, n + 1, Len(e.fifo)) = q2
      BY <1>4, <1>7, <2>4
    <3>3. Without(e.set, {e.fifo[i] : i \in 1..n}) = g
      BY <1>11, <1>13, <2>4
    <3>4. QED
      BY <3>1, <3>2, <3>3
  <2>6. h = [st EXCEPT !.set = g, !.fifo = q2]
    BY <2>1, <2>5 DEF SlotSet
  <2>7. h.fifo = q2 /\ h.max = st.max /\ h.min = st.min
    BY <2>6 DEF SlotSet
  <2>8. r = [h EXCEPT !.max = w, !.min = q2[1]]
    BY <1>10, <1>17, <2>3, <2>7 DEF RefreshBounds
  <2>9. QED
    BY <2>6, <2>8 DEF SlotSet
<1>19. r \in SlotSet(S, m, T)
  <2>1. w \in 0..m /\ q2[1] \in 0..m
    BY <1>1, <1>10, <1>17
  <2>2. QED
    BY <1>8, <1>15, <1>18, <2>1 DEF SlotSet
<1>20. /\ r.set = g /\ r.fifo = q2 /\ r.min = q2[1] /\ r.max = w
       /\ r.name = st.name /\ r.tombed = st.tombed
  BY <1>18 DEF SlotSet
<1>21. Joined(st, s, t, r)
  BY <1>16, <1>20 DEF Joined, Live
<1>22. InFifo(r)
  <2>1. ASSUME NEW x \in DOMAIN g PROVE x \in Range(q2)
    <3>1. PICK j \in 1..(l + 1) : q[j] = x
      <4>1. CASE x = s
        <5>1. l + 1 \in 1..(l + 1)
          BY <1>2
        <5>2. QED
          BY <1>4, <4>1, <5>1
      <4>2. CASE x \in Live(st)
        <5>1. PICK j \in 1..l : st.fifo[j] = x
          BY <1>1, <1>2, <4>2 DEF SlotOK, InFifo, Range
        <5>2. j \in 1..(l + 1)
          BY <1>2
        <5>3. QED
          BY <1>4, <5>1, <5>2
      <4>3. QED
        BY <1>16, <2>1, <4>1, <4>2
    <3>2. j \notin 1..n
      BY <1>11, <1>16, <2>1, <3>1
    <3>3. j - n \in 1..len /\ j - n \in 1..((l + 1) - n) /\ n + (j - n) = j
      BY <1>2, <1>6, <1>9, <3>1, <3>2
    <3>4. q2[j - n] = x
      BY <1>8, <3>1, <3>3
    <3>5. QED
      BY <1>10, <3>3, <3>4 DEF Range
  <2>2. QED
    BY <1>20, <2>1 DEF InFifo, Live
<1>23. ASSUME o PROVE InOrderPart(r)
  <2>1. /\ \A j, k \in 1..l : j < k => st.fifo[j] < st.fifo[k]
        /\ \A j \in 1..l : st.fifo[j] <= st.max
    BY <1>1, <1>2, <1>23 DEF SlotOK, InOrderPart, Sorted, Range
  <2>2. s > st.max /\ w = s /\ s \in Nat /\ st.max \in Nat
    BY <1>1, <1>17, <1>23
  <2>3. \A j \in 1..l : q[j] \in Nat /\ q[j] < s
    <3>1. \A j \in 1..l : st.fifo[j] \in Nat /\ q[j] = st.fifo[j] /\ st.fifo[j] <= st.max
      <4>1. \A x \in S : x \in Nat
        OBVIOUS
      <4>2. QED
        BY <1>1, <1>2, <1>4, <2>1, <4>1
    <3>2. \A x \in Nat : x <= st.max => x < s
      BY <2>2
    <3>3. QED
      BY <3>1, <3>2
  <2>4. ASSUME NEW j \in 1..(l + 1), NEW k \in 1..(l + 1), j < k PROVE q[j] < q[k]
    <3>1. j \in 1..l
      BY <1>2, <2>4
    <3>2. CASE k \in 1..l
      BY <1>4, <2>1, <2>4, <3>1, <3>2
    <3>3. CASE k = l + 1
      BY <1>4, <2>3, <3>1, <3>3
    <3>4. QED
      BY <1>2, <3>2, <3>3
  <2>5. \A j \in 1..(l + 1) : q[j] <= s /\ q[j] \in Nat
    <3>1. \A j \in 1..(l + 1) : j \in 1..l \/ j = l + 1
      BY <1>2
    <3>2. \A j \in 1..l : q[j] <= s
      BY <2>2, <2>3
    <3>3. q[l + 1] <= s /\ q[l + 1] \in Nat
      BY <1>4, <2>2
    <3>4. QED
      BY <2>3, <3>1, <3>2, <3>3
  <2>6. \A i \in 1..len : n + i \in 1..(l + 1) /\ q2[i] = q[n + i]
    BY <1>2, <1>6, <1>8, <1>9
  <2>7. \A i \in 1..len : q2[i] <= s /\ q2[i] \in Nat
    BY <2>5, <2>6
  <2>8. ASSUME NEW j \in 1..len, NEW k \in 1..len, j < k PROVE q2[j] < q2[k]
    <3>1. n + j < n + k
      BY <1>6, <1>9, <2>8
    <3>2. QED
      BY <2>4, <2>6, <3>1
  <2>9. \A i \in 1..len : q2[1] <= q2[i]
    <3>1. ASSUME NEW i \in 1..len PROVE q2[1] <= q2[i]
      <4>1. 1 \in 1..len /\ (i = 1 \/ 1 < i) /\ q2[1] \in Nat /\ q2[i] \in Nat
        BY <1>9, <2>7
      <4>2. CASE i = 1
        BY <4>1, <4>2
      <4>3. CASE 1 < i
        BY <2>8, <4>1, <4>3
      <4>4. QED
        BY <4>1, <4>2, <4>3
    <3>2. QED
      BY <3>1
  <2>10. Sorted(q2) /\ \A x \in Range(q2) : x <= w /\ q2[1] <= x
    BY <1>10, <2>2, <2>7, <2>8, <2>9 DEF Sorted, Range
  <2>11. QED
    BY <1>20, <1>22, <2>10 DEF InOrderPart, InFifo
<1>24. QED
  BY <1>19, <1>20, <1>21, <1>22, <1>23 DEF SlotOK

\* A slot as a replay makes it.
LEMMA MaterializeOK ==
  ASSUME NEW m \in Nat, NEW S, S = 1..m, NEW T, NEW a \in AccSet(S, T), a.name # Unnamed, NEW o,
         NEW r, r = Materialize(a)
  PROVE  /\ r \in SlotSet(S, m, T) /\ SlotOK(r, o)
         /\ r.name = a.name /\ r.set = a.live /\ ~r.tombed
<1>1. a.live \in Maps(S, T) /\ a.name \in Names \cup {NoName}
  BY DEF AccSet
<1>2. PICK D : D = DOMAIN a.live
  OBVIOUS
<1>3. D \subseteq S /\ D \in SUBSET (0..m)
  <2>1. D \subseteq S
    BY <1>1, <1>2, MapsDef
  <2>2. QED
    BY <2>1
<1>4. PICK q : q = Ascending(D)
  OBVIOUS
<1>5. /\ Len(q) \in Nat /\ DOMAIN q = 1..Len(q) /\ q \in Seq(D)
      /\ \A k \in 1..Len(q) : q[k] \in D
      /\ \A x \in D : Rank(D, x) \in 1..Len(q) /\ q[Rank(D, x)] = x
      /\ \A j, k \in 1..Len(q) : j < k => q[j] < q[k]
  BY <1>3, <1>4, Listed
<1>6. PICK n \in Nat : n = Len(q)
  <2>1. Len(q) \in Nat
    BY <1>5
  <2>2. QED
    BY <2>1, Zenon
<1>7. q \in Seq(S) /\ Range(q) = D
  <2>1. q \in [1..n -> S]
    BY <1>3, <1>5, <1>6, LenProperties
  <2>2. q \in Seq(S)
    BY <1>6, <2>1
  <2>3. QED
    BY <1>5, <2>2 DEF Range
<1>8. PICK lo, hi : /\ lo = (IF q = <<>> THEN 0 ELSE Head(q))
                    /\ hi = (IF q = <<>> THEN 0 ELSE q[Len(q)])
  OBVIOUS
<1>9. r = [name |-> a.name, set |-> a.live, fifo |-> q, tombed |-> FALSE, min |-> lo, max |-> hi]
  BY <1>2, <1>4, <1>8 DEF Materialize
<1>10. lo \in 0..m /\ hi \in 0..m /\ \A x \in D : lo <= x /\ x <= hi
  <2>1. CASE q = <<>>
    <3>1. n = 0
      BY <1>6, <2>1
    <3>2. D = {}
      BY <1>5, <1>6, <3>1
    <3>3. QED
      BY <1>8, <2>1, <3>2
  <2>2. CASE q # <<>>
    <3>1. 1 \in 1..n /\ n \in 1..n /\ Head(q) = q[1]
      BY <1>6, <1>7, <2>2
    <3>2. lo = q[1] /\ hi = q[n]
      BY <1>6, <1>8, <2>2, <3>1
    <3>3. \A x \in D : x \in Nat
      BY <1>3
    <3>4. q[1] \in D /\ q[n] \in D /\ q[1] \in Nat /\ q[n] \in Nat
      BY <1>5, <1>6, <3>1, <3>3
    <3>5. ASSUME NEW k \in 1..n PROVE q[1] <= q[k] /\ q[k] <= q[n]
      <4>1. q[k] \in Nat /\ (k = 1 \/ 1 < k) /\ (k = n \/ k < n)
        <5>1. q[k] \in Nat
          BY <1>5, <1>6, <3>3
        <5>2. QED
          BY <5>1
      <4>2. 1 < k => q[1] < q[k]
        BY <1>5, <1>6, <3>1
      <4>3. k < n => q[k] < q[n]
        BY <1>5, <1>6, <3>1
      <4>4. QED
        BY <3>4, <4>1, <4>2, <4>3
    <3>6. QED
      BY <1>3, <1>5, <1>6, <3>2, <3>4, <3>5
  <2>3. QED
    BY <2>1, <2>2
<1>11. r \in SlotSet(S, m, T)
  BY <1>1, <1>7, <1>9, <1>10 DEF SlotSet
<1>12. /\ r.set = a.live /\ r.fifo = q /\ r.min = lo /\ r.max = hi
       /\ r.name = a.name /\ ~r.tombed
  BY <1>9
<1>13. Sorted(q)
  BY <1>5 DEF Sorted
<1>14. SlotOK(r, o)
  BY <1>2, <1>7, <1>10, <1>12, <1>13 DEF SlotOK, InFifo, InOrderPart, Live
<1>15. QED
  BY <1>11, <1>12, <1>14

-----------------------------------------------------------------------------
(* Compaction.                                                             *)

\* The records come in pairs.
LEMMA Halves ==
  ASSUME NEW k \in Nat \ {0}
  PROVE  \/ k % 2 = 1 /\ \E j \in Nat \ {0} : k = 2 * j - 1 /\ (k + 1) \div 2 = j
         \/ k % 2 # 1 /\ \E j \in Nat \ {0} : k = 2 * j /\ k \div 2 = j
<1>1. PICK j \in Nat : k = 2 * j \/ k = 2 * j + 1
  <2>1. k \div 2 \in Nat /\ (k = 2 * (k \div 2) \/ k = 2 * (k \div 2) + 1)
    OBVIOUS
  <2>2. QED
    BY <2>1
<1>2. CASE k = 2 * j
  <2>1. j \in Nat \ {0} /\ k % 2 = 0 /\ k \div 2 = j
    BY <1>2
  <2>2. QED
    BY <1>2, <2>1
<1>3. CASE k = 2 * j + 1
  <2>1. j + 1 \in Nat \ {0} /\ k % 2 = 1 /\ (k + 1) \div 2 = j + 1 /\ k = 2 * (j + 1) - 1
    BY <1>3
  <2>2. QED
    BY <2>1
<1>4. QED
  BY <1>1, <1>2, <1>3

\* The compacted log holds the live numbers of every id, at the time it was written.
Renewed(a, t, b) == DOMAIN b.live = DOMAIN a.live /\ \A s \in DOMAIN b.live : b.live[s] = t

\* A compacted log is well formed, and a scan of it finds each id with a live number as it
\* was, with the times renewed.
LEMMA CompactedOK ==
  ASSUME NEW n \in Nat, NEW I \in SUBSET (0..n), NEW S, NEW T, NEW scan, DOMAIN scan \subseteq I,
         \A i \in DOMAIN scan : scan[i] \in AccSet(S, T), NEW t \in T, NEW c, ~TooOld(t, c),
         NEW p, p = Compacted(scan, t)
  PROVE  /\ p \in Seq(RecSet(I, S, T))
         /\ \A x \in DOMAIN scan : DOMAIN scan[x].live # {} =>
              x \in IdsOf(p) /\ Renewed(scan[x], t, Accumulated(p, x, c)[Len(p)])
<1>1. PICK K : K = {i \in DOMAIN scan : scan[i].live # <<>>}
  OBVIOUS
<1>2. K \in SUBSET (0..n) /\ K \subseteq DOMAIN scan /\ K \subseteq I
  BY <1>1
<1>3. PICK ids : ids = Ascending(K)
  OBVIOUS
<1>4. /\ Len(ids) \in Nat /\ DOMAIN ids = 1..Len(ids)
      /\ \A k \in 1..Len(ids) : ids[k] \in K
      /\ \A x \in K : Rank(K, x) \in 1..Len(ids) /\ ids[Rank(K, x)] = x
      /\ \A j, k \in 1..Len(ids) : ids[j] = ids[k] => j = k
  <2>1. ids = Ascending(K) /\ K \in SUBSET (0..n)
    BY <1>2, <1>3
  <2>2. Lists(ids, K)
    BY ONLY <2>1, AscendingLists, n \in Nat
  <2>3. QED
    BY <2>2 DEF Lists
<1>5. PICK l \in Nat : l = Len(ids)
  <2>1. Len(ids) \in Nat
    BY <1>4
  <2>2. QED
    BY <2>1, Zenon
<1> DEFINE Regd(i) == RegisterRec(i, IF scan[i].name = Unnamed THEN NoName ELSE scan[i].name)
           Snap(i) == SnapshotRec(i, DOMAIN scan[i].live, t)
<1>6. p = [k \in 1..(2 * l) |-> IF k % 2 = 1 THEN Regd(ids[(k + 1) \div 2]) ELSE Snap(ids[k \div 2])]
  BY <1>1, <1>3, <1>5 DEF Compacted
<1>7. ASSUME NEW i \in K
      PROVE  /\ Regd(i) \in RecSet(I, S, T) /\ Regd(i).id = i
             /\ Snap(i) \in RecSet(I, S, T) /\ Snap(i).id = i
             /\ Snap(i).op = "snapshot" /\ Snap(i).seqs = DOMAIN scan[i].live /\ Snap(i).ts = t
  <2>1. scan[i].name \in Names \cup {NoName, Unnamed} /\ scan[i].live \in Maps(S, T) /\ i \in I
    BY <1>2 DEF AccSet
  <2>2. DOMAIN scan[i].live \subseteq S
    BY <2>1, MapsDef
  <2>3. Regd(i) \in RecSet(I, S, T) /\ Regd(i).id = i
    BY <2>1 DEF RegisterRec, RecSet
  <2>4. Snap(i) \in RecSet(I, S, T)
    BY <2>1, <2>2 DEF SnapshotRec, RecSet
  <2>5. QED
    BY <2>3, <2>4 DEF SnapshotRec
<1> HIDE DEF Regd, Snap
<1>8. \A j \in 1..l : 2 * j \in 1..(2 * l) /\ p[2 * j] = Snap(ids[j])
  <2>1. ASSUME NEW j \in 1..l PROVE 2 * j \in 1..(2 * l) /\ (2 * j) % 2 # 1 /\ (2 * j) \div 2 = j
    OBVIOUS
  <2>2. QED
    BY <1>6, <2>1
<1>9. ASSUME NEW k \in 1..(2 * l)
      PROVE  \E j \in 1..l : /\ k = 2 * j - 1 \/ k = 2 * j
                             /\ p[k] = Regd(ids[j]) \/ p[k] = Snap(ids[j])
  <2>1. CASE k % 2 = 1
    <3>1. PICK j \in Nat \ {0} : k = 2 * j - 1 /\ (k + 1) \div 2 = j
      BY <2>1, Halves
    <3>2. j \in 1..l
      BY <3>1
    <3>3. p[k] = Regd(ids[j])
      BY <1>6, <2>1, <3>1
    <3>4. QED
      BY <3>1, <3>2, <3>3
  <2>2. CASE k % 2 # 1
    <3>1. PICK j \in Nat \ {0} : k = 2 * j /\ k \div 2 = j
      BY <2>2, Halves
    <3>2. j \in 1..l
      BY <3>1
    <3>3. p[k] = Snap(ids[j])
      BY <1>6, <2>2, <3>1
    <3>4. QED
      BY <3>1, <3>2, <3>3
  <2>3. QED
    BY <2>1, <2>2
<1>10. \A k \in 1..(2 * l) : p[k] \in RecSet(I, S, T)
  BY <1>4, <1>5, <1>7, <1>9
<1>11. p \in Seq(RecSet(I, S, T)) /\ Len(p) = 2 * l
  <2>1. p \in [1..(2 * l) -> RecSet(I, S, T)]
    BY <1>6, <1>10
  <2>2. 2 * l \in Nat
    OBVIOUS
  <2>3. QED
    BY <2>1, <2>2
<1>12. ASSUME NEW x \in DOMAIN scan, DOMAIN scan[x].live # {}
       PROVE  x \in IdsOf(p) /\ Renewed(scan[x], t, Accumulated(p, x, c)[Len(p)])
  <2>1. x \in K
    <3>1. DOMAIN <<>> = {}
      OBVIOUS
    <3>2. scan[x].live # <<>>
      BY <1>12, <3>1
    <3>3. QED
      BY <1>1, <3>2
  <2>2. PICK j \in 1..l : ids[j] = x
    BY <1>4, <1>5, <2>1
  <2>3. 2 * j \in 1..(2 * l) /\ p[2 * j] = Snap(x)
    BY <1>8, <2>2
  <2>4. x \in IdsOf(p)
    BY <1>7, <1>11, <2>1, <2>3 DEF IdsOf
  <2>5. PICK a : a = Accumulated(p, x, c)
    OBVIOUS
  <2>6. \A k \in 1..(2 * l) : a[k] = IF p[k].id = x THEN Apply(a[k - 1], p[k], c) ELSE a[k - 1]
    BY <1>11, <2>5, Unfold
  <2>7. \A k \in 0..(2 * l) : a[k] \in AccSet(S, T)
    BY <1>11, <2>5, Accumulates
  <2>8. Renewed(scan[x], t, a[2 * j])
    <3>1. a[2 * j] = Apply(a[2 * j - 1], Snap(x), c) /\ a[2 * j - 1] \in AccSet(S, T)
      BY <1>7, <2>1, <2>3, <2>6, <2>7
    <3>2. Becomes(a[2 * j - 1], Snap(x), c, a[2 * j])
      <4>1. PICK u, v, r : u = a[2 * j - 1] /\ v = a[2 * j] /\ r = Snap(x)
        OBVIOUS
      <4>2. r \in RecSet(I, S, T)
        BY <1>7, <2>1, <4>1
      <4>3. Becomes(u, r, c, v)
        BY <3>1, <4>1, <4>2, Applied
      <4>4. QED
        BY <4>1, <4>3
    <3>3. QED
      BY <1>7, <2>1, <3>2 DEF Becomes, Renewed
  <2> DEFINE G == {k \in (2 * j)..(2 * l) : Renewed(scan[x], t, a[k])}
  <2>9. 2 * j \in G
    BY <2>3, <2>8
  <2>10. ASSUME NEW k \in (2 * j)..(2 * l - 1), k \in G PROVE k + 1 \in G
    <3>1. k + 1 \in 1..(2 * l) /\ (k + 1) - 1 = k /\ k + 1 \in (2 * j)..(2 * l)
      OBVIOUS
    <3>2. PICK i \in 1..l : /\ k + 1 = 2 * i - 1 \/ k + 1 = 2 * i
                            /\ p[k + 1] = Regd(ids[i]) \/ p[k + 1] = Snap(ids[i])
      BY <1>9, <3>1
    <3>3. i # j
      BY <3>2
    <3>4. ids[i] # x /\ ids[i] \in K
      BY <1>4, <1>5, <2>2, <3>3
    <3>5. p[k + 1].id = ids[i]
      BY <1>7, <3>2, <3>4
    <3>6. a[k + 1] = a[k]
      BY <2>6, <3>1, <3>4, <3>5
    <3>7. QED
      BY <2>10, <3>1, <3>6
  <2> HIDE DEF G
  <2>11. \A k \in (2 * j)..(2 * l) : k \in G
    <3>1. PICK u, v : u = 2 * j /\ v = 2 * l
      OBVIOUS
    <3>2. u \in Nat /\ v \in Nat /\ u <= v
      BY <3>1
    <3>3. u \in G /\ \A k \in u..(v - 1) : k \in G => k + 1 \in G
      BY <2>9, <2>10, <3>1
    <3>4. \A k \in u..v : k \in G
      BY <3>2, <3>3, StepUp
    <3>5. QED
      BY <3>1, <3>4
  <2>12. 2 * l \in G
    BY <2>11
  <2>13. QED
    BY <1>11, <2>4, <2>5, <2>12 DEF G
<1>13. QED
  BY <1>11, <1>12

-----------------------------------------------------------------------------
(* A log that grows.                                                       *)

\* What was accumulated stays, and every new record of the id does its part.
Grown(n, a, w, i, c, b) ==
  /\ \A k \in 0..n : b[k] = a[k]
  /\ \A j \in 1..Len(w) :
       IF w[j].id = i THEN Becomes(b[n + j - 1], w[j], c, b[n + j])
       ELSE b[n + j] = b[n + j - 1]

Follows(a, q, n, i, c) ==
  \A k \in 1..n : a[k] = IF q[k].id = i THEN Apply(a[k - 1], q[k], c) ELSE a[k - 1]

LEMMA Followed ==
  ASSUME NEW q, NEW n \in Nat, Len(q) = n, NEW i, NEW c, NEW a, a = Accumulated(q, i, c)
  PROVE  Follows(a, q, n, i, c)
BY Unfold DEF Follows

\* Appending records lets the accumulators of the longer log continue those of the shorter.
LEMMA Grows ==
  ASSUME NEW I, NEW S, NEW T, NEW R, R = RecSet(I, S, T), NEW q, NEW n \in Nat, Len(q) = n,
         NEW w, NEW l \in Nat, Len(w) = l, NEW p \in Seq(R), Len(p) = n + l,
         \A k \in 1..n : p[k] = q[k],
         \A j \in 1..l : n + j \in 1..(n + l) /\ p[n + j] = w[j] /\ w[j] \in R,
         NEW i, NEW c, NEW a, a = Accumulated(q, i, c), NEW b, b = Accumulated(p, i, c)
  PROVE  Grown(n, a, w, i, c, b)
<1>1. \A k \in 1..(n + l) : b[k] = IF p[k].id = i THEN Apply(b[k - 1], p[k], c) ELSE b[k - 1]
  <2>1. PICK m \in Nat : m = n + l
    OBVIOUS
  <2>2. Len(p) = m
    BY <2>1
  <2>3. Follows(b, p, m, i, c)
    BY <2>2, Followed
  <2>4. QED
    BY <2>1, <2>3 DEF Follows
<1>2. \A k \in 0..n : b[k] = a[k]
  <2>1. Alike(p, q, n)
    BY DEF Alike
  <2>2. \A k \in 0..n : Accumulated(p, i, c)[k] = Accumulated(q, i, c)[k]
    BY <2>1, Prefix
  <2>3. QED
    BY <2>2
<1>3. \A k \in 0..(n + l) : b[k] \in AccSet(S, T)
  BY Accumulates
<1>4. ASSUME NEW j \in 1..l
      PROVE  IF w[j].id = i THEN Becomes(b[n + j - 1], w[j], c, b[n + j])
             ELSE b[n + j] = b[n + j - 1]
  <2>1. PICK k : k = n + j
    OBVIOUS
  <2>2. k \in 1..(n + l) /\ k - 1 \in 0..(n + l) /\ p[k] = w[j] /\ w[j] \in R
    <3>1. k \in 1..(n + l) /\ p[k] = w[j] /\ w[j] \in R
      BY <2>1
    <3>2. QED
      BY <3>1
  <2>3. b[k] = IF w[j].id = i THEN Apply(b[k - 1], w[j], c) ELSE b[k - 1]
    BY <1>1, <2>2
  <2>4. w[j].id = i => Becomes(b[k - 1], w[j], c, b[k])
    <3>1. PICK u, v, r : u = b[k - 1] /\ v = b[k] /\ r = w[j]
      OBVIOUS
    <3>2. u \in AccSet(S, T) /\ r \in RecSet(I, S, T)
      BY <1>3, <2>2, <3>1
    <3>3. r.id = i => v = Apply(u, r, c)
      BY <2>3, <3>1
    <3>4. r.id = i => Becomes(u, r, c, v)
      BY <3>2, <3>3, Applied
    <3>5. QED
      BY <3>1, <3>4
  <2>5. QED
    BY <2>1, <2>3, <2>4
<1>5. QED
  BY <1>2, <1>4 DEF Grown

Extends(p, q, w) == p = q \o w

LEMMA Appended ==
  ASSUME NEW I, NEW S, NEW T, NEW q \in Seq(RecSet(I, S, T)), NEW w \in Seq(RecSet(I, S, T)),
         NEW p, Extends(p, q, w)
  PROVE  /\ p \in Seq(RecSet(I, S, T)) /\ Len(p) = Len(q) + Len(w)
         /\ \A k \in 1..Len(q) : p[k] = q[k]
         /\ \A j \in 1..Len(w) : p[Len(q) + j] = w[j] /\ w[j] \in RecSet(I, S, T)
         /\ \A i, c : Grown(Len(q), Accumulated(q, i, c), w, i, c, Accumulated(p, i, c))
<1>1. PICK R : R = RecSet(I, S, T)
  OBVIOUS
<1>2. PICK n, l \in Nat : n = Len(q) /\ l = Len(w)
  BY LenProperties
<1>3. q \in Seq(R) /\ w \in Seq(R)
  BY <1>1
<1>4. p \in Seq(R) /\ Len(p) = n + l /\ n \in Nat /\ l \in Nat
      /\ \A k \in 1..(n + l) : p[k] = IF k <= n THEN q[k] ELSE w[k - n]
  BY <1>2, <1>3, ConcatProperties DEF Extends
<1>5. \A k \in 1..n : p[k] = q[k]
  <2>1. ASSUME NEW k \in 1..n PROVE k \in 1..(n + l) /\ k <= n
    BY <1>4
  <2>2. QED
    BY <1>4, <2>1
<1>6. \A j \in 1..l : n + j \in 1..(n + l) /\ p[n + j] = w[j] /\ w[j] \in R
  <2>1. ASSUME NEW j \in 1..l
        PROVE  n + j \in 1..(n + l) /\ ~ (n + j <= n) /\ (n + j) - n = j
    BY <1>4
  <2>2. \A j \in 1..l : w[j] \in R
    BY <1>2, <1>3, ElementOfSeq
  <2>3. QED
    BY <1>4, <2>1, <2>2
<1>7. \A i, c : Grown(n, Accumulated(q, i, c), w, i, c, Accumulated(p, i, c))
  BY <1>1, <1>2, <1>4, <1>5, <1>6, Grows
<1>8. QED
  BY <1>1, <1>2, <1>4, <1>5, <1>6, <1>7

-----------------------------------------------------------------------------
(* What the log holds of one number.                                       *)

\* An accumulator has the number s, recorded at t or later.
Has(a, s, t) == s \in DOMAIN a.live /\ a.live[s] >= t

\* A record that leaves it there.
Spares(r, s, t, c) ==
  \/ r.op = "register"
  \/ r.op \in {"confirm", "upto"} /\ ~Hits(r, s)
  \/ r.op = "record" /\ (r.seq = s => r.ts >= t)
  \/ r.op = "snapshot" /\ s \in r.seqs /\ ~TooOld(r.ts, c) /\ r.ts >= t

LEMMA Spared ==
  ASSUME NEW a, NEW r, NEW c, NEW b, Becomes(a, r, c, b), NEW s, NEW t, Has(a, s, t),
         Spares(r, s, t, c)
  PROVE  Has(b, s, t)
<1>1. CASE r.op = "register"
  BY <1>1 DEF Becomes, Has
<1>2. CASE r.op \in {"confirm", "upto"} /\ ~Hits(r, s)
  BY <1>2 DEF Becomes, Has
<1>3. CASE r.op = "record" /\ (r.seq = s => r.ts >= t)
  <2>1. CASE TooOld(r.ts, c)
    BY <1>3, <2>1 DEF Becomes, Has
  <2>2. CASE ~TooOld(r.ts, c)
    BY <1>3, <2>2 DEF Becomes, Has
  <2>3. QED
    BY <2>1, <2>2
<1>4. CASE r.op = "snapshot" /\ s \in r.seqs /\ ~TooOld(r.ts, c) /\ r.ts >= t
  BY <1>4 DEF Becomes, Has
<1>5. QED
  BY <1>1, <1>2, <1>3, <1>4 DEF Spares

AllSpare(w, i, s, t, c) == \A j \in 1..Len(w) : w[j].id = i => Spares(w[j], s, t, c)

\* Records that spare a number leave it in the accumulator.
LEMMA HeldOn ==
  ASSUME NEW n \in Nat, NEW a, NEW w, Len(w) \in Nat, NEW i, NEW c, NEW b, Grown(n, a, w, i, c, b),
         NEW s, NEW t, Has(a[n], s, t), AllSpare(w, i, s, t, c)
  PROVE  \A j \in 0..Len(w) : Has(b[n + j], s, t)
<1>1. PICK l \in Nat : l = Len(w)
  OBVIOUS
<1> DEFINE G == {j \in 0..l : Has(b[n + j], s, t)}
<1>2. 0 \in G
  <2>1. n + 0 = n /\ n \in 0..n
    OBVIOUS
  <2>2. b[n + 0] = a[n]
    BY <2>1 DEF Grown
  <2>3. QED
    BY <2>2
<1>3. ASSUME NEW k \in 0..(l - 1), k \in G PROVE k + 1 \in G
  <2>1. PICK j : j = k + 1
    OBVIOUS
  <2>2. j \in 1..l /\ j \in 0..l /\ n + j - 1 = n + k
    BY <2>1
  <2>3. Has(b[n + j - 1], s, t)
    BY <1>3, <2>2
  <2>4. CASE w[j].id = i
    <3>1. Becomes(b[n + j - 1], w[j], c, b[n + j]) /\ Spares(w[j], s, t, c)
      BY <1>1, <2>2, <2>4 DEF Grown, AllSpare
    <3>2. PICK u, v, r : u = b[n + j - 1] /\ v = b[n + j] /\ r = w[j]
      OBVIOUS
    <3>3. Has(v, s, t)
      BY <2>3, <3>1, <3>2, Spared
    <3>4. QED
      BY <2>1, <2>2, <3>2, <3>3
  <2>5. CASE w[j].id # i
    <3>1. b[n + j] = b[n + j - 1]
      BY <1>1, <2>2, <2>5 DEF Grown
    <3>2. QED
      BY <2>1, <2>2, <2>3, <3>1
  <2>6. QED
    BY <2>4, <2>5
<1> HIDE DEF G
<1>4. \A k \in 0..l : k \in G
  BY <1>2, <1>3, FromZero
<1>5. QED
  BY <1>1, <1>4 DEF G

-----------------------------------------------------------------------------
(* The store: what its steps keep.                                         *)

Times == 0..now
Recs  == RecSet(Ids, Seqs, Times)

\* The accumulators of the log as it stands.
Scans == [i \in Ids |-> Accumulated(log, i, Cutoff)]

ClockOK == setup \in Setups /\ now \in Nat \ {0} /\ crashes \in Nat
TablesOK ==
  /\ Loaded \subseteq Ids
  /\ byName \in [Names -> Ids \cup {None}]
  /\ nextID \in 0..MaxSlots /\ \A i \in Loaded : i < nextID
  /\ unregistered \subseteq Loaded
  /\ \A n \in Names : byName[n] # None =>
       byName[n] \in Loaded /\ slots[byName[n]].name = n /\ ~slots[byName[n]].tombed
SlotsOK ==
  \A i \in Loaded : slots[i] \in SlotSet(Seqs, MaxSeq, Times) /\ SlotOK(slots[i], InOrder)
LogOK == log \in Seq(Recs) /\ flushed \in 0..Len(log)
HistoryOK ==
  recorded \in [Names -> SUBSET Seqs] /\ synced \in [Names -> Maps(Seqs, Times)]

\* What a slot holds, the log holds too, with that time or a later one.
Holds(i, s, t) == TooOld(t, Cutoff) \/ Has(Scans[i][Len(log)], s, t)
Covers == \A i \in Loaded : \A s \in Live(slots[i]) : Holds(i, s, slots[i].set[s])

Store == ClockOK /\ TablesOK /\ SlotsOK /\ LogOK /\ HistoryOK /\ Covers

LEMMA Constants ==
  ASSUME ClockOK
  PROVE  /\ MaxCap \in Nat \ {0} /\ Ttl \in Nat /\ MaxSeq \in Nat /\ MaxSlots \in Nat
         /\ MaxCrashes \in Nat /\ InOrder \in BOOLEAN
         /\ Ids \in SUBSET (0..MaxSlots) /\ None \notin Ids /\ Seqs = 1..MaxSeq
         /\ Cutoff \in Int /\ Cutoff <= now /\ ~TooOld(now, Cutoff)
         /\ now \in Times /\ Times \in SUBSET Int /\ Unnamed \notin Names /\ NoName \notin Names
<1>1. setup \in SetupType
  BY WALAssumption DEF ClockOK
<1>2. /\ MaxCap \in Nat \ {0} /\ Ttl \in Nat /\ MaxSeq \in Nat /\ MaxSlots \in Nat
      /\ MaxCrashes \in Nat /\ InOrder \in BOOLEAN
  BY <1>1 DEF SetupType, MaxCap, Ttl, MaxSeq, MaxSlots, MaxCrashes, InOrder
<1>3. Ids \in SUBSET (0..MaxSlots) /\ None \notin Ids /\ Seqs = 1..MaxSeq
  BY <1>2 DEF Ids, None, Seqs
<1>4. Cutoff \in Int /\ Cutoff <= now
  BY <1>2 DEF Cutoff, ClockOK
<1>5. ~ (now < Cutoff) /\ now \in Times /\ Times \in SUBSET Int
  BY <1>4 DEF ClockOK, Times
<1>6. QED
  BY <1>2, <1>3, <1>4, <1>5, WALAssumption DEF TooOld

LEMMA Fixed ==
  ASSUME setup' = setup
  PROVE  /\ MaxCap' = MaxCap /\ Ttl' = Ttl /\ MaxSeq' = MaxSeq /\ MaxSlots' = MaxSlots
         /\ InOrder' = InOrder /\ Ids' = Ids /\ None' = None /\ Seqs' = Seqs
         /\ MaxCrashes' = MaxCrashes /\ CompactAt' = CompactAt
         /\ ConcurrentSlot' = ConcurrentSlot
BY DEF MaxCap, Ttl, MaxSeq, MaxSlots, InOrder, Ids, None, Seqs, MaxCrashes, CompactAt,
       ConcurrentSlot

LEMMA Still ==
  ASSUME setup' = setup, now' = now
  PROVE  Times' = Times /\ Cutoff' = Cutoff /\ Recs' = Recs
<1>1. Times' = Times
  BY DEF Times
<1>2. Cutoff' = Cutoff
  BY Fixed DEF Cutoff
<1>3. QED
  BY <1>1, <1>2, Fixed DEF Recs

LEMMA ScansTyped ==
  ASSUME LogOK
  PROVE  /\ Len(log) \in Nat
         /\ \A i \in Ids : \A k \in 0..Len(log) : Scans[i][k] \in AccSet(Seqs, Times)
<1>1. log \in Seq(RecSet(Ids, Seqs, Times))
  BY DEF LogOK, Recs
<1>2. Len(log) \in Nat
  BY <1>1, LenProperties
<1>3. ASSUME NEW i \in Ids
      PROVE  \A k \in 0..Len(log) : Scans[i][k] \in AccSet(Seqs, Times)
  <2>1. Scans[i] = Accumulated(log, i, Cutoff)
    BY DEF Scans
  <2>2. PICK c : c = Cutoff
    OBVIOUS
  <2>3. \A k \in 0..Len(log) : Accumulated(log, i, c)[k] \in AccSet(Seqs, Times)
    BY <1>1, Accumulates
  <2>4. QED
    BY <2>1, <2>2, <2>3
<1>4. QED
  BY <1>2, <1>3

\* Nothing written.
LEMMA Unwritten ==
  ASSUME LogOK, setup' = setup, now' = now, log' = log, flushed' \in 0..Len(log)
  PROVE  /\ LogOK' /\ Scans' = Scans /\ Cutoff' = Cutoff
         /\ \A i, s, t : Holds(i, s, t) => TooOld(t, Cutoff') \/ Has(Scans'[i][Len(log')], s, t)
<1>1. LogOK'
  BY Still DEF LogOK
<1>2. Scans' = Scans
  BY Still, Fixed DEF Scans
<1>3. QED
  BY <1>1, <1>2, Still DEF Holds

\* Records written.
LEMMA Written ==
  ASSUME LogOK, setup' = setup, now' = now, NEW w \in Seq(Recs), log' = log \o w,
         flushed' = flushed
  PROVE  /\ LogOK' /\ Cutoff' = Cutoff /\ Len(log') = Len(log) + Len(w)
         /\ Len(log) \in Nat /\ Len(w) \in Nat
         /\ \A i \in Ids : Grown(Len(log), Scans[i], w, i, Cutoff, Scans'[i])
<1>1. PICK I, S, T, R, q, p, c :
        /\ I = Ids /\ S = Seqs /\ T = Times /\ R = Recs /\ q = log /\ p = log' /\ c = Cutoff
  OBVIOUS
<1>2. R = RecSet(I, S, T) /\ q \in Seq(R) /\ w \in Seq(R) /\ Extends(p, q, w)
  BY <1>1 DEF Recs, LogOK, Extends
<1>3. q \in Seq(RecSet(I, S, T)) /\ w \in Seq(RecSet(I, S, T))
  BY <1>2
<1>4. /\ p \in Seq(R) /\ Len(p) = Len(q) + Len(w) /\ Len(q) \in Nat /\ Len(w) \in Nat
      /\ \A i : Grown(Len(q), Accumulated(q, i, c), w, i, c, Accumulated(p, i, c))
  <2>1. /\ p \in Seq(RecSet(I, S, T)) /\ Len(p) = Len(q) + Len(w)
        /\ \A i : Grown(Len(q), Accumulated(q, i, c), w, i, c, Accumulated(p, i, c))
    BY <1>2, <1>3, Appended
  <2>2. Len(q) \in Nat /\ Len(w) \in Nat
    BY <1>3, LenProperties
  <2>3. QED
    BY <1>2, <2>1, <2>2
<1>5. LogOK'
  <2>1. flushed' \in 0..Len(log')
    BY <1>1, <1>4 DEF LogOK
  <2>2. QED
    BY <1>1, <1>4, <2>1, Still DEF LogOK
<1>6. ASSUME NEW i \in Ids PROVE Grown(Len(log), Scans[i], w, i, Cutoff, Scans'[i])
  <2>1. Scans[i] = Accumulated(q, i, c) /\ Scans'[i] = Accumulated(p, i, c)
    BY <1>1, Still, Fixed DEF Scans
  <2>2. QED
    BY <1>1, <1>4, <2>1
<1>7. QED
  BY <1>1, <1>4, <1>5, <1>6, Still

\* What no record touches.
LEMMA HeldStill ==
  ASSUME LogOK, setup' = setup, now' = now, NEW w \in Seq(Recs), log' = log \o w,
         flushed' = flushed, NEW i \in Ids, NEW s, NEW t, Holds(i, s, t),
         AllSpare(w, i, s, t, Cutoff)
  PROVE  TooOld(t, Cutoff') \/ Has(Scans'[i][Len(log')], s, t)
<1>1. /\ Cutoff' = Cutoff /\ Len(log') = Len(log) + Len(w) /\ Len(log) \in Nat
      /\ Len(w) \in Nat /\ Grown(Len(log), Scans[i], w, i, Cutoff, Scans'[i])
  BY Written
<1>2. CASE TooOld(t, Cutoff)
  BY <1>1, <1>2
<1>3. CASE ~TooOld(t, Cutoff)
  <2>1. PICK n, a, b, c : n = Len(log) /\ n \in Nat /\ a = Scans[i] /\ b = Scans'[i] /\ c = Cutoff
    BY <1>1
  <2>2. Has(a[n], s, t)
    BY <1>3, <2>1 DEF Holds
  <2>3. n \in Nat /\ Len(w) \in Nat /\ Grown(n, a, w, i, c, b) /\ AllSpare(w, i, s, t, c)
    BY <1>1, <2>1
  <2>4. \A j \in 0..Len(w) : Has(b[n + j], s, t)
    BY <2>2, <2>3, HeldOn
  <2>5. Len(w) \in 0..Len(w)
    BY <1>1
  <2>6. QED
    BY <1>1, <2>1, <2>4, <2>5
<1>4. QED
  BY <1>2, <1>3

\* Coverage after a step, spelled out.
LEMMA CoversNext ==
  ASSUME \A x \in DOMAIN slots' : \A s \in Live(slots'[x]) :
           TooOld(slots'[x].set[s], Cutoff') \/ Has(Scans'[x][Len(log')], s, slots'[x].set[s])
  PROVE  Covers'
BY DEF Covers, Holds, Loaded

\* A slot changes and keeps its name.
LEMMA OneSlot ==
  ASSUME TablesOK, SlotsOK, setup' = setup, now' = now,
         UNCHANGED <<byName, nextID, unregistered>>,
         NEW i \in Loaded, NEW r \in SlotSet(Seqs, MaxSeq, Times), SlotOK(r, InOrder),
         r.name = slots[i].name, r.tombed = slots[i].tombed, slots' = [slots EXCEPT ![i] = r]
  PROVE  /\ TablesOK' /\ SlotsOK'
         /\ DOMAIN slots' = Loaded /\ slots'[i] = r
         /\ \A x \in Loaded : x # i => slots'[x] = slots[x]
<1>1. /\ DOMAIN slots' = Loaded /\ slots'[i] = r
      /\ \A x \in Loaded : x # i => slots'[x] = slots[x]
  BY DEF Loaded
<1>2. TablesOK'
  BY <1>1, Fixed DEF TablesOK, Loaded
<1>3. SlotsOK'
  BY <1>1, Fixed, Still DEF SlotsOK, Loaded
<1>4. QED
  BY <1>1, <1>2, <1>3

\* Records of this store.
LEMMA RecTyped ==
  ASSUME NEW i \in Ids
  PROVE  /\ \A n \in Names : RegisterRec(i, n) \in Recs
         /\ \A s \in Seqs, t \in Times : RecordRec(i, s, t) \in Recs
         /\ \A s \in Seqs : ConfirmRec(i, s) \in Recs /\ UpToRec(i, s) \in Recs
         /\ TombstoneRec(i) \in Recs
         /\ \A S \in SUBSET Seqs, t \in Times : SnapshotRec(i, S, t) \in Recs
<1>1. \A n \in Names : RegisterRec(i, n) \in Recs
  BY DEF RegisterRec, Recs, RecSet
<1>2. \A s \in Seqs, t \in Times : RecordRec(i, s, t) \in Recs
  BY DEF RecordRec, Recs, RecSet
<1>3. \A s \in Seqs : ConfirmRec(i, s) \in Recs /\ UpToRec(i, s) \in Recs
  BY DEF ConfirmRec, UpToRec, Recs, RecSet
<1>4. TombstoneRec(i) \in Recs
  BY DEF TombstoneRec, Recs, RecSet
<1>5. \A S \in SUBSET Seqs, t \in Times : SnapshotRec(i, S, t) \in Recs
  BY DEF SnapshotRec, Recs, RecSet
<1>6. QED
  BY <1>1, <1>2, <1>3, <1>4, <1>5

\* One record.
LEMMA Single ==
  ASSUME NEW r \in Recs, NEW w, w = <<r>>
  PROVE  w \in Seq(Recs) /\ Len(w) = 1 /\ w[1] = r /\ 1..1 = {1}
OBVIOUS

LEMMA SlotPublishStep ==
  ASSUME Store, setup' = setup, NEW n \in Names, SlotPublish(n)
  PROVE  Store'
<1> USE DEF Store
<1>1. /\ byName[n] = None /\ nextID < MaxSlots
      /\ byName' = [byName EXCEPT ![n] = nextID]
      /\ slots' = With(slots, nextID, EmptySlot(n))
      /\ unregistered' = unregistered \cup {nextID}
      /\ nextID' = nextID + 1
      /\ UNCHANGED <<log, flushed, sinceSnap, dead, syncing, now, crashes, recorded, synced>>
  BY DEF SlotPublish, history
<1>2. PICK e : e = EmptySlot(n)
  OBVIOUS
<1>3. /\ e \in SlotSet(Seqs, MaxSeq, Times) /\ SlotOK(e, InOrder)
      /\ e.name = n /\ ~e.tombed /\ Live(e) = {}
  BY <1>2, Constants, EmptyOK
<1>4. nextID \notin Loaded /\ nextID \in Ids /\ nextID + 1 \in 0..MaxSlots /\ nextID < nextID + 1
  BY <1>1, Constants DEF TablesOK, Ids
<1>5. /\ DOMAIN slots' = Loaded \cup {nextID} /\ slots'[nextID] = e
      /\ \A x \in Loaded : x # nextID /\ slots'[x] = slots[x]
  BY <1>1, <1>2, <1>4 DEF With, Loaded
<1>6. LogOK' /\ Scans' = Scans /\ Cutoff' = Cutoff
  BY <1>1, Unwritten DEF LogOK
<1>7. TablesOK'
  <2>1. Loaded' \subseteq Ids /\ unregistered' \subseteq Loaded'
    BY <1>1, <1>4, <1>5 DEF TablesOK, Loaded
  <2>2. \A i \in Loaded' : i < nextID'
    <3>1. \A i \in Loaded : i < nextID /\ i \in Int /\ nextID \in Int
      BY Constants DEF TablesOK, Ids
    <3>2. \A i \in Loaded : i < nextID + 1
      BY <3>1
    <3>3. QED
      BY <1>1, <1>4, <1>5, <3>2 DEF Loaded
  <2>3. byName' \in [Names -> Ids \cup {None}]
    BY <1>1, <1>4 DEF TablesOK
  <2>4. \A m \in Names : byName'[m] # None =>
          /\ byName'[m] \in Loaded' /\ slots'[byName'[m]].name = m
          /\ ~slots'[byName'[m]].tombed
    BY <1>1, <1>3, <1>5 DEF TablesOK, Loaded
  <2>5. nextID' \in 0..MaxSlots
    BY <1>1, <1>4
  <2>6. QED
    BY <2>1, <2>2, <2>3, <2>4, <2>5, Fixed DEF TablesOK
<1>8. SlotsOK'
  BY <1>1, <1>3, <1>5, Fixed, Still DEF SlotsOK, Loaded
<1>9. Covers'
  BY <1>1, <1>3, <1>5, <1>6, CoversNext DEF Covers, Holds
<1>10. HistoryOK' /\ ClockOK'
  BY <1>1, Fixed, Still DEF HistoryOK, ClockOK
<1>11. QED
  BY <1>6, <1>7, <1>8, <1>9, <1>10

LEMMA SlotRegisterStep ==
  ASSUME Store, setup' = setup, NEW i \in Ids, SlotRegister(i)
  PROVE  Store'
<1> USE DEF Store
<1>1. /\ i \in unregistered /\ log' = log \o <<RegisterRec(i, slots[i].name)>>
      /\ unregistered' = unregistered \ {i}
      /\ UNCHANGED <<slots, byName, nextID, flushed, sinceSnap, dead, syncing, now, crashes,
                     recorded, synced>>
  BY DEF SlotRegister, Write, history
<1>2. PICK r : r = RegisterRec(i, slots[i].name)
  OBVIOUS
<1>3. PICK w : w = <<r>>
  OBVIOUS
<1>4. r \in Recs /\ r.op = "register"
  <2>1. slots[i].name \in Names \cup {NoName}
    BY <1>1 DEF TablesOK, SlotsOK, SlotSet
  <2>2. QED
    BY <1>2, <2>1 DEF Recs, RecSet, RegisterRec
<1>5. w \in Seq(Recs) /\ Len(w) = 1 /\ w[1] = r
  BY <1>3, <1>4, Single
<1>6. log' = log \o w
  BY <1>1, <1>2, <1>3
<1>7. LogOK' /\ Cutoff' = Cutoff
  BY <1>1, <1>5, <1>6, Written
<1>8. Covers'
  <2>1. ASSUME NEW x \in Loaded, NEW s \in Live(slots[x])
        PROVE  TooOld(slots[x].set[s], Cutoff') \/ Has(Scans'[x][Len(log')], s, slots[x].set[s])
    <3>1. x \in Ids /\ Holds(x, s, slots[x].set[s])
      BY DEF TablesOK, Covers
    <3>2. PICK t : t = slots[x].set[s]
      OBVIOUS
    <3>3. AllSpare(w, x, s, t, Cutoff)
      BY <1>4, <1>5 DEF AllSpare, Spares
    <3>4. Holds(x, s, t)
      BY <3>1, <3>2
    <3>5. QED
      BY <1>1, <1>5, <1>6, <3>1, <3>2, <3>3, <3>4, HeldStill
  <2>2. QED
    BY <1>1, <2>1, CoversNext DEF Loaded
<1>9. TablesOK' /\ SlotsOK' /\ HistoryOK' /\ ClockOK'
  BY <1>1, Fixed, Still DEF TablesOK, SlotsOK, HistoryOK, ClockOK, Loaded
<1>10. QED
  BY <1>7, <1>8, <1>9

\* A step that leaves the names alone: numbers leave slots, or enter what was recorded
\* for them, and what the history keeps of Sync stays in its slot.
Quiet ==
  /\ UNCHANGED <<byName, setup, now>> /\ DOMAIN slots' = Loaded
  /\ \A x \in Loaded :
       /\ slots'[x].name = slots[x].name /\ slots'[x].tombed = slots[x].tombed
       /\ slots[x].name \in Names =>
            Live(slots'[x]) \subseteq Live(slots[x]) \cup recorded'[slots[x].name]
       /\ x \in unregistered /\ ~ConcurrentSlot /\ Live(slots[x]) = {} => Live(slots'[x]) = {}
  /\ \A n \in Names :
       /\ recorded[n] \subseteq recorded'[n]
       /\ DOMAIN synced'[n] \subseteq DOMAIN synced[n]
       /\ \A s \in DOMAIN synced'[n] :
            /\ synced'[n][s] = synced[n][s]
            /\ byName[n] # None /\ s \in Live(slots[byName[n]]) => s \in Live(slots'[byName[n]])

\* The records it writes: of a slot that is registered, except for confirmations.
QuietLog(w) ==
  /\ w \in Seq(Recs) /\ log' = log \o w
  /\ flushed' = flushed /\ unregistered' = unregistered /\ dead' = dead
  /\ syncing' \in {syncing, "idle"}
  /\ \A j \in 1..Len(w) :
       \/ w[j].op \in {"confirm", "upto"}
       \/ /\ w[j].op = "record" /\ w[j].id \in Loaded /\ ~slots[w[j].id].tombed
          /\ w[j].id \notin unregistered \/ ConcurrentSlot
          /\ w[j].seq \in recorded'[slots[w[j].id].name]
       \/ /\ w[j].op = "snapshot" /\ w[j].id \in Loaded /\ ~slots[w[j].id].tombed
          /\ Live(slots[w[j].id]) # {} /\ w[j].seqs = Live(slots[w[j].id])
  /\ \A n \in Names : \A s \in DOMAIN synced'[n] :
       byName[n] # None /\ s \in Live(slots[byName[n]]) =>
         AllSpare(w, byName[n], s, synced[n][s], Cutoff)

\* What a step forgets.
LEMMA Forgotten ==
  ASSUME HistoryOK, setup' = setup, now' = now, NEW n \in Names, NEW X,
         synced' = [synced EXCEPT ![n] = Without(@, X)]
  PROVE  /\ synced' \in [Names -> Maps(Seqs', Times')]
         /\ Less(synced[n], X, synced'[n])
         /\ \A m \in Names : m # n => synced'[m] = synced[m]
<1>1. PICK f : f = synced[n]
  OBVIOUS
<1>2. PICK g : g = Without(f, X)
  OBVIOUS
<1>3. PICK S, T : S = Seqs /\ T = Times
  OBVIOUS
<1>4. f \in Maps(S, T)
  BY <1>1, <1>3 DEF HistoryOK
<1>5. g \in Maps(S, T) /\ Less(f, X, g)
  BY <1>2, <1>4, WithoutMap
<1>6. synced' = [synced EXCEPT ![n] = g] /\ synced \in [Names -> Maps(S, T)]
  BY <1>1, <1>2, <1>3 DEF HistoryOK
<1>7. Seqs' = S /\ Times' = T
  BY <1>3, Fixed, Still
<1>8. QED
  BY <1>1, <1>5, <1>6, <1>7

LEMMA RecordStep ==
  ASSUME Store, setup' = setup, NEW i \in Loaded, NEW s \in Seqs, Record(i, s)
  PROVE  Store' /\ Quiet /\ \E w : QuietLog(w)
<1> USE DEF Store
<1>1. PICK st, n, r :
        st = slots[i] /\ n = st.name /\ r = CheckRecord(st, s, now, MaxCap)
  OBVIOUS
<1>2. /\ Usable(i) /\ ~st.tombed /\ s \notin Live(st)
      /\ (InOrder => s > st.max)
      /\ slots' = [slots EXCEPT ![i] = r]
      /\ recorded' = [recorded EXCEPT ![n] = @ \cup {s}]
      /\ synced' = [synced EXCEPT ![n] = Without(@, Live(st) \ Live(r))]
      /\ log' = log \o <<RecordRec(i, s, now)>>
      /\ UNCHANGED <<byName, nextID, unregistered, flushed, dead, syncing, now, crashes>>
      /\ ConcurrentSlot \/ i \notin unregistered
  BY <1>1 DEF Record, Write, Forget, Usable
<1>3. n \in Names /\ i \in Ids
  BY <1>1, <1>2 DEF Usable, TablesOK
<1>4. st \in SlotSet(Seqs, MaxSeq, Times) /\ SlotOK(st, InOrder)
  BY <1>1 DEF SlotsOK
<1>5. r \in SlotSet(Seqs, MaxSeq, Times) /\ SlotOK(r, InOrder) /\ Joined(st, s, now, r)
  BY <1>1, <1>2, <1>4, Constants, CheckRecordOK
<1>6. /\ TablesOK' /\ SlotsOK' /\ DOMAIN slots' = Loaded /\ slots'[i] = r
      /\ \A x \in Loaded : x # i => slots'[x] = slots[x]
  BY <1>1, <1>2, <1>5, OneSlot DEF Joined
<1>7. PICK d : d = RecordRec(i, s, now)
  OBVIOUS
<1>8. PICK w : w = <<d>>
  OBVIOUS
<1>9. d \in Recs /\ d.op = "record" /\ d.id = i /\ d.seq = s /\ d.ts = now
  BY <1>3, <1>7, RecTyped, Constants DEF RecordRec
<1>10. w \in Seq(Recs) /\ Len(w) = 1 /\ w[1] = d /\ log' = log \o w
  BY <1>2, <1>7, <1>8, <1>9, Single
<1>11. /\ LogOK' /\ Cutoff' = Cutoff /\ Len(log') = Len(log) + 1 /\ Len(log) \in Nat
       /\ Grown(Len(log), Scans[i], w, i, Cutoff, Scans'[i])
  BY <1>2, <1>3, <1>10, Written
<1>12. Has(Scans'[i][Len(log')], s, now)
  <2>1. Becomes(Scans'[i][Len(log) + 1 - 1], d, Cutoff, Scans'[i][Len(log) + 1])
    BY <1>9, <1>10, <1>11 DEF Grown
  <2>2. now >= now /\ ~TooOld(now, Cutoff)
    BY Constants
  <2>3. QED
    BY <1>9, <1>11, <2>1, <2>2 DEF Becomes, Has
<1>13. Covers'
  <2>1. ASSUME NEW x \in Loaded, NEW y \in Live(slots'[x])
        PROVE  TooOld(slots'[x].set[y], Cutoff') \/ Has(Scans'[x][Len(log')], y, slots'[x].set[y])
    <3>1. CASE x = i /\ y = s
      BY <1>1, <1>5, <1>6, <1>12, <2>1, <3>1 DEF Joined
    <3>2. CASE ~ (x = i /\ y = s)
      <4>1. y \in Live(slots[x]) /\ slots'[x].set[y] = slots[x].set[y]
        BY <1>1, <1>5, <1>6, <2>1, <3>2 DEF Joined
      <4>2. PICK t : t = slots[x].set[y]
        OBVIOUS
      <4>3. x \in Ids /\ Holds(x, y, t)
        BY <4>1, <4>2 DEF TablesOK, Covers
      <4>4. AllSpare(w, x, y, t, Cutoff)
        BY <1>9, <1>10, <3>2 DEF AllSpare, Spares
      <4>5. QED
        BY <1>2, <1>10, <4>1, <4>2, <4>3, <4>4, HeldStill
    <3>3. QED
      BY <3>1, <3>2
  <2>2. QED
    BY <1>6, <2>1, CoversNext
<1>14. HistoryOK' /\ ClockOK'
  <2>1. synced' \in [Names -> Maps(Seqs', Times')]
    BY <1>2, <1>3, Forgotten
  <2>2. recorded' \in [Names -> SUBSET Seqs]
    BY <1>2, <1>3 DEF HistoryOK
  <2>3. QED
    BY <1>2, <2>1, <2>2, Fixed DEF HistoryOK, ClockOK
<1>15. /\ Less(synced[n], Live(st) \ Live(r), synced'[n])
       /\ \A m \in Names : m # n => synced'[m] = synced[m]
  <2>1. PICK X : X = Live(st) \ Live(r)
    OBVIOUS
  <2>2. synced' = [synced EXCEPT ![n] = Without(@, X)]
    BY <1>2, <2>1
  <2>3. Less(synced[n], X, synced'[n]) /\ \A m \in Names : m # n => synced'[m] = synced[m]
    BY <1>2, <1>3, <2>2, Forgotten
  <2>4. QED
    BY <2>1, <2>3
<1>16. /\ s \in recorded'[n] /\ recorded[n] \subseteq recorded'[n]
       /\ \A m \in Names : m # n => recorded'[m] = recorded[m]
  BY <1>2, <1>3 DEF HistoryOK
<1>17. Quiet
  <2>1. ASSUME NEW x \in Loaded
        PROVE  /\ slots'[x].name = slots[x].name /\ slots'[x].tombed = slots[x].tombed
               /\ slots[x].name \in Names =>
                    Live(slots'[x]) \subseteq Live(slots[x]) \cup recorded'[slots[x].name]
               /\ x \in unregistered /\ ~ConcurrentSlot /\ Live(slots[x]) = {} =>
                    Live(slots'[x]) = {}
    BY <1>1, <1>2, <1>5, <1>6, <1>16 DEF Joined
  <2>2. ASSUME NEW m \in Names
        PROVE  /\ recorded[m] \subseteq recorded'[m] /\ DOMAIN synced'[m] \subseteq DOMAIN synced[m]
               /\ \A y \in DOMAIN synced'[m] :
                    /\ synced'[m][y] = synced[m][y]
                    /\ byName[m] # None /\ y \in Live(slots[byName[m]]) =>
                         y \in Live(slots'[byName[m]])
    <3>1. CASE m = n
      <4>1. byName[n] # None => byName[n] = i
        BY <1>1, <1>2 DEF Usable
      <4>2. /\ DOMAIN synced'[n] \subseteq DOMAIN synced[n]
            /\ \A y \in DOMAIN synced'[n] :
                 synced'[n][y] = synced[n][y] /\ (y \in Live(st) => y \in Live(r))
        BY <1>15 DEF Less
      <4>3. QED
        BY <1>1, <1>6, <1>16, <3>1, <4>1, <4>2
    <3>2. CASE m # n
      <4>1. byName[m] # None => byName[m] \in Loaded /\ byName[m] # i
        BY <1>1, <3>2 DEF TablesOK
      <4>2. QED
        BY <1>6, <1>15, <1>16, <3>2, <4>1
    <3>3. QED
      BY <3>1, <3>2
  <2>3. QED
    BY <1>2, <1>6, <2>1, <2>2 DEF Quiet
<1>18. QuietLog(w)
  <2>1. ASSUME NEW m \in Names, NEW y \in DOMAIN synced'[m], byName[m] # None
        PROVE  AllSpare(w, byName[m], y, synced[m][y], Cutoff)
    <3>1. y \in DOMAIN synced[m]
      BY <1>17 DEF Quiet
    <3>2. synced[m][y] \in Times
      BY <3>1, MapsDef DEF HistoryOK
    <3>3. now >= synced[m][y]
      BY <3>2 DEF Times, ClockOK
    <3>4. QED
      BY <1>9, <1>10, <3>3 DEF AllSpare, Spares
  <2>2. \A j \in 1..Len(w) :
          /\ w[j].op = "record" /\ w[j].id \in Loaded /\ ~slots[w[j].id].tombed
          /\ w[j].id \notin unregistered \/ ConcurrentSlot
          /\ w[j].seq \in recorded'[slots[w[j].id].name]
    BY <1>1, <1>2, <1>9, <1>10, <1>16
  <2>3. QED
    BY <1>2, <1>10, <2>1, <2>2 DEF QuietLog
<1>19. QED
  BY <1>6, <1>11, <1>13, <1>14, <1>17, <1>18

\* The numbers in X leave a slot, and the history if they are still there; the log has
\* confirmations that spare the others.
Elsewhere ==
  UNCHANGED <<byName, nextID, unregistered, flushed, dead, syncing, now, crashes, recorded>>
Confirms(w, i) == \A j \in 1..Len(w) : w[j].id = i /\ w[j].op \in {"confirm", "upto"}
Forgets(i, X, Y) ==
  /\ Live(slots[i]) \cap X \subseteq Y
  /\ slots[i].tombed => synced' = synced
  /\ ~slots[i].tombed => /\ slots[i].name \in Names
                         /\ synced' = [synced EXCEPT ![slots[i].name] = Without(@, Y)]

\* Confirmations, cursors and sweeps: numbers leave a slot, and the log is told which.
LEMMA ThinnedStep ==
  ASSUME Store, setup' = setup, Elsewhere,
         NEW i \in Loaded, NEW X, NEW r \in SlotSet(Seqs, MaxSeq, Times), SlotOK(r, InOrder),
         Thinned(slots[i], X, r), slots' = [slots EXCEPT ![i] = r],
         NEW w \in Seq(Recs), log' = log \o w, Confirms(w, i),
         \A s \in Live(r) : \A t : AllSpare(w, i, s, t, Cutoff), NEW Y, Forgets(i, X, Y)
  PROVE  Store' /\ Quiet /\ QuietLog(w)
<1> USE DEF Store
<1>0. /\ UNCHANGED <<byName, nextID, unregistered>>
      /\ flushed' = flushed /\ dead' = dead /\ syncing' = syncing /\ now' = now
      /\ crashes' = crashes /\ recorded' = recorded
  BY DEF Elsewhere
<1>1. LogOK'
  BY <1>0, Written
<1>2. /\ TablesOK' /\ SlotsOK' /\ DOMAIN slots' = Loaded /\ slots'[i] = r
      /\ \A x \in Loaded : x # i => slots'[x] = slots[x]
  BY <1>0, OneSlot DEF Thinned
<1>3. Covers'
  <2>1. ASSUME NEW x \in Loaded, NEW y \in Live(slots'[x])
        PROVE  TooOld(slots'[x].set[y], Cutoff') \/ Has(Scans'[x][Len(log')], y, slots'[x].set[y])
    <3>1. /\ y \in Live(slots[x]) /\ slots'[x].set[y] = slots[x].set[y]
          /\ x = i => y \in Live(r)
      BY <1>2, <2>1 DEF Thinned
    <3>2. PICK t : t = slots[x].set[y]
      OBVIOUS
    <3>3. x \in Ids /\ Holds(x, y, t)
      BY <3>1, <3>2 DEF TablesOK, Covers
    <3>4. AllSpare(w, x, y, t, Cutoff)
      <4>1. CASE x = i
        BY <3>1, <4>1
      <4>2. CASE x # i
        BY <4>2 DEF AllSpare, Confirms
      <4>3. QED
        BY <4>1, <4>2
    <3>5. QED
      BY <1>0, <3>1, <3>2, <3>3, <3>4, HeldStill
  <2>2. QED
    BY <1>2, <2>1, CoversNext
<1>4. /\ synced' \in [Names -> Maps(Seqs', Times')]
      /\ \A m \in Names : DOMAIN synced'[m] \subseteq DOMAIN synced[m]
      /\ \A m \in Names : \A s \in DOMAIN synced'[m] : synced'[m][s] = synced[m][s]
      /\ \A m \in Names : m = slots[i].name /\ ~slots[i].tombed =>
           \A s \in DOMAIN synced'[m] : s \notin Y
  <2>1. CASE slots[i].tombed
    BY <1>0, <2>1, Fixed, Still DEF HistoryOK, Forgets
  <2>2. CASE ~slots[i].tombed
    <3>1. PICK n \in Names : n = slots[i].name
      BY <2>2 DEF Forgets
    <3>2. synced' = [synced EXCEPT ![n] = Without(@, Y)]
      BY <2>2, <3>1 DEF Forgets
    <3>3. /\ synced' \in [Names -> Maps(Seqs', Times')] /\ Less(synced[n], Y, synced'[n])
          /\ \A m \in Names : m # n => synced'[m] = synced[m]
      BY <1>0, <3>2, Forgotten
    <3>4. /\ DOMAIN synced'[n] \subseteq DOMAIN synced[n]
          /\ \A s \in DOMAIN synced'[n] : s \notin Y /\ synced'[n][s] = synced[n][s]
      BY <3>3 DEF Less
    <3>5. QED
      BY <3>1, <3>3, <3>4
  <2>3. QED
    BY <2>1, <2>2
<1>5. HistoryOK' /\ ClockOK'
  BY <1>0, <1>4, Fixed DEF HistoryOK, ClockOK
<1>6. Quiet
  <2>1. ASSUME NEW x \in Loaded
        PROVE  /\ slots'[x].name = slots[x].name /\ slots'[x].tombed = slots[x].tombed
               /\ Live(slots'[x]) \subseteq Live(slots[x])
    <3>1. CASE x = i
      BY <1>2, <3>1 DEF Thinned
    <3>2. CASE x # i
      BY <1>2, <3>2
    <3>3. QED
      BY <3>1, <3>2
  <2>2. ASSUME NEW m \in Names, NEW s \in DOMAIN synced'[m], byName[m] # None,
               s \in Live(slots[byName[m]])
        PROVE  s \in Live(slots'[byName[m]])
    <3>1. byName[m] \in Loaded /\ slots[byName[m]].name = m /\ ~slots[byName[m]].tombed
      BY <2>2 DEF TablesOK
    <3>2. CASE byName[m] = i
      <4>1. s \notin Y
        BY <1>4, <3>1, <3>2
      <4>2. s \in Live(r)
        BY <2>2, <3>2, <4>1 DEF Thinned, Forgets
      <4>3. QED
        BY <1>2, <3>2, <4>2
    <3>3. CASE byName[m] # i
      BY <1>2, <2>2, <3>1, <3>3
    <3>4. QED
      BY <3>2, <3>3
  <2>3. UNCHANGED <<byName, setup, now>> /\ DOMAIN slots' = Loaded
    BY <1>0, <1>2
  <2>4. \A x \in Loaded :
          /\ slots'[x].name = slots[x].name /\ slots'[x].tombed = slots[x].tombed
          /\ slots[x].name \in Names =>
               Live(slots'[x]) \subseteq Live(slots[x]) \cup recorded'[slots[x].name]
          /\ x \in unregistered /\ ~ConcurrentSlot /\ Live(slots[x]) = {} =>
               Live(slots'[x]) = {}
    BY <2>1
  <2>5. \A n \in Names :
          /\ recorded[n] \subseteq recorded'[n] /\ DOMAIN synced'[n] \subseteq DOMAIN synced[n]
          /\ \A s \in DOMAIN synced'[n] :
               /\ synced'[n][s] = synced[n][s]
               /\ byName[n] # None /\ s \in Live(slots[byName[n]]) =>
                    s \in Live(slots'[byName[n]])
    BY <1>0, <1>4, <2>2
  <2>6. QED
    BY <2>3, <2>4, <2>5 DEF Quiet
<1>7. QuietLog(w)
  <2>1. ASSUME NEW m \in Names, NEW s \in DOMAIN synced'[m], byName[m] # None,
               s \in Live(slots[byName[m]])
        PROVE  AllSpare(w, byName[m], s, synced[m][s], Cutoff)
    <3>1. CASE byName[m] = i
      <4>1. s \in Live(r)
        BY <1>2, <1>6, <2>1, <3>1 DEF Quiet
      <4>2. QED
        BY <3>1, <4>1
    <3>2. CASE byName[m] # i
      BY <3>2 DEF AllSpare, Confirms
    <3>3. QED
      BY <3>1, <3>2
  <2>2. \A j \in 1..Len(w) : w[j].op \in {"confirm", "upto"}
    BY DEF Confirms
  <2>3. QED
    BY <1>0, <2>1, <2>2 DEF QuietLog
<1>8. QED
  BY <1>1, <1>2, <1>3, <1>5, <1>6, <1>7

\* A handle in use: of a deleted slot, or of one with a name.
LEMMA Held ==
  ASSUME TablesOK, SlotsOK, NEW i \in Loaded, Usable(i)
  PROVE  /\ i \in Ids
         /\ slots[i] \in SlotSet(Seqs, MaxSeq, Times) /\ SlotOK(slots[i], InOrder)
         /\ ~slots[i].tombed => slots[i].name \in Names /\ byName[slots[i].name] = i
BY DEF TablesOK, SlotsOK, Usable

LEMMA ConfirmOneStep ==
  ASSUME Store, setup' = setup, NEW i \in Loaded, NEW s \in Seqs, ConfirmOne(i, s)
  PROVE  Store' /\ Quiet /\ \E w : QuietLog(w)
<1> USE DEF Store
<1>1. PICK st, r : st = slots[i] /\ r = Confirm(st, s)
  OBVIOUS
<1>2. /\ Usable(i) /\ slots' = [slots EXCEPT ![i] = r]
      /\ log' = log \o <<ConfirmRec(i, s)>>
      /\ IF st.tombed THEN UNCHANGED synced
         ELSE synced' = [synced EXCEPT ![st.name] = Without(@, {s})]
      /\ UNCHANGED <<byName, nextID, unregistered, flushed, sinceSnap, dead, syncing, now,
                     crashes, recorded>>
  BY <1>1 DEF ConfirmOne, Write, Forget
<1>3. /\ i \in Ids /\ st \in SlotSet(Seqs, MaxSeq, Times) /\ SlotOK(st, InOrder)
      /\ ~st.tombed => st.name \in Names
  BY <1>1, <1>2, Held
<1>4. r \in SlotSet(Seqs, MaxSeq, Times) /\ SlotOK(r, InOrder) /\ Thinned(st, {s}, r)
  BY <1>1, <1>3, Constants, ConfirmOK
<1>5. PICK d : d = ConfirmRec(i, s)
  OBVIOUS
<1>6. PICK w : w = <<d>>
  OBVIOUS
<1>7. d \in Recs /\ d.op = "confirm" /\ d.id = i /\ d.seq = s
  BY <1>3, <1>5, RecTyped DEF ConfirmRec
<1>8. w \in Seq(Recs) /\ Len(w) = 1 /\ w[1] = d /\ log' = log \o w
  BY <1>2, <1>5, <1>6, <1>7, Single
<1>9. \A y \in Live(r) : \A t : AllSpare(w, i, y, t, Cutoff)
  BY <1>4, <1>7, <1>8 DEF Thinned, AllSpare, Spares, Hits
<1>10. PICK X : X = {s}
  OBVIOUS
<1>11. Thinned(slots[i], X, r)
  BY <1>1, <1>4, <1>10
<1>12. Confirms(w, i)
  BY <1>7, <1>8 DEF Confirms
<1>13. Forgets(i, X, X)
  BY <1>1, <1>2, <1>3, <1>10 DEF Forgets
<1>14. Elsewhere
  BY <1>2 DEF Elsewhere
<1>15. slots' = [slots EXCEPT ![i] = r]
  BY <1>2
<1>16. Store' /\ Quiet /\ QuietLog(w)
  BY <1>4, <1>8, <1>9, <1>11, <1>12, <1>13, <1>14, <1>15, ThinnedStep
<1>17. QED
  BY <1>16

LEMMA ConfirmCursorStep ==
  ASSUME Store, setup' = setup, NEW i \in Loaded, NEW s \in Seqs, ConfirmCursor(i, s)
  PROVE  Store' /\ Quiet /\ \E w : QuietLog(w)
<1> USE DEF Store
<1>1. PICK st, X, r : st = slots[i] /\ X = UpTo(st, s) /\ r = Drop(st, X)
  OBVIOUS
<1>2. /\ Usable(i) /\ slots' = [slots EXCEPT ![i] = r]
      /\ log' = log \o <<UpToRec(i, s)>>
      /\ IF st.tombed THEN UNCHANGED synced
         ELSE synced' = [synced EXCEPT ![st.name] = Without(@, 1..s)]
      /\ UNCHANGED <<byName, nextID, unregistered, flushed, sinceSnap, dead, syncing, now,
                     crashes, recorded>>
  BY <1>1 DEF ConfirmCursor, ConfirmUpTo, Write, Forget
<1>3. /\ i \in Ids /\ st \in SlotSet(Seqs, MaxSeq, Times) /\ SlotOK(st, InOrder)
      /\ ~st.tombed => st.name \in Names
  BY <1>1, <1>2, Held
<1>4. r \in SlotSet(Seqs, MaxSeq, Times) /\ SlotOK(r, InOrder) /\ Thinned(st, X, r)
  BY <1>1, <1>3, Constants, DropOK
<1>5. PICK d : d = UpToRec(i, s)
  OBVIOUS
<1>6. PICK w : w = <<d>>
  OBVIOUS
<1>7. d \in Recs /\ d.op = "upto" /\ d.id = i /\ d.seq = s
  BY <1>3, <1>5, RecTyped DEF UpToRec
<1>8. w \in Seq(Recs) /\ Len(w) = 1 /\ w[1] = d /\ log' = log \o w
  BY <1>2, <1>5, <1>6, <1>7, Single
<1>9. \A y \in Live(r) : \A t : AllSpare(w, i, y, t, Cutoff)
  <2>1. \A y \in Live(r) : ~ (y <= s)
    BY <1>1, <1>4 DEF Thinned, UpTo
  <2>2. QED
    BY <1>7, <1>8, <2>1 DEF AllSpare, Spares, Hits
<1>10. Thinned(slots[i], X, r)
  BY <1>1, <1>4
<1>11. Confirms(w, i)
  BY <1>7, <1>8 DEF Confirms
<1>12. PICK Y : Y = 1..s
  OBVIOUS
<1>13. Live(slots[i]) \cap X \subseteq Y
  <2>1. MaxSeq \in Nat /\ Seqs = 1..MaxSeq
    BY Constants
  <2>2. Live(st) \subseteq 1..MaxSeq
    BY <1>3, <2>1, SlotFields
  <2>3. \A y \in 1..MaxSeq : y <= s => y \in 1..s
    BY <2>1
  <2>4. QED
    BY <1>1, <1>12, <2>2, <2>3 DEF UpTo
<1>14. Forgets(i, X, Y)
  BY <1>1, <1>2, <1>3, <1>12, <1>13 DEF Forgets
<1>15. Elsewhere
  BY <1>2 DEF Elsewhere
<1>16. slots' = [slots EXCEPT ![i] = r]
  BY <1>2
<1>17. Store' /\ Quiet /\ QuietLog(w)
  BY <1>4, <1>8, <1>9, <1>10, <1>11, <1>14, <1>15, <1>16, ThinnedStep
<1>18. QED
  BY <1>17

LEMMA DeleteSlotStep ==
  ASSUME Store, setup' = setup, NEW n \in Names, DeleteSlot(n)
  PROVE  Store'
<1> USE DEF Store
<1>1. PICK i, st, r : i = byName[n] /\ st = slots[i] /\ r = Delete(st)
  OBVIOUS
<1>2. /\ i # None /\ Usable(i) /\ byName' = [byName EXCEPT ![n] = None]
      /\ slots' = [slots EXCEPT ![i] = r]
      /\ log' = log \o <<TombstoneRec(i)>>
      /\ synced' = [synced EXCEPT ![n] = Without(@, Seqs)]
      /\ UNCHANGED <<nextID, unregistered, flushed, sinceSnap, dead, syncing, now, crashes,
                     recorded>>
  BY <1>1 DEF DeleteSlot, Write, Forget
<1>3. /\ i \in Loaded /\ i \in Ids /\ st.name = n
      /\ st \in SlotSet(Seqs, MaxSeq, Times)
  BY <1>1, <1>2 DEF TablesOK, SlotsOK
<1>4. /\ r \in SlotSet(Seqs, MaxSeq, Times) /\ SlotOK(r, InOrder)
      /\ r.name = n /\ Live(r) = {}
  <2>1. st.name \in Names /\ r = Delete(st) /\ MaxSeq \in Nat /\ Seqs = 1..MaxSeq
    BY <1>1, <1>3, Constants
  <2>2. QED
    BY <1>3, <2>1, DeleteOK
<1>5. PICK d : d = TombstoneRec(i)
  OBVIOUS
<1>6. PICK w : w = <<d>>
  OBVIOUS
<1>7. d \in Recs /\ d.id = i
  BY <1>3, <1>5, RecTyped DEF TombstoneRec
<1>8. w \in Seq(Recs) /\ Len(w) = 1 /\ w[1] = d /\ log' = log \o w
  BY <1>2, <1>5, <1>6, <1>7, Single
<1>9. LogOK'
  BY <1>2, <1>8, Written
<1>10. /\ DOMAIN slots' = Loaded /\ slots'[i] = r
       /\ \A x \in Loaded : x # i => slots'[x] = slots[x]
  BY <1>2, <1>3 DEF Loaded
<1>11. TablesOK'
  <2>1. \A m \in Names : byName'[m] # None =>
          /\ m # n /\ byName'[m] = byName[m] /\ byName[m] \in Loaded /\ byName[m] # i
          /\ slots[byName[m]].name = m /\ ~slots[byName[m]].tombed
    BY <1>1, <1>2, <1>3 DEF TablesOK
  <2>2. \A m \in Names : byName'[m] # None =>
          /\ byName'[m] \in Loaded /\ slots'[byName'[m]].name = m
          /\ ~slots'[byName'[m]].tombed
    BY <1>10, <2>1
  <2>3. byName' \in [Names -> Ids \cup {None}]
    BY <1>2 DEF TablesOK
  <2>4. QED
    BY <1>2, <1>10, <2>2, <2>3, Fixed DEF TablesOK, Loaded
<1>12. SlotsOK'
  BY <1>2, <1>4, <1>10, Fixed, Still DEF SlotsOK, Loaded
<1>13. Covers'
  <2>1. ASSUME NEW x \in Loaded, NEW y \in Live(slots'[x])
        PROVE  TooOld(slots'[x].set[y], Cutoff') \/ Has(Scans'[x][Len(log')], y, slots'[x].set[y])
    <3>1. x # i /\ slots'[x] = slots[x]
      BY <1>4, <1>10, <2>1
    <3>2. PICK t : t = slots[x].set[y]
      OBVIOUS
    <3>3. x \in Ids /\ Holds(x, y, t)
      BY <2>1, <3>1, <3>2 DEF TablesOK, Covers
    <3>4. AllSpare(w, x, y, t, Cutoff)
      BY <1>7, <1>8, <3>1 DEF AllSpare
    <3>5. QED
      BY <1>2, <1>8, <3>1, <3>2, <3>3, <3>4, HeldStill
  <2>2. QED
    BY <1>10, <2>1, CoversNext
<1>14. HistoryOK' /\ ClockOK'
  <2>1. synced' \in [Names -> Maps(Seqs', Times')]
    BY <1>2, Forgotten
  <2>2. QED
    BY <1>2, <2>1, Fixed DEF HistoryOK, ClockOK
<1>15. QED
  BY <1>9, <1>11, <1>12, <1>13, <1>14

\* The keys of a map in some order.
LEMMA Ordered ==
  ASSUME NEW m \in Nat, NEW S \in SUBSET (0..m), NEW q \in Orders(S)
  PROVE  /\ Len(q) \in Nat /\ DOMAIN q = 1..Len(q)
         /\ \A j \in 1..Len(q) : q[j] \in S
         /\ \A x \in S : \E j \in 1..Len(q) : q[j] = x
         /\ \A j, k \in 1..Len(q) : q[j] = q[k] => j = k
<1>1. PICK n : n = Cardinality(S)
  OBVIOUS
<1>2. n \in Nat
  BY <1>1, RanksCount
<1>3. q \in Injection(1..n, S) /\ q \in Surjection(1..n, S)
  BY <1>1 DEF Orders, Bijection
<1>4. /\ q \in [1..n -> S]
      /\ \A x \in S : \E j \in 1..n : q[j] = x
      /\ \A j, k \in 1..n : q[j] = q[k] => j = k
  BY <1>3 DEF Injection, IsInjective, Surjection
<1>5. Len(q) = n /\ DOMAIN q = 1..n
  BY <1>2, <1>4
<1>6. QED
  BY <1>2, <1>4, <1>5

LEMMA SweepSlotStep ==
  ASSUME Store, setup' = setup, NEW i \in Loaded, SweepSlot(i)
  PROVE  Store' /\ Quiet /\ \E w : QuietLog(w)
<1> USE DEF Store
<1>1. PICK st, X, r : st = slots[i] /\ X = Expired(st, Cutoff) /\ r = Drop(st, X)
  OBVIOUS
<1>2. /\ \E n \in Names : byName[n] = i
      /\ slots' = [slots EXCEPT ![i] = r]
      /\ \E q \in Orders(X) : log' = log \o [j \in DOMAIN q |-> ConfirmRec(i, q[j])]
      /\ synced' = [synced EXCEPT ![st.name] = Without(@, X)]
      /\ UNCHANGED <<byName, nextID, unregistered, flushed, sinceSnap, dead, syncing, now,
                     crashes, recorded>>
  BY <1>1 DEF SweepSlot, Write, Forget
<1>3. /\ i \in Ids /\ st \in SlotSet(Seqs, MaxSeq, Times) /\ SlotOK(st, InOrder)
      /\ st.name \in Names /\ ~st.tombed
  <2>1. PICK n \in Names : byName[n] = i
    BY <1>2
  <2>2. byName[n] # None
    BY <2>1, Constants DEF TablesOK
  <2>3. QED
    BY <1>1, <2>1, <2>2 DEF TablesOK, SlotsOK
<1>4. r \in SlotSet(Seqs, MaxSeq, Times) /\ SlotOK(r, InOrder) /\ Thinned(st, X, r)
  BY <1>1, <1>3, Constants, DropOK
<1>5. PICK q \in Orders(X) : log' = log \o [j \in DOMAIN q |-> ConfirmRec(i, q[j])]
  BY <1>2
<1>6. PICK w : w = [j \in DOMAIN q |-> ConfirmRec(i, q[j])]
  OBVIOUS
<1>7. X \subseteq Live(st) /\ X \subseteq Seqs /\ X \in SUBSET (0..MaxSeq) /\ MaxSeq \in Nat
  <2>1. X \subseteq Live(st)
    BY <1>1 DEF Expired
  <2>2. MaxSeq \in Nat /\ Seqs = 1..MaxSeq
    BY Constants
  <2>3. Live(st) \subseteq Seqs
    BY <1>3, <2>2, SlotFields
  <2>4. Seqs \subseteq 0..MaxSeq
    BY <2>2
  <2>5. QED
    BY <2>1, <2>2, <2>3, <2>4
<1>8. PICK l \in Nat : l = Len(q) /\ DOMAIN q = 1..l /\ \A j \in 1..l : q[j] \in X
  BY <1>5, <1>7, Ordered
<1>9. /\ w = [j \in 1..l |-> ConfirmRec(i, q[j])]
      /\ \A j \in 1..l : w[j] \in Recs /\ w[j].id = i /\ w[j].op = "confirm" /\ w[j].seq \in X
  <2>1. w = [j \in 1..l |-> ConfirmRec(i, q[j])]
    BY <1>6, <1>8
  <2>2. \A j \in 1..l : ConfirmRec(i, q[j]) \in Recs
    BY <1>3, <1>7, <1>8, RecTyped
  <2>3. QED
    BY <1>8, <2>1, <2>2 DEF ConfirmRec
<1>10. w \in Seq(Recs) /\ Len(w) = l /\ log' = log \o w
  <2>1. w \in [1..l -> Recs]
    BY <1>9
  <2>2. w \in Seq(Recs) /\ Len(w) = l
    BY <2>1
  <2>3. QED
    BY <1>5, <1>6, <2>2
<1>11. \A y \in Live(r) : \A t : AllSpare(w, i, y, t, Cutoff)
  <2>1. \A y \in Live(r) : y \notin X
    BY <1>4 DEF Thinned
  <2>2. QED
    BY <1>9, <1>10, <2>1 DEF AllSpare, Spares, Hits
<1>12. Thinned(slots[i], X, r)
  BY <1>1, <1>4
<1>13. Confirms(w, i)
  BY <1>9, <1>10 DEF Confirms
<1>14. Forgets(i, X, X)
  BY <1>1, <1>2, <1>3 DEF Forgets
<1>15. Elsewhere
  BY <1>2 DEF Elsewhere
<1>16. slots' = [slots EXCEPT ![i] = r]
  BY <1>2
<1>17. Store' /\ Quiet /\ QuietLog(w)
  BY <1>4, <1>10, <1>11, <1>12, <1>13, <1>14, <1>15, <1>16, ThinnedStep
<1>18. QED
  BY <1>17

LEMMA SnapshotStep ==
  ASSUME Store, setup' = setup, Snapshot
  PROVE  Store' /\ Quiet /\ \E w : QuietLog(w)
<1> USE DEF Store
<1>1. PICK K : K = {i \in Loaded : slots[i].set # <<>> /\ \E n \in Names : byName[n] = i}
  OBVIOUS
<1>2. PICK q \in Orders(K) :
        log' = log \o [j \in DOMAIN q |-> SnapshotRec(q[j], Live(slots[q[j]]), now)]
  BY <1>1 DEF Snapshot, Write
<1>3. /\ syncing' = "idle"
      /\ UNCHANGED <<slots, byName, nextID, unregistered, flushed, dead, now, crashes, recorded,
                     synced>>
  BY DEF Snapshot, memory, history
<1>4. PICK w : w = [j \in DOMAIN q |-> SnapshotRec(q[j], Live(slots[q[j]]), now)]
  OBVIOUS
<1>5. K \subseteq Loaded /\ K \subseteq Ids /\ K \in SUBSET (0..MaxSlots) /\ MaxSlots \in Nat
  BY <1>1, Constants DEF TablesOK
<1>6. PICK l \in Nat : l = Len(q) /\ DOMAIN q = 1..l /\ \A j \in 1..l : q[j] \in K
  BY <1>2, <1>5, Ordered
<1>7. ASSUME NEW i \in Loaded
      PROVE  Live(slots[i]) \subseteq Seqs /\ \A s \in Live(slots[i]) : slots[i].set[s] \in Times
  BY SlotFields, Constants DEF SlotsOK
<1>8. /\ w = [j \in 1..l |-> SnapshotRec(q[j], Live(slots[q[j]]), now)]
      /\ \A j \in 1..l : /\ w[j] \in Recs /\ w[j].id = q[j] /\ w[j].op = "snapshot"
                         /\ w[j].seqs = Live(slots[q[j]]) /\ w[j].ts = now
  <2>1. w = [j \in 1..l |-> SnapshotRec(q[j], Live(slots[q[j]]), now)]
    BY <1>4, <1>6
  <2>2. ASSUME NEW j \in 1..l PROVE SnapshotRec(q[j], Live(slots[q[j]]), now) \in Recs
    <3>1. PICK S : S = Live(slots[q[j]])
      OBVIOUS
    <3>2. S \in SUBSET Seqs /\ now \in Times /\ q[j] \in Ids
      BY <1>5, <1>6, <1>7, <3>1, Constants
    <3>3. SnapshotRec(q[j], S, now) \in Recs
      BY <3>2, RecTyped
    <3>4. QED
      BY <3>1, <3>3
  <2>3. QED
    BY <2>1, <2>2 DEF SnapshotRec
<1>9. w \in Seq(Recs) /\ Len(w) = l /\ log' = log \o w
  <2>1. w \in [1..l -> Recs]
    BY <1>8
  <2>2. w \in Seq(Recs) /\ Len(w) = l
    BY <2>1
  <2>3. QED
    BY <1>2, <1>4, <2>2
<1>10. LogOK'
  BY <1>3, <1>9, Written
<1>11. Covers'
  <2>1. ASSUME NEW x \in Loaded, NEW y \in Live(slots[x])
        PROVE  TooOld(slots[x].set[y], Cutoff') \/ Has(Scans'[x][Len(log')], y, slots[x].set[y])
    <3>1. PICK t : t = slots[x].set[y]
      OBVIOUS
    <3>2. x \in Ids /\ Holds(x, y, t)
      BY <3>1 DEF TablesOK, Covers
    <3>3. now >= t /\ ~TooOld(now, Cutoff)
      BY <1>7, <3>1, Constants DEF Times, ClockOK
    <3>4. AllSpare(w, x, y, t, Cutoff)
      BY <1>8, <1>9, <3>3 DEF AllSpare, Spares
    <3>5. QED
      BY <1>3, <1>9, <3>1, <3>2, <3>4, HeldStill
  <2>2. QED
    BY <1>3, <2>1, CoversNext DEF Loaded
<1>12. TablesOK' /\ SlotsOK' /\ HistoryOK' /\ ClockOK'
  BY <1>3, Fixed, Still DEF TablesOK, SlotsOK, HistoryOK, ClockOK, Loaded
<1>13. Quiet
  BY <1>3 DEF Quiet, Loaded
<1>14. QuietLog(w)
  <2>1. ASSUME NEW m \in Names, NEW s \in DOMAIN synced'[m], byName[m] # None,
               s \in Live(slots[byName[m]])
        PROVE  AllSpare(w, byName[m], s, synced[m][s], Cutoff)
    <3>1. synced[m][s] \in Times
      BY <1>3, <2>1, MapsDef DEF HistoryOK
    <3>2. now >= synced[m][s] /\ ~TooOld(now, Cutoff)
      BY <3>1, Constants DEF Times, ClockOK
    <3>3. QED
      BY <1>8, <1>9, <2>1, <3>2 DEF AllSpare, Spares
  <2>2. ASSUME NEW j \in 1..l
        PROVE  /\ w[j].op = "snapshot" /\ w[j].id \in Loaded /\ ~slots[w[j].id].tombed
               /\ Live(slots[w[j].id]) # {} /\ w[j].seqs = Live(slots[w[j].id])
    <3>1. q[j] \in K /\ w[j].id = q[j] /\ q[j] \in Loaded /\ slots[q[j]].set # <<>>
      BY <1>1, <1>6, <1>8
    <3>2. ~slots[q[j]].tombed
      <4>1. PICK n \in Names : byName[n] = q[j]
        BY <1>1, <3>1
      <4>2. byName[n] # None
        BY <1>5, <3>1, <4>1, Constants
      <4>3. QED
        BY <4>1, <4>2 DEF TablesOK
    <3>3. Live(slots[q[j]]) # {}
      BY <3>1, EmptyMap DEF SlotsOK, SlotSet, Live
    <3>4. QED
      BY <1>8, <3>1, <3>2, <3>3
  <2>3. QED
    BY <1>3, <1>9, <2>1, <2>2 DEF QuietLog
<1>15. QED
  BY <1>10, <1>11, <1>12, <1>13, <1>14

\* Times only become more.
LEMMA RecsGrow ==
  ASSUME NEW I, NEW S, NEW T, NEW U, T \subseteq U, NEW q \in Seq(RecSet(I, S, T))
  PROVE  q \in Seq(RecSet(I, S, U))
<1>1. RecSet(I, S, T) \subseteq RecSet(I, S, U)
  BY DEF RecSet
<1>2. PICK A, B : A = RecSet(I, S, T) /\ B = RecSet(I, S, U)
  OBVIOUS
<1>3. q \in Seq(A) /\ A \subseteq B
  BY <1>1, <1>2
<1>4. Len(q) \in Nat /\ q \in [1..Len(q) -> A]
  BY <1>3, LenProperties
<1>5. q \in [1..Len(q) -> B]
  BY <1>3, <1>4
<1>6. q \in Seq(B)
  BY <1>4, <1>5
<1>7. QED
  BY <1>2, <1>6

\* The clock goes on: the scan of the log is a later one.
LEMMA TickLater ==
  ASSUME ClockOK, LogOK, setup' = setup, Tick
  PROVE  /\ UNCHANGED <<setup, slots, byName, unregistered, log, flushed, dead, syncing, recorded,
                        synced>>
         /\ now' = now + 1 /\ Ids' = Ids /\ None' = None /\ Len(log) \in Nat
         /\ Cutoff \in Int /\ Cutoff' \in Int /\ Cutoff <= Cutoff' /\ Times \in SUBSET Int
         /\ \A i \in Ids : \A k \in 0..Len(log) : Later(Scans[i][k], Scans'[i][k], Cutoff')
<1>1. /\ now' = now + 1
      /\ UNCHANGED <<slots, byName, unregistered, log, flushed, dead, syncing, recorded, synced>>
  BY DEF Tick, memory, history
<1>2. Times \in SUBSET Int
  BY DEF ClockOK, Times
<1>3. Cutoff \in Int /\ Cutoff' \in Int /\ Cutoff <= Cutoff'
  <2>1. Ttl \in Nat /\ Ttl' = Ttl
    BY Constants, Fixed
  <2>2. QED
    BY <1>1, <2>1 DEF Cutoff, ClockOK
<1>4. Len(log) \in Nat
  BY ScansTyped
<1>5. \A i \in Ids : \A k \in 0..Len(log) : Later(Scans[i][k], Scans'[i][k], Cutoff')
  <2>1. PICK I, S, T, q, c, d :
          I = Ids /\ S = Seqs /\ T = Times /\ q = log /\ c = Cutoff /\ d = Cutoff'
    OBVIOUS
  <2>2. q \in Seq(RecSet(I, S, T)) /\ T \in SUBSET Int /\ c \in Int /\ d \in Int /\ c <= d
    BY <1>2, <1>3, <2>1 DEF LogOK, Recs
  <2>3. \A i : \A k \in 0..Len(q) : Later(Accumulated(q, i, c)[k], Accumulated(q, i, d)[k], d)
    BY <2>2, LaterScan
  <2>4. \A i \in Ids : Scans[i] = Accumulated(q, i, c) /\ Scans'[i] = Accumulated(q, i, d)
    BY <1>1, <2>1, Fixed DEF Scans
  <2>5. QED
    BY <2>1, <2>3, <2>4
<1>6. QED
  BY <1>1, <1>2, <1>3, <1>4, <1>5, Fixed

LEMMA TickStep ==
  ASSUME Store, setup' = setup, Tick
  PROVE  Store'
<1> USE DEF Store
<1>1. /\ now' = now + 1
      /\ UNCHANGED <<slots, byName, nextID, unregistered, log, flushed, crashes, recorded, synced>>
  BY DEF Tick, memory, history
<1>2. ClockOK' /\ now' \in Nat \ {0}
  BY <1>1 DEF ClockOK
<1>3. Times \subseteq Times' /\ Times \in SUBSET Int /\ Times' \in SUBSET Int
  BY <1>1 DEF ClockOK, Times
<1>4. Cutoff \in Int /\ Cutoff' \in Int /\ Cutoff <= Cutoff'
  BY TickLater
<1>5. LogOK'
  <2>1. log \in Seq(RecSet(Ids, Seqs, Times))
    BY DEF LogOK, Recs
  <2>2. PICK U : U = Times'
    OBVIOUS
  <2>3. log \in Seq(RecSet(Ids, Seqs, U))
    BY <1>3, <2>1, <2>2, RecsGrow
  <2>4. log \in Seq(Recs')
    BY <2>2, <2>3, Fixed DEF Recs
  <2>5. QED
    BY <1>1, <2>4 DEF LogOK
<1>6. SlotsOK'
  <2>1. ASSUME NEW i \in Loaded PROVE slots[i] \in SlotSet(Seqs, MaxSeq, Times')
    <3>1. PICK U : U = Times'
      OBVIOUS
    <3>2. slots[i] \in SlotSet(Seqs, MaxSeq, U)
      BY <1>3, <3>1, Constants, SlotsGrow DEF SlotsOK
    <3>3. QED
      BY <3>1, <3>2
  <2>2. QED
    BY <1>1, <2>1, Fixed DEF SlotsOK, Loaded
<1>7. HistoryOK'
  <2>1. ASSUME NEW n \in Names PROVE synced[n] \in Maps(Seqs, Times')
    <3>1. PICK U : U = Times'
      OBVIOUS
    <3>2. synced[n] \in Maps(Seqs, U)
      BY <1>3, <3>1, MapsGrow DEF HistoryOK
    <3>3. QED
      BY <3>1, <3>2
  <2>2. QED
    BY <1>1, <2>1, Fixed DEF HistoryOK
<1>8. TablesOK'
  BY <1>1, Fixed DEF TablesOK, Loaded
<1>9. Len(log) \in Nat /\ \A i \in Ids : Later(Scans[i][Len(log)], Scans'[i][Len(log)], Cutoff')
  <2>1. Len(log) \in Nat /\ Len(log) \in 0..Len(log)
    BY ScansTyped
  <2>2. QED
    BY <2>1, TickLater
<1>10. Covers'
  <2>1. ASSUME NEW x \in Loaded, NEW y \in Live(slots[x])
        PROVE  TooOld(slots[x].set[y], Cutoff') \/ Has(Scans'[x][Len(log)], y, slots[x].set[y])
    <3>1. PICK t : t = slots[x].set[y]
      OBVIOUS
    <3>2. x \in Ids /\ Holds(x, y, t)
      BY <3>1 DEF TablesOK, Covers
    <3>3. t \in Int
      <4>1. slots[x] \in SlotSet(Seqs, MaxSeq, Times) /\ MaxSeq \in Nat /\ Seqs = 1..MaxSeq
        BY Constants DEF SlotsOK
      <4>2. slots[x].set[y] \in Times
        BY <4>1, SlotFields
      <4>3. QED
        BY <1>3, <3>1, <4>2
    <3>4. CASE t < Cutoff'
      BY <3>1, <3>4 DEF TooOld
    <3>5. CASE ~ (t < Cutoff')
      <4>1. ~ (t < Cutoff) /\ t >= Cutoff'
        BY <1>4, <3>3, <3>5
      <4>2. PICK a, b, d : a = Scans[x][Len(log)] /\ b = Scans'[x][Len(log)] /\ d = Cutoff'
        OBVIOUS
      <4>3. Has(a, y, t) /\ Later(a, b, d)
        BY <1>9, <3>2, <4>1, <4>2 DEF Holds, TooOld
      <4>4. a.live[y] \in Int
        <5>1. a \in AccSet(Seqs, Times)
          BY <3>2, <4>2, ScansTyped
        <5>2. a.live \in Maps(Seqs, Times)
          BY <5>1 DEF AccSet
        <5>3. a.live[y] \in Times
          BY <4>3, <5>2, MapsDef DEF Has
        <5>4. QED
          BY <1>3, <5>3
      <4>5. a.live[y] >= t /\ t >= d /\ d \in Int /\ y \in DOMAIN a.live
        BY <1>4, <4>1, <4>2, <4>3 DEF Has
      <4>6. a.live[y] >= d
        BY <3>3, <4>4, <4>5
      <4>7. Has(b, y, t)
        BY <4>3, <4>5, <4>6 DEF Later, Has
      <4>8. QED
        BY <3>1, <4>2, <4>7
    <3>6. QED
      BY <3>4, <3>5
  <2>2. QED
    BY <1>1, <2>1, CoversNext DEF Loaded
<1>11. QED
  BY <1>2, <1>5, <1>6, <1>7, <1>8, <1>10

LEMMA BufferSpillsStep ==
  ASSUME Store, setup' = setup, BufferSpills
  PROVE  Store'
<1> USE DEF Store
<1>1. /\ flushed < Len(log) /\ flushed' = flushed + 1
      /\ UNCHANGED <<slots, byName, nextID, unregistered, log, now, crashes, recorded, synced>>
  BY DEF BufferSpills, memory, history
<1>2. flushed' \in 0..Len(log)
  BY <1>1, ScansTyped DEF LogOK
<1>3. /\ LogOK' /\ Scans' = Scans /\ Cutoff' = Cutoff
  BY <1>1, <1>2, Unwritten
<1>4. Covers'
  BY <1>1, <1>3, CoversNext DEF Covers, Holds, Loaded
<1>5. TablesOK' /\ SlotsOK' /\ HistoryOK' /\ ClockOK'
  BY <1>1, Fixed, Still DEF TablesOK, SlotsOK, HistoryOK, ClockOK, Loaded
<1>6. QED
  BY <1>3, <1>4, <1>5

LEMMA SyncStep ==
  ASSUME Store, setup' = setup, Sync
  PROVE  Store'
<1> USE DEF Store
<1>1. /\ flushed' \in {flushed, Len(log)}
      /\ synced' = [n \in Names |-> IF byName[n] = None THEN <<>> ELSE slots[byName[n]].set]
      /\ UNCHANGED <<slots, byName, nextID, unregistered, log, now, crashes, recorded>>
  BY DEF Sync, memory, history
<1>2. flushed' \in 0..Len(log)
  BY <1>1, ScansTyped DEF LogOK
<1>3. /\ LogOK' /\ Scans' = Scans /\ Cutoff' = Cutoff
  BY <1>1, <1>2, Unwritten
<1>4. Covers'
  BY <1>1, <1>3, CoversNext DEF Covers, Holds, Loaded
<1>5. HistoryOK'
  <2>1. ASSUME NEW n \in Names PROVE synced'[n] \in Maps(Seqs, Times)
    <3>1. CASE byName[n] = None
      BY <1>1, <3>1, EmptyMap
    <3>2. CASE byName[n] # None
      BY <1>1, <3>2 DEF TablesOK, SlotsOK, SlotSet
    <3>3. QED
      BY <3>1, <3>2
  <2>2. synced' \in [Names -> Maps(Seqs, Times)]
    BY <1>1, <2>1
  <2>3. QED
    BY <1>1, <2>2, Fixed, Still DEF HistoryOK
<1>6. TablesOK' /\ SlotsOK' /\ ClockOK'
  BY <1>1, Fixed, Still DEF TablesOK, SlotsOK, ClockOK, Loaded
<1>7. QED
  BY <1>3, <1>4, <1>5, <1>6

\* The compacted log is one of this store's, and holds all that is live.
LEMMA CompactedTyped ==
  ASSUME ClockOK, TablesOK, SlotsOK, LogOK, Covers, setup' = setup, now' = now,
         NEW p, p = Compacted(Scan(log, Cutoff), now)
  PROVE  /\ p \in Seq(Recs) /\ Len(p) \in Nat
         /\ \A x \in Loaded : \A s \in Live(slots[x]) :
              \/ TooOld(slots[x].set[s], Cutoff)
              \/ Has(Accumulated(p, x, Cutoff)[Len(p)], s, slots[x].set[s])
<1>1. PICK I, S, T, q, c, t, n, scan :
        /\ I = Ids /\ S = Seqs /\ T = Times /\ q = log /\ c = Cutoff /\ t = now
        /\ n = Len(log) /\ scan = Scan(log, Cutoff)
  OBVIOUS
<1>2. q \in Seq(RecSet(I, S, T)) /\ n \in Nat /\ n = Len(q)
  BY <1>1, ScansTyped DEF LogOK, Recs
<1>3. IdsOf(q) \subseteq I
  <2>1. \A k \in 1..n : q[k] \in RecSet(I, S, T)
    BY <1>2, ElementOfSeq
  <2>2. \A r \in RecSet(I, S, T) : r.id \in I
    BY DEF RecSet
  <2>3. QED
    BY <1>2, <2>1, <2>2 DEF IdsOf
<1>4. DOMAIN scan = IdsOf(q) /\ \A i \in IdsOf(q) : scan[i] = Scans[i][n]
  BY <1>1, <1>3 DEF Scan, Scans
<1>5. \A i \in DOMAIN scan : scan[i] \in AccSet(S, T)
  <2>1. n \in 0..n
    BY <1>2
  <2>2. QED
    BY <1>1, <1>3, <1>4, <2>1, ScansTyped
<1>6. MaxSlots \in Nat /\ I \in SUBSET (0..MaxSlots) /\ t \in T /\ ~TooOld(t, c)
  BY <1>1, Constants
<1>7. PICK m \in Nat : I \in SUBSET (0..m)
  BY <1>6
<1>8. p = Compacted(scan, t) /\ DOMAIN scan \subseteq I
  BY <1>1, <1>3, <1>4
<1>9. /\ p \in Seq(RecSet(I, S, T))
      /\ \A x \in DOMAIN scan : DOMAIN scan[x].live # {} =>
           x \in IdsOf(p) /\ Renewed(scan[x], t, Accumulated(p, x, c)[Len(p)])
  BY <1>5, <1>6, <1>7, <1>8, CompactedOK
<1>10. ASSUME NEW x \in Loaded, NEW s \in Live(slots[x]), ~TooOld(slots[x].set[s], Cutoff)
       PROVE  Has(Accumulated(p, x, Cutoff)[Len(p)], s, slots[x].set[s])
  <2>1. Has(Scans[x][n], s, slots[x].set[s]) /\ x \in Ids
    BY <1>1, <1>10 DEF Covers, Holds, TablesOK
  <2>2. x \in IdsOf(q)
    <3>1. ASSUME x \notin IdsOf(q) PROVE FALSE
      <4>1. Len(q) \in Nat /\ Len(q) = n /\ n \in 0..n
        BY <1>2
      <4>2. Accumulated(q, x, c)[n] = Blank
        BY <3>1, <4>1, NoRecord
      <4>3. Scans[x][n] = Blank
        BY <1>1, <2>1, <4>2 DEF Scans
      <4>4. QED
        BY <2>1, <4>3, BlankAcc DEF Has
    <3>2. QED
      BY <3>1
  <2>3. s \in DOMAIN scan[x].live /\ x \in DOMAIN scan
    BY <1>4, <2>1, <2>2 DEF Has
  <2>4. Renewed(scan[x], t, Accumulated(p, x, c)[Len(p)])
    BY <1>9, <2>3
  <2>5. slots[x].set[s] \in Times
    <3>1. slots[x] \in SlotSet(Seqs, MaxSeq, Times) /\ MaxSeq \in Nat /\ Seqs = 1..MaxSeq
      BY Constants DEF SlotsOK
    <3>2. QED
      BY <1>10, <3>1, SlotFields
  <2>6. t >= slots[x].set[s]
    BY <1>1, <2>5 DEF Times, ClockOK
  <2>7. QED
    BY <1>1, <2>3, <2>4, <2>6 DEF Renewed, Has
<1>11. p \in Seq(Recs)
  BY <1>1, <1>9 DEF Recs
<1>12. Len(p) \in Nat
  BY <1>11, LenProperties
<1>13. QED
  BY <1>10, <1>11, <1>12

\* A compaction that succeeds or fails: the log is replaced or stays, and covers the slots.
LEMMA RewrittenStep ==
  ASSUME Store, setup' = setup,
         log' \in {log, Compacted(Scan(log, Cutoff), now)}, flushed' \in {flushed, Len(log')},
         log' = log \/ flushed' = Len(log'),
         UNCHANGED <<slots, byName, nextID, unregistered, now, crashes, recorded, synced>>
  PROVE  Store'
<1> USE DEF Store
<1>1. CASE log' = log
  <2>1. flushed' \in 0..Len(log)
    BY <1>1, ScansTyped DEF LogOK
  <2>2. /\ LogOK' /\ Scans' = Scans /\ Cutoff' = Cutoff
    BY <1>1, <2>1, Unwritten
  <2>3. Covers'
    BY <1>1, <2>2, CoversNext DEF Covers, Holds, Loaded
  <2>4. TablesOK' /\ SlotsOK' /\ HistoryOK' /\ ClockOK'
    BY Fixed, Still DEF TablesOK, SlotsOK, HistoryOK, ClockOK, Loaded
  <2>5. QED
    BY <2>2, <2>3, <2>4
<1>2. CASE log' # log
  <2>1. PICK p : p = Compacted(Scan(log, Cutoff), now)
    OBVIOUS
  <2>2. log' = p /\ flushed' = Len(p)
    BY <1>2, <2>1
  <2>3. /\ p \in Seq(Recs) /\ Len(p) \in Nat
        /\ \A x \in Loaded : \A s \in Live(slots[x]) :
              \/ TooOld(slots[x].set[s], Cutoff)
              \/ Has(Accumulated(p, x, Cutoff)[Len(p)], s, slots[x].set[s])
    BY <2>1, CompactedTyped
  <2>4. LogOK'
    BY <2>2, <2>3, Still DEF LogOK
  <2>5. \A x \in Loaded : Scans'[x] = Accumulated(p, x, Cutoff)
    BY <2>2, Fixed, Still DEF Scans, TablesOK
  <2>6. Covers'
    BY <2>2, <2>3, <2>5, Still, CoversNext DEF Loaded
  <2>7. TablesOK' /\ SlotsOK' /\ HistoryOK' /\ ClockOK'
    BY Fixed, Still DEF TablesOK, SlotsOK, HistoryOK, ClockOK, Loaded
  <2>8. QED
    BY <2>4, <2>6, <2>7
<1>3. QED
  BY <1>1, <1>2

\* OpenWAL: the first k records of the log are left, the ids in I have a name there, and
\* each is a slot that has what was accumulated for it.
Reopened(k, I) ==
  /\ k \in flushed..Len(log) /\ flushed' = k /\ Len(log') = k /\ log' \in Seq(Recs)
  /\ \A i \in Ids : \A j \in 0..k : Scans'[i][j] = Scans[i][j]
  /\ DOMAIN slots' = I /\ I = {i \in Ids : Scans[i][k].name # Unnamed}
  /\ \A i \in I :
       /\ slots'[i] \in SlotSet(Seqs, MaxSeq, Times) /\ SlotOK(slots'[i], InOrder)
       /\ slots'[i].name = Scans[i][k].name /\ slots'[i].set = Scans[i][k].live
       /\ ~slots'[i].tombed
  /\ DOMAIN byName' = Names /\ byName' = [n \in Names |-> byName'[n]]
  /\ \A n \in Names :
       IF byName'[n] = None THEN \A i \in I : slots'[i].name # n
       ELSE byName'[n] \in I /\ slots'[byName'[n]].name = n
  /\ nextID' = NextIdAfter(I)

\* What a replay materializes from the first k records has the shape of a store.
LEMMA Reopening ==
  ASSUME Store, setup' = setup, Restart
  PROVE  /\ \E k, I : Reopened(k, I)
         /\ crashes < MaxCrashes /\ crashes' = crashes + 1
         /\ unregistered' = {} /\ ~dead' /\ syncing' = "idle"
         /\ UNCHANGED <<setup, now, recorded, synced>>
<1> USE DEF Store
<1>1. PICK k \in flushed..(IF dead THEN flushed ELSE Len(log)) :
        /\ log' = SubSeq(log, 1, k) /\ flushed' = k
        /\ slots' = [i \in NamedIn(Scan(SubSeq(log, 1, k), Cutoff)) |->
                       Materialize(Scan(SubSeq(log, 1, k), Cutoff)[i])]
        /\ byName' = [n \in Names |-> OwnerIn(Scan(SubSeq(log, 1, k), Cutoff), n)]
        /\ nextID' = NextIdAfter(NamedIn(Scan(SubSeq(log, 1, k), Cutoff)))
  BY DEF Restart
<1>2. PICK q : q = SubSeq(log, 1, k)
  OBVIOUS
<1>3. PICK scan : scan = Scan(q, Cutoff)
  OBVIOUS
<1>4. PICK ids : ids = NamedIn(scan)
  OBVIOUS
<1>5. /\ log' = q /\ flushed' = k
      /\ slots' = [i \in ids |-> Materialize(scan[i])]
      /\ byName' = [n \in Names |-> OwnerIn(scan, n)]
      /\ nextID' = NextIdAfter(ids)
  BY <1>1, <1>2, <1>3, <1>4
<1>6. /\ crashes < MaxCrashes /\ crashes' = crashes + 1
      /\ unregistered' = {} /\ ~dead' /\ syncing' = "idle"
      /\ UNCHANGED <<setup, now, recorded, synced>>
  BY DEF Restart, history
<1>7. k \in 0..Len(log) /\ Len(log) \in Nat /\ k \in Nat
  <2>1. k \in flushed..(IF dead THEN flushed ELSE Len(log))
    OBVIOUS
  <2>2. QED
    BY <2>1, ScansTyped DEF LogOK
<1>8. q \in Seq(Recs) /\ Len(q) = k
  <2>1. \A j \in 1..k : log[j] \in Recs
    <3>1. \A j \in 1..Len(log) : log[j] \in Recs
      BY ElementOfSeq DEF LogOK
    <3>2. QED
      BY <1>7, <3>1
  <2>2. CASE k = 0
    <3>1. q = <<>>
      BY <1>2, <1>7, <2>2, SubSeqProperties
    <3>2. QED
      BY <2>2, <3>1, EmptySeq
  <2>3. CASE k # 0
    <3>1. 1 \in Int /\ k \in Int /\ 1 <= k
      BY <1>7, <2>3
    <3>2. q \in Seq(Recs) /\ Len(q) = k - 1 + 1
      BY <1>2, <2>1, <3>1, SubSeqProperties
    <3>3. QED
      BY <1>7, <3>2
  <2>4. QED
    BY <2>2, <2>3
<1>9. LogOK'
  BY <1>5, <1>6, <1>7, <1>8, Still DEF LogOK
<1>10. IdsOf(q) \subseteq Ids
  <2>1. \A j \in 1..k : q[j] \in Recs
    BY <1>8, ElementOfSeq
  <2>2. \A r \in Recs : r.id \in Ids
    BY DEF Recs, RecSet
  <2>3. QED
    BY <1>8, <2>1, <2>2 DEF IdsOf
<1>11. DOMAIN scan = IdsOf(q) /\ \A i \in IdsOf(q) : scan[i] = Scans'[i][k]
  <2>1. DOMAIN scan = IdsOf(q) /\ \A i \in IdsOf(q) : scan[i] = Accumulated(q, i, Cutoff)[k]
    BY <1>3, <1>8 DEF Scan
  <2>2. \A i \in Ids : Scans'[i] = Accumulated(q, i, Cutoff)
    BY <1>5, <1>6, Fixed, Still DEF Scans
  <2>3. QED
    BY <1>10, <2>1, <2>2
<1>12. \A i \in DOMAIN scan : i \in Ids /\ scan[i] \in AccSet(Seqs, Times)
  <2>1. q \in Seq(RecSet(Ids, Seqs, Times)) /\ k \in 0..Len(q)
    BY <1>7, <1>8 DEF Recs
  <2>2. ASSUME NEW i \in Ids PROVE Accumulated(q, i, Cutoff)[k] \in AccSet(Seqs, Times)
    BY <2>1, Accumulates
  <2>3. \A i \in Ids : Scans'[i] = Accumulated(q, i, Cutoff)
    BY <1>5, <1>6, Fixed, Still DEF Scans
  <2>4. QED
    BY <1>10, <1>11, <2>2, <2>3
<1>13. /\ DOMAIN slots' = ids /\ ids \subseteq Ids /\ ids \subseteq DOMAIN scan
      /\ \A i \in ids : scan[i].name # Unnamed
  BY <1>4, <1>5, <1>12 DEF NamedIn
<1>14. ASSUME NEW i \in ids
       PROVE  /\ slots'[i] \in SlotSet(Seqs, MaxSeq, Times) /\ SlotOK(slots'[i], InOrder)
              /\ slots'[i].name = scan[i].name /\ slots'[i].set = scan[i].live
              /\ ~slots'[i].tombed
  <2>1. PICK a, r : a = scan[i] /\ r = Materialize(a)
    OBVIOUS
  <2>2. /\ a \in AccSet(Seqs, Times) /\ a.name # Unnamed /\ r = Materialize(a)
        /\ MaxSeq \in Nat /\ Seqs = 1..MaxSeq
    BY <1>13, <1>12, <2>1, Constants
  <2>3. /\ r \in SlotSet(Seqs, MaxSeq, Times) /\ SlotOK(r, InOrder)
        /\ r.name = a.name /\ r.set = a.live /\ ~r.tombed
    BY <2>2, MaterializeOK
  <2>4. slots'[i] = r
    BY <1>5, <2>1
  <2>5. QED
    BY <2>1, <2>3, <2>4
<1>15. ids \in SUBSET (0..MaxSlots) /\ MaxSlots \in Nat
  BY <1>13, Constants
<1>16. ASSUME NEW n \in Names, byName'[n] # None
       PROVE  byName'[n] \in ids /\ slots'[byName'[n]].name = n
  <2>1. OwnersIn(scan, n) # {} /\ byName'[n] = GreatestOf(OwnersIn(scan, n))
    BY <1>5, <1>16 DEF OwnerIn
  <2>2. PICK S : S = OwnersIn(scan, n)
    OBVIOUS
  <2>3. S \in SUBSET (0..MaxSlots) /\ S # {} /\ \A i \in S : i \in ids /\ scan[i].name = n
    BY <1>4, <1>15, <2>1, <2>2 DEF OwnersIn
  <2>4. GreatestOf(S) \in S
    BY <1>15, <2>3, GreatestIsGreatest
  <2>5. QED
    BY <1>14, <2>1, <2>2, <2>3, <2>4
<1>17. ASSUME NEW n \in Names, byName'[n] = None
       PROVE  \A i \in ids : slots'[i].name # n
  <2>1. PICK S : S = OwnersIn(scan, n)
    OBVIOUS
  <2>2. S = {}
    <3>1. ASSUME S # {} PROVE FALSE
      <4>1. S \in SUBSET (0..MaxSlots) /\ \A i \in S : i \in ids
        BY <1>4, <1>15, <2>1 DEF OwnersIn
      <4>2. GreatestOf(S) \in S
        BY <1>15, <3>1, <4>1, GreatestIsGreatest
      <4>3. byName'[n] = GreatestOf(S)
        BY <1>5, <2>1, <3>1 DEF OwnerIn
      <4>4. QED
        BY <1>13, <1>17, <4>1, <4>2, <4>3, Constants
    <3>2. QED
      BY <3>1
  <2>3. QED
    BY <1>4, <1>14, <2>1, <2>2 DEF OwnersIn
<1>18. \A i \in Ids : \A j \in 0..k : Scans'[i][j] = Scans[i][j]
  <2>1. PICK c : c = Cutoff
    OBVIOUS
  <2>2. \A j \in 1..k : q[j] = log[j]
    BY <1>2, <1>7
  <2>3. k \in Nat /\ Alike(q, log, k)
    BY <1>7, <1>8, <2>2 DEF Alike
  <2>4. \A i \in Ids : \A j \in 0..k : Accumulated(q, i, c)[j] = Accumulated(log, i, c)[j]
    BY <2>3, Prefix
  <2>5. \A i \in Ids : Scans[i] = Accumulated(log, i, c) /\ Scans'[i] = Accumulated(q, i, c)
    BY <1>5, <1>6, <2>1, Fixed, Still DEF Scans
  <2>6. QED
    BY <2>4, <2>5
<1>19. \A i \in IdsOf(q) : scan[i] = Scans[i][k]
  <2>1. k \in 0..k
    BY <1>7
  <2>2. QED
    BY <1>10, <1>11, <1>18, <2>1
<1>20. ids = {i \in Ids : Scans[i][k].name # Unnamed}
  <2>1. ASSUME NEW i \in Ids, i \notin IdsOf(q) PROVE Scans[i][k].name = Unnamed
    <3>1. Len(q) \in Nat /\ k \in 0..Len(q) /\ k \in 0..k
      BY <1>7, <1>8
    <3>2. Accumulated(q, i, Cutoff)[k] = Blank
      BY <2>1, <3>1, NoRecord
    <3>3. Scans'[i] = Accumulated(q, i, Cutoff)
      BY <1>5, <1>6, Fixed, Still DEF Scans
    <3>4. Scans[i][k] = Blank
      BY <1>18, <3>1, <3>2, <3>3
    <3>5. QED
      BY <3>4, BlankAcc
  <2>2. \A i \in ids : i \in Ids /\ Scans[i][k].name # Unnamed
    BY <1>11, <1>13, <1>19
  <2>3. \A i \in Ids : Scans[i][k].name # Unnamed => i \in ids
    BY <1>4, <1>11, <1>19, <2>1 DEF NamedIn
  <2>4. QED
    BY <2>2, <2>3
<1>21. k \in flushed..Len(log)
  <2>1. k \in flushed..(IF dead THEN flushed ELSE Len(log))
    OBVIOUS
  <2>2. QED
    BY <1>7, <2>1
<1>22. /\ DOMAIN byName' = Names /\ byName' = [n \in Names |-> byName'[n]]
       /\ nextID' = NextIdAfter(ids)
  BY <1>5
<1>23. ASSUME NEW i \in ids
       PROVE  slots'[i].name = Scans[i][k].name /\ slots'[i].set = Scans[i][k].live
  BY <1>11, <1>13, <1>14, <1>19
<1>24. Reopened(k, ids)
  <2>1. flushed' = k /\ Len(log') = k /\ log' \in Seq(Recs)
    BY <1>5, <1>8
  <2>2. \A i \in ids :
          /\ slots'[i] \in SlotSet(Seqs, MaxSeq, Times) /\ SlotOK(slots'[i], InOrder)
          /\ slots'[i].name = Scans[i][k].name /\ slots'[i].set = Scans[i][k].live
          /\ ~slots'[i].tombed
    BY ONLY <1>14, <1>23
  <2>3. \A n \in Names :
          IF byName'[n] = None THEN \A i \in ids : slots'[i].name # n
          ELSE byName'[n] \in ids /\ slots'[byName'[n]].name = n
    BY ONLY <1>16, <1>17
  <2>4. DOMAIN slots' = ids
    BY <1>13
  <2>5. QED
    BY ONLY <1>18, <1>20, <1>21, <1>22, <2>1, <2>2, <2>3, <2>4 DEF Reopened
<1>25. QED
  BY <1>6, <1>24

LEMMA RestartStep ==
  ASSUME Store, setup' = setup, Restart
  PROVE  Store'
<1> USE DEF Store
<1>1. PICK k, I : Reopened(k, I)
  BY Reopening
<1>2. /\ crashes' = crashes + 1 /\ unregistered' = {}
      /\ UNCHANGED <<setup, now, recorded, synced>>
  BY Reopening
<1>3. k \in 0..Len(log) /\ Len(log) \in Nat /\ k \in 0..k
  BY <1>1, ScansTyped DEF LogOK, Reopened
<1>4. LogOK'
  BY <1>1, <1>2, <1>3, Still DEF LogOK, Reopened
<1>5. SlotsOK'
  BY <1>1, <1>2, Fixed, Still DEF SlotsOK, Loaded, Reopened
<1>6. I \subseteq Ids /\ I \in SUBSET (0..MaxSlots) /\ MaxSlots \in Nat
  BY <1>1, Constants DEF Reopened
<1>7. TablesOK'
  <2>1. byName' \in [Names -> Ids \cup {None}]
    BY <1>1, <1>6 DEF Reopened
  <2>2. nextID' \in 0..MaxSlots /\ \A i \in I : i < nextID'
    <3>1. nextID' = NextIdAfter(I)
      BY <1>1 DEF Reopened
    <3>2. CASE I = {}
      BY <1>6, <3>1, <3>2 DEF NextIdAfter
    <3>3. CASE I # {}
      <4>1. PICK g : g = GreatestOf(I)
        OBVIOUS
      <4>2. g \in I /\ \A y \in I : y <= g
        BY <1>6, <3>3, <4>1, GreatestIsGreatest
      <4>3. nextID' = 1 + g
        BY <3>1, <3>3, <4>1 DEF NextIdAfter
      <4>4. g \in 0..(MaxSlots - 1)
        BY <1>6, <4>2 DEF Ids
      <4>5. \A y \in I : y \in Int
        BY <1>6
      <4>6. QED
        BY <1>6, <4>2, <4>3, <4>4, <4>5
    <3>4. QED
      BY <3>2, <3>3
  <2>3. \A n \in Names : byName'[n] # None =>
          /\ byName'[n] \in DOMAIN slots' /\ slots'[byName'[n]].name = n
          /\ ~slots'[byName'[n]].tombed
    BY <1>1 DEF Reopened
  <2>4. DOMAIN slots' = I
    BY <1>1 DEF Reopened
  <2>5. QED
    BY <1>2, <1>6, <2>1, <2>2, <2>3, <2>4, Fixed DEF TablesOK, Loaded
<1>8. Covers'
  <2>1. ASSUME NEW x \in I, NEW y \in Live(slots'[x])
        PROVE  Has(Scans'[x][Len(log')], y, slots'[x].set[y])
    <3>1. slots'[x].set = Scans'[x][Len(log')].live
      BY <1>1, <1>3, <1>6 DEF Reopened
    <3>2. slots'[x].set[y] \in Times
      <4>1. slots'[x] \in SlotSet(Seqs, MaxSeq, Times) /\ MaxSeq \in Nat /\ Seqs = 1..MaxSeq
        BY <1>1, Constants DEF Reopened
      <4>2. QED
        BY <2>1, <4>1, SlotFields
    <3>3. slots'[x].set[y] >= slots'[x].set[y]
      BY <3>2, Constants
    <3>4. QED
      BY <2>1, <3>1, <3>3 DEF Has, Live
  <2>2. DOMAIN slots' = I
    BY <1>1 DEF Reopened
  <2>3. QED
    BY <2>1, <2>2, CoversNext
<1>9. HistoryOK' /\ ClockOK'
  BY <1>2, Fixed, Still DEF HistoryOK, ClockOK
<1>10. QED
  BY <1>4, <1>5, <1>7, <1>8, <1>9

LEMMA StoreInit ==
  ASSUME Init
  PROVE  Store
<1>1. ClockOK
  BY DEF Init, ClockOK
<1>2. Loaded = {} /\ log = <<>> /\ flushed = 0
  BY DEF Init, Loaded
<1>3. log \in Seq(Recs) /\ Len(log) = 0
  BY <1>2, EmptySeq
<1>4. TablesOK
  BY <1>1, <1>2, Constants DEF Init, TablesOK
<1>5. HistoryOK
  BY EmptyMap DEF Init, HistoryOK
<1>6. QED
  BY <1>1, <1>2, <1>3, <1>4, <1>5 DEF Store, SlotsOK, LogOK, Covers

LEMMA StoreStep ==
  ASSUME Store, [Next]_vars
  PROVE  Store'
<1>1. CASE UNCHANGED vars
  BY <1>1, RewrittenStep DEF vars
<1>2. CASE Next
  <2>1. setup' = setup
    BY <1>2 DEF Next
  <2>2. CASE \E n \in Names : SlotPublish(n) \/ DeleteSlot(n)
    BY <2>1, <2>2, SlotPublishStep, DeleteSlotStep
  <2>3. CASE \E i \in Ids : SlotRegister(i)
    BY <2>1, <2>3, SlotRegisterStep
  <2>4. CASE \E i \in Loaded, s \in Seqs : Record(i, s) \/ ConfirmOne(i, s) \/ ConfirmCursor(i, s)
    BY <2>1, <2>4, RecordStep, ConfirmOneStep, ConfirmCursorStep
  <2>5. CASE \E i \in Loaded : SweepSlot(i)
    BY <2>1, <2>5, SweepSlotStep
  <2>6. CASE Tick
    BY <2>1, <2>6, TickStep
  <2>7. CASE BufferSpills
    BY <2>1, <2>7, BufferSpillsStep
  <2>8. CASE Sync
    BY <2>1, <2>8, SyncStep
  <2>9. CASE Compact
    BY <2>1, <2>9, RewrittenStep DEF Compact, memory, history
  <2>10. CASE CompactFails
    <3>1. /\ log' \in {log, Compacted(Scan(log, Cutoff), now)}
          /\ flushed' \in {flushed, Len(log')} /\ (log' = log \/ flushed' = Len(log'))
      BY <2>10 DEF CompactFails
    <3>2. QED
      BY <2>1, <2>10, <3>1, RewrittenStep DEF CompactFails, memory, history
  <2>11. CASE Snapshot
    BY <2>1, <2>11, SnapshotStep
  <2>12. CASE Restart
    BY <2>1, <2>12, RestartStep
  <2>13. QED
    BY <1>2, <2>2, <2>3, <2>4, <2>5, <2>6, <2>7, <2>8, <2>9, <2>10, <2>11, <2>12 DEF Next
<1>3. QED
  BY <1>1, <1>2

\* Whatever mixture of records, confirmations, deletes, sweeps, snapshots, compactions (also
\* failed ones), crashes and replays went before, slots, tables and log are in order, and the
\* log still says everything the slots hold.
THEOREM StoreCorrect == Spec => []Store
<1>1. Init => Store
  BY StoreInit
<1>2. Store /\ [Next]_vars => Store'
  BY StoreStep
<1>3. QED
  BY <1>1, <1>2, PTL DEF Spec

\* The store is well typed: slots below the next id, names that resolve to a slot of that
\* name that is not deleted, ids Slot has published and not yet logged, and the part of
\* the log that is in the file.
THEOREM TypeCorrect == Spec => []TypeOK
<1>1. Store => TypeOK
  <2> SUFFICES ASSUME Store PROVE TypeOK
    OBVIOUS
  <2>1. ASSUME NEW i \in Loaded
        PROVE  /\ slots[i].name \in Names \cup {NoName} /\ Live(slots[i]) \subseteq Seqs
               /\ slots[i].max \in 0..MaxSeq /\ slots[i].min \in 0..MaxSeq
    <3>1. slots[i] \in SlotSet(Seqs, MaxSeq, Times) /\ MaxSeq \in Nat /\ Seqs = 1..MaxSeq
      BY Constants DEF Store, SlotsOK
    <3>2. QED
      BY <3>1, SlotFields
  <2>2. QED
    BY <2>1 DEF Store, TablesOK, LogOK, TypeOK, Registered, SlotOf
<1>2. QED
  BY <1>1, StoreCorrect, PTL

\* A scan of the log restores at least what the slots hold: every change of a slot is in
\* the log, with a time that a TTL does not cut off sooner.
THEOREM LogCovers == Spec => []LogCoversMemory
<1>1. Store => LogCoversMemory
  <2> SUFFICES ASSUME Store, NEW i \in Loaded, NEW s \in Live(slots[i]),
                      ~TooOld(slots[i].set[s], Cutoff)
               PROVE  i \in IdsOf(log) /\ s \in DOMAIN Scan(log, Cutoff)[i].live
    BY DEF LogCoversMemory
  <2>1. i \in Ids /\ Has(Scans[i][Len(log)], s, slots[i].set[s])
    BY DEF Store, Covers, Holds, TablesOK
  <2>2. Scans[i] = Accumulated(log, i, Cutoff)
    BY <2>1 DEF Scans
  <2>3. i \in IdsOf(log)
    <3>1. ASSUME i \notin IdsOf(log) PROVE FALSE
      <4>1. Len(log) \in Nat /\ Len(log) \in 0..Len(log)
        BY ScansTyped DEF Store
      <4>2. Accumulated(log, i, Cutoff)[Len(log)] = Blank
        BY <3>1, <4>1, NoRecord
      <4>3. QED
        BY <2>1, <2>2, <4>2, BlankAcc DEF Has
    <3>2. QED
      BY <3>1
  <2>4. Scan(log, Cutoff)[i] = Scans[i][Len(log)]
    BY <2>2, <2>3 DEF Scan
  <2>5. QED
    BY <2>1, <2>3, <2>4 DEF Has
<1>2. QED
  BY <1>1, StoreCorrect, PTL

\* "Fresh: definitely not seen": for an application that acknowledges in delivery order
\* the gate's two bounds enclose every live number.
THEOREM FreshIsUnseen == Spec => []FreshMeansUnseen
<1>1. Store => FreshMeansUnseen
  <2> SUFFICES ASSUME Store, InOrder, NEW i \in Loaded, NEW s \in Seqs, Fresh(slots[i], s),
                      s \in Live(slots[i])
               PROVE  FALSE
    BY DEF FreshMeansUnseen
  <2>1. /\ slots[i] \in SlotSet(Seqs, MaxSeq, Times) /\ MaxSeq \in Nat /\ Seqs = 1..MaxSeq
        /\ InFifo(slots[i]) /\ InOrderPart(slots[i])
    BY Constants DEF Store, SlotsOK, SlotOK
  <2>2. /\ slots[i].max \in 0..MaxSeq /\ slots[i].min \in 0..MaxSeq /\ s \in 1..MaxSeq
    BY <2>1, SlotFields
  <2>3. slots[i].min <= s /\ s <= slots[i].max
    BY <2>1 DEF InFifo, InOrderPart
  <2>4. ~ (s > slots[i].max) /\ ~ (s < slots[i].min) /\ slots[i].max # 0
    BY <2>1, <2>2, <2>3
  <2>5. QED
    BY <2>4 DEF Fresh
<1>2. QED
  BY <1>1, StoreCorrect, PTL

-----------------------------------------------------------------------------
(* What the store says was processed, and what it keeps.                   *)

\* A store whose log is never compacted and whose names are resolved by one goroutine
\* at a time, or one that has not been restarted yet.
Plain   == CompactAt = 0 /\ ~ConcurrentSlot
Premise == crashes = 0 \/ Plain

MemSound ==
  \A i \in Loaded : slots[i].name \in Names => Live(slots[i]) \subseteq recorded[slots[i].name]
SyncedOK ==
  \A n \in Names : \A s \in DOMAIN synced[n] :
    \/ TooOld(synced[n][s], Cutoff)
    \/ byName[n] # None /\ s \in Live(slots[byName[n]])
MemOK == MemSound /\ SyncedOK

\* The accumulator of a named id holds what was recorded for that name, after every
\* record of the log; of no other id does it hold anything, and no two ids have one name.
LogSound ==
  \A k \in 0..Len(log) : \A i \in Ids :
    /\ Scans[i][k].name \in Names \cup {Unnamed}
    /\ Scans[i][k].name = Unnamed => DOMAIN Scans[i][k].live = {}
    /\ Scans[i][k].name \in Names => DOMAIN Scans[i][k].live \subseteq recorded[Scans[i][k].name]
LogUnique ==
  \A k \in 0..Len(log) : \A i, j \in Ids :
    Scans[i][k].name \in Names /\ Scans[i][k].name = Scans[j][k].name => i = j

\* The whole log names the slots that are registered and not deleted.
Resolved(i) == i \in Loaded /\ i \notin unregistered /\ ~slots[i].tombed
Linked ==
  \A i \in Ids : Scans[i][Len(log)].name = IF Resolved(i) THEN slots[i].name ELSE Unnamed
InMemory ==
  \A i \in Loaded :
    /\ ~slots[i].tombed => slots[i].name \in Names /\ byName[slots[i].name] = i
    /\ i \in unregistered => ~slots[i].tombed /\ Live(slots[i]) = {}

\* Wherever a crash may cut the log, what is left has what Sync found.
Durable ==
  \A k \in flushed..Len(log) : \A n \in Names : \A s \in DOMAIN synced[n] :
    \/ TooOld(synced[n][s], Cutoff)
    \/ \E i \in Ids : Scans[i][k].name = n /\ Has(Scans[i][k], s, synced[n][s])
Writer == ~dead /\ syncing # "compact"
Replayable == LogSound /\ LogUnique /\ Linked /\ InMemory /\ Durable /\ Writer

Promise == (Premise => MemOK) /\ (Plain => Replayable)

\* Records that leave an accumulator its name, and no number outside W.
AllWithin(w, i, W) ==
  \A j \in 1..Len(w) : w[j].id = i =>
    \/ w[j].op \in {"confirm", "upto"}
    \/ w[j].op = "record" /\ w[j].seq \in W
    \/ w[j].op = "snapshot" /\ w[j].seqs \subseteq W

\* Such records leave an accumulator its name and no number from elsewhere.
LEMMA SameName ==
  ASSUME NEW n \in Nat, NEW a, NEW w, Len(w) \in Nat, NEW i, NEW c, NEW b, Grown(n, a, w, i, c, b),
         NEW W, DOMAIN a[n].live \subseteq W, AllWithin(w, i, W)
  PROVE  \A j \in 0..Len(w) : b[n + j].name = a[n].name /\ DOMAIN b[n + j].live \subseteq W
<1>1. PICK l \in Nat : l = Len(w)
  OBVIOUS
<1> DEFINE G == {j \in 0..l : b[n + j].name = a[n].name /\ DOMAIN b[n + j].live \subseteq W}
<1>2. 0 \in G
  <2>1. n + 0 = n /\ n \in 0..n
    OBVIOUS
  <2>2. b[n + 0] = a[n]
    BY <2>1 DEF Grown
  <2>3. QED
    BY <2>2
<1>3. ASSUME NEW k \in 0..(l - 1), k \in G PROVE k + 1 \in G
  <2>1. PICK j : j = k + 1
    OBVIOUS
  <2>2. j \in 1..l /\ j \in 0..l /\ n + j - 1 = n + k
    BY <2>1
  <2>3. PICK u, v, r : u = b[n + j - 1] /\ v = b[n + j] /\ r = w[j]
    OBVIOUS
  <2>4. u.name = a[n].name /\ DOMAIN u.live \subseteq W
    BY <1>3, <2>2, <2>3
  <2>5. IF r.id = i THEN Becomes(u, r, c, v) ELSE v = u
    BY <1>1, <2>2, <2>3 DEF Grown
  <2>6. r.id = i => \/ r.op \in {"confirm", "upto"}
                    \/ r.op = "record" /\ r.seq \in W
                    \/ r.op = "snapshot" /\ r.seqs \subseteq W
    BY <1>1, <2>2, <2>3 DEF AllWithin
  <2>7. v.name = u.name /\ DOMAIN v.live \subseteq W
    <3>1. CASE r.id # i
      BY <2>4, <2>5, <3>1
    <3>2. CASE r.id = i /\ r.op \in {"confirm", "upto"}
      BY <2>4, <2>5, <3>2 DEF Becomes
    <3>3. CASE r.id = i /\ r.op = "record" /\ r.seq \in W
      <4>1. v.name = u.name /\ (v.live = u.live \/ DOMAIN v.live = DOMAIN u.live \cup {r.seq})
        BY <2>5, <3>3 DEF Becomes
      <4>2. QED
        BY <2>4, <3>3, <4>1
    <3>4. CASE r.id = i /\ r.op = "snapshot" /\ r.seqs \subseteq W
      <4>1. v.name = u.name /\ (DOMAIN v.live = {} \/ DOMAIN v.live = r.seqs)
        BY <2>5, <3>4 DEF Becomes
      <4>2. QED
        BY <3>4, <4>1
    <3>5. QED
      BY <2>6, <3>1, <3>2, <3>3, <3>4
  <2>8. QED
    BY <2>1, <2>2, <2>3, <2>4, <2>7
<1> HIDE DEF G
<1>4. \A k \in 0..l : k \in G
  BY <1>2, <1>3, FromZero
<1>5. QED
  BY <1>1, <1>4 DEF G

LEMMA QuietMem ==
  ASSUME MemOK, Quiet, TablesOK
  PROVE  MemOK'
<1>1. MemSound'
  <2>1. ASSUME NEW x \in Loaded, slots'[x].name \in Names
        PROVE  Live(slots'[x]) \subseteq recorded'[slots'[x].name]
    BY <2>1 DEF MemOK, MemSound, Quiet
  <2>2. DOMAIN slots' = Loaded
    BY DEF Quiet
  <2>3. QED
    BY <2>1, <2>2 DEF MemSound, Loaded
<1>2. SyncedOK'
  <2>1. ASSUME NEW n \in Names, NEW s \in DOMAIN synced'[n], ~TooOld(synced'[n][s], Cutoff')
        PROVE  byName'[n] # None /\ s \in Live(slots'[byName'[n]])
    <3>1. s \in DOMAIN synced[n] /\ synced'[n][s] = synced[n][s] /\ byName' = byName
      BY DEF Quiet
    <3>2. Cutoff' = Cutoff
      BY Still DEF Quiet
    <3>3. byName[n] # None /\ s \in Live(slots[byName[n]])
      BY <2>1, <3>1, <3>2 DEF MemOK, SyncedOK
    <3>4. QED
      BY <3>1, <3>3 DEF Quiet
  <2>2. None' = None
    BY Fixed DEF Quiet
  <2>3. QED
    BY <2>1, <2>2 DEF SyncedOK
<1>3. QED
  BY <1>1, <1>2 DEF MemOK

LEMMA QuietReplayable ==
  ASSUME Store, MemOK, Plain, Replayable, Quiet, NEW w, QuietLog(w)
  PROVE  Replayable'
<1>1. /\ w \in Seq(Recs) /\ log' = log \o w /\ setup' = setup /\ now' = now
      /\ flushed' = flushed /\ unregistered' = unregistered /\ byName' = byName
      /\ DOMAIN slots' = Loaded
  BY DEF Quiet, QuietLog
<1>2. /\ LogOK' /\ Cutoff' = Cutoff /\ Ids' = Ids
      /\ Len(log') = Len(log) + Len(w) /\ Len(log) \in Nat /\ Len(w) \in Nat
      /\ \A i \in Ids : Grown(Len(log), Scans[i], w, i, Cutoff, Scans'[i])
  BY <1>1, Written, Fixed DEF Store
<1>3. PICK n, l : n = Len(log) /\ l = Len(w)
  OBVIOUS
<1>4. n \in Nat /\ l \in Nat /\ Len(log') = n + l
  BY <1>2, <1>3
<1>5. \A i \in Ids : \A k \in 0..n : Scans'[i][k] = Scans[i][k]
  BY <1>2, <1>3 DEF Grown
<1>6. ASSUME NEW i \in Ids, NEW W,
             W = IF Scans[i][n].name \in Names THEN recorded'[Scans[i][n].name] ELSE {}
      PROVE  \A j \in 0..l : Scans'[i][n + j].name = Scans[i][n].name
                             /\ DOMAIN Scans'[i][n + j].live \subseteq W
  <2>1. n \in 0..n
    BY <1>4
  <2>2. DOMAIN Scans[i][n].live \subseteq W
    BY <1>3, <1>6, <2>1 DEF Replayable, LogSound, Quiet
  <2>3. Scans[i][n].name = IF Resolved(i) THEN slots[i].name ELSE Unnamed
    BY <1>3 DEF Replayable, Linked
  <2>4. i \in Loaded /\ ~slots[i].tombed => slots[i].name \in Names
    BY DEF Replayable, InMemory
  <2>5. ASSUME NEW j \in 1..Len(w), w[j].id = i
        PROVE  \/ w[j].op \in {"confirm", "upto"}
               \/ w[j].op = "record" /\ w[j].seq \in W
               \/ w[j].op = "snapshot" /\ w[j].seqs \subseteq W
    <3>1. CASE w[j].op \in {"confirm", "upto"}
      BY <3>1
    <3>2. CASE /\ w[j].op = "record" /\ w[j].id \in Loaded /\ ~slots[w[j].id].tombed
               /\ w[j].id \notin unregistered \/ ConcurrentSlot
               /\ w[j].seq \in recorded'[slots[w[j].id].name]
      <4>1. Resolved(i)
        BY <2>5, <3>2 DEF Resolved, Plain
      <4>2. QED
        BY <1>6, <2>3, <2>4, <2>5, <3>2, <4>1 DEF Resolved
    <3>3. CASE /\ w[j].op = "snapshot" /\ w[j].id \in Loaded /\ ~slots[w[j].id].tombed
               /\ Live(slots[w[j].id]) # {} /\ w[j].seqs = Live(slots[w[j].id])
      <4>1. Resolved(i)
        BY <2>5, <3>3 DEF Resolved, Replayable, InMemory
      <4>2. W = recorded'[slots[i].name] /\ slots[i].name \in Names /\ i \in Loaded
        BY <1>6, <2>3, <2>4, <4>1 DEF Resolved
      <4>3. Live(slots[i]) \subseteq recorded[slots[i].name]
        BY <4>2 DEF MemOK, MemSound
      <4>4. recorded[slots[i].name] \subseteq recorded'[slots[i].name]
        BY <4>2 DEF Quiet
      <4>5. QED
        BY <2>5, <3>3, <4>2, <4>3, <4>4
    <3>4. QED
      BY <3>1, <3>2, <3>3 DEF QuietLog
  <2>6. AllWithin(w, i, W)
    BY <2>5 DEF AllWithin
  <2>7. PICK a, b, c : a = Scans[i] /\ b = Scans'[i] /\ c = Cutoff
    OBVIOUS
  <2>8. Grown(n, a, w, i, c, b) /\ DOMAIN a[n].live \subseteq W /\ Len(w) \in Nat /\ n \in Nat
    BY <1>2, <1>3, <2>2, <2>7
  <2>9. \A j \in 0..Len(w) : b[n + j].name = a[n].name /\ DOMAIN b[n + j].live \subseteq W
    BY <2>6, <2>8, SameName
  <2>10. QED
    BY <1>3, <2>7, <2>9
<1>7. ASSUME NEW k \in 0..Len(log'), ~ (k \in 0..n)
      PROVE  k - n \in 0..l /\ n + (k - n) = k /\ n \in 0..n
  BY <1>4, <1>7
<1>8. \A k \in 0..Len(log') : ~ (k \in 0..n) => \A i \in Ids :
        /\ Scans'[i][k].name = Scans[i][n].name
        /\ DOMAIN Scans'[i][k].live \subseteq
             IF Scans[i][n].name \in Names THEN recorded'[Scans[i][n].name] ELSE {}
  <2> DEFINE V(i) == IF Scans[i][n].name \in Names THEN recorded'[Scans[i][n].name] ELSE {}
  <2>1. ASSUME NEW k \in 0..Len(log'), ~ (k \in 0..n), NEW i \in Ids
        PROVE  Scans'[i][k].name = Scans[i][n].name /\ DOMAIN Scans'[i][k].live \subseteq V(i)
    <3>1. PICK j : j = k - n
      OBVIOUS
    <3>2. j \in 0..l /\ n + j = k
      BY <1>7, <2>1, <3>1
    <3>3. PICK W : W = V(i)
      OBVIOUS
    <3>4. Scans'[i][n + j].name = Scans[i][n].name /\ DOMAIN Scans'[i][n + j].live \subseteq W
      BY <1>6, <3>2, <3>3
    <3>5. QED
      BY <3>2, <3>3, <3>4
  <2>2. QED
    BY <2>1
<1>9. \A n1 \in Names : recorded[n1] \subseteq recorded'[n1]
  BY DEF Quiet
<1>10. n \in 0..Len(log) /\ \A k \in 0..n : k \in 0..Len(log)
  BY <1>3, <1>4
<1>11. LogSound'
  <2>1. ASSUME NEW k \in 0..Len(log'), NEW i \in Ids
        PROVE  /\ Scans'[i][k].name \in Names \cup {Unnamed}
               /\ Scans'[i][k].name = Unnamed => DOMAIN Scans'[i][k].live = {}
               /\ Scans'[i][k].name \in Names =>
                    DOMAIN Scans'[i][k].live \subseteq recorded'[Scans'[i][k].name]
    <3>1. CASE k \in 0..n
      BY <1>5, <1>9, <1>10, <3>1 DEF Replayable, LogSound
    <3>2. CASE ~ (k \in 0..n)
      <4>1. Scans[i][n].name \in Names \cup {Unnamed} /\ Unnamed \notin Names
        BY <1>10, Constants DEF Replayable, LogSound, Store
      <4>2. QED
        BY <1>8, <3>2, <4>1
    <3>3. QED
      BY <3>1, <3>2
  <2>2. QED
    BY <1>2, <2>1 DEF LogSound
<1>12. LogUnique'
  <2>1. ASSUME NEW k \in 0..Len(log'), NEW i \in Ids, NEW j \in Ids,
               Scans'[i][k].name \in Names, Scans'[i][k].name = Scans'[j][k].name
        PROVE  i = j
    <3>1. CASE k \in 0..n
      BY <1>5, <1>10, <2>1, <3>1 DEF Replayable, LogUnique
    <3>2. CASE ~ (k \in 0..n)
      BY <1>8, <1>10, <2>1, <3>2 DEF Replayable, LogUnique
    <3>3. QED
      BY <3>1, <3>2
  <2>2. QED
    BY <1>2, <2>1 DEF LogUnique
<1>13. Linked'
  <2>1. ASSUME NEW i \in Ids PROVE Scans'[i][Len(log')].name = Scans[i][n].name
    <3>1. l \in 0..l /\ Len(log') = n + l
      BY <1>4
    <3>2. QED
      BY <1>6, <3>1
  <2>2. \A i \in Ids : Resolved(i)' <=> Resolved(i)
    BY <1>1 DEF Resolved, Quiet, Loaded
  <2>3. \A i \in Ids : Resolved(i) => slots'[i].name = slots[i].name
    BY DEF Resolved, Quiet
  <2>4. QED
    BY <1>2, <1>3, <2>1, <2>2, <2>3 DEF Linked, Replayable
<1>14. InMemory'
  <2>1. ASSUME NEW i \in Loaded
        PROVE  /\ ~slots'[i].tombed =>
                    slots'[i].name \in Names /\ byName'[slots'[i].name] = i
               /\ i \in unregistered' => ~slots'[i].tombed /\ Live(slots'[i]) = {}
    BY <1>1 DEF Replayable, InMemory, Quiet, Plain
  <2>2. QED
    BY <1>1, <2>1 DEF InMemory, Loaded
<1>15. Durable'
  <2>1. ASSUME NEW k \in flushed..Len(log'), NEW m \in Names, NEW s \in DOMAIN synced'[m],
               ~TooOld(synced'[m][s], Cutoff)
        PROVE  \E i \in Ids : Scans'[i][k].name = m /\ Has(Scans'[i][k], s, synced'[m][s])
    <3>1. s \in DOMAIN synced[m] /\ synced'[m][s] = synced[m][s]
      BY DEF Quiet
    <3>2. flushed \in 0..n /\ n \in flushed..Len(log)
      BY <1>3, <1>4 DEF Store, LogOK
    <3>3. CASE k \in 0..n
      <4>1. k \in flushed..Len(log)
        BY <1>3, <1>4, <2>1, <3>2, <3>3
      <4>2. PICK i \in Ids : Scans[i][k].name = m /\ Has(Scans[i][k], s, synced[m][s])
        BY <2>1, <3>1, <4>1 DEF Replayable, Durable
      <4>3. QED
        BY <1>5, <3>1, <3>3, <4>2
    <3>4. CASE ~ (k \in 0..n)
      <4>1. PICK i \in Ids : Scans[i][n].name = m /\ Has(Scans[i][n], s, synced[m][s])
        BY <2>1, <3>1, <3>2 DEF Replayable, Durable
      <4>2. Resolved(i) /\ slots[i].name = m
        BY <1>3, <4>1, Constants DEF Replayable, Linked, Store
      <4>3. byName[m] = i
        BY <4>2 DEF Resolved, Replayable, InMemory
      <4>4. byName[m] # None /\ s \in Live(slots[byName[m]])
        BY <2>1, <3>1 DEF MemOK, SyncedOK
      <4>5. AllSpare(w, i, s, synced[m][s], Cutoff)
        BY <4>3, <4>4 DEF QuietLog
      <4>6. PICK a, b, c, t : a = Scans[i] /\ b = Scans'[i] /\ c = Cutoff /\ t = synced[m][s]
        OBVIOUS
      <4>7. /\ n \in Nat /\ Len(w) \in Nat /\ Grown(n, a, w, i, c, b)
            /\ Has(a[n], s, t) /\ AllSpare(w, i, s, t, c)
        BY <1>2, <1>3, <4>1, <4>5, <4>6
      <4>8. \A j \in 0..Len(w) : Has(b[n + j], s, t)
        BY <4>7, HeldOn
      <4>9. k \in 0..Len(log') /\ k - n \in 0..l /\ n + (k - n) = k
        <5>1. k \in 0..Len(log')
          BY <1>3, <1>4, <2>1, <3>2
        <5>2. QED
          BY <1>7, <3>4, <5>1
      <4>10. Has(Scans'[i][k], s, synced'[m][s])
        BY <1>3, <3>1, <4>6, <4>8, <4>9
      <4>11. Scans'[i][k].name = m
        BY <1>8, <3>4, <4>1, <4>9
      <4>12. QED
        BY <4>10, <4>11
    <3>5. QED
      BY <3>3, <3>4
  <2>2. QED
    BY <1>1, <1>2, <2>1 DEF Durable
<1>16. Writer'
  BY DEF Replayable, Writer, QuietLog
<1>17. QED
  BY <1>11, <1>12, <1>13, <1>14, <1>15, <1>16 DEF Replayable

\* What the log holds does not change.
LEMMA SameScans ==
  ASSUME LogOK, UNCHANGED <<setup, now, log>>
  PROVE  /\ Scans' = Scans /\ Cutoff' = Cutoff /\ Ids' = Ids /\ Len(log') = Len(log)
         /\ Len(log) \in Nat
BY Still, Fixed, ScansTyped DEF Scans

\* The slots do not change.
LEMMA SameMem ==
  ASSUME MemOK, UNCHANGED <<setup, now, slots, byName, recorded, synced>>
  PROVE  MemOK'
BY Still, Fixed DEF MemOK, MemSound, SyncedOK, Loaded

\* One more record.
LEMMA OneMore ==
  ASSUME LogOK, UNCHANGED <<setup, now, flushed>>, NEW d \in Recs, log' = log \o <<d>>
  PROVE  /\ LogOK' /\ Cutoff' = Cutoff /\ Ids' = Ids
         /\ Len(log) \in Nat /\ Len(log') = Len(log) + 1
         /\ \A x \in Ids :
              /\ \A k \in 0..Len(log) : Scans'[x][k] = Scans[x][k]
              /\ IF d.id = x
                 THEN Becomes(Scans[x][Len(log)], d, Cutoff, Scans'[x][Len(log) + 1])
                 ELSE Scans'[x][Len(log) + 1] = Scans[x][Len(log)]
<1>1. PICK w : w = <<d>>
  OBVIOUS
<1>2. w \in Seq(Recs) /\ Len(w) = 1 /\ w[1] = d
  BY <1>1, Single
<1>3. log' = log \o w
  BY <1>1
<1>4. /\ LogOK' /\ Cutoff' = Cutoff /\ Len(log') = Len(log) + Len(w) /\ Len(log) \in Nat
      /\ \A x \in Ids : Grown(Len(log), Scans[x], w, x, Cutoff, Scans'[x])
  BY <1>2, <1>3, Written
<1>5. PICK n \in Nat : n = Len(log)
  BY <1>4
<1>6. ASSUME NEW x \in Ids
      PROVE  /\ \A k \in 0..n : Scans'[x][k] = Scans[x][k]
             /\ IF d.id = x THEN Becomes(Scans[x][n], d, Cutoff, Scans'[x][n + 1])
                ELSE Scans'[x][n + 1] = Scans[x][n]
  <2>1. PICK a, b, c : a = Scans[x] /\ b = Scans'[x] /\ c = Cutoff
    OBVIOUS
  <2>2. Grown(n, a, w, x, c, b)
    BY <1>4, <1>5, <2>1
  <2>3. \A k \in 0..n : b[k] = a[k]
    BY <2>2 DEF Grown
  <2>4. n + 1 - 1 = n /\ n \in 0..n
    OBVIOUS
  <2>5. IF d.id = x THEN Becomes(b[n], d, c, b[n + 1]) ELSE b[n + 1] = b[n]
    BY <1>2, <2>2, <2>4 DEF Grown
  <2>6. b[n] = a[n]
    BY <2>3, <2>4
  <2>7. QED
    BY <2>1, <2>3, <2>5, <2>6
<1>7. QED
  BY <1>2, <1>4, <1>5, <1>6, Fixed

\* What a log of n + 1 records says of each id.
LEMMA OneLonger ==
  ASSUME NEW n \in Nat, NEW k \in 0..(n + 1)
  PROVE  k \in 0..n \/ k = n + 1
OBVIOUS

LEMMA BufferSpillsKeeps ==
  ASSUME Store, Replayable, setup' = setup, BufferSpills
  PROVE  Replayable'
<1>1. /\ flushed < Len(log) /\ flushed' = flushed + 1
      /\ UNCHANGED <<setup, now, slots, byName, unregistered, log, dead, syncing, recorded, synced>>
  BY DEF BufferSpills, memory, history
<1>2. /\ Scans' = Scans /\ Cutoff' = Cutoff /\ Ids' = Ids /\ Len(log') = Len(log)
      /\ Len(log) \in Nat /\ flushed \in Nat
  BY <1>1, SameScans DEF Store, LogOK
<1>3. \A k \in flushed'..Len(log) : k \in flushed..Len(log)
  BY <1>1, <1>2
<1>4. LogSound' /\ LogUnique' /\ InMemory' /\ Writer'
  BY <1>1, <1>2 DEF Replayable, LogSound, LogUnique, InMemory, Writer, Loaded
<1>5. Linked'
  BY <1>1, <1>2 DEF Replayable, Linked, Resolved, Loaded
<1>6. Durable'
  BY <1>1, <1>2, <1>3 DEF Replayable, Durable
<1>7. QED
  BY <1>4, <1>5, <1>6 DEF Replayable

LEMMA SyncMem ==
  ASSUME Store, MemOK, setup' = setup, Sync
  PROVE  MemOK'
<1>1. /\ synced' = [n \in Names |-> IF byName[n] = None THEN <<>> ELSE slots[byName[n]].set]
      /\ UNCHANGED <<setup, now, slots, byName, recorded>>
  BY DEF Sync, memory
<1>2. MemSound'
  BY <1>1 DEF MemOK, MemSound, Loaded
<1>3. SyncedOK'
  <2>1. ASSUME NEW n \in Names, NEW s \in DOMAIN synced'[n]
        PROVE  byName'[n] # None' /\ s \in Live(slots'[byName'[n]])
    <3>1. byName[n] # None
      BY <1>1, <2>1, EmptyMap
    <3>2. QED
      BY <1>1, <2>1, <3>1, Fixed DEF Live
  <2>2. QED
    BY <2>1 DEF SyncedOK
<1>4. QED
  BY <1>2, <1>3 DEF MemOK

LEMMA SyncKeeps ==
  ASSUME Store, Plain, Replayable, setup' = setup, Sync
  PROVE  Replayable'
<1>1. /\ synced' = [n \in Names |-> IF byName[n] = None THEN <<>> ELSE slots[byName[n]].set]
      /\ flushed' = Len(log) /\ ~dead /\ syncing' # "compact"
      /\ UNCHANGED <<setup, now, slots, byName, unregistered, log, dead, recorded>>
  BY DEF Sync, memory, Replayable, Writer, Plain
<1>2. /\ Scans' = Scans /\ Cutoff' = Cutoff /\ Ids' = Ids /\ Len(log') = Len(log)
      /\ Len(log) \in Nat
  BY <1>1, SameScans DEF Store
<1>3. LogSound' /\ LogUnique' /\ InMemory' /\ Writer'
  BY <1>1, <1>2 DEF Replayable, LogSound, LogUnique, InMemory, Writer, Loaded
<1>4. Linked'
  BY <1>1, <1>2 DEF Replayable, Linked, Resolved, Loaded
<1>5. Durable'
  <2>1. ASSUME NEW n \in Names, NEW s \in DOMAIN synced'[n], ~TooOld(synced'[n][s], Cutoff)
        PROVE  \E i \in Ids : /\ Scans[i][Len(log)].name = n
                              /\ Has(Scans[i][Len(log)], s, synced'[n][s])
    <3>1. byName[n] # None /\ synced'[n] = slots[byName[n]].set
      BY <1>1, <2>1, EmptyMap
    <3>2. PICK i : i = byName[n]
      OBVIOUS
    <3>3. /\ i \in Loaded /\ i \in Ids /\ slots[i].name = n /\ ~slots[i].tombed
          /\ s \in Live(slots[i])
      BY <2>1, <3>1, <3>2 DEF Store, TablesOK, Live
    <3>4. Resolved(i)
      BY <3>3 DEF Replayable, InMemory, Resolved
    <3>5. Scans[i][Len(log)].name = n
      BY <3>3, <3>4 DEF Replayable, Linked
    <3>6. Has(Scans[i][Len(log)], s, synced'[n][s])
      BY <2>1, <3>1, <3>2, <3>3 DEF Store, Covers, Holds
    <3>7. QED
      BY <3>3, <3>5, <3>6
  <2>2. \A k \in flushed'..Len(log') : k = Len(log)
    BY <1>1, <1>2
  <2>3. QED
    BY <1>2, <2>1, <2>2 DEF Durable
<1>6. QED
  BY <1>3, <1>4, <1>5 DEF Replayable

\* A slot under a new id.
LEMMA Published ==
  ASSUME Store, setup' = setup, NEW n \in Names, SlotPublish(n)
  PROVE  /\ UNCHANGED <<setup, now, log, flushed, dead, syncing, recorded, synced>>
         /\ byName[n] = None /\ byName' = [byName EXCEPT ![n] = nextID]
         /\ unregistered' = unregistered \cup {nextID}
         /\ nextID \notin Loaded /\ nextID \in Ids /\ None' = None
         /\ slots'[nextID].name = n /\ ~slots'[nextID].tombed /\ Live(slots'[nextID]) = {}
         /\ DOMAIN slots' = Loaded \cup {nextID}
         /\ \A x \in Loaded : x # nextID /\ slots'[x] = slots[x]
<1>1. /\ byName[n] = None /\ nextID < MaxSlots
      /\ byName' = [byName EXCEPT ![n] = nextID]
      /\ slots' = With(slots, nextID, EmptySlot(n))
      /\ unregistered' = unregistered \cup {nextID}
      /\ UNCHANGED <<setup, now, log, flushed, dead, syncing, recorded, synced>>
  BY DEF SlotPublish, history
<1>2. PICK e : e = EmptySlot(n)
  OBVIOUS
<1>3. e.name = n /\ ~e.tombed /\ Live(e) = {}
  BY <1>2, Constants, EmptyOK DEF Store
<1>4. nextID \notin Loaded /\ nextID \in Ids
  BY <1>1, Constants DEF Store, TablesOK, Ids
<1>5. /\ DOMAIN slots' = Loaded \cup {nextID} /\ slots'[nextID] = e
      /\ \A x \in Loaded : x # nextID /\ slots'[x] = slots[x]
  BY <1>1, <1>2, <1>4 DEF With, Loaded
<1>6. QED
  BY <1>1, <1>3, <1>4, <1>5, Fixed

LEMMA SlotPublishMem ==
  ASSUME Store, MemOK, setup' = setup, NEW n \in Names, SlotPublish(n)
  PROVE  MemOK'
<1>1. MemSound'
  <2>1. ASSUME NEW x \in DOMAIN slots', slots'[x].name \in Names
        PROVE  Live(slots'[x]) \subseteq recorded'[slots'[x].name]
    BY <2>1, Published DEF MemOK, MemSound
  <2>2. QED
    BY <2>1 DEF MemSound, Loaded
<1>2. SyncedOK'
  <2>1. Cutoff' = Cutoff
    BY Published, Still
  <2>2. ASSUME NEW m \in Names, NEW s \in DOMAIN synced[m], ~TooOld(synced[m][s], Cutoff)
        PROVE  byName'[m] # None /\ s \in Live(slots'[byName'[m]])
    <3>1. byName[m] # None /\ s \in Live(slots[byName[m]])
      BY <2>2 DEF MemOK, SyncedOK
    <3>2. byName'[m] = byName[m] /\ byName[m] \in Loaded
      BY <3>1, Published DEF Store, TablesOK
    <3>3. QED
      BY <3>1, <3>2, Published
  <2>3. QED
    BY <2>1, <2>2, Published DEF SyncedOK
<1>3. QED
  BY <1>1, <1>2 DEF MemOK

LEMMA SlotPublishKeeps ==
  ASSUME Store, Replayable, setup' = setup, NEW n \in Names, SlotPublish(n)
  PROVE  Replayable'
<1>1. UNCHANGED <<setup, now, log, flushed, dead, syncing, recorded, synced>>
  BY Published
<1>2. Scans' = Scans /\ Cutoff' = Cutoff /\ Ids' = Ids /\ Len(log') = Len(log)
  BY <1>1, SameScans DEF Store
<1>3. LogSound' /\ LogUnique' /\ Writer' /\ Durable'
  BY <1>1, <1>2 DEF Replayable, LogSound, LogUnique, Writer, Durable
<1>4. Linked'
  <2>1. ASSUME NEW i \in Ids
        PROVE  Resolved(i)' = Resolved(i) /\ (Resolved(i) => slots'[i].name = slots[i].name)
    BY Published DEF Resolved, Loaded
  <2>2. QED
    BY <1>2, <2>1 DEF Replayable, Linked
<1>5. InMemory'
  <2>1. ASSUME NEW i \in DOMAIN slots'
        PROVE  /\ ~slots'[i].tombed =>
                    slots'[i].name \in Names /\ byName'[slots'[i].name] = i
               /\ i \in unregistered' => ~slots'[i].tombed /\ Live(slots'[i]) = {}
    <3>1. CASE i = nextID
      BY <3>1, Published DEF Store, TablesOK
    <3>2. CASE i # nextID
      <4>1. i \in Loaded /\ slots'[i] = slots[i] /\ (i \in unregistered' => i \in unregistered)
        BY <3>2, Published
      <4>2. i # None
        BY <4>1, Constants DEF Store, TablesOK
      <4>3. ~slots[i].tombed => /\ slots[i].name \in Names /\ byName[slots[i].name] = i
                                /\ slots[i].name # n
        BY <4>1, <4>2, Published DEF Replayable, InMemory
      <4>4. \A m \in Names : m # n => byName'[m] = byName[m]
        BY Published DEF Store, TablesOK
      <4>5. i \in unregistered => ~slots[i].tombed /\ Live(slots[i]) = {}
        BY <4>1 DEF Replayable, InMemory
      <4>6. QED
        BY <4>1, <4>3, <4>4, <4>5
    <3>3. QED
      BY <3>1, <3>2
  <2>2. QED
    BY <2>1 DEF InMemory, Loaded
<1>6. QED
  BY <1>3, <1>4, <1>5 DEF Replayable

LEMMA SlotRegisterMem ==
  ASSUME MemOK, setup' = setup, NEW i, SlotRegister(i)
  PROVE  MemOK'
BY SameMem DEF SlotRegister, history

LEMMA SlotRegisterKeeps ==
  ASSUME Store, Replayable, setup' = setup, NEW i \in Ids, SlotRegister(i)
  PROVE  Replayable'
<1>1. /\ i \in unregistered /\ unregistered' = unregistered \ {i}
      /\ log' = log \o <<RegisterRec(i, slots[i].name)>>
      /\ UNCHANGED <<setup, now, slots, byName, flushed, dead, syncing, recorded, synced>>
  BY DEF SlotRegister, Write, history
<1>2. PICK m : m = slots[i].name
  OBVIOUS
<1>3. i \in Loaded /\ m \in Names /\ byName[m] = i /\ ~slots[i].tombed /\ Live(slots[i]) = {}
  BY <1>1, <1>2 DEF Store, TablesOK, Replayable, InMemory
<1>4. PICK d : d = RegisterRec(i, m)
  OBVIOUS
<1>5. d \in Recs /\ d.op = "register" /\ d.id = i /\ d.name = m
  BY <1>3, <1>4, RecTyped DEF RegisterRec
<1>6. PICK n : n = Len(log)
  OBVIOUS
<1>7. log' = log \o <<d>> /\ LogOK /\ UNCHANGED <<setup, now, flushed>>
  BY <1>1, <1>2, <1>4 DEF Store
<1>8. /\ Cutoff' = Cutoff /\ Ids' = Ids /\ n \in Nat /\ Len(log') = n + 1 /\ flushed \in 0..n
      /\ \A x \in Ids : /\ \A k \in 0..n : Scans'[x][k] = Scans[x][k]
                        /\ IF d.id = x THEN Becomes(Scans[x][n], d, Cutoff, Scans'[x][n + 1])
                           ELSE Scans'[x][n + 1] = Scans[x][n]
  <2>1. flushed \in 0..n
    BY <1>6 DEF Store, LogOK
  <2>2. QED
    BY <1>5, <1>6, <1>7, <2>1, OneMore
<1>9. n \in 0..n /\ Unnamed \notin Names
  BY <1>8, Constants DEF Store
<1>10. Scans[i][n].name = Unnamed /\ DOMAIN Scans[i][n].live = {}
  <2>1. Scans[i][n].name = Unnamed
    BY <1>1, <1>6 DEF Replayable, Linked, Resolved
  <2>2. QED
    BY <1>6, <1>9, <2>1 DEF Replayable, LogSound
<1>11. Scans'[i][n + 1].name = m /\ DOMAIN Scans'[i][n + 1].live = {}
  BY <1>5, <1>8, <1>10 DEF Becomes
<1>12. \A x \in Ids : x # i => Scans'[x][n + 1] = Scans[x][n]
  BY <1>5, <1>8
<1>13. ASSUME NEW x \in Ids, Scans[x][n].name = m
       PROVE  FALSE
  <2>1. Resolved(x) /\ slots[x].name = m
    BY <1>3, <1>6, <1>9, <1>13 DEF Replayable, Linked
  <2>2. byName[m] = x
    BY <2>1 DEF Resolved, Replayable, InMemory
  <2>3. QED
    BY <1>1, <1>3, <2>1, <2>2 DEF Resolved
<1>14. LogSound'
  <2>1. ASSUME NEW k \in 0..(n + 1), NEW x \in Ids
        PROVE  /\ Scans'[x][k].name \in Names \cup {Unnamed}
               /\ Scans'[x][k].name = Unnamed => DOMAIN Scans'[x][k].live = {}
               /\ Scans'[x][k].name \in Names =>
                    DOMAIN Scans'[x][k].live \subseteq recorded[Scans'[x][k].name]
    <3>1. CASE k \in 0..n
      BY <1>6, <1>8, <3>1 DEF Replayable, LogSound
    <3>2. CASE k = n + 1
      BY <1>3, <1>6, <1>9, <1>11, <1>12, <3>2 DEF Replayable, LogSound
    <3>3. QED
      BY <1>8, <3>1, <3>2, OneLonger
  <2>2. QED
    BY <1>1, <1>8, <2>1 DEF LogSound
<1>15. LogUnique'
  <2>1. ASSUME NEW k \in 0..(n + 1), NEW x \in Ids, NEW y \in Ids,
               Scans'[x][k].name \in Names, Scans'[x][k].name = Scans'[y][k].name
        PROVE  x = y
    <3>1. CASE k \in 0..n
      BY <1>6, <1>8, <2>1, <3>1 DEF Replayable, LogUnique
    <3>2. CASE k = n + 1 /\ x # i /\ y # i
      BY <1>6, <1>9, <1>12, <2>1, <3>2 DEF Replayable, LogUnique
    <3>3. CASE k = n + 1 /\ (x = i \/ y = i)
      BY <1>11, <1>12, <1>13, <2>1, <3>3
    <3>4. QED
      BY <1>8, <3>1, <3>2, <3>3, OneLonger
  <2>2. QED
    BY <1>8, <2>1 DEF LogUnique
<1>16. Linked'
  <2>1. ASSUME NEW x \in Ids
        PROVE  Scans'[x][n + 1].name = IF Resolved(x)' THEN slots[x].name ELSE Unnamed
    <3>1. CASE x = i
      BY <1>1, <1>2, <1>3, <1>11, <3>1 DEF Resolved, Loaded
    <3>2. CASE x # i
      <4>1. Resolved(x)' <=> Resolved(x)
        BY <1>1, <3>2 DEF Resolved, Loaded
      <4>2. QED
        BY <1>6, <1>12, <3>2, <4>1 DEF Replayable, Linked
    <3>3. QED
      BY <3>1, <3>2
  <2>2. QED
    BY <1>1, <1>8, <2>1 DEF Linked
<1>17. InMemory' /\ Writer'
  BY <1>1 DEF Replayable, InMemory, Writer, Loaded
<1>18. Durable'
  <2>1. ASSUME NEW k \in flushed..(n + 1), NEW p \in Names, NEW s \in DOMAIN synced[p],
               ~TooOld(synced[p][s], Cutoff)
        PROVE  \E x \in Ids : Scans'[x][k].name = p /\ Has(Scans'[x][k], s, synced[p][s])
    <3>1. CASE k \in 0..n
      <4>1. k \in flushed..n
        BY <1>8, <2>1, <3>1
      <4>2. PICK x \in Ids : Scans[x][k].name = p /\ Has(Scans[x][k], s, synced[p][s])
        BY <1>6, <2>1, <4>1 DEF Replayable, Durable
      <4>3. QED
        BY <1>8, <3>1, <4>2
    <3>2. CASE k = n + 1
      <4>1. n \in flushed..n
        BY <1>8
      <4>2. PICK x \in Ids : Scans[x][n].name = p /\ Has(Scans[x][n], s, synced[p][s])
        BY <1>6, <2>1, <4>1 DEF Replayable, Durable
      <4>3. x # i
        BY <1>9, <1>10, <4>2
      <4>4. QED
        BY <1>12, <3>2, <4>2, <4>3
    <3>3. k \in 0..(n + 1)
      BY <1>8
    <3>4. QED
      BY <1>8, <3>1, <3>2, <3>3, OneLonger
  <2>2. QED
    BY <1>1, <1>8, <2>1 DEF Durable
<1>19. QED
  BY <1>14, <1>15, <1>16, <1>17, <1>18 DEF Replayable

\* A slot is emptied under its handle, and its name is free again.
LEMMA Deleted ==
  ASSUME Store, setup' = setup, NEW n \in Names, DeleteSlot(n), NEW i, i = byName[n]
  PROVE  /\ i \in Loaded /\ i \in Ids /\ slots[i].name = n
         /\ ConcurrentSlot \/ i \notin unregistered
         /\ byName' = [byName EXCEPT ![n] = None] /\ None' = None
         /\ log' = log \o <<TombstoneRec(i)>>
         /\ DOMAIN slots' = Loaded /\ slots'[i].tombed /\ Live(slots'[i]) = {}
         /\ \A x \in Loaded : x # i => slots'[x] = slots[x]
         /\ DOMAIN synced'[n] = {} /\ \A m \in Names : m # n => synced'[m] = synced[m]
         /\ UNCHANGED <<setup, now, unregistered, flushed, dead, syncing, recorded>>
<1>1. PICK st, r : st = slots[i] /\ r = Delete(st)
  OBVIOUS
<1>2. /\ i # None /\ Usable(i) /\ byName' = [byName EXCEPT ![n] = None]
      /\ slots' = [slots EXCEPT ![i] = r]
      /\ log' = log \o <<TombstoneRec(i)>>
      /\ synced' = [synced EXCEPT ![n] = Without(@, Seqs)]
      /\ UNCHANGED <<setup, now, unregistered, flushed, dead, syncing, recorded>>
  BY <1>1 DEF DeleteSlot, Write, Forget
<1>3. /\ i \in Loaded /\ i \in Ids /\ st.name = n
      /\ st \in SlotSet(Seqs, MaxSeq, Times)
  BY <1>1, <1>2 DEF Store, TablesOK, SlotsOK
<1>4. MaxSeq \in Nat /\ Seqs = 1..MaxSeq
  BY Constants DEF Store
<1>5. r.tombed /\ Live(r) = {}
  BY <1>1, <1>3, <1>4, DeleteOK
<1>6. /\ DOMAIN slots' = Loaded /\ slots'[i] = r
      /\ \A x \in Loaded : x # i => slots'[x] = slots[x]
  BY <1>2, <1>3 DEF Loaded
<1>7. Less(synced[n], Seqs, synced'[n]) /\ \A m \in Names : m # n => synced'[m] = synced[m]
  BY <1>2, Forgotten DEF Store
<1>8. DOMAIN synced'[n] = {}
  <2>1. synced[n] \in Maps(Seqs, Times)
    BY DEF Store, HistoryOK
  <2>2. DOMAIN synced[n] \subseteq Seqs
    BY <2>1, MapsDef
  <2>3. QED
    BY <1>7, <2>2 DEF Less
<1>9. QED
  BY <1>1, <1>2, <1>3, <1>5, <1>6, <1>7, <1>8, Fixed DEF Usable

LEMMA DeleteSlotMem ==
  ASSUME Store, MemOK, setup' = setup, NEW n \in Names, DeleteSlot(n)
  PROVE  MemOK'
<1>1. PICK i : i = byName[n]
  OBVIOUS
<1>2. /\ i \in Loaded /\ slots[i].name = n /\ log' = log \o <<TombstoneRec(i)>>
      /\ \A x \in Loaded : x # i => slots'[x] = slots[x]
  BY <1>1, Deleted
<1>3. MemSound'
  <2>1. ASSUME NEW x \in Loaded, slots'[x].name \in Names
        PROVE  Live(slots'[x]) \subseteq recorded'[slots'[x].name]
    BY <1>1, <2>1, Deleted DEF MemOK, MemSound
  <2>2. DOMAIN slots' = Loaded
    BY <1>1, Deleted
  <2>3. QED
    BY <2>1, <2>2 DEF MemSound, Loaded
<1>4. SyncedOK'
  <2>1. Cutoff' = Cutoff /\ None' = None
    BY <1>1, Deleted, Still
  <2>2. ASSUME NEW m \in Names, NEW s \in DOMAIN synced'[m], ~TooOld(synced'[m][s], Cutoff)
        PROVE  byName'[m] # None /\ s \in Live(slots'[byName'[m]])
    <3>1. m # n /\ synced'[m] = synced[m]
      BY <1>1, <2>2, Deleted
    <3>2. byName[m] # None /\ s \in Live(slots[byName[m]])
      BY <2>2, <3>1 DEF MemOK, SyncedOK
    <3>3. byName[m] \in Loaded /\ slots[byName[m]].name = m /\ byName \in [Names -> Ids \cup {None}]
      BY <3>2 DEF Store, TablesOK
    <3>4. byName' = [byName EXCEPT ![n] = None]
      BY <1>1, Deleted
    <3>5. byName'[m] = byName[m] /\ byName[m] # i
      BY <1>2, <3>1, <3>3, <3>4
    <3>6. QED
      BY <1>2, <3>2, <3>3, <3>5
  <2>3. QED
    BY <2>1, <2>2 DEF SyncedOK
<1>5. QED
  BY <1>3, <1>4 DEF MemOK

LEMMA DeleteSlotKeeps ==
  ASSUME Store, Plain, Replayable, setup' = setup, NEW n \in Names, DeleteSlot(n)
  PROVE  Replayable'
<1>1. PICK i : i = byName[n]
  OBVIOUS
<1>2. /\ i \in Loaded /\ i \in Ids /\ slots[i].name = n /\ i \notin unregistered
      /\ log' = log \o <<TombstoneRec(i)>>
      /\ DOMAIN slots' = Loaded /\ slots'[i].tombed /\ Live(slots'[i]) = {}
      /\ \A x \in Loaded : x # i => slots'[x] = slots[x]
      /\ UNCHANGED <<setup, now, unregistered, flushed, dead, syncing, recorded>>
  BY <1>1, Deleted DEF Plain
<1>3. DOMAIN synced'[n] = {} /\ \A m \in Names : m # n => synced'[m] = synced[m]
  BY <1>1, Deleted
<1>4. PICK d : d = TombstoneRec(i)
  OBVIOUS
<1>5. d \in Recs /\ d.op = "tombstone" /\ d.id = i
  BY <1>2, <1>4, RecTyped DEF TombstoneRec
<1>6. PICK l : l = Len(log)
  OBVIOUS
<1>7. log' = log \o <<d>> /\ LogOK /\ UNCHANGED <<setup, now, flushed>>
  BY <1>2, <1>4 DEF Store
<1>8. /\ Cutoff' = Cutoff /\ Ids' = Ids /\ l \in Nat /\ Len(log') = l + 1 /\ flushed \in 0..l
      /\ \A x \in Ids : /\ \A k \in 0..l : Scans'[x][k] = Scans[x][k]
                        /\ IF d.id = x THEN Becomes(Scans[x][l], d, Cutoff, Scans'[x][l + 1])
                           ELSE Scans'[x][l + 1] = Scans[x][l]
  <2>1. flushed \in 0..l
    BY <1>6 DEF Store, LogOK
  <2>2. QED
    BY <1>5, <1>6, <1>7, <2>1, OneMore
<1>9. l \in 0..l /\ Unnamed \notin Names
  BY <1>8, Constants DEF Store
<1>10. Scans'[i][l + 1].name = Unnamed /\ DOMAIN Scans'[i][l + 1].live = {}
  <2>1. Scans'[i][l + 1] = Blank
    BY <1>2, <1>5, <1>8 DEF Becomes
  <2>2. QED
    BY <2>1, BlankAcc
<1>11. \A x \in Ids : x # i => Scans'[x][l + 1] = Scans[x][l]
  BY <1>5, <1>8
<1>12. LogSound'
  <2>1. ASSUME NEW k \in 0..(l + 1), NEW x \in Ids
        PROVE  /\ Scans'[x][k].name \in Names \cup {Unnamed}
               /\ Scans'[x][k].name = Unnamed => DOMAIN Scans'[x][k].live = {}
               /\ Scans'[x][k].name \in Names =>
                    DOMAIN Scans'[x][k].live \subseteq recorded[Scans'[x][k].name]
    <3>1. CASE k \in 0..l
      BY <1>6, <1>8, <3>1 DEF Replayable, LogSound
    <3>2. CASE k = l + 1
      BY <1>6, <1>9, <1>10, <1>11, <3>2 DEF Replayable, LogSound
    <3>3. QED
      BY <1>8, <3>1, <3>2, OneLonger
  <2>2. QED
    BY <1>2, <1>8, <2>1 DEF LogSound
<1>13. LogUnique'
  <2>1. ASSUME NEW k \in 0..(l + 1), NEW x \in Ids, NEW y \in Ids,
               Scans'[x][k].name \in Names, Scans'[x][k].name = Scans'[y][k].name
        PROVE  x = y
    <3>1. CASE k \in 0..l
      BY <1>6, <1>8, <2>1, <3>1 DEF Replayable, LogUnique
    <3>2. CASE k = l + 1
      BY <1>6, <1>9, <1>10, <1>11, <2>1, <3>2 DEF Replayable, LogUnique
    <3>3. QED
      BY <1>8, <3>1, <3>2, OneLonger
  <2>2. QED
    BY <1>8, <2>1 DEF LogUnique
<1>14. Linked'
  <2>1. ASSUME NEW x \in Ids
        PROVE  Scans'[x][l + 1].name = IF Resolved(x)' THEN slots'[x].name ELSE Unnamed
    <3>1. CASE x = i
      BY <1>2, <1>10, <3>1 DEF Resolved
    <3>2. CASE x # i
      <4>1. (Resolved(x)' <=> Resolved(x)) /\ (Resolved(x) => slots'[x].name = slots[x].name)
        BY <1>2, <3>2 DEF Resolved, Loaded
      <4>2. QED
        BY <1>6, <1>11, <3>2, <4>1 DEF Replayable, Linked
    <3>3. QED
      BY <3>1, <3>2
  <2>2. QED
    BY <1>8, <2>1 DEF Linked
<1>15. InMemory'
  <2>1. ASSUME NEW x \in Loaded
        PROVE  /\ ~slots'[x].tombed =>
                    slots'[x].name \in Names /\ byName'[slots'[x].name] = x
               /\ x \in unregistered' => ~slots'[x].tombed /\ Live(slots'[x]) = {}
    <3>1. CASE x = i
      BY <1>2, <3>1
    <3>2. CASE x # i
      <4>1. slots'[x] = slots[x] /\ unregistered' = unregistered
        BY <1>2, <3>2
      <4>2. ~slots[x].tombed => slots[x].name \in Names /\ byName[slots[x].name] = x
        BY DEF Replayable, InMemory
      <4>3. \A m \in Names : m # n => byName'[m] = byName[m]
        <5>1. byName' = [byName EXCEPT ![n] = None]
          BY <1>1, Deleted
        <5>2. QED
          BY <5>1 DEF Store, TablesOK
      <4>4. x \in unregistered => ~slots[x].tombed /\ Live(slots[x]) = {}
        BY DEF Replayable, InMemory
      <4>5. QED
        BY <1>1, <3>2, <4>1, <4>2, <4>3, <4>4
    <3>3. QED
      BY <3>1, <3>2
  <2>2. QED
    BY <1>2, <2>1 DEF InMemory, Loaded
<1>16. Durable'
  <2>1. ASSUME NEW k \in flushed..(l + 1), NEW p \in Names, NEW s \in DOMAIN synced'[p],
               ~TooOld(synced'[p][s], Cutoff)
        PROVE  \E x \in Ids : Scans'[x][k].name = p /\ Has(Scans'[x][k], s, synced'[p][s])
    <3>1. p # n /\ synced'[p] = synced[p]
      BY <1>3, <2>1
    <3>2. CASE k \in 0..l
      <4>1. k \in flushed..l
        BY <1>8, <2>1, <3>2
      <4>2. PICK x \in Ids : Scans[x][k].name = p /\ Has(Scans[x][k], s, synced[p][s])
        BY <1>6, <2>1, <3>1, <4>1 DEF Replayable, Durable
      <4>3. QED
        BY <1>8, <3>1, <3>2, <4>2
    <3>3. CASE k = l + 1
      <4>1. l \in flushed..l
        BY <1>8
      <4>2. PICK x \in Ids : Scans[x][l].name = p /\ Has(Scans[x][l], s, synced[p][s])
        BY <1>6, <2>1, <3>1, <4>1 DEF Replayable, Durable
      <4>3. x # i
        BY <1>2, <1>6, <1>9, <3>1, <4>2 DEF Replayable, Linked
      <4>4. QED
        BY <1>11, <3>1, <3>3, <4>2, <4>3
    <3>4. k \in 0..(l + 1)
      BY <1>8
    <3>5. QED
      BY <1>8, <3>2, <3>3, <3>4, OneLonger
  <2>2. QED
    BY <1>2, <1>8, <2>1 DEF Durable
<1>17. Writer'
  BY <1>2 DEF Replayable, Writer
<1>18. QED
  BY <1>12, <1>13, <1>14, <1>15, <1>16, <1>17 DEF Replayable

\* A time that has not passed is kept by the later scan.
LEMMA LaterHas ==
  ASSUME NEW a, NEW b, NEW d \in Int, Later(a, b, d), NEW s, NEW t \in Int, ~TooOld(t, d),
         Has(a, s, t), a.live[s] \in Int
  PROVE  Has(b, s, t)
<1>1. a.live[s] >= t /\ t >= d /\ s \in DOMAIN a.live
  BY DEF Has, TooOld
<1>2. a.live[s] >= d
  BY <1>1
<1>3. QED
  BY <1>1, <1>2 DEF Later, Has

LEMMA TickMem ==
  ASSUME Store, MemOK, setup' = setup, Tick
  PROVE  MemOK'
<1>1. /\ UNCHANGED <<setup, slots, byName, recorded, synced>> /\ None' = None
      /\ Cutoff \in Int /\ Cutoff' \in Int /\ Cutoff <= Cutoff' /\ Times \in SUBSET Int
  BY TickLater DEF Store
<1>2. MemSound'
  BY <1>1 DEF MemOK, MemSound, Loaded
<1>3. SyncedOK'
  <2>1. ASSUME NEW n \in Names, NEW s \in DOMAIN synced[n], TooOld(synced[n][s], Cutoff)
        PROVE  TooOld(synced[n][s], Cutoff')
    <3>1. synced[n] \in Maps(Seqs, Times)
      BY DEF Store, HistoryOK
    <3>2. synced[n][s] \in Int
      BY <1>1, <3>1, MapsDef
    <3>3. QED
      BY <1>1, <2>1, <3>2 DEF TooOld
  <2>2. QED
    BY <1>1, <2>1 DEF MemOK, SyncedOK
<1>4. QED
  BY <1>2, <1>3 DEF MemOK

LEMMA TickKeeps ==
  ASSUME Store, Replayable, setup' = setup, Tick
  PROVE  Replayable'
<1>1. UNCHANGED <<setup, slots, byName, unregistered, log, flushed, dead, syncing, recorded, synced>>
  BY TickLater DEF Store
<1>2. /\ Ids' = Ids /\ Len(log) \in Nat /\ flushed \in 0..Len(log)
      /\ Cutoff \in Int /\ Cutoff' \in Int /\ Cutoff <= Cutoff' /\ Times \in SUBSET Int
      /\ \A i \in Ids : \A k \in 0..Len(log) : Later(Scans[i][k], Scans'[i][k], Cutoff')
  BY TickLater DEF Store, LogOK
<1>3. \A i \in Ids : \A k \in 0..Len(log) :
        /\ Scans'[i][k].name = Scans[i][k].name
        /\ DOMAIN Scans'[i][k].live \subseteq DOMAIN Scans[i][k].live
  BY <1>2 DEF Later
<1>4. LogSound' /\ LogUnique'
  BY <1>1, <1>2, <1>3 DEF Replayable, LogSound, LogUnique
<1>5. Linked'
  <2>1. Len(log) \in 0..Len(log)
    BY <1>2
  <2>2. QED
    BY <1>1, <1>2, <1>3, <2>1 DEF Replayable, Linked, Resolved, Loaded
<1>6. InMemory' /\ Writer'
  BY <1>1 DEF Replayable, InMemory, Writer, Loaded
<1>7. Durable'
  <2>1. ASSUME NEW k \in flushed..Len(log), NEW n \in Names, NEW s \in DOMAIN synced[n],
               ~TooOld(synced[n][s], Cutoff')
        PROVE  \E i \in Ids : Scans'[i][k].name = n /\ Has(Scans'[i][k], s, synced[n][s])
    <3>1. synced[n] \in Maps(Seqs, Times)
      BY DEF Store, HistoryOK
    <3>2. synced[n][s] \in Int
      BY <1>2, <3>1, MapsDef
    <3>3. ~TooOld(synced[n][s], Cutoff) /\ k \in 0..Len(log)
      BY <1>2, <2>1, <3>2 DEF TooOld
    <3>4. PICK i \in Ids : Scans[i][k].name = n /\ Has(Scans[i][k], s, synced[n][s])
      BY <3>3 DEF Replayable, Durable
    <3>5. Scans[i][k].live[s] \in Int
      <4>1. Scans[i][k] \in AccSet(Seqs, Times)
        BY <3>3, ScansTyped DEF Store
      <4>2. Scans[i][k].live \in Maps(Seqs, Times)
        BY <4>1 DEF AccSet
      <4>3. Scans[i][k].live[s] \in Times
        BY <3>4, <4>2, MapsDef DEF Has
      <4>4. QED
        BY <1>2, <4>3
    <3>6. PICK a, b, d, t : a = Scans[i][k] /\ b = Scans'[i][k] /\ d = Cutoff' /\ t = synced[n][s]
      OBVIOUS
    <3>7. /\ d \in Int /\ t \in Int /\ ~TooOld(t, d) /\ Later(a, b, d) /\ Has(a, s, t)
          /\ a.live[s] \in Int
      BY <1>2, <2>1, <3>2, <3>3, <3>4, <3>5, <3>6
    <3>8. Has(b, s, t)
      BY <3>7, LaterHas
    <3>9. QED
      BY <1>3, <3>3, <3>4, <3>6, <3>8
  <2>2. QED
    BY <1>1, <1>2, <2>1 DEF Durable
<1>8. QED
  BY <1>4, <1>5, <1>6, <1>7 DEF Replayable

LEMMA RestartKeeps ==
  ASSUME Store, Replayable, setup' = setup, Restart
  PROVE  MemOK' /\ Replayable'
<1>1. PICK k, I : Reopened(k, I)
  BY Reopening
<1>2. /\ unregistered' = {} /\ ~dead' /\ syncing' = "idle"
      /\ UNCHANGED <<setup, now, recorded, synced>>
  BY Reopening
<1>3. Ids' = Ids /\ None' = None /\ Cutoff' = Cutoff /\ None \notin Ids /\ Unnamed \notin Names
  BY <1>2, Fixed, Still, Constants DEF Store
<1>4. /\ k \in flushed..Len(log) /\ flushed' = k /\ Len(log') = k
      /\ \A i \in Ids : \A j \in 0..k : Scans'[i][j] = Scans[i][j]
      /\ DOMAIN slots' = I /\ I \subseteq Ids
  BY <1>1 DEF Reopened
<1>5. /\ k \in 0..Len(log) /\ k \in Nat /\ k \in 0..k /\ \A j \in 0..k : j \in 0..Len(log)
      /\ \A j \in k..k : j = k
  <2>1. Len(log) \in Nat /\ flushed \in 0..Len(log)
    BY ScansTyped DEF Store, LogOK
  <2>2. QED
    BY <1>4, <2>1
<1>6. \A i \in Ids : i \in I <=> Scans[i][k].name # Unnamed
  BY <1>1 DEF Reopened
<1>7. ASSUME NEW i \in I
      PROVE  /\ slots'[i].name = Scans[i][k].name /\ slots'[i].name \in Names
             /\ slots'[i].set = Scans[i][k].live /\ ~slots'[i].tombed
  <2>1. /\ slots'[i].name = Scans[i][k].name /\ slots'[i].set = Scans[i][k].live
        /\ ~slots'[i].tombed
    BY <1>1 DEF Reopened
  <2>2. Scans[i][k].name \in Names
    BY <1>4, <1>5, <1>6 DEF Replayable, LogSound
  <2>3. QED
    BY <2>1, <2>2
<1>8. ASSUME NEW i \in I
      PROVE  byName'[slots'[i].name] = i
  <2>1. PICK n \in Names : n = slots'[i].name
    BY <1>7
  <2>2. PICK j : j = byName'[n]
    OBVIOUS
  <2>3. j # None /\ j \in I /\ slots'[j].name = n
    BY <1>1, <2>1, <2>2 DEF Reopened
  <2>4. Scans[i][k].name \in Names /\ Scans[i][k].name = Scans[j][k].name
    BY <1>7, <2>1, <2>3
  <2>5. i = j
    BY <1>4, <1>5, <2>3, <2>4 DEF Replayable, LogUnique
  <2>6. QED
    BY <2>1, <2>2, <2>5
<1>9. ASSUME NEW n \in Names, NEW s \in DOMAIN synced[n], ~TooOld(synced[n][s], Cutoff)
      PROVE  \E i \in I : /\ slots'[i].name = n /\ s \in Live(slots'[i])
                          /\ Has(Scans[i][k], s, synced[n][s])
  <2>1. PICK i \in Ids : Scans[i][k].name = n /\ Has(Scans[i][k], s, synced[n][s])
    BY <1>4, <1>9 DEF Replayable, Durable
  <2>2. i \in I
    BY <1>3, <1>6, <2>1
  <2>3. QED
    BY <1>7, <2>1, <2>2 DEF Has, Live
<1>10. MemSound'
  <2>1. ASSUME NEW i \in I
        PROVE  Live(slots'[i]) \subseteq recorded[slots'[i].name]
    BY <1>4, <1>5, <1>7 DEF Replayable, LogSound, Live
  <2>2. QED
    BY <1>2, <1>4, <2>1 DEF MemSound, Loaded
<1>11. SyncedOK'
  <2>1. ASSUME NEW n \in Names, NEW s \in DOMAIN synced[n], ~TooOld(synced[n][s], Cutoff)
        PROVE  byName'[n] # None /\ s \in Live(slots'[byName'[n]])
    <3>1. PICK i \in I : slots'[i].name = n /\ s \in Live(slots'[i])
      BY <1>9, <2>1
    <3>2. byName'[n] = i
      BY <1>8, <3>1
    <3>3. QED
      BY <1>3, <1>4, <3>1, <3>2
  <2>2. QED
    BY <1>2, <1>3, <2>1 DEF SyncedOK
<1>12. LogSound' /\ LogUnique'
  BY <1>2, <1>3, <1>4, <1>5 DEF Replayable, LogSound, LogUnique
<1>13. Linked'
  <2>1. ASSUME NEW i \in Ids
        PROVE  Scans'[i][k].name = IF Resolved(i)' THEN slots'[i].name ELSE Unnamed
    <3>1. Scans'[i][k] = Scans[i][k]
      BY <1>4, <1>5
    <3>2. Resolved(i)' <=> i \in I
      BY <1>2, <1>4, <1>7 DEF Resolved, Loaded
    <3>3. QED
      BY <1>6, <1>7, <3>1, <3>2
  <2>2. QED
    BY <1>3, <1>4, <2>1 DEF Linked
<1>14. InMemory' /\ Writer'
  BY <1>2, <1>4, <1>7, <1>8 DEF InMemory, Writer, Loaded
<1>15. Durable'
  <2>1. ASSUME NEW n \in Names, NEW s \in DOMAIN synced[n], ~TooOld(synced[n][s], Cutoff)
        PROVE  \E i \in Ids : Scans'[i][k].name = n /\ Has(Scans'[i][k], s, synced[n][s])
    <3>1. PICK i \in I : slots'[i].name = n /\ Has(Scans[i][k], s, synced[n][s])
      BY <1>9, <2>1
    <3>2. i \in Ids /\ Scans'[i][k] = Scans[i][k] /\ Scans[i][k].name = n
      BY <1>4, <1>5, <1>7, <3>1
    <3>3. QED
      BY <3>1, <3>2
  <2>2. QED
    BY <1>2, <1>3, <1>4, <1>5, <2>1 DEF Durable
<1>16. QED
  BY <1>10, <1>11, <1>12, <1>13, <1>14, <1>15 DEF MemOK, Replayable

-----------------------------------------------------------------------------
(* Every step keeps the promise.                                           *)

LEMMA PromiseInit ==
  ASSUME Init
  PROVE  Promise
<1>1. ClockOK
  BY DEF Init, ClockOK
<1>2. /\ Loaded = {} /\ log = <<>> /\ flushed = 0 /\ ~dead /\ syncing = "idle"
      /\ \A n \in Names : synced[n] = <<>>
  BY DEF Init, Loaded
<1>3. MemOK
  BY <1>2, EmptyMap DEF MemOK, MemSound, SyncedOK
<1>4. Len(log) = 0
  BY <1>2, EmptySeq
<1>5. ASSUME NEW i \in Ids, NEW k \in 0..Len(log)
      PROVE  Scans[i][k] = Blank
  <2>1. IdsOf(log) = {}
    BY <1>4 DEF IdsOf
  <2>2. PICK c : c = Cutoff
    OBVIOUS
  <2>3. i \notin IdsOf(log) /\ Len(log) \in Nat
    BY <1>4, <2>1
  <2>4. Accumulated(log, i, c)[k] = Blank
    BY <2>3, NoRecord
  <2>5. QED
    BY <2>2, <2>4 DEF Scans
<1>6. Unnamed \notin Names /\ Blank.name = Unnamed /\ DOMAIN Blank.live = {}
  BY <1>1, BlankAcc, Constants
<1>7. LogSound /\ LogUnique
  BY <1>5, <1>6 DEF LogSound, LogUnique
<1>8. Linked
  <2>1. Len(log) \in 0..Len(log)
    BY <1>4
  <2>2. QED
    BY <1>2, <1>5, <1>6, <2>1 DEF Linked, Resolved
<1>9. InMemory /\ Writer /\ Durable
  BY <1>2, EmptyMap DEF InMemory, Writer, Durable
<1>10. QED
  BY <1>3, <1>7, <1>8, <1>9 DEF Promise, Replayable

LEMMA QuietKeeps ==
  ASSUME Store, Promise, Quiet, \E w : QuietLog(w)
  PROVE  (Premise => MemOK') /\ (Plain => Replayable')
<1>1. Premise => MemOK'
  BY QuietMem DEF Promise, Store
<1>2. Plain => Replayable'
  BY QuietReplayable DEF Promise, Premise
<1>3. QED
  BY <1>1, <1>2

\* Only a restart counts as one.
LEMMA SameLife ==
  ASSUME Next
  PROVE  crashes' = crashes \/ Restart
<1>1. ASSUME NEW n \in Names, SlotPublish(n) \/ DeleteSlot(n)
      PROVE  crashes' = crashes
  BY <1>1 DEF SlotPublish, DeleteSlot
<1>2. ASSUME NEW i, NEW s, SlotRegister(i) \/ Record(i, s)
      PROVE  crashes' = crashes
  BY <1>2 DEF SlotRegister, Record
<1>3. ASSUME NEW i, NEW s, ConfirmOne(i, s) \/ ConfirmCursor(i, s) \/ SweepSlot(i)
      PROVE  crashes' = crashes
  BY <1>3 DEF ConfirmOne, ConfirmCursor, SweepSlot
<1>4. Tick \/ BufferSpills \/ Sync \/ Compact \/ CompactFails \/ Snapshot => crashes' = crashes
  BY DEF Tick, BufferSpills, Sync, Compact, CompactFails, Snapshot
<1>5. QED
  BY <1>1, <1>2, <1>3, <1>4 DEF Next

\* Between two restarts.
LEMMA LifeStep ==
  ASSUME Store, Promise, Next, ~Restart
  PROVE  (Premise => MemOK') /\ (Plain => Replayable')
<1>1. setup' = setup
  BY DEF Next
<1>2. (Premise => MemOK) /\ (Plain => Replayable)
  BY DEF Promise
<1>3. CASE \E n \in Names : SlotPublish(n) \/ DeleteSlot(n)
  BY <1>1, <1>2, <1>3, SlotPublishMem, SlotPublishKeeps, DeleteSlotMem, DeleteSlotKeeps
<1>4. CASE \E i \in Ids : SlotRegister(i)
  BY <1>1, <1>2, <1>4, SlotRegisterMem, SlotRegisterKeeps
<1>5. CASE \/ \E i \in Loaded, s \in Seqs : Record(i, s) \/ ConfirmOne(i, s) \/ ConfirmCursor(i, s)
           \/ \E i \in Loaded : SweepSlot(i)
           \/ Snapshot
  <2>1. Quiet /\ \E w : QuietLog(w)
    BY <1>1, <1>5, RecordStep, ConfirmOneStep, ConfirmCursorStep, SweepSlotStep, SnapshotStep
  <2>2. QED
    BY <2>1, QuietKeeps
<1>6. CASE Tick
  BY <1>1, <1>2, <1>6, TickMem, TickKeeps
<1>7. CASE BufferSpills
  <2>1. UNCHANGED <<setup, now, slots, byName, recorded, synced>>
    BY <1>1, <1>7 DEF BufferSpills, memory, history
  <2>2. QED
    BY <1>1, <1>2, <1>7, <2>1, SameMem, BufferSpillsKeeps
<1>8. CASE Sync
  BY <1>1, <1>2, <1>8, SyncMem, SyncKeeps
<1>9. CASE Compact \/ CompactFails
  <2>1. /\ UNCHANGED <<setup, now, slots, byName, recorded, synced>> /\ syncing = "compact"
    BY <1>1, <1>9 DEF Compact, CompactFails, memory, history
  <2>2. ~Plain
    BY <1>2, <2>1 DEF Replayable, Writer
  <2>3. QED
    BY <1>2, <2>1, <2>2, SameMem
<1>10. QED
  BY <1>3, <1>4, <1>5, <1>6, <1>7, <1>8, <1>9 DEF Next

LEMMA PromiseStep ==
  ASSUME Store, Promise, [Next]_vars
  PROVE  Promise'
<1>1. CASE UNCHANGED vars
  <2>1. UNCHANGED <<setup, slots, byName, unregistered, log, flushed, dead, syncing, now, crashes,
                    recorded, synced>>
    BY <1>1 DEF vars
  <2>2. Scans' = Scans /\ Cutoff' = Cutoff /\ Ids' = Ids
    BY <2>1, SameScans DEF Store
  <2>3. (Premise' <=> Premise) /\ (Plain' <=> Plain) /\ None' = None
    BY <2>1, Fixed DEF Premise, Plain
  <2>4. MemOK => MemOK'
    BY <2>1, SameMem
  <2>5. Replayable => Replayable'
    BY <2>1, <2>2, <2>3 DEF Replayable, LogSound, LogUnique, Linked, Resolved, InMemory, Durable,
       Writer, Loaded
  <2>6. QED
    BY <2>3, <2>4, <2>5 DEF Promise
<1>2. CASE Next /\ ~Restart
  <2>1. setup' = setup /\ crashes' = crashes
    BY <1>2, SameLife DEF Next
  <2>2. (Premise' <=> Premise) /\ (Plain' <=> Plain)
    BY <2>1, Fixed DEF Premise, Plain
  <2>3. QED
    BY <1>2, <2>2, LifeStep DEF Promise
<1>3. CASE Next /\ Restart
  <2>1. setup' = setup /\ crashes' = crashes + 1 /\ crashes \in Nat
    BY <1>3 DEF Next, Restart, Store, ClockOK
  <2>2. crashes' # 0
    BY <2>1
  <2>3. (Plain' <=> Plain) /\ (Premise' => Plain)
    BY <2>1, <2>2, Fixed DEF Premise, Plain
  <2>4. Plain => MemOK' /\ Replayable'
    BY <1>3, <2>1, RestartKeeps DEF Promise
  <2>5. QED
    BY <2>3, <2>4 DEF Promise
<1>4. QED
  BY <1>1, <1>2, <1>3

\* No step of a store breaks its promise: what Sync has found stays, in memory and, where the
\* log is never compacted and one goroutine resolves a name, in every log a crash may leave.
THEOREM PromiseKept == Spec => []Promise
<1>1. Init => Promise
  BY PromiseInit
<1>2. Store /\ Promise /\ [Next]_vars => Promise'
  BY PromiseStep
<1>3. QED
  BY <1>1, <1>2, StoreCorrect, PTL DEF Spec

\* "It is never wrong": in a store that has not been restarted yet, or whose log is never
\* compacted and whose names are resolved by one goroutine at a time, what a slot answers
\* for a consumer was recorded for that consumer.
THEOREM SeenSound == Spec => [](Premise => SeenIsSound)
<1>1. Store /\ Promise => (Premise => SeenIsSound)
  <2> SUFFICES ASSUME Store, MemOK, NEW n \in Names, Registered(n)
               PROVE  Live(SlotOf(n)) \subseteq recorded[n]
    BY DEF Promise, SeenIsSound
  <2>1. byName[n] \in Loaded /\ slots[byName[n]].name = n
    BY DEF Store, TablesOK, Registered
  <2>2. QED
    BY <2>1 DEF MemOK, MemSound, SlotOf
<1>2. QED
  BY <1>1, StoreCorrect, PromiseKept, PTL

\* "A record is durable once Sync returns": in such a store it outlives every restart, torn
\* tail included, until it is confirmed, evicted or deleted, or the TTL has passed.
THEOREM DurableOnceSynced == Spec => [](Premise => SyncedSurvives)
<1>1. Promise => (Premise => SyncedSurvives)
  BY DEF Promise, MemOK, SyncedOK, SyncedSurvives, Registered, SlotOf
<1>2. QED
  BY <1>1, PromiseKept, PTL
=============================================================================
