---------------------------- MODULE CoverageProofs ----------------------------
(***************************************************************************)
(* Proofs about what an audit says of the files it did not read: the       *)
(* inventory, the plan of requests, their answers, and the blind spots and *)
(* the trust that follow from them; about the decoys that are put into a   *)
(* request to see whether they are read; and about what is said of the     *)
(* reviews of a repository if GitHub does not answer all that it is asked. *)
(***************************************************************************)
EXTENDS AnalysesProofs


(***************************************************************************)
(* The inventory: every file that is asked for is in it.                   *)
(***************************************************************************)

\* What is counted there is what is counted here.
LEMMA SameCount == ASSUME NEW s PROVE R!Cardinality(s) = Cardinality(s)
BY DEF R!Cardinality, Cardinality

LEMMA SameMembers == ASSUME NEW s PROVE R!Range(s) = Range(s)
BY DEF R!Range, Range

\* Some numbers that are as many as there are smaller ones are all of them.
LEMMA RanksAreAll ==
  ASSUME NEW asked0, IsFiniteSet(asked0), NEW rank \in [asked0 -> 0..Cardinality(asked0) - 1],
         \A i, j \in asked0 : rank[i] = rank[j] => i = j
  PROVE  \A k \in 1..Cardinality(asked0) : \E i \in asked0 : rank[i] = k - 1
<1> DEFINE n == Cardinality(asked0)
           ranks == 0..n - 1
<1>1. n \in Nat
  BY FS_CardinalityType
<1>2. IsFiniteSet(ranks) /\ Cardinality(ranks) = n
  <2> HIDE DEF n
  <2> DEFINE zero == 0
             top == n - 1
  <2>1. zero \in Int /\ top \in Int /\ (zero > top => n = 0) /\ top - zero + 1 = n
    BY <1>1
  <2> HIDE DEF zero, top
  <2>2. IsFiniteSet(zero..top) /\ Cardinality(zero..top) = n
    BY <2>1, FS_Interval
  <2> QED BY <2>2 DEF zero, top
<1>3. rank \in Injection(asked0, ranks)
  BY DEF Injection, IsInjective
<1>4. rank \in Surjection(asked0, ranks)
  <2> HIDE DEF ranks
  <2> QED BY <1>2, <1>3, FS_Injection
<1>5. \A k \in 1..n : k - 1 \in ranks
  BY <1>1
<1> QED BY <1>4, <1>5 DEF Surjection

\* Files with tiers.
AreFiles(files) == IsList(files) /\ \A f \in Range(files) : f.tier \in 1..6 /\ f.hint \in Int

\* The entries of the files that are asked for.
IsInventory(entries, files, only) ==
  /\ IsList(entries)
  /\ \A k \in DOMAIN entries : \E i \in DOMAIN files : entries[k] = R!EntryOf(files[i])
  /\ \A i \in DOMAIN files : only = {} \/ files[i].name \in only =>
         \E k \in DOMAIN entries : entries[k] = R!EntryOf(files[i])

\* One file is sent before another, in one order.
LEMMA SoonerOrders ==
  ASSUME NEW files, AreFiles(files),
         NEW i \in DOMAIN files, NEW j \in DOMAIN files, NEW k \in DOMAIN files
  PROVE  /\ ~R!Sooner(files, i, i)
         /\ i = j \/ R!Sooner(files, i, j) \/ R!Sooner(files, j, i)
         /\ R!Sooner(files, i, j) /\ R!Sooner(files, j, k) => R!Sooner(files, i, k)
<1> DEFINE tier(a) == R!EntryOf(files[a]).tier
           hint(a) == IF tier(a) = R!CodeTier THEN R!EntryOf(files[a]).hint ELSE 0
<1>1. ASSUME NEW a \in DOMAIN files PROVE tier(a) \in Int /\ hint(a) \in Int /\ a \in Int
  <2>1. files[a].tier \in 1..6 /\ files[a].hint \in Int
    BY DEF Range, AreFiles
  <2>2. a \in Int
    BY DEF IsList, AreFiles
  <2> QED BY <2>1, <2>2 DEF R!EntryOf
<1>2. ASSUME NEW a \in DOMAIN files, NEW b \in DOMAIN files
      PROVE  R!Sooner(files, a, b) <=> \/ tier(a) < tier(b)
                                       \/ tier(a) = tier(b) /\ hint(a) < hint(b)
                                       \/ tier(a) = tier(b) /\ hint(a) = hint(b) /\ a < b
  BY DEF R!Sooner
<1> HIDE DEF tier, hint
<1> QED BY <1>1, <1>2

\* The entries are those of the files that are asked for.
LEMMA InventoryHolds ==
  ASSUME NEW files, AreFiles(files),
         NEW only
  PROVE  IsInventory(R!Inventory(files, only), files, only)
<1> DEFINE some == {i \in DOMAIN files : only = {} \/ files[i].name \in only}
           before(i) == {j \in some : R!Sooner(files, j, i)}
           n == Cardinality(some)
           rank == [i \in some |-> Cardinality(before(i))]
           nth(k) == CHOOSE i \in some : rank[i] = k - 1
           entries == R!Inventory(files, only)
<1>1. IsFiniteSet(some) /\ n \in Nat
  <2>1. Len(files) \in Nat /\ DOMAIN files = 1..Len(files)
    BY DEF IsList, AreFiles
  <2>2. IsFiniteSet(1..Len(files))
    BY <2>1, FS_Interval
  <2>3. IsFiniteSet(DOMAIN files)
    BY <2>1, <2>2
  <2>4. some \subseteq DOMAIN files
    OBVIOUS
  <2> HIDE DEF some
  <2> QED BY <2>3, <2>4, FS_Subset, FS_CardinalityType
<1>2. \A i \in some : IsFiniteSet(before(i)) /\ Cardinality(before(i)) \in Nat
  <2> TAKE i \in some
  <2>1. before(i) \subseteq some
    OBVIOUS
  <2> HIDE DEF before, some
  <2> QED BY <1>1, <2>1, FS_Subset, FS_CardinalityType
<1>3. ASSUME NEW i \in some, NEW j \in some, R!Sooner(files, i, j)
      PROVE  Cardinality(before(i)) + 1 <= Cardinality(before(j))
  <2>1. before(i) \cup {i} \subseteq before(j)
    BY <1>3, SoonerOrders
  <2>2. i \notin before(i)
    BY SoonerOrders
  <2> HIDE DEF before, some
  <2>3. Cardinality(before(i) \cup {i}) = Cardinality(before(i)) + 1
    BY <1>2, <2>2, FS_AddElement
  <2>4. Cardinality(before(i) \cup {i}) <= Cardinality(before(j))
    BY <1>2, <2>1, FS_Subset
  <2> QED BY <2>3, <2>4
<1>4. rank \in [some -> 0..n - 1]
  <2> SUFFICES ASSUME NEW i \in some PROVE Cardinality(before(i)) \in 0..n - 1
    OBVIOUS
  <2>1. before(i) \cup {i} \subseteq some
    OBVIOUS
  <2>2. i \notin before(i)
    BY SoonerOrders
  <2> HIDE DEF before, some
  <2>3. Cardinality(before(i) \cup {i}) = Cardinality(before(i)) + 1
    BY <1>2, <2>2, FS_AddElement
  <2>4. Cardinality(before(i) \cup {i}) <= n
    BY <1>1, <2>1, FS_Subset
  <2> HIDE DEF n
  <2> QED BY <2>3, <2>4, <1>1, <1>2
<1>5. \A i, j \in some : rank[i] = rank[j] => i = j
  <2> TAKE i, j \in some
  <2>1. i = j \/ R!Sooner(files, i, j) \/ R!Sooner(files, j, i)
    BY SoonerOrders
  <2>2. rank[i] = Cardinality(before(i)) /\ rank[j] = Cardinality(before(j))
    OBVIOUS
  <2>3. Cardinality(before(i)) \in Nat /\ Cardinality(before(j)) \in Nat
    BY <1>2
  <2>4. /\ R!Sooner(files, i, j) => Cardinality(before(i)) + 1 <= Cardinality(before(j))
        /\ R!Sooner(files, j, i) => Cardinality(before(j)) + 1 <= Cardinality(before(i))
    BY <1>3
  <2> DEFINE one == Cardinality(before(i))
             other == Cardinality(before(j))
  <2> HIDE DEF one, other
  <2>5. one # other \/ i = j
    BY <2>1, <2>3, <2>4 DEF one, other
  <2> QED BY <2>2, <2>5 DEF one, other
<1>6. \A k \in 1..n : \E i \in some : rank[i] = k - 1
  <2> HIDE DEF some, rank, n
  <2>1. n = Cardinality(some)
    BY DEF n
  <2> QED BY <1>1, <1>4, <1>5, <2>1, RanksAreAll
<1>7. entries = [k \in 1..n |-> R!EntryOf(files[nth(k)])]
  <2>1. \A i \in some : rank[i] = Cardinality(before(i))
    OBVIOUS
  <2> DEFINE pick(k) == CHOOSE i \in some : R!Cardinality(before(i)) = k - 1
  <2>2. \A k : nth(k) = pick(k)
    BY <2>1, SameCount
  <2>3. R!Cardinality(some) = n
    BY SameCount
  <2>4. entries = [k \in 1..R!Cardinality(some) |-> R!EntryOf(files[pick(k)])]
    BY DEF R!Inventory
  <2> HIDE DEF nth, pick, n, entries, some
  <2> QED BY <2>2, <2>3, <2>4
<1>8. \A k \in 1..n : nth(k) \in some /\ rank[nth(k)] = k - 1
  <2> HIDE DEF some, rank, n
  <2> QED BY <1>6
<1>9. \A k \in 1..n : nth(k) \in DOMAIN files
  <2> HIDE DEF nth, rank, n
  <2> QED BY <1>8
<1>10. \A i \in some : rank[i] + 1 \in 1..n /\ nth(rank[i] + 1) = i
  <2> TAKE i \in some
  <2> HIDE DEF some, rank, n, nth
  <2>1. rank[i] \in 0..n - 1
    BY <1>4
  <2>2. rank[i] + 1 \in 1..n /\ (rank[i] + 1) - 1 = rank[i]
    BY <2>1, <1>1
  <2> QED BY <2>2, <1>8, <1>5
<1> HIDE DEF nth, rank, n, entries
<1>11. IsList(entries) /\ DOMAIN entries = 1..n
  BY <1>7, <1>1, ListOf
<1>12. ASSUME NEW i \in DOMAIN files, only = {} \/ files[i].name \in only
       PROVE  \E k \in DOMAIN entries : entries[k] = R!EntryOf(files[i])
  <2>1. i \in some
    BY <1>12
  <2> QED BY <2>1, <1>10, <1>7, <1>11
<1> QED BY <1>7, <1>9, <1>11, <1>12 DEF entries, IsInventory

(***************************************************************************)
(* The plan: what a request carries of a file is said.                     *)
(***************************************************************************)

\* A list with one more.
LEMMA OneMore ==
  ASSUME NEW s, IsList(s), NEW x
  PROVE  /\ IsList(Append(s, x)) /\ Len(Append(s, x)) = Len(s) + 1
         /\ DOMAIN s = 1..Len(s) /\ Len(s) \in Nat /\ DOMAIN Append(s, x) = 1..Len(s) + 1
         /\ \A k \in 1..Len(s) : Append(s, x)[k] = s[k]
         /\ Append(s, x)[Len(s) + 1] = x
<1> DEFINE n == Len(s)
           t == Append(s, x)
<1>1. s \in Seq(Range(s) \cup {x}) /\ n \in Nat /\ DOMAIN s = 1..n
  <2>1. \A k \in DOMAIN s : s[k] \in Range(s) \cup {x}
    BY DEF Range
  <2> QED BY <2>1 DEF IsList
<1>2. t = [k \in 1..n + 1 |-> t[k]] /\ (\A k \in 1..n : t[k] = s[k]) /\ t[n + 1] = x
  <2> DEFINE values == Range(s) \cup {x}
  <2>1. s \in Seq(values) /\ x \in values
    BY <1>1
  <2> HIDE DEF values
  <2>2. t \in Seq(values) /\ Len(t) = n + 1 /\ DOMAIN t = 1..n + 1
    BY <2>1
  <2>3. ASSUME NEW k \in 1..n PROVE t[k] = s[k]
    BY <2>1
  <2>4. t[n + 1] = x
    BY <2>1
  <2> HIDE DEF t, n
  <2> QED BY <2>2, <2>3, <2>4
<1>3. n + 1 \in Nat
  BY <1>1
<1> HIDE DEF n, t
<1>4. IsList(t) /\ Len(t) = n + 1 /\ DOMAIN t = 1..n + 1
  BY <1>2, <1>3, ListOf
<1> QED BY <1>1, <1>2, <1>4 DEF n, t

\* What is sent of a file: part of it, or all of its lines.
PartOf(p, entries) ==
  \E e \in Range(entries) : p.file = e.file /\ (~p.partial => p.seg.lines = e.lines)

\* Requests that carry parts of files, ...
RequestsAre(chunks, entries) ==
  IsList(chunks) /\ \A k \in DOMAIN chunks :
      IsList(chunks[k].segments) /\ \A p \in Range(chunks[k].segments) : PartOf(p, entries)

\* ... and are no more than there may be.
PlanIs(plan, entries, maxChunks) ==
  RequestsAre(plan.chunks, entries) /\ Len(plan.chunks) <= maxChunks

\* A request is opened with nothing in it.
LEMMA OpenedIsEmpty ==
  ASSUME NEW entries, NEW chunks, RequestsAre(chunks, entries)
  PROVE  LET more == Append(chunks, [used |-> 0, segments |-> <<>>])
         IN RequestsAre(more, entries) /\ Len(more) = Len(chunks) + 1
<1> DEFINE empty == [used |-> 0, segments |-> <<>>]
           more == Append(chunks, empty)
<1>1. IsList(empty.segments) /\ Range(empty.segments) = {}
  BY DEF IsList, Range
<1>2. IsList(chunks)
  BY DEF RequestsAre
<1> HIDE DEF empty
<1>3. /\ IsList(more) /\ Len(more) = Len(chunks) + 1
      /\ DOMAIN chunks = 1..Len(chunks) /\ Len(chunks) \in Nat /\ DOMAIN more = 1..Len(chunks) + 1
      /\ \A k \in 1..Len(chunks) : more[k] = chunks[k]
      /\ more[Len(chunks) + 1] = empty
  BY <1>2, OneMore
<1> HIDE DEF more
<1>4. ASSUME NEW k \in DOMAIN more
      PROVE  IsList(more[k].segments) /\ \A p \in Range(more[k].segments) : PartOf(p, entries)
  <2>1. CASE k = Len(chunks) + 1
    BY <2>1, <1>1, <1>3
  <2>2. CASE k # Len(chunks) + 1
    <3>1. k \in DOMAIN chunks /\ more[k] = chunks[k]
      BY <2>2, <1>3
    <3> QED BY <3>1 DEF RequestsAre
  <2> QED BY <2>1, <2>2
<1> QED BY <1>3, <1>4 DEF RequestsAre, more, empty

\* A part goes into a request.
LEMMA PartIsPut ==
  ASSUME NEW entries, NEW chunks, RequestsAre(chunks, entries), NEW target \in DOMAIN chunks,
         NEW part, PartOf(part, entries), NEW put, put = [k \in DOMAIN chunks |-> put[k]],
         \A k \in DOMAIN chunks \ {target} : put[k] = chunks[k],
         put[target].segments = Append(chunks[target].segments, part)
  PROVE  RequestsAre(put, entries) /\ Len(put) = Len(chunks)
<1> DEFINE one == chunks[target].segments
           other == put[target].segments
           n == Len(chunks)
<1>1. other = Append(one, part)
  OBVIOUS
<1>2. IsList(one) /\ \A p \in Range(one) : PartOf(p, entries)
  BY DEF RequestsAre
<1> HIDE DEF one, other
<1>3. IsList(other) /\ \A p \in Range(other) : PartOf(p, entries)
  <2>1. /\ IsList(other) /\ DOMAIN one = 1..Len(one) /\ Len(one) \in Nat
        /\ DOMAIN other = 1..Len(one) + 1
        /\ \A k \in 1..Len(one) : other[k] = one[k]
        /\ other[Len(one) + 1] = part
    BY <1>1, <1>2, OneMore
  <2>2. ASSUME NEW k \in DOMAIN other PROVE PartOf(other[k], entries)
    <3>1. CASE k = Len(one) + 1
      BY <3>1, <2>1
    <3>2. CASE k # Len(one) + 1
      <4>1. k \in DOMAIN one /\ other[k] = one[k]
        BY <3>2, <2>1
      <4> QED BY <4>1, <1>2 DEF Range
    <3> QED BY <3>1, <3>2
  <2> QED BY <2>1, <2>2 DEF Range
<1>4. n \in Nat /\ DOMAIN chunks = 1..n
  BY DEF RequestsAre, IsList
<1>5. put = [k \in 1..n |-> put[k]]
  BY <1>4
<1> HIDE DEF n
<1>6. IsList(put) /\ Len(put) = n /\ DOMAIN put = 1..n
  BY <1>4, <1>5, ListOf
<1>7. ASSUME NEW k \in DOMAIN put
      PROVE  IsList(put[k].segments) /\ \A p \in Range(put[k].segments) : PartOf(p, entries)
  <2>1. CASE k = target
    BY <2>1, <1>3 DEF other
  <2>2. CASE k # target
    <3>1. k \in DOMAIN chunks /\ put[k] = chunks[k]
      BY <2>2, <1>4, <1>6
    <3> QED BY <3>1 DEF RequestsAre
  <2> QED BY <2>1, <2>2
<1> QED BY <1>6, <1>7 DEF RequestsAre, n

\* What is cut off of a file is said.
LEMMA SegmentIsWhole ==
  ASSUME NEW e, NEW limit, ~R!Segment(e, limit).cut, ~(R!Segment(e, limit).lines < e.lines)
  PROVE  R!Segment(e, limit).lines = e.lines
<1> DEFINE fit == IF limit < 0 THEN 0 ELSE limit \div (e.width + R!PerLine)
<1>1. CASE e.lines = 0
  BY <1>1 DEF R!Segment
<1>2. CASE e.lines # 0 /\ fit = 0
  BY <1>2 DEF R!Segment
<1>3. CASE e.lines # 0 /\ fit # 0
  <2>1. R!Segment(e, limit).lines = IF fit < e.lines THEN fit ELSE e.lines
    BY <1>3 DEF R!Segment
  <2> HIDE DEF fit
  <2> QED BY <2>1
<1> QED BY <1>1, <1>2, <1>3

\* A file is put into a request that there is, and the others stay.
LEMMA PlaceKeeps ==
  ASSUME NEW entries, NEW e \in Range(entries), NEW plan, NEW maxChunks \in Nat, NEW capacity,
         PlanIs(plan, entries, maxChunks)
  PROVE  PlanIs(R!Place(plan, e, capacity, maxChunks), entries, maxChunks)
<1> DEFINE perFile == IF R!MaxFileChars < capacity THEN R!MaxFileChars ELSE capacity
           limit == perFile - R!HeadChars
           seg == R!Segment(e, limit)
           size == R!BlockSize(seg)
           room == {k \in DOMAIN plan.chunks : plan.chunks[k].used + size <= capacity}
           new == room = {} /\ Len(plan.chunks) < maxChunks
           empty == [used |-> 0, segments |-> <<>>]
           chunks == IF new THEN Append(plan.chunks, empty) ELSE plan.chunks
           target == IF room = {} THEN Len(chunks) ELSE CHOOSE k \in room : \A j \in room : k <= j
           full == room = {} /\ (~new \/ size > capacity)
           part == [file |-> e.file, seg |-> seg, partial |-> seg.cut \/ seg.lines < e.lines]
           put == [chunks EXCEPT ![target] =
                     [used |-> @.used + size, segments |-> Append(@.segments, part)]]
           next == R!Place(plan, e, capacity, maxChunks)
<1>1. next = IF ~R!Candidate(e) THEN plan
             ELSE IF full THEN [chunks |-> chunks, left |-> plan.left \cup {e.file}]
             ELSE [chunks |-> put, left |-> plan.left]
  BY DEF R!Place
<1>2. PartOf(part, entries)
  <2>1. ~part.partial => part.seg.lines = e.lines
    <3> HIDE DEF limit
    <3> QED BY SegmentIsWhole
  <2>2. part.file = e.file
    OBVIOUS
  <2> HIDE DEF part
  <2> QED BY <2>1, <2>2 DEF PartOf
<1>3. Len(plan.chunks) \in Nat /\ DOMAIN plan.chunks = 1..Len(plan.chunks)
  BY DEF PlanIs, RequestsAre, IsList
<1> HIDE DEF part, size
<1>4. room \in SUBSET Nat /\ room \subseteq DOMAIN plan.chunks
  BY <1>3
<1>5. RequestsAre(chunks, entries) /\ Len(chunks) <= maxChunks
  <2>1. CASE new
    <3>1. RequestsAre(Append(plan.chunks, empty), entries)
          /\ Len(Append(plan.chunks, empty)) = Len(plan.chunks) + 1
      BY OpenedIsEmpty DEF PlanIs
    <3>2. Len(plan.chunks) < maxChunks
      BY <2>1
    <3>3. chunks = Append(plan.chunks, empty)
      BY <2>1
    <3> HIDE DEF chunks, empty
    <3> QED BY <3>1, <3>2, <3>3, <1>3
  <2>2. CASE ~new
    <3>1. chunks = plan.chunks
      BY <2>2
    <3> HIDE DEF chunks
    <3> QED BY <3>1 DEF PlanIs
  <2> QED BY <2>1, <2>2
<1>6. CASE R!Candidate(e) /\ full
  <2>1. next.chunks = chunks
    BY <1>6, <1>1
  <2> HIDE DEF next, chunks
  <2> QED BY <2>1, <1>5 DEF PlanIs, next
<1>7. CASE R!Candidate(e) /\ ~full
  <2>1. target \in DOMAIN chunks
    <3>1. CASE room = {}
      <4>1. new
        BY <3>1, <1>7
      <4>2. chunks = Append(plan.chunks, empty)
        BY <4>1
      <4>3. Len(chunks) = Len(plan.chunks) + 1
        <5> HIDE DEF chunks
        <5> QED BY <4>2, OpenedIsEmpty DEF PlanIs
      <4>4. target = Len(chunks) /\ IsList(chunks)
        <5> HIDE DEF chunks
        <5> QED BY <3>1, <1>5 DEF RequestsAre
      <4> HIDE DEF chunks, target
      <4> QED BY <4>3, <4>4, <1>3 DEF IsList
    <3>2. CASE room # {}
      <4>1. chunks = plan.chunks
        BY <3>2
      <4> DEFINE first == CHOOSE k \in room : \A j \in room : k <= j
      <4>2. target = first
        BY <3>2
      <4>3. first \in room
        <5> HIDE DEF room
        <5> QED BY <3>2, <1>4, LeastNumber
      <4> HIDE DEF first, room, target, chunks
      <4> QED BY <4>1, <4>2, <4>3, <1>4
    <3> QED BY <3>1, <3>2
  <2>2. next.chunks = put
    <3> HIDE DEF next, full, put, chunks, target
    <3> QED BY <1>7, <1>1
  <2>3. /\ put = [k \in DOMAIN chunks |-> put[k]]
        /\ \A k \in DOMAIN chunks \ {target} : put[k] = chunks[k]
        /\ put[target].segments = Append(chunks[target].segments, part)
    <3> HIDE DEF chunks, target
    <3> QED BY <2>1
  <2> HIDE DEF next, put, chunks, target, limit, seg, empty, new, full
  <2>4. RequestsAre(put, entries) /\ Len(put) = Len(chunks)
    BY <2>1, <2>3, <1>2, <1>5, PartIsPut
  <2> QED BY <2>2, <2>4, <1>5 DEF PlanIs, next
<1>8. CASE ~R!Candidate(e)
  BY <1>8, <1>1
<1> QED BY <1>6, <1>7, <1>8

(***************************************************************************)
(* Recursion over entries, requests and rows.                              *)
(***************************************************************************)

\* A file is put where it has room.
PutIn(plan, e, budget, overhead, maxChunks) ==
  R!Place(plan, e, R!Capacity(budget, overhead), maxChunks)

\* The plans of so many entries.
LEMMA PlanUnfolds ==
  ASSUME NEW n \in Nat, NEW entries, n = Len(entries), NEW budget, NEW maxChunks, NEW overhead
  PROVE  \E at : /\ at[0] = [chunks |-> <<>>, left |-> {}]
                 /\ \A k \in 1..n : at[k] = PutIn(at[k - 1], entries[k], budget, overhead, maxChunks)
                 /\ R!PlanChunks(entries, budget, maxChunks, overhead) = at[n]
<1> DEFINE base == [chunks |-> <<>>, left |-> {}]
           Rec(at, m) == at = [k \in 0..m |-> IF k = 0 THEN base
                                             ELSE PutIn(at[k - 1], entries[k], budget, overhead, maxChunks)]
           Nums == {m \in Nat : \E at : Rec(at, m)}
<1>1. 0 \in Nums
  <2> DEFINE one == [k \in 0..0 |-> base]
  <2>1. Rec(one, 0)
    <3> HIDE DEF base
    <3> QED OBVIOUS
  <2> QED BY <2>1
<1>2. ASSUME NEW m \in Nat, m \in Nums PROVE m + 1 \in Nums
  <2>1. PICK at : Rec(at, m)
    BY <1>2
  <2> DEFINE new == [k \in 0..m + 1 |-> IF k = m + 1 THEN PutIn(at[m], entries[k], budget, overhead, maxChunks)
                                        ELSE at[k]]
  <2>2. ASSUME NEW k \in 0..m + 1
        PROVE  new[k] = IF k = 0 THEN base ELSE PutIn(new[k - 1], entries[k], budget, overhead, maxChunks)
    <3> HIDE DEF base
    <3>1. CASE k = m + 1
      <4>1. new[k - 1] = at[m] /\ k # 0
        BY <3>1
      <4> QED BY <4>1, <3>1
    <3>2. CASE k \in 0..m
      <4>1. new[k] = at[k]
        BY <3>2
      <4>2. at[k] = IF k = 0 THEN base ELSE PutIn(at[k - 1], entries[k], budget, overhead, maxChunks)
        BY <2>1, <3>2
      <4>3. k # 0 => new[k - 1] = at[k - 1]
        BY <3>2
      <4> QED BY <4>1, <4>2, <4>3
    <3> QED BY <3>1, <3>2
  <2>3. new = [k \in 0..m + 1 |-> new[k]]
    OBVIOUS
  <2> HIDE DEF new, base
  <2>4. Rec(new, m + 1)
    BY <2>2, <2>3
  <2> HIDE DEF Rec
  <2> QED BY <2>4
<1>3. n \in Nums
  <2> HIDE DEF Nums
  <2> QED BY <1>1, <1>2, NatInductionOnSets
<1>4. PICK any : Rec(any, n)
  BY <1>3
<1> DEFINE at == CHOOSE at : Rec(at, n)
<1>5. Rec(at, n)
  BY <1>4
<1>6. R!PlanChunks(entries, budget, maxChunks, overhead) = at[n]
  BY DEF R!PlanChunks, PutIn
<1>7. \A k \in 0..n : at[k] = IF k = 0 THEN base ELSE PutIn(at[k - 1], entries[k], budget, overhead, maxChunks)
  <2> HIDE DEF base
  <2> QED BY <1>5
<1> HIDE DEF at, base
<1>8. at[0] = base /\ \A k \in 1..n : at[k] = PutIn(at[k - 1], entries[k], budget, overhead, maxChunks)
  BY <1>7
<1> QED BY <1>6, <1>8 DEF base

\* What is planned is a list of requests, which carry parts of the files.
LEMMA PlanHolds ==
  ASSUME NEW entries, IsList(entries), NEW budget, NEW maxChunks \in Nat, NEW overhead
  PROVE  PlanIs(R!PlanChunks(entries, budget, maxChunks, overhead), entries, maxChunks)
<1> DEFINE n == Len(entries)
<1>1. n \in Nat /\ DOMAIN entries = 1..n
  BY DEF IsList
<1> HIDE DEF n
<1>2. PICK at : /\ at[0] = [chunks |-> <<>>, left |-> {}]
                /\ \A k \in 1..n : at[k] = PutIn(at[k - 1], entries[k], budget, overhead, maxChunks)
                /\ R!PlanChunks(entries, budget, maxChunks, overhead) = at[n]
  BY <1>1, PlanUnfolds DEF n
<1> DEFINE Nums == {m \in Nat : m <= n => PlanIs(at[m], entries, maxChunks)}
<1>3. 0 \in Nums
  <2>1. at[0].chunks = <<>>
    BY <1>2
  <2>2. IsList(<<>>) /\ DOMAIN <<>> = {} /\ Len(<<>>) = 0
    BY DEF IsList
  <2> QED BY <2>1, <2>2 DEF PlanIs, RequestsAre
<1>4. ASSUME NEW m \in Nat, m \in Nums PROVE m + 1 \in Nums
  <2> SUFFICES ASSUME m + 1 <= n PROVE PlanIs(at[m + 1], entries, maxChunks)
    OBVIOUS
  <2>1. m + 1 \in 1..n /\ (m + 1) - 1 = m /\ PlanIs(at[m], entries, maxChunks)
    BY <1>1, <1>4
  <2>2. at[m + 1] = R!Place(at[m], entries[m + 1], R!Capacity(budget, overhead), maxChunks)
    BY <1>2, <2>1 DEF PutIn
  <2>3. entries[m + 1] \in Range(entries)
    BY <1>1, <2>1 DEF Range
  <2> QED BY <2>1, <2>2, <2>3, PlaceKeeps
<1>5. n \in Nums
  <2> HIDE DEF Nums
  <2> QED BY <1>1, <1>3, <1>4, NatInductionOnSets
<1> QED BY <1>1, <1>2, <1>5

\* The answers to so many requests.
LEMMA AnswersUnfold ==
  ASSUME NEW n \in Nat, NEW answers
  PROVE  \E at : /\ at[0] = [aborted |-> FALSE, succeeded |-> {}, failed |-> {}, raw |-> <<>>]
                 /\ \A k \in 1..n : at[k] = R!Read(at[k - 1], k, answers[k])
                 /\ R!ReadAll(n, answers) = at[n]
<1> DEFINE base == [aborted |-> FALSE, succeeded |-> {}, failed |-> {}, raw |-> <<>>]
           Rec(at, m) == at = [k \in 0..m |-> IF k = 0 THEN base
                                             ELSE R!Read(at[k - 1], k, answers[k])]
           Nums == {m \in Nat : \E at : Rec(at, m)}
<1>1. 0 \in Nums
  <2> DEFINE one == [k \in 0..0 |-> base]
  <2>1. Rec(one, 0)
    <3> HIDE DEF base
    <3> QED OBVIOUS
  <2> QED BY <2>1
<1>2. ASSUME NEW m \in Nat, m \in Nums PROVE m + 1 \in Nums
  <2>1. PICK at : Rec(at, m)
    BY <1>2
  <2> DEFINE new == [k \in 0..m + 1 |-> IF k = m + 1 THEN R!Read(at[m], k, answers[k])
                                        ELSE at[k]]
  <2>2. ASSUME NEW k \in 0..m + 1
        PROVE  new[k] = IF k = 0 THEN base ELSE R!Read(new[k - 1], k, answers[k])
    <3> HIDE DEF base
    <3>1. CASE k = m + 1
      <4>1. new[k - 1] = at[m] /\ k # 0
        BY <3>1
      <4> QED BY <4>1, <3>1
    <3>2. CASE k \in 0..m
      <4>1. new[k] = at[k]
        BY <3>2
      <4>2. at[k] = IF k = 0 THEN base ELSE R!Read(at[k - 1], k, answers[k])
        BY <2>1, <3>2
      <4>3. k # 0 => new[k - 1] = at[k - 1]
        BY <3>2
      <4> QED BY <4>1, <4>2, <4>3
    <3> QED BY <3>1, <3>2
  <2>3. new = [k \in 0..m + 1 |-> new[k]]
    OBVIOUS
  <2> HIDE DEF new, base
  <2>4. Rec(new, m + 1)
    BY <2>2, <2>3
  <2> HIDE DEF Rec
  <2> QED BY <2>4
<1>3. n \in Nums
  <2> HIDE DEF Nums
  <2> QED BY <1>1, <1>2, NatInductionOnSets
<1>4. PICK any : Rec(any, n)
  BY <1>3
<1> DEFINE at == CHOOSE at : Rec(at, n)
<1>5. Rec(at, n)
  BY <1>4
<1>6. R!ReadAll(n, answers) = at[n]
  BY DEF R!ReadAll
<1>7. \A k \in 0..n : at[k] = IF k = 0 THEN base ELSE R!Read(at[k - 1], k, answers[k])
  <2> HIDE DEF base
  <2> QED BY <1>5
<1> HIDE DEF at, base
<1>8. at[0] = base /\ \A k \in 1..n : at[k] = R!Read(at[k - 1], k, answers[k])
  BY <1>7
<1> QED BY <1>6, <1>8 DEF base

\* Unless the backend gave up, every request was answered with findings or has failed.
LEMMA AnswersAreRead ==
  ASSUME NEW n \in Nat, NEW answers, ~R!ReadAll(n, answers).aborted,
         \A k \in 1..n : answers[k].kind \in {"aborts", "garbled", "answers"}
  PROVE  \A k \in 1..n : answers[k].kind = "answers" \/ k \in R!ReadAll(n, answers).failed
<1>1. PICK at : /\ at[0] = [aborted |-> FALSE, succeeded |-> {}, failed |-> {}, raw |-> <<>>]
                /\ \A k \in 1..n : at[k] = R!Read(at[k - 1], k, answers[k])
                /\ R!ReadAll(n, answers) = at[n]
  BY AnswersUnfold
<1> DEFINE IsState(s) == s = [aborted |-> s.aborted, succeeded |-> s.succeeded, failed |-> s.failed,
                              raw |-> s.raw]
           Good(m) == /\ IsState(at[m])
                      /\ ~at[m].aborted =>
                             \A k \in 1..m : answers[k].kind = "answers" \/ k \in at[m].failed
           Nums == {m \in Nat : m <= n => Good(m)}
<1>2. 0 \in Nums
  BY <1>1
<1>3. ASSUME NEW m \in Nat, m \in Nums PROVE m + 1 \in Nums
  <2> SUFFICES ASSUME m + 1 <= n PROVE Good(m + 1)
    OBVIOUS
  <2>1. m + 1 \in 1..n /\ (m + 1) - 1 = m /\ Good(m)
    BY <1>3
  <2> DEFINE s == at[m]
             t == at[m + 1]
             reply == answers[m + 1]
  <2>2. t = R!Read(s, m + 1, reply)
    BY <1>1, <2>1
  <2>3. reply.kind \in {"aborts", "garbled", "answers"}
    BY <2>1
  <2>4. IsState(s) /\ (~s.aborted => \A k \in 1..m : answers[k].kind = "answers" \/ k \in s.failed)
    BY <2>1
  <2> HIDE DEF s, t, reply
  <2>5. IsState(t)
    BY <2>2, <2>3, <2>4 DEF R!Read
  <2>6. t.aborted \/ ~s.aborted
    BY <2>2, <2>4 DEF R!Read
  <2>7. ~t.aborted => s.failed \subseteq t.failed /\ (reply.kind = "answers" \/ m + 1 \in t.failed)
    BY <2>2, <2>3, <2>4, <2>6 DEF R!Read
  <2>8. ASSUME ~t.aborted, NEW k \in 1..m + 1
        PROVE  answers[k].kind = "answers" \/ k \in t.failed
    <3>1. CASE k = m + 1
      BY <3>1, <2>7, <2>8 DEF reply
    <3>2. CASE k \in 1..m
      BY <3>2, <2>4, <2>6, <2>7, <2>8
    <3> QED BY <3>1, <3>2
  <2> QED BY <2>5, <2>8 DEF t
<1>4. n \in Nums
  <2> HIDE DEF Nums
  <2> QED BY <1>2, <1>3, NatInductionOnSets
<1> QED BY <1>1, <1>4

\* The weights of so many files.
LEMMA ScoreUnfolds ==
  ASSUME NEW n \in Nat, NEW rows, n = Len(rows)
  PROVE  \E at : /\ at[0] = T!Unknown
                 /\ \A k \in 1..n : at[k] = T!Weigh(at[k - 1], rows[k])
                 /\ T!Weighed(rows) = at[n]
<1> DEFINE base == T!Unknown
           Rec(at, m) == at = [k \in 0..m |-> IF k = 0 THEN base
                                             ELSE T!Weigh(at[k - 1], rows[k])]
           Nums == {m \in Nat : \E at : Rec(at, m)}
<1>1. 0 \in Nums
  <2> DEFINE one == [k \in 0..0 |-> base]
  <2>1. Rec(one, 0)
    <3> HIDE DEF base
    <3> QED OBVIOUS
  <2> QED BY <2>1
<1>2. ASSUME NEW m \in Nat, m \in Nums PROVE m + 1 \in Nums
  <2>1. PICK at : Rec(at, m)
    BY <1>2
  <2> DEFINE new == [k \in 0..m + 1 |-> IF k = m + 1 THEN T!Weigh(at[m], rows[k])
                                        ELSE at[k]]
  <2>2. ASSUME NEW k \in 0..m + 1
        PROVE  new[k] = IF k = 0 THEN base ELSE T!Weigh(new[k - 1], rows[k])
    <3> HIDE DEF base
    <3>1. CASE k = m + 1
      <4>1. new[k - 1] = at[m] /\ k # 0
        BY <3>1
      <4> QED BY <4>1, <3>1
    <3>2. CASE k \in 0..m
      <4>1. new[k] = at[k]
        BY <3>2
      <4>2. at[k] = IF k = 0 THEN base ELSE T!Weigh(at[k - 1], rows[k])
        BY <2>1, <3>2
      <4>3. k # 0 => new[k - 1] = at[k - 1]
        BY <3>2
      <4> QED BY <4>1, <4>2, <4>3
    <3> QED BY <3>1, <3>2
  <2>3. new = [k \in 0..m + 1 |-> new[k]]
    OBVIOUS
  <2> HIDE DEF new, base
  <2>4. Rec(new, m + 1)
    BY <2>2, <2>3
  <2> HIDE DEF Rec
  <2> QED BY <2>4
<1>3. n \in Nums
  <2> HIDE DEF Nums
  <2> QED BY <1>1, <1>2, NatInductionOnSets
<1>4. PICK any : Rec(any, n)
  BY <1>3
<1> DEFINE at == CHOOSE at : Rec(at, n)
<1>5. Rec(at, n)
  BY <1>4
<1>6. T!Weighed(rows) = at[n]
  BY DEF T!Weighed
<1>7. \A k \in 0..n : at[k] = IF k = 0 THEN base ELSE T!Weigh(at[k - 1], rows[k])
  <2> HIDE DEF base
  <2> QED BY <1>5
<1> HIDE DEF at, base
<1>8. at[0] = base /\ \A k \in 1..n : at[k] = T!Weigh(at[k - 1], rows[k])
  BY <1>7
<1> QED BY <1>6, <1>8 DEF base

\* What is weighed are numbers.
LEMMA WeighedIsNumbers ==
  ASSUME NEW rows, IsList(rows), \A r \in Range(rows) : r.tier \in 1..6
  PROVE  T!Weighed(rows)[1] \in Int /\ T!Weighed(rows)[2] \in Nat
<1> DEFINE n == Len(rows)
<1>1. n \in Nat /\ DOMAIN rows = 1..n
  BY DEF IsList
<1> HIDE DEF n
<1>2. PICK at : /\ at[0] = T!Unknown
                /\ \A k \in 1..n : at[k] = T!Weigh(at[k - 1], rows[k])
                /\ T!Weighed(rows) = at[n]
  BY <1>1, ScoreUnfolds DEF n
<1> DEFINE Nums == {m \in Nat : m <= n => at[m][1] \in Int /\ at[m][2] \in Nat}
<1>3. 0 \in Nums
  BY <1>2 DEF T!Unknown
<1>4. ASSUME NEW m \in Nat, m \in Nums PROVE m + 1 \in Nums
  <2> SUFFICES ASSUME m + 1 <= n PROVE at[m + 1][1] \in Int /\ at[m + 1][2] \in Nat
    OBVIOUS
  <2>1. m + 1 \in 1..n /\ (m + 1) - 1 = m /\ at[m][1] \in Int /\ at[m][2] \in Nat
    BY <1>1, <1>4
  <2> DEFINE r == rows[m + 1]
             weight == T!TierWeight[r.tier]
             got == IF ~r.audited THEN 0 ELSE IF r.partly THEN weight \div 2 ELSE weight
  <2>2. at[m + 1] = T!Weigh(at[m], r)
    BY <1>2, <2>1
  <2>3. weight \in {12, 10, 6, 2}
    <3>1. r.tier \in 1..6
      BY <1>1, <2>1 DEF Range
    <3> HIDE DEF r
    <3> QED BY <3>1 DEF T!TierWeight
  <2>4. at[m + 1] = at[m] \/ at[m + 1] = <<at[m][1] + got, at[m][2] + weight>>
    BY <2>2 DEF T!Weigh
  <2>5. got \in Int
    <3> HIDE DEF weight
    <3> QED BY <2>3
  <2> HIDE DEF r, weight, got
  <2> QED BY <2>1, <2>3, <2>4, <2>5
<1>5. n \in Nums
  <2> HIDE DEF Nums
  <2> QED BY <1>1, <1>3, <1>4, NatInductionOnSets
<1> QED BY <1>1, <1>2, <1>5

(***************************************************************************)
(* Rows, blind spots and trust.                                            *)
(***************************************************************************)

\* What is asked of an audit.
IsAudit(in) ==
  /\ IsList(in.files)
  /\ \A i, j \in DOMAIN in.files : in.files[i].name = in.files[j].name => i = j
  /\ \A f \in Range(in.files) : f.tier \in 1..6 /\ f.hint \in Int
  /\ in.requests \in Nat
  /\ \A k \in 1..in.requests : in.answers[k].kind \in {"aborts", "garbled", "answers"}

\* A file of high risk that is to be sent and to be read.
IsRisky(f) ==
  /\ f.tier <= R!High /\ f.text /\ f.directory = "no" /\ ~f.link /\ ~f.ignored
  /\ (f.known \/ f.script \/ f.tier <= 2)

\* It is a candidate, and of high risk.
LEMMA RiskyIsCandidate ==
  ASSUME NEW f, f.tier \in 1..6, IsRisky(f)
  PROVE  LET e == R!EntryOf(f) IN e.why = "none" /\ R!Candidate(e) /\ e.tier \in 1..R!High
<1>1. R!EntryOf(f).why = "none"
  BY DEF IsRisky, R!EntryOf, R!Wanted
<1>2. R!EntryOf(f).tier \in {3, f.tier}
  BY DEF R!EntryOf
<1> QED BY <1>1, <1>2 DEF R!Candidate, R!High, IsRisky

\* An entry is of its file.
LEMMA EntryIsOfFile ==
  ASSUME NEW f, f.tier \in 1..6
  PROVE  /\ R!EntryOf(f).file = f.name /\ R!EntryOf(f).lines = f.lines
         /\ R!EntryOf(f).tier \in 1..6
BY DEF R!EntryOf

\* What the row of a file says of the parts of it that were read.
LEMMA RowIsOfParts ==
  ASSUME NEW entries, NEW plan, NEW failed, NEW x \in DOMAIN entries, R!Candidate(entries[x]),
         entries[x].why = "none"
  PROVE  LET row == R!Coverage(entries, plan, failed)[x]
             Part(k, p) == /\ k \in DOMAIN plan.chunks \ failed
                           /\ p \in Range(plan.chunks[k].segments) /\ p.file = entries[x].file
         IN /\ row.file = entries[x].file /\ row.tier = entries[x].tier
            /\ row.audited <=> \E k, p : Part(k, p)
            /\ row.partly <=> \E k, p : Part(k, p) /\ p.partial
            /\ row.audited => row.why = "audited"
            /\ ~row.audited => row.why \in {"left_out", "failed"}
<1> DEFINE e == entries[x]
           row == R!Coverage(entries, plan, failed)[x]
           Part(k, p) == /\ k \in DOMAIN plan.chunks \ failed
                         /\ p \in Range(plan.chunks[k].segments) /\ p.file = e.file
           sent == {k \in DOMAIN plan.chunks :
                        \E p \in R!Range(plan.chunks[k].segments) : p.file = e.file}
           parts == {p \in UNION {R!Range(plan.chunks[k].segments) : k \in sent \ failed} :
                         p.file = e.file}
<1>1. row = [file |-> e.file, tier |-> e.tier, audited |-> R!Candidate(e) /\ parts # {},
             partly |-> \E p \in parts : p.partial,
             why |-> IF ~R!Candidate(e) THEN e.why
                     ELSE IF sent = {} THEN "left_out"
                     ELSE IF parts = {} THEN "failed" ELSE "audited"]
  BY DEF R!Coverage
<1>2. \A p : p \in parts <=> \E k : Part(k, p)
  BY SameMembers
<1>3. parts # {} => sent # {}
  OBVIOUS
<1> HIDE DEF parts, sent, Part, e
<1>4. R!Candidate(e) = TRUE
  BY DEF e, R!Candidate
<1>5. row.audited <=> parts # {}
  <2> DEFINE is == R!Candidate(e) /\ parts # {}
             partly == \E p \in parts : p.partial
             why == IF ~R!Candidate(e) THEN e.why
                    ELSE IF sent = {} THEN "left_out" ELSE IF parts = {} THEN "failed" ELSE "audited"
  <2>1. row = [file |-> e.file, tier |-> e.tier, audited |-> is, partly |-> partly, why |-> why]
    BY <1>1
  <2>2. is <=> parts # {}
    BY <1>4
  <2> HIDE DEF is, partly, why, row
  <2>3. row.audited = is
    BY <2>1
  <2> QED BY <2>2, <2>3
<1>6. row.partly <=> \E p \in parts : p.partial
  BY <1>1
<1>7. /\ row.file = e.file /\ row.tier = e.tier
      /\ row.audited => row.why = "audited"
      /\ ~row.audited => row.why \in {"left_out", "failed"}
  BY <1>1, <1>3, <1>4, <1>5
<1>8. parts # {} <=> \E k, p : Part(k, p)
  BY <1>2
<1>9. (\E p \in parts : p.partial) <=> \E k, p : Part(k, p) /\ p.partial
  BY <1>2
<1> HIDE DEF row
<1> QED BY <1>5, <1>6, <1>7, <1>8, <1>9 DEF e, Part, row

\* A row of a file that was not read, or in part.
IsUnread(row) == \/ ~row.audited /\ row.why \in {"left_out", "failed"}
                 \/ row.audited /\ row.partly /\ row.why = "audited"

\* A risky file that was not read, or in part, is a blind spot.
LEMMA RiskyRowIsSpot ==
  ASSUME NEW rows, NEW padding, NEW row \in rows, row.tier \in 1..R!High,
         IsUnread(row)
  PROVE  \E s \in P!AuditBlindSpots(rows, padding) : s.file = row.file
<1> DEFINE looked == {r \in rows : r.why \notin {"ignored", "link", "directory"}}
           unseen == {r \in looked : ~r.audited /\ ~(r.why = "not_text" /\ r.tier > P!Tiers.agent_config)
                                     /\ r.why # "not_source"}
           part == {r \in looked : r.audited /\ r.partly}
           Spot(r, severity) == P!Divergence(r.file, "audit_blind_spot", severity, r.why)
           first == {Spot(r, IF r.tier <= P!Tiers.agent_config THEN "high" ELSE "medium") :
                        r \in {x \in unseen : x.tier <= P!Tiers.auth}}
           second == {Spot(r, IF r.tier <= P!Tiers.agent_config THEN "medium" ELSE "low") :
                        r \in {x \in part : x.tier <= P!Tiers.auth}}
<1>1. row.tier <= P!Tiers.auth
  BY DEF P!Tiers, R!High
<1>2. CASE ~row.audited
  <2>1. row \in unseen
    BY <1>2 DEF IsUnread
  <2>2. Spot(row, IF row.tier <= P!Tiers.agent_config THEN "high" ELSE "medium") \in first
    <3> HIDE DEF unseen, Spot
    <3> QED BY <2>1, <1>1
  <2>3. first \subseteq P!AuditBlindSpots(rows, padding)
    BY DEF P!AuditBlindSpots
  <2> QED BY <2>2, <2>3 DEF P!Divergence
<1>3. CASE row.audited
  <2>1. row \in part
    BY <1>3 DEF IsUnread
  <2>2. Spot(row, IF row.tier <= P!Tiers.agent_config THEN "medium" ELSE "low") \in second
    <3> HIDE DEF part, Spot
    <3> QED BY <2>1, <1>1
  <2>3. second \subseteq P!AuditBlindSpots(rows, padding)
    BY DEF P!AuditBlindSpots
  <2> QED BY <2>2, <2>3 DEF P!Divergence
<1> QED BY <1>2, <1>3

\* Coverage with a risky file that was not shown is not called high.
LEMMA RiskyRowIsNotHigh ==
  ASSUME NEW rows, IsList(rows), \A r \in Range(rows) : r.tier \in 1..6,
         NEW x \in DOMAIN rows, rows[x].tier \in 1..R!High, ~rows[x].audited,
         rows[x].why \in {"left_out", "failed"}
  PROVE  T!Band(T!CoverageScore(rows, R!Summary(rows))) # "high"
<1> DEFINE files == {i \in DOMAIN rows : rows[i].why \notin {"directory", "ignored_directory"}}
           audited == {i \in files : rows[i].audited}
           missed == {i \in files \ audited : /\ rows[i].tier <= R!High
                                              /\ rows[i].why \notin {"not_text", "ignored"}}
           summary == R!Summary(rows)
<1>1. x \in missed
  OBVIOUS
<1>2. IsFiniteSet(DOMAIN rows)
  <2>1. Len(rows) \in Nat /\ DOMAIN rows = 1..Len(rows)
    BY DEF IsList
  <2>2. IsFiniteSet(1..Len(rows))
    BY <2>1, FS_Interval
  <2> QED BY <2>1, <2>2
<1>3. \A s \in SUBSET DOMAIN rows : IsFiniteSet(s) /\ Cardinality(s) \in Nat
  BY <1>2, FS_Subset, FS_CardinalityType
<1>4. Cardinality(missed) > 0
  <2>1. missed \in SUBSET DOMAIN rows
    OBVIOUS
  <2> HIDE DEF missed
  <2> QED BY <1>1, <1>3, <2>1, FS_EmptySet
<1>5. /\ summary.high_risk_not_audited = Cardinality(missed)
      /\ summary.files = Cardinality(files) /\ summary.audited = Cardinality(audited)
  BY SameCount DEF R!Summary
<1>6. summary.files \in Nat /\ summary.audited \in Nat
  <2>1. files \in SUBSET DOMAIN rows /\ audited \in SUBSET DOMAIN rows
    OBVIOUS
  <2> HIDE DEF files, audited
  <2> QED BY <1>3, <1>5, <2>1
<1> HIDE DEF summary, missed
<1> DEFINE counted == IF T!Weighed(rows)[2] # 0 THEN T!Weighed(rows)
                      ELSE <<summary.audited, summary.files>>
<1>7. counted[1] \in Int /\ counted[2] \in Nat
  BY <1>6, WeighedIsNumbers
<1>8. T!CoverageScore(rows, summary) = T!NeverHigh(counted)
  BY <1>4, <1>5 DEF T!CoverageScore
<1> HIDE DEF counted
<1>9. T!Band(T!NeverHigh(counted)) # "high"
  BY <1>7 DEF T!Band, T!NeverHigh
<1> QED BY <1>8, <1>9 DEF summary

(***************************************************************************)
(* What was not seen is said.                                              *)
(***************************************************************************)

\* A diff leaves out the files it does not change.
IsAskedFor(in, i) == in.only = {} \/ in.files[i].name \in in.only

\* A request carries all of a file, or some of it.
CarriesAll(plan, k, f) ==
  \E p \in Range(plan.chunks[k].segments) :
      p.file = f.name /\ p.seg.lines = f.lines /\ ~p.partial
CarriesSome(plan, k, f) == \E p \in Range(plan.chunks[k].segments) : p.file = f.name

\* A risky file that no answered request carried whole is a blind spot, and the coverage
\* is called high only if one carried part of it.
LEMMA AuditSound ==
  ASSUME NEW in, IsAudit(in), NEW value, value = AuditOf(in), value.audit.done,
         NEW i \in DOMAIN in.files, IsRisky(in.files[i]),
         IsAskedFor(in, i), NEW answered,
         \A k : k \in answered <=> k \in DOMAIN value.plan.chunks /\ in.answers[k].kind = "answers",
         \A k \in answered : ~CarriesAll(value.plan, k, in.files[i])
  PROVE  /\ \E s \in value.spots : s.file = in.files[i].name
         /\ value.trust = "high" =>
                \E k \in answered : CarriesSome(value.plan, k, in.files[i])
<1> DEFINE f == in.files[i]
           entries == R!Inventory(in.files, in.only)
           plan == R!PlanChunks(entries, in.budget, in.requests, in.overhead)
           audit == R!AuditRepository(entries, plan, in.answers)
           end == R!ReadAll(Len(plan.chunks), in.answers)
           rows == R!Coverage(entries, plan, end.failed)
<1>1. value = Audited(plan, audit)
  BY DEF AuditOf, Planned
<1>2. value.plan = plan /\ value.audit = audit /\ audit.done
  BY <1>1 DEF Audited
<1>3. /\ value.spots = P!AuditBlindSpots(Range(audit.coverage), audit.padding)
      /\ value.trust = T!Band(T!CoverageScore(audit.coverage, audit.summary))
  <2> HIDE DEF audit, plan
  <2> QED BY <1>1, <1>2 DEF Audited
<1>4. ~end.aborted /\ audit.coverage = rows /\ audit.summary = R!Summary(rows)
  <2> HIDE DEF plan, entries, end, rows
  <2>1. audit = IF end.aborted \/ (plan.chunks # <<>> /\ end.succeeded = {})
                THEN [done |-> FALSE]
                ELSE [done |-> TRUE, raw |-> end.raw, findings |-> R!Dedupe(end.raw),
                      failed |-> end.failed, coverage |-> rows, summary |-> R!Summary(rows),
                      padding |-> R!PaddingSuspected(entries)]
    BY DEF R!AuditRepository, end, rows
  <2> HIDE DEF audit
  <2> QED BY <2>1, <1>2
<1>5. AreFiles(in.files) /\ in.requests \in Nat
  BY DEF IsAudit, AreFiles
<1>6. IsInventory(entries, in.files, in.only)
  BY <1>5, InventoryHolds
<1> HIDE DEF entries
<1>7. PICK x \in DOMAIN entries : entries[x] = R!EntryOf(f)
  BY <1>6 DEF IsAskedFor, IsInventory
<1>8. \A j \in DOMAIN in.files : in.files[j].tier \in 1..6
  BY <1>5 DEF Range, AreFiles
<1>9. f.tier \in 1..6
  BY <1>8
<1>10. /\ entries[x].why = "none" /\ R!Candidate(entries[x]) /\ entries[x].tier \in 1..R!High
       /\ entries[x].file = f.name /\ entries[x].lines = f.lines
  BY <1>7, <1>9, RiskyIsCandidate, EntryIsOfFile
<1>11. RequestsAre(plan.chunks, entries) /\ Len(plan.chunks) <= in.requests
  BY <1>5, <1>6, PlanHolds DEF PlanIs, IsInventory
<1> HIDE DEF plan, audit
<1>12. Len(plan.chunks) \in Nat /\ DOMAIN plan.chunks = 1..Len(plan.chunks)
  BY <1>11 DEF RequestsAre, IsList
<1>13. \A k \in DOMAIN plan.chunks \ end.failed : k \in answered
  <2>1. \A k \in 1..Len(plan.chunks) : in.answers[k].kind \in {"aborts", "garbled", "answers"}
    BY <1>5, <1>11, <1>12 DEF IsAudit
  <2>2. \A k \in 1..Len(plan.chunks) : in.answers[k].kind = "answers" \/ k \in end.failed
    BY <2>1, <1>4, <1>12, AnswersAreRead
  <2> QED BY <2>2, <1>12, <1>2
<1> HIDE DEF end
<1> DEFINE row == rows[x]
           Part(k, p) == /\ k \in DOMAIN plan.chunks \ end.failed
                         /\ p \in Range(plan.chunks[k].segments) /\ p.file = entries[x].file
<1>14. /\ row.file = f.name /\ row.tier \in 1..R!High
       /\ row.audited <=> \E k, p : Part(k, p)
       /\ row.partly <=> \E k, p : Part(k, p) /\ p.partial
       /\ row.audited => row.why = "audited"
       /\ ~row.audited => row.why \in {"left_out", "failed"}
  <2> DEFINE failed == end.failed
  <2> HIDE DEF failed
  <2>1. LET it == R!Coverage(entries, plan, failed)[x]
            Of(k, p) == /\ k \in DOMAIN plan.chunks \ failed
                        /\ p \in Range(plan.chunks[k].segments) /\ p.file = entries[x].file
        IN /\ it.file = entries[x].file /\ it.tier = entries[x].tier
           /\ it.audited <=> \E k, p : Of(k, p)
           /\ it.partly <=> \E k, p : Of(k, p) /\ p.partial
           /\ it.audited => it.why = "audited"
           /\ ~it.audited => it.why \in {"left_out", "failed"}
    BY <1>10, RowIsOfParts
  <2> QED BY <2>1, <1>10 DEF failed
<1>15. DOMAIN rows = DOMAIN entries /\ IsList(rows)
  <2>1. DOMAIN rows = DOMAIN entries /\ rows = [k \in DOMAIN entries |-> rows[k]]
    BY DEF R!Coverage
  <2>2. Len(entries) \in Nat /\ DOMAIN entries = 1..Len(entries)
    BY <1>6 DEF IsList, IsInventory
  <2> HIDE DEF rows
  <2> QED BY <2>1, <2>2, ListOf
<1>16. \A r \in Range(rows) : r.tier \in 1..6
  <2>1. ASSUME NEW k \in DOMAIN rows PROVE rows[k].tier \in 1..6
    <3>1. rows[k].tier = entries[k].tier
      BY <1>15 DEF R!Coverage
    <3>2. PICK j \in DOMAIN in.files : entries[k] = R!EntryOf(in.files[j])
      BY <1>6, <1>15 DEF IsInventory
    <3> HIDE DEF rows
    <3> QED BY <3>1, <3>2, <1>8, EntryIsOfFile
  <2> HIDE DEF rows
  <2> QED BY <2>1 DEF Range
<1>17. row \in Range(rows)
  BY <1>15 DEF Range
<1> HIDE DEF rows
<1>18. ASSUME NEW k, NEW p, Part(k, p) PROVE p.partial
  <2>1. k \in answered /\ p \in Range(plan.chunks[k].segments) /\ p.file = f.name
    BY <1>18, <1>13, <1>10
  <2>2. PICK e \in Range(entries) : p.file = e.file /\ (~p.partial => p.seg.lines = e.lines)
    BY <1>18, <1>11 DEF RequestsAre, PartOf
  <2>3. PICK j \in DOMAIN in.files : e = R!EntryOf(in.files[j])
    BY <1>6 DEF Range, IsInventory
  <2>4. e.file = in.files[j].name /\ e.lines = in.files[j].lines
    BY <2>3, <1>8, EntryIsOfFile
  <2>5. j = i
    BY <2>1, <2>2, <2>4 DEF IsAudit
  <2> QED BY <2>1, <2>2, <2>4, <2>5, <1>2 DEF CarriesAll
<1>19. IsUnread(row)
  <2> HIDE DEF row
  <2>1. CASE row.audited
    <3>1. PICK k, p : Part(k, p)
      BY <2>1, <1>14
    <3>2. p.partial
      BY <3>1, <1>18
    <3> HIDE DEF Part
    <3> QED BY <2>1, <3>1, <3>2, <1>14 DEF IsUnread
  <2>2. CASE ~row.audited
    BY <2>2, <1>14 DEF IsUnread
  <2> QED BY <2>1, <2>2
<1>20. \E s \in value.spots : s.file = f.name
  <2> HIDE DEF row
  <2>1. \E s \in P!AuditBlindSpots(Range(rows), audit.padding) : s.file = row.file
    <3> DEFINE all == Range(rows)
               padding == audit.padding
    <3>1. row \in all /\ row.tier \in 1..R!High
      BY <1>14, <1>17
    <3> HIDE DEF all, padding
    <3>2. \E s \in P!AuditBlindSpots(all, padding) : s.file = row.file
      BY <3>1, <1>19, RiskyRowIsSpot
    <3> QED BY <3>2 DEF all, padding
  <2> QED BY <2>1, <1>3, <1>4, <1>14
<1>21. ASSUME value.trust = "high"
       PROVE  \E k \in answered : CarriesSome(value.plan, k, f)
  <2>1. row.audited
    <3>1. SUFFICES ASSUME ~row.audited PROVE FALSE
      OBVIOUS
    <3>2. T!Band(T!CoverageScore(rows, R!Summary(rows))) # "high"
      BY <3>1, <1>14, <1>15, <1>16, RiskyRowIsNotHigh
    <3> QED BY <3>2, <1>3, <1>4, <1>21
  <2> HIDE DEF row
  <2>2. PICK k, p : Part(k, p)
    BY <2>1, <1>14
  <2>3. k \in answered /\ p \in Range(plan.chunks[k].segments) /\ p.file = f.name
    BY <2>2, <1>13, <1>10
  <2> QED BY <2>3, <1>2 DEF CarriesSome
<1> QED BY <1>20, <1>21

\* What the code says of what the auditor did not see, of a case.
LEMMA AuditAnswerSound ==
  ASSUME Answered("audit"), asked.in \in Given("audit"), answer.value = AuditOf(asked.in)
  PROVE  RiskyUnseenIsSaid
<1> SUFFICES
      ASSUME answer.value.audit.done, NEW i \in DOMAIN asked.in.files,
             IsRisky(asked.in.files[i]),
             asked.in.only = {} \/ asked.in.files[i].name \in asked.in.only,
             NEW answered,
             answered = {k \in DOMAIN answer.value.plan.chunks : asked.in.answers[k].kind = "answers"},
             \A k \in answered : ~\E s \in Range(answer.value.plan.chunks[k].segments) :
                 s.file = asked.in.files[i].name /\ s.seg.lines = asked.in.files[i].lines /\ ~s.partial
      PROVE  /\ \E s \in answer.value.spots : s.file = asked.in.files[i].name
             /\ answer.value.trust = "high" =>
                    \E k \in answered : \E s \in Range(answer.value.plan.chunks[k].segments) :
                        s.file = asked.in.files[i].name
  BY DEF RiskyUnseenIsSaid, IsRisky
<1>1. IsAudit(asked.in)
  BY AuditAssumption DEF IsAudit
<1> DEFINE in == asked.in
           value == answer.value
<1>2. \A k \in answered : ~CarriesAll(value.plan, k, in.files[i])
  BY DEF CarriesAll
<1>3. /\ IsAudit(in) /\ value = AuditOf(in) /\ value.audit.done /\ i \in DOMAIN in.files
      /\ IsRisky(in.files[i]) /\ IsAskedFor(in, i)
      /\ \A k : k \in answered <=> k \in DOMAIN value.plan.chunks /\ in.answers[k].kind = "answers"
  BY <1>1 DEF IsAskedFor
<1> HIDE DEF in, value
<1>4. /\ \E s \in value.spots : s.file = in.files[i].name
      /\ value.trust = "high" =>
             \E k \in answered : CarriesSome(value.plan, k, in.files[i])
  BY <1>2, <1>3, AuditSound
<1> QED BY <1>4 DEF in, value, CarriesSome

\* A risky file that no answered request carried whole is a blind spot of the audit, and
\* coverage is called high only if one carried part of it (chunking.inventory, plan_chunks,
\* Plan.coverage; parallax.audit_blind_spots; trust.coverage_score).
THEOREM UnseenIsSaid == Spec => []RiskyUnseenIsSaid
<1>1. Inv => RiskyUnseenIsSaid
  <2> SUFFICES ASSUME Inv, Answered("audit") PROVE RiskyUnseenIsSaid
    BY DEF RiskyUnseenIsSaid
  <2>1. asked.in \in Given("audit") /\ answer.value = AuditOf(asked.in)
    BY AnsweredAsFound DEF ResultOf
  <2> QED BY <2>1, AuditAnswerSound
<1> QED BY <1>1, InvHolds, PTL

(***************************************************************************)
(* Lists, and the n-th of some numbers.                                    *)
(***************************************************************************)

\* Two lists, one after the other.
LEMMA Joined ==
  ASSUME NEW s, NEW t, IsList(s), IsList(t)
  PROVE  /\ IsList(s \o t) /\ Len(s \o t) = Len(s) + Len(t)
         /\ Len(s) \in Nat /\ Len(t) \in Nat
         /\ DOMAIN s = 1..Len(s) /\ DOMAIN t = 1..Len(t) /\ DOMAIN (s \o t) = 1..Len(s) + Len(t)
         /\ \A k \in 1..Len(s) : (s \o t)[k] = s[k]
         /\ \A k \in 1..Len(t) : (s \o t)[Len(s) + k] = t[k]
<1> DEFINE values == Range(s) \cup Range(t)
<1>1. s \in Seq(values) /\ t \in Seq(values)
  <2>1. \A k \in DOMAIN s : s[k] \in values
    BY DEF Range
  <2>2. \A k \in DOMAIN t : t[k] \in values
    BY DEF Range
  <2> HIDE DEF values
  <2> QED BY <2>1, <2>2 DEF IsList
<1> HIDE DEF values
<1>2. s \o t \in Seq(values) /\ Len(s \o t) = Len(s) + Len(t)
  BY <1>1
<1>3. IsList(s \o t) /\ DOMAIN (s \o t) = 1..Len(s) + Len(t)
  BY <1>2, ListIn
<1>4. /\ Len(s) \in Nat /\ Len(t) \in Nat /\ DOMAIN s = 1..Len(s) /\ DOMAIN t = 1..Len(t)
  BY <1>1
<1>5. ASSUME NEW k \in 1..Len(s) PROVE (s \o t)[k] = s[k]
  BY <1>1
<1>6. ASSUME NEW k \in 1..Len(t) PROVE (s \o t)[Len(s) + k] = t[k]
  <2>1. Len(s) + k \in 1..Len(s) + Len(t) /\ ~(Len(s) + k <= Len(s))
    BY <1>4
  <2> QED BY <2>1, <1>1, <1>4
<1> QED BY <1>2, <1>3, <1>4, <1>5, <1>6

\* Some of a list.
LEMMA Sliced ==
  ASSUME NEW s, IsList(s), NEW from \in 1..Len(s) + 1, NEW to \in from - 1..Len(s)
  PROVE  /\ IsList(SubSeq(s, from, to)) /\ Len(SubSeq(s, from, to)) = to - from + 1
         /\ DOMAIN SubSeq(s, from, to) = 1..to - from + 1
         /\ \A k \in 1..to - from + 1 : SubSeq(s, from, to)[k] = s[from + k - 1]
<1> DEFINE values == Range(s)
<1>1. s \in Seq(values)
  BY DEF IsList
<1> HIDE DEF values
<1>2. Len(s) \in Nat /\ from \in Int /\ to \in Int
  BY <1>1
<1>3. SubSeq(s, from, to) \in Seq(values)
  BY <1>1, <1>2
<1>4. Len(SubSeq(s, from, to)) = to - from + 1
  BY <1>1, <1>2
<1>5. \A k \in 1..to - from + 1 : SubSeq(s, from, to)[k] = s[from + k - 1]
  BY <1>1, <1>2
<1> QED BY <1>3, <1>4, <1>5, ListIn

LEMMA SameNumber == ASSUME NEW s PROVE C!Cardinality(s) = Cardinality(s)
BY DEF C!Cardinality, Cardinality

\* The n-th of some numbers is one of them.
LEMMA NthIsThere ==
  ASSUME NEW numbers \in SUBSET Int, IsFiniteSet(numbers), numbers # {}, NEW n \in Int
  PROVE  C!Nth(numbers, n) \in numbers
<1> DEFINE below(x) == {y \in numbers : y < x}
           size == Cardinality(numbers)
           rank == [x \in numbers |-> Cardinality(below(x))]
<1>1. size \in Nat /\ size # 0
  BY FS_CardinalityType, FS_EmptySet
<1>2. ASSUME NEW x \in numbers PROVE Cardinality(below(x)) \in 0..size - 1
  <2>1. below(x) \in SUBSET numbers /\ below(x) # numbers
    OBVIOUS
  <2> HIDE DEF below
  <2>2. IsFiniteSet(below(x)) /\ Cardinality(below(x)) <= size /\ Cardinality(below(x)) \in Nat
    BY <2>1, FS_Subset, FS_CardinalityType
  <2>3. Cardinality(below(x)) # size
    BY <2>1, FS_Subset
  <2> QED BY <2>2, <2>3, <1>1
<1>3. ASSUME NEW x \in numbers, NEW y \in numbers, x < y
      PROVE  Cardinality(below(x)) # Cardinality(below(y))
  <2>1. below(x) \in SUBSET below(y) /\ below(x) # below(y) /\ below(y) \in SUBSET numbers
    <3>1. \A z \in below(x) : z \in below(y)
      BY <1>3
    <3>2. x \in below(y) /\ x \notin below(x) /\ below(y) \in SUBSET numbers
      BY <1>3
    <3> HIDE DEF below
    <3> QED BY <3>1, <3>2
  <2> HIDE DEF below
  <2>2. IsFiniteSet(below(y))
    BY <2>1, FS_Subset
  <2> QED BY <2>1, <2>2, FS_Subset
<1> HIDE DEF size, below
<1>4. rank \in [numbers -> 0..size - 1]
  BY <1>2
<1>5. \A x, y \in numbers : rank[x] = rank[y] => x = y
  <2>1. ASSUME NEW x \in numbers, NEW y \in numbers, rank[x] = rank[y] PROVE x = y
    <3>1. x < y \/ y < x \/ x = y
      OBVIOUS
    <3>2. Cardinality(below(x)) = Cardinality(below(y))
      BY <2>1
    <3> QED BY <3>1, <3>2, <1>3
  <2> QED BY <2>1
<1>6. \A x \in numbers : rank[x] = Cardinality(below(x))
  OBVIOUS
<1> HIDE DEF rank
<1>7. \A k \in 1..size : \E x \in numbers : rank[x] = k - 1
  BY <1>4, <1>5, RanksAreAll DEF size
<1> DEFINE turn == (n - 1) % size
<1>8. turn + 1 \in 1..size /\ (turn + 1) - 1 = turn
  BY <1>1
<1>9. \E x \in numbers : Cardinality(below(x)) = turn
  BY <1>6, <1>7, <1>8
<1>10. C!Nth(numbers, n) = CHOOSE x \in numbers : Cardinality(below(x)) = turn
  BY SameNumber DEF C!Nth, below, size
<1> HIDE DEF turn
<1> QED BY <1>9, <1>10

(***************************************************************************)
(* Decoys, and where they may go.                                          *)
(***************************************************************************)

\* A file whose lines are its own or of one of the first n decoys.
IsSource(file, n) ==
  /\ file = [lang |-> file.lang, parses |-> file.parses, lines |-> file.lines]
  /\ IsList(file.lines) /\ \A j \in DOMAIN file.lines : file.lines[j].of \in 0..n

\* Where a decoy's head is in it.
HeadAt(kind) == IF C!Decorated(kind) THEN 2 ELSE 1

\* A decoy is whole in a file, from some line on, and nowhere else.
WholeAt(file, kind, fn, at) ==
  LET block == C!Block(file.lang, kind, fn)
      lines == file.lines
  IN /\ kind \in DOMAIN C!Templates(file.lang) /\ at \in Nat \ {0}
     /\ \A k \in 1..Len(block) : at + k - 1 \in DOMAIN lines /\ lines[at + k - 1] = block[k]
     /\ \A j \in DOMAIN lines : lines[j].of = fn => j \in at..at + Len(block) - 1

\* What a decoy's lines are.
IsBlock(block, size, lang, kind, fn) ==
  /\ size \in 3..5 /\ IsList(block) /\ Len(block) = size /\ DOMAIN block = 1..size
  /\ block[HeadAt(kind)] = [kind |-> "head", of |-> fn] /\ HeadAt(kind) \in 1..2
  /\ \A k \in 1..size : block[k].of = fn /\ block[k].kind # "blank"
  /\ \A k \in 1..size : block[k].kind = "head" => k = HeadAt(kind)
  /\ block[size].kind = "other"
  /\ C!Decorated(kind) => lang = "python" /\ block[1].kind = "decorator"

LEMMA BlockIs ==
  ASSUME NEW lang, NEW kind \in DOMAIN C!Templates(lang), NEW fn
  PROVE  IsBlock(C!Block(lang, kind, fn), C!Templates(lang)[kind], lang, kind, fn)
<1> DEFINE size == C!Templates(lang)[kind]
           block == C!Block(lang, kind, fn)
<1>1. size \in 3..5 /\ (C!Decorated(kind) => lang = "python")
  <2>1. CASE lang = "python"
    BY <2>1 DEF C!Templates, C!Python, C!Decorated
  <2>2. CASE lang # "python"
    BY <2>2 DEF C!Templates, C!Javascript, C!Decorated
  <2> QED BY <2>1, <2>2
<1>2. block = [k \in 1..size |-> [kind |-> IF k < HeadAt(kind) THEN "decorator"
                                           ELSE IF k = HeadAt(kind) THEN "head" ELSE "other",
                                  of |-> fn]]
  BY DEF C!Block, HeadAt
<1>3. HeadAt(kind) \in 1..2 /\ (C!Decorated(kind) => HeadAt(kind) = 2)
  BY DEF HeadAt
<1> HIDE DEF size, block
<1>4. /\ block = [k \in 1..size |-> block[k]] /\ size \in Nat
      /\ \A k \in 1..size : block[k] = [kind |-> IF k < HeadAt(kind) THEN "decorator"
                                           ELSE IF k = HeadAt(kind) THEN "head" ELSE "other",
                                  of |-> fn]
  BY <1>1, <1>2
<1>5. IsList(block) /\ Len(block) = size /\ DOMAIN block = 1..size
  BY <1>4, ListOf
<1>6. block[HeadAt(kind)] = [kind |-> "head", of |-> fn]
  <2>1. HeadAt(kind) \in 1..size /\ ~(HeadAt(kind) < HeadAt(kind))
    BY <1>1, <1>3
  <2> QED BY <2>1, <1>4
<1>7. \A k \in 1..size : block[k].of = fn /\ block[k].kind # "blank"
  BY <1>4
<1>8. \A k \in 1..size : block[k].kind = "head" => k = HeadAt(kind)
  BY <1>4
<1>9. block[size].kind = "other"
  <2>1. size \in 1..size /\ ~(size < HeadAt(kind)) /\ size # HeadAt(kind)
    BY <1>1, <1>3
  <2> QED BY <2>1, <1>4
<1>10. C!Decorated(kind) => block[1].kind = "decorator"
  <2>1. SUFFICES ASSUME C!Decorated(kind) PROVE block[1].kind = "decorator"
    OBVIOUS
  <2>2. 1 \in 1..size /\ 1 < HeadAt(kind)
    BY <2>1, <1>1, <1>3
  <2> QED BY <2>2, <1>4
<1>11. IsBlock(block, size, lang, kind, fn)
  BY <1>1, <1>3, <1>5, <1>6, <1>7, <1>8, <1>9, <1>10 DEF IsBlock
<1> QED BY <1>11 DEF size, block

\* The lines above one that are no decorators of it.
Above(lines, i) == CHOOSE n \in 0..i - 1 : /\ \A j \in n + 1..i - 1 : lines[j].kind = "decorator"
                                           /\ n = 0 \/ lines[n].kind # "decorator"

LEMMA AboveIs ==
  ASSUME NEW lines, NEW i \in Nat \ {0}
  PROVE  /\ Above(lines, i) \in 0..i - 1
         /\ \A j \in Above(lines, i) + 1..i - 1 : lines[j].kind = "decorator"
         /\ Above(lines, i) = 0 \/ lines[Above(lines, i)].kind # "decorator"
<1> DEFINE U == {n \in 1..i - 1 : lines[n].kind # "decorator"}
           IsAbove(n) == /\ \A j \in n + 1..i - 1 : lines[j].kind = "decorator"
                         /\ n = 0 \/ lines[n].kind # "decorator"
<1>1. \E n \in 0..i - 1 : IsAbove(n)
  <2>1. CASE U = {}
    <3>1. \A j \in 0 + 1..i - 1 : lines[j].kind = "decorator"
      BY <2>1
    <3> QED BY <3>1
  <2>2. CASE U # {}
    <3> DEFINE m == i - 1
    <3>1. U \in SUBSET (1..m) /\ m \in Nat /\ m = i - 1
      OBVIOUS
    <3> HIDE DEF U, m
    <3>2. PICK n \in U : \A j \in U : j <= n
      BY <2>2, <3>1, LastPlace
    <3>3. n \in 1..i - 1 /\ lines[n].kind # "decorator"
      BY <3>2 DEF U
    <3>4. \A j \in n + 1..i - 1 : j \in 1..i - 1 /\ j \notin U
      BY <3>2, <3>3, <3>1
    <3>5. \A j \in n + 1..i - 1 : lines[j].kind = "decorator"
      BY <3>4 DEF U
    <3> QED BY <3>3, <3>5
  <2> QED BY <2>1, <2>2
<1>2. Above(lines, i) = CHOOSE n \in 0..i - 1 : IsAbove(n)
  BY DEF Above
<1>3. Above(lines, i) \in 0..i - 1 /\ IsAbove(Above(lines, i))
  <2> HIDE DEF IsAbove
  <2> QED BY <1>1, <1>2
<1> QED BY <1>3

\* A new function goes to the end of a file, or above one there is.
LEMMA PointIs ==
  ASSUME NEW file, IsList(file.lines), NEW at \in C!InsertionPoints(file)
  PROVE  /\ at \in 0..Len(file.lines)
         /\ at # Len(file.lines) =>
                \E i \in DOMAIN file.lines :
                    /\ file.lines[i].kind = "head"
                    /\ at = IF file.lang = "python" THEN Above(file.lines, i) ELSE i - 1
<1> DEFINE lines == file.lines
<1>1. at = Len(lines) \/ \E i \in DOMAIN lines :
                    /\ lines[i].kind = "head"
                    /\ at = IF file.lang = "python" THEN Above(lines, i) ELSE i - 1
  BY DEF C!InsertionPoints, Above
<1>2. Len(lines) \in Nat /\ DOMAIN lines = 1..Len(lines)
  BY DEF IsList
<1>3. ASSUME NEW i \in DOMAIN lines, at = IF file.lang = "python" THEN Above(lines, i) ELSE i - 1
      PROVE  at \in 0..Len(lines)
  <2>1. i \in Nat \ {0} /\ i <= Len(lines)
    BY <1>2
  <2>2. Above(lines, i) \in 0..i - 1
    BY <2>1, AboveIs
  <2> HIDE DEF lines
  <2> QED BY <1>2, <1>3, <2>1, <2>2
<1>4. Len(lines) \in 0..Len(lines)
  BY <1>2
<1> HIDE DEF lines
<1> QED BY <1>1, <1>3, <1>4 DEF lines

\* No new function goes within a decoy.
LEMMA PointIsClear ==
  ASSUME NEW file, IsList(file.lines), NEW at \in C!InsertionPoints(file), at # Len(file.lines),
         NEW kind, NEW fn, NEW a, WholeAt(file, kind, fn, a)
  PROVE  at <= a - 1 \/ at >= a + Len(C!Block(file.lang, kind, fn)) - 1
<1> DEFINE lines == file.lines
           block == C!Block(file.lang, kind, fn)
           size == Len(block)
           head == HeadAt(kind)
           first == block[1].kind
           Clear == at <= a - 1 \/ at >= a + size - 1
<1>1. PICK i \in DOMAIN lines : /\ lines[i].kind = "head"
                                /\ at = IF file.lang = "python" THEN Above(lines, i) ELSE i - 1
  BY PointIs
<1>2. i \in Nat \ {0} /\ Len(lines) \in Nat /\ DOMAIN lines = 1..Len(lines)
  BY DEF IsList
<1>3. /\ kind \in DOMAIN C!Templates(file.lang) /\ a \in Nat \ {0}
      /\ \A k \in 1..size : a + k - 1 \in DOMAIN lines /\ lines[a + k - 1] = block[k]
  BY DEF WholeAt
<1>4. /\ size \in 3..5 /\ head \in 1..2
      /\ \A k \in 1..size : block[k].kind = "head" => k = head
      /\ block[size].kind = "other"
      /\ head = 2 => file.lang = "python" /\ first = "decorator"
  <2> DEFINE lang == file.lang
             t == C!Templates(lang)[kind]
             it == C!Block(lang, kind, fn)
  <2>1. IsBlock(it, t, lang, kind, fn)
    <3>1. kind \in DOMAIN C!Templates(lang)
      BY <1>3
    <3> HIDE DEF lang
    <3> QED BY <3>1, BlockIs
  <2>2. HeadAt(kind) = 2 => C!Decorated(kind)
    BY DEF HeadAt
  <2>3. it = block
    OBVIOUS
  <2> HIDE DEF t, it, block
  <2> QED BY <2>1, <2>2, <2>3 DEF IsBlock
<1> HIDE DEF lines, block, head, size, first
<1>5. at \in 0..i - 1
  BY <1>1, <1>2, AboveIs
<1>6. ASSUME i < a PROVE Clear
  BY <1>5, <1>6, <1>2, <1>3
<1>7. ASSUME i > a + size - 1 PROVE Clear
  <2>1. lines[a + size - 1].kind = "other"
    <3>1. size \in 1..size
      BY <1>4
    <3> QED BY <3>1, <1>3, <1>4
  <2>2. CASE file.lang = "python"
    <3>1. SUFFICES ASSUME ~(at >= a + size - 1) PROVE FALSE
      OBVIOUS
    <3>2. a + size - 1 \in at + 1..i - 1
      BY <3>1, <1>2, <1>3, <1>4, <1>5, <1>7
    <3>3. lines[a + size - 1].kind = "decorator"
      BY <3>2, <2>2, <1>1, <1>2, AboveIs
    <3> QED BY <3>3, <2>1
  <2>3. CASE file.lang # "python"
    BY <2>3, <1>1, <1>2, <1>3, <1>4, <1>7
  <2> QED BY <2>2, <2>3
<1>8. ASSUME i \in a..a + size - 1 PROVE Clear
  <2>1. i = a + head - 1
    <3>1. i - a + 1 \in 1..size /\ a + (i - a + 1) - 1 = i
      BY <1>8, <1>2, <1>3, <1>4
    <3>2. lines[i] = block[i - a + 1]
      BY <3>1, <1>3
    <3>3. i - a + 1 = head
      BY <3>1, <3>2, <1>1, <1>4
    <3> QED BY <3>3, <1>2, <1>3, <1>4
  <2>2. CASE head = 1
    BY <2>1, <2>2, <1>5, <1>2, <1>3
  <2>3. CASE head = 2
    <3>1. i = a + 1 /\ a \in Nat \ {0}
      BY <2>1, <2>3, <1>3
    <3>2. lines[a].kind = "decorator"
      <4>1. 1 \in 1..size /\ a + 1 - 1 = a
        BY <1>3, <1>4
      <4>2. lines[a] = block[1]
        BY <4>1, <1>3
      <4> QED BY <4>2, <2>3, <1>4 DEF first
    <3>3. at # a
      <4>1. at = Above(lines, i)
        BY <2>3, <1>1, <1>4
      <4>2. at = 0 \/ lines[at].kind # "decorator"
        BY <4>1, <1>2, AboveIs
      <4> QED BY <4>2, <3>1, <3>2
    <3> QED BY <3>1, <3>3, <1>5
  <2> QED BY <2>2, <2>3, <1>4
<1>9. i < a \/ i > a + size - 1 \/ i \in a..a + size - 1
  BY <1>2, <1>3, <1>4
<1> QED BY <1>6, <1>7, <1>8, <1>9 DEF size, block

(***************************************************************************)
(* Lines put between lines.                                                *)
(***************************************************************************)

\* Lines and some more: those up to a cut stay, those that are not blank and come after
\* it move, and the others there are are of a block or blank.
IsPut(new, old, cut, add, block, at) ==
  /\ cut \in 0..Len(old) /\ add \in Nat /\ at \in Nat \ {0} /\ IsList(new)
  /\ \A j \in 1..cut : j \in DOMAIN new /\ new[j] = old[j]
  /\ \A j \in cut + 1..Len(old) :
         old[j].kind = "blank" \/ (j + add \in DOMAIN new /\ new[j + add] = old[j])
  /\ \A k \in 1..Len(block) : at + k - 1 \in DOMAIN new /\ new[at + k - 1] = block[k]
  /\ \A k \in DOMAIN new :
         \/ k \in 1..cut
         \/ k \in at..at + Len(block) - 1
         \/ new[k] = C!Blank
         \/ k - add \in cut + 1..Len(old) /\ new[k] = old[k - add]

\* Blank lines between functions.
LEMMA GapIs ==
  ASSUME NEW lang
  PROVE  LET gap == [i \in 1..C!Gap(lang) |-> C!Blank]
         IN /\ IsList(gap) /\ Len(gap) = C!Gap(lang) /\ C!Gap(lang) \in 1..2
            /\ \A k \in 1..C!Gap(lang) : gap[k] = C!Blank
<1> DEFINE n == C!Gap(lang)
           gap == [i \in 1..n |-> C!Blank]
<1>1. n \in 1..2
  BY DEF C!Gap
<1> HIDE DEF n
<1>2. gap = [i \in 1..n |-> gap[i]] /\ n \in Nat /\ \A k \in 1..n : gap[k] = C!Blank
  BY <1>1
<1> HIDE DEF gap
<1>3. IsList(gap) /\ Len(gap) = n
  BY <1>2, ListOf
<1> QED BY <1>1, <1>2, <1>3 DEF n, gap

\* Lines without the blank ones at their end.
LEMMA EndIsBlank ==
  ASSUME NEW lines, IsList(lines)
  PROVE  LET kept == C!WithoutEnd(lines)
         IN /\ IsList(kept) /\ Len(kept) \in 0..Len(lines)
            /\ \A j \in 1..Len(kept) : kept[j] = lines[j]
            /\ \A j \in Len(kept) + 1..Len(lines) : lines[j].kind = "blank"
<1> DEFINE some == {i \in DOMAIN lines : lines[i].kind # "blank"}
           to == IF some = {} THEN 0 ELSE CHOOSE i \in some : \A j \in some : j <= i
<1>1. C!WithoutEnd(lines) = SubSeq(lines, 1, to)
  BY DEF C!WithoutEnd
<1>2. Len(lines) \in Nat /\ DOMAIN lines = 1..Len(lines)
  BY DEF IsList
<1>3. to \in 0..Len(lines) /\ \A j \in some : j <= to
  <2>1. CASE some = {}
    BY <2>1, <1>2
  <2>2. CASE some # {}
    <3> DEFINE n == Len(lines)
    <3>1. some \in SUBSET (1..n) /\ n \in Nat
      BY <1>2
    <3> HIDE DEF n, some
    <3>2. \E i \in some : \A j \in some : j <= i
      BY <2>2, <3>1, LastPlace
    <3>3. to \in some /\ \A j \in some : j <= to
      BY <2>2, <3>2
    <3> HIDE DEF to
    <3> QED BY <3>1, <3>3 DEF n
  <2> QED BY <2>1, <2>2
<1>4. \A j \in to + 1..Len(lines) : lines[j].kind = "blank"
  <2>1. ASSUME NEW j \in to + 1..Len(lines) PROVE lines[j].kind = "blank"
    <3>1. j \in DOMAIN lines /\ ~(j <= to)
      BY <1>2, <1>3
    <3> QED BY <3>1, <1>3
  <2> QED BY <2>1
<1> HIDE DEF to
<1>5. 1 \in 1..Len(lines) + 1 /\ to \in 1 - 1..Len(lines) /\ to - 1 + 1 = to
  BY <1>2, <1>3
<1>6. /\ IsList(SubSeq(lines, 1, to)) /\ Len(SubSeq(lines, 1, to)) = to - 1 + 1
      /\ \A k \in 1..to - 1 + 1 : SubSeq(lines, 1, to)[k] = lines[1 + k - 1]
  BY <1>5, Sliced
<1>7. \A k \in 1..to : 1 + k - 1 = k
  BY <1>3
<1> QED BY <1>1, <1>3, <1>4, <1>5, <1>6, <1>7

\* One list after another, and what becomes of the places.
LEMMA PutAtEnd ==
  ASSUME NEW old, IsList(old), NEW lang, NEW block, IsList(block)
  PROVE  LET gap == [i \in 1..C!Gap(lang) |-> C!Blank]
             kept == C!WithoutEnd(old)
             new == kept \o gap \o block \o <<C!Blank>>
         IN /\ IsPut(new, old, Len(kept), 0, block, Len(kept) + Len(gap) + 1)
            /\ \A j \in Len(kept) + 1..Len(old) : old[j].kind = "blank"
<1> DEFINE gap == [i \in 1..C!Gap(lang) |-> C!Blank]
           kept == C!WithoutEnd(old)
           last == <<C!Blank>>
           one == kept \o gap
           two == one \o block
           new == two \o last
           m == Len(kept)
           g == Len(gap)
           b == Len(block)
<1>1. IsList(gap) /\ g \in 1..2 /\ \A k \in 1..g : gap[k] = C!Blank
  BY GapIs
<1>2. /\ IsList(kept) /\ m \in 0..Len(old) /\ \A j \in 1..m : kept[j] = old[j]
      /\ \A j \in m + 1..Len(old) : old[j].kind = "blank"
  BY EndIsBlank
<1>3. IsList(last) /\ Len(last) = 1 /\ last[1] = C!Blank
  <2>1. last = [k \in 1..1 |-> last[k]] /\ 1 \in Nat
    OBVIOUS
  <2> HIDE DEF last
  <2>2. IsList(last) /\ Len(last) = 1
    BY <2>1, ListOf
  <2> QED BY <2>2 DEF last
<1>4. m \in Nat /\ b \in Nat /\ Len(old) \in Nat
  BY <1>2 DEF IsList
<1> HIDE DEF kept, gap, last
<1>5. /\ IsList(one) /\ Len(one) = m + g
      /\ \A k \in 1..m : one[k] = kept[k]
      /\ \A k \in 1..g : one[m + k] = gap[k]
  BY <1>1, <1>2, Joined
<1> HIDE DEF one
<1>6. /\ IsList(two) /\ Len(two) = m + g + b
      /\ \A k \in 1..m + g : two[k] = one[k]
      /\ \A k \in 1..b : two[m + g + k] = block[k]
  BY <1>5, Joined
<1> HIDE DEF two
<1>7. /\ IsList(new) /\ Len(new) = m + g + b + 1 /\ DOMAIN new = 1..m + g + b + 1
      /\ \A k \in 1..m + g + b : new[k] = two[k]
      /\ \A k \in 1..1 : new[m + g + b + k] = last[k]
  <2>1. /\ IsList(new) /\ Len(new) = Len(two) + Len(last) /\ DOMAIN new = 1..Len(two) + Len(last)
        /\ \A k \in 1..Len(two) : new[k] = two[k]
        /\ \A k \in 1..Len(last) : new[Len(two) + k] = last[k]
    <3>1. IsList(two) /\ IsList(last)
      BY <1>3, <1>6
    <3> QED BY <3>1, Joined
  <2> HIDE DEF new, m, g, b
  <2> QED BY <2>1, <1>3, <1>6
<1> HIDE DEF new, m, g, b
<1>8. \A j \in 1..m : j \in DOMAIN new /\ new[j] = old[j]
  <2>1. ASSUME NEW j \in 1..m PROVE j \in DOMAIN new /\ new[j] = old[j]
    <3>1. j \in 1..m + g /\ j \in 1..m + g + b /\ j \in 1..m + g + b + 1
      BY <1>1, <1>4
    <3> QED BY <3>1, <1>2, <1>5, <1>6, <1>7
  <2> QED BY <2>1
<1>9. \A k \in 1..b : (m + g + 1) + k - 1 \in DOMAIN new /\ new[(m + g + 1) + k - 1] = block[k]
  <2>1. ASSUME NEW k \in 1..b
        PROVE  (m + g + 1) + k - 1 \in DOMAIN new /\ new[(m + g + 1) + k - 1] = block[k]
    <3>1. (m + g + 1) + k - 1 = m + g + k /\ m + g + k \in 1..m + g + b
          /\ m + g + k \in 1..m + g + b + 1
      BY <1>1, <1>4
    <3> QED BY <3>1, <1>6, <1>7
  <2> QED BY <2>1
<1>10. ASSUME NEW k \in DOMAIN new
       PROVE  k \in 1..m \/ k \in m + g + 1..(m + g + 1) + b - 1 \/ new[k] = C!Blank
  <2>1. k \in 1..m + g + b + 1
    BY <1>7
  <2>2. CASE k \in m + 1..m + g
    <3>1. k - m \in 1..g /\ m + (k - m) = k /\ k \in 1..m + g /\ k \in 1..m + g + b
      BY <2>2, <1>1, <1>4
    <3>2. new[k] = gap[k - m]
      BY <3>1, <1>5, <1>6, <1>7
    <3> QED BY <3>1, <3>2, <1>1
  <2>3. CASE k = m + g + b + 1
    BY <2>3, <1>3, <1>7
  <2>4. k \in 1..m \/ k \in m + 1..m + g \/ k \in m + g + 1..(m + g + 1) + b - 1
        \/ k = m + g + b + 1
    BY <2>1, <1>1, <1>4
  <2> QED BY <2>2, <2>3, <2>4
<1>11. m \in 0..Len(old) /\ 0 \in Nat /\ m + g + 1 \in Nat \ {0}
  BY <1>1, <1>2, <1>4
<1>12. IsPut(new, old, m, 0, block, m + g + 1)
  BY <1>2, <1>7, <1>8, <1>9, <1>10, <1>11 DEF IsPut, b
<1> QED BY <1>2, <1>12 DEF new, two, one, kept, gap, last, m, g

LEMMA PutBetween ==
  ASSUME NEW old, IsList(old), NEW lang, NEW block, IsList(block), NEW at \in 0..Len(old)
  PROVE  LET gap == [i \in 1..C!Gap(lang) |-> C!Blank]
             new == SubSeq(old, 1, at) \o block \o gap \o SubSeq(old, at + 1, Len(old))
         IN IsPut(new, old, at, Len(block) + Len(gap), block, at + 1)
<1> DEFINE gap == [i \in 1..C!Gap(lang) |-> C!Blank]
           before == SubSeq(old, 1, at)
           after == SubSeq(old, at + 1, Len(old))
           one == before \o block
           two == one \o gap
           new == two \o after
           g == Len(gap)
           b == Len(block)
           n == Len(old)
<1>1. IsList(gap) /\ g \in 1..2 /\ \A k \in 1..g : gap[k] = C!Blank
  BY GapIs
<1>2. b \in Nat /\ n \in Nat /\ at \in 0..n
  BY DEF IsList
<1>3. IsList(before) /\ Len(before) = at /\ \A k \in 1..at : before[k] = old[k]
  <2>1. 1 \in 1..Len(old) + 1 /\ at \in 1 - 1..Len(old) /\ at - 1 + 1 = at
        /\ \A k \in 1..at : 1 + k - 1 = k
    BY <1>2
  <2>2. /\ IsList(SubSeq(old, 1, at)) /\ Len(SubSeq(old, 1, at)) = at - 1 + 1
        /\ \A k \in 1..at - 1 + 1 : SubSeq(old, 1, at)[k] = old[1 + k - 1]
    BY <2>1, Sliced
  <2> QED BY <2>1, <2>2
<1>4. IsList(after) /\ Len(after) = n - at /\ \A k \in 1..n - at : after[k] = old[at + k]
  <2> DEFINE from == at + 1
             to == n
  <2>1. from \in 1..Len(old) + 1 /\ to \in from - 1..Len(old) /\ to - from + 1 = n - at
        /\ \A k \in 1..n - at : from + k - 1 = at + k
    BY <1>2
  <2> HIDE DEF from, to
  <2>2. /\ IsList(SubSeq(old, from, to)) /\ Len(SubSeq(old, from, to)) = to - from + 1
        /\ \A k \in 1..to - from + 1 : SubSeq(old, from, to)[k] = old[from + k - 1]
    BY <2>1, Sliced
  <2> QED BY <2>1, <2>2 DEF from, to
<1> HIDE DEF gap, before, after
<1>5. /\ IsList(one) /\ Len(one) = at + b
      /\ \A k \in 1..at : one[k] = before[k]
      /\ \A k \in 1..b : one[at + k] = block[k]
  BY <1>3, Joined
<1> HIDE DEF one
<1>6. /\ IsList(two) /\ Len(two) = at + b + g
      /\ \A k \in 1..at + b : two[k] = one[k]
      /\ \A k \in 1..g : two[at + b + k] = gap[k]
  <2>1. /\ IsList(two) /\ Len(two) = Len(one) + Len(gap)
        /\ \A k \in 1..Len(one) : two[k] = one[k]
        /\ \A k \in 1..Len(gap) : two[Len(one) + k] = gap[k]
    BY <1>1, <1>5, Joined
  <2> HIDE DEF two, b
  <2> QED BY <2>1, <1>5
<1> HIDE DEF two
<1>7. /\ IsList(new) /\ Len(new) = at + b + g + (n - at) /\ DOMAIN new = 1..at + b + g + (n - at)
      /\ \A k \in 1..at + b + g : new[k] = two[k]
      /\ \A k \in 1..n - at : new[at + b + g + k] = after[k]
  <2>1. /\ IsList(new) /\ Len(new) = Len(two) + Len(after) /\ DOMAIN new = 1..Len(two) + Len(after)
        /\ \A k \in 1..Len(two) : new[k] = two[k]
        /\ \A k \in 1..Len(after) : new[Len(two) + k] = after[k]
    <3>1. IsList(two) /\ IsList(after)
      BY <1>4, <1>6
    <3> QED BY <3>1, Joined
  <2> HIDE DEF new, g, b, n
  <2> QED BY <2>1, <1>4, <1>6
<1> HIDE DEF new, g, b, n
<1>8. ASSUME NEW j \in 1..at PROVE j \in DOMAIN new /\ new[j] = old[j]
  <2>1. j \in 1..at + b /\ j \in 1..at + b + g /\ j \in 1..at + b + g + (n - at)
    BY <1>1, <1>2
  <2> QED BY <2>1, <1>3, <1>5, <1>6, <1>7
<1>9. ASSUME NEW j \in at + 1..n
      PROVE  j + (b + g) \in DOMAIN new /\ new[j + (b + g)] = old[j]
  <2>1. j - at \in 1..n - at /\ at + b + g + (j - at) = j + (b + g) /\ at + (j - at) = j
        /\ j + (b + g) \in 1..at + b + g + (n - at)
    BY <1>1, <1>2
  <2> QED BY <2>1, <1>4, <1>7
<1>10. ASSUME NEW k \in 1..b
       PROVE  (at + 1) + k - 1 \in DOMAIN new /\ new[(at + 1) + k - 1] = block[k]
  <2>1. (at + 1) + k - 1 = at + k /\ at + k \in 1..at + b /\ at + k \in 1..at + b + g
        /\ at + k \in 1..at + b + g + (n - at)
    BY <1>1, <1>2
  <2> QED BY <2>1, <1>5, <1>6, <1>7
<1>11. ASSUME NEW k \in DOMAIN new
       PROVE  \/ k \in 1..at
              \/ k \in at + 1..(at + 1) + b - 1
              \/ new[k] = C!Blank
              \/ k - (b + g) \in at + 1..n /\ new[k] = old[k - (b + g)]
  <2>1. k \in 1..at + b + g + (n - at)
    BY <1>7
  <2>2. CASE k \in at + b + 1..at + b + g
    <3>1. k - (at + b) \in 1..g /\ at + b + (k - (at + b)) = k /\ k \in 1..at + b + g
      BY <2>2, <1>1, <1>2
    <3>2. new[k] = gap[k - (at + b)]
      BY <3>1, <1>6, <1>7
    <3> QED BY <3>1, <3>2, <1>1
  <2>3. CASE k > at + b + g
    <3>1. k - (b + g) \in at + 1..n /\ (k - (b + g)) + (b + g) = k
      BY <2>1, <2>3, <1>1, <1>2
    <3> QED BY <3>1, <1>9
  <2>4. k \in 1..at \/ k \in at + 1..(at + 1) + b - 1 \/ k \in at + b + 1..at + b + g
        \/ k > at + b + g
    BY <2>1, <1>1, <1>2
  <2> QED BY <2>2, <2>3, <2>4
<1>12. b + g \in Nat /\ at + 1 \in Nat \ {0}
  BY <1>1, <1>2
<1>13. IsPut(new, old, at, b + g, block, at + 1)
  BY <1>7, <1>8, <1>9, <1>10, <1>11, <1>12 DEF IsPut, b, n
<1> QED BY <1>13 DEF new, two, one, before, after, gap, g, b, n

(***************************************************************************)
(* One more decoy parts no other.                                          *)
(***************************************************************************)

\* A decoy that new lines do not part stays whole.
LEMMA PutKeepsWhole ==
  ASSUME NEW old, NEW new, old.lang = new.lang, NEW n \in Nat, IsSource(old, n),
         NEW kind, NEW fn \in 1..n, NEW a, WholeAt(old, kind, fn, a),
         NEW cut, NEW add, NEW block, NEW at, IsPut(new.lines, old.lines, cut, add, block, at),
         cut <= a - 1 \/ cut >= a + Len(C!Block(old.lang, kind, fn)) - 1,
         IsList(block), \A k \in 1..Len(block) : block[k].of # fn
  PROVE  \E b : WholeAt(new, kind, fn, b)
<1> DEFINE lines == old.lines
           more == new.lines
           it == C!Block(old.lang, kind, fn)
           size == Len(it)
           m == Len(block)
           b == IF cut <= a - 1 THEN a + add ELSE a
           len == Len(lines)
<1>1. IsBlock(it, C!Templates(old.lang)[kind], old.lang, kind, fn)
  <2>1. kind \in DOMAIN C!Templates(old.lang)
    BY DEF WholeAt
  <2> QED BY <2>1, BlockIs
<1>2. size \in 3..5 /\ IsList(it) /\ \A k \in 1..size : it[k].of = fn /\ it[k].kind # "blank"
  BY <1>1 DEF IsBlock
<1>3. /\ kind \in DOMAIN C!Templates(new.lang) /\ it = C!Block(new.lang, kind, fn) /\ a \in Nat \ {0}
      /\ \A k \in 1..size : a + k - 1 \in DOMAIN lines /\ lines[a + k - 1] = it[k]
      /\ \A j \in DOMAIN lines : lines[j].of = fn => j \in a..a + size - 1
  BY DEF WholeAt
<1>4. len \in Nat /\ DOMAIN lines = 1..len /\ m \in Nat
  BY DEF IsSource, IsList
<1>5. /\ cut \in 0..len /\ add \in Nat /\ at \in Nat \ {0}
      /\ \A j \in 1..cut : j \in DOMAIN more /\ more[j] = lines[j]
      /\ \A j \in cut + 1..len :
             lines[j].kind = "blank" \/ (j + add \in DOMAIN more /\ more[j + add] = lines[j])
      /\ \A k \in 1..m : at + k - 1 \in DOMAIN more /\ more[at + k - 1] = block[k]
      /\ \A k \in DOMAIN more :
             \/ k \in 1..cut
             \/ k \in at..at + m - 1
             \/ more[k] = C!Blank
             \/ k - add \in cut + 1..len /\ more[k] = lines[k - add]
  BY DEF IsPut
<1>6. cut <= a - 1 \/ cut >= a + size - 1
  OBVIOUS
<1>7. \A k \in 1..m : block[k].of # fn
  OBVIOUS
<1>8. C!Blank.of # fn
  BY DEF C!Blank
<1> HIDE DEF lines, more, it, size, m, len
<1>9. b \in Nat \ {0}
  BY <1>3, <1>5
<1>10. ASSUME NEW k \in 1..size PROVE b + k - 1 \in DOMAIN more /\ more[b + k - 1] = it[k]
  <2>1. a + k - 1 \in 1..len /\ lines[a + k - 1] = it[k] /\ lines[a + k - 1].kind # "blank"
    BY <1>2, <1>3, <1>4
  <2>2. CASE cut <= a - 1
    <3>1. a + k - 1 \in cut + 1..len /\ b + k - 1 = (a + k - 1) + add
      BY <2>1, <2>2, <1>2, <1>3, <1>4, <1>5
    <3> QED BY <3>1, <2>1, <1>5
  <2>3. CASE ~(cut <= a - 1)
    <3>1. a + k - 1 \in 1..cut /\ b = a
      BY <2>1, <2>3, <1>2, <1>3, <1>4, <1>5, <1>6
    <3> QED BY <3>1, <2>1, <1>5
  <2> QED BY <2>2, <2>3
<1>11. ASSUME NEW k \in DOMAIN more, more[k].of = fn PROVE k \in b..b + size - 1
  <2>1. CASE k \in 1..cut
    <3>1. k \in 1..len /\ more[k] = lines[k]
      BY <2>1, <1>4, <1>5
    <3>2. k \in a..a + size - 1
      BY <3>1, <1>3, <1>4, <1>11
    <3>3. ~(cut <= a - 1)
      BY <2>1, <3>2, <1>2, <1>3, <1>5
    <3> QED BY <3>2, <3>3
  <2>2. CASE k \in at..at + m - 1
    <3>1. k - at + 1 \in 1..m /\ at + (k - at + 1) - 1 = k
      BY <2>2, <1>4, <1>5
    <3>2. more[k] = block[k - at + 1]
      BY <3>1, <1>5
    <3> QED BY <3>1, <3>2, <1>7, <1>11
  <2>3. CASE more[k] = C!Blank
    BY <2>3, <1>8, <1>11
  <2>4. CASE k - add \in cut + 1..len /\ more[k] = lines[k - add]
    <3>1. k - add \in 1..len
      BY <2>4, <1>4, <1>5
    <3>2. k - add \in a..a + size - 1
      BY <2>4, <3>1, <1>3, <1>4, <1>11
    <3>3. cut <= a - 1
      BY <2>4, <3>2, <1>2, <1>3, <1>4, <1>5, <1>6
    <3>4. k \in Int
      BY <3>1, <1>5 DEF IsPut, IsList, more
    <3> QED BY <3>2, <3>3, <3>4, <1>2, <1>3, <1>5
  <2> QED BY <2>1, <2>2, <2>3, <2>4, <1>5
<1> HIDE DEF b
<1>12. WholeAt(new, kind, fn, b)
  BY <1>3, <1>9, <1>10, <1>11 DEF WholeAt, more, size
<1> QED BY <1>12

\* A new decoy is whole where it was put.
LEMMA PutIsWhole ==
  ASSUME NEW old, NEW new, NEW n \in Nat, IsSource(old, n), new.lang = old.lang,
         NEW kind \in DOMAIN C!Templates(old.lang), NEW cut, NEW add, NEW at,
         IsPut(new.lines, old.lines, cut, add, C!Block(old.lang, kind, n + 1), at)
  PROVE  /\ WholeAt(new, kind, n + 1, at)
         /\ \A k \in DOMAIN new.lines : new.lines[k].of \in 0..n + 1
<1> DEFINE lines == old.lines
           more == new.lines
           it == C!Block(old.lang, kind, n + 1)
           size == Len(it)
           len == Len(lines)
<1>1. IsBlock(it, C!Templates(old.lang)[kind], old.lang, kind, n + 1)
  BY BlockIs
<1>2. size \in 3..5 /\ \A k \in 1..size : it[k].of = n + 1
  BY <1>1 DEF IsBlock
<1>3. len \in Nat /\ DOMAIN lines = 1..len /\ \A j \in DOMAIN lines : lines[j].of \in 0..n
  BY DEF IsSource, IsList
<1>4. /\ cut \in 0..len /\ add \in Nat /\ at \in Nat \ {0}
      /\ \A j \in 1..cut : j \in DOMAIN more /\ more[j] = lines[j]
      /\ \A k \in 1..size : at + k - 1 \in DOMAIN more /\ more[at + k - 1] = it[k]
      /\ \A k \in DOMAIN more :
             \/ k \in 1..cut
             \/ k \in at..at + size - 1
             \/ more[k] = C!Blank
             \/ k - add \in cut + 1..len /\ more[k] = lines[k - add]
  BY DEF IsPut
<1>5. C!Blank.of = 0
  BY DEF C!Blank
<1>6. kind \in DOMAIN C!Templates(new.lang) /\ it = C!Block(new.lang, kind, n + 1)
  OBVIOUS
<1> HIDE DEF lines, more, it, size, len
<1>7. ASSUME NEW k \in DOMAIN more
      PROVE  more[k].of \in 0..n + 1 /\ (more[k].of = n + 1 => k \in at..at + size - 1)
  <2>1. CASE k \in 1..cut
    <3>1. more[k].of \in 0..n
      BY <2>1, <1>3, <1>4
    <3> QED BY <3>1
  <2>2. CASE k \in at..at + size - 1
    <3>1. k - at + 1 \in 1..size /\ at + (k - at + 1) - 1 = k
      BY <2>2, <1>2, <1>4
    <3>2. more[k] = it[k - at + 1]
      BY <3>1, <1>4
    <3>3. more[k].of = n + 1
      BY <3>1, <3>2, <1>2
    <3> QED BY <3>3, <2>2
  <2>3. CASE more[k] = C!Blank
    BY <2>3, <1>5
  <2>4. CASE k - add \in cut + 1..len /\ more[k] = lines[k - add]
    <3>1. k - add \in 1..len
      BY <2>4, <1>3, <1>4
    <3>2. more[k].of \in 0..n
      BY <3>1, <2>4, <1>3
    <3> QED BY <3>2
  <2> QED BY <2>1, <2>2, <2>3, <2>4, <1>4
<1>8. WholeAt(new, kind, n + 1, at)
  BY <1>4, <1>6, <1>7 DEF WholeAt, more, size
<1> QED BY <1>7, <1>8 DEF more

\* Planting one more decoy leaves the others whole.
LEMMA PlantKeeps ==
  ASSUME NEW file, NEW n \in Nat, IsSource(file, n), NEW kind \in DOMAIN C!Templates(file.lang),
         NEW at \in C!InsertionPoints(file)
  PROVE  LET new == C!Plant(file, kind, n + 1, at)
         IN /\ IsSource(new, n + 1) /\ new.lang = file.lang
            /\ \E b : WholeAt(new, kind, n + 1, b)
            /\ \A other, a : \A fn \in 1..n :
                   WholeAt(file, other, fn, a) => \E b : WholeAt(new, other, fn, b)
<1> DEFINE lines == file.lines
           block == C!Block(file.lang, kind, n + 1)
           gap == [i \in 1..C!Gap(file.lang) |-> C!Blank]
           kept == C!WithoutEnd(lines)
           atEnd == kept \o gap \o block \o <<C!Blank>>
           between == SubSeq(lines, 1, at) \o block \o gap \o SubSeq(lines, at + 1, Len(lines))
           new == C!Plant(file, kind, n + 1, at)
<1>1. new = [file EXCEPT !.lines = IF at >= Len(lines) THEN atEnd ELSE between]
  BY DEF C!Plant
<1>2. /\ file = [lang |-> file.lang, parses |-> file.parses, lines |-> file.lines]
      /\ IsList(lines) /\ \A j \in DOMAIN lines : lines[j].of \in 0..n
  BY DEF IsSource
<1>3. Len(lines) \in Nat /\ DOMAIN lines = 1..Len(lines)
  BY <1>2 DEF IsList
<1>4. at \in 0..Len(lines)
  BY <1>2, PointIs
<1>5. IsBlock(block, C!Templates(file.lang)[kind], file.lang, kind, n + 1)
  BY BlockIs
<1>6. IsList(block) /\ \A k \in 1..Len(block) : block[k].of = n + 1
  BY <1>5 DEF IsBlock
<1> HIDE DEF atEnd, between, block, gap, kept, lines
<1>7. new = [lang |-> file.lang, parses |-> file.parses,
             lines |-> IF at >= Len(lines) THEN atEnd ELSE between]
  BY <1>1, <1>2
<1> HIDE DEF new
<1>8. \E cut, add, b :
          /\ IsPut(new.lines, lines, cut, add, block, b)
          /\ \A other, a : \A fn \in 1..n :
                 WholeAt(file, other, fn, a)
                 => cut <= a - 1 \/ cut >= a + Len(C!Block(file.lang, other, fn)) - 1
  <2>1. CASE at >= Len(lines)
    <3>1. /\ IsPut(atEnd, lines, Len(kept), 0, block, Len(kept) + Len(gap) + 1)
          /\ \A j \in Len(kept) + 1..Len(lines) : lines[j].kind = "blank"
      BY <1>2, <1>6, PutAtEnd DEF atEnd, gap, kept
    <3>2. new.lines = atEnd
      BY <2>1, <1>7
    <3>3. ASSUME NEW other, NEW a, NEW fn \in 1..n, WholeAt(file, other, fn, a)
          PROVE  Len(kept) >= a + Len(C!Block(file.lang, other, fn)) - 1
      <4> DEFINE it == C!Block(file.lang, other, fn)
                 size == Len(it)
      <4>1. /\ other \in DOMAIN C!Templates(file.lang) /\ a \in Nat \ {0}
            /\ \A k \in 1..size : a + k - 1 \in DOMAIN lines /\ lines[a + k - 1] = it[k]
        BY <3>3 DEF WholeAt, lines
      <4>2. IsBlock(it, C!Templates(file.lang)[other], file.lang, other, fn)
        BY <4>1, BlockIs
      <4>3. size \in 3..5 /\ it[size].kind = "other"
        BY <4>2 DEF IsBlock
      <4> HIDE DEF it, size
      <4>4. size \in 1..size
        BY <4>3
      <4>5. a + size - 1 \in 1..Len(lines) /\ lines[a + size - 1].kind # "blank"
        BY <4>1, <4>3, <4>4, <1>3
      <4>6. Len(kept) \in Nat
        BY <3>1, <1>3 DEF IsPut
      <4>7. Len(kept) >= a + size - 1
        BY <4>5, <4>6, <3>1, <4>1, <4>3, <1>3
      <4> QED BY <4>7 DEF size, it
    <3> QED BY <3>1, <3>2, <3>3
  <2>2. CASE ~(at >= Len(lines))
    <3>1. IsPut(between, lines, at, Len(block) + Len(gap), block, at + 1)
      BY <1>2, <1>4, <1>6, PutBetween DEF between, gap
    <3>2. new.lines = between /\ at # Len(lines)
      <4>1. at # Len(lines)
        BY <2>2, <1>3
      <4> QED BY <4>1, <2>2, <1>7
    <3>3. \A other, a : \A fn \in 1..n :
              WholeAt(file, other, fn, a)
              => at <= a - 1 \/ at >= a + Len(C!Block(file.lang, other, fn)) - 1
      BY <3>2, <1>2, PointIsClear DEF lines
    <3> QED BY <3>1, <3>2, <3>3
  <2> QED BY <2>1, <2>2
<1>9. PICK cut, add, b :
          /\ IsPut(new.lines, lines, cut, add, block, b)
          /\ \A other, a : \A fn \in 1..n :
                 WholeAt(file, other, fn, a)
                 => cut <= a - 1 \/ cut >= a + Len(C!Block(file.lang, other, fn)) - 1
  BY <1>8
<1>10. new = [lang |-> new.lang, parses |-> new.parses, lines |-> new.lines]
       /\ new.lang = file.lang
  BY <1>7
<1>11. WholeAt(new, kind, n + 1, b) /\ \A k \in DOMAIN new.lines : new.lines[k].of \in 0..n + 1
  BY <1>9, <1>10, PutIsWhole DEF lines, block
<1>12. IsList(new.lines)
  BY <1>9 DEF IsPut
<1>13. ASSUME NEW other, NEW a, NEW fn \in 1..n, WholeAt(file, other, fn, a)
       PROVE  \E c : WholeAt(new, other, fn, c)
  <2>1. cut <= a - 1 \/ cut >= a + Len(C!Block(file.lang, other, fn)) - 1
    BY <1>9, <1>13
  <2>2. \A k \in 1..Len(block) : block[k].of # fn
    BY <1>6
  <2>3. IsPut(new.lines, file.lines, cut, add, block, b)
    BY <1>9 DEF lines
  <2> QED BY <2>1, <2>2, <2>3, <1>6, <1>10, <1>13, PutKeepsWhole
<1>14. IsSource(new, n + 1)
  BY <1>10, <1>11, <1>12 DEF IsSource
<1>15. (\E c : WholeAt(new, kind, n + 1, c)) /\ new.lang = file.lang
  BY <1>10, <1>11
<1> QED BY <1>13, <1>14, <1>15 DEF new

(***************************************************************************)
(* One decoy after another.                                                *)
(***************************************************************************)

\* The planting of so many decoys.
LEMMA PlantingUnfolds ==
  ASSUME NEW n \in Nat, NEW files, NEW order, NEW kinds, NEW places
  PROVE  \E at : /\ at[0] = [files |-> files, taken |-> {}, decoys |-> <<>>]
                 /\ \A k \in 1..n : at[k] = C!PlantNext(at[k - 1], k, order, kinds, places)
                 /\ C!Planting(files, n, order, kinds, places) = at[n]
<1> DEFINE base == [files |-> files, taken |-> {}, decoys |-> <<>>]
           Rec(at, m) == at = [k \in 0..m |-> IF k = 0 THEN base
                                             ELSE C!PlantNext(at[k - 1], k, order, kinds, places)]
           Nums == {m \in Nat : \E at : Rec(at, m)}
<1>1. 0 \in Nums
  <2> DEFINE one == [k \in 0..0 |-> base]
  <2>1. Rec(one, 0)
    <3> HIDE DEF base
    <3> QED OBVIOUS
  <2> QED BY <2>1
<1>2. ASSUME NEW m \in Nat, m \in Nums PROVE m + 1 \in Nums
  <2>1. PICK at : Rec(at, m)
    BY <1>2
  <2> DEFINE new == [k \in 0..m + 1 |-> IF k = m + 1 THEN C!PlantNext(at[m], k, order, kinds, places)
                                        ELSE at[k]]
  <2>2. ASSUME NEW k \in 0..m + 1
        PROVE  new[k] = IF k = 0 THEN base ELSE C!PlantNext(new[k - 1], k, order, kinds, places)
    <3> HIDE DEF base
    <3>1. CASE k = m + 1
      <4>1. new[k - 1] = at[m] /\ k # 0
        BY <3>1
      <4> QED BY <4>1, <3>1
    <3>2. CASE k \in 0..m
      <4>1. new[k] = at[k]
        BY <3>2
      <4>2. at[k] = IF k = 0 THEN base ELSE C!PlantNext(at[k - 1], k, order, kinds, places)
        BY <2>1, <3>2
      <4>3. k # 0 => new[k - 1] = at[k - 1]
        BY <3>2
      <4> QED BY <4>1, <4>2, <4>3
    <3> QED BY <3>1, <3>2
  <2>3. new = [k \in 0..m + 1 |-> new[k]]
    OBVIOUS
  <2> HIDE DEF new, base
  <2>4. Rec(new, m + 1)
    BY <2>2, <2>3
  <2> HIDE DEF Rec
  <2> QED BY <2>4
<1>3. n \in Nums
  <2> HIDE DEF Nums
  <2> QED BY <1>1, <1>2, NatInductionOnSets
<1>4. PICK any : Rec(any, n)
  BY <1>3
<1> DEFINE at == CHOOSE at : Rec(at, n)
<1>5. Rec(at, n)
  BY <1>4
<1>6. C!Planting(files, n, order, kinds, places) = at[n]
  BY DEF C!Planting
<1>7. \A k \in 0..n : at[k] = IF k = 0 THEN base ELSE C!PlantNext(at[k - 1], k, order, kinds, places)
  <2> HIDE DEF base
  <2> QED BY <1>5
<1> HIDE DEF at, base
<1>8. at[0] = base /\ \A k \in 1..n : at[k] = C!PlantNext(at[k - 1], k, order, kinds, places)
  BY <1>7
<1> QED BY <1>6, <1>8 DEF base

\* Files as the planting finds them: lists of lines that are no decoy's.
AreSources(files) ==
  /\ files = [p \in DOMAIN files |-> files[p]]
  /\ \A p \in DOMAIN files : IsSource(files[p], 0)

\* So many decoys planted, each whole in its file.
IsPlanted(s, files, n) ==
  /\ s = [files |-> s.files, taken |-> s.taken, decoys |-> s.decoys]
  /\ s.files = [p \in DOMAIN files |-> s.files[p]]
  /\ \A p \in DOMAIN files : IsSource(s.files[p], n) /\ s.files[p].lang = files[p].lang
  /\ IsList(s.decoys)
  /\ \A d \in Range(s.decoys) :
         /\ d = [file |-> d.file, kind |-> d.kind, fn |-> d.fn, at |-> d.at]
         /\ d.file \in DOMAIN files /\ d.fn \in 1..n
         /\ \E a : WholeAt(s.files[d.file], d.kind, d.fn, a)

\* A list with one more holds what it held, and that.
LEMMA HoldsOneMore ==
  ASSUME NEW s, IsList(s), NEW x
  PROVE  IsList(Append(s, x)) /\ \A y \in Range(Append(s, x)) : y \in Range(s) \/ y = x
<1>1. /\ IsList(Append(s, x)) /\ Len(Append(s, x)) = Len(s) + 1
      /\ DOMAIN s = 1..Len(s) /\ Len(s) \in Nat /\ DOMAIN Append(s, x) = 1..Len(s) + 1
      /\ \A k \in 1..Len(s) : Append(s, x)[k] = s[k]
      /\ Append(s, x)[Len(s) + 1] = x
  BY OneMore
<1> DEFINE more == Append(s, x)
           n == Len(s)
<1> HIDE DEF more, n
<1>2. ASSUME NEW k \in DOMAIN more PROVE more[k] \in Range(s) \/ more[k] = x
  <2>1. k \in 1..n + 1 /\ n \in Nat
    BY <1>1 DEF more, n
  <2>2. CASE k = n + 1
    BY <2>2, <1>1 DEF more, n
  <2>3. CASE k \in 1..n
    BY <2>3, <1>1 DEF more, n, Range
  <2> QED BY <2>1, <2>2, <2>3
<1>3. \A y \in Range(more) : y \in Range(s) \/ y = x
  BY <1>2 DEF Range
<1> QED BY <1>1, <1>3 DEF more

\* One more decoy is planted whole and leaves the others so.
LEMMA PlantNextKeeps ==
  ASSUME NEW files, NEW n \in Nat, NEW s, IsPlanted(s, files, n),
         NEW order, IsList(order), Range(order) \subseteq DOMAIN files,
         NEW kinds, NEW places, places[n + 1] \in Int
  PROVE  IsPlanted(C!PlantNext(s, n + 1, order, kinds, places), files, n + 1)
<1> DEFINE i == n + 1
           turns == {k \in DOMAIN order : s.files[order[k]].lang \in C!Languages}
           p == order[C!Nth(turns, i)]
           file == s.files[p]
           free == DOMAIN C!Templates(file.lang) \ s.taken
           wish == free \cap {kinds[i]}
           kind == CHOOSE k \in IF wish # {} THEN wish ELSE free : TRUE
           at == C!Nth(C!InsertionPoints(file), places[i])
           new == C!Plant(file, kind, i, at)
           decoy == [file |-> p, kind |-> kind, fn |-> i, at |-> C!Locate(new, i, kind)]
           after == C!PlantNext(s, i, order, kinds, places)
<1>1. after = IF turns = {} \/ free = {} THEN s
              ELSE [files |-> [s.files EXCEPT ![p] = new], taken |-> s.taken \cup {kind},
                    decoys |-> Append(s.decoys, decoy)]
  BY DEF C!PlantNext
<1>2. CASE turns = {} \/ free = {}
  <2>1. after = s
    BY <1>1, <1>2
  <2>2. \A q \in DOMAIN files : IsSource(s.files[q], n + 1)
    <3>1. 0..n \subseteq 0..n + 1
      OBVIOUS
    <3> QED BY <3>1 DEF IsPlanted, IsSource
  <2>3. 1..n \subseteq 1..n + 1
    OBVIOUS
  <2> QED BY <2>1, <2>2, <2>3 DEF IsPlanted
<1>3. CASE ~(turns = {} \/ free = {})
  <2>1. p \in DOMAIN files
    <3> DEFINE m == Len(order)
    <3>1. DOMAIN order = 1..m /\ m \in Nat
      BY DEF IsList
    <3>2. turns \in SUBSET Int /\ IsFiniteSet(turns) /\ i \in Int
      <4> HIDE DEF m
      <4> DEFINE all == 1..m
      <4>1. IsFiniteSet(all) /\ turns \in SUBSET all /\ all \in SUBSET Int
        BY <3>1, FS_Interval
      <4> HIDE DEF turns, all
      <4>2. IsFiniteSet(turns)
        BY <4>1, FS_Subset
      <4> QED BY <4>1, <4>2
    <3> HIDE DEF turns
    <3>3. C!Nth(turns, i) \in turns
      BY <3>2, <1>3, NthIsThere
    <3> QED BY <3>3 DEF turns, Range
  <2>2. kind \in DOMAIN C!Templates(file.lang)
    <3> HIDE DEF p, file
    <3> QED BY <1>3
  <2>3. IsSource(file, n) /\ file.lang = files[p].lang
    <3> HIDE DEF p
    <3> QED BY <2>1 DEF IsPlanted
  <2> HIDE DEF p, file, kind
  <2>4. at \in C!InsertionPoints(file)
    <3> DEFINE points == C!InsertionPoints(file)
               m == Len(file.lines)
    <3>1. \A x \in points : x \in 0..m
      BY <2>3, PointIs DEF IsSource
    <3>2. m \in points
      BY DEF C!InsertionPoints
    <3>3. m \in Nat
      BY <2>3 DEF IsSource, IsList
    <3> HIDE DEF points, m
    <3> DEFINE all == 0..m
    <3>4. IsFiniteSet(all) /\ points \in SUBSET all /\ all \in SUBSET Int
      BY <3>1, <3>3, FS_Interval
    <3> HIDE DEF all
    <3>5. IsFiniteSet(points)
      BY <3>4, FS_Subset
    <3>6. points \in SUBSET Int /\ points # {}
      BY <3>2, <3>4
    <3> DEFINE place == places[i]
    <3>7. place \in Int
      OBVIOUS
    <3> HIDE DEF place
    <3>8. C!Nth(points, place) \in points
      BY <3>5, <3>6, <3>7, NthIsThere
    <3> QED BY <3>8 DEF points, place
  <2> HIDE DEF at
  <2>5. /\ IsSource(new, n + 1) /\ new.lang = file.lang
        /\ \E b : WholeAt(new, kind, n + 1, b)
        /\ \A other, a : \A fn \in 1..n :
               WholeAt(file, other, fn, a) => \E b : WholeAt(new, other, fn, b)
    BY <2>2, <2>3, <2>4, PlantKeeps
  <2> HIDE DEF new, decoy
  <2>6. after = [files |-> [s.files EXCEPT ![p] = new], taken |-> s.taken \cup {kind},
                 decoys |-> Append(s.decoys, decoy)]
    BY <1>1, <1>3 DEF p, file, kind, at, new, decoy
  <2> HIDE DEF after
  <2>7. /\ after = [files |-> after.files, taken |-> after.taken, decoys |-> after.decoys]
        /\ after.files = [s.files EXCEPT ![p] = new] /\ after.decoys = Append(s.decoys, decoy)
    BY <2>6
  <2>8. /\ after.files = [q \in DOMAIN files |-> after.files[q]]
        /\ after.files[p] = new /\ \A q \in DOMAIN files : q # p => after.files[q] = s.files[q]
    BY <2>1, <2>7 DEF IsPlanted
  <2>9. ASSUME NEW q \in DOMAIN files
        PROVE  IsSource(after.files[q], n + 1) /\ after.files[q].lang = files[q].lang
    <3>1. CASE q = p
      BY <3>1, <2>3, <2>5, <2>8
    <3>2. CASE q # p
      <4>1. 0..n \subseteq 0..n + 1
        OBVIOUS
      <4>2. IsSource(s.files[q], n) /\ s.files[q].lang = files[q].lang
        BY DEF IsPlanted
      <4>3. IsSource(s.files[q], n + 1)
        BY <4>1, <4>2 DEF IsSource
      <4> QED BY <3>2, <4>2, <4>3, <2>8
    <3> QED BY <3>1, <3>2
  <2>10. IsList(after.decoys) /\ \A d \in Range(after.decoys) : d \in Range(s.decoys) \/ d = decoy
    BY <2>7, HoldsOneMore DEF IsPlanted
  <2>11. ASSUME NEW d \in Range(after.decoys)
         PROVE  /\ d = [file |-> d.file, kind |-> d.kind, fn |-> d.fn, at |-> d.at]
                /\ d.file \in DOMAIN files /\ d.fn \in 1..n + 1
                /\ \E a : WholeAt(after.files[d.file], d.kind, d.fn, a)
    <3>1. CASE d = decoy
      <4>1. decoy = [file |-> p, kind |-> kind, fn |-> n + 1, at |-> decoy.at]
        BY DEF decoy
      <4>2. n + 1 \in 1..n + 1
        OBVIOUS
      <4> QED BY <3>1, <4>1, <4>2, <2>1, <2>5, <2>8
    <3>2. CASE d \in Range(s.decoys)
      <4>1. /\ d = [file |-> d.file, kind |-> d.kind, fn |-> d.fn, at |-> d.at]
            /\ d.file \in DOMAIN files /\ d.fn \in 1..n
            /\ \E a : WholeAt(s.files[d.file], d.kind, d.fn, a)
        BY <3>2 DEF IsPlanted
      <4>2. d.fn \in 1..n + 1
        BY <4>1
      <4>3. CASE d.file = p
        <5>1. PICK a : WholeAt(file, d.kind, d.fn, a)
          BY <4>1, <4>3 DEF file
        <5>2. \E b : WholeAt(new, d.kind, d.fn, b)
          BY <5>1, <4>1, <2>5
        <5> QED BY <5>2, <4>1, <4>2, <4>3, <2>8
      <4>4. CASE d.file # p
        BY <4>1, <4>2, <4>4, <2>8
      <4> QED BY <4>3, <4>4
    <3> QED BY <3>1, <3>2, <2>10
  <2>12. IsPlanted(after, files, n + 1)
    BY <2>7, <2>8, <2>9, <2>10, <2>11 DEF IsPlanted
  <2> QED BY <2>12 DEF after
<1> QED BY <1>2, <1>3

(***************************************************************************)
(* The decoys are where they are said to be.                               *)
(***************************************************************************)

\* After so many decoys, each is whole.
LEMMA PlantedWhole ==
  ASSUME NEW files, AreSources(files), NEW count \in Nat,
         NEW order, IsList(order), Range(order) \subseteq DOMAIN files,
         NEW kinds, NEW places, \A i \in 1..count : places[i] \in Int
  PROVE  IsPlanted(C!Planting(files, count, order, kinds, places), files, count)
<1>1. PICK at : /\ at[0] = [files |-> files, taken |-> {}, decoys |-> <<>>]
                /\ \A k \in 1..count : at[k] = C!PlantNext(at[k - 1], k, order, kinds, places)
                /\ C!Planting(files, count, order, kinds, places) = at[count]
  BY PlantingUnfolds
<1> DEFINE Nums == {m \in Nat : m <= count => IsPlanted(at[m], files, m)}
<1>2. 0 \in Nums
  <2> DEFINE base == [files |-> files, taken |-> {}, decoys |-> <<>>]
  <2>1. IsList(base.decoys) /\ Range(base.decoys) = {}
    BY DEF IsList, Range
  <2>2. /\ base = [files |-> base.files, taken |-> base.taken, decoys |-> base.decoys]
        /\ base.files = files
    OBVIOUS
  <2> HIDE DEF base
  <2>3. IsPlanted(base, files, 0)
    BY <2>1, <2>2 DEF IsPlanted, AreSources
  <2> QED BY <2>3, <1>1 DEF base
<1>3. ASSUME NEW m \in Nat, m \in Nums PROVE m + 1 \in Nums
  <2>1. SUFFICES ASSUME m + 1 <= count PROVE IsPlanted(at[m + 1], files, m + 1)
    OBVIOUS
  <2>2. m + 1 \in 1..count /\ (m + 1) - 1 = m /\ IsPlanted(at[m], files, m)
    BY <1>3, <2>1
  <2>3. at[m + 1] = C!PlantNext(at[m], m + 1, order, kinds, places) /\ places[m + 1] \in Int
    BY <1>1, <2>2
  <2> QED BY <2>2, <2>3, PlantNextKeeps
<1>4. count \in Nums
  <2> HIDE DEF Nums
  <2> QED BY <1>2, <1>3, NatInductionOnSets
<1> QED BY <1>1, <1>4

\* A decoy that is whole is located where it is.
LEMMA LocateFinds ==
  ASSUME NEW file, NEW n \in Nat, IsSource(file, n), NEW kind, NEW fn, NEW a,
         WholeAt(file, kind, fn, a)
  PROVE  LET at == C!Locate(file, fn, kind)
         IN SubSeq(file.lines, at[1], at[2]) = C!Block(file.lang, kind, fn)
<1> DEFINE lines == file.lines
           block == C!Block(file.lang, kind, fn)
           size == C!Templates(file.lang)[kind]
           h == HeadAt(kind)
           head == [kind |-> "head", of |-> fn]
           heads == {i \in DOMAIN lines : lines[i] = head}
           len == Len(lines)
           above == IF C!Decorated(kind) THEN 1 ELSE 0
<1>1. IsBlock(block, size, file.lang, kind, fn)
  <2>1. kind \in DOMAIN C!Templates(file.lang)
    BY DEF WholeAt
  <2> QED BY <2>1, BlockIs
<1>2. /\ size \in 3..5 /\ IsList(block) /\ Len(block) = size /\ DOMAIN block = 1..size
      /\ block[h] = head /\ h \in 1..2
      /\ \A k \in 1..size : block[k].kind = "head" => k = h
  BY <1>1 DEF IsBlock
<1>3. /\ a \in Nat \ {0}
      /\ \A k \in 1..Len(block) : a + k - 1 \in DOMAIN lines /\ lines[a + k - 1] = block[k]
      /\ \A j \in DOMAIN lines : lines[j].of = fn => j \in a..a + Len(block) - 1
  BY DEF WholeAt
<1>4. IsList(lines) /\ len \in Nat /\ DOMAIN lines = 1..len
  BY DEF IsSource, IsList
<1>5. h - above = 1 /\ above \in 0..1
  BY DEF HeadAt
<1>6. C!Locate(file, fn, kind) =
          LET at == (CHOOSE i \in heads : \A j \in heads : i <= j) - above
          IN IF heads = {} THEN <<0, 0>> ELSE <<at, at + size - 1>>
  BY DEF C!Locate
<1>7. head.kind = "head" /\ head.of = fn
  OBVIOUS
<1>8. heads \subseteq DOMAIN lines /\ \A i \in DOMAIN lines : i \in heads <=> lines[i] = head
  OBVIOUS
<1> HIDE DEF block, size, h, head, heads, len, above
<1>9. a + h - 1 \in heads
  BY <1>2, <1>3, <1>8
<1>10. ASSUME NEW i \in heads PROVE i = a + h - 1
  <2>1. i \in DOMAIN lines /\ lines[i] = head
    BY <1>8
  <2>2. i \in a..a + size - 1
    BY <2>1, <1>2, <1>3, <1>7
  <2>3. i - a + 1 \in 1..size /\ a + (i - a + 1) - 1 = i
    BY <2>2, <1>2, <1>3
  <2>4. lines[i] = block[i - a + 1]
    BY <2>3, <1>2, <1>3
  <2>5. i - a + 1 = h
    BY <2>1, <2>3, <2>4, <1>2, <1>7
  <2> QED BY <2>5, <2>2, <1>2, <1>3
<1>11. (CHOOSE i \in heads : \A j \in heads : i <= j) = a + h - 1
  <2> DEFINE there == a + h - 1
  <2>1. heads = {there} /\ there \in Int
    BY <1>2, <1>3, <1>9, <1>10
  <2> HIDE DEF there
  <2>2. (CHOOSE i \in heads : \A j \in heads : i <= j) = there
    BY <2>1
  <2> QED BY <2>2 DEF there
<1>12. (a + h - 1) - above = a
  BY <1>2, <1>3, <1>5
<1>13. C!Locate(file, fn, kind) = <<a, a + size - 1>>
  BY <1>6, <1>9, <1>11, <1>12
<1> DEFINE to == a + size - 1
<1>14. a \in 1..len + 1 /\ to \in a - 1..len /\ to - a + 1 = size
  <2>1. 1 \in 1..size /\ size \in 1..size
    BY <1>2
  <2>2. a + 1 - 1 \in 1..len /\ a + size - 1 \in 1..len
    BY <2>1, <1>2, <1>3, <1>4
  <2> QED BY <2>2, <1>2, <1>3, <1>4
<1>15. /\ IsList(SubSeq(lines, a, to)) /\ DOMAIN SubSeq(lines, a, to) = 1..to - a + 1
       /\ \A k \in 1..to - a + 1 : SubSeq(lines, a, to)[k] = lines[a + k - 1]
  <2> HIDE DEF to, lines
  <2> QED BY <1>4, <1>14, Sliced DEF len
<1> HIDE DEF to
<1>16. SubSeq(lines, a, to) = block
  <2> DEFINE cut == SubSeq(lines, a, to)
  <2>1. IsList(cut) /\ DOMAIN cut = 1..size /\ \A k \in 1..size : cut[k] = lines[a + k - 1]
    BY <1>14, <1>15
  <2> HIDE DEF cut
  <2>2. \A k \in 1..size : cut[k] = block[k]
    BY <2>1, <1>2, <1>3
  <2>3. cut = [k \in 1..size |-> cut[k]] /\ block = [k \in 1..size |-> block[k]]
    BY <2>1, <1>2 DEF IsList
  <2>4. cut = block
    BY <2>2, <2>3
  <2> QED BY <2>4 DEF cut
<1> HIDE DEF lines
<1> DEFINE found == C!Locate(file, fn, kind)
<1>17. found[1] = a /\ found[2] = to
  <2> HIDE DEF found
  <2>1. found = <<a, to>>
    BY <1>13 DEF found, to
  <2> QED BY <2>1
<1> HIDE DEF found
<1>18. SubSeq(lines, found[1], found[2]) = block
  BY <1>16, <1>17
<1> QED BY <1>18 DEF found, lines, block

\* The decoys of a case.
IsDecoyed(in) ==
  /\ AreSources(in.files) /\ in.count \in Nat
  /\ IsList(in.order) /\ Range(in.order) \subseteq DOMAIN in.files
  /\ \A i \in 1..in.count : in.places[i] \in Int

\* What is said of the decoys of a case.
LEMMA DecoysSound ==
  ASSUME NEW in, IsDecoyed(in), NEW value, value = Decoyed(in),
         NEW i \in DOMAIN value.planted.decoys
  PROVE  LET d == value.planted.decoys[i]
             file == value.planted.files[d.file]
         IN SubSeq(file.lines, d.at[1], d.at[2]) = C!Block(file.lang, d.kind, d.fn)
<1> DEFINE end == C!Planting(in.files, in.count, in.order, in.kinds, in.places)
           planted == C!PlantAll(in.files, in.count, in.order, in.kinds, in.places)
           was == end.decoys[i]
           d == value.planted.decoys[i]
           file == end.files[was.file]
           kind == was.kind
           fn == was.fn
           at == C!Locate(file, fn, kind)
<1>1. value.planted = planted
  BY DEF Decoyed
<1>2. planted = [files |-> end.files,
                 decoys |-> [k \in DOMAIN end.decoys |->
                     [end.decoys[k] EXCEPT !.at = C!Locate(end.files[end.decoys[k].file],
                                                           end.decoys[k].fn, end.decoys[k].kind)]]]
  BY DEF C!PlantAll
<1>3. IsPlanted(end, in.files, in.count)
  <2>1. /\ AreSources(in.files) /\ in.count \in Nat
        /\ IsList(in.order) /\ Range(in.order) \subseteq DOMAIN in.files
        /\ \A k \in 1..in.count : in.places[k] \in Int
    BY DEF IsDecoyed
  <2> QED BY <2>1, PlantedWhole
<1> HIDE DEF end, planted
<1>4. i \in DOMAIN end.decoys /\ value.planted.files = end.files /\ d = [was EXCEPT !.at = at]
  BY <1>1, <1>2
<1>5. was \in Range(end.decoys)
  BY <1>4 DEF Range
<1> HIDE DEF was
<1>6. /\ was = [file |-> was.file, kind |-> was.kind, fn |-> was.fn, at |-> was.at]
      /\ was.file \in DOMAIN in.files /\ \E a : WholeAt(file, kind, fn, a)
  BY <1>3, <1>5 DEF IsPlanted
<1>7. IsSource(file, in.count) /\ in.count \in Nat
  BY <1>3, <1>6 DEF IsPlanted, IsDecoyed
<1>8. d.file = was.file /\ d.kind = kind /\ d.fn = fn /\ d.at = at
  <2> HIDE DEF at, d
  <2> QED BY <1>4, <1>6
<1> HIDE DEF file, kind, fn, d
<1>9. SubSeq(file.lines, at[1], at[2]) = C!Block(file.lang, kind, fn)
  BY <1>6, <1>7, LocateFinds
<1> HIDE DEF at
<1>10. value.planted.files[d.file] = file
  BY <1>4, <1>8 DEF file
<1>11. SubSeq(value.planted.files[d.file].lines, d.at[1], d.at[2])
           = C!Block(value.planted.files[d.file].lang, d.kind, d.fn)
  BY <1>8, <1>9, <1>10
<1> QED BY <1>11 DEF d

\* What the code says of the decoys it planted, of a case.
LEMMA DecoysAnswerSound ==
  ASSUME Answered("canaries"), asked.in \in Given("canaries"), answer.value = Decoyed(asked.in)
  PROVE  DecoysStayWhole
<1>1. IsDecoyed(asked.in)
  BY DecoysAssumption DEF IsDecoyed, AreSources, IsSource
<1> DEFINE in == asked.in
           value == answer.value
<1>2. IsDecoyed(in) /\ value = Decoyed(in)
  BY <1>1
<1> HIDE DEF in, value
<1>3. \A i \in DOMAIN value.planted.decoys :
          LET d == value.planted.decoys[i]
              file == value.planted.files[d.file]
          IN SubSeq(file.lines, d.at[1], d.at[2]) = C!Block(file.lang, d.kind, d.fn)
  BY <1>2, DecoysSound
<1> QED BY <1>3 DEF DecoysStayWhole, value

\* Every decoy is whole in the file it was planted in, at the lines that are kept of it,
\* whatever was planted after it (canary.plant_all, plant, locate).
THEOREM DecoysAreWhole == Spec => []DecoysStayWhole
<1>1. Inv => DecoysStayWhole
  <2> SUFFICES ASSUME Inv, Answered("canaries") PROVE DecoysStayWhole
    BY DEF DecoysStayWhole
  <2>1. asked.in \in Given("canaries") /\ answer.value = Decoyed(asked.in)
    BY AnsweredAsFound DEF ResultOf
  <2> QED BY <2>1, DecoysAnswerSound
<1> QED BY <1>1, InvHolds, PTL

(***************************************************************************)
(* GitHub: a call that is not answered tells nothing.                      *)
(***************************************************************************)

\* A client that keeps to its budget and holds no answer to a call that fails.
Keeps(gh, budget, world) ==
    /\ gh = [calls |-> gh.calls, failed |-> gh.failed, budget |-> budget, cache |-> gh.cache]
    /\ gh.calls \in Nat /\ gh.calls <= budget /\ gh.failed \in BOOLEAN
    /\ gh.cache \cap world.fails = {}

\* A new client does.
LEMMA ClientKeeps ==
  ASSUME NEW budget \in Nat, NEW world
  PROVE  Keeps(L!Client(budget), budget, world)
BY DEF L!Client, Keeps

\* What a call is answered is what GitHub would say; a client that has not failed was
\* answered whatever it asked.
LEMMA CallsAreAnswered ==
  ASSUME NEW budget \in Nat, NEW world, NEW gh, Keeps(gh, budget, world), NEW path
  PROVE  LET a == L!Get(gh, world, path)
         IN /\ Keeps(a.gh, budget, world)
            /\ IF a.gh.failed THEN a.answer = L!Absent
               ELSE ~gh.failed /\ path \notin world.fails /\ a.answer = world.truth[path]
<1> DEFINE a == L!Get(gh, world, path)
           State(c, f, h) == [calls |-> c, failed |-> f, budget |-> budget, cache |-> h]
<1>1. PICK calls, failed, cache :
          /\ gh = State(calls, failed, cache) /\ calls \in Nat /\ failed \in BOOLEAN
          /\ calls <= budget /\ cache \cap world.fails = {}
  BY DEF Keeps
<1>2. /\ gh.calls = calls /\ gh.failed = failed /\ gh.budget = budget /\ gh.cache = cache
  BY <1>1
<1> DEFINE called == [gh EXCEPT !.calls = @ + 1]
           more == cache \cup {path}
<1>3. /\ [gh EXCEPT !.failed = TRUE] = State(calls, TRUE, cache)
      /\ [called EXCEPT !.failed = TRUE] = State(calls + 1, TRUE, cache)
      /\ [called EXCEPT !.cache = @ \cup {path}] = State(calls + 1, failed, more)
  <2> DEFINE new == [called EXCEPT !.cache = @ \cup {path}]
             yes == TRUE
             next == calls + 1
  <2>1. gh = State(calls, failed, cache)
    BY <1>1
  <2>2. called = State(next, failed, cache) /\ called.cache = cache
    <3> DEFINE n == gh.calls + 1
    <3>1. called = [gh EXCEPT !.calls = n] /\ n = next
      BY <1>2
    <3> HIDE DEF n, next, called
    <3>2. [gh EXCEPT !.calls = n] = State(n, failed, cache)
      BY <2>1
    <3> QED BY <3>1, <3>2
  <2> HIDE DEF called, yes, next
  <2>3. [gh EXCEPT !.failed = yes] = State(calls, yes, cache)
    BY <2>1
  <2>4. [called EXCEPT !.failed = yes] = State(next, yes, cache)
    BY <2>2
  <2>5. [called EXCEPT !.cache = more] = State(next, failed, more)
    BY <2>2
  <2>6. new = [called EXCEPT !.cache = more]
    BY <2>2
  <2> HIDE DEF State, more
  <2> QED BY <2>3, <2>4, <2>5, <2>6 DEF yes, next
<1> HIDE DEF called, more
<1>4. ASSUME NEW c \in Nat, NEW f \in BOOLEAN, NEW h, c <= budget, h \cap world.fails = {}
      PROVE  Keeps(State(c, f, h), budget, world) /\ State(c, f, h).failed = f
  <2> DEFINE new == State(c, f, h)
  <2>1. new.calls = c /\ new.failed = f /\ new.cache = h
    OBVIOUS
  <2>2. new = State(new.calls, new.failed, new.cache)
    BY <2>1
  <2>3. new = [calls |-> new.calls, failed |-> new.failed, budget |-> budget, cache |-> new.cache]
    BY <2>2
  <2> HIDE DEF new
  <2> QED BY <1>4, <2>1, <2>3 DEF Keeps, new
<1> HIDE DEF State
<1>5. CASE failed
  <2>1. a = [gh |-> gh, answer |-> L!Absent]
    BY <1>2, <1>5 DEF L!Get
  <2>2. a.gh = gh /\ a.answer = L!Absent
    BY <2>1
  <2> QED BY <1>2, <1>5, <2>2
<1>6. CASE ~failed /\ path \in cache
  <2>1. a = [gh |-> gh, answer |-> world.truth[path]]
    BY <1>2, <1>6 DEF L!Get
  <2> QED BY <1>1, <1>2, <1>6, <2>1
<1>7. CASE ~failed /\ path \notin cache /\ calls >= budget
  <2>1. a = [gh |-> State(calls, TRUE, cache), answer |-> L!Absent]
    BY <1>2, <1>3, <1>7 DEF L!Get
  <2>2. Keeps(State(calls, TRUE, cache), budget, world) /\ State(calls, TRUE, cache).failed
    BY <1>1, <1>4
  <2>3. a.gh = State(calls, TRUE, cache) /\ a.answer = L!Absent
    BY <2>1
  <2> QED BY <2>2, <2>3
<1>8. CASE ~failed /\ path \notin cache /\ ~(calls >= budget)
  <2>1. calls + 1 \in Nat /\ calls + 1 <= budget
    BY <1>1, <1>8
  <2>2. CASE path \in world.fails
    <3>1. a = [gh |-> State(calls + 1, TRUE, cache), answer |-> L!Absent]
      BY <1>2, <1>3, <1>8, <2>2 DEF L!Get, called
    <3>2. Keeps(State(calls + 1, TRUE, cache), budget, world) /\ State(calls + 1, TRUE, cache).failed
      BY <1>1, <1>4, <2>1
    <3>3. a.gh = State(calls + 1, TRUE, cache) /\ a.answer = L!Absent
      BY <3>1
    <3> QED BY <3>2, <3>3
  <2>3. CASE path \notin world.fails
    <3>1. a = [gh |-> State(calls + 1, failed, more), answer |-> world.truth[path]]
      BY <1>2, <1>3, <1>8, <2>3 DEF L!Get, called
    <3>2. more \cap world.fails = {}
      BY <1>1, <2>3 DEF more
    <3>3. /\ Keeps(State(calls + 1, failed, more), budget, world)
          /\ State(calls + 1, failed, more).failed = failed
      BY <1>1, <1>4, <2>1, <3>2
    <3> QED BY <1>2, <1>8, <2>3, <3>1, <3>3
  <2> QED BY <2>2, <2>3
<1> QED BY <1>5, <1>6, <1>7, <1>8

\* Protection is known only if all three calls were answered.
LEMMA ProtectionIsTold ==
  ASSUME NEW budget \in Nat, NEW world, NEW gh, Keeps(gh, budget, world)
  PROVE  LET p == L!Protection(gh, world)
         IN /\ Keeps(p.gh, budget, world)
            /\ p.protection.known =>
                   /\ \A k \in {"repo", "branch", "rules"} : <<k>> \notin world.fails
                   /\ p.protection.protected <=>
                          \E k \in {"branch", "rules"} : world.truth[<<k>>].found
                                                         /\ world.truth[<<k>>].protected
<1> DEFINE p == L!Protection(gh, world)
           info == L!Get(gh, world, <<"repo">>)
           branch == L!Get(info.gh, world, <<"branch">>)
           rules == L!Get(branch.gh, world, <<"rules">>)
           count(c) == IF c.answer.found THEN c.answer.reviews ELSE 0
           isProtected == \/ branch.answer.found /\ branch.answer.protected
                          \/ rules.answer.found /\ rules.answer.protected
           known == [known |-> TRUE, protected |-> isProtected,
                     reviews |-> IF count(branch) > count(rules) THEN count(branch)
                                 ELSE count(rules)]
<1>1. p = IF ~info.answer.found THEN [gh |-> info.gh, protection |-> L!Unknown]
          ELSE [gh |-> rules.gh, protection |-> IF rules.gh.failed THEN L!Unknown ELSE known]
  BY DEF L!Protection
<1>2. /\ Keeps(info.gh, budget, world)
      /\ ~info.gh.failed => <<"repo">> \notin world.fails
  BY CallsAreAnswered
<1>3. /\ Keeps(branch.gh, budget, world)
      /\ ~branch.gh.failed => /\ ~info.gh.failed /\ <<"branch">> \notin world.fails
                              /\ branch.answer = world.truth[<<"branch">>]
  <2> HIDE DEF info
  <2> QED BY <1>2, CallsAreAnswered
<1>4. /\ Keeps(rules.gh, budget, world)
      /\ ~rules.gh.failed => /\ ~branch.gh.failed /\ <<"rules">> \notin world.fails
                             /\ rules.answer = world.truth[<<"rules">>]
  <2> HIDE DEF branch
  <2> QED BY <1>3, CallsAreAnswered
<1> HIDE DEF p, info, branch, rules
<1>5. CASE ~info.answer.found
  BY <1>1, <1>2, <1>5 DEF L!Unknown, p
<1>6. CASE info.answer.found /\ rules.gh.failed
  BY <1>1, <1>4, <1>6 DEF L!Unknown, p
<1>7. CASE info.answer.found /\ ~rules.gh.failed
  <2>1. p = [gh |-> rules.gh, protection |-> known]
    BY <1>1, <1>7
  <2>2. p.gh = rules.gh /\ p.protection.protected = isProtected
    <3> HIDE DEF isProtected
    <3> QED BY <2>1
  <2>3. isProtected <=> \E k \in {"branch", "rules"} : world.truth[<<k>>].found
                                                       /\ world.truth[<<k>>].protected
    BY <1>3, <1>4, <1>7
  <2> HIDE DEF isProtected, known
  <2>4. \A k \in {"repo", "branch", "rules"} : <<k>> \notin world.fails
    BY <1>2, <1>3, <1>4, <1>7
  <2> QED BY <1>4, <2>2, <2>3, <2>4 DEF p
<1> QED BY <1>5, <1>6, <1>7

\* What is said of the review of a commit is what GitHub would say.
IsReview(world, sha, r) ==
    LET pull == world.truth[<<"pulls", sha>>]
    IN /\ <<"pulls", sha>> \notin world.fails /\ r.pr = pull.pr
       /\ r.approved => /\ <<"reviews", pull.pr>> \notin world.fails
                        /\ \E u \in world.truth[<<"reviews", pull.pr>>].approvers :
                               u # pull.author

\* A review is told only if its calls were answered.
LEMMA ReviewIsTold ==
  ASSUME NEW budget \in Nat, NEW world, NEW gh, Keeps(gh, budget, world), NEW sha
  PROVE  LET r == L!Review(gh, world, sha)
         IN /\ Keeps(r.gh, budget, world)
            /\ r.review.said => IsReview(world, sha, r.review)
<1> DEFINE r == L!Review(gh, world, sha)
           pulls == L!Get(gh, world, <<"pulls", sha>>)
           reviews == L!Get(pulls.gh, world, <<"reviews", pulls.answer.pr>>)
           others == reviews.answer.approvers \ {pulls.answer.author}
<1>1. r = IF ~pulls.answer.found THEN [gh |-> pulls.gh, review |-> L!NoReview]
          ELSE IF pulls.answer.pr = 0
               THEN [gh |-> pulls.gh, review |-> [said |-> TRUE, pr |-> 0, approved |-> FALSE]]
          ELSE IF ~reviews.answer.found THEN [gh |-> reviews.gh, review |-> L!NoReview]
          ELSE [gh |-> reviews.gh,
                review |-> [said |-> TRUE, pr |-> pulls.answer.pr, approved |-> others # {}]]
  BY DEF L!Review
<1>2. /\ Keeps(pulls.gh, budget, world)
      /\ pulls.answer.found => /\ <<"pulls", sha>> \notin world.fails
                               /\ pulls.answer = world.truth[<<"pulls", sha>>]
  BY CallsAreAnswered DEF L!Absent
<1>3. /\ Keeps(reviews.gh, budget, world)
      /\ reviews.answer.found =>
             /\ <<"reviews", pulls.answer.pr>> \notin world.fails
             /\ reviews.answer = world.truth[<<"reviews", pulls.answer.pr>>]
  <2> HIDE DEF pulls
  <2> QED BY <1>2, CallsAreAnswered DEF L!Absent
<1> HIDE DEF r, pulls, reviews
<1>4. CASE ~pulls.answer.found
  BY <1>1, <1>2, <1>4 DEF L!NoReview, r
<1>5. CASE pulls.answer.found /\ pulls.answer.pr = 0
  BY <1>1, <1>2, <1>5 DEF IsReview, r
<1>6. CASE pulls.answer.found /\ pulls.answer.pr # 0 /\ ~reviews.answer.found
  BY <1>1, <1>3, <1>6 DEF L!NoReview, r
<1>7. CASE pulls.answer.found /\ pulls.answer.pr # 0 /\ reviews.answer.found
  <2> DEFINE review == [said |-> TRUE, pr |-> pulls.answer.pr, approved |-> others # {}]
  <2>1. r.gh = reviews.gh /\ r.review = review
    BY <1>1, <1>7
  <2>2. review.pr = pulls.answer.pr /\ (review.approved <=> others # {})
    <3> HIDE DEF others
    <3> QED OBVIOUS
  <2>3. IsReview(world, sha, review)
    <3> HIDE DEF review
    <3> QED BY <1>2, <1>3, <1>7, <2>2 DEF IsReview
  <2> HIDE DEF review
  <2> QED BY <1>3, <2>1, <2>3 DEF r
<1> QED BY <1>4, <1>5, <1>6, <1>7

(***************************************************************************)
(* One review after another.                                               *)
(***************************************************************************)

\* The reviews told so far are those that GitHub would tell of.
Tells(s, budget, world) ==
    /\ s = [gh |-> s.gh, reviews |-> s.reviews] /\ Keeps(s.gh, budget, world)
    /\ \A sha \in DOMAIN s.reviews : IsReview(world, sha, s.reviews[sha])

\* One more question keeps them so.
LEMMA OneMoreIsTold ==
  ASSUME NEW budget \in Nat, NEW world, NEW s, Tells(s, budget, world), NEW sha
  PROVE  Tells(L!AskReview(world, s, sha), budget, world)
<1> DEFINE r == L!Review(s.gh, world, sha)
           more == [x \in DOMAIN s.reviews \cup {sha} |-> IF x = sha THEN r.review
                                                          ELSE s.reviews[x]]
           reviews == IF ~r.review.said THEN s.reviews ELSE more
           t == L!AskReview(world, s, sha)
<1>1. t = IF sha \in DOMAIN s.reviews \/ s.gh.failed THEN s
          ELSE [gh |-> r.gh, reviews |-> reviews]
  BY DEF L!AskReview
<1>2. /\ Keeps(r.gh, budget, world)
      /\ r.review.said => IsReview(world, sha, r.review)
  BY ReviewIsTold DEF Tells
<1>3. \A x \in DOMAIN reviews : IsReview(world, x, reviews[x])
  <2>1. \A x \in DOMAIN s.reviews : IsReview(world, x, s.reviews[x])
    BY DEF Tells
  <2> HIDE DEF r
  <2>2. r.review.said => \A x \in DOMAIN more : IsReview(world, x, more[x])
    BY <1>2, <2>1
  <2> HIDE DEF more
  <2> QED BY <2>1, <2>2
<1> HIDE DEF t, r, reviews
<1>4. CASE sha \in DOMAIN s.reviews \/ s.gh.failed
  BY <1>1, <1>4 DEF t
<1>5. CASE ~(sha \in DOMAIN s.reviews \/ s.gh.failed)
  <2>1. t = [gh |-> r.gh, reviews |-> reviews]
    BY <1>1, <1>5
  <2>2. Tells(t, budget, world)
    BY <1>2, <1>3, <2>1 DEF Tells
  <2> QED BY <2>2 DEF t
<1> QED BY <1>4, <1>5

\* The states between the reviews that are asked for.
LEMMA AskingUnfolds ==
  ASSUME NEW world, NEW gh, NEW shas, NEW n \in Nat, n = Len(shas)
  PROVE  \E at : /\ at[0] = [gh |-> gh, reviews |-> <<>>]
                 /\ \A k \in 1..n : at[k] = L!AskReview(world, at[k - 1], shas[k])
                 /\ L!AskReviews(world, gh, shas) = at[n]
<1> DEFINE base == [gh |-> gh, reviews |-> <<>>]
           Rec(at, m) == at = [k \in 0..m |-> IF k = 0 THEN base
                                              ELSE L!AskReview(world, at[k - 1], shas[k])]
           Nums == {m \in Nat : \E at : Rec(at, m)}
<1>1. 0 \in Nums
  <2> DEFINE one == [k \in 0..0 |-> base]
  <2>1. Rec(one, 0)
    <3> HIDE DEF base
    <3> QED OBVIOUS
  <2> QED BY <2>1
<1>2. ASSUME NEW m \in Nat, m \in Nums PROVE m + 1 \in Nums
  <2>1. PICK at : Rec(at, m)
    BY <1>2
  <2> DEFINE new == [k \in 0..m + 1 |-> IF k = m + 1 THEN L!AskReview(world, at[m], shas[k])
                                        ELSE at[k]]
  <2>2. ASSUME NEW k \in 0..m + 1
        PROVE  new[k] = IF k = 0 THEN base ELSE L!AskReview(world, new[k - 1], shas[k])
    <3> HIDE DEF base
    <3>1. CASE k = m + 1
      <4>1. new[k - 1] = at[m] /\ k # 0
        BY <3>1
      <4> QED BY <4>1, <3>1
    <3>2. CASE k \in 0..m
      <4>1. new[k] = at[k]
        BY <3>2
      <4>2. at[k] = IF k = 0 THEN base ELSE L!AskReview(world, at[k - 1], shas[k])
        BY <2>1, <3>2
      <4>3. k # 0 => new[k - 1] = at[k - 1]
        BY <3>2
      <4> QED BY <4>1, <4>2, <4>3
    <3> QED BY <3>1, <3>2
  <2>3. new = [k \in 0..m + 1 |-> new[k]]
    OBVIOUS
  <2> HIDE DEF new, base
  <2>4. Rec(new, m + 1)
    BY <2>2, <2>3
  <2> HIDE DEF Rec
  <2> QED BY <2>4
<1>3. n \in Nums
  <2> HIDE DEF Nums
  <2> QED BY <1>1, <1>2, NatInductionOnSets
<1>4. PICK any : Rec(any, n)
  BY <1>3
<1> DEFINE at == CHOOSE at : Rec(at, n)
<1>5. Rec(at, n)
  BY <1>4
<1>6. L!AskReviews(world, gh, shas) = at[n]
  BY DEF L!AskReviews
<1>7. \A k \in 0..n : at[k] = IF k = 0 THEN base ELSE L!AskReview(world, at[k - 1], shas[k])
  <2> HIDE DEF base
  <2> QED BY <1>5
<1> HIDE DEF at, base
<1>8. at[0] = base /\ \A k \in 1..n : at[k] = L!AskReview(world, at[k - 1], shas[k])
  BY <1>7
<1> QED BY <1>6, <1>8 DEF base

\* However many are asked for, all that are told are as GitHub would tell them.
LEMMA AllAreTold ==
  ASSUME NEW budget \in Nat, NEW world, NEW gh, Keeps(gh, budget, world),
         NEW shas, Len(shas) \in Nat
  PROVE  Tells(L!AskReviews(world, gh, shas), budget, world)
<1> DEFINE n == Len(shas)
<1>1. PICK at : /\ at[0] = [gh |-> gh, reviews |-> <<>>]
                /\ \A k \in 1..n : at[k] = L!AskReview(world, at[k - 1], shas[k])
                /\ L!AskReviews(world, gh, shas) = at[n]
  BY AskingUnfolds
<1> DEFINE Nums == {m \in Nat : m <= n => Tells(at[m], budget, world)}
<1>2. 0 \in Nums
  <2>1. at[0].gh = gh /\ DOMAIN at[0].reviews = {} /\ at[0] = [gh |-> at[0].gh, reviews |-> at[0].reviews]
    BY <1>1
  <2> QED BY <2>1 DEF Tells
<1>3. ASSUME NEW m \in Nat, m \in Nums PROVE m + 1 \in Nums
  <2>1. SUFFICES ASSUME m + 1 <= n PROVE Tells(at[m + 1], budget, world)
    OBVIOUS
  <2>2. m + 1 \in 1..n /\ (m + 1) - 1 = m /\ Tells(at[m], budget, world)
    BY <1>3, <2>1
  <2>3. at[m + 1] = L!AskReview(world, at[m], shas[m + 1])
    BY <1>1, <2>2
  <2> QED BY <2>2, <2>3, OneMoreIsTold
<1>4. n \in Nums
  <2> HIDE DEF Nums
  <2> QED BY <1>2, <1>3, NatInductionOnSets
<1> QED BY <1>1, <1>4

\* What Leverage counts and joins is what is counted and joined here.
LEMMA SameCountOf == ASSUME NEW s PROVE L!Cardinality(s) = Cardinality(s)
BY DEF L!Cardinality, Cardinality

LEMMA SameFlat == ASSUME NEW s PROVE L!FlattenSeq(s) = FlattenSeq(s)
BY DEF L!FlattenSeq, FlattenSeq

\* A list's numbers are finitely many.
LEMMA NumbersOfList ==
  ASSUME NEW s, IsList(s), NEW some \in SUBSET DOMAIN s
  PROVE  Cardinality(some) \in Nat
<1>1. DOMAIN s = 1..Len(s) /\ Len(s) \in Nat
  BY DEF IsList
<1>2. IsFiniteSet(1..Len(s))
  BY <1>1, FS_Interval
<1> QED BY <1>1, <1>2, FS_Subset, FS_CardinalityType

\* The last commits of a file are a list of three at most.
LEMMA RecentIsList ==
  ASSUME NEW commits, NEW numbers, IsList(numbers), DOMAIN commits = DOMAIN numbers, NEW name
  PROVE  \E n \in Nat : DOMAIN L!Recent(commits, name) = 1..n
<1> DEFINE some == {i \in DOMAIN commits : name \in commits[i].files}
           of == L!Ranked(some, {p \in (DOMAIN commits) \X (DOMAIN commits) : p[1] < p[2]})
<1>1. L!Cardinality(some) \in Nat
  <2>1. some \in SUBSET DOMAIN numbers
    OBVIOUS
  <2> HIDE DEF some
  <2> QED BY <2>1, NumbersOfList, SameCountOf
<1>2. DOMAIN of = 1..L!Cardinality(some) /\ Len(of) = L!Cardinality(some)
  <2> HIDE DEF some
  <2> QED BY <1>1 DEF L!Ranked
<1>3. L!AtMost(L!PerFile, Len(of)) \in Nat
  BY <1>1, <1>2 DEF L!AtMost, L!PerFile
<1>4. DOMAIN L!Recent(commits, name) = 1..L!AtMost(L!PerFile, Len(of))
  BY DEF L!Recent
<1> QED BY <1>3, <1>4

(***************************************************************************)
(* What is said of the reviews of a repository.                            *)
(***************************************************************************)

\* A function on some first numbers is a list of its values.
LEMMA ListWithin ==
  ASSUME NEW Vals, NEW m \in Nat, NEW s \in [1..m -> Vals]
  PROVE  s \in Seq(Vals)
OBVIOUS

\* The commits that are asked about are listed, in whatever order files have leverage.
LEMMA AskedIsList ==
  ASSUME NEW files, IsList(files), NEW numbers, IsList(numbers),
         NEW commits, DOMAIN commits = DOMAIN numbers, NEW leverage
  PROVE  Len(L!ToReview(files, commits, leverage)) \in Nat
<1> DEFINE before == {p \in (DOMAIN files) \X (DOMAIN files) :
                         \/ leverage[p[1]].score > leverage[p[2]].score
                         \/ leverage[p[1]].score = leverage[p[2]].score /\ p[1] < p[2]}
           great == {i \in DOMAIN files : leverage[i].score >= 60}
           top == L!Ranked(great, before)
           recent(k) == L!Recent(commits, files[top[k]].name)
           n == L!AtMost(L!ReviewedFiles, Len(top))
           list(k) == [c \in DOMAIN recent(k) |-> recent(k)[c].sha]
           lists == [k \in 1..n |-> list(k)]
           Shas == UNION {{recent(k)[c].sha : c \in DOMAIN recent(k)} : k \in 1..n}
<1>1. L!ToReview(files, commits, leverage) = L!FlattenSeq(lists)
  BY DEF L!ToReview
<1>2. n \in Nat
  <2>1. L!Cardinality(great) \in Nat
    <3>1. great \in SUBSET DOMAIN files
      OBVIOUS
    <3> HIDE DEF great
    <3> QED BY <3>1, NumbersOfList, SameCountOf
  <2>2. Len(top) = L!Cardinality(great)
    <3> HIDE DEF great, before
    <3> QED BY <2>1 DEF L!Ranked
  <2> HIDE DEF top
  <2> QED BY <2>1, <2>2 DEF L!AtMost, L!ReviewedFiles
<1>3. ASSUME NEW k \in 1..n PROVE list(k) \in Seq(Shas)
  <2> DEFINE own == recent(k)
             there == {own[c].sha : c \in DOMAIN own}
             mine == list(k)
  <2>1. there \subseteq Shas
    <3> DEFINE At(l) == {recent(l)[c].sha : c \in DOMAIN recent(l)}
    <3>1. there = At(k) /\ Shas = UNION {At(l) : l \in 1..n}
      OBVIOUS
    <3> HIDE DEF At, there, Shas, n
    <3> QED BY <3>1
  <2>2. PICK m \in Nat : DOMAIN own = 1..m
    BY RecentIsList
  <2>3. mine = [c \in 1..m |-> own[c].sha]
    BY <2>2
  <2> HIDE DEF own, Shas, mine
  <2>4. \A c \in 1..m : mine[c] \in Shas
    BY <2>1, <2>2, <2>3
  <2>5. mine \in [1..m -> Shas]
    BY <2>3, <2>4
  <2>6. mine \in Seq(Shas)
    BY <2>5, ListWithin
  <2> QED BY <2>6 DEF mine
<1> HIDE DEF n, list, Shas
<1>4. lists \in Seq(Seq(Shas))
  BY <1>2, <1>3
<1> HIDE DEF lists
<1>5. FlattenSeq(lists) \in Seq(Shas)
  BY <1>4, FlattenMembers
<1> QED BY <1>1, <1>5, SameFlat

\* What the map of leverage says of GitHub.
LEMMA LeverageSound ==
  ASSUME NEW in, IsList(in.files), IsList(in.commits), in.budget \in Nat
  PROVE  LET value == L!AnalyzeLeverage(in)
             truth == in.world.truth
         IN /\ value.gh.calls <= in.budget
            /\ value.protection.known =>
                   /\ \A k \in {"repo", "branch", "rules"} : <<k>> \notin in.world.fails
                   /\ value.protection.protected <=>
                          \E k \in {"branch", "rules"} : truth[<<k>>].found /\ truth[<<k>>].protected
            /\ \A sha \in DOMAIN value.reviews : IsReview(in.world, sha, value.reviews[sha])
<1> DEFINE value == L!AnalyzeLeverage(in)
           commits == L!TagPullRequests(in.commits)
           leverage == [i \in DOMAIN in.files |-> L!LeverageOf(in.files[i])]
           client == L!Client(in.budget)
           guard == IF in.token THEN L!Protection(client, in.world)
                    ELSE [gh |-> client, protection |-> L!Unknown]
           shas == L!ToReview(in.files, commits, leverage)
           told == IF in.token THEN L!AskReviews(in.world, guard.gh, shas)
                   ELSE [gh |-> guard.gh, reviews |-> <<>>]
<1>1. /\ value.gh = told.gh /\ value.reviews = told.reviews
      /\ value.protection = guard.protection
  BY DEF L!AnalyzeLeverage
<1>2. Keeps(client, in.budget, in.world)
  BY ClientKeeps
<1> DEFINE Known(p) == p.known =>
               /\ \A k \in {"repo", "branch", "rules"} : <<k>> \notin in.world.fails
               /\ p.protected <=> \E k \in {"branch", "rules"} :
                      in.world.truth[<<k>>].found /\ in.world.truth[<<k>>].protected
<1>3. Keeps(guard.gh, in.budget, in.world) /\ Known(guard.protection)
  <2> HIDE DEF client
  <2>1. CASE in.token
    <3>1. guard = L!Protection(client, in.world)
      BY <2>1
    <3> HIDE DEF guard
    <3> QED BY <1>2, <3>1, ProtectionIsTold
  <2>2. CASE ~in.token
    <3>1. guard.gh = client /\ guard.protection = L!Unknown
      BY <2>2
    <3> HIDE DEF guard
    <3> QED BY <1>2, <3>1 DEF L!Unknown
  <2> QED BY <2>1, <2>2
<1>4. Len(shas) \in Nat
  <2>1. DOMAIN commits = DOMAIN in.commits
    BY DEF L!TagPullRequests
  <2> HIDE DEF commits, leverage
  <2> QED BY <2>1, AskedIsList
<1>5. Tells(told, in.budget, in.world)
  <2> HIDE DEF guard, shas
  <2>1. CASE in.token
    <3>1. told = L!AskReviews(in.world, guard.gh, shas)
      BY <2>1
    <3> HIDE DEF told
    <3> QED BY <1>3, <1>4, <3>1, AllAreTold
  <2>2. CASE ~in.token
    <3>1. /\ told = [gh |-> told.gh, reviews |-> told.reviews] /\ told.gh = guard.gh
          /\ DOMAIN told.reviews = {}
      BY <2>2
    <3> HIDE DEF told
    <3> QED BY <1>3, <3>1 DEF Tells
  <2> QED BY <2>1, <2>2
<1> HIDE DEF value, told, guard
<1>6. told.gh.calls <= in.budget
  BY <1>5 DEF Tells, Keeps
<1>7. \A sha \in DOMAIN told.reviews : IsReview(in.world, sha, told.reviews[sha])
  BY <1>5 DEF Tells
<1> QED BY <1>1, <1>3, <1>6, <1>7 DEF value

\* So what is answered of GitHub is what GitHub would say.
LEMMA LeverageAnswerSound ==
  ASSUME NEW in, in \in Given("leverage"), asked.in = in, answer.value = L!AnalyzeLeverage(in),
         Answered("leverage")
  PROVE  GitHubNeverGuessed
<1>1. IsList(in.files) /\ IsList(in.commits) /\ in.budget \in Nat
  BY LeverageAssumption
<1> DEFINE value == L!AnalyzeLeverage(in)
           told(k) == <<k>> \notin in.world.fails
<1>2. value.gh.calls <= in.budget
  BY <1>1, LeverageSound
<1>3. value.protection.known =>
          /\ told("repo") /\ told("branch") /\ told("rules")
          /\ value.protection.protected <=>
                 \E k \in {"branch", "rules"} : in.world.truth[<<k>>].found
                                                /\ in.world.truth[<<k>>].protected
  BY <1>1, LeverageSound
<1>4. \A sha \in DOMAIN value.reviews : IsReview(in.world, sha, value.reviews[sha])
  BY <1>1, LeverageSound
<1> HIDE DEF value
<1>5. answer.value = value
  BY DEF value
<1> QED BY <1>2, <1>3, <1>4, <1>5 DEF GitHubNeverGuessed, IsReview

\* Whether a branch is protected, and whether a commit was approved by another than its
\* author, is said only as GitHub would say it, whichever calls fail and whatever the
\* budget of calls, which is kept to (leverage.GitHub, analyze).
THEOREM ReviewsAreAsTold == Spec => []GitHubNeverGuessed
<1>1. Inv => GitHubNeverGuessed
  <2> SUFFICES ASSUME Inv, Answered("leverage") PROVE GitHubNeverGuessed
    BY DEF GitHubNeverGuessed
  <2>1. asked.in \in Given("leverage") /\ answer.value = L!AnalyzeLeverage(asked.in)
    BY AnsweredAsFound DEF ResultOf
  <2> QED BY <2>1, LeverageAnswerSound
<1> QED BY <1>1, InvHolds, PTL

===============================================================================
