----------------------------- MODULE AttackProofs -----------------------------
(***************************************************************************)
(* Proofs about what Analyses says of the attacker model: that the paths   *)
(* are cheapest, and that the recommended fixes cut what they are said to. *)
(***************************************************************************)
EXTENDS AnalysesProofs


(***************************************************************************)
(* Cheapest paths, and what cuts them.                                     *)
(***************************************************************************)

\* What the search goes through, as a set.
Nodes == Range(A!Places)

\* There are 21 places, the profiles start at some of them.
LEMMA PlacesAreListed ==
  /\ Len(A!Places) = 21 /\ DOMAIN A!Places = 1..21
  /\ IsFiniteSet(Nodes) /\ Cardinality(Nodes) \in Nat /\ Cardinality(Nodes) <= 21
  /\ \A n \in Nodes : A!Position[n] \in Nat
  /\ A!Personas \subseteq Nodes
<1>1. Len(A!Places) = 21 /\ DOMAIN A!Places = 1..21
  BY DEF A!Places
<1>2. Nodes = {A!Places[i] : i \in 1..21}
  BY <1>1 DEF Nodes, Range
<1>3. IsFiniteSet(1..21) /\ Cardinality(1..21) = 21
  <2> DEFINE one == 1
             all == 21
  <2>1. one \in Int /\ all \in Int /\ ~(one > all) /\ all - one + 1 = 21
    OBVIOUS
  <2> HIDE DEF one, all
  <2>2. IsFiniteSet(one..all) /\ Cardinality(one..all) = 21
    BY <2>1, FS_Interval
  <2> QED BY <2>2 DEF one, all
<1>4. IsFiniteSet(Nodes) /\ Cardinality(Nodes) <= 21
  <2> DEFINE place == [i \in 1..21 |-> A!Places[i]]
  <2>1. place \in Surjection(1..21, Nodes)
    BY <1>2 DEF Surjection
  <2> QED BY <2>1, <1>3, FS_Surjection
<1>5. ASSUME NEW n \in Nodes PROVE A!Position[n] \in Nat
  <2>1. n \in A!Range(A!Places) /\ \E i \in DOMAIN A!Places : A!Places[i] = n
    BY DEF A!Range, Nodes, Range
  <2>2. A!Position[n] = CHOOSE i \in DOMAIN A!Places : A!Places[i] = n
    BY <2>1 DEF A!Position
  <2>3. A!Position[n] \in 1..21
    <3> HIDE DEF Nodes
    <3> QED BY <2>1, <2>2, <1>1
  <2> QED BY <2>3
<1>6. A!Personas \subseteq Nodes
  <2>1. /\ A!Places[15] = "start:anonymous" /\ A!Places[16] = "start:authenticated_user"
        /\ A!Places[17] = "start:compromised_dependency"
        /\ A!Places[18] = "start:malicious_contributor"
        /\ A!Places[19] = "start:manipulated_agent"
    BY DEF A!Places
  <2> QED BY <2>1, <1>2 DEF A!Personas
<1>7. Cardinality(Nodes) \in Nat
  BY <1>4, FS_CardinalityType
<1> QED BY <1>1, <1>4, <1>5, <1>6, <1>7

\* The least of some numbers.
LEMMA LeastIs ==
  ASSUME NEW U \in SUBSET Nat, U # {}
  PROVE  A!Least(U) \in U /\ \A y \in U : A!Least(U) <= y
BY LeastNumber DEF A!Least

\* The trees of a search.
LEMMA CheapestUnfolds ==
  ASSUME NEW edges, NEW start, NEW allowed
  PROVE  \E tree : /\ tree[0] = [n \in {start} |-> [cost |-> 0, back |-> 0, rank |-> 0]]
                   /\ \A k \in 1..20 : tree[k] = A!Settle(edges, allowed, tree[k - 1], k)
                   /\ A!Cheapest(edges, start, allowed) = tree[20]
<1> DEFINE base == [n \in {start} |-> [cost |-> 0, back |-> 0, rank |-> 0]]
           Rec(tree, m) == tree = [k \in 0..m |-> IF k = 0 THEN base
                                                  ELSE A!Settle(edges, allowed, tree[k - 1], k)]
           Nums == {m \in Nat : \E tree : Rec(tree, m)}
<1>1. 0 \in Nums
  <2> DEFINE one == [k \in 0..0 |-> base]
  <2>1. Rec(one, 0)
    <3> HIDE DEF base
    <3> QED OBVIOUS
  <2> QED BY <2>1
<1>2. ASSUME NEW m \in Nat, m \in Nums PROVE m + 1 \in Nums
  <2>1. PICK tree : Rec(tree, m)
    BY <1>2
  <2> DEFINE new == [k \in 0..m + 1 |-> IF k = m + 1 THEN A!Settle(edges, allowed, tree[m], k)
                                        ELSE tree[k]]
  <2>2. ASSUME NEW k \in 0..m + 1
        PROVE  new[k] = IF k = 0 THEN base ELSE A!Settle(edges, allowed, new[k - 1], k)
    <3> HIDE DEF base
    <3>1. CASE k = m + 1
      <4>1. new[k - 1] = tree[m] /\ k # 0
        BY <3>1
      <4> QED BY <4>1, <3>1
    <3>2. CASE k \in 0..m
      <4>1. new[k] = tree[k]
        BY <3>2
      <4>2. tree[k] = IF k = 0 THEN base ELSE A!Settle(edges, allowed, tree[k - 1], k)
        BY <2>1, <3>2
      <4>3. k # 0 => new[k - 1] = tree[k - 1]
        BY <3>2
      <4> QED BY <4>1, <4>2, <4>3
    <3> QED BY <3>1, <3>2
  <2>3. new = [k \in 0..m + 1 |-> new[k]]
    OBVIOUS
  <2> HIDE DEF new, base
  <2>4. Rec(new, m + 1)
    BY <2>2, <2>3
  <2> HIDE DEF Rec
  <2> QED BY <2>4
<1>3. 20 \in Nums
  <2> HIDE DEF Nums
  <2> QED BY <1>1, <1>2, NatInductionOnSets
<1>4. PICK any : Rec(any, 20)
  BY <1>3
<1> DEFINE tree == CHOOSE tree : Rec(tree, 20)
<1>5. Rec(tree, 20)
  BY <1>4
<1>6. A!Cheapest(edges, start, allowed) = tree[20]
  <2>1. Len(A!Places) - 1 = 20
    BY PlacesAreListed
  <2> QED BY <2>1 DEF A!Cheapest
<1>7. \A k \in 0..20 : tree[k] = IF k = 0 THEN base ELSE A!Settle(edges, allowed, tree[k - 1], k)
  <2> HIDE DEF base
  <2> QED BY <1>5
<1> HIDE DEF tree, base
<1>8. tree[0] = base /\ \A k \in 1..20 : tree[k] = A!Settle(edges, allowed, tree[k - 1], k)
  BY <1>7
<1> QED BY <1>6, <1>8 DEF base

\* Steps between places that are known, at a cost; one that needs no flaw is certain, and
\* that of a finding costs something.
IsStep(e) == /\ e.from \in Nodes /\ e.to \in Nodes /\ e.cost \in Nat
             /\ e.structural => ~e.tentative
             /\ e.fix[1] = "finding" => e.cost # 0
AreSteps(edges) == IsList(edges) /\ \A e \in Range(edges) : IsStep(e)

\* What a search has settled: places that are reached by a step from a place that was
\* settled before, ...
Settled(edges, start, allowed, tree, k) ==
  /\ start \in DOMAIN tree /\ DOMAIN tree \subseteq Nodes
  /\ tree[start].cost = 0 /\ tree[start].back = 0 /\ tree[start].rank = 0
  /\ \A n \in DOMAIN tree : tree[n].cost \in Nat /\ tree[n].rank \in 0..k
  /\ \A n \in DOMAIN tree \ {start} :
         /\ tree[n].back \in allowed /\ edges[tree[n].back].to = n
         /\ edges[tree[n].back].from \in DOMAIN tree
         /\ tree[edges[tree[n].back].from].rank < tree[n].rank
         /\ tree[n].cost = tree[edges[tree[n].back].from].cost + edges[tree[n].back].cost

\* ... which no step undercuts, neither one between them nor one that leads out.
Tight(edges, allowed, tree) ==
  /\ \A i \in allowed : edges[i].from \in DOMAIN tree /\ edges[i].to \in DOMAIN tree =>
         tree[edges[i].to].cost <= tree[edges[i].from].cost + edges[i].cost
  /\ \A i \in A!Outgoing(edges, allowed, tree) : \A n \in DOMAIN tree :
         tree[n].cost <= A!CostBy(edges, tree, i)

\* One more place with every round, until no step leads out.
Grows(edges, allowed, tree, k) ==
  A!Outgoing(edges, allowed, tree) = {} \/ Cardinality(DOMAIN tree) = k + 1

\* There are lowest ones where there are any, and they are among them.
LEMMA LowestAre ==
  ASSUME NEW some, some # {}, NEW value, \A i \in some : value[i] \in Nat
  PROVE  A!Lowest(some, value) # {} /\ A!Lowest(some, value) \subseteq some
<1> DEFINE U == {value[i] : i \in some}
<1>1. U \in SUBSET Nat /\ U # {}
  OBVIOUS
<1>2. \A i \in some : value[i] \in U
  OBVIOUS
<1>3. ASSUME NEW u \in U PROVE \E i \in some : value[i] = u
  OBVIOUS
<1> HIDE DEF U
<1>4. A!Least(U) \in U /\ \A u \in U : A!Least(U) <= u
  BY <1>1, LeastIs
<1>5. PICK i \in some : value[i] = A!Least(U)
  BY <1>4, <1>3
<1>6. \A j \in some : value[i] <= value[j]
  BY <1>5, <1>4, <1>2
<1> QED BY <1>6 DEF A!Lowest

\* The step that is taken is the cheapest one that leads out.
LEMMA NearestIsCheapest ==
  ASSUME NEW edges, AreSteps(edges), NEW allowed \in SUBSET DOMAIN edges, NEW start, NEW k \in Nat,
         NEW tree, Settled(edges, start, allowed, tree, k),
         NEW out, out = A!Outgoing(edges, allowed, tree), out # {}
  PROVE  /\ A!Nearest(edges, tree, out) \in out
         /\ \A j \in out : /\ A!CostBy(edges, tree, j) \in Nat
                           /\ A!CostBy(edges, tree, A!Nearest(edges, tree, out)) <= A!CostBy(edges, tree, j)
<1> DEFINE cost == [j \in out |-> A!CostBy(edges, tree, j)]
           place == [j \in out |-> A!Position[edges[j].to]]
           rank == [j \in out |-> tree[edges[j].from].rank]
           near == A!Lowest(out, cost)
           there == A!Lowest(near, place)
           last == A!Lowest(there, rank)
<1>1. ASSUME NEW j \in out
      PROVE  j \in Nat /\ cost[j] \in Nat /\ place[j] \in Nat /\ rank[j] \in Nat
  <2>1. j \in DOMAIN edges /\ edges[j].from \in DOMAIN tree
    BY DEF A!Outgoing
  <2>2. edges[j].to \in Nodes /\ edges[j].cost \in Nat /\ j \in Nat
    BY <2>1 DEF AreSteps, IsStep, IsList, Range
  <2>3. tree[edges[j].from].cost \in Nat /\ tree[edges[j].from].rank \in Nat
    BY <2>1 DEF Settled
  <2> QED BY <2>1, <2>2, <2>3, PlacesAreListed DEF A!CostBy
<1>2. \A j \in out : cost[j] = A!CostBy(edges, tree, j)
  OBVIOUS
<1>3. A!Nearest(edges, tree, out) = A!Least(last)
  BY DEF A!Nearest
<1> HIDE DEF cost, place, rank, last
<1>4. near # {} /\ near \subseteq out
  BY <1>1, LowestAre
<1>5. \A i \in near : \A j \in out : cost[i] <= cost[j]
  BY DEF A!Lowest
<1> HIDE DEF near
<1>6. there # {} /\ there \subseteq near
  <2>1. \A i \in near : place[i] \in Nat
    BY <1>1, <1>4
  <2> QED BY <2>1, <1>4, LowestAre
<1> HIDE DEF there
<1>7. last # {} /\ last \subseteq there
  <2>1. \A i \in there : rank[i] \in Nat
    BY <1>1, <1>4, <1>6
  <2> QED BY <2>1, <1>6, LowestAre DEF last
<1>8. A!Least(last) \in last
  <2>1. last \in SUBSET Nat
    BY <1>1, <1>4, <1>6, <1>7
  <2> QED BY <2>1, <1>7, LeastIs
<1>9. A!Least(last) \in out /\ \A j \in out : cost[A!Least(last)] <= cost[j]
  BY <1>8, <1>7, <1>6, <1>4, <1>5
<1> QED BY <1>9, <1>3, <1>2, <1>1

\* A round keeps what has been settled, and settles one place more.
LEMMA SettleKeeps ==
  ASSUME NEW edges, AreSteps(edges), NEW allowed \in SUBSET DOMAIN edges, NEW start, NEW k \in Nat,
         NEW tree, Settled(edges, start, allowed, tree, k), Tight(edges, allowed, tree),
         Grows(edges, allowed, tree, k)
  PROVE  LET next == A!Settle(edges, allowed, tree, k + 1)
         IN /\ Settled(edges, start, allowed, next, k + 1) /\ Tight(edges, allowed, next)
            /\ Grows(edges, allowed, next, k + 1)
<1> DEFINE out == A!Outgoing(edges, allowed, tree)
           i == A!Nearest(edges, tree, out)
           to == edges[i].to
           from == edges[i].from
           entry == [cost |-> A!CostBy(edges, tree, i), back |-> i, rank |-> k + 1]
           new == [n \in DOMAIN tree \cup {to} |-> IF n \in DOMAIN tree THEN tree[n] ELSE entry]
           next == A!Settle(edges, allowed, tree, k + 1)
<1>1. CASE out = {}
  <2>1. next = tree
    BY <1>1 DEF A!Settle
  <2>2. \A r \in 0..k : r \in 0..k + 1
    OBVIOUS
  <2>3. Settled(edges, start, allowed, tree, k + 1)
    BY <2>2 DEF Settled
  <2>4. Grows(edges, allowed, tree, k + 1)
    BY <1>1 DEF Grows
  <2> HIDE DEF next, out
  <2> QED BY <2>1, <2>3, <2>4 DEF next
<1>2. CASE out # {}
  <2>1. next = new
    BY <1>2 DEF A!Settle, A!Join
  <2>2. /\ i \in out
        /\ \A j \in out : /\ A!CostBy(edges, tree, j) \in Nat
                          /\ A!CostBy(edges, tree, i) <= A!CostBy(edges, tree, j)
    <3> HIDE DEF out
    <3>1. out = A!Outgoing(edges, allowed, tree)
      BY DEF out
    <3> QED BY <3>1, <1>2, NearestIsCheapest
  <2>3. \A j \in allowed : /\ edges[j].from \in Nodes /\ edges[j].to \in Nodes /\ edges[j].cost \in Nat
                           /\ j \in Nat
    BY DEF AreSteps, IsStep, IsList, Range
  <2>4. i \in allowed /\ from \in DOMAIN tree /\ to \notin DOMAIN tree /\ to \in Nodes
    <3> HIDE DEF i
    <3> QED BY <2>2, <2>3 DEF A!Outgoing
  <2> DEFINE cost == A!CostBy(edges, tree, i)
  <2>5. cost \in Nat /\ cost = tree[from].cost + edges[i].cost
    BY <2>2 DEF A!CostBy
  <2>6. /\ DOMAIN new = DOMAIN tree \cup {to} /\ \A n \in DOMAIN tree : new[n] = tree[n]
        /\ new[to].cost = cost /\ new[to].back = i /\ new[to].rank = k + 1
    <3> HIDE DEF to, i
    <3> QED BY <2>4
  <2>7. \A n \in DOMAIN tree : tree[n].cost \in Nat /\ tree[n].rank \in 0..k
    BY DEF Settled
  <2> HIDE DEF new, next, cost, out, i
  <2>8. Settled(edges, start, allowed, new, k + 1)
    <3>1. start \in DOMAIN new /\ DOMAIN new \subseteq Nodes
      BY <2>6, <2>4 DEF Settled
    <3>2. new[start].cost = 0 /\ new[start].back = 0 /\ new[start].rank = 0
      BY <2>6 DEF Settled
    <3>3. \A n \in DOMAIN new : new[n].cost \in Nat /\ new[n].rank \in 0..k + 1
      BY <2>6, <2>5, <2>7
    <3>4. ASSUME NEW n \in DOMAIN new \ {start}
          PROVE  /\ new[n].back \in allowed /\ edges[new[n].back].to = n
                 /\ edges[new[n].back].from \in DOMAIN new
                 /\ new[edges[new[n].back].from].rank < new[n].rank
                 /\ new[n].cost = new[edges[new[n].back].from].cost + edges[new[n].back].cost
      <4>1. CASE n \in DOMAIN tree
        BY <4>1, <2>6 DEF Settled
      <4>2. CASE n = to
        <5>1. new[n].back = i /\ edges[i].to = n /\ edges[i].from = from
          BY <4>2, <2>6
        <5>2. new[from] = tree[from] /\ tree[from].rank \in 0..k
          BY <2>4, <2>6, <2>7
        <5>3. tree[from].rank < k + 1
          BY <5>2
        <5> QED BY <5>1, <5>2, <5>3, <2>4, <2>5, <2>6, <4>2
      <4> QED BY <4>1, <4>2, <2>6
    <3> QED BY <3>1, <3>2, <3>3, <3>4 DEF Settled
  <2>9. \A n \in DOMAIN tree : tree[n].cost <= cost
    BY <2>2 DEF Tight, out, cost
  <2>10. \A n \in DOMAIN new : new[n].cost <= cost /\ new[n].cost \in Nat
    BY <2>9, <2>6, <2>5, <2>7
  <2>11. ASSUME NEW j \in allowed, edges[j].from \in DOMAIN new,
                edges[j].from \in DOMAIN tree => edges[j].to \notin DOMAIN tree
         PROVE  cost <= new[edges[j].from].cost + edges[j].cost
    <3>1. CASE edges[j].from = to
      <4>1. new[edges[j].from].cost = cost
        BY <3>1, <2>6
      <4> QED BY <4>1, <2>3, <2>5
    <3>2. CASE edges[j].from \in DOMAIN tree
      <4>1. j \in out
        BY <2>11, <3>2 DEF out, A!Outgoing
      <4>2. A!CostBy(edges, tree, j) = new[edges[j].from].cost + edges[j].cost
        BY <3>2, <2>6 DEF A!CostBy
      <4> QED BY <4>1, <4>2, <2>2 DEF cost
    <3> QED BY <3>1, <3>2, <2>11, <2>6
  <2>12. Tight(edges, allowed, new)
    <3>1. ASSUME NEW j \in allowed, edges[j].from \in DOMAIN new, edges[j].to \in DOMAIN new
          PROVE  new[edges[j].to].cost <= new[edges[j].from].cost + edges[j].cost
      <4>1. CASE edges[j].from \in DOMAIN tree /\ edges[j].to \in DOMAIN tree
        <5>1. tree[edges[j].to].cost <= tree[edges[j].from].cost + edges[j].cost
          BY <4>1 DEF Tight
        <5> QED BY <5>1, <4>1, <2>6
      <4>2. CASE ~(edges[j].from \in DOMAIN tree /\ edges[j].to \in DOMAIN tree)
        <5>1. cost <= new[edges[j].from].cost + edges[j].cost
          BY <4>2, <3>1, <2>11
        <5>2. new[edges[j].to].cost <= cost /\ new[edges[j].to].cost \in Nat
          BY <3>1, <2>10
        <5>3. new[edges[j].from].cost \in Nat /\ edges[j].cost \in Nat
          BY <3>1, <2>10, <2>3
        <5> QED BY <5>1, <5>2, <5>3, <2>5
      <4> QED BY <4>1, <4>2
    <3>2. ASSUME NEW j \in A!Outgoing(edges, allowed, new), NEW n \in DOMAIN new
          PROVE  new[n].cost <= A!CostBy(edges, new, j)
      <4>1. j \in allowed /\ edges[j].from \in DOMAIN new /\ edges[j].to \notin DOMAIN new
        BY DEF A!Outgoing
      <4>2. cost <= new[edges[j].from].cost + edges[j].cost
        BY <4>1, <2>6, <2>11
      <4>3. new[n].cost <= cost /\ new[n].cost \in Nat
        BY <2>10
      <4>4. new[edges[j].from].cost \in Nat /\ edges[j].cost \in Nat
        BY <4>1, <2>10, <2>3
      <4>5. new[n].cost <= new[edges[j].from].cost + edges[j].cost
        BY <4>2, <4>3, <4>4, <2>5
      <4> QED BY <4>5 DEF A!CostBy
    <3> QED BY <3>1, <3>2 DEF Tight
  <2>13. Cardinality(DOMAIN new) = (k + 1) + 1
    <3>1. IsFiniteSet(DOMAIN tree)
      <4>1. DOMAIN tree \subseteq Nodes
        BY DEF Settled
      <4> QED BY <4>1, PlacesAreListed, FS_Subset
    <3>2. Cardinality(DOMAIN tree \cup {to}) = Cardinality(DOMAIN tree) + 1
      BY <3>1, <2>4, FS_AddElement
    <3>3. Cardinality(DOMAIN tree) = k + 1
      BY <1>2 DEF Grows, out
    <3> QED BY <3>2, <3>3, <2>6
  <2> QED BY <2>1, <2>8, <2>12, <2>13 DEF Grows, next
<1> QED BY <1>1, <1>2

\* The tree that a search ends with: nothing leads out of it, and no step undercuts it.
LEMMA CheapestIsTight ==
  ASSUME NEW edges, AreSteps(edges), NEW allowed \in SUBSET DOMAIN edges, NEW start \in Nodes
  PROVE  LET found == A!Cheapest(edges, start, allowed)
         IN /\ Settled(edges, start, allowed, found, 20) /\ Tight(edges, allowed, found)
            /\ A!Outgoing(edges, allowed, found) = {}
<1>1. PICK tree : /\ tree[0] = [n \in {start} |-> [cost |-> 0, back |-> 0, rank |-> 0]]
                  /\ \A k \in 1..20 : tree[k] = A!Settle(edges, allowed, tree[k - 1], k)
                  /\ A!Cheapest(edges, start, allowed) = tree[20]
  BY CheapestUnfolds
<1> DEFINE Good(k) == /\ Settled(edges, start, allowed, tree[k], k) /\ Tight(edges, allowed, tree[k])
                      /\ Grows(edges, allowed, tree[k], k)
           Nums == {k \in Nat : k \in 0..20 => Good(k)}
<1>2. 0 \in Nums
  <2> DEFINE one == tree[0]
  <2>1. DOMAIN one = {start} /\ one[start] = [cost |-> 0, back |-> 0, rank |-> 0]
    BY <1>1
  <2>2. \A j \in allowed : edges[j].cost \in Nat
    BY DEF AreSteps, IsStep, IsList, Range
  <2> HIDE DEF one
  <2>3. Settled(edges, start, allowed, one, 0)
    BY <2>1 DEF Settled
  <2>4. Tight(edges, allowed, one)
    BY <2>1, <2>2 DEF Tight, A!Outgoing, A!CostBy
  <2>5. Cardinality({start}) = 0 + 1
    BY FS_Singleton
  <2>6. Grows(edges, allowed, one, 0)
    BY <2>1, <2>5 DEF Grows
  <2> QED BY <2>3, <2>4, <2>6 DEF one
<1>3. ASSUME NEW k \in Nat, k \in Nums PROVE k + 1 \in Nums
  <2>1. SUFFICES ASSUME k + 1 \in 0..20 PROVE Good(k + 1)
    OBVIOUS
  <2>2. k \in 0..20 /\ k + 1 \in 1..20 /\ (k + 1) - 1 = k
    BY <2>1
  <2>3. tree[k + 1] = A!Settle(edges, allowed, tree[k], k + 1)
    BY <2>2, <1>1
  <2>4. Good(k)
    BY <2>2, <1>3
  <2> DEFINE old == tree[k]
  <2>5. /\ Settled(edges, start, allowed, old, k) /\ Tight(edges, allowed, old)
        /\ Grows(edges, allowed, old, k)
    BY <2>4
  <2> HIDE DEF old
  <2>6. LET next == A!Settle(edges, allowed, old, k + 1)
        IN /\ Settled(edges, start, allowed, next, k + 1) /\ Tight(edges, allowed, next)
           /\ Grows(edges, allowed, next, k + 1)
    BY <2>5, SettleKeeps
  <2> QED BY <2>6, <2>3 DEF old
<1>4. Good(20)
  <2>1. 20 \in Nums
    <3> HIDE DEF Nums
    <3> QED BY <1>2, <1>3, NatInductionOnSets
  <2> QED BY <2>1
<1> DEFINE found == tree[20]
<1>5. /\ Settled(edges, start, allowed, found, 20) /\ Tight(edges, allowed, found)
      /\ Grows(edges, allowed, found, 20)
  BY <1>4
<1> HIDE DEF found
<1>6. A!Outgoing(edges, allowed, found) = {}
  <2>1. SUFFICES ASSUME NEW i \in A!Outgoing(edges, allowed, found) PROVE FALSE
    OBVIOUS
  <2>2. Cardinality(DOMAIN found) = 21 /\ DOMAIN found \subseteq Nodes
    BY <1>5, <2>1 DEF Grows, Settled
  <2>3. DOMAIN found = Nodes
    <3>1. IsFiniteSet(DOMAIN found)
      BY <2>2, PlacesAreListed, FS_Subset
    <3>2. Cardinality(DOMAIN found) < Cardinality(Nodes) \/ DOMAIN found = Nodes
      <4>1. Cardinality(DOMAIN found) <= Cardinality(Nodes)
        BY <2>2, PlacesAreListed, FS_Subset
      <4>2. DOMAIN found # Nodes => Cardinality(DOMAIN found) # Cardinality(Nodes)
        BY <2>2, PlacesAreListed, FS_Subset
      <4> QED BY <4>1, <4>2, <2>2, PlacesAreListed
    <3> QED BY <3>2, <2>2, PlacesAreListed
  <2>4. edges[i].to \in Nodes /\ edges[i].to \notin DOMAIN found
    BY <2>1 DEF A!Outgoing, AreSteps, IsStep, IsList, Range
  <2> QED BY <2>3, <2>4
<1> QED BY <1>5, <1>6, <1>1 DEF found

\* The steps of a path, from the place back to the start.
LEMMA PathUnfolds ==
  ASSUME NEW edges, AreSteps(edges), NEW allowed \in SUBSET DOMAIN edges, NEW start,
         NEW tree, Settled(edges, start, allowed, tree, 20)
  PROVE  /\ A!PathTo(edges, tree, start) = {}
         /\ \A n \in DOMAIN tree \ {start} :
                A!PathTo(edges, tree, n) =
                    {tree[n].back} \cup A!PathTo(edges, tree, edges[tree[n].back].from)
<1> DEFINE From(n) == edges[tree[n].back].from
           Body(s, n) == IF tree[n].back = 0 THEN {} ELSE {tree[n].back} \cup s[From(n)]
           Good(s, k) == \A n \in DOMAIN tree : tree[n].rank <= k => s[n] = Body(s, n)
           Nums == {k \in Nat : \E s : Good(s, k)}
<1>1. ASSUME NEW n \in DOMAIN tree, tree[n].back # 0
      PROVE  /\ From(n) \in DOMAIN tree /\ tree[From(n)].rank < tree[n].rank
             /\ tree[From(n)].rank \in Nat
  BY <1>1 DEF Settled
<1>2. \A n \in DOMAIN tree : tree[n].rank \in 0..20
  BY DEF Settled
<1>3. ASSUME NEW n \in DOMAIN tree \ {start} PROVE tree[n].back # 0
  <2>1. tree[n].back \in DOMAIN edges
    BY DEF Settled
  <2>2. 0 \notin DOMAIN edges
    BY DEF AreSteps, IsList
  <2> QED BY <2>1, <2>2
<1>4. start \in DOMAIN tree /\ tree[start].back = 0
  BY DEF Settled
<1> HIDE DEF From
<1>5. 0 \in Nums
  <2> DEFINE none == [n \in DOMAIN tree |-> {}]
  <2>1. ASSUME NEW n \in DOMAIN tree, tree[n].rank <= 0 PROVE none[n] = Body(none, n)
    <3>1. tree[n].back = 0
      BY <2>1, <1>1, <1>2
    <3> QED BY <3>1
  <2> HIDE DEF none, Body
  <2>2. Good(none, 0)
    BY <2>1
  <2> QED BY <2>2
<1>6. ASSUME NEW k \in Nat, k \in Nums PROVE k + 1 \in Nums
  <2>1. PICK s : Good(s, k)
    BY <1>6
  <2> DEFINE new == [n \in DOMAIN tree |-> IF tree[n].rank <= k THEN s[n] ELSE Body(s, n)]
  <2>2. \A n \in DOMAIN tree : new[n] = Body(s, n)
    <3> HIDE DEF Body
    <3> QED BY <2>1
  <2>3. ASSUME NEW n \in DOMAIN tree, tree[n].rank <= k + 1, tree[n].back # 0
        PROVE  new[From(n)] = s[From(n)]
    <3>1. From(n) \in DOMAIN tree /\ tree[From(n)].rank <= k
      BY <2>3, <1>1, <1>2
    <3> HIDE DEF Body
    <3> QED BY <3>1
  <2> HIDE DEF new
  <2>4. \A n \in DOMAIN tree : tree[n].rank <= k + 1 => new[n] = Body(new, n)
    BY <2>2, <2>3
  <2> HIDE DEF Body
  <2>5. Good(new, k + 1)
    BY <2>4
  <2> QED BY <2>5
<1>7. PICK s : Good(s, 20)
  <2>1. 20 \in Nums
    <3> HIDE DEF Nums
    <3> QED BY <1>5, <1>6, NatInductionOnSets
  <2> QED BY <2>1
<1> DEFINE Rec(steps) == steps = [n \in DOMAIN tree |->
                             IF tree[n].back = 0 THEN {}
                             ELSE {tree[n].back} \cup steps[edges[tree[n].back].from]]
           all == [n \in DOMAIN tree |-> s[n]]
           steps == CHOOSE steps : Rec(steps)
<1>8. Rec(all)
  <2>1. ASSUME NEW n \in DOMAIN tree PROVE all[n] = Body(all, n)
    <3>1. all[n] = Body(s, n)
      <4> HIDE DEF Body
      <4> QED BY <1>7, <1>2
    <3>2. tree[n].back # 0 => all[From(n)] = s[From(n)]
      BY <1>1
    <3> HIDE DEF all
    <3> QED BY <3>1, <3>2
  <2>2. all = [n \in DOMAIN tree |-> all[n]]
    OBVIOUS
  <2> HIDE DEF all
  <2>3. \A n \in DOMAIN tree : all[n] = IF tree[n].back = 0 THEN {}
                                        ELSE {tree[n].back} \cup all[edges[tree[n].back].from]
    BY <2>1 DEF From
  <2> QED BY <2>2, <2>3
<1>9. Rec(steps)
  <2> HIDE DEF Rec, all
  <2> QED BY <1>8
<1>10. \A n \in DOMAIN tree : A!PathTo(edges, tree, n) = steps[n]
  BY DEF A!PathTo
<1>11. \A n \in DOMAIN tree : steps[n] = IF tree[n].back = 0 THEN {}
                                         ELSE {tree[n].back} \cup steps[edges[tree[n].back].from]
  BY <1>9
<1> HIDE DEF steps
<1>12. steps[start] = {}
  BY <1>11, <1>4
<1>13. ASSUME NEW n \in DOMAIN tree \ {start}
       PROVE  steps[n] = {tree[n].back} \cup steps[From(n)]
  BY <1>11, <1>3 DEF From
<1>14. \A n \in DOMAIN tree \ {start} : From(n) \in DOMAIN tree
  BY <1>1, <1>3
<1> QED BY <1>10, <1>12, <1>13, <1>14, <1>4 DEF From

\* The sums of what steps cost.
LEMMA CostUnfolds ==
  ASSUME NEW edges, Len(edges) \in Nat, NEW steps
  PROVE  \E sum : /\ sum[0] = 0
                  /\ \A k \in 1..Len(edges) :
                         sum[k] = sum[k - 1] + (IF k \in steps THEN edges[k].cost ELSE 0)
                  /\ CostOf(edges, steps) = sum[Len(edges)]
<1> DEFINE Adds(k) == IF k \in steps THEN edges[k].cost ELSE 0
           Rec(sum, m) == sum = [k \in 0..m |-> IF k = 0 THEN 0 ELSE sum[k - 1] + Adds(k)]
           Nums == {m \in Nat : \E sum : Rec(sum, m)}
<1>1. 0 \in Nums
  <2>1. Rec([k \in 0..0 |-> 0], 0)
    <3> HIDE DEF Adds
    <3> QED OBVIOUS
  <2> QED BY <2>1
<1>2. ASSUME NEW m \in Nat, m \in Nums PROVE m + 1 \in Nums
  <2>1. PICK sum : Rec(sum, m)
    BY <1>2
  <2> DEFINE new == [k \in 0..m + 1 |-> IF k = m + 1 THEN sum[m] + Adds(k) ELSE sum[k]]
  <2>2. ASSUME NEW k \in 0..m + 1
        PROVE  new[k] = IF k = 0 THEN 0 ELSE new[k - 1] + Adds(k)
    <3> HIDE DEF Adds
    <3>1. CASE k = m + 1
      <4>1. new[k - 1] = sum[m] /\ k # 0
        BY <3>1
      <4> QED BY <4>1, <3>1
    <3>2. CASE k \in 0..m
      <4>1. new[k] = sum[k]
        BY <3>2
      <4>2. sum[k] = IF k = 0 THEN 0 ELSE sum[k - 1] + Adds(k)
        BY <2>1, <3>2
      <4>3. k # 0 => new[k - 1] = sum[k - 1]
        BY <3>2
      <4> QED BY <4>1, <4>2, <4>3
    <3> QED BY <3>1, <3>2
  <2>3. new = [k \in 0..m + 1 |-> new[k]]
    OBVIOUS
  <2> HIDE DEF new, Adds
  <2>4. Rec(new, m + 1)
    BY <2>2, <2>3
  <2> HIDE DEF Rec
  <2> QED BY <2>4
<1>3. Len(edges) \in Nums
  <2> HIDE DEF Nums
  <2> QED BY <1>1, <1>2, NatInductionOnSets
<1>4. PICK any : Rec(any, Len(edges))
  BY <1>3
<1> DEFINE sum == CHOOSE sum : Rec(sum, Len(edges))
<1>5. Rec(sum, Len(edges))
  BY <1>4
<1>6. CostOf(edges, steps) = sum[Len(edges)]
  BY DEF CostOf
<1>7. \A k \in 0..Len(edges) : sum[k] = IF k = 0 THEN 0 ELSE sum[k - 1] + Adds(k)
  <2> HIDE DEF Adds
  <2> QED BY <1>5
<1> HIDE DEF sum, Adds
<1>8. sum[0] = 0 /\ \A k \in 1..Len(edges) : sum[k] = sum[k - 1] + Adds(k)
  BY <1>7
<1> QED BY <1>6, <1>8 DEF Adds

\* One step more adds its cost.
LEMMA CostAdds ==
  ASSUME NEW edges, AreSteps(edges), NEW steps, NEW i \in DOMAIN edges, i \notin steps
  PROVE  /\ CostOf(edges, steps \cup {i}) = CostOf(edges, steps) + edges[i].cost
         /\ CostOf(edges, steps) \in Nat
<1> DEFINE m == Len(edges)
           more == steps \cup {i}
<1>1. m \in Nat /\ i \in 1..m /\ \A k \in 1..m : edges[k].cost \in Nat
  BY DEF AreSteps, IsStep, IsList, Range
<1> HIDE DEF m, more
<1>2. PICK sum : /\ sum[0] = 0
                 /\ \A k \in 1..m : sum[k] = sum[k - 1] + (IF k \in steps THEN edges[k].cost ELSE 0)
                 /\ CostOf(edges, steps) = sum[m]
  BY <1>1, CostUnfolds DEF m
<1>3. PICK new : /\ new[0] = 0
                 /\ \A k \in 1..m : new[k] = new[k - 1] + (IF k \in more THEN edges[k].cost ELSE 0)
                 /\ CostOf(edges, more) = new[m]
  BY <1>1, CostUnfolds DEF m
<1> DEFINE Good(k) == sum[k] \in Nat /\ new[k] = sum[k] + (IF i <= k THEN edges[i].cost ELSE 0)
           Nums == {k \in Nat : k \in 0..m => Good(k)}
<1>4. 0 \in Nums
  BY <1>1, <1>2, <1>3
<1>5. ASSUME NEW k \in Nat, k \in Nums PROVE k + 1 \in Nums
  <2>1. SUFFICES ASSUME k + 1 \in 0..m PROVE Good(k + 1)
    OBVIOUS
  <2>2. k + 1 \in 1..m /\ k \in 0..m /\ (k + 1) - 1 = k /\ Good(k)
    BY <2>1, <1>5, <1>1
  <2>3. /\ sum[k + 1] = sum[k] + (IF k + 1 \in steps THEN edges[k + 1].cost ELSE 0)
        /\ new[k + 1] = new[k] + (IF k + 1 \in more THEN edges[k + 1].cost ELSE 0)
    BY <2>2, <1>2, <1>3
  <2>4. CASE k + 1 = i
    <3>1. k + 1 \notin steps /\ k + 1 \in more /\ ~(i <= k) /\ i <= k + 1
      BY <2>4, <1>1 DEF more
    <3> QED BY <3>1, <2>2, <2>3, <2>4, <1>1
  <2>5. CASE k + 1 # i
    <3>1. (k + 1 \in steps <=> k + 1 \in more) /\ (i <= k <=> i <= k + 1)
      BY <2>5, <1>1 DEF more
    <3> QED BY <3>1, <2>2, <2>3, <1>1
  <2> QED BY <2>4, <2>5
<1>6. Good(m)
  <2>1. m \in Nums
    <3> HIDE DEF Nums
    <3> QED BY <1>1, <1>4, <1>5, NatInductionOnSets
  <2> QED BY <2>1, <1>1
<1> QED BY <1>6, <1>1, <1>2, <1>3 DEF more

LEMMA CostOfNothing ==
  ASSUME NEW edges, AreSteps(edges)
  PROVE  CostOf(edges, {}) = 0
<1> DEFINE m == Len(edges)
<1>1. m \in Nat
  BY DEF AreSteps, IsList
<1> HIDE DEF m
<1>2. PICK sum : /\ sum[0] = 0
                 /\ \A k \in 1..m : sum[k] = sum[k - 1] + (IF k \in {} THEN edges[k].cost ELSE 0)
                 /\ CostOf(edges, {}) = sum[m]
  BY <1>1, CostUnfolds DEF m
<1> DEFINE Nums == {k \in Nat : k \in 0..m => sum[k] = 0}
<1>3. 0 \in Nums
  BY <1>2
<1>4. ASSUME NEW k \in Nat, k \in Nums PROVE k + 1 \in Nums
  <2>1. SUFFICES ASSUME k + 1 \in 0..m PROVE sum[k + 1] = 0
    OBVIOUS
  <2>2. k + 1 \in 1..m /\ k \in 0..m /\ (k + 1) - 1 = k
    BY <2>1, <1>1
  <2>3. sum[k + 1] = sum[k] + 0
    BY <2>2, <1>2
  <2> QED BY <2>2, <2>3, <1>4
<1>5. m \in Nums
  <2> HIDE DEF Nums
  <2> QED BY <1>1, <1>3, <1>4, NatInductionOnSets
<1> QED BY <1>5, <1>1, <1>2

\* A path costs what its steps cost together, and they are allowed.
LEMMA PathCosts ==
  ASSUME NEW edges, AreSteps(edges), NEW allowed \in SUBSET DOMAIN edges, NEW start,
         NEW tree, Settled(edges, start, allowed, tree, 20), NEW n \in DOMAIN tree
  PROVE  /\ A!PathTo(edges, tree, n) \subseteq allowed
         /\ CostOf(edges, A!PathTo(edges, tree, n)) = tree[n].cost
<1> DEFINE Path(x) == A!PathTo(edges, tree, x)
           From(x) == edges[tree[x].back].from
           Good(x) == /\ Path(x) \subseteq allowed /\ CostOf(edges, Path(x)) = tree[x].cost
                      /\ \A i \in Path(x) : edges[i].to \in DOMAIN tree /\ tree[edges[i].to].rank <= tree[x].rank
           Nums == {k \in Nat : \A x \in DOMAIN tree : tree[x].rank <= k => Good(x)}
<1>0. /\ A!PathTo(edges, tree, start) = {}
      /\ \A x \in DOMAIN tree \ {start} :
             A!PathTo(edges, tree, x) =
                 {tree[x].back} \cup A!PathTo(edges, tree, edges[tree[x].back].from)
  <2> HIDE DEF Path, From, Good, Nums
  <2> QED BY PathUnfolds
<1>1. \A x \in DOMAIN tree : tree[x].rank \in 0..20 /\ tree[x].cost \in Nat
  BY DEF Settled
<1>2. ASSUME NEW x \in DOMAIN tree \ {start}
      PROVE  /\ tree[x].back \in allowed /\ edges[tree[x].back].to = x
             /\ From(x) \in DOMAIN tree /\ tree[From(x)].rank < tree[x].rank
             /\ tree[x].cost = tree[From(x)].cost + edges[tree[x].back].cost
             /\ Path(x) = {tree[x].back} \cup Path(From(x))
  <2>1. Path(x) = {tree[x].back} \cup Path(From(x))
    BY <1>0
  <2>2. /\ tree[x].back \in allowed /\ edges[tree[x].back].to = x
        /\ From(x) \in DOMAIN tree /\ tree[From(x)].rank < tree[x].rank
        /\ tree[x].cost = tree[From(x)].cost + edges[tree[x].back].cost
    BY DEF Settled
  <2> QED BY <2>1, <2>2
<1>3. Path(start) = {} /\ tree[start].cost = 0 /\ tree[start].rank = 0
  BY PathUnfolds DEF Settled
<1> HIDE DEF Path, From
<1>4. Good(start)
  BY <1>3, CostOfNothing
<1>5. 0 \in Nums
  <2>1. ASSUME NEW x \in DOMAIN tree, tree[x].rank <= 0 PROVE x = start
    BY <2>1, <1>1, <1>2
  <2> HIDE DEF Good
  <2> QED BY <2>1, <1>4
<1>6. ASSUME NEW k \in Nat, k \in Nums PROVE k + 1 \in Nums
  <2>1. SUFFICES ASSUME NEW x \in DOMAIN tree \ {start}, tree[x].rank <= k + 1 PROVE Good(x)
    <3> HIDE DEF Good
    <3> QED BY <1>4
  <2> DEFINE i == tree[x].back
             p == From(x)
  <2>2. /\ i \in allowed /\ edges[i].to = x /\ p \in DOMAIN tree /\ tree[p].rank < tree[x].rank
        /\ tree[x].cost = tree[p].cost + edges[i].cost /\ Path(x) = {i} \cup Path(p)
    BY <1>2
  <2> HIDE DEF i, p
  <2>3. Good(p)
    <3>1. tree[p].rank <= k
      BY <2>1, <2>2, <1>1
    <3> QED BY <3>1, <2>2, <1>6
  <2>4. i \notin Path(p)
    BY <2>2, <2>3, <1>1
  <2>5. CostOf(edges, Path(p) \cup {i}) = CostOf(edges, Path(p)) + edges[i].cost
    BY <2>2, <2>4, CostAdds
  <2>6. CostOf(edges, Path(x)) = tree[x].cost
    <3>1. Path(x) = Path(p) \cup {i}
      BY <2>2
    <3> QED BY <3>1, <2>2, <2>3, <2>5
  <2>7. \A j \in Path(x) : edges[j].to \in DOMAIN tree /\ tree[edges[j].to].rank <= tree[x].rank
    BY <2>2, <2>3, <1>1
  <2> QED BY <2>2, <2>3, <2>6, <2>7
<1>7. 20 \in Nums
  <2> HIDE DEF Nums
  <2> QED BY <1>5, <1>6, NatInductionOnSets
<1> QED BY <1>7, <1>1 DEF Path

\* Where a path goes, a search that may take its steps comes for no more.
LEMMA NoDearerByAPath ==
  ASSUME NEW edges, AreSteps(edges), NEW some \in SUBSET DOMAIN edges,
         NEW others \in SUBSET DOMAIN edges, NEW start,
         NEW tree, Settled(edges, start, some, tree, 20),
         NEW other, Settled(edges, start, others, other, 20), Tight(edges, others, other),
         A!Outgoing(edges, others, other) = {},
         NEW n \in DOMAIN tree, A!PathTo(edges, tree, n) \subseteq others
  PROVE  n \in DOMAIN other /\ other[n].cost <= tree[n].cost
<1> DEFINE Path(x) == A!PathTo(edges, tree, x)
           From(x) == edges[tree[x].back].from
           Good(x) == x \in DOMAIN other /\ other[x].cost <= tree[x].cost
           Nums == {k \in Nat : \A x \in DOMAIN tree : tree[x].rank <= k /\ Path(x) \subseteq others => Good(x)}
<1>0. /\ A!PathTo(edges, tree, start) = {}
      /\ \A x \in DOMAIN tree \ {start} :
             A!PathTo(edges, tree, x) =
                 {tree[x].back} \cup A!PathTo(edges, tree, edges[tree[x].back].from)
  <2> HIDE DEF Path, From, Good, Nums
  <2> QED BY PathUnfolds
<1>1. \A x \in DOMAIN tree : tree[x].rank \in 0..20 /\ tree[x].cost \in Nat
  BY DEF Settled
<1>2. ASSUME NEW x \in DOMAIN tree \ {start}
      PROVE  /\ tree[x].back \in some /\ edges[tree[x].back].to = x
             /\ From(x) \in DOMAIN tree /\ tree[From(x)].rank < tree[x].rank
             /\ tree[x].cost = tree[From(x)].cost + edges[tree[x].back].cost
             /\ Path(x) = {tree[x].back} \cup Path(From(x))
  <2>1. Path(x) = {tree[x].back} \cup Path(From(x))
    BY <1>0
  <2>2. /\ tree[x].back \in some /\ edges[tree[x].back].to = x
        /\ From(x) \in DOMAIN tree /\ tree[From(x)].rank < tree[x].rank
        /\ tree[x].cost = tree[From(x)].cost + edges[tree[x].back].cost
    BY DEF Settled
  <2> QED BY <2>1, <2>2
<1>3. start \in DOMAIN other /\ other[start].cost = 0 /\ start \in DOMAIN tree /\ tree[start].cost = 0
  BY DEF Settled
<1> HIDE DEF Path, From
<1>4. Good(start)
  BY <1>3
<1>5. 0 \in Nums
  <2>1. ASSUME NEW x \in DOMAIN tree, tree[x].rank <= 0 PROVE x = start
    BY <2>1, <1>1, <1>2
  <2> HIDE DEF Good
  <2> QED BY <2>1, <1>4
<1>6. ASSUME NEW k \in Nat, k \in Nums PROVE k + 1 \in Nums
  <2>1. SUFFICES ASSUME NEW x \in DOMAIN tree \ {start}, tree[x].rank <= k + 1, Path(x) \subseteq others
                 PROVE  Good(x)
    <3> HIDE DEF Good
    <3> QED BY <1>4
  <2> DEFINE i == tree[x].back
             p == From(x)
  <2>2. /\ i \in some /\ edges[i].to = x /\ p \in DOMAIN tree /\ tree[p].rank < tree[x].rank
        /\ tree[x].cost = tree[p].cost + edges[i].cost /\ Path(x) = {i} \cup Path(p)
        /\ edges[i].from = p
    BY <1>2 DEF From
  <2> HIDE DEF i, p
  <2>3. Good(p)
    <3>1. tree[p].rank <= k
      BY <2>1, <2>2, <1>1
    <3> QED BY <3>1, <2>1, <2>2, <1>6
  <2>4. i \in others
    BY <2>1, <2>2
  <2>5. x \in DOMAIN other
    BY <2>2, <2>3, <2>4 DEF A!Outgoing
  <2>6. other[x].cost <= other[p].cost + edges[i].cost
    BY <2>2, <2>3, <2>4, <2>5 DEF Tight
  <2>7. other[x].cost \in Nat /\ other[p].cost \in Nat /\ edges[i].cost \in Nat /\ tree[p].cost \in Nat
    <3>1. other[x].cost \in Nat /\ other[p].cost \in Nat
      BY <2>3, <2>5 DEF Settled
    <3>2. edges[i].cost \in Nat
      BY <2>4 DEF AreSteps, IsStep, IsList, Range
    <3> QED BY <3>1, <3>2, <2>2, <1>1
  <2> QED BY <2>2, <2>3, <2>5, <2>6, <2>7
<1>7. 20 \in Nums
  <2> HIDE DEF Nums
  <2> QED BY <1>5, <1>6, NatInductionOnSets
<1> QED BY <1>7, <1>1 DEF Path

\* What is reported of a profile and a goal.
LEMMA PathsAreOfTrees ==
  ASSUME NEW edges, NEW goals, NEW allowed, NEW x \in A!Paths(edges, goals, allowed)
  PROVE  LET tree == A!Cheapest(edges, x.persona, allowed)
         IN /\ x.persona \in A!Personas /\ x.goal \in goals \cap DOMAIN tree
            /\ x.steps = A!PathTo(edges, tree, x.goal) /\ x.cost = tree[x.goal].cost
<1> DEFINE tree == [p \in A!Personas |-> A!Cheapest(edges, p, allowed)]
           Steps(p, g) == A!PathTo(edges, tree[p], g)
           Path(p, g) == [persona |-> p, goal |-> g, steps |-> Steps(p, g), cost |-> tree[p][g].cost,
                          severity |-> A!PathSeverity(tree[p][g].cost,
                                                      \E i \in Steps(p, g) : edges[i].tentative)]
<1>1. x \in UNION {{Path(p, g) : g \in goals \cap DOMAIN tree[p]} : p \in A!Personas}
  BY DEF A!Paths
<1>2. PICK p \in A!Personas : x \in {Path(p, g) : g \in goals \cap DOMAIN tree[p]}
  <2> HIDE DEF tree, Path
  <2> QED BY <1>1
<1>3. PICK g \in goals \cap DOMAIN tree[p] : x = Path(p, g)
  <2> HIDE DEF tree, Path
  <2> QED BY <1>2
<1>4. tree[p] = A!Cheapest(edges, p, allowed)
  OBVIOUS
<1> HIDE DEF tree
<1>5. x.persona = p /\ x.goal = g /\ x.steps = Steps(p, g) /\ x.cost = tree[p][g].cost
  BY <1>3
<1> QED BY <1>4, <1>5

LEMMA TreesHavePaths ==
  ASSUME NEW edges, NEW goals, NEW allowed, NEW p \in A!Personas,
         NEW g \in goals \cap DOMAIN A!Cheapest(edges, p, allowed),
         \E i \in A!PathTo(edges, A!Cheapest(edges, p, allowed), g) : ~edges[i].structural
  PROVE  \E x \in A!Paths(edges, goals, allowed) : x.persona = p /\ x.goal = g
<1> DEFINE tree == [q \in A!Personas |-> A!Cheapest(edges, q, allowed)]
           Steps(q, h) == A!PathTo(edges, tree[q], h)
           Path(q, h) == [persona |-> q, goal |-> h, steps |-> Steps(q, h), cost |-> tree[q][h].cost,
                          severity |-> A!PathSeverity(tree[q][h].cost,
                                                      \E i \in Steps(q, h) : edges[i].tentative)]
<1>1. tree[p] = A!Cheapest(edges, p, allowed)
  OBVIOUS
<1>2. A!Paths(edges, goals, allowed) =
        {x \in UNION {{Path(q, h) : h \in goals \cap DOMAIN tree[q]} : q \in A!Personas} :
           \E i \in x.steps : ~edges[i].structural}
  BY DEF A!Paths
<1> HIDE DEF tree
<1> DEFINE x == Path(p, g)
<1>3. x.persona = p /\ x.goal = g /\ x.steps = Steps(p, g)
  OBVIOUS
<1>4. x \in UNION {{Path(q, h) : h \in goals \cap DOMAIN tree[q]} : q \in A!Personas}
  <2> HIDE DEF Path
  <2> QED BY <1>1
<1>5. \E i \in x.steps : ~edges[i].structural
  <2>1. x.steps = A!PathTo(edges, A!Cheapest(edges, p, allowed), g)
    BY <1>1, <1>3
  <2> HIDE DEF x
  <2> QED BY <2>1
<1> HIDE DEF x, Path
<1> QED BY <1>2, <1>3, <1>4, <1>5

\* What some flaw brings nearer is reported.
LEMMA NearerIsReported ==
  ASSUME NEW edges, AreSteps(edges), NEW goals, NEW allowed \in SUBSET DOMAIN edges,
         NEW p \in A!Personas, NEW g \in goals, Nearer(edges, p, allowed, Own(edges), g)
  PROVE  \E x \in A!Paths(edges, goals, allowed) : x.persona = p /\ x.goal = g
<1> DEFINE tree == A!Cheapest(edges, p, allowed)
           other == A!Cheapest(edges, p, Own(edges))
<1>1. p \in Nodes
  BY PlacesAreListed
<1>2. Settled(edges, p, allowed, tree, 20)
  BY <1>1, CheapestIsTight
<1>3. /\ Settled(edges, p, Own(edges), other, 20) /\ Tight(edges, Own(edges), other)
      /\ A!Outgoing(edges, Own(edges), other) = {}
  <2>1. Own(edges) \in SUBSET DOMAIN edges
    BY DEF Own
  <2> QED BY <2>1, <1>1, CheapestIsTight
<1>4. g \in DOMAIN tree /\ (g \notin DOMAIN other \/ tree[g].cost < other[g].cost)
  BY DEF Nearer
<1> HIDE DEF tree, other
<1>5. ASSUME A!PathTo(edges, tree, g) \subseteq Own(edges) PROVE FALSE
  <2>1. g \in DOMAIN other /\ other[g].cost <= tree[g].cost
    <3>1. Own(edges) \in SUBSET DOMAIN edges
      BY DEF Own
    <3> QED BY <3>1, <1>2, <1>3, <1>4, <1>5, NoDearerByAPath
  <2>2. other[g].cost \in Nat /\ tree[g].cost \in Nat
    BY <2>1, <1>2, <1>3, <1>4 DEF Settled
  <2> QED BY <2>1, <2>2, <1>4
<1>6. A!PathTo(edges, tree, g) \subseteq allowed
  BY <1>2, <1>4, PathCosts
<1>7. PICK i \in A!PathTo(edges, tree, g) : i \notin Own(edges)
  BY <1>5
<1>8. ~edges[i].structural
  BY <1>6, <1>7 DEF Own
<1> QED BY <1>4, <1>8, TreesHavePaths DEF tree

\* The distances of a search are distances.
LEMMA TreesAreDistances ==
  ASSUME NEW edges, AreSteps(edges), NEW p \in A!Personas
  PROVE  Distances(edges, A!Cheapest(edges, p, DOMAIN edges), p)
<1> DEFINE tree == A!Cheapest(edges, p, DOMAIN edges)
<1>1. /\ Settled(edges, p, DOMAIN edges, tree, 20) /\ Tight(edges, DOMAIN edges, tree)
      /\ A!Outgoing(edges, DOMAIN edges, tree) = {}
  <2>1. p \in Nodes
    BY PlacesAreListed
  <2> QED BY <2>1, CheapestIsTight
<1> HIDE DEF tree
<1>2. ASSUME NEW e \in Range(edges), e.from \in DOMAIN tree
      PROVE  e.to \in DOMAIN tree /\ tree[e.to].cost <= tree[e.from].cost + e.cost
  <2>1. PICK i \in DOMAIN edges : e = edges[i]
    BY DEF Range
  <2> QED BY <2>1, <1>1, <1>2 DEF Tight, A!Outgoing
<1>3. tree[p].cost = 0
  BY <1>1 DEF Settled
<1>4. ASSUME NEW n \in DOMAIN tree \ {p}
      PROVE  LET e == edges[tree[n].back]
             IN /\ e.to = n /\ e.from \in DOMAIN tree /\ tree[e.from].rank < tree[n].rank
                /\ tree[n].cost = tree[e.from].cost + e.cost
  BY <1>1 DEF Settled
<1> QED BY <1>2, <1>3, <1>4 DEF Distances, tree

\* What is reported costs what its steps do.
LEMMA PathsCostTheirSteps ==
  ASSUME NEW edges, AreSteps(edges), NEW goals, NEW x \in A!Paths(edges, goals, DOMAIN edges)
  PROVE  /\ x.cost = CostOf(edges, x.steps)
         /\ x.cost = A!Cheapest(edges, x.persona, DOMAIN edges)[x.goal].cost
<1> DEFINE tree == A!Cheapest(edges, x.persona, DOMAIN edges)
<1>1. /\ x.persona \in A!Personas /\ x.goal \in goals \cap DOMAIN tree
      /\ x.steps = A!PathTo(edges, tree, x.goal) /\ x.cost = tree[x.goal].cost
  BY PathsAreOfTrees
<1>2. Settled(edges, x.persona, DOMAIN edges, tree, 20)
  <2>1. x.persona \in Nodes
    BY <1>1, PlacesAreListed
  <2> QED BY <2>1, CheapestIsTight
<1> HIDE DEF tree
<1>3. CostOf(edges, A!PathTo(edges, tree, x.goal)) = tree[x.goal].cost
  <2> DEFINE g == x.goal
  <2>1. g \in DOMAIN tree
    BY <1>1
  <2> HIDE DEF g
  <2>2. CostOf(edges, A!PathTo(edges, tree, g)) = tree[g].cost
    BY <2>1, <1>2, PathCosts
  <2> QED BY <2>2 DEF g
<1> QED BY <1>1, <1>3 DEF tree

\* The places by their names.
LEMMA PlacesByName ==
  {"accesses_admin", "changes_code", "controls_agent", "executes_code", "executes_on_developer",
   "gets_session", "publishes_release", "reaches_internal", "reads_files", "reads_repository",
   "reads_secret", "reads_user_data", "runs_in_ci", "sends_requests", "start:anonymous",
   "start:authenticated_user", "start:compromised_dependency", "start:malicious_contributor",
   "start:manipulated_agent", "user_account", "writes_db"} \subseteq Nodes
<1>1. Nodes = {A!Places[i] : i \in 1..21}
  BY PlacesAreListed DEF Nodes, Range
<1>2. /\ A!Places[1] = "accesses_admin" /\ A!Places[2] = "changes_code"
      /\ A!Places[3] = "controls_agent" /\ A!Places[4] = "executes_code"
      /\ A!Places[5] = "executes_on_developer" /\ A!Places[6] = "gets_session"
      /\ A!Places[7] = "publishes_release" /\ A!Places[8] = "reaches_internal"
      /\ A!Places[9] = "reads_files" /\ A!Places[10] = "reads_repository"
      /\ A!Places[11] = "reads_secret" /\ A!Places[12] = "reads_user_data"
      /\ A!Places[13] = "runs_in_ci" /\ A!Places[14] = "sends_requests"
      /\ A!Places[15] = "start:anonymous" /\ A!Places[16] = "start:authenticated_user"
      /\ A!Places[17] = "start:compromised_dependency" /\ A!Places[18] = "start:malicious_contributor"
      /\ A!Places[19] = "start:manipulated_agent" /\ A!Places[20] = "user_account"
      /\ A!Places[21] = "writes_db"
  BY DEF A!Places
<1> QED BY <1>1, <1>2

\* Where the steps of an MCP finding lead, and their cost.
LEMMA McpStepsLead ==
  ASSUME NEW rule \in DOMAIN A!McpSteps
  PROVE  /\ A!McpSteps[rule][1] \in Nodes /\ A!McpSteps[rule][2] \in Nodes
         /\ A!McpSteps[rule][3] \in Nat \ {0}
<1>1. /\ A!McpSteps[rule][1] \in {"controls_agent", "reads_repository", "changes_code",
                                  "start:compromised_dependency", "reaches_internal", "sends_requests"}
      /\ A!McpSteps[rule][2] \in {"executes_code", "reads_files", "reads_secret",
                                  "executes_on_developer", "controls_agent"}
      /\ A!McpSteps[rule][3] \in {10, 20, 30}
  BY DEF A!McpSteps
<1> QED BY <1>1, PlacesByName

\* What a technique gains are places.
LEMMA TechniquesGain ==
  ASSUME NEW kind \in DOMAIN A!Techniques
  PROVE  /\ A!Techniques[kind].cost \in Nat \ {0}
         /\ A!Techniques[kind].gains \in Seq(Nodes)
<1> DEFINE Gains == {<<"reads_user_data", "writes_db">>, <<"executes_code">>, <<"reads_files">>,
                     <<"reaches_internal">>, <<"reads_user_data">>, <<"accesses_admin">>,
                     <<"user_account">>, <<"gets_session">>, <<"writes_db">>, <<"reads_secret">>, <<>>}
<1>1. A!Techniques[kind].cost \in {10, 15, 20, 35} /\ A!Techniques[kind].gains \in Gains
  BY DEF A!Techniques
<1>2. Gains \subseteq Seq(Nodes)
  <2>1. \A x, y \in Nodes : <<x, y>> \in Seq(Nodes) /\ <<x>> \in Seq(Nodes)
    OBVIOUS
  <2>2. <<>> \in Seq(Nodes)
    OBVIOUS
  <2>3. {"executes_code", "reads_files", "reaches_internal", "reads_user_data", "accesses_admin",
         "user_account", "gets_session", "writes_db", "reads_secret"} \subseteq Nodes
    BY PlacesByName
  <2> HIDE DEF Gains
  <2>4. SUFFICES ASSUME NEW s \in Gains PROVE s \in Seq(Nodes)
    OBVIOUS
  <2>5. \/ s = <<>> \/ s = <<"reads_user_data", "writes_db">>
        \/ \E x \in {"executes_code", "reads_files", "reaches_internal", "reads_user_data",
                     "accesses_admin", "user_account", "gets_session", "writes_db",
                     "reads_secret"} : s = <<x>>
    BY <2>4 DEF Gains
  <2>6. CASE s = <<"reads_user_data", "writes_db">>
    <3>1. "reads_user_data" \in Nodes /\ "writes_db" \in Nodes
      BY <2>3
    <3> QED BY <3>1, <2>6
  <2>7. ASSUME NEW x \in Nodes, s = <<x>> PROVE s \in Seq(Nodes)
    BY <2>1, <2>7
  <2>8. CASE s = <<>>
    BY <2>2, <2>8
  <2>9. CASE s # <<>> /\ s # <<"reads_user_data", "writes_db">>
    <3>1. \E x \in Nodes : s = <<x>>
      BY <2>3, <2>5, <2>9
    <3> QED BY <3>1, <2>7
  <2> QED BY <2>6, <2>8, <2>9
<1> HIDE DEF Gains
<1> QED BY <1>1, <1>2

\* A finding is of a kind that a technique uses, or of none.
LEMMA KindsAreTechniques ==
  ASSUME NEW f, f.matches \subseteq DOMAIN A!Kinds
  PROVE  A!KindOf(f) \in DOMAIN A!Techniques \cup {"none"}
<1> DEFINE fit == {i \in f.matches : f.category \in A!Kinds[i][2]}
           chosen == CHOOSE i \in fit : \A j \in fit : i <= j
<1>1. DOMAIN A!Kinds = 1..17
  BY DEF A!Kinds
<1>2. \A i \in 1..17 : A!Kinds[i][1] \in DOMAIN A!Techniques
  BY DEF A!Kinds, A!Techniques
<1>3. fit # {} => chosen \in 1..17
  <2>1. ASSUME fit # {} PROVE \E i \in fit : \A j \in fit : i <= j
    <3>1. fit \in SUBSET Nat
      BY <1>1
    <3> HIDE DEF fit
    <3> QED BY <2>1, <3>1, LeastNumber
  <2>2. fit \subseteq 1..17
    BY <1>1
  <2> HIDE DEF fit
  <2> QED BY <2>1, <2>2
<1>4. f.category \in DOMAIN A!Fallback => A!Fallback[f.category] \in DOMAIN A!Techniques
  BY DEF A!Fallback, A!Techniques
<1>5. A!KindOf(f) = IF fit # {} THEN A!Kinds[chosen][1]
                    ELSE IF f.category \in DOMAIN A!Fallback THEN A!Fallback[f.category] ELSE "none"
  BY DEF A!KindOf
<1> HIDE DEF fit, chosen
<1> QED BY <1>2, <1>3, <1>4, <1>5

\* Lists of steps, by the ways they are put together.
LEMMA ListOfBoth ==
  ASSUME NEW s, IsList(s), NEW t, IsList(t)
  PROVE  IsList(s \o t) /\ Range(s \o t) = Range(s) \cup Range(t)
<1> DEFINE Vals == Range(s) \cup Range(t)
<1>1. s \in Seq(Vals) /\ t \in Seq(Vals)
  BY DEF IsList
<1> HIDE DEF Vals
<1>2. s \o t \in Seq(Vals) /\ Range(s \o t) = Range(s) \cup Range(t)
  BY <1>1, RangeOfBoth
<1> QED BY <1>2, ListIn

\* Where things are in two lists put together.
LEMMA InBoth ==
  ASSUME NEW s, IsList(s), NEW t, IsList(t)
  PROVE  /\ Len(s) \in Nat /\ Len(t) \in Nat /\ DOMAIN s = 1..Len(s) /\ DOMAIN t = 1..Len(t)
         /\ DOMAIN (s \o t) = 1..Len(s) + Len(t)
         /\ \A i \in DOMAIN s : i \in DOMAIN (s \o t) /\ (s \o t)[i] = s[i]
         /\ \A i \in DOMAIN t : Len(s) + i \in DOMAIN (s \o t) /\ (s \o t)[Len(s) + i] = t[i]
         /\ \A i \in DOMAIN (s \o t) : i \in DOMAIN s \/ \E j \in DOMAIN t : i = Len(s) + j
<1> DEFINE Vals == Range(s) \cup Range(t)
<1>1. s \in Seq(Vals) /\ t \in Seq(Vals)
  BY DEF IsList
<1> HIDE DEF Vals
<1>2. /\ Len(s) \in Nat /\ Len(t) \in Nat /\ DOMAIN s = 1..Len(s) /\ DOMAIN t = 1..Len(t)
      /\ DOMAIN (s \o t) = 1..Len(s) + Len(t)
  BY <1>1
<1>3. \A i \in 1..Len(s) : (s \o t)[i] = s[i]
  BY <1>1
<1>4. \A i \in 1..Len(t) : (s \o t)[Len(s) + i] = t[i]
  BY <1>1
<1>5. ASSUME NEW i \in 1..Len(s) + Len(t), i \notin 1..Len(s)
      PROVE  \E j \in 1..Len(t) : i = Len(s) + j
  <2>1. i - Len(s) \in 1..Len(t) /\ i = Len(s) + (i - Len(s))
    BY <1>2, <1>5
  <2> QED BY <2>1
<1>6. \A i \in 1..Len(t) : Len(s) + i \in 1..Len(s) + Len(t)
  BY <1>2
<1>7. \A i \in 1..Len(s) : i \in 1..Len(s) + Len(t)
  BY <1>2
<1> QED BY <1>2, <1>3, <1>4, <1>5, <1>6, <1>7

\* Lists of steps, put together in the ways the model does, are lists of steps.
LEMMA StepsOfBoth ==
  ASSUME NEW s, AreSteps(s), NEW t, AreSteps(t)
  PROVE  AreSteps(s \o t)
BY ListOfBoth DEF AreSteps

LEMMA StepsOfAll ==
  ASSUME NEW seqs, IsList(seqs), \A i \in DOMAIN seqs : AreSteps(seqs[i])
  PROVE  AreSteps(FlattenSeq(seqs))
<1> DEFINE Vals == UNION {Range(seqs[i]) : i \in DOMAIN seqs}
<1>1. ASSUME NEW i \in DOMAIN seqs PROVE seqs[i] \in Seq(Vals)
  <2> DEFINE s == seqs[i]
  <2>1. IsList(s) /\ Range(s) \subseteq Vals
    BY DEF AreSteps
  <2> HIDE DEF s, Vals
  <2>2. s \in Seq(Vals)
    BY <2>1 DEF IsList
  <2> QED BY <2>2 DEF s
<1>2. \A e \in Vals : IsStep(e)
  BY DEF AreSteps
<1> HIDE DEF Vals
<1>3. seqs \in Seq(Seq(Vals))
  BY <1>1 DEF IsList
<1>4. FlattenSeq(seqs) \in Seq(Vals)
  BY <1>3, FlattenMembers
<1>5. IsList(FlattenSeq(seqs)) /\ Range(FlattenSeq(seqs)) \subseteq Vals
  BY <1>4, ListIn
<1> QED BY <1>2, <1>5 DEF AreSteps

LEMMA StepsOfEach ==
  ASSUME NEW n \in Nat, NEW s, s = [i \in 1..n |-> s[i]], \A i \in 1..n : IsStep(s[i])
  PROVE  AreSteps(s)
<1>1. IsList(s) /\ DOMAIN s = 1..n
  BY ListOf
<1> QED BY <1>1 DEF AreSteps, Range

LEMMA OneStep == ASSUME NEW e, IsStep(e) PROVE AreSteps(<<e>>)
<1>1. IsList(<<e>>) /\ Range(<<e>>) = {e}
  BY DEF IsList, Range
<1> QED BY <1>1 DEF AreSteps

LEMMA TwoSteps == ASSUME NEW e, IsStep(e), NEW d, IsStep(d) PROVE AreSteps(<<e, d>>)
<1>1. IsList(<<e, d>>) /\ Range(<<e, d>>) = {e, d}
  BY DEF IsList, Range
<1> QED BY <1>1 DEF AreSteps

LEMMA NoStep == AreSteps(<<>>)
BY DEF AreSteps, IsList, Range

LEMMA StepOrNone ==
  ASSUME NEW test, NEW e, test => IsStep(e)
  PROVE  AreSteps(A!Option(test, e))
BY OneStep, NoStep DEF A!Option

LEMMA StepIsStep ==
  ASSUME NEW from \in Nodes, NEW to \in Nodes, NEW cost \in Nat, NEW fix, NEW tentative, NEW structural,
         structural => ~tentative, fix[1] = "finding" => cost # 0
  PROVE  IsStep(A!Step(from, to, cost, fix, tentative, structural))
<1> DEFINE e == A!Step(from, to, cost, fix, tentative, structural)
<1>1. /\ e.from = from /\ e.to = to /\ e.cost = cost /\ e.tentative = tentative
      /\ e.structural = structural /\ e.fix = fix
  BY DEF A!Step
<1> HIDE DEF e
<1> QED BY <1>1 DEF IsStep, e

\* What findings, MCP findings, files, divergences and agent capabilities add are steps.
LEMMA FindingStepsAre ==
  ASSUME NEW f, f.matches \subseteq DOMAIN A!Kinds
  PROVE  AreSteps(A!FindingEdges(f))
<1> DEFINE kind == A!KindOf(f)
           from == CASE kind = "hardcoded_secret" -> "reads_repository"
                     [] kind \notin {"hardcoded_secret", "privilege", "missing_auth"} /\ f.admin ->
                            "accesses_admin"
                     [] kind \in {"idor", "csrf"} /\ ~f.admin -> "user_account"
                     [] kind = "privilege" -> "user_account"
                     [] OTHER -> IF f.account THEN "user_account" ELSE "sends_requests"
           none == \/ f.status \notin {"reachable", "corroborated", "inconclusive"}
                   \/ ~f.verified \/ kind = "none"
           gains == A!Techniques[kind].gains
           steps == [i \in DOMAIN gains |->
                        A!Step(from, gains[i], A!Techniques[kind].cost, <<"finding", f.id>>,
                               f.status = "inconclusive", FALSE)]
<1>1. A!FindingEdges(f) = IF none THEN <<>> ELSE steps
  BY DEF A!FindingEdges
<1>2. from \in Nodes
  <2>1. from \in {"reads_repository", "accesses_admin", "user_account", "sends_requests"}
    <3> HIDE DEF kind
    <3> QED OBVIOUS
  <2> HIDE DEF from
  <2> QED BY <2>1, PlacesByName
<1>3. kind \in DOMAIN A!Techniques \cup {"none"}
  BY KindsAreTechniques
<1> HIDE DEF from, kind
<1>4. ASSUME ~none PROVE AreSteps(steps)
  <2>1. kind \in DOMAIN A!Techniques
    BY <1>3, <1>4
  <2>2. A!Techniques[kind].cost \in Nat \ {0} /\ gains \in Seq(Nodes)
    BY <2>1, TechniquesGain
  <2> HIDE DEF gains
  <2>3. DOMAIN gains = 1..Len(gains) /\ Len(gains) \in Nat /\ \A i \in DOMAIN gains : gains[i] \in Nodes
    BY <2>2
  <2>4. \A i \in 1..Len(gains) : IsStep(steps[i])
    BY <2>2, <2>3, <1>2, StepIsStep
  <2>5. steps = [i \in 1..Len(gains) |-> steps[i]]
    BY <2>3
  <2> HIDE DEF steps
  <2> QED BY <2>3, <2>4, <2>5, StepsOfEach
<1> HIDE DEF none, steps
<1> QED BY <1>1, <1>4, NoStep

LEMMA McpStepsAre == ASSUME NEW f PROVE AreSteps(A!McpEdges(f))
<1> DEFINE none == \/ f.category # "mcp" \/ ~f.verified \/ f.status = "refuted"
                   \/ f.assessment = "discarded" \/ f.rule \notin DOMAIN A!McpSteps
           step == A!McpSteps[f.rule]
           e == A!Step(step[1], step[2], step[3], <<"finding", f.id>>, f.assessment # "confirmed", FALSE)
<1>1. A!McpEdges(f) = IF none THEN <<>> ELSE <<e>>
  BY DEF A!McpEdges
<1>2. ASSUME ~none PROVE IsStep(e)
  <2>1. step[1] \in Nodes /\ step[2] \in Nodes /\ step[3] \in Nat \ {0}
    BY <1>2, McpStepsLead
  <2> HIDE DEF step
  <2> QED BY <2>1, StepIsStep
<1> HIDE DEF none, e
<1> QED BY <1>1, <1>2, NoStep, OneStep

LEMMA DivergenceStepsAre ==
  ASSUME NEW rows, IsList(rows)
  PROVE  AreSteps(A!DivergenceEdges(rows))
<1> DEFINE fix(d) == <<"divergence", d.id>>
           hidden(d) == A!Step("changes_code", "controls_agent", 10, fix(d), FALSE, FALSE)
           runs(d) == A!Step("reads_repository", "executes_on_developer", 20, fix(d), FALSE, FALSE)
           merged(d) == A!Step("changes_code", "reads_repository", 0, fix(d), FALSE, TRUE)
           Of(d) == CASE d.kind = "hidden_content" -> <<hidden(d)>>
                      [] d.kind = "unexpected_execution" -> <<runs(d), merged(d)>>
                      [] OTHER -> <<>>
           seqs == [i \in DOMAIN rows |-> Of(rows[i])]
<1>1. A!DivergenceEdges(rows) = FlattenSeq(seqs)
  BY DEF A!DivergenceEdges, A!FlattenSeq, FlattenSeq
<1>2. {"changes_code", "controls_agent", "reads_repository", "executes_on_developer"} \subseteq Nodes
  BY PlacesByName
<1>3. ASSUME NEW d PROVE AreSteps(Of(d))
  <2>1. IsStep(hidden(d)) /\ IsStep(runs(d)) /\ IsStep(merged(d))
    <3>1. fix(d)[1] # "finding"
      OBVIOUS
    <3> HIDE DEF fix
    <3> QED BY <3>1, <1>2, StepIsStep
  <2> HIDE DEF hidden, runs, merged
  <2>2. AreSteps(<<hidden(d)>>) /\ AreSteps(<<runs(d), merged(d)>>) /\ AreSteps(<<>>)
    BY <2>1, OneStep, TwoSteps, NoStep
  <2> QED BY <2>2
<1>4. IsList(seqs) /\ DOMAIN seqs = DOMAIN rows
  <2> HIDE DEF Of
  <2>1. DOMAIN rows = 1..Len(rows) /\ Len(rows) \in Nat
    BY DEF IsList
  <2>2. seqs = [i \in 1..Len(rows) |-> seqs[i]]
    BY <2>1
  <2> HIDE DEF seqs
  <2> QED BY <2>1, <2>2, ListOf
<1>5. \A i \in DOMAIN seqs : AreSteps(seqs[i])
  <2> HIDE DEF Of
  <2> QED BY <1>3
<1> HIDE DEF seqs
<1> QED BY <1>1, <1>4, <1>5, StepsOfAll

LEMMA AgentStepsAre ==
  ASSUME NEW combinations, IsList(combinations)
  PROVE  AreSteps(A!AgentEdges(combinations))
<1> DEFINE Of(c) == A!Step("controls_agent",
                           IF c.kind = "exfiltration" THEN "reads_secret" ELSE "executes_on_developer",
                           IF c.unattended THEN 10 ELSE 20, <<"agent", c.steps>>, FALSE, FALSE)
           seqs == [i \in DOMAIN combinations |->
                       A!Option(combinations[i].steps # {}, Of(combinations[i]))]
<1>1. A!AgentEdges(combinations) = FlattenSeq(seqs)
  BY DEF A!AgentEdges, A!FlattenSeq, FlattenSeq
<1>2. {"controls_agent", "reads_secret", "executes_on_developer"} \subseteq Nodes
  BY PlacesByName
<1>3. ASSUME NEW c PROVE IsStep(Of(c))
  <2> DEFINE to == IF c.kind = "exfiltration" THEN "reads_secret" ELSE "executes_on_developer"
             cost == IF c.unattended THEN 10 ELSE 20
  <2>1. to \in Nodes /\ cost \in Nat /\ "controls_agent" \in Nodes
    BY <1>2
  <2> HIDE DEF to, cost
  <2>2. IsStep(A!Step("controls_agent", to, cost, <<"agent", c.steps>>, FALSE, FALSE))
    <3> DEFINE fix == <<"agent", c.steps>>
    <3>1. fix[1] # "finding"
      OBVIOUS
    <3> HIDE DEF fix
    <3>2. IsStep(A!Step("controls_agent", to, cost, fix, FALSE, FALSE))
      BY <3>1, <2>1, StepIsStep
    <3> QED BY <3>2 DEF fix
  <2> QED BY <2>2 DEF to, cost
<1> HIDE DEF Of
<1>4. IsList(seqs) /\ DOMAIN seqs = DOMAIN combinations
  <2>1. DOMAIN combinations = 1..Len(combinations) /\ Len(combinations) \in Nat
    BY DEF IsList
  <2>2. seqs = [i \in 1..Len(combinations) |-> seqs[i]]
    BY <2>1
  <2> HIDE DEF seqs
  <2> QED BY <2>1, <2>2, ListOf
<1>5. \A i \in DOMAIN seqs : AreSteps(seqs[i])
  BY <1>3, StepOrNone
<1> HIDE DEF seqs
<1> QED BY <1>1, <1>4, <1>5, StepsOfAll

\* What needs no flaw is steps too.
LEMMA StructuralStepsAre ==
  ASSUME NEW deploys
  PROVE  LET steps == A!StructuralEdges(deploys)
         IN /\ AreSteps(steps) /\ \A d \in Range(steps) : d.fix = A!NoFix /\ d.structural
            /\ 18 \in DOMAIN steps /\ steps[18].from = "changes_code"
            /\ steps[18].to = "reads_repository" /\ steps[18].cost = 0
<1> DEFINE e(from, to, cost) == A!Step(from, to, cost, A!NoFix, FALSE, TRUE)
           kinds == {"accesses_admin", "changes_code", "controls_agent", "executes_code",
                     "executes_on_developer", "gets_session", "publishes_release",
                     "reaches_internal", "reads_files", "reads_repository", "reads_secret",
                     "reads_user_data", "sends_requests", "start:anonymous",
                     "start:authenticated_user", "start:compromised_dependency",
                     "start:malicious_contributor", "start:manipulated_agent", "user_account",
                     "writes_db"}
           Vals == {e(k[1], k[2], k[3]) : k \in kinds \X kinds \X {0, 10, 20}}
           base == <<e("start:anonymous", "sends_requests", 0),
                     e("start:authenticated_user", "sends_requests", 0),
                     e("start:authenticated_user", "user_account", 0),
                     e("start:malicious_contributor", "reads_repository", 0),
                     e("start:compromised_dependency", "executes_code", 0),
                     e("start:manipulated_agent", "controls_agent", 0),
                     e("user_account", "sends_requests", 0), e("gets_session", "user_account", 0),
                     e("executes_code", "reads_secret", 10), e("executes_code", "reads_user_data", 10),
                     e("executes_code", "writes_db", 10), e("executes_code", "reads_files", 0),
                     e("accesses_admin", "reads_user_data", 10), e("accesses_admin", "writes_db", 10),
                     e("reads_files", "reads_secret", 10), e("reaches_internal", "reads_secret", 20),
                     e("writes_db", "accesses_admin", 20), e("changes_code", "reads_repository", 0),
                     e("executes_on_developer", "reads_secret", 10),
                     e("controls_agent", "executes_on_developer", 10)>>
           more == IF deploys THEN <<e("reads_secret", "publishes_release", 10)>> ELSE <<>>
<1>1. A!StructuralEdges(deploys) = base \o more
  BY DEF A!StructuralEdges
<1>2. kinds \subseteq Nodes
  BY PlacesByName
<1>3. ASSUME NEW from \in kinds, NEW to \in kinds, NEW cost \in {0, 10, 20} PROVE IsStep(e(from, to, cost))
  <2>1. from \in Nodes /\ to \in Nodes /\ cost \in Nat /\ A!NoFix[1] # "finding"
    BY <1>2 DEF A!NoFix
  <2> HIDE DEF kinds
  <2> QED BY <2>1, StepIsStep
<1>0. \A from, to, cost : /\ e(from, to, cost).from = from /\ e(from, to, cost).to = to
                           /\ e(from, to, cost).cost = cost /\ e(from, to, cost).fix = A!NoFix
                           /\ e(from, to, cost).structural
  BY DEF A!Step
<1>4. ASSUME NEW v \in Vals PROVE IsStep(v) /\ v.fix = A!NoFix /\ v.structural
  <2> HIDE DEF kinds, e
  <2> QED BY <1>0, <1>3
<1>5. ASSUME NEW from \in kinds, NEW to \in kinds, NEW cost \in {0, 10, 20}
      PROVE  e(from, to, cost) \in Vals
  <2> DEFINE k == <<from, to, cost>>
  <2>1. k \in kinds \X kinds \X {0, 10, 20} /\ k[1] = from /\ k[2] = to /\ k[3] = cost
    OBVIOUS
  <2> HIDE DEF k, kinds, e
  <2> QED BY <2>1
<1> HIDE DEF Vals, e
<1>6. base \in Seq(Vals)
  <2>1. /\ e("start:anonymous", "sends_requests", 0) \in Vals
        /\ e("start:authenticated_user", "sends_requests", 0) \in Vals
        /\ e("start:authenticated_user", "user_account", 0) \in Vals
        /\ e("start:malicious_contributor", "reads_repository", 0) \in Vals
        /\ e("start:compromised_dependency", "executes_code", 0) \in Vals
    BY <1>5
  <2>2. /\ e("start:manipulated_agent", "controls_agent", 0) \in Vals
        /\ e("user_account", "sends_requests", 0) \in Vals
        /\ e("gets_session", "user_account", 0) \in Vals
        /\ e("executes_code", "reads_secret", 10) \in Vals
        /\ e("executes_code", "reads_user_data", 10) \in Vals
    BY <1>5
  <2>3. /\ e("executes_code", "writes_db", 10) \in Vals
        /\ e("executes_code", "reads_files", 0) \in Vals
        /\ e("accesses_admin", "reads_user_data", 10) \in Vals
        /\ e("accesses_admin", "writes_db", 10) \in Vals
        /\ e("reads_files", "reads_secret", 10) \in Vals
    BY <1>5
  <2>4. /\ e("reaches_internal", "reads_secret", 20) \in Vals
        /\ e("writes_db", "accesses_admin", 20) \in Vals
        /\ e("changes_code", "reads_repository", 0) \in Vals
        /\ e("executes_on_developer", "reads_secret", 10) \in Vals
        /\ e("controls_agent", "executes_on_developer", 10) \in Vals
    BY <1>5
  <2> HIDE DEF kinds
  <2> QED BY <2>1, <2>2, <2>3, <2>4
<1>9. Len(base) = 20 /\ base[18] = e("changes_code", "reads_repository", 0)
  OBVIOUS
<1>7. AreSteps(base) /\ \A d \in Range(base) : d.fix = A!NoFix /\ d.structural
  <2> HIDE DEF base, kinds
  <2>1. IsList(base) /\ Range(base) \subseteq Vals
    BY <1>6, ListIn
  <2> QED BY <2>1, <1>4 DEF AreSteps
<1>8. AreSteps(more) /\ \A d \in Range(more) : d.fix = A!NoFix /\ d.structural
  <2> DEFINE d == e("reads_secret", "publishes_release", 10)
  <2>1. IsStep(d) /\ d.fix = A!NoFix /\ d.structural
    BY <1>0, <1>3
  <2> HIDE DEF d
  <2>2. /\ AreSteps(<<d>>) /\ Range(<<d>>) = {d} /\ AreSteps(<<>>) /\ Range(<<>>) = {}
    BY <2>1, OneStep, NoStep DEF Range
  <2> QED BY <2>1, <2>2 DEF d
<1> HIDE DEF base, more
<1>10. /\ AreSteps(base \o more) /\ Range(base \o more) = Range(base) \cup Range(more)
       /\ 18 \in DOMAIN (base \o more) /\ (base \o more)[18] = base[18]
  <2>1. IsList(base) /\ IsList(more)
    BY <1>7, <1>8 DEF AreSteps
  <2>2. 18 \in DOMAIN base
    BY <2>1, <1>9 DEF IsList
  <2>3. 18 \in DOMAIN (base \o more) /\ (base \o more)[18] = base[18]
    <3> HIDE DEF IsList
    <3> QED BY <2>1, <2>2, InBoth
  <2> QED BY <2>1, <2>3, <1>7, <1>8, StepsOfBoth, ListOfBoth
<1> QED BY <1>0, <1>1, <1>7, <1>8, <1>9, <1>10

\* What files add: those that run by themselves, and the weakest of the watched ones.
LEMMA LeverageStepsAre ==
  ASSUME NEW rows, IsList(rows), \A r \in Range(rows) : r.oversight \in Nat
  PROVE  AreSteps(A!LeverageEdges(rows))
<1> DEFINE fix(r) == <<"leverage", r.id>>
           Gain(r) == IF {"ci_workflow", "run_by"} \cap r.codes # {} THEN "runs_in_ci"
                      ELSE IF "agent_config" \in r.codes THEN "controls_agent"
                      ELSE "executes_on_developer"
           Target(r) == A!Option("ci_pr_target" \in r.codes,
               A!Step("start:malicious_contributor", "runs_in_ci", 10, fix(r), FALSE, FALSE))
           Merge(r) == A!Option(/\ r.leverage >= 7 /\ r.oversight < 6
               /\ {"ci_workflow", "install_script", "run_by", "agent_config"} \cap r.codes # {},
               A!Step("changes_code", Gain(r), 30, fix(r), FALSE, FALSE))
           Secret(r) == A!Option("ci_secrets" \in r.codes,
               A!Step("runs_in_ci", "reads_secret", 10, fix(r), FALSE, TRUE))
           Deploy(r) == A!Option("ci_deploy" \in r.codes,
               A!Step("runs_in_ci", "publishes_release", 10, fix(r), FALSE, TRUE))
           Of(r) == Target(r) \o Merge(r) \o Secret(r) \o Deploy(r)
           seqs == [i \in DOMAIN rows |-> Of(rows[i])]
           watched == {i \in DOMAIN rows : rows[i].leverage >= 7}
           weakest == CHOOSE i \in watched : \A j \in watched :
                          \/ rows[i].oversight < rows[j].oversight
                          \/ rows[i].oversight = rows[j].oversight /\ i <= j
           last == A!Step("start:malicious_contributor", "changes_code",
                          10 + 4 * rows[weakest].oversight, fix(rows[weakest]), FALSE, FALSE)
<1>1. A!LeverageEdges(rows) = FlattenSeq(seqs) \o A!Option(watched # {}, last)
  BY DEF A!LeverageEdges, A!FlattenSeq, FlattenSeq
<1>2. {"start:malicious_contributor", "runs_in_ci", "changes_code", "controls_agent",
       "executes_on_developer", "reads_secret", "publishes_release"} \subseteq Nodes
  BY PlacesByName
<1>3. ASSUME NEW r PROVE AreSteps(Of(r))
  <2>1. Gain(r) \in Nodes /\ fix(r)[1] # "finding"
    BY <1>2
  <2> HIDE DEF Gain, fix
  <2>2. AreSteps(Target(r)) /\ AreSteps(Merge(r)) /\ AreSteps(Secret(r)) /\ AreSteps(Deploy(r))
    <3>1. /\ IsStep(A!Step("start:malicious_contributor", "runs_in_ci", 10, fix(r), FALSE, FALSE))
          /\ IsStep(A!Step("changes_code", Gain(r), 30, fix(r), FALSE, FALSE))
          /\ IsStep(A!Step("runs_in_ci", "reads_secret", 10, fix(r), FALSE, TRUE))
          /\ IsStep(A!Step("runs_in_ci", "publishes_release", 10, fix(r), FALSE, TRUE))
      BY <1>2, <2>1, StepIsStep
    <3> QED BY <3>1, StepOrNone
  <2> HIDE DEF Target, Merge, Secret, Deploy
  <2> QED BY <2>2, StepsOfBoth
<1>4. DOMAIN rows = 1..Len(rows) /\ Len(rows) \in Nat /\ \A i \in DOMAIN rows : rows[i].oversight \in Nat
  BY DEF IsList, Range
<1>5. AreSteps(FlattenSeq(seqs))
  <2> HIDE DEF Of
  <2>1. IsList(seqs) /\ DOMAIN seqs = DOMAIN rows
    <3>1. seqs = [i \in 1..Len(rows) |-> seqs[i]]
      BY <1>4
    <3> HIDE DEF seqs
    <3> QED BY <1>4, <3>1, ListOf
  <2>2. \A i \in DOMAIN seqs : AreSteps(seqs[i])
    BY <1>3
  <2> HIDE DEF seqs
  <2> QED BY <2>1, <2>2, StepsOfAll
<1>6. ASSUME watched # {} PROVE weakest \in watched
  <2>1. PICK v \in {rows[i].oversight : i \in watched} : \A u \in {rows[i].oversight : i \in watched} : v <= u
    <3>1. {rows[i].oversight : i \in watched} \in SUBSET Nat /\ {rows[i].oversight : i \in watched} # {}
      BY <1>4, <1>6
    <3> QED BY <3>1, LeastNumber
  <2> DEFINE U == {i \in watched : rows[i].oversight = v}
  <2>2. PICK i \in U : \A j \in U : i <= j
    <3>1. U \in SUBSET Nat /\ U # {}
      BY <2>1, <1>4
    <3> HIDE DEF U
    <3> QED BY <3>1, LeastNumber
  <2>3. ASSUME NEW j \in watched
        PROVE  \/ rows[i].oversight < rows[j].oversight
               \/ rows[i].oversight = rows[j].oversight /\ i <= j
    <3>1. rows[i].oversight = v /\ v <= rows[j].oversight /\ i \in watched
      BY <2>1, <2>2
    <3>2. rows[i].oversight \in Nat /\ rows[j].oversight \in Nat
      BY <3>1, <1>4
    <3>3. CASE rows[j].oversight = v
      BY <3>1, <3>3, <2>2
    <3>4. CASE rows[j].oversight # v
      BY <3>1, <3>2, <3>4
    <3> QED BY <3>3, <3>4
  <2>4. i \in watched
    BY <2>2
  <2> HIDE DEF watched, U
  <2> QED BY <2>3, <2>4
<1>7. watched # {} => IsStep(last)
  <2>1. SUFFICES ASSUME watched # {} PROVE IsStep(last)
    OBVIOUS
  <2>2. rows[weakest].oversight \in Nat
    <3>1. weakest \in DOMAIN rows
      BY <2>1, <1>6
    <3> QED BY <3>1, <1>4
  <2> DEFINE cost == 10 + 4 * rows[weakest].oversight
  <2>0. fix(rows[weakest])[1] # "finding"
    OBVIOUS
  <2> HIDE DEF weakest, watched, fix
  <2>3. cost \in Nat
    BY <2>2
  <2> HIDE DEF cost
  <2>4. IsStep(A!Step("start:malicious_contributor", "changes_code", cost, fix(rows[weakest]), FALSE, FALSE))
    BY <2>0, <2>3, <1>2, StepIsStep
  <2> QED BY <2>4 DEF cost
<1>8. AreSteps(A!Option(watched # {}, last))
  <2> HIDE DEF watched, last
  <2> QED BY <1>7, StepOrNone
<1> HIDE DEF seqs, watched, last
<1> QED BY <1>1, <1>5, <1>8, StepsOfBoth

\* All the steps of the model are steps between its places.
LEMMA EdgesAreSteps ==
  ASSUME NEW in, IsAttack(in)
  PROVE  AreSteps(A!Edges(in))
<1> DEFINE Of(i) == IF A!FindingEdges(in.findings[i]) # <<>> THEN A!FindingEdges(in.findings[i])
                    ELSE A!McpEdges(in.findings[i])
           seqs == [i \in DOMAIN in.findings |-> Of(i)]
           deploys == \E i \in DOMAIN in.leverage : "ci_deploy" \in in.leverage[i].codes
<1>1. A!Edges(in) = A!StructuralEdges(deploys) \o FlattenSeq(seqs) \o A!LeverageEdges(in.leverage) \o
                    A!DivergenceEdges(in.divergences) \o A!AgentEdges(in.combinations)
  BY DEF A!Edges, A!FlattenSeq, FlattenSeq
<1>2. /\ IsList(in.findings) /\ IsList(in.leverage)
      /\ IsList(in.divergences) /\ IsList(in.combinations)
      /\ \A f \in Range(in.findings) : f.matches \subseteq DOMAIN A!Kinds
      /\ \A r \in Range(in.leverage) : r.oversight \in Nat
  BY DEF IsAttack
<1>3. DOMAIN in.findings = 1..Len(in.findings) /\ Len(in.findings) \in Nat
  BY <1>2 DEF IsList
<1>4. ASSUME NEW i \in DOMAIN in.findings PROVE AreSteps(Of(i))
  <2>1. in.findings[i].matches \subseteq DOMAIN A!Kinds
    BY <1>2 DEF Range
  <2>2. AreSteps(A!FindingEdges(in.findings[i])) /\ AreSteps(A!McpEdges(in.findings[i]))
    BY <2>1, FindingStepsAre, McpStepsAre
  <2> QED BY <2>2
<1>5. AreSteps(FlattenSeq(seqs))
  <2> HIDE DEF Of
  <2>1. IsList(seqs) /\ DOMAIN seqs = DOMAIN in.findings
    <3>1. seqs = [i \in 1..Len(in.findings) |-> seqs[i]]
      BY <1>3
    <3> HIDE DEF seqs
    <3> QED BY <1>3, <3>1, ListOf
  <2>2. \A i \in DOMAIN seqs : AreSteps(seqs[i])
    BY <1>4
  <2> HIDE DEF seqs
  <2> QED BY <2>1, <2>2, StepsOfAll
<1>6. /\ AreSteps(A!StructuralEdges(deploys)) /\ AreSteps(A!LeverageEdges(in.leverage))
      /\ AreSteps(A!DivergenceEdges(in.divergences)) /\ AreSteps(A!AgentEdges(in.combinations))
  <2> HIDE DEF deploys
  <2> QED BY <1>2, StructuralStepsAre, LeverageStepsAre, DivergenceStepsAre, AgentStepsAre
<1> HIDE DEF seqs, deploys
<1> QED BY <1>1, <1>5, <1>6, StepsOfBoth

\* What the model of an attacker reports is the cheapest.
LEMMA AttackIsCheapest ==
  ASSUME NEW in \in Given("attack"), NEW p \in A!Personas
  PROVE  LET edges == A!Edges(in)
             paths == A!Paths(edges, A!Goals(in), DOMAIN edges)
             tree == A!Cheapest(edges, p, DOMAIN edges)
         IN /\ Distances(edges, tree, p)
            /\ \A x \in paths : x.persona = p =>
                   x.cost = CostOf(edges, x.steps) /\ x.cost = tree[x.goal].cost
            /\ \A g \in A!Goals(in) : Nearer(edges, p, DOMAIN edges, Own(edges), g) =>
                   \E x \in paths : x.persona = p /\ x.goal = g
<1> DEFINE edges == A!Edges(in)
<1>1. AreSteps(edges) /\ DOMAIN edges \in SUBSET DOMAIN edges
  BY EdgesAreSteps, AttackAssumption
<1> HIDE DEF edges
<1>2. Distances(edges, A!Cheapest(edges, p, DOMAIN edges), p)
  BY <1>1, TreesAreDistances
<1>3. ASSUME NEW x \in A!Paths(edges, A!Goals(in), DOMAIN edges), x.persona = p
      PROVE  x.cost = CostOf(edges, x.steps) /\ x.cost = A!Cheapest(edges, p, DOMAIN edges)[x.goal].cost
  BY <1>1, <1>3, PathsCostTheirSteps
<1>4. ASSUME NEW g \in A!Goals(in), Nearer(edges, p, DOMAIN edges, Own(edges), g)
      PROVE  \E x \in A!Paths(edges, A!Goals(in), DOMAIN edges) : x.persona = p /\ x.goal = g
  BY <1>1, <1>4, NearerIsReported
<1> QED BY <1>2, <1>3, <1>4 DEF edges

\* What paths cost together is a number.
LEMMA TotalIsNumber ==
  ASSUME NEW paths, IsFiniteSet(paths), \A p \in paths : p.cost \in Nat
  PROVE  A!TotalCost(paths) \in Nat
<1> DEFINE Picked(s) == CHOOSE x \in s : TRUE
           Body(g, s) == IF s = {} THEN 0 ELSE g[s \ {Picked(s)}] + Picked(s).cost
           Good(g, k) == \A s \in SUBSET paths : Cardinality(s) <= k => g[s] = Body(g, s)
           Nums == {k \in Nat : \E g : Good(g, k)}
<1>1. ASSUME NEW s \in SUBSET paths
      PROVE  /\ Cardinality(s) \in Nat /\ Cardinality(s) <= Cardinality(paths)
             /\ s = {} <=> Cardinality(s) = 0
             /\ s # {} => /\ Picked(s) \in s /\ Picked(s).cost \in Nat /\ s \ {Picked(s)} \in SUBSET paths
                          /\ Cardinality(s \ {Picked(s)}) = Cardinality(s) - 1
  <2>1. IsFiniteSet(s) /\ Cardinality(s) \in Nat /\ Cardinality(s) <= Cardinality(paths)
    BY FS_Subset, FS_CardinalityType
  <2>2. s = {} <=> Cardinality(s) = 0
    BY <2>1, FS_EmptySet
  <2>3. ASSUME s # {} PROVE Picked(s) \in s
    BY <2>3
  <2> HIDE DEF Picked
  <2>4. ASSUME s # {} PROVE Cardinality(s \ {Picked(s)}) = Cardinality(s) - 1
    BY <2>1, <2>3, <2>4, FS_RemoveElement
  <2> QED BY <2>1, <2>2, <2>3, <2>4
<1>2. Cardinality(paths) \in Nat
  BY FS_CardinalityType
<1> HIDE DEF Picked
<1>3. 0 \in Nums
  <2> DEFINE none == [s \in SUBSET paths |-> 0]
  <2>1. ASSUME NEW s \in SUBSET paths, Cardinality(s) <= 0 PROVE none[s] = Body(none, s)
    <3>1. Cardinality(s) \in Nat /\ (s = {} <=> Cardinality(s) = 0)
      BY <1>1
    <3>2. s = {}
      BY <3>1, <2>1
    <3>3. none[s] = 0
      OBVIOUS
    <3> HIDE DEF none
    <3> QED BY <3>2, <3>3
  <2> HIDE DEF none, Body
  <2>2. Good(none, 0)
    BY <2>1
  <2> QED BY <2>2
<1>4. ASSUME NEW k \in Nat, k \in Nums PROVE k + 1 \in Nums
  <2>1. PICK g : Good(g, k)
    BY <1>4
  <2> DEFINE new == [s \in SUBSET paths |-> IF Cardinality(s) <= k THEN g[s] ELSE Body(g, s)]
  <2>2. \A s \in SUBSET paths : new[s] = Body(g, s)
    <3> HIDE DEF Body
    <3> QED BY <2>1
  <2>3. ASSUME NEW s \in SUBSET paths, Cardinality(s) <= k + 1, s # {}
        PROVE  new[s \ {Picked(s)}] = g[s \ {Picked(s)}]
    <3>1. s \ {Picked(s)} \in SUBSET paths /\ Cardinality(s \ {Picked(s)}) <= k
      BY <2>3, <1>1
    <3> HIDE DEF Body
    <3> QED BY <3>1
  <2> HIDE DEF new
  <2>4. \A s \in SUBSET paths : Cardinality(s) <= k + 1 => new[s] = Body(new, s)
    BY <2>2, <2>3
  <2> HIDE DEF Body
  <2>5. Good(new, k + 1)
    BY <2>4
  <2> QED BY <2>5
<1>5. PICK g : Good(g, Cardinality(paths))
  <2>1. Cardinality(paths) \in Nums
    <3> HIDE DEF Nums
    <3> QED BY <1>2, <1>3, <1>4, NatInductionOnSets
  <2> QED BY <2>1
<1> DEFINE Rec(iter) == iter = [s \in SUBSET paths |->
                            IF s = {} THEN 0 ELSE iter[s \ {CHOOSE x \in s : TRUE}] + (CHOOSE x \in s : TRUE).cost]
           all == [s \in SUBSET paths |-> g[s]]
           iter == CHOOSE iter : Rec(iter)
<1>6. Rec(all)
  <2>1. ASSUME NEW s \in SUBSET paths PROVE all[s] = Body(all, s)
    <3>1. all[s] = Body(g, s)
      <4> HIDE DEF Body
      <4> QED BY <1>5, <1>1
    <3>2. s # {} => all[s \ {Picked(s)}] = g[s \ {Picked(s)}]
      BY <1>1
    <3> HIDE DEF all
    <3> QED BY <3>1, <3>2
  <2>2. all = [s \in SUBSET paths |-> all[s]]
    OBVIOUS
  <2> HIDE DEF all
  <2>3. \A s \in SUBSET paths : all[s] = IF s = {} THEN 0
                                         ELSE all[s \ {CHOOSE x \in s : TRUE}] + (CHOOSE x \in s : TRUE).cost
    BY <2>1 DEF Picked
  <2> QED BY <2>2, <2>3
<1>7. Rec(iter)
  <2> HIDE DEF Rec, all
  <2> QED BY <1>6
<1>8. A!TotalCost(paths) = iter[paths]
  BY DEF A!TotalCost, A!FoldSet, A!MapThenFoldSet
<1>9. \A s \in SUBSET paths : iter[s] = Body(iter, s)
  BY <1>7 DEF Picked
<1> HIDE DEF iter
<1> DEFINE Small == {k \in Nat : \A s \in SUBSET paths : Cardinality(s) <= k => iter[s] \in Nat}
<1>10. 0 \in Small
  <2>1. ASSUME NEW s \in SUBSET paths, Cardinality(s) <= 0 PROVE iter[s] \in Nat
    <3>1. Cardinality(s) \in Nat /\ (s = {} <=> Cardinality(s) = 0)
      BY <1>1
    <3>2. s = {}
      BY <3>1, <2>1
    <3> QED BY <3>2, <1>9
  <2> QED BY <2>1
<1>11. ASSUME NEW k \in Nat, k \in Small PROVE k + 1 \in Small
  <2>1. SUFFICES ASSUME NEW s \in SUBSET paths, Cardinality(s) <= k + 1 PROVE iter[s] \in Nat
    OBVIOUS
  <2>2. CASE s = {}
    BY <2>2, <1>9
  <2>3. CASE s # {}
    <3>1. /\ s \ {Picked(s)} \in SUBSET paths /\ Cardinality(s \ {Picked(s)}) <= k
          /\ Picked(s).cost \in Nat
      BY <2>1, <2>3, <1>1
    <3>2. iter[s \ {Picked(s)}] \in Nat
      BY <3>1, <1>11
    <3>3. iter[s] = iter[s \ {Picked(s)}] + Picked(s).cost
      BY <2>3, <1>9
    <3> QED BY <3>1, <3>2, <3>3
  <2> QED BY <2>2, <2>3
<1>12. Cardinality(paths) \in Small
  <2> HIDE DEF Small
  <2> QED BY <1>2, <1>10, <1>11, NatInductionOnSets
<1>13. iter[paths] \in Nat
  BY <1>12, <1>1
<1> QED BY <1>8, <1>13

\* Of finitely many numbers one is the largest.
LEMMA LargestOfFinite ==
  ASSUME NEW U, IsFiniteSet(U), U # {}, NEW f \in [U -> Int]
  PROVE  \E x \in U : \A y \in U : f[y] <= f[x]
<1> DEFINE Good(s) == s # {} => \E x \in s : \A y \in s : f[y] <= f[x]
           Nums == {k \in Nat : \A s \in SUBSET U : Cardinality(s) <= k => Good(s)}
<1>1. ASSUME NEW s \in SUBSET U
      PROVE  IsFiniteSet(s) /\ Cardinality(s) \in Nat /\ (s = {} <=> Cardinality(s) = 0)
  <2>1. IsFiniteSet(s) /\ Cardinality(s) \in Nat
    BY FS_Subset, FS_CardinalityType
  <2> QED BY <2>1, FS_EmptySet
<1>2. 0 \in Nums
  BY <1>1
<1>3. ASSUME NEW k \in Nat, k \in Nums PROVE k + 1 \in Nums
  <2>1. SUFFICES ASSUME NEW s \in SUBSET U, Cardinality(s) <= k + 1, s # {} PROVE Good(s)
    OBVIOUS
  <2>2. PICK x \in s : TRUE
    BY <2>1
  <2>3. Good(s \ {x})
    <3>1. Cardinality(s \ {x}) = Cardinality(s) - 1
      BY <1>1, <2>2, FS_RemoveElement
    <3>2. s \ {x} \in SUBSET U /\ Cardinality(s \ {x}) <= k
      BY <3>1, <2>1, <1>1
    <3> QED BY <3>2, <1>3
  <2>4. CASE s \ {x} = {}
    <3>1. \A y \in s : y = x /\ f[x] \in Int
      BY <2>4
    <3> QED BY <3>1, <2>2
  <2>5. CASE s \ {x} # {}
    <3>1. PICK m \in s \ {x} : \A y \in s \ {x} : f[y] <= f[m]
      BY <2>3, <2>5
    <3>2. f[x] \in Int /\ f[m] \in Int /\ \A y \in s : f[y] \in Int
      BY <2>2, <3>1
    <3>3. CASE f[m] <= f[x]
      <4>1. \A y \in s : f[y] <= f[x]
        BY <3>1, <3>2, <3>3
      <4> QED BY <4>1, <2>2
    <3>4. CASE f[x] <= f[m]
      <4>1. \A y \in s : f[y] <= f[m]
        BY <3>1, <3>2, <3>4
      <4> QED BY <4>1, <3>1
    <3> QED BY <3>2, <3>3, <3>4
  <2> QED BY <2>4, <2>5
<1>4. Cardinality(U) \in Nums
  <2>1. Cardinality(U) \in Nat
    BY FS_CardinalityType
  <2> HIDE DEF Nums
  <2> QED BY <1>2, <1>3, <2>1, NatInductionOnSets
<1>5. Cardinality(U) <= Cardinality(U)
  BY FS_CardinalityType
<1> QED BY <1>4, <1>5

\* The counts of the attacker model are counts.
LEMMA SameSize == ASSUME NEW s PROVE A!Cardinality(s) = Cardinality(s)
BY DEF A!Cardinality, Cardinality

\* A fix that cuts something is best, if the counts, the costs and the places are
\* numbers.
LEMMA BestFixCuts ==
  ASSUME NEW tried, NEW cutting, IsFiniteSet(cutting), cutting # {},
         \A f \in cutting : /\ Cardinality(tried[f].cut) \in Nat /\ tried[f].cost \in Int
                            /\ tried[f].place \in Int
  PROVE  A!BestFix(tried, cutting) \in cutting
<1> DEFINE size == [f \in cutting |-> Cardinality(tried[f].cut)]
           most == {f \in cutting : \A g \in cutting : size[g] <= size[f]}
           cost == [f \in most |-> tried[f].cost]
           dearest == {f \in most : \A g \in most : cost[g] <= cost[f]}
           place == [f \in dearest |-> 0 - tried[f].place]
<1>1. most # {} /\ IsFiniteSet(most)
  <2>1. size \in [cutting -> Int]
    OBVIOUS
  <2>2. \E f \in cutting : \A g \in cutting : size[g] <= size[f]
    <3> HIDE DEF size
    <3> QED BY <2>1, LargestOfFinite
  <2>3. IsFiniteSet(most)
    <3> HIDE DEF size
    <3> QED BY FS_Subset
  <2> QED BY <2>2, <2>3
<1>2. dearest # {} /\ IsFiniteSet(dearest)
  <2> HIDE DEF size
  <2>1. cost \in [most -> Int]
    OBVIOUS
  <2> HIDE DEF most
  <2>2. \E f \in most : \A g \in most : cost[g] <= cost[f]
    <3> HIDE DEF cost
    <3> QED BY <1>1, <2>1, LargestOfFinite
  <2>3. IsFiniteSet(dearest)
    <3> HIDE DEF cost
    <3> QED BY <1>1, FS_Subset
  <2> QED BY <2>2, <2>3
<1>3. PICK f \in dearest : \A g \in dearest : place[g] <= place[f]
  <2>1. place \in [dearest -> Int]
    <3> HIDE DEF size, cost
    <3> QED OBVIOUS
  <2> HIDE DEF dearest, place
  <2> QED BY <1>2, <2>1, LargestOfFinite
<1>4. /\ f \in cutting /\ \A g \in cutting : size[g] <= size[f]
      /\ \A g \in most : tried[g].cost <= tried[f].cost
      /\ \A g \in dearest : tried[f].place <= tried[g].place
  <2>1. \A g \in dearest : place[g] = 0 - tried[g].place /\ tried[g].place \in Int
    <3> HIDE DEF size, cost
    <3> QED OBVIOUS
  <2>2. \A g \in dearest : tried[f].place <= tried[g].place
    <3> HIDE DEF dearest, place
    <3> QED BY <1>3, <2>1
  <2> HIDE DEF size, place
  <2> QED BY <2>2
<1>5. ASSUME NEW g \in cutting
      PROVE  \/ size[f] > size[g]
             \/ size[f] = size[g] /\ tried[f].cost > tried[g].cost
             \/ size[f] = size[g] /\ tried[f].cost = tried[g].cost /\ tried[f].place <= tried[g].place
  <2>1. size[f] \in Nat /\ size[g] \in Nat /\ tried[f].cost \in Int /\ tried[g].cost \in Int
    BY <1>4
  <2>2. CASE size[f] # size[g]
    <3> HIDE DEF size
    <3> QED BY <1>4, <2>1, <2>2
  <2>3. CASE size[f] = size[g] /\ tried[f].cost # tried[g].cost
    <3> HIDE DEF size
    <3>1. g \in most
      BY <1>4, <2>3
    <3> QED BY <1>4, <2>1, <2>3, <3>1
  <2>4. CASE size[f] = size[g] /\ tried[f].cost = tried[g].cost
    <3> HIDE DEF size
    <3>1. g \in most
      BY <1>4, <2>4
    <3>2. g \in dearest
      <4>1. \A h \in most : cost[h] = tried[h].cost
        OBVIOUS
      <4> HIDE DEF most
      <4>2. f \in most
        BY <1>3
      <4> HIDE DEF cost
      <4> QED BY <1>4, <2>4, <3>1, <4>1, <4>2
    <3> QED BY <1>4, <2>4, <3>2
  <2> QED BY <2>2, <2>3, <2>4
<1>6. \A g \in cutting : size[g] = Cardinality(tried[g].cut)
  OBVIOUS
<1> HIDE DEF size, most, dearest
<1>7. f \in cutting /\ \A g \in cutting :
          \/ Cardinality(tried[f].cut) > Cardinality(tried[g].cut)
          \/ Cardinality(tried[f].cut) = Cardinality(tried[g].cut) /\ tried[f].cost > tried[g].cost
          \/ /\ Cardinality(tried[f].cut) = Cardinality(tried[g].cut)
             /\ tried[f].cost = tried[g].cost /\ tried[f].place <= tried[g].place
  BY <1>4, <1>5, <1>6
<1>8. \A g \in cutting : A!AsGood(tried, f, g)
  <2>1. SUFFICES ASSUME NEW g \in cutting PROVE A!AsGood(tried, f, g)
    OBVIOUS
  <2>2. \/ Cardinality(tried[f].cut) > Cardinality(tried[g].cut)
        \/ Cardinality(tried[f].cut) = Cardinality(tried[g].cut) /\ tried[f].cost > tried[g].cost
        \/ /\ Cardinality(tried[f].cut) = Cardinality(tried[g].cut)
           /\ tried[f].cost = tried[g].cost /\ tried[f].place <= tried[g].place
    BY <1>7
  <2> QED BY <2>2, SameSize DEF A!AsGood
<1> QED BY <1>7, <1>8 DEF A!BestFix

\* A finite set has finitely many images.
LEMMA ImageIsFinite ==
  ASSUME NEW U, IsFiniteSet(U), NEW f
  PROVE  IsFiniteSet({f[x] : x \in U})
<1> DEFINE g == [x \in U |-> f[x]]
<1>1. g \in Surjection(U, {f[x] : x \in U})
  BY DEF Surjection
<1> QED BY <1>1, FS_Surjection

\* Jewels are places.
LEMMA GoalsArePlaces ==
  ASSUME NEW in, IsAttack(in) PROVE A!Goals(in) \subseteq Nodes
<1>1. in.jewels \subseteq DOMAIN A!JewelKinds
  BY DEF IsAttack
<1>2. \A j \in DOMAIN A!JewelKinds :
          A!JewelKinds[j] \in {"reads_secret", "reads_user_data", "publishes_release",
                               "accesses_admin", "executes_code"}
  BY DEF A!JewelKinds
<1>3. {"reads_secret", "reads_user_data", "publishes_release", "accesses_admin", "executes_code"}
          \subseteq Nodes
  BY PlacesByName
<1> HIDE DEF A!JewelKinds
<1> QED BY <1>1, <1>2, <1>3 DEF A!Goals

\* The range of a list, in the attacker model as here.
LEMMA SameRange == ASSUME NEW s PROVE A!Range(s) = Range(s)
BY DEF A!Range, Range

\* There are finitely many paths, and their costs are numbers.
LEMMA PathsAreFinite ==
  ASSUME NEW edges, AreSteps(edges), NEW goals \in SUBSET Nodes, NEW allowed \in SUBSET DOMAIN edges
  PROVE  LET paths == A!Paths(edges, goals, allowed)
         IN /\ IsFiniteSet(paths) /\ \A x \in paths : x.cost \in Nat
            /\ A!Pairs(paths) \subseteq A!Personas \X goals
<1> DEFINE tree == [q \in A!Personas |-> A!Cheapest(edges, q, allowed)]
           Steps(q, h) == A!PathTo(edges, tree[q], h)
           Path(q, h) == [persona |-> q, goal |-> h, steps |-> Steps(q, h), cost |-> tree[q][h].cost,
                          severity |-> A!PathSeverity(tree[q][h].cost,
                                                      \E i \in Steps(q, h) : edges[i].tentative)]
           all == A!Personas \X goals
           path == [z \in all |-> Path(z[1], z[2])]
           paths == A!Paths(edges, goals, allowed)
<1>1. IsFiniteSet(all)
  <2>1. IsFiniteSet(A!Personas) /\ IsFiniteSet(goals)
    BY PlacesAreListed, FS_Subset
  <2> QED BY <2>1, FS_Product
<1>2. paths = {x \in UNION {{Path(q, h) : h \in goals \cap DOMAIN tree[q]} : q \in A!Personas} :
                  \E i \in x.steps : ~edges[i].structural}
  BY DEF A!Paths
<1> HIDE DEF Path, paths, tree
<1>3. paths \subseteq {path[z] : z \in all}
  <2>1. SUFFICES ASSUME NEW x \in paths PROVE x \in {path[z] : z \in all}
    OBVIOUS
  <2>2. PICK q \in A!Personas, h \in goals : x = Path(q, h)
    BY <1>2
  <2>3. <<q, h>> \in all /\ path[<<q, h>>] = Path(q, h)
    OBVIOUS
  <2> QED BY <2>2, <2>3
<1>4. IsFiniteSet(paths)
  <2> HIDE DEF path, all
  <2>1. IsFiniteSet({path[z] : z \in all})
    BY <1>1, ImageIsFinite
  <2> QED BY <2>1, <1>3, FS_Subset
<1>5. ASSUME NEW x \in paths PROVE /\ x.cost \in Nat /\ x.persona \in A!Personas /\ x.goal \in goals
  <2>1. /\ x.persona \in A!Personas /\ x.goal \in goals \cap DOMAIN A!Cheapest(edges, x.persona, allowed)
        /\ x.cost = A!Cheapest(edges, x.persona, allowed)[x.goal].cost
    BY PathsAreOfTrees DEF paths
  <2>2. x.persona \in Nodes
    BY <2>1, PlacesAreListed
  <2>3. Settled(edges, x.persona, allowed, A!Cheapest(edges, x.persona, allowed), 20)
    BY <2>2, CheapestIsTight
  <2> QED BY <2>1, <2>3 DEF Settled
<1>6. A!Pairs(paths) \subseteq all
  BY <1>5 DEF A!Pairs
<1> QED BY <1>4, <1>5, <1>6 DEF paths

\* The pair of a path.
LEMMA PairsOfPaths ==
  ASSUME NEW paths, NEW p, NEW g, \E x \in paths : x.persona = p /\ x.goal = g
  PROVE  <<p, g>> \in A!Pairs(paths)
BY DEF A!Pairs

\* A path over some steps is a path over more of them.
LEMMA NearerOverMore ==
  ASSUME NEW edges, AreSteps(edges), NEW some \in SUBSET DOMAIN edges,
         NEW more \in SUBSET DOMAIN edges, some \subseteq more, NEW others \in SUBSET DOMAIN edges,
         NEW p \in A!Personas, NEW g, Nearer(edges, p, some, others, g)
  PROVE  Nearer(edges, p, more, others, g)
<1> DEFINE tree == A!Cheapest(edges, p, some)
           bigger == A!Cheapest(edges, p, more)
           other == A!Cheapest(edges, p, others)
<1>1. p \in Nodes
  BY PlacesAreListed
<1>2. /\ Settled(edges, p, some, tree, 20)
      /\ Settled(edges, p, more, bigger, 20) /\ Tight(edges, more, bigger)
      /\ A!Outgoing(edges, more, bigger) = {}
      /\ Settled(edges, p, others, other, 20)
  BY <1>1, CheapestIsTight
<1>3. g \in DOMAIN tree /\ (g \notin DOMAIN other \/ tree[g].cost < other[g].cost)
  BY DEF Nearer
<1> HIDE DEF tree, bigger, other
<1>4. A!PathTo(edges, tree, g) \subseteq more
  BY <1>2, <1>3, PathCosts
<1>5. g \in DOMAIN bigger /\ bigger[g].cost <= tree[g].cost
  BY <1>2, <1>3, <1>4, NoDearerByAPath
<1>6. tree[g].cost \in Nat /\ bigger[g].cost \in Nat
  BY <1>2, <1>3, <1>5 DEF Settled
<1>7. CASE g \notin DOMAIN other
  BY <1>5, <1>7 DEF Nearer, bigger, other
<1>8. CASE g \in DOMAIN other /\ tree[g].cost < other[g].cost
  <2>1. other[g].cost \in Int
    BY <1>2, <1>8 DEF Settled
  <2>2. bigger[g].cost < other[g].cost
    BY <1>5, <1>6, <1>8, <2>1
  <2> QED BY <1>5, <2>2 DEF Nearer, bigger, other
<1> QED BY <1>3, <1>7, <1>8

\* One more at the end of a list.
LEMMA AppendHolds ==
  ASSUME NEW s, IsList(s), NEW e
  PROVE  IsList(Append(s, e)) /\ Range(Append(s, e)) = Range(s) \cup {e}
<1> DEFINE Vals == Range(s) \cup {e}
           n == Len(s)
<1>1. s \in Seq(Vals) /\ n \in Nat /\ DOMAIN s = 1..n /\ \A i \in 1..n : s[i] \in Range(s)
  BY DEF IsList, Range
<1>2. /\ Append(s, e) \in Seq(Vals) /\ DOMAIN Append(s, e) = 1..(n + 1)
      /\ \A i \in 1..n : Append(s, e)[i] = s[i]
      /\ Append(s, e)[n + 1] = e
  BY <1>1
<1> HIDE DEF n
<1>3. ASSUME NEW x \in Range(s) PROVE x \in Range(Append(s, e))
  <2>1. PICK i \in 1..n : x = s[i]
    BY <1>1 DEF Range
  <2>2. i \in 1..(n + 1)
    BY <1>1
  <2> QED BY <2>1, <2>2, <1>2 DEF Range
<1>4. e \in Range(Append(s, e))
  <2>1. n + 1 \in 1..(n + 1)
    BY <1>1
  <2> QED BY <2>1, <1>2 DEF Range
<1>5. Range(Append(s, e)) \subseteq Vals
  BY <1>2, ListIn
<1>6. IsList(Append(s, e))
  BY <1>2, ListIn
<1> QED BY <1>3, <1>4, <1>5, <1>6

\* The rounds of the recommendation.
LEMMA RoundsUnfold ==
  ASSUME NEW edges, NEW goals
  PROVE  \E round :
           /\ round[0] = [chosen |-> <<>>,
                          remaining |-> A!Pairs(A!Paths(edges, goals, A!Solid(edges)))]
           /\ \A k \in 1..3 : round[k] = A!ChooseNext(edges, goals, round[k - 1])
           /\ A!MinCut(edges, goals) = round[3]
<1> DEFINE base == [chosen |-> <<>>, remaining |-> A!Pairs(A!Paths(edges, goals, A!Solid(edges)))]
           Next1(c) == A!ChooseNext(edges, goals, c)
           Rec(round) == round = [k \in 0..3 |-> IF k = 0 THEN base ELSE Next1(round[k - 1])]
           all == [k \in 0..3 |-> IF k = 0 THEN base ELSE IF k = 1 THEN Next1(base)
                                  ELSE IF k = 2 THEN Next1(Next1(base)) ELSE Next1(Next1(Next1(base)))]
           round == CHOOSE round : Rec(round)
<1>1. A!MinCut(edges, goals) = round[3]
  BY DEF A!MinCut, A!CutLimit
<1> HIDE DEF base, Next1
<1>2. all[0] = base /\ all[1] = Next1(base) /\ all[2] = Next1(Next1(base)) /\ all[3] = Next1(Next1(Next1(base)))
  OBVIOUS
<1>3. all = [k \in 0..3 |-> IF k = 0 THEN base ELSE Next1(all[k - 1])]
  <2>1. \A k \in 0..3 : all[k] = IF k = 0 THEN base ELSE Next1(all[k - 1])
    <3>1. \A k \in 0..3 : k \in {0, 1, 2, 3}
      OBVIOUS
    <3>2. ASSUME NEW k \in {1, 2, 3} PROVE all[k] = Next1(all[k - 1])
      <4>1. 1 - 1 = 0 /\ 2 - 1 = 1 /\ 3 - 1 = 2
        OBVIOUS
      <4> HIDE DEF all
      <4>2. CASE k = 1
        BY <4>1, <4>2, <1>2
      <4>3. CASE k = 2
        BY <4>1, <4>3, <1>2
      <4>4. CASE k = 3
        BY <4>1, <4>4, <1>2
      <4> QED BY <4>2, <4>3, <4>4
    <3> HIDE DEF all
    <3> QED BY <3>1, <3>2, <1>2
  <2>2. all = [k \in 0..3 |-> all[k]]
    OBVIOUS
  <2> HIDE DEF all
  <2> QED BY <2>1, <2>2
<1>4. Rec(all)
  <2> HIDE DEF all
  <2> QED BY <1>3
<1>5. Rec(round)
  <2> HIDE DEF Rec, all
  <2> QED BY <1>4
<1> HIDE DEF round
<1>6. round[0] = base /\ \A k \in 1..3 : round[k] = Next1(round[k - 1])
  <2>1. \A k \in 0..3 : round[k] = IF k = 0 THEN base ELSE Next1(round[k - 1])
    BY <1>5
  <2>2. 0 \in 0..3 /\ \A k \in 1..3 : k \in 0..3 /\ k # 0
    OBVIOUS
  <2> QED BY <2>1, <2>2
<1> QED BY <1>1, <1>6 DEF base, Next1

\* What every other fix would cut is known, and what it would cost and where it is.
Weighed(edges, goals, c, tried) ==
  /\ IsFiniteSet(DOMAIN tried)
  /\ \A fix \in DOMAIN tried :
       /\ Cardinality(tried[fix].cut) \in Nat
       /\ tried[fix].cost \in Nat /\ tried[fix].place \in Nat
       /\ tried[fix].cut = c.remaining \ A!Pairs(A!Paths(edges, goals,
              A!Solid(edges) \ UNION {A!StepsOf(edges, f) : f \in Range(c.chosen) \cup {fix}}))

LEMMA FixesAreTried ==
  ASSUME NEW edges, AreSteps(edges), NEW goals \in SUBSET Nodes,
         NEW c, c.remaining \subseteq A!Personas \X goals
  PROVE  Weighed(edges, goals, c, A!Tried(edges, goals, c))
<1> DEFINE Gone(fix) == UNION {A!StepsOf(edges, f) : f \in Range(c.chosen) \cup {fix}}
           Left(fix) == A!Paths(edges, goals, A!Solid(edges) \ Gone(fix))
           tried == A!Tried(edges, goals, c)
<1>1. /\ DOMAIN tried = A!Fixes(edges) \ Range(c.chosen)
      /\ \A fix \in DOMAIN tried : tried[fix] = A!Without(edges, fix, c.remaining, Left(fix))
  BY SameRange DEF A!Tried
<1>2. IsFiniteSet(DOMAIN edges)
  <2>1. Len(edges) \in Nat /\ DOMAIN edges = 1..Len(edges)
    BY DEF AreSteps, IsList
  <2>2. IsFiniteSet(1..Len(edges))
    BY <2>1, FS_Interval
  <2> QED BY <2>1, <2>2
<1>3. IsFiniteSet(A!Fixes(edges))
  <2> DEFINE fix == [i \in DOMAIN edges |-> edges[i].fix]
             firm == {j \in A!Solid(edges) : ~edges[j].structural}
  <2>1. firm \subseteq DOMAIN edges
    BY DEF A!Solid
  <2>2. A!Fixes(edges) \subseteq {fix[i] : i \in firm}
    <3>1. A!Fixes(edges) = {edges[i].fix : i \in firm} \ {A!NoFix}
      BY DEF A!Fixes
    <3>2. \A i \in firm : fix[i] = edges[i].fix
      BY <2>1
    <3> HIDE DEF firm, fix
    <3> QED BY <3>1, <3>2
  <2> HIDE DEF fix, firm
  <2>3. IsFiniteSet(firm)
    BY <2>1, <1>2, FS_Subset
  <2>4. IsFiniteSet({fix[i] : i \in firm})
    BY <2>3, ImageIsFinite
  <2> QED BY <2>2, <2>4, FS_Subset
<1>4. IsFiniteSet(DOMAIN tried)
  BY <1>1, <1>3, FS_Subset
<1>5. IsFiniteSet(c.remaining)
  <2>1. IsFiniteSet(A!Personas) /\ IsFiniteSet(goals)
    BY PlacesAreListed, FS_Subset
  <2>2. IsFiniteSet(A!Personas \X goals)
    BY <2>1, FS_Product
  <2> QED BY <2>2, FS_Subset
<1>6. ASSUME NEW fix \in DOMAIN tried
      PROVE  /\ Cardinality(tried[fix].cut) \in Nat
             /\ tried[fix].cost \in Nat /\ tried[fix].place \in Nat
             /\ tried[fix].cut = c.remaining \ A!Pairs(Left(fix))
  <2>1. /\ tried[fix].cut = c.remaining \ A!Pairs(Left(fix))
        /\ tried[fix].cost = A!TotalCost(Left(fix))
        /\ tried[fix].place = A!Least(A!StepsOf(edges, fix))
    <3> HIDE DEF tried, Left
    <3> QED BY <1>1 DEF A!Without
  <2>2. A!TotalCost(Left(fix)) \in Nat
    <3>1. A!Solid(edges) \ Gone(fix) \in SUBSET DOMAIN edges
      BY DEF A!Solid
    <3> HIDE DEF Gone
    <3>2. IsFiniteSet(Left(fix)) /\ \A x \in Left(fix) : x.cost \in Nat
      BY <3>1, PathsAreFinite
    <3> HIDE DEF Left
    <3> QED BY <3>2, TotalIsNumber
  <2>3. A!Least(A!StepsOf(edges, fix)) \in Nat
    <3>1. DOMAIN edges \subseteq Nat
      BY DEF AreSteps, IsList
    <3>2. A!StepsOf(edges, fix) \subseteq DOMAIN edges
      BY DEF A!StepsOf
    <3>3. A!StepsOf(edges, fix) # {}
      <4>1. fix \in A!Fixes(edges)
        BY <1>1
      <4>2. PICK i \in A!Solid(edges) : ~edges[i].structural /\ fix = edges[i].fix
        BY <4>1 DEF A!Fixes
      <4> QED BY <4>2 DEF A!Solid, A!StepsOf
    <3> QED BY <3>1, <3>2, <3>3, LeastIs
  <2>4. Cardinality(c.remaining \ A!Pairs(Left(fix))) \in Nat
    <3> HIDE DEF Left
    <3>1. IsFiniteSet(c.remaining \ A!Pairs(Left(fix)))
      BY <1>5, FS_Subset
    <3> QED BY <3>1, FS_CardinalityType
  <2> QED BY <2>1, <2>2, <2>3, <2>4
<1> QED BY <1>4, <1>6 DEF Weighed

\* What the chosen fixes remove is cut: some of them leave the pair without a path.
Cut(edges, goals, chosen, p, g) ==
  \E some \in SUBSET Range(chosen) :
      <<p, g>> \notin A!Pairs(A!Paths(edges, goals,
                          A!Solid(edges) \ UNION {A!StepsOf(edges, f) : f \in some}))

\* Every pair is still there or is cut.
Held(edges, goals, c) ==
  /\ IsList(c.chosen) /\ c.remaining \subseteq A!Personas \X goals
  /\ \A p \in A!Personas : \A g \in goals :
         <<p, g>> \notin c.remaining => Cut(edges, goals, c.chosen, p, g)

\* A round keeps it so: what is cut anew is cut by all that is chosen so far.
LEMMA RoundsHold ==
  ASSUME NEW edges, AreSteps(edges), NEW goals \in SUBSET Nodes, NEW c, Held(edges, goals, c)
  PROVE  Held(edges, goals, A!ChooseNext(edges, goals, c))
<1> DEFINE tried == A!Tried(edges, goals, c)
           cutting == {fix \in DOMAIN tried : tried[fix].cut # {}}
           best == A!BestFix(tried, cutting)
           next == [chosen |-> Append(c.chosen, best), remaining |-> c.remaining \ tried[best].cut]
           Rest(some) == A!Paths(edges, goals, A!Solid(edges) \ UNION {A!StepsOf(edges, f) : f \in some})
<1>1. A!ChooseNext(edges, goals, c) = IF c.remaining = {} \/ cutting = {} THEN c ELSE next
  BY DEF A!ChooseNext, A!ChooseFix, A!Recommend
<1>2. CASE c.remaining = {} \/ cutting = {}
  <2> HIDE DEF cutting
  <2> QED BY <1>1, <1>2
<1>3. CASE c.remaining # {} /\ cutting # {}
  <2>1. /\ IsFiniteSet(DOMAIN tried)
        /\ \A fix \in DOMAIN tried :
              /\ Cardinality(tried[fix].cut) \in Nat
              /\ tried[fix].cost \in Nat /\ tried[fix].place \in Nat
              /\ tried[fix].cut = c.remaining \ A!Pairs(Rest(Range(c.chosen) \cup {fix}))
    <3>1. c.remaining \subseteq A!Personas \X goals
      BY DEF Held
    <3>2. Weighed(edges, goals, c, A!Tried(edges, goals, c))
      BY <3>1, FixesAreTried
    <3> QED BY <3>2 DEF Weighed
  <2> HIDE DEF tried, Rest
  <2>2. IsFiniteSet(cutting) /\ cutting \subseteq DOMAIN tried
    BY <2>1, FS_Subset
  <2>3. best \in DOMAIN tried
    <3> HIDE DEF cutting
    <3>1. \A f \in cutting : /\ Cardinality(tried[f].cut) \in Nat /\ tried[f].cost \in Int
                             /\ tried[f].place \in Int
      <4>1. SUFFICES ASSUME NEW f \in cutting
                     PROVE  /\ Cardinality(tried[f].cut) \in Nat /\ tried[f].cost \in Int
                            /\ tried[f].place \in Int
        OBVIOUS
      <4>2. f \in DOMAIN tried
        BY <2>2
      <4>3. Cardinality(tried[f].cut) \in Nat /\ tried[f].cost \in Nat /\ tried[f].place \in Nat
        BY <4>2, <2>1
      <4> QED BY <4>3
    <3>2. best \in cutting
      BY <3>1, <2>2, <1>3, BestFixCuts
    <3> QED BY <3>2, <2>2
  <2>4. A!ChooseNext(edges, goals, c) = next
    <3> HIDE DEF cutting, next
    <3> QED BY <1>1, <1>3
  <2> HIDE DEF cutting, best
  <2>5. IsList(next.chosen) /\ Range(next.chosen) = Range(c.chosen) \cup {best}
    BY AppendHolds DEF Held
  <2>6. next.remaining = c.remaining \ tried[best].cut
    OBVIOUS
  <2> HIDE DEF next
  <2>7. next.remaining \subseteq A!Personas \X goals
    BY <2>6 DEF Held
  <2>8. ASSUME NEW p \in A!Personas, NEW g \in goals, <<p, g>> \notin next.remaining
        PROVE  \E some \in SUBSET Range(next.chosen) : <<p, g>> \notin A!Pairs(Rest(some))
    <3>1. CASE <<p, g>> \in c.remaining
      <4>1. <<p, g>> \notin A!Pairs(Rest(Range(c.chosen) \cup {best}))
        BY <2>1, <2>3, <2>6, <2>8, <3>1
      <4> QED BY <4>1, <2>5
    <3>2. CASE <<p, g>> \notin c.remaining
      <4>1. PICK some \in SUBSET Range(c.chosen) : <<p, g>> \notin A!Pairs(Rest(some))
        BY <2>8, <3>2 DEF Held, Cut, Rest
      <4> QED BY <4>1, <2>5
    <3> QED BY <3>1, <3>2
  <2> QED BY <2>4, <2>5, <2>7, <2>8 DEF Held, Cut, Rest
<1> QED BY <1>2, <1>3

\* So it is of the recommendation.
LEMMA MinCutHolds ==
  ASSUME NEW edges, AreSteps(edges), NEW goals \in SUBSET Nodes
  PROVE  Held(edges, goals, A!MinCut(edges, goals))
<1>1. PICK round :
        /\ round[0] = [chosen |-> <<>>,
                       remaining |-> A!Pairs(A!Paths(edges, goals, A!Solid(edges)))]
        /\ \A k \in 1..3 : round[k] = A!ChooseNext(edges, goals, round[k - 1])
        /\ A!MinCut(edges, goals) = round[3]
  BY RoundsUnfold
<1>2. Held(edges, goals, round[0])
  <2>1. A!Solid(edges) = Firm(edges) /\ A!Solid(edges) \in SUBSET DOMAIN edges
    BY DEF A!Solid, Firm
  <2>2. round[0].chosen = <<>> /\ round[0].remaining = A!Pairs(A!Paths(edges, goals, A!Solid(edges)))
    BY <1>1
  <2>3. round[0].remaining \subseteq A!Personas \X goals
    <3>1. A!Pairs(A!Paths(edges, goals, A!Solid(edges))) \subseteq A!Personas \X goals
      BY <2>1, PathsAreFinite
    <3> QED BY <3>1, <2>2
  <2>4. IsList(<<>>)
    BY DEF IsList, Range
  <2>5. ASSUME NEW p \in A!Personas, NEW g \in goals, <<p, g>> \notin round[0].remaining
        PROVE  Cut(edges, goals, round[0].chosen, p, g)
    <3>1. A!Solid(edges) \ UNION {A!StepsOf(edges, f) : f \in {}} = A!Solid(edges)
      OBVIOUS
    <3> QED BY <2>2, <2>5, <3>1 DEF Cut
  <2> QED BY <2>2, <2>3, <2>4, <2>5 DEF Held
<1>3. ASSUME NEW k \in 1..3, Held(edges, goals, round[k - 1]) PROVE Held(edges, goals, round[k])
  BY <1>1, <1>3, RoundsHold
<1>4. Held(edges, goals, round[1])
  <2>1. 1 \in 1..3 /\ 1 - 1 = 0
    OBVIOUS
  <2> QED BY <2>1, <1>2, <1>3
<1>5. Held(edges, goals, round[2])
  <2>1. 2 \in 1..3 /\ 2 - 1 = 1
    OBVIOUS
  <2> QED BY <2>1, <1>4, <1>3
<1>6. Held(edges, goals, round[3])
  <2>1. 3 \in 1..3 /\ 3 - 1 = 2
    OBVIOUS
  <2> QED BY <2>1, <1>5, <1>3
<1> QED BY <1>1, <1>6

\* A pair that is said to be cut off is no nearer than by itself once the chosen fixes
\* are in place.
LEMMA CutIsHeld ==
  ASSUME NEW in \in Given("attack"), NEW p \in A!Personas, NEW g \in A!Goals(in),
         NEW cut, cut = A!MinCut(A!Edges(in), A!Goals(in)),
         <<p, g>> \notin cut.remaining
  PROVE  LET edges == A!Edges(in)
             left == {i \in Firm(edges) : edges[i].structural \/ edges[i].fix \notin Range(cut.chosen)}
         IN ~Nearer(edges, p, left, Own(edges), g)
<1> DEFINE edges == A!Edges(in)
           goals == A!Goals(in)
           left == {i \in Firm(edges) : edges[i].structural \/ edges[i].fix \notin Range(cut.chosen)}
<1>1. AreSteps(edges) /\ goals \in SUBSET Nodes
  BY EdgesAreSteps, GoalsArePlaces, AttackAssumption
<1> HIDE DEF edges, goals
<1>2. Held(edges, goals, cut)
  BY <1>1, MinCutHolds DEF edges, goals
<1>3. PICK some \in SUBSET Range(cut.chosen) :
        <<p, g>> \notin A!Pairs(A!Paths(edges, goals,
                            A!Solid(edges) \ UNION {A!StepsOf(edges, f) : f \in some}))
  BY <1>2 DEF Held, Cut, edges, goals
<1> DEFINE more == A!Solid(edges) \ UNION {A!StepsOf(edges, f) : f \in some}
<1>4. left \subseteq more /\ more \in SUBSET DOMAIN edges /\ left \in SUBSET DOMAIN edges
  <2>1. ASSUME NEW i \in left PROVE i \in more
    <3>1. i \in A!Solid(edges)
      BY DEF A!Solid, Firm
    <3>2. ASSUME NEW f \in some, i \in A!StepsOf(edges, f) PROVE FALSE
      BY <3>2 DEF A!StepsOf
    <3> QED BY <3>1, <3>2
  <2>2. left \subseteq DOMAIN edges /\ more \subseteq DOMAIN edges
    BY DEF Firm, A!Solid
  <2> QED BY <2>1, <2>2
<1> HIDE DEF left, more
<1>5. SUFFICES ASSUME Nearer(edges, p, left, Own(edges), g) PROVE FALSE
  BY DEF left, edges
<1>6. Own(edges) \in SUBSET DOMAIN edges
  BY DEF Own
<1>7. Nearer(edges, p, more, Own(edges), g)
  BY <1>1, <1>4, <1>5, <1>6, NearerOverMore
<1>8. \E x \in A!Paths(edges, goals, more) : x.persona = p /\ x.goal = g
  BY <1>1, <1>4, <1>7, NearerIsReported DEF goals
<1> QED BY <1>3, <1>8, PairsOfPaths DEF more

\* What an attack answers.
LEMMA AttackAnswers ==
  ASSUME NEW in
  PROVE  /\ AttackOn(in).paths = A!Paths(A!Edges(in), A!Goals(in), DOMAIN A!Edges(in))
         /\ AttackOn(in).cut = A!MinCut(A!Edges(in), A!Goals(in))
BY DEF AttackOn, Attack

\* The paths of an answer are cheapest paths.
LEMMA PathsSound ==
  ASSUME asked.in \in Given("attack"), answer.value = AttackOn(asked.in)
  PROVE  CheapestPaths
<1> DEFINE edges == A!Edges(asked.in)
           goals == A!Goals(asked.in)
<1>1. answer.value.paths = A!Paths(edges, goals, DOMAIN edges)
  BY AttackAnswers
<1>2. ASSUME NEW p \in A!Personas
      PROVE  LET tree == A!Cheapest(edges, p, DOMAIN edges)
             IN /\ Distances(edges, tree, p)
                /\ \A x \in answer.value.paths : x.persona = p =>
                       x.cost = CostOf(edges, x.steps) /\ x.cost = tree[x.goal].cost
                /\ \A g \in goals : Nearer(edges, p, DOMAIN edges, Own(edges), g) =>
                       \E x \in answer.value.paths : x.persona = p /\ x.goal = g
  BY <1>1, AttackIsCheapest
<1> QED BY <1>2 DEF CheapestPaths

\* The fixes of an answer cut what they are said to cut.
LEMMA CutSound ==
  ASSUME asked.in \in Given("attack"), answer.value = AttackOn(asked.in)
  PROVE  CutsHold
<1> DEFINE edges == A!Edges(asked.in)
           cut == answer.value.cut
           left == {i \in Firm(edges) : edges[i].structural \/ edges[i].fix \notin Range(cut.chosen)}
<1>1. cut = A!MinCut(edges, A!Goals(asked.in))
  BY AttackAnswers
<1> HIDE DEF cut
<1>2. ASSUME NEW p \in A!Personas, NEW g \in A!Goals(asked.in),
             Nearer(edges, p, Firm(edges), Own(edges), g), <<p, g>> \notin cut.remaining
      PROVE  ~Nearer(edges, p, left, Own(edges), g)
  BY <1>1, <1>2, CutIsHeld
<1> QED BY <1>2 DEF CutsHold, cut

\* Every place that a search reaches is as far as no step can undercut, every path costs
\* what its steps cost, and every jewel that a flaw brings nearer has a path that is
\* reported (attacker.cheapest, analyze).
THEOREM PathsAreCheapest == Spec => []CheapestPaths
<1>1. Inv => CheapestPaths
  <2> SUFFICES ASSUME Inv, Answered("attack") PROVE CheapestPaths
    BY DEF CheapestPaths
  <2>1. asked.in \in Given("attack") /\ answer.value = AttackOn(asked.in)
    BY AnsweredAsFound DEF ResultOf
  <2> QED BY <2>1, PathsSound
<1> QED BY <1>1, InvHolds, PTL

\* A pair of a profile and a jewel that is said to be cut off is brought no nearer by any
\* flaw that is left once the recommended fixes are in place (attacker.min_cut).
THEOREM RecommendedFixesCut == Spec => []CutsHold
<1>1. Inv => CutsHold
  <2> SUFFICES ASSUME Inv, Answered("attack") PROVE CutsHold
    BY DEF CutsHold
  <2>1. asked.in \in Given("attack") /\ answer.value = AttackOn(asked.in)
    BY AnsweredAsFound DEF ResultOf
  <2> QED BY <2>1, CutSound
<1> QED BY <1>1, InvHolds, PTL

===============================================================================
