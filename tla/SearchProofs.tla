----------------------------- MODULE SearchProofs -----------------------------
(***************************************************************************)
(* Proofs that the other searches over attack steps, for what a finding is *)
(* worth and for what a change would do, agree with the paths reported.    *)
(*                                                                         *)
(* A search settles places in an order that its steps alone decide: by     *)
(* cost, then by name, and the step it takes to a place is the first of    *)
(* those that are alike.  So a search over fewer steps finds the very path *)
(* that one over more finds, if that path needs no other step.  This is    *)
(* what relates the searches before and after a change.                    *)
(***************************************************************************)
EXTENDS AttackProofs


(***************************************************************************)
(* The order of a search.                                                  *)
(***************************************************************************)

\* Places are told apart by their positions.
LEMMA PositionsDiffer ==
  ASSUME NEW m \in Nodes, NEW n \in Nodes, A!Position[m] = A!Position[n]
  PROVE  m = n
<1>1. ASSUME NEW x \in Nodes PROVE A!Places[A!Position[x]] = x
  <2>1. x \in A!Range(A!Places) /\ \E i \in DOMAIN A!Places : A!Places[i] = x
    BY DEF A!Range, Nodes, Range
  <2>2. A!Position[x] = CHOOSE i \in DOMAIN A!Places : A!Places[i] = x
    BY <2>1 DEF A!Position
  <2> QED
    <3> HIDE DEF Nodes
    <3> QED BY <2>1, <2>2
<1> QED BY <1>1

\* A step comes before another if it leads to a place no dearer, and for as much to one
\* named before, and to the same for as much from one settled before, and listed before.
Before(edges, tree, i, j) ==
  LET cost == A!CostBy(edges, tree, i)
      other == A!CostBy(edges, tree, j)
      rank == tree[edges[i].from].rank
      behind == tree[edges[j].from].rank
  IN /\ cost <= other
     /\ cost = other => A!Position[edges[i].to] <= A!Position[edges[j].to]
     /\ cost = other /\ edges[i].to = edges[j].to => rank <= behind /\ (rank = behind => i <= j)

\* A place is settled once, and by a step that comes before all that then led out.
Ordered(edges, start, allowed, tree) ==
  /\ \A m, n \in DOMAIN tree : tree[m].rank = tree[n].rank => m = n
  /\ \A n \in DOMAIN tree \ {start} : \A j \in allowed :
         /\ edges[j].from \in DOMAIN tree /\ tree[edges[j].from].rank < tree[n].rank
         /\ edges[j].to \in DOMAIN tree => tree[n].rank <= tree[edges[j].to].rank
         => Before(edges, tree, tree[n].back, j)

\* The nearest step comes before all others.
LEMMA NearestIsBefore ==
  ASSUME NEW edges, AreSteps(edges), NEW allowed \in SUBSET DOMAIN edges, NEW start, NEW k \in Nat,
         NEW tree, Settled(edges, start, allowed, tree, k),
         NEW out, out = A!Outgoing(edges, allowed, tree), out # {}
  PROVE  \A j \in out : Before(edges, tree, A!Nearest(edges, tree, out), j)
<1> DEFINE cost == [j \in out |-> A!CostBy(edges, tree, j)]
           place == [j \in out |-> A!Position[edges[j].to]]
           rank == [j \in out |-> tree[edges[j].from].rank]
           near == A!Lowest(out, cost)
           there == A!Lowest(near, place)
           last == A!Lowest(there, rank)
<1>1. ASSUME NEW j \in out
      PROVE  j \in Nat /\ cost[j] \in Nat /\ place[j] \in Nat /\ rank[j] \in Nat
  <2>1. j \in DOMAIN edges /\ edges[j].from \in DOMAIN tree
    BY DEF A!Outgoing
  <2>2. edges[j].to \in Nodes /\ edges[j].cost \in Nat /\ j \in Nat
    BY <2>1 DEF AreSteps, IsStep, IsList, Range
  <2>3. tree[edges[j].from].cost \in Nat /\ tree[edges[j].from].rank \in Nat
    BY <2>1 DEF Settled
  <2> QED BY <2>1, <2>2, <2>3, PlacesAreListed DEF A!CostBy
<1>2. \A j \in out : /\ cost[j] = A!CostBy(edges, tree, j) /\ place[j] = A!Position[edges[j].to]
                     /\ rank[j] = tree[edges[j].from].rank
  OBVIOUS
<1>3. A!Nearest(edges, tree, out) = A!Least(last)
  BY DEF A!Nearest
<1> HIDE DEF cost, place, rank
<1>4. near = {i \in out : \A j \in out : cost[i] <= cost[j]}
  BY DEF A!Lowest
<1>5. there = {i \in near : \A j \in near : place[i] <= place[j]}
  BY DEF A!Lowest
<1>6. last = {i \in there : \A j \in there : rank[i] <= rank[j]}
  BY DEF A!Lowest
<1>7. near # {} /\ there # {} /\ last # {}
  <2> HIDE DEF last
  <2>1. near # {} /\ near \subseteq out
    BY <1>1, LowestAre
  <2> HIDE DEF near
  <2>2. there # {} /\ there \subseteq near
    BY <2>1, <1>1, LowestAre
  <2> HIDE DEF there
  <2> QED BY <2>1, <2>2, <1>1, LowestAre DEF last
<1> DEFINE i == A!Least(last)
<1> HIDE DEF near, there, last
<1>8. i \in last /\ \A j \in last : i <= j
  <2>1. last \in SUBSET Nat
    BY <1>1, <1>4, <1>5, <1>6
  <2> QED BY <2>1, <1>7, LeastIs
<1> HIDE DEF i
<1>9. ASSUME NEW j \in out
      PROVE  /\ cost[i] <= cost[j]
             /\ cost[i] = cost[j] => place[i] <= place[j]
             /\ cost[i] = cost[j] /\ place[i] = place[j] =>
                    rank[i] <= rank[j] /\ (rank[i] = rank[j] => i <= j)
  <2>1. i \in out /\ i \in near /\ i \in there
    BY <1>8, <1>4, <1>5, <1>6
  <2>2. cost[i] <= cost[j]
    BY <2>1, <1>4
  <2>3. cost[i] = cost[j] => j \in near
    BY <2>1, <1>4
  <2>4. cost[i] = cost[j] => place[i] <= place[j]
    BY <2>1, <2>3, <1>5
  <2>5. cost[i] = cost[j] /\ place[i] = place[j] => j \in there
    BY <2>1, <2>3, <1>5
  <2>6. j \in there => rank[i] <= rank[j]
    BY <1>8, <1>6
  <2>7. j \in there /\ rank[i] = rank[j] => j \in last
    BY <1>8, <1>6
  <2> QED BY <2>2, <2>4, <2>5, <2>6, <2>7, <1>8
<1>10. i \in out
  BY <1>8, <1>6, <1>5, <1>4
<1>11. SUFFICES ASSUME NEW j \in out PROVE Before(edges, tree, i, j)
  BY <1>3 DEF i
<1> QED BY <1>9, <1>10, <1>2 DEF Before

\* What was settled stays as it was, and what is settled next comes before the rest.
LEMMA SettleOrders ==
  ASSUME NEW edges, AreSteps(edges), NEW allowed \in SUBSET DOMAIN edges, NEW start, NEW k \in Nat,
         NEW tree, Settled(edges, start, allowed, tree, k), Ordered(edges, start, allowed, tree)
  PROVE  Ordered(edges, start, allowed, A!Settle(edges, allowed, tree, k + 1))
<1> DEFINE out == A!Outgoing(edges, allowed, tree)
           i == A!Nearest(edges, tree, out)
           to == edges[i].to
           entry == [cost |-> A!CostBy(edges, tree, i), back |-> i, rank |-> k + 1]
           new == [n \in DOMAIN tree \cup {to} |-> IF n \in DOMAIN tree THEN tree[n] ELSE entry]
           next == A!Settle(edges, allowed, tree, k + 1)
<1>1. CASE out = {}
  <2>1. next = tree
    BY <1>1 DEF A!Settle
  <2> HIDE DEF next
  <2> QED BY <2>1 DEF next
<1>2. CASE out # {}
  <2>1. next = new
    BY <1>2 DEF A!Settle, A!Join
  <2>2. i \in out /\ \A j \in out : Before(edges, tree, i, j)
    <3> HIDE DEF out
    <3>1. out = A!Outgoing(edges, allowed, tree)
      BY DEF out
    <3> QED BY <3>1, <1>2, NearestIsCheapest, NearestIsBefore
  <2>3. i \in allowed /\ edges[i].from \in DOMAIN tree /\ to \notin DOMAIN tree
    <3> HIDE DEF i
    <3> QED BY <2>2 DEF A!Outgoing
  <2>4. /\ DOMAIN new = DOMAIN tree \cup {to} /\ \A n \in DOMAIN tree : new[n] = tree[n]
        /\ new[to].back = i /\ new[to].rank = k + 1
    <3> HIDE DEF to, i
    <3> QED BY <2>3
  <2>5. \A n \in DOMAIN tree : tree[n].rank \in 0..k
    BY DEF Settled
  <2> HIDE DEF new, next, out, i
  <2>6. ASSUME NEW m \in DOMAIN new, NEW n \in DOMAIN new, new[m].rank = new[n].rank PROVE m = n
    <3>1. CASE m \in DOMAIN tree /\ n \in DOMAIN tree
      BY <3>1, <2>4, <2>6 DEF Ordered
    <3>2. CASE ~(m \in DOMAIN tree /\ n \in DOMAIN tree)
      <4>1. \A x \in DOMAIN tree : new[x].rank # k + 1
        BY <2>4, <2>5
      <4> QED BY <4>1, <3>2, <2>4, <2>6
    <3> QED BY <3>1, <3>2
  <2>7. ASSUME NEW n \in DOMAIN new \ {start}, NEW j \in allowed,
               edges[j].from \in DOMAIN new, new[edges[j].from].rank < new[n].rank,
               edges[j].to \in DOMAIN new => new[n].rank <= new[edges[j].to].rank
        PROVE  Before(edges, new, new[n].back, j)
    <3>1. edges[j].from \in DOMAIN tree
      <4>1. new[n].rank <= k + 1 /\ new[n].rank \in Nat
        BY <2>4, <2>5
      <4> QED BY <4>1, <2>4, <2>7
    <3>2. CASE n \in DOMAIN tree
      <4>1. new[n] = tree[n] /\ new[edges[j].from] = tree[edges[j].from]
        BY <3>1, <3>2, <2>4
      <4>2. edges[j].to \in DOMAIN tree => tree[n].rank <= tree[edges[j].to].rank
        BY <4>1, <2>4, <2>7
      <4>3. Before(edges, tree, tree[n].back, j)
        BY <4>1, <4>2, <3>1, <3>2, <2>7 DEF Ordered
      <4>4. new[edges[tree[n].back].from] = tree[edges[tree[n].back].from]
        BY <3>2, <2>4, <2>7 DEF Settled
      <4> QED BY <4>1, <4>3, <4>4 DEF Before, A!CostBy
    <3>3. CASE n = to
      <4>1. edges[j].to \notin DOMAIN tree
        <5>1. new[n].rank = k + 1
          BY <3>3, <2>4
        <5>2. \A x \in DOMAIN tree : new[x].rank \in 0..k /\ x \in DOMAIN new
          BY <2>4, <2>5
        <5> QED BY <5>1, <5>2, <2>7
      <4>2. Before(edges, tree, i, j)
        BY <4>1, <3>1, <2>2 DEF out, A!Outgoing
      <4>3. /\ new[n].back = i /\ new[edges[i].from] = tree[edges[i].from]
            /\ new[edges[j].from] = tree[edges[j].from]
        BY <3>1, <3>3, <2>3, <2>4
      <4> QED BY <4>2, <4>3 DEF Before, A!CostBy
    <3> QED BY <3>2, <3>3, <2>4
  <2>8. Ordered(edges, start, allowed, new)
    <3> HIDE DEF to
    <3> QED BY <2>6, <2>7 DEF Ordered
  <2> QED BY <2>1, <2>8 DEF next
<1> QED BY <1>1, <1>2

\* The tree that a search ends with is settled in order.
LEMMA CheapestIsOrdered ==
  ASSUME NEW edges, AreSteps(edges), NEW allowed \in SUBSET DOMAIN edges, NEW start \in Nodes
  PROVE  Ordered(edges, start, allowed, A!Cheapest(edges, start, allowed))
<1>1. PICK tree : /\ tree[0] = [n \in {start} |-> [cost |-> 0, back |-> 0, rank |-> 0]]
                  /\ \A k \in 1..20 : tree[k] = A!Settle(edges, allowed, tree[k - 1], k)
                  /\ A!Cheapest(edges, start, allowed) = tree[20]
  BY CheapestUnfolds
<1> DEFINE Good(k) == /\ Settled(edges, start, allowed, tree[k], k) /\ Tight(edges, allowed, tree[k])
                      /\ Grows(edges, allowed, tree[k], k) /\ Ordered(edges, start, allowed, tree[k])
           Nums == {k \in Nat : k \in 0..20 => Good(k)}
<1>2. 0 \in Nums
  <2> DEFINE one == tree[0]
  <2>1. DOMAIN one = {start} /\ one[start] = [cost |-> 0, back |-> 0, rank |-> 0]
    BY <1>1
  <2>2. \A j \in allowed : edges[j].cost \in Nat
    BY DEF AreSteps, IsStep, IsList, Range
  <2> HIDE DEF one
  <2>3. Settled(edges, start, allowed, one, 0) /\ Ordered(edges, start, allowed, one)
    BY <2>1 DEF Settled, Ordered
  <2>4. Tight(edges, allowed, one)
    BY <2>1, <2>2 DEF Tight, A!Outgoing, A!CostBy
  <2>5. Cardinality({start}) = 0 + 1
    BY FS_Singleton
  <2>6. Grows(edges, allowed, one, 0)
    BY <2>1, <2>5 DEF Grows
  <2> QED BY <2>3, <2>4, <2>6 DEF one
<1>3. ASSUME NEW k \in Nat, k \in Nums PROVE k + 1 \in Nums
  <2>1. SUFFICES ASSUME k + 1 \in 0..20 PROVE Good(k + 1)
    OBVIOUS
  <2>2. k \in 0..20 /\ k + 1 \in 1..20 /\ (k + 1) - 1 = k
    BY <2>1
  <2>3. tree[k + 1] = A!Settle(edges, allowed, tree[k], k + 1)
    BY <2>2, <1>1
  <2>4. Good(k)
    BY <2>2, <1>3
  <2> DEFINE old == tree[k]
  <2>5. /\ Settled(edges, start, allowed, old, k) /\ Tight(edges, allowed, old)
        /\ Grows(edges, allowed, old, k) /\ Ordered(edges, start, allowed, old)
    BY <2>4
  <2> HIDE DEF old
  <2>6. LET next == A!Settle(edges, allowed, old, k + 1)
        IN /\ Settled(edges, start, allowed, next, k + 1) /\ Tight(edges, allowed, next)
           /\ Grows(edges, allowed, next, k + 1) /\ Ordered(edges, start, allowed, next)
    BY <2>5, SettleKeeps, SettleOrders
  <2> QED BY <2>6, <2>3 DEF old
<1>4. Good(20)
  <2>1. 20 \in Nums
    <3> HIDE DEF Nums
    <3> QED BY <1>2, <1>3, NatInductionOnSets
  <2> QED BY <2>1
<1> QED BY <1>4, <1>1

(***************************************************************************)
(* A search over fewer steps.                                              *)
(***************************************************************************)

\* What a search has found when it ends.
Searched(edges, start, allowed, tree) ==
  /\ Settled(edges, start, allowed, tree, 20) /\ Tight(edges, allowed, tree)
  /\ A!Outgoing(edges, allowed, tree) = {} /\ Ordered(edges, start, allowed, tree)

LEMMA CheapestIsSearched ==
  ASSUME NEW edges, AreSteps(edges), NEW allowed \in SUBSET DOMAIN edges, NEW start \in Nodes
  PROVE  Searched(edges, start, allowed, A!Cheapest(edges, start, allowed))
BY CheapestIsTight, CheapestIsOrdered DEF Searched

\* Each of few steps is, in the same order, one of those allowed.
Embeds(h, less, few, edges, allowed) ==
  /\ h \in [few -> allowed] /\ \A i, j \in few : i < j => h[i] < h[j]
  /\ \A j \in few : /\ edges[h[j]].from = less[j].from /\ edges[h[j]].to = less[j].to
                    /\ edges[h[j]].cost = less[j].cost

\* A search from a place that another reaches, over fewer steps; kept are the places that
\* the other reaches through this one by steps that are among the few.
Within(edges, start, allowed, tree, less, mid, few, other, h, kept) ==
  /\ AreSteps(edges) /\ allowed \subseteq DOMAIN edges /\ Searched(edges, start, allowed, tree)
  /\ AreSteps(less) /\ few \subseteq DOMAIN less /\ Searched(less, mid, few, other)
  /\ Embeds(h, less, few, edges, allowed)
  /\ mid \in kept /\ kept \subseteq DOMAIN tree
  /\ \A n \in kept \ {mid} :
         n # start /\ \E j \in few : h[j] = tree[n].back /\ less[j].from \in kept

\* What the search over fewer steps reaches, the other does for no more.
LEMMA NoNearerByFewer ==
  ASSUME NEW edges, NEW start, NEW allowed, NEW tree, NEW less, NEW mid, NEW few, NEW other, NEW h,
         NEW kept, Within(edges, start, allowed, tree, less, mid, few, other, h, kept)
  PROVE  \A n \in DOMAIN other : n \in DOMAIN tree /\ tree[n].cost <= tree[mid].cost + other[n].cost
<1> DEFINE Good(n) == n \in DOMAIN tree /\ tree[n].cost <= tree[mid].cost + other[n].cost
           bad == {n \in DOMAIN other : ~Good(n)}
           U == {other[n].rank : n \in bad}
<1> SUFFICES ASSUME bad # {} PROVE FALSE
  OBVIOUS
<1>1. PICK n \in bad : \A m \in bad : other[n].rank <= other[m].rank
  <2>1. \A n \in bad : other[n].rank \in Nat
    BY DEF Within, Searched, Settled
  <2>2. PICK x \in U : \A y \in U : x <= y
    <3> HIDE DEF bad
    <3>1. U \in SUBSET Nat /\ U # {}
      BY <2>1
    <3> QED BY <3>1, LeastNumber
  <2> QED BY <2>2
<1>2. n # mid
  <2>1. mid \in DOMAIN tree /\ tree[mid].cost \in Nat /\ other[mid].cost = 0
    BY DEF Within, Searched, Settled
  <2> QED BY <2>1
<1> DEFINE j == other[n].back
           u == less[j].from
<1>3. /\ n \in DOMAIN other /\ j \in few /\ less[j].to = n /\ u \in DOMAIN other
      /\ other[u].rank < other[n].rank /\ other[n].cost = other[u].cost + less[j].cost
      /\ other[u].rank \in Nat /\ other[n].rank \in Nat /\ other[u].cost \in Nat
  BY <1>2 DEF Within, Searched, Settled
<1> HIDE DEF j
<1>4. Good(u)
  BY <1>1, <1>3
<1>5. /\ h[j] \in allowed /\ edges[h[j]].from = u /\ edges[h[j]].to = n
      /\ edges[h[j]].cost = less[j].cost
  BY <1>3 DEF Within, Embeds
<1>6. n \in DOMAIN tree /\ tree[n].cost <= tree[u].cost + less[j].cost
  BY <1>4, <1>5 DEF Within, Searched, Tight, A!Outgoing
<1>7. less[j].cost \in Nat
  BY <1>3 DEF Within, AreSteps, IsStep, IsList, Range
<1>8. tree[n].cost \in Nat /\ tree[u].cost \in Nat /\ tree[mid].cost \in Nat
  BY <1>4, <1>6 DEF Within, Searched, Settled
<1>9. Good(n)
  BY <1>3, <1>4, <1>6, <1>7, <1>8
<1> QED BY <1>9, <1>1

\* A place that is kept is as far from where the search over fewer steps starts.
LEMMA KeptIsAsFar ==
  ASSUME NEW edges, NEW start, NEW allowed, NEW tree, NEW less, NEW mid, NEW few, NEW other, NEW h,
         NEW kept, Within(edges, start, allowed, tree, less, mid, few, other, h, kept)
  PROVE  \A n \in kept : /\ n \in DOMAIN other /\ tree[n].cost = tree[mid].cost + other[n].cost
                         /\ n # mid => tree[mid].rank < tree[n].rank
<1> DEFINE Good(n) == /\ n \in DOMAIN other /\ tree[n].cost = tree[mid].cost + other[n].cost
                      /\ n # mid => tree[mid].rank < tree[n].rank
           bad == {n \in kept : ~Good(n)}
           U == {tree[n].rank : n \in bad}
<1> SUFFICES ASSUME bad # {} PROVE FALSE
  OBVIOUS
<1>1. PICK n \in bad : \A m \in bad : tree[n].rank <= tree[m].rank
  <2>1. \A n \in bad : tree[n].rank \in Nat
    BY DEF Within, Searched, Settled
  <2>2. PICK x \in U : \A y \in U : x <= y
    <3> HIDE DEF bad
    <3>1. U \in SUBSET Nat /\ U # {}
      BY <2>1
    <3> QED BY <3>1, LeastNumber
  <2> QED BY <2>2
<1>2. n # mid
  <2>1. mid \in DOMAIN other /\ tree[mid].cost \in Nat /\ other[mid].cost = 0
    BY DEF Within, Searched, Settled
  <2> QED BY <2>1
<1>3. PICK j \in few : h[j] = tree[n].back /\ less[j].from \in kept /\ n # start
  BY <1>1, <1>2 DEF Within
<1> DEFINE u == less[j].from
<1>4. /\ h[j] \in allowed /\ edges[h[j]].from = u /\ edges[h[j]].to = less[j].to
      /\ edges[h[j]].cost = less[j].cost
  BY <1>3 DEF Within, Embeds
<1>5. /\ n \in DOMAIN tree /\ less[j].to = n /\ u \in DOMAIN tree
      /\ tree[u].rank < tree[n].rank /\ tree[n].cost = tree[u].cost + less[j].cost
      /\ tree[u].rank \in Nat /\ tree[n].rank \in Nat /\ tree[u].cost \in Nat
      /\ tree[mid].cost \in Nat /\ tree[mid].rank \in Nat
  BY <1>3, <1>4, <1>1 DEF Within, Searched, Settled
<1>6. Good(u)
  BY <1>1, <1>3, <1>5
<1>7. n \in DOMAIN other /\ other[n].cost <= other[u].cost + less[j].cost
  BY <1>3, <1>5, <1>6 DEF Within, Searched, Tight, A!Outgoing
<1>8. tree[n].cost <= tree[mid].cost + other[n].cost
  BY <1>7, NoNearerByFewer
<1>9. less[j].cost \in Nat
  BY <1>3 DEF Within, AreSteps, IsStep, IsList, Range
<1>10. other[n].cost \in Nat /\ other[u].cost \in Nat
  BY <1>6, <1>7 DEF Within, Searched, Settled
<1>11. tree[n].cost = tree[mid].cost + other[n].cost
  BY <1>5, <1>6, <1>7, <1>8, <1>9, <1>10
<1>12. tree[mid].rank < tree[n].rank
  BY <1>5, <1>6
<1> QED BY <1>1, <1>7, <1>11, <1>12

\* What is settled after a place that is kept is settled after it by fewer steps as well.
LEMMA KeptComesFirst ==
  ASSUME NEW edges, NEW start, NEW allowed, NEW tree, NEW less, NEW mid, NEW few, NEW other, NEW h,
         NEW kept, Within(edges, start, allowed, tree, less, mid, few, other, h, kept)
  PROVE  \A a \in kept : \A b \in DOMAIN other :
             tree[a].rank < tree[b].rank => other[a].rank < other[b].rank
<1> DEFINE Good(a) == \A b \in DOMAIN other :
                          tree[a].rank < tree[b].rank => other[a].rank < other[b].rank
           bad == {a \in kept : ~Good(a)}
           U == {tree[a].rank : a \in bad}
<1> SUFFICES ASSUME bad # {} PROVE FALSE
  OBVIOUS
<1>1. PICK a \in bad : \A m \in bad : tree[a].rank <= tree[m].rank
  <2>1. \A n \in bad : tree[n].rank \in Nat
    BY DEF Within, Searched, Settled
  <2>2. PICK x \in U : \A y \in U : x <= y
    <3> HIDE DEF bad
    <3>1. U \in SUBSET Nat /\ U # {}
      BY <2>1
    <3> QED BY <3>1, LeastNumber
  <2> QED BY <2>2
<1>2. PICK b \in DOMAIN other : tree[a].rank < tree[b].rank /\ ~(other[a].rank < other[b].rank)
  BY <1>1
<1>3. /\ \A n \in DOMAIN other : /\ other[n].rank \in Nat /\ other[n].cost \in Nat
                                 /\ n \in DOMAIN tree /\ n \in Nodes
                                 /\ tree[n].cost <= tree[mid].cost + other[n].cost
      /\ \A n \in DOMAIN tree : tree[n].rank \in Nat /\ tree[n].cost \in Nat
      /\ \A m, n \in DOMAIN tree : tree[m].rank = tree[n].rank => m = n
      /\ \A m, n \in DOMAIN other : other[m].rank = other[n].rank => m = n
      /\ other[mid].rank = 0 /\ mid \in DOMAIN other /\ mid \in DOMAIN tree
  <2>1. \A n \in DOMAIN other : n \in DOMAIN tree /\ tree[n].cost <= tree[mid].cost + other[n].cost
    BY NoNearerByFewer
  <2>2. Settled(edges, start, allowed, tree, 20) /\ Settled(less, mid, few, other, 20)
    BY DEF Within, Searched
  <2>3. Ordered(edges, start, allowed, tree) /\ Ordered(less, mid, few, other)
    BY DEF Within, Searched
  <2>4. \A n \in DOMAIN other : other[n].rank \in Nat /\ other[n].cost \in Nat /\ n \in Nodes
    BY <2>2 DEF Settled
  <2>5. \A n \in DOMAIN tree : tree[n].rank \in Nat /\ tree[n].cost \in Nat
    BY <2>2 DEF Settled
  <2>6. other[mid].rank = 0 /\ mid \in DOMAIN other
    BY <2>2 DEF Settled
  <2> QED BY <2>1, <2>3, <2>4, <2>5, <2>6 DEF Ordered
<1>4. \A n \in kept : /\ n \in DOMAIN other /\ n \in DOMAIN tree
                      /\ tree[n].cost = tree[mid].cost + other[n].cost
                      /\ n # mid => tree[mid].rank < tree[n].rank
  <2>1. kept \subseteq DOMAIN tree
    BY DEF Within
  <2> QED BY <2>1, KeptIsAsFar
<1>5. a # mid
  BY <1>2, <1>3
<1>6. a \in kept /\ other[b].rank < other[a].rank
  <2>1. a \in kept /\ a \in DOMAIN other /\ a \in DOMAIN tree /\ b \in DOMAIN tree
    BY <1>1, <1>2, <1>3, <1>4
  <2>2. a # b
    BY <2>1, <1>2, <1>3
  <2>3. other[a].rank # other[b].rank /\ other[a].rank \in Nat /\ other[b].rank \in Nat
    BY <2>1, <2>2, <1>2, <1>3
  <2> QED BY <2>1, <2>3, <1>2
<1>7. PICK j \in few : h[j] = tree[a].back /\ less[j].from \in kept /\ a # start
  BY <1>5, <1>6 DEF Within
<1> DEFINE w == less[j].from
<1>8. /\ h[j] \in allowed /\ edges[h[j]].from = w /\ edges[h[j]].to = less[j].to
      /\ edges[h[j]].cost = less[j].cost
  BY <1>7 DEF Within, Embeds
<1>9. /\ less[j].to = a /\ tree[w].rank < tree[a].rank /\ tree[a].cost = tree[w].cost + less[j].cost
  BY <1>6, <1>7, <1>8, <1>4 DEF Within, Searched, Settled
<1>10. \A x \in DOMAIN other : tree[w].rank < tree[x].rank => other[w].rank < other[x].rank
  <2>1. w \notin bad
    BY <1>1, <1>9, <1>3, <1>4, <1>7, <1>6
  <2> QED BY <2>1, <1>7
<1> DEFINE late == {x \in DOMAIN other : tree[a].rank <= tree[x].rank /\ other[x].rank <= other[b].rank}
           ranks == {other[x].rank : x \in late}
<1>11. PICK v \in late : \A x \in late : other[v].rank <= other[x].rank
  <2>1. b \in late
    BY <1>2, <1>3, <1>4, <1>6
  <2>2. \A x \in late : other[x].rank \in Nat
    BY <1>3
  <2>3. PICK y \in ranks : \A x \in ranks : y <= x
    <3> HIDE DEF late
    <3>1. ranks \in SUBSET Nat /\ ranks # {}
      BY <2>1, <2>2
    <3> QED BY <3>1, LeastNumber
  <2> QED BY <2>3
<1>12. /\ v \in DOMAIN other /\ v # mid /\ v # a /\ tree[a].rank < tree[v].rank
       /\ other[v].rank < other[a].rank
  <2>1. /\ v \in DOMAIN other /\ v \in DOMAIN tree /\ tree[a].rank <= tree[v].rank
        /\ other[v].rank <= other[b].rank /\ a \in DOMAIN tree /\ a \in DOMAIN other
    BY <1>11, <1>6, <1>4, <1>3
  <2>2. /\ other[v].rank \in Nat /\ other[b].rank \in Nat /\ other[a].rank \in Nat
        /\ tree[v].rank \in Nat /\ tree[a].rank \in Nat /\ tree[mid].rank \in Nat
    BY <2>1, <1>2, <1>3
  <2>3. other[v].rank < other[a].rank
    BY <2>1, <2>2, <1>6
  <2>4. v # a /\ tree[a].rank # tree[v].rank
    BY <2>1, <2>2, <2>3, <1>3
  <2>5. tree[mid].rank < tree[a].rank
    BY <1>4, <1>5, <1>6
  <2>6. v # mid
    BY <2>1, <2>2, <2>5
  <2> QED BY <2>1, <2>2, <2>3, <2>4, <2>6
<1> DEFINE i == other[v].back
           u == less[i].from
<1>13. /\ i \in few /\ less[i].to = v /\ u \in DOMAIN other /\ other[u].rank < other[v].rank
       /\ other[v].cost = other[u].cost + less[i].cost
  BY <1>12 DEF Within, Searched, Settled
<1> HIDE DEF i
<1>14. tree[u].rank < tree[a].rank
  BY <1>13, <1>11, <1>3, <1>6, <1>4
<1>15. /\ h[i] \in allowed /\ edges[h[i]].from = u /\ edges[h[i]].to = v
       /\ edges[h[i]].cost = less[i].cost
  BY <1>13 DEF Within, Embeds
<1>16. /\ tree[a].cost <= tree[u].cost + less[i].cost
       /\ tree[a].cost = tree[u].cost + less[i].cost => A!Position[a] <= A!Position[v]
  <2>1. Before(edges, tree, tree[a].back, h[i])
    BY <1>14, <1>15, <1>13, <1>12, <1>7, <1>6, <1>4, <1>3 DEF Within, Searched, Ordered
  <2> QED BY <2>1, <1>7, <1>8, <1>9, <1>15 DEF Before, A!CostBy
<1>17. /\ other[v].cost <= other[w].cost + less[j].cost
       /\ other[v].cost = other[w].cost + less[j].cost => A!Position[v] <= A!Position[a]
  <2>1. other[w].rank < other[v].rank
    BY <1>10, <1>12, <1>9, <1>3, <1>4, <1>7, <1>6
  <2>2. Before(less, other, i, j)
    <3>1. less[j].from \in DOMAIN other /\ less[j].to = a /\ other[v].rank <= other[a].rank
      BY <1>7, <1>4, <1>9, <1>12, <1>3, <1>6
    <3> QED BY <3>1, <2>1, <1>12 DEF Within, Searched, Ordered, i
  <2> QED BY <2>2, <1>13, <1>9 DEF Before, A!CostBy
<1>18. less[i].cost \in Nat /\ less[j].cost \in Nat
  BY <1>13, <1>7 DEF Within, AreSteps, IsStep, IsList, Range
<1>19. tree[a].cost = tree[u].cost + less[i].cost /\ other[v].cost = other[w].cost + less[j].cost
  BY <1>3, <1>4, <1>6, <1>7, <1>9, <1>12, <1>13, <1>16, <1>17, <1>18
<1>20. a = v
  <2>1. A!Position[a] <= A!Position[v] /\ A!Position[v] <= A!Position[a]
    BY <1>16, <1>17, <1>19
  <2>2. a \in Nodes /\ v \in Nodes
    BY <1>3, <1>4, <1>6, <1>12
  <2>3. A!Position[a] = A!Position[v]
    BY <2>1, <2>2, PlacesAreListed
  <2> QED BY <2>2, <2>3, PositionsDiffer
<1> QED BY <1>20, <1>12

\* A place that is kept is reached by the same step.
LEMMA KeptIsReachedAlike ==
  ASSUME NEW edges, NEW start, NEW allowed, NEW tree, NEW less, NEW mid, NEW few, NEW other, NEW h,
         NEW kept, Within(edges, start, allowed, tree, less, mid, few, other, h, kept)
  PROVE  \A n \in kept \ {mid} : /\ n \in DOMAIN other /\ other[n].back \in few
                                 /\ h[other[n].back] = tree[n].back
                                 /\ less[other[n].back].from \in kept
<1> SUFFICES ASSUME NEW n \in kept \ {mid}
             PROVE  /\ n \in DOMAIN other /\ other[n].back \in few
                    /\ h[other[n].back] = tree[n].back
                    /\ less[other[n].back].from \in kept
  OBVIOUS
<1>1. PICK j \in few : h[j] = tree[n].back /\ less[j].from \in kept /\ n # start
  BY DEF Within
<1> DEFINE a == less[j].from
           i == other[n].back
           b == less[i].from
<1>2. /\ \A m \in DOMAIN other : /\ other[m].rank \in Nat /\ other[m].cost \in Nat
                                 /\ m \in DOMAIN tree
                                 /\ tree[m].cost <= tree[mid].cost + other[m].cost
      /\ \A m \in DOMAIN tree : tree[m].rank \in Nat /\ tree[m].cost \in Nat
      /\ \A m, l \in DOMAIN tree : tree[m].rank = tree[l].rank => m = l
      /\ \A m, l \in DOMAIN other : other[m].rank = other[l].rank => m = l
      /\ mid \in DOMAIN tree
  <2>1. \A m \in DOMAIN other : m \in DOMAIN tree /\ tree[m].cost <= tree[mid].cost + other[m].cost
    BY NoNearerByFewer
  <2>2. Settled(edges, start, allowed, tree, 20) /\ Settled(less, mid, few, other, 20)
    BY DEF Within, Searched
  <2>3. Ordered(edges, start, allowed, tree) /\ Ordered(less, mid, few, other)
    BY DEF Within, Searched
  <2>4. \A m \in DOMAIN other : other[m].rank \in Nat /\ other[m].cost \in Nat
    BY <2>2 DEF Settled
  <2>5. \A m \in DOMAIN tree : tree[m].rank \in Nat /\ tree[m].cost \in Nat
    BY <2>2 DEF Settled
  <2>6. mid \in DOMAIN other
    BY <2>2 DEF Settled
  <2> QED BY <2>1, <2>3, <2>4, <2>5, <2>6 DEF Ordered
<1>3. \A m \in kept : /\ m \in DOMAIN other /\ m \in DOMAIN tree
                      /\ tree[m].cost = tree[mid].cost + other[m].cost
  <2>1. kept \subseteq DOMAIN tree
    BY DEF Within
  <2> QED BY <2>1, KeptIsAsFar
<1>4. \A m \in kept : \A l \in DOMAIN other : tree[m].rank < tree[l].rank => other[m].rank < other[l].rank
  BY KeptComesFirst
<1>5. /\ h[j] \in allowed /\ edges[h[j]].from = a /\ edges[h[j]].to = less[j].to
      /\ edges[h[j]].cost = less[j].cost
  BY <1>1 DEF Within, Embeds
<1>6. /\ less[j].to = n /\ tree[a].rank < tree[n].rank /\ tree[n].cost = tree[a].cost + less[j].cost
  BY <1>1, <1>5, <1>3 DEF Within, Searched, Settled
<1>7. /\ i \in few /\ less[i].to = n /\ b \in DOMAIN other /\ other[b].rank < other[n].rank
      /\ other[n].cost = other[b].cost + less[i].cost
  BY <1>3 DEF Within, Searched, Settled
<1>8. /\ h[i] \in allowed /\ edges[h[i]].from = b /\ edges[h[i]].to = n
      /\ edges[h[i]].cost = less[i].cost
  BY <1>7 DEF Within, Embeds
<1>9. less[i].cost \in Nat /\ less[j].cost \in Nat /\ i \in Nat /\ j \in Nat /\ h[i] \in Nat /\ h[j] \in Nat
  <2>1. \A k \in few : k \in Nat /\ less[k].cost \in Nat
    BY DEF Within, AreSteps, IsStep, IsList, Range
  <2>2. \A k \in allowed : k \in Nat
    BY DEF Within, AreSteps, IsList
  <2> QED BY <2>1, <2>2, <1>1, <1>5, <1>7, <1>8
<1>10. a \in kept /\ n \in kept /\ n \in DOMAIN other /\ a \in DOMAIN other /\ b \in DOMAIN tree
  BY <1>1, <1>2, <1>3, <1>7
<1> HIDE DEF i
<1>11. other[n].cost = other[a].cost + less[j].cost
  <2>1. tree[n].cost = tree[mid].cost + other[n].cost /\ tree[a].cost = tree[mid].cost + other[a].cost
    BY <1>3, <1>10
  <2>2. /\ tree[n].cost \in Nat /\ tree[a].cost \in Nat /\ tree[mid].cost \in Nat
        /\ other[n].cost \in Nat /\ other[a].cost \in Nat
    BY <1>2, <1>3, <1>10
  <2> QED BY <2>1, <2>2, <1>6, <1>9
<1>12. other[b].rank <= other[a].rank /\ (other[b].rank = other[a].rank => i <= j)
  <2>1. other[a].rank < other[n].rank
    BY <1>4, <1>6, <1>10
  <2>2. Before(less, other, i, j)
    <3>1. less[j].from \in DOMAIN other /\ less[j].to = n /\ other[n].rank <= other[n].rank
      BY <1>10, <1>6, <1>2
    <3> QED BY <3>1, <2>1, <1>1, <1>10 DEF Within, Searched, Ordered, i
  <2> QED BY <2>2, <1>7, <1>6, <1>11 DEF Before, A!CostBy
<1>13. tree[n].cost = tree[b].cost + less[i].cost
      /\ tree[a].rank <= tree[b].rank /\ (tree[a].rank = tree[b].rank => h[j] <= h[i])
  <2>1. tree[b].rank < tree[n].rank
    <3>1. tree[n].rank < tree[b].rank => other[n].rank < other[b].rank
      BY <1>4, <1>7, <1>10
    <3>2. tree[n].rank # tree[b].rank
      BY <1>2, <1>7, <1>10
    <3>3. /\ tree[n].rank \in Nat /\ tree[b].rank \in Nat /\ other[n].rank \in Nat
          /\ other[b].rank \in Nat
      BY <1>2, <1>3, <1>7, <1>10
    <3> QED BY <3>1, <3>2, <3>3, <1>7
  <2>2. Before(edges, tree, h[j], h[i])
    <3>1. edges[h[i]].from \in DOMAIN tree /\ edges[h[i]].to = n /\ tree[n].rank <= tree[n].rank
      BY <1>10, <1>8, <1>2
    <3> QED BY <3>1, <2>1, <1>1, <1>8, <1>10, <1>3 DEF Within, Searched, Ordered
  <2>3. tree[n].cost <= tree[b].cost + less[i].cost
    BY <2>2, <1>5, <1>6, <1>8 DEF Before, A!CostBy
  <2>4. tree[n].cost = tree[b].cost + less[i].cost
    BY <2>3, <1>2, <1>3, <1>7, <1>9, <1>10
  <2> QED BY <2>2, <2>4, <1>5, <1>6, <1>8 DEF Before, A!CostBy
<1>14. a = b
  <2>1. tree[a].rank < tree[b].rank => other[a].rank < other[b].rank
    BY <1>4, <1>7, <1>10
  <2>2. /\ tree[a].rank \in Nat /\ tree[b].rank \in Nat /\ other[a].rank \in Nat
        /\ other[b].rank \in Nat /\ a \in DOMAIN tree
    BY <1>2, <1>3, <1>7, <1>10
  <2>3. tree[a].rank = tree[b].rank
    BY <2>1, <2>2, <1>12, <1>13
  <2> QED BY <2>2, <2>3, <1>2, <1>10
<1>15. i = j
  <2>1. i <= j /\ h[j] <= h[i]
    BY <1>12, <1>13, <1>14, <1>2, <1>10
  <2>2. i < j => h[i] < h[j]
    BY <1>1, <1>7 DEF Within, Embeds
  <2> QED BY <2>1, <2>2, <1>9
<1> QED BY <1>15, <1>1, <1>10 DEF i

LEMMA PathOn ==
  ASSUME NEW edges, AreSteps(edges), NEW allowed, allowed \subseteq DOMAIN edges, NEW start,
         NEW tree, Settled(edges, start, allowed, tree, 20)
  PROVE  /\ A!PathTo(edges, tree, start) = {}
         /\ \A n \in DOMAIN tree : n # start =>
                A!PathTo(edges, tree, n) =
                    {tree[n].back} \cup A!PathTo(edges, tree, edges[tree[n].back].from)
<1>1. allowed \in SUBSET DOMAIN edges
  OBVIOUS
<1>2. /\ A!PathTo(edges, tree, start) = {}
      /\ \A n \in DOMAIN tree \ {start} :
             A!PathTo(edges, tree, n) =
                 {tree[n].back} \cup A!PathTo(edges, tree, edges[tree[n].back].from)
  BY <1>1, PathUnfolds
<1> QED BY <1>2

\* The path to a place that is kept is the path to where the search over fewer steps
\* starts, and on by the path that this search finds.
LEMMA KeptPaths ==
  ASSUME NEW edges, NEW start, NEW allowed, NEW tree, NEW less, NEW mid, NEW few, NEW other, NEW h,
         NEW kept, Within(edges, start, allowed, tree, less, mid, few, other, h, kept)
  PROVE  \A n \in kept : A!PathTo(edges, tree, n) =
             A!PathTo(edges, tree, mid) \cup {h[j] : j \in A!PathTo(less, other, n)}
<1> DEFINE Path(n) == A!PathTo(edges, tree, n)
           Way(n) == A!PathTo(less, other, n)
           Good(n) == Path(n) = Path(mid) \cup {h[j] : j \in Way(n)}
           bad == {n \in kept : ~Good(n)}
           U == {tree[n].rank : n \in bad}
<1> SUFFICES ASSUME bad # {} PROVE FALSE
  OBVIOUS
<1>1. PICK n \in bad : \A m \in bad : tree[n].rank <= tree[m].rank
  <2>1. \A n \in bad : tree[n].rank \in Nat
    BY DEF Within, Searched, Settled
  <2>2. PICK x \in U : \A y \in U : x <= y
    <3> HIDE DEF bad
    <3>1. U \in SUBSET Nat /\ U # {}
      BY <2>1
    <3> QED BY <3>1, LeastNumber
  <2> QED BY <2>2
<1>2. /\ AreSteps(edges) /\ allowed \in SUBSET DOMAIN edges /\ Settled(edges, start, allowed, tree, 20)
      /\ AreSteps(less) /\ few \in SUBSET DOMAIN less /\ Settled(less, mid, few, other, 20)
  BY DEF Within, Searched
<1>3. /\ \A m \in DOMAIN tree \ {start} : Path(m) = {tree[m].back} \cup Path(edges[tree[m].back].from)
      /\ \A m \in DOMAIN other \ {mid} : Way(m) = {other[m].back} \cup Way(less[other[m].back].from)
      /\ Way(mid) = {}
  <2>1. /\ A!PathTo(edges, tree, start) = {}
        /\ \A m \in DOMAIN tree : m # start =>
               A!PathTo(edges, tree, m) =
                   {tree[m].back} \cup A!PathTo(edges, tree, edges[tree[m].back].from)
    BY <1>2, PathOn
  <2>2. /\ A!PathTo(less, other, mid) = {}
        /\ \A m \in DOMAIN other : m # mid =>
               A!PathTo(less, other, m) =
                   {other[m].back} \cup A!PathTo(less, other, less[other[m].back].from)
    BY <1>2, PathOn
  <2> QED BY <2>1, <2>2
<1> HIDE DEF Path, Way
<1>4. n # mid
  BY <1>1, <1>3
<1>5. /\ n \in DOMAIN other /\ other[n].back \in few /\ h[other[n].back] = tree[n].back
      /\ less[other[n].back].from \in kept
  BY <1>1, <1>4, KeptIsReachedAlike
<1> DEFINE i == other[n].back
           u == less[i].from
<1>6. n # start /\ n \in DOMAIN tree /\ u \in DOMAIN tree
  BY <1>1, <1>4, <1>5 DEF Within
<1>7. edges[tree[n].back].from = u
  BY <1>5 DEF Within, Embeds
<1>8. Good(u)
  <2>1. tree[u].rank < tree[n].rank /\ tree[u].rank \in Nat /\ tree[n].rank \in Nat
    BY <1>2, <1>6, <1>7 DEF Settled
  <2>2. u \notin bad
    BY <2>1, <1>1
  <2> QED BY <2>2, <1>5
<1>9. Path(n) = {h[i]} \cup Path(u) /\ Way(n) = {i} \cup Way(u)
  BY <1>3, <1>4, <1>5, <1>6, <1>7
<1>10. Good(n)
  BY <1>8, <1>9
<1> QED BY <1>10, <1>1

\* What the steps of a list are of another.
Image(h, few) == {h[j] : j \in few}

\* A path whose steps are all among the few is the path that a search over them finds.
LEMMA SamePath ==
  ASSUME NEW edges, AreSteps(edges), NEW allowed \in SUBSET DOMAIN edges, NEW start \in Nodes,
         NEW less, AreSteps(less), NEW few \in SUBSET DOMAIN less,
         NEW h, Embeds(h, less, few, edges, allowed),
         NEW tree, tree = A!Cheapest(edges, start, allowed),
         NEW other, other = A!Cheapest(less, start, few),
         NEW n \in DOMAIN tree, A!PathTo(edges, tree, n) \subseteq Image(h, few)
  PROVE  /\ n \in DOMAIN other /\ other[n].cost = tree[n].cost
         /\ A!PathTo(edges, tree, n) = Image(h, A!PathTo(less, other, n))
<1> DEFINE image == {h[j] : j \in few}
           kept == {m \in DOMAIN tree : A!PathTo(edges, tree, m) \subseteq image}
<1>1. Searched(edges, start, allowed, tree) /\ Searched(less, start, few, other)
  BY CheapestIsSearched
<1>2. Settled(edges, start, allowed, tree, 20)
  BY <1>1 DEF Searched
<1>3. start \in DOMAIN tree /\ tree[start].cost = 0 /\ A!PathTo(edges, tree, start) = {}
      /\ \A m \in DOMAIN tree : m # start =>
             A!PathTo(edges, tree, m) =
                 {tree[m].back} \cup A!PathTo(edges, tree, edges[tree[m].back].from)
  <2>1. /\ A!PathTo(edges, tree, start) = {}
        /\ \A m \in DOMAIN tree : m # start =>
               A!PathTo(edges, tree, m) =
                   {tree[m].back} \cup A!PathTo(edges, tree, edges[tree[m].back].from)
    BY <1>2, PathOn
  <2> QED BY <2>1, <1>2 DEF Settled
<1>4. ASSUME NEW m \in kept \ {start}
      PROVE  \E j \in few : h[j] = tree[m].back /\ less[j].from \in kept
  <2>1. A!PathTo(edges, tree, m) = {tree[m].back} \cup A!PathTo(edges, tree, edges[tree[m].back].from)
    BY <1>3
  <2>2. PICK j \in few : h[j] = tree[m].back
    BY <2>1
  <2>3. less[j].from = edges[tree[m].back].from /\ edges[tree[m].back].from \in DOMAIN tree
    BY <2>2, <1>2 DEF Embeds, Settled
  <2> QED BY <2>1, <2>2, <2>3
<1>5. start \in kept /\ n \in kept /\ kept \subseteq DOMAIN tree
  BY <1>3 DEF Image
<1> HIDE DEF kept
<1>6. Within(edges, start, allowed, tree, less, start, few, other, h, kept)
  BY <1>1, <1>4, <1>5 DEF Within
<1>7. n \in DOMAIN other /\ tree[n].cost = 0 + other[n].cost
  BY <1>3, <1>5, <1>6, KeptIsAsFar
<1>8. A!PathTo(edges, tree, n) = {} \cup {h[j] : j \in A!PathTo(less, other, n)}
  BY <1>3, <1>5, <1>6, KeptPaths
<1>9. other[n].cost \in Nat
  BY <1>1, <1>7 DEF Searched, Settled
<1> QED BY <1>7, <1>8, <1>9 DEF Image

(***************************************************************************)
(* The steps of a path, and what a finding is worth.                       *)
(***************************************************************************)

\* Every step of a path is the one by which the place that it leads to is reached.
LEMMA StepsOfPaths ==
  ASSUME NEW edges, AreSteps(edges), NEW allowed, allowed \subseteq DOMAIN edges, NEW start,
         NEW tree, Settled(edges, start, allowed, tree, 20)
  PROVE  \A n \in DOMAIN tree : \A i \in A!PathTo(edges, tree, n) :
             /\ i \in allowed /\ edges[i].to \in DOMAIN tree \ {start}
             /\ tree[edges[i].to].back = i
<1> DEFINE Path(n) == A!PathTo(edges, tree, n)
           Good(n) == \A i \in Path(n) : /\ i \in allowed /\ edges[i].to \in DOMAIN tree \ {start}
                                         /\ tree[edges[i].to].back = i
           bad == {n \in DOMAIN tree : ~Good(n)}
           U == {tree[n].rank : n \in bad}
<1>1. /\ Path(start) = {}
      /\ \A n \in DOMAIN tree : n # start =>
             Path(n) = {tree[n].back} \cup Path(edges[tree[n].back].from)
  <2>1. /\ A!PathTo(edges, tree, start) = {}
        /\ \A n \in DOMAIN tree : n # start =>
               A!PathTo(edges, tree, n) =
                   {tree[n].back} \cup A!PathTo(edges, tree, edges[tree[n].back].from)
    BY PathOn
  <2> QED BY <2>1
<1> SUFFICES ASSUME bad # {} PROVE FALSE
  OBVIOUS
<1>2. PICK n \in bad : \A m \in bad : tree[n].rank <= tree[m].rank
  <2>1. \A n \in bad : tree[n].rank \in Nat
    BY DEF Settled
  <2>2. PICK x \in U : \A y \in U : x <= y
    <3> HIDE DEF bad
    <3>1. U \in SUBSET Nat /\ U # {}
      BY <2>1
    <3> QED BY <3>1, LeastNumber
  <2> QED BY <2>2
<1> HIDE DEF Path
<1>3. n \in DOMAIN tree /\ n # start
  BY <1>1, <1>2
<1> DEFINE i == tree[n].back
           u == edges[i].from
<1>4. /\ i \in allowed /\ edges[i].to = n /\ u \in DOMAIN tree /\ tree[u].rank < tree[n].rank
      /\ tree[u].rank \in Nat /\ tree[n].rank \in Nat
  BY <1>3 DEF Settled
<1>5. Good(u)
  <2>1. u \notin bad
    BY <1>2, <1>4
  <2> QED BY <2>1, <1>4
<1>6. Good(n)
  BY <1>1, <1>3, <1>4, <1>5
<1> QED BY <1>2, <1>6

\* A path goes on from any place on it as a search from there does.
LEMMA PathGoesOn ==
  ASSUME NEW edges, AreSteps(edges), NEW start \in Nodes,
         NEW tree, tree = A!Cheapest(edges, start, DOMAIN edges),
         NEW g \in DOMAIN tree, NEW i \in A!PathTo(edges, tree, g),
         NEW tail, tail = A!Cheapest(edges, edges[i].to, DOMAIN edges)
  PROVE  /\ i \in DOMAIN edges /\ edges[i].from \in DOMAIN tree /\ edges[i].to \in DOMAIN tree
         /\ tree[edges[i].to].cost = tree[edges[i].from].cost + edges[i].cost
         /\ g \in DOMAIN tail
         /\ tree[g].cost = tree[edges[i].from].cost + edges[i].cost + tail[g].cost
         /\ A!PathTo(edges, tree, g) =
                A!PathTo(edges, tree, edges[i].from) \cup {i} \cup A!PathTo(edges, tail, g)
<1> DEFINE all == DOMAIN edges
           mid == edges[i].to
           kept == {m \in DOMAIN tree : m = mid \/ i \in A!PathTo(edges, tree, m)}
           h == [j \in all |-> j]
<1>1. Searched(edges, start, all, tree)
  BY CheapestIsSearched
<1>2. Settled(edges, start, all, tree, 20)
  BY <1>1 DEF Searched
<1>3. i \in all /\ mid \in DOMAIN tree /\ mid # start /\ tree[mid].back = i
  BY <1>2, StepsOfPaths
<1>4. /\ edges[i].from \in DOMAIN tree
      /\ tree[mid].cost = tree[edges[i].from].cost + edges[i].cost
  BY <1>2, <1>3 DEF Settled
<1>5. mid \in Nodes
  BY <1>3 DEF AreSteps, IsStep, IsList, Range
<1>6. Searched(edges, mid, all, tail)
  BY <1>5, CheapestIsSearched
<1>7. /\ A!PathTo(edges, tree, start) = {}
      /\ \A m \in DOMAIN tree : m # start =>
             A!PathTo(edges, tree, m) =
                 {tree[m].back} \cup A!PathTo(edges, tree, edges[tree[m].back].from)
  BY <1>2, PathOn
<1>8. ASSUME NEW m \in kept \ {mid}
      PROVE  m # start /\ \E j \in all : h[j] = tree[m].back /\ edges[j].from \in kept
  <2>1. i \in A!PathTo(edges, tree, m) /\ m # start
    BY <1>7
  <2>2. tree[m].back \in all /\ edges[tree[m].back].to = m /\ edges[tree[m].back].from \in DOMAIN tree
    BY <2>1, <1>2 DEF Settled
  <2>3. tree[m].back # i
    BY <2>2
  <2>4. i \in A!PathTo(edges, tree, edges[tree[m].back].from)
    BY <1>7, <2>1, <2>3
  <2> QED BY <2>1, <2>2, <2>4
<1>9. mid \in kept /\ g \in kept /\ kept \subseteq DOMAIN tree
  BY <1>3
<1>10. Embeds(h, edges, all, edges, all)
  BY DEF Embeds
<1> HIDE DEF kept, h
<1>11. Within(edges, start, all, tree, edges, mid, all, tail, h, kept)
  BY <1>1, <1>6, <1>8, <1>9, <1>10 DEF Within
<1>12. g \in DOMAIN tail /\ tree[g].cost = tree[mid].cost + tail[g].cost
  BY <1>9, <1>11, KeptIsAsFar
<1>13. A!PathTo(edges, tree, g) =
           A!PathTo(edges, tree, mid) \cup {h[j] : j \in A!PathTo(edges, tail, g)}
  BY <1>9, <1>11, KeptPaths
<1>14. \A j \in A!PathTo(edges, tail, g) : h[j] = j
  <2>1. Settled(edges, mid, all, tail, 20)
    BY <1>6 DEF Searched
  <2>2. \A j \in A!PathTo(edges, tail, g) : j \in all
    BY <2>1, <1>12, StepsOfPaths
  <2> QED BY <2>2 DEF h
<1>15. A!PathTo(edges, tree, mid) = {i} \cup A!PathTo(edges, tree, edges[i].from)
  BY <1>3, <1>7
<1> QED BY <1>3, <1>4, <1>12, <1>13, <1>14, <1>15

\* Without a step that costs something a place is not had for less than what leads to it.
LEMMA HeldForMore ==
  ASSUME NEW edges, AreSteps(edges), NEW start \in Nodes, NEW few \in SUBSET DOMAIN edges,
         NEW tree, tree = A!Cheapest(edges, start, DOMAIN edges),
         NEW held, held = A!Cheapest(edges, start, few), NEW n \in DOMAIN held
  PROVE  n \in DOMAIN tree /\ tree[n].cost <= held[n].cost
<1> DEFINE all == DOMAIN edges
           h == [j \in few |-> j]
<1>1. Searched(edges, start, all, tree) /\ Searched(edges, start, few, held)
  BY CheapestIsSearched
<1>2. Embeds(h, edges, few, edges, all)
  BY DEF Embeds
<1>3. start \in DOMAIN tree /\ tree[start].cost = 0 /\ held[n].cost \in Nat
  BY <1>1 DEF Searched, Settled
<1> HIDE DEF h
<1>4. Within(edges, start, all, tree, edges, start, few, held, h, {start})
  BY <1>1, <1>2, <1>3 DEF Within
<1>5. n \in DOMAIN tree /\ tree[n].cost <= tree[start].cost + held[n].cost
  BY <1>4, NoNearerByFewer
<1> QED BY <1>3, <1>5

LEMMA SeverityIs ==
  ASSUME NEW cost, NEW tentative
  PROVE  A!PathSeverity(cost, tentative) \in 0..3
BY DEF A!PathSeverity

\* The severity of a path is among those of the paths that go through a step of it.
LEMMA ThroughIsAsGrave ==
  ASSUME NEW edges, AreSteps(edges), NEW goals, NEW p \in A!Personas,
         NEW tree, tree = A!Cheapest(edges, p, DOMAIN edges),
         NEW g \in goals \cap DOMAIN tree, NEW i \in A!PathTo(edges, tree, g), edges[i].cost # 0
  PROVE  A!PathSeverity(tree[g].cost, \E j \in A!PathTo(edges, tree, g) : edges[j].tentative)
             \in A!Through(edges, i, p, goals)
<1> DEFINE all == DOMAIN edges
           held == A!Cheapest(edges, p, all \ {i})
           tail == A!Cheapest(edges, edges[i].to, all)
           from == edges[i].from
           to == edges[i].to
           Path(x) == A!PathTo(edges, tree, from) \cup {i} \cup A!PathTo(edges, tail, x)
           Sev(x) == A!PathSeverity(tree[from].cost + edges[i].cost + tail[x].cost,
                                    \E j \in Path(x) : edges[j].tentative)
<1>1. p \in Nodes
  BY PlacesAreListed
<1>2. /\ i \in all /\ from \in DOMAIN tree /\ to \in DOMAIN tree
      /\ tree[to].cost = tree[from].cost + edges[i].cost
      /\ g \in DOMAIN tail
      /\ tree[g].cost = tree[from].cost + edges[i].cost + tail[g].cost
      /\ A!PathTo(edges, tree, g) = Path(g)
  BY <1>1, PathGoesOn
<1>3. edges[i].cost \in Nat /\ tree[from].cost \in Nat
  <2>1. Settled(edges, p, all, tree, 20)
    BY <1>1, CheapestIsSearched DEF Searched
  <2> QED BY <2>1, <1>2 DEF Settled, AreSteps, IsStep, IsList, Range
<1>4. ~(A!Reaches(held, to) /\ held[to].cost <= tree[from].cost)
  <2>1. SUFFICES ASSUME to \in DOMAIN held, held[to].cost <= tree[from].cost PROVE FALSE
    BY DEF A!Reaches
  <2> DEFINE few == all \ {i}
  <2>2. few \in SUBSET DOMAIN edges
    OBVIOUS
  <2>3. held = A!Cheapest(edges, p, few)
    OBVIOUS
  <2> HIDE DEF held, few
  <2>4. tree[to].cost <= held[to].cost
    BY <2>1, <2>2, <2>3, <1>1, HeldForMore
  <2>5. held[to].cost \in Nat
    BY <2>1, <2>2, <2>3, <1>1, CheapestIsSearched DEF Searched, Settled
  <2> QED BY <2>1, <2>4, <2>5, <1>2, <1>3
<1>5. A!Through(edges, i, p, goals) = {Sev(x) : x \in goals \cap DOMAIN tail}
  <2>1. A!Reaches(tree, from)
    BY <1>2 DEF A!Reaches
  <2> HIDE DEF Sev
  <2>2. A!Through(edges, i, p, goals) =
            IF \/ ~A!Reaches(tree, from)
               \/ A!Reaches(held, to) /\ held[to].cost <= tree[from].cost
            THEN {} ELSE {Sev(x) : x \in goals \cap DOMAIN tail}
    BY DEF A!Through, Sev
  <2> HIDE DEF held, tail
  <2> QED BY <2>1, <2>2, <1>4
<1>6. Sev(g) \in {Sev(x) : x \in goals \cap DOMAIN tail}
  BY <1>2
<1> HIDE DEF tail
<1> QED BY <1>2, <1>5, <1>6

(***************************************************************************)
(* Flaws that are found over more steps.                                   *)
(***************************************************************************)

\* A search over steps that embed in others reaches no more than one over those.
LEMMA ReachedByMore ==
  ASSUME NEW edges, AreSteps(edges), NEW allowed \in SUBSET DOMAIN edges, NEW start \in Nodes,
         NEW less, AreSteps(less), NEW few \in SUBSET DOMAIN less,
         NEW h, Embeds(h, less, few, edges, allowed),
         NEW n \in DOMAIN A!Cheapest(less, start, few)
  PROVE  n \in DOMAIN A!Cheapest(edges, start, allowed)
<1> DEFINE tree == A!Cheapest(edges, start, allowed)
           other == A!Cheapest(less, start, few)
<1>1. Searched(edges, start, allowed, tree) /\ Searched(less, start, few, other)
  BY CheapestIsSearched
<1>2. start \in DOMAIN tree
  BY <1>1 DEF Searched, Settled
<1> HIDE DEF tree, other
<1>3. Within(edges, start, allowed, tree, less, start, few, other, h, {start})
  BY <1>1, <1>2 DEF Within
<1> QED BY <1>3, NoNearerByFewer DEF tree, other

\* A step that repeats one listed before it is on no path.
LEMMA FirstOfAlike ==
  ASSUME NEW edges, AreSteps(edges), NEW allowed \in SUBSET DOMAIN edges, NEW start \in Nodes,
         NEW tree, tree = A!Cheapest(edges, start, allowed), NEW n \in DOMAIN tree,
         NEW i \in A!PathTo(edges, tree, n), NEW j \in allowed,
         edges[j].from = edges[i].from, edges[j].to = edges[i].to, edges[j].cost = edges[i].cost
  PROVE  i <= j
<1>1. Settled(edges, start, allowed, tree, 20) /\ Ordered(edges, start, allowed, tree)
  BY CheapestIsSearched DEF Searched
<1> DEFINE m == edges[i].to
<1>2. i \in allowed /\ m \in DOMAIN tree \ {start} /\ tree[m].back = i
  BY <1>1, StepsOfPaths
<1>3. /\ edges[i].from \in DOMAIN tree /\ tree[edges[i].from].rank < tree[m].rank
      /\ tree[m].rank \in Nat
  BY <1>1, <1>2 DEF Settled
<1>4. Before(edges, tree, i, j)
  BY <1>1, <1>2, <1>3 DEF Ordered
<1>5. A!CostBy(edges, tree, i) = A!CostBy(edges, tree, j)
  BY DEF A!CostBy
<1> QED BY <1>4, <1>5 DEF Before

\* A place that is reached with a flaw over few steps is reached with one over those that
\* they embed in, if the steps without a flaw that are added repeat some listed before.
LEMMA FlawStays ==
  ASSUME NEW edges, AreSteps(edges), NEW allowed \in SUBSET DOMAIN edges, NEW start \in Nodes,
         NEW less, AreSteps(less), NEW few \in SUBSET DOMAIN less,
         NEW h, Embeds(h, less, few, edges, allowed),
         \A j \in few : edges[h[j]].structural = less[j].structural,
         \A i \in allowed : edges[i].structural =>
             \/ i \in {h[j] : j \in few}
             \/ \E j \in allowed : /\ j < i /\ edges[j].from = edges[i].from
                                   /\ edges[j].to = edges[i].to /\ edges[j].cost = edges[i].cost,
         NEW tree, tree = A!Cheapest(edges, start, allowed),
         NEW other, other = A!Cheapest(less, start, few), NEW n \in DOMAIN other,
         \E j \in A!PathTo(less, other, n) : ~less[j].structural
  PROVE  n \in DOMAIN tree /\ \E i \in A!PathTo(edges, tree, n) : ~edges[i].structural
<1>1. n \in DOMAIN tree
  BY ReachedByMore
<1>2. SUFFICES ASSUME \A i \in A!PathTo(edges, tree, n) : edges[i].structural PROVE FALSE
  BY <1>1
<1>3. ASSUME NEW i \in A!PathTo(edges, tree, n) PROVE i \in {h[j] : j \in few}
  <2>1. Settled(edges, start, allowed, tree, 20)
    BY CheapestIsSearched DEF Searched
  <2>2. i \in allowed /\ edges[i].structural
    BY <1>1, <1>2, <2>1, StepsOfPaths
  <2>3. ASSUME NEW j \in allowed, j < i, edges[j].from = edges[i].from,
               edges[j].to = edges[i].to, edges[j].cost = edges[i].cost
        PROVE  FALSE
    <3>1. i <= j
      BY <1>1, <2>3, FirstOfAlike
    <3>2. i \in Nat /\ j \in Nat
      BY <2>2 DEF AreSteps, IsList
    <3> QED BY <2>3, <3>1, <3>2
  <2> QED BY <2>2, <2>3
<1>4. A!PathTo(edges, tree, n) = Image(h, A!PathTo(less, other, n))
  <2>1. A!PathTo(edges, tree, n) \subseteq Image(h, few)
    BY <1>3 DEF Image
  <2> QED BY <1>1, <2>1, SamePath
<1>5. PICK j \in A!PathTo(less, other, n) : ~less[j].structural
  OBVIOUS
<1>6. j \in few
  <2>1. Settled(less, start, few, other, 20)
    BY CheapestIsSearched DEF Searched
  <2> QED BY <2>1, StepsOfPaths
<1>7. h[j] \in A!PathTo(edges, tree, n) /\ ~edges[h[j]].structural
  BY <1>4, <1>5, <1>6 DEF Image
<1> QED BY <1>2, <1>7

\* A path of the model, and when it is one that is reported.
PathFrom(edges, allowed, p, g) ==
  LET tree == A!Cheapest(edges, p, allowed)
      steps == A!PathTo(edges, tree, g)
  IN [persona |-> p, goal |-> g, steps |-> steps, cost |-> tree[g].cost,
      severity |-> A!PathSeverity(tree[g].cost, \E i \in steps : edges[i].tentative)]

LEMMA PathsAre ==
  ASSUME NEW edges, NEW goals, NEW allowed
  PROVE  /\ \A x \in A!Paths(edges, goals, allowed) :
                \E p \in A!Personas : \E g \in goals \cap DOMAIN A!Cheapest(edges, p, allowed) :
                    /\ x = PathFrom(edges, allowed, p, g)
                    /\ \E i \in A!PathTo(edges, A!Cheapest(edges, p, allowed), g) :
                           ~edges[i].structural
         /\ \A p \in A!Personas : \A g \in goals \cap DOMAIN A!Cheapest(edges, p, allowed) :
                (\E i \in A!PathTo(edges, A!Cheapest(edges, p, allowed), g) : ~edges[i].structural)
                => PathFrom(edges, allowed, p, g) \in A!Paths(edges, goals, allowed)
<1> DEFINE tree == [q \in A!Personas |-> A!Cheapest(edges, q, allowed)]
           Steps(q, h) == A!PathTo(edges, tree[q], h)
           Path(q, h) == [persona |-> q, goal |-> h, steps |-> Steps(q, h), cost |-> tree[q][h].cost,
                          severity |-> A!PathSeverity(tree[q][h].cost,
                                                      \E i \in Steps(q, h) : edges[i].tentative)]
<1>1. A!Paths(edges, goals, allowed) =
          {x \in UNION {{Path(q, h) : h \in goals \cap DOMAIN tree[q]} : q \in A!Personas} :
              \E i \in x.steps : ~edges[i].structural}
  BY DEF A!Paths
<1>2. ASSUME NEW q \in A!Personas, NEW h
      PROVE  /\ tree[q] = A!Cheapest(edges, q, allowed) /\ Path(q, h) = PathFrom(edges, allowed, q, h)
             /\ Path(q, h).steps = A!PathTo(edges, A!Cheapest(edges, q, allowed), h)
  <2>1. tree[q] = A!Cheapest(edges, q, allowed)
    OBVIOUS
  <2> HIDE DEF tree
  <2> QED BY <2>1 DEF PathFrom
<1> HIDE DEF Path, tree
<1> QED BY <1>1, <1>2

\* What a finding is worth is no milder than any path that takes a step of it.
LEMMA FindingsAreAsGrave ==
  ASSUME NEW edges, AreSteps(edges), NEW goals, NEW x \in A!Paths(edges, goals, DOMAIN edges),
         NEW i \in x.steps, edges[i].fix[1] = "finding"
  PROVE  LET severity == A!ContextualSeverity(edges, goals)
         IN edges[i].fix[2] \in DOMAIN severity /\ severity[edges[i].fix[2]] <= x.severity
<1> DEFINE flaws == {j \in DOMAIN edges : edges[j].fix[1] = "finding"}
           Of(d) == UNION {A!Through(edges, j, p, goals) :
                              j \in {k \in flaws : edges[k].fix[2] = d}, p \in A!Personas}
           severities == [d \in {edges[j].fix[2] : j \in flaws} |-> Of(d)]
           severity == [d \in {y \in DOMAIN severities : severities[y] # {}} |->
                           CHOOSE s \in severities[d] : \A t \in severities[d] : s <= t]
           id == edges[i].fix[2]
<1>1. A!ContextualSeverity(edges, goals) = severity
  BY DEF A!ContextualSeverity
<1>2. PICK p \in A!Personas : \E g \in goals \cap DOMAIN A!Cheapest(edges, p, DOMAIN edges) :
        x = PathFrom(edges, DOMAIN edges, p, g)
  BY PathsAre
<1>0. PICK g \in goals \cap DOMAIN A!Cheapest(edges, p, DOMAIN edges) :
        x = PathFrom(edges, DOMAIN edges, p, g)
  BY <1>2
<1> DEFINE tree == A!Cheapest(edges, p, DOMAIN edges)
<1>3. /\ x.steps = A!PathTo(edges, tree, g)
      /\ x.severity = A!PathSeverity(tree[g].cost, \E j \in A!PathTo(edges, tree, g) : edges[j].tentative)
  <2> HIDE DEF tree
  <2> QED BY <1>0 DEF PathFrom, tree
<1>4. i \in DOMAIN edges /\ edges[i].cost # 0
  <2>1. p \in Nodes
    BY PlacesAreListed
  <2>2. Settled(edges, p, DOMAIN edges, tree, 20)
    BY <2>1, CheapestIsSearched DEF Searched
  <2>3. i \in DOMAIN edges
    BY <1>3, <2>2, StepsOfPaths
  <2> QED BY <2>3 DEF AreSteps, IsStep, Range
<1>5. x.severity \in A!Through(edges, i, p, goals)
  BY <1>3, <1>4, ThroughIsAsGrave
<1> HIDE DEF tree
<1>6. x.severity \in Of(id) /\ i \in flaws
  BY <1>4, <1>5
<1>7. \A d : Of(d) \subseteq 0..3
  <2>1. \A j, q : A!Through(edges, j, q, goals) \subseteq 0..3
    BY SeverityIs DEF A!Through
  <2> QED BY <2>1
<1> HIDE DEF Of
<1>8. id \in DOMAIN severities /\ severities[id] = Of(id)
  BY <1>6
<1>9. id \in DOMAIN severity /\ severity[id] = CHOOSE s \in Of(id) : \A t \in Of(id) : s <= t
  <2> HIDE DEF severities
  <2> QED BY <1>6, <1>8
<1>10. \E s \in Of(id) : \A t \in Of(id) : s <= t
  <2>1. Of(id) \in SUBSET Nat /\ Of(id) # {}
    BY <1>6, <1>7
  <2> HIDE DEF id
  <2> QED BY <2>1, LeastNumber
<1>11. severity[id] <= x.severity
  BY <1>6, <1>9, <1>10
<1> HIDE DEF severity
<1> QED BY <1>1, <1>9, <1>11

(***************************************************************************)
(* Lists of steps that are part of others.                                 *)
(***************************************************************************)

\* What lists that are put together hold.
LEMMA RangeOfAll ==
  ASSUME NEW seqs, IsList(seqs), \A i \in DOMAIN seqs : IsList(seqs[i])
  PROVE  /\ IsList(FlattenSeq(seqs))
         /\ Range(FlattenSeq(seqs)) = UNION {Range(seqs[i]) : i \in DOMAIN seqs}
<1> DEFINE Vals == UNION {Range(seqs[i]) : i \in DOMAIN seqs}
<1>1. ASSUME NEW i \in DOMAIN seqs PROVE seqs[i] \in Seq(Vals)
  <2> DEFINE s == seqs[i]
  <2>1. IsList(s) /\ Range(s) \subseteq Vals
    OBVIOUS
  <2> HIDE DEF s, Vals
  <2>2. s \in Seq(Vals)
    BY <2>1 DEF IsList
  <2> QED BY <2>2 DEF s
<1> HIDE DEF Vals
<1>2. seqs \in Seq(Seq(Vals))
  BY <1>1 DEF IsList
<1>3. FlattenSeq(seqs) \in Seq(Vals)
      /\ Range(FlattenSeq(seqs)) = UNION {Range(seqs[i]) : i \in DOMAIN seqs}
  BY <1>2, FlattenMembers
<1> QED BY <1>3, ListIn

\* Putting lists together starts with none.
LEMMA FlattenFromNothing ==
  ASSUME NEW seqs, IsList(seqs), \A i \in DOMAIN seqs : IsList(seqs[i])
  PROVE  \E at : /\ at[0] = <<>>
                 /\ \A i \in 1..Len(seqs) : at[i] = at[i - 1] \o seqs[i]
                 /\ FlattenSeq(seqs) = at[Len(seqs)]
<1> DEFINE n == Len(seqs)
<1>1. n \in Nat /\ DOMAIN seqs = 1..n
  BY DEF IsList
<1>2. CASE n = 0
  <2>1. seqs = <<>>
    BY <1>2 DEF IsList
  <2>2. FlattenSeq(seqs) = <<>>
    BY <2>1 DEF FlattenSeq
  <2> DEFINE at == [i \in {0} |-> <<>>]
  <2>3. at[0] = <<>> /\ 1..n = {}
    BY <1>2
  <2> HIDE DEF at
  <2> QED BY <1>2, <2>2, <2>3
<1>3. CASE n # 0
  <2> HIDE DEF n
  <2>1. PICK at : /\ at[1] = seqs[1]
                  /\ \A i \in 2..n : at[i] = at[i - 1] \o seqs[i]
                  /\ FlattenSeq(seqs) = at[n]
    BY <1>1, <1>3, FlattenUnfolds DEF n
  <2> DEFINE new == [i \in 0..n |-> IF i = 0 THEN <<>> ELSE at[i]]
  <2>2. new[0] = <<>> /\ new[1] = at[1] /\ \A i \in 1..n : new[i] = at[i]
    BY <1>1, <1>3
  <2> HIDE DEF new
  <2>3. <<>> \o seqs[1] = seqs[1]
    <3>1. 1 \in DOMAIN seqs
      BY <1>1, <1>3
    <3> DEFINE s == seqs[1]
    <3>2. IsList(s)
      BY <3>1
    <3> HIDE DEF s
    <3>3. <<>> \o s = s
      BY <3>2 DEF IsList
    <3> QED BY <3>3 DEF s
  <2>4. ASSUME NEW i \in 1..n PROVE new[i] = new[i - 1] \o seqs[i]
    <3>1. CASE i = 1
      <4>1. i - 1 = 0 /\ new[i] = <<>> \o seqs[1] /\ seqs[i] = seqs[1]
        BY <3>1, <2>1, <2>2, <2>3
      <4> QED BY <4>1, <2>2
    <3>2. CASE i # 1
      <4>1. i \in 2..n /\ i - 1 \in 1..n
        BY <1>1, <3>2
      <4> QED BY <4>1, <2>1, <2>2
    <3> QED BY <3>1, <3>2
  <2>5. FlattenSeq(seqs) = new[n]
    BY <1>1, <1>3, <2>1, <2>2
  <2> QED BY <2>2, <2>4, <2>5 DEF n
<1> QED BY <1>2, <1>3

\* A step that is another's, for certain if that is; a step that no change takes away.
Like(e, f, sure) ==
  /\ e.from = f.from /\ e.to = f.to /\ e.cost = f.cost
  /\ e.fix = f.fix /\ e.structural = f.structural
  /\ sure => e.tentative = f.tentative
Lasting(e) == e.structural /\ e.fix[1] # "divergence"

\* The steps of a list are, in their order, some of another, among them all that last.
PartBy(h, s, t, sure) ==
  /\ h \in [DOMAIN s -> DOMAIN t] /\ \A i, j \in DOMAIN s : i < j => h[i] < h[j]
  /\ \A i \in DOMAIN s : Like(s[i], t[h[i]], sure)
  /\ \A j \in DOMAIN t : Lasting(t[j]) => \E i \in DOMAIN s : h[i] = j
Part(s, t, sure) == \E h : PartBy(h, s, t, sure)

LEMMA PartOfSame == ASSUME NEW s, IsList(s), NEW sure PROVE Part(s, s, sure)
<1> DEFINE h == [i \in DOMAIN s |-> i]
<1>1. PartBy(h, s, s, sure)
  BY DEF PartBy, Like
<1> HIDE DEF h
<1> QED BY <1>1 DEF Part

LEMMA PartOfPassing ==
  ASSUME NEW t, \A j \in DOMAIN t : ~Lasting(t[j]), NEW sure PROVE Part(<<>>, t, sure)
<1> DEFINE none == <<>>
           h == [i \in DOMAIN none |-> {}]
<1>1. DOMAIN none = {}
  OBVIOUS
<1> HIDE DEF none
<1>2. PartBy(h, none, t, sure)
  BY <1>1 DEF PartBy
<1> HIDE DEF h
<1> QED BY <1>2 DEF Part, none

LEMMA PartOfBoth ==
  ASSUME NEW s, IsList(s), NEW t, IsList(t), NEW u, IsList(u), NEW v, IsList(v), NEW sure,
         Part(s, t, sure), Part(u, v, sure)
  PROVE  Part(s \o u, t \o v, sure)
<1>1. PICK h : PartBy(h, s, t, sure)
  BY DEF Part
<1>2. PICK k : PartBy(k, u, v, sure)
  BY DEF Part
<1> DEFINE size == Len(s)
           total == Len(t)
           a == s \o u
           b == t \o v
           both == [i \in DOMAIN a |-> IF i \in DOMAIN s THEN h[i] ELSE total + k[i - size]]
<1>3. /\ size \in Nat /\ DOMAIN s = 1..size /\ DOMAIN u = 1..Len(u) /\ Len(u) \in Nat
      /\ \A i \in DOMAIN s : i \in DOMAIN a /\ a[i] = s[i]
      /\ \A i \in DOMAIN u : size + i \in DOMAIN a /\ a[size + i] = u[i]
      /\ \A i \in DOMAIN a : i \in DOMAIN s \/ \E j \in DOMAIN u : i = size + j
  BY InBoth
<1>4. /\ total \in Nat /\ DOMAIN t = 1..total /\ DOMAIN v = 1..Len(v) /\ Len(v) \in Nat
      /\ \A i \in DOMAIN t : i \in DOMAIN b /\ b[i] = t[i]
      /\ \A i \in DOMAIN v : total + i \in DOMAIN b /\ b[total + i] = v[i]
      /\ \A i \in DOMAIN b : i \in DOMAIN t \/ \E j \in DOMAIN v : i = total + j
  BY InBoth
<1>5. \A i \in DOMAIN s : both[i] = h[i] /\ h[i] \in DOMAIN t
  BY <1>1, <1>3 DEF PartBy
<1>6. \A i \in DOMAIN u : both[size + i] = total + k[i] /\ k[i] \in DOMAIN v
  <2>1. SUFFICES ASSUME NEW i \in DOMAIN u PROVE both[size + i] = total + k[i] /\ k[i] \in DOMAIN v
    OBVIOUS
  <2>2. size + i \notin DOMAIN s /\ size + i \in DOMAIN a /\ (size + i) - size = i
    <3> HIDE DEF size, a
    <3> QED BY <1>3
  <2>3. k[i] \in DOMAIN v
    BY <1>2 DEF PartBy
  <2> HIDE DEF size, total, a
  <2> QED BY <2>2, <2>3
<1>7. DOMAIN both = DOMAIN a /\ both = [i \in DOMAIN a |-> both[i]]
  OBVIOUS
<1> HIDE DEF size, total, a, b, both
<1>8. ASSUME NEW i \in DOMAIN a PROVE both[i] \in DOMAIN b /\ Like(a[i], b[both[i]], sure)
  <2>1. CASE i \in DOMAIN s
    <3>1. Like(s[i], t[h[i]], sure)
      BY <1>1, <2>1 DEF PartBy
    <3> QED BY <2>1, <3>1, <1>3, <1>4, <1>5
  <2>2. ASSUME NEW j \in DOMAIN u, i = size + j PROVE both[i] \in DOMAIN b /\ Like(a[i], b[both[i]], sure)
    <3>1. Like(u[j], v[k[j]], sure)
      BY <1>2 DEF PartBy
    <3> QED BY <2>2, <3>1, <1>3, <1>4, <1>6
  <2> QED BY <2>1, <2>2, <1>3
<1>9. ASSUME NEW i \in DOMAIN a, NEW j \in DOMAIN a, i < j PROVE both[i] < both[j]
  <2>1. CASE i \in DOMAIN s /\ j \in DOMAIN s
    BY <1>1, <1>5, <1>9, <2>1 DEF PartBy
  <2>2. ASSUME NEW m \in DOMAIN u, j = size + m, i \in DOMAIN s PROVE both[i] < both[j]
    <3>1. both[i] \in 1..total /\ both[j] = total + k[m] /\ k[m] \in 1..Len(v)
      BY <2>2, <1>4, <1>5, <1>6
    <3> QED BY <3>1, <1>4
  <2>3. ASSUME NEW m \in DOMAIN u, i = size + m, j \in DOMAIN s PROVE FALSE
    BY <2>3, <1>3, <1>9
  <2>4. ASSUME NEW m \in DOMAIN u, i = size + m, NEW n \in DOMAIN u, j = size + n PROVE both[i] < both[j]
    <3>1. m < n
      BY <2>4, <1>3, <1>9
    <3>2. k[m] < k[n] /\ k[m] \in 1..Len(v) /\ k[n] \in 1..Len(v)
      BY <3>1, <1>2, <1>4, <1>6 DEF PartBy
    <3>3. both[i] = total + k[m] /\ both[j] = total + k[n]
      BY <2>4, <1>6
    <3> QED BY <3>2, <3>3, <1>4
  <2> QED BY <2>1, <2>2, <2>3, <2>4, <1>3
<1>10. ASSUME NEW j \in DOMAIN b, Lasting(b[j]) PROVE \E i \in DOMAIN a : both[i] = j
  <2>1. CASE j \in DOMAIN t
    <3>1. PICK i \in DOMAIN s : h[i] = j
      BY <1>1, <1>4, <1>10, <2>1 DEF PartBy
    <3> QED BY <3>1, <1>3, <1>5
  <2>2. ASSUME NEW m \in DOMAIN v, j = total + m PROVE \E i \in DOMAIN a : both[i] = j
    <3>1. PICK i \in DOMAIN u : k[i] = m
      BY <1>2, <1>4, <1>10, <2>2 DEF PartBy
    <3> QED BY <3>1, <2>2, <1>3, <1>6
  <2> QED BY <2>1, <2>2, <1>4
<1>11. PartBy(both, a, b, sure)
  BY <1>7, <1>8, <1>9, <1>10 DEF PartBy
<1> QED BY <1>11 DEF Part, a, b

\* Places in a list, in their order, in another; what is at some of them.
Rising(g, n, m) == g \in [1..n -> 1..m] /\ \A i, j \in 1..n : i < j => g[i] < g[j]

\* Lists of steps that are parts of others, put together, are part of those put together
\* with some of which no step lasts.
LEMMA PartOfAll ==
  ASSUME NEW ss, IsList(ss), \A i \in DOMAIN ss : IsList(ss[i]),
         NEW tt, IsList(tt), \A i \in DOMAIN tt : IsList(tt[i]), NEW sure,
         NEW g, Rising(g, Len(ss), Len(tt)),
         \A i \in DOMAIN ss : Part(ss[i], tt[g[i]], sure),
         \A j \in DOMAIN tt : (\A i \in DOMAIN ss : g[i] # j) => Part(<<>>, tt[j], sure)
  PROVE  Part(FlattenSeq(ss), FlattenSeq(tt), sure)
<1> DEFINE n == Len(ss)
           m == Len(tt)
<1>1. n \in Nat /\ DOMAIN ss = 1..n /\ m \in Nat /\ DOMAIN tt = 1..m
  BY DEF IsList
<1>2. PICK at : /\ at[0] = <<>> /\ \A i \in 1..n : at[i] = at[i - 1] \o ss[i]
                /\ FlattenSeq(ss) = at[n]
  BY FlattenFromNothing
<1>3. PICK bt : /\ bt[0] = <<>> /\ \A i \in 1..m : bt[i] = bt[i - 1] \o tt[i]
                /\ FlattenSeq(tt) = bt[m]
  BY FlattenFromNothing
<1>4. /\ \A i \in 1..n : g[i] \in 1..m /\ Part(ss[i], tt[g[i]], sure)
      /\ \A i, j \in 1..n : i < j => g[i] < g[j]
      /\ \A j \in 1..m : (\A i \in 1..n : g[i] # j) => Part(<<>>, tt[j], sure)
      /\ \A i \in 1..n : IsList(ss[i])
      /\ \A i \in 1..m : IsList(tt[i])
  BY <1>1 DEF Rising
<1> HIDE DEF n, m
<1> DEFINE Upto(k, j) == \A i \in 1..n : i <= k <=> g[i] <= j
           Good(j) == \E k \in 0..n : /\ Upto(k, j) /\ IsList(at[k]) /\ IsList(bt[j])
                                      /\ Part(at[k], bt[j], sure)
           Nums == {j \in Nat : j <= m => Good(j)}
<1>5. 0 \in Nums
  <2>1. Upto(0, 0)
    BY <1>1, <1>4
  <2>2. IsList(<<>>)
    BY DEF IsList, Range
  <2>3. Part(at[0], bt[0], sure)
    BY <1>2, <1>3, <2>2, PartOfSame
  <2>4. 0 \in 0..n
    BY <1>1
  <2> HIDE DEF Upto
  <2> QED BY <1>2, <1>3, <2>1, <2>2, <2>3, <2>4
<1>6. ASSUME NEW j \in Nat, j \in Nums PROVE j + 1 \in Nums
  <2>1. SUFFICES ASSUME j + 1 <= m PROVE Good(j + 1)
    OBVIOUS
  <2>2. j + 1 \in 1..m /\ (j + 1) - 1 = j /\ j <= m
    BY <2>1, <1>1
  <2>3. PICK k \in 0..n : /\ Upto(k, j) /\ IsList(at[k]) /\ IsList(bt[j])
                          /\ Part(at[k], bt[j], sure)
    BY <1>6, <2>2
  <2>4. bt[j + 1] = bt[j] \o tt[j + 1] /\ IsList(tt[j + 1])
    BY <1>3, <1>4, <2>2
  <2>5. IsList(bt[j + 1])
    BY <2>3, <2>4, ListOfBoth
  <2>6. CASE \E i \in 1..n : g[i] = j + 1
    <3>1. PICK i \in 1..n : g[i] = j + 1
      BY <2>6
    <3>2. i = k + 1
      <4>1. k < i
        BY <2>3, <3>1, <1>1, <1>4
      <4>2. ASSUME k + 1 < i PROVE FALSE
        <5>1. k + 1 \in 1..n
          BY <4>2, <2>3, <1>1
        <5>2. g[k + 1] < g[i] /\ g[k + 1] \in 1..m
          BY <5>1, <4>2, <1>4
        <5>3. g[k + 1] <= j
          BY <5>2, <3>1, <2>2, <1>1
        <5>4. k + 1 <= k
          BY <5>1, <5>3, <2>3
        <5> QED BY <5>4, <2>3
      <4> QED BY <4>1, <4>2, <2>3, <1>1
    <3>3. at[i] = at[k] \o ss[i] /\ IsList(ss[i]) /\ Part(ss[i], tt[j + 1], sure)
      <4>1. i - 1 = k
        BY <3>2, <2>3
      <4> QED BY <4>1, <3>1, <1>2, <1>4
    <3>4. IsList(at[i]) /\ Part(at[i], bt[j + 1], sure)
      BY <2>3, <2>4, <3>3, ListOfBoth, PartOfBoth
    <3>5. Upto(i, j + 1)
      <4>1. SUFFICES ASSUME NEW l \in 1..n PROVE l <= i <=> g[l] <= j + 1
        OBVIOUS
      <4>2. g[l] \in 1..m /\ (l < i => g[l] < g[i]) /\ (i < l => g[i] < g[l])
        BY <3>1, <1>4
      <4> QED BY <4>2, <3>1, <2>2, <1>1
    <3> HIDE DEF Upto
    <3>6. i \in 0..n
      BY <1>1
    <3> QED BY <3>4, <3>5, <3>6, <2>5
  <2>7. CASE \A i \in 1..n : g[i] # j + 1
    <3>1. Part(<<>>, tt[j + 1], sure)
      BY <2>2, <2>7, <1>4
    <3>0. IsList(<<>>)
      BY DEF IsList, Range
    <3>2. Part(at[k] \o <<>>, bt[j + 1], sure)
      BY <2>3, <2>4, <3>0, <3>1, PartOfBoth
    <3>3. at[k] \o <<>> = at[k]
      <4> DEFINE s == at[k]
      <4>1. IsList(s)
        BY <2>3
      <4> HIDE DEF s
      <4>2. s \o <<>> = s
        BY <4>1 DEF IsList
      <4> QED BY <4>2 DEF s
    <3>4. Upto(k, j + 1)
      <4>1. SUFFICES ASSUME NEW l \in 1..n PROVE l <= k <=> g[l] <= j + 1
        OBVIOUS
      <4>2. g[l] \in 1..m /\ g[l] # j + 1 /\ (l <= k <=> g[l] <= j)
        BY <2>3, <2>7, <1>4
      <4> QED BY <4>2, <2>2, <1>1
    <3> HIDE DEF Upto
    <3> QED BY <2>3, <2>5, <3>2, <3>3, <3>4
  <2> HIDE DEF Good
  <2> QED BY <2>6, <2>7
<1>7. m \in Nums
  <2> HIDE DEF Nums
  <2> QED BY <1>1, <1>5, <1>6, NatInductionOnSets
<1>8. PICK k \in 0..n : Upto(k, m) /\ Part(at[k], bt[m], sure)
  BY <1>1, <1>7
<1>9. k = n
  <2>1. SUFFICES ASSUME k < n PROVE FALSE
    BY <1>1, <1>8
  <2>2. k + 1 \in 1..n
    BY <2>1, <1>1
  <2>3. g[k + 1] <= m
    BY <2>2, <1>1, <1>4
  <2>4. k + 1 <= k
    BY <2>2, <2>3, <1>8
  <2> QED BY <2>4
<1> QED BY <1>2, <1>3, <1>8, <1>9 DEF n, m

(***************************************************************************)
(* What the steps come from.                                               *)
(***************************************************************************)

\* The steps of a finding, of a divergence and of a combination of capabilities.
FindingSteps(f) == IF A!FindingEdges(f) # <<>> THEN A!FindingEdges(f) ELSE A!McpEdges(f)
DivergenceSteps(d) ==
  LET fix == <<"divergence", d.id>>
  IN CASE d.kind = "hidden_content" ->
              <<A!Step("changes_code", "controls_agent", 10, fix, FALSE, FALSE)>>
       [] d.kind = "unexpected_execution" ->
              <<A!Step("reads_repository", "executes_on_developer", 20, fix, FALSE, FALSE),
                A!Step("changes_code", "reads_repository", 0, fix, FALSE, TRUE)>>
       [] OTHER -> <<>>
AgentSteps(c) ==
  A!Option(c.steps # {},
           A!Step("controls_agent",
                  IF c.kind = "exfiltration" THEN "reads_secret" ELSE "executes_on_developer",
                  IF c.unattended THEN 10 ELSE 20, <<"agent", c.steps>>, FALSE, FALSE))

\* What they have in common.
LEMMA FindingStepsAreOf ==
  ASSUME NEW f, NEW e \in Range(FindingSteps(f))
  PROVE  ~e.structural /\ e.fix = <<"finding", f.id>>
<1> DEFINE fix == <<"finding", f.id>>
           gains == A!Techniques[A!KindOf(f)].gains
           cost == A!Techniques[A!KindOf(f)].cost
           step == A!McpSteps[f.rule]
<1>1. ASSUME NEW d \in Range(A!FindingEdges(f)) PROVE ~d.structural /\ d.fix = fix
  <2>1. \/ A!FindingEdges(f) = <<>>
        \/ \E from : A!FindingEdges(f) = [i \in DOMAIN gains |->
               A!Step(from, gains[i], cost, fix, f.status = "inconclusive", FALSE)]
    <3> HIDE DEF gains, cost
    <3> QED BY DEF A!FindingEdges, gains, cost
  <2>2. A!FindingEdges(f) # <<>>
    BY <1>1 DEF Range
  <2> HIDE DEF gains, cost, fix
  <2>3. PICK from : A!FindingEdges(f) = [i \in DOMAIN gains |->
               A!Step(from, gains[i], cost, fix, f.status = "inconclusive", FALSE)]
    BY <2>1, <2>2
  <2>4. PICK i \in DOMAIN gains : d = A!Step(from, gains[i], cost, fix, f.status = "inconclusive", FALSE)
    BY <1>1, <2>3 DEF Range
  <2> QED BY <2>4 DEF A!Step
<1>2. ASSUME NEW d \in Range(A!McpEdges(f)) PROVE ~d.structural /\ d.fix = fix
  <2>1. \/ A!McpEdges(f) = <<>>
        \/ A!McpEdges(f) = <<A!Step(step[1], step[2], step[3], fix, f.assessment # "confirmed", FALSE)>>
    <3> HIDE DEF step
    <3> QED BY DEF A!McpEdges, step
  <2> HIDE DEF step, fix
  <2>2. d = A!Step(step[1], step[2], step[3], fix, f.assessment # "confirmed", FALSE)
    <3>1. ASSUME NEW x PROVE Range(<<x>>) = {x} /\ Range(<<>>) = {}
      BY DEF Range
    <3> DEFINE x == A!Step(step[1], step[2], step[3], fix, f.assessment # "confirmed", FALSE)
    <3>2. A!McpEdges(f) = <<>> \/ A!McpEdges(f) = <<x>>
      BY <2>1
    <3> HIDE DEF x
    <3>3. d = x
      BY <1>2, <3>1, <3>2
    <3> QED BY <3>3 DEF x
  <2> QED BY <2>2 DEF A!Step
<1> HIDE DEF fix
<1>3. ~e.structural /\ e.fix = fix
  BY <1>1, <1>2 DEF FindingSteps
<1> QED BY <1>3 DEF fix

LEMMA DivergenceStepsAreOf ==
  ASSUME NEW d
  PROVE  /\ IsList(DivergenceSteps(d))
         /\ \A e \in Range(DivergenceSteps(d)) :
                /\ e.fix = <<"divergence", d.id>>
                /\ e.structural => /\ e.from = "changes_code" /\ e.to = "reads_repository"
                                   /\ e.cost = 0
<1> DEFINE fix == <<"divergence", d.id>>
           hidden == A!Step("changes_code", "controls_agent", 10, fix, FALSE, FALSE)
           runs == A!Step("reads_repository", "executes_on_developer", 20, fix, FALSE, FALSE)
           merged == A!Step("changes_code", "reads_repository", 0, fix, FALSE, TRUE)
           Is(e) == /\ e.fix = fix
                    /\ e.structural => /\ e.from = "changes_code" /\ e.to = "reads_repository"
                                       /\ e.cost = 0
<1>1. Is(hidden) /\ Is(runs) /\ Is(merged)
  <2> HIDE DEF fix
  <2> QED BY DEF A!Step
<1>2. DivergenceSteps(d) \in {<<>>, <<hidden>>, <<runs, merged>>}
  <2> HIDE DEF hidden, runs, merged
  <2> QED BY DEF DivergenceSteps, hidden, runs, merged
<1> HIDE DEF hidden, runs, merged, Is
<1>3. \A s \in {<<>>, <<hidden>>, <<runs, merged>>} :
          IsList(s) /\ \A e \in Range(s) : Is(e)
  <2>1. IsList(<<>>) /\ Range(<<>>) = {}
    BY DEF IsList, Range
  <2>2. IsList(<<hidden>>) /\ Range(<<hidden>>) = {hidden}
    BY DEF IsList, Range
  <2>3. IsList(<<runs, merged>>) /\ Range(<<runs, merged>>) = {runs, merged}
    BY DEF IsList, Range
  <2> QED BY <1>1, <2>1, <2>2, <2>3
<1>4. IsList(DivergenceSteps(d)) /\ \A e \in Range(DivergenceSteps(d)) : Is(e)
  BY <1>2, <1>3
<1> QED BY <1>4 DEF Is

LEMMA OptionHas ==
  ASSUME NEW test, NEW e
  PROVE  /\ IsList(A!Option(test, e))
         /\ \A d \in Range(A!Option(test, e)) : d = e /\ test
<1>1. IsList(<<>>) /\ Range(<<>>) = {} /\ IsList(<<e>>) /\ Range(<<e>>) = {e}
  BY DEF IsList, Range
<1> QED BY <1>1 DEF A!Option

LEMMA AgentStepsAreOf ==
  ASSUME NEW c
  PROVE  /\ IsList(AgentSteps(c))
         /\ \A e \in Range(AgentSteps(c)) :
                ~e.structural /\ e.fix = <<"agent", c.steps>> /\ c.steps # {}
<1> DEFINE to == IF c.kind = "exfiltration" THEN "reads_secret" ELSE "executes_on_developer"
           cost == IF c.unattended THEN 10 ELSE 20
           fix == <<"agent", c.steps>>
           step == A!Step("controls_agent", to, cost, fix, FALSE, FALSE)
<1>1. AgentSteps(c) = A!Option(c.steps # {}, step)
  BY DEF AgentSteps
<1>2. step.fix = fix /\ ~step.structural
  <2> HIDE DEF to, cost, fix
  <2> QED BY DEF A!Step
<1> HIDE DEF step
<1>3. IsList(AgentSteps(c)) /\ \A e \in Range(AgentSteps(c)) : e = step /\ c.steps # {}
  <2>1. CASE c.steps # {}
    <3>1. AgentSteps(c) = <<step>> /\ IsList(<<step>>) /\ Range(<<step>>) = {step}
      BY <1>1, <2>1 DEF A!Option, IsList, Range
    <3> QED BY <2>1, <3>1
  <2>2. CASE c.steps = {}
    <3>1. AgentSteps(c) = <<>> /\ IsList(<<>>) /\ Range(<<>>) = {}
      BY <1>1, <2>2 DEF A!Option, IsList, Range
    <3> QED BY <3>1
  <2> QED BY <2>1, <2>2
<1> HIDE DEF fix
<1> QED BY <1>2, <1>3 DEF fix

\* What files add is of their fixes.
LEMMA LeverageStepsAreOf ==
  ASSUME NEW rows, IsList(rows), NEW e \in Range(A!LeverageEdges(rows))
  PROVE  e.fix[1] = "leverage"
<1> DEFINE fix(r) == <<"leverage", r.id>>
           gain(r) == IF {"ci_workflow", "run_by"} \cap r.codes # {} THEN "runs_in_ci"
                      ELSE IF "agent_config" \in r.codes THEN "controls_agent"
                      ELSE "executes_on_developer"
           one(r) == A!Option("ci_pr_target" \in r.codes,
               A!Step("start:malicious_contributor", "runs_in_ci", 10, fix(r), FALSE, FALSE))
           two(r) == A!Option(/\ r.leverage >= 7 /\ r.oversight < 6
               /\ {"ci_workflow", "install_script", "run_by", "agent_config"} \cap r.codes # {},
               A!Step("changes_code", gain(r), 30, fix(r), FALSE, FALSE))
           three(r) == A!Option("ci_secrets" \in r.codes,
               A!Step("runs_in_ci", "reads_secret", 10, fix(r), FALSE, TRUE))
           four(r) == A!Option("ci_deploy" \in r.codes,
               A!Step("runs_in_ci", "publishes_release", 10, fix(r), FALSE, TRUE))
           Of(r) == one(r) \o two(r) \o three(r) \o four(r)
           watched == {i \in DOMAIN rows : rows[i].leverage >= 7}
           weakest == CHOOSE i \in watched : \A j \in watched :
                          \/ rows[i].oversight < rows[j].oversight
                          \/ rows[i].oversight = rows[j].oversight /\ i <= j
           seqs == [i \in DOMAIN rows |-> Of(rows[i])]
           last == A!Option(watched # {}, A!Step("start:malicious_contributor", "changes_code",
                       10 + 4 * rows[weakest].oversight, fix(rows[weakest]), FALSE, FALSE))
           Is(s) == IsList(s) /\ \A d \in Range(s) : d.fix[1] = "leverage"
<1>1. A!LeverageEdges(rows) = FlattenSeq(seqs) \o last
  BY DEF A!LeverageEdges, A!FlattenSeq, FlattenSeq
<1>2. ASSUME NEW test, NEW from, NEW to, NEW cost, NEW r, NEW structural
      PROVE  Is(A!Option(test, A!Step(from, to, cost, fix(r), FALSE, structural)))
  <2> DEFINE d == A!Step(from, to, cost, fix(r), FALSE, structural)
  <2>1. d.fix[1] = "leverage"
    BY DEF A!Step
  <2> HIDE DEF d, fix
  <2>2. Is(A!Option(test, d))
    BY <2>1, OptionHas
  <2> QED BY <2>2 DEF d
<1>3. \A s, t : Is(s) /\ Is(t) => Is(s \o t)
  BY ListOfBoth
<1>4. ASSUME NEW r PROVE Is(Of(r))
  <2>1. Is(one(r)) /\ Is(two(r)) /\ Is(three(r)) /\ Is(four(r))
    <3> HIDE DEF Is, fix, gain
    <3> QED BY <1>2
  <2> HIDE DEF one, two, three, four, Is
  <2> QED BY <1>3, <2>1
<1>5. Is(last)
  <2> HIDE DEF Is, fix, weakest, watched
  <2> QED BY <1>2
<1>6. Is(FlattenSeq(seqs))
  <2> HIDE DEF Of
  <2>1. DOMAIN rows = 1..Len(rows) /\ Len(rows) \in Nat
    BY DEF IsList
  <2>2. seqs = [i \in 1..Len(rows) |-> seqs[i]] /\ \A i \in DOMAIN rows : seqs[i] = Of(rows[i])
    BY <2>1
  <2> HIDE DEF seqs
  <2>3. IsList(seqs) /\ DOMAIN seqs = DOMAIN rows
    BY <2>1, <2>2, ListOf
  <2>4. \A i \in DOMAIN seqs : Is(seqs[i])
    BY <1>4, <2>2, <2>3
  <2> QED BY <2>3, <2>4, RangeOfAll
<1> HIDE DEF seqs, last
<1> QED BY <1>1, <1>3, <1>5, <1>6

\* What is left of a list is in its order, and is all that is not gone.
LEMMA LeftIs ==
  ASSUME NEW list, IsList(list), NEW gone, NEW left, left = LeftOf(list, gone)
  PROVE  /\ IsList(left)
         /\ \E pos : /\ Rising(pos, Len(left), Len(list))
                     /\ \A k \in DOMAIN left : left[k] = list[pos[k]] /\ left[k] \notin gone
                     /\ \A i \in DOMAIN list :
                            list[i] \notin gone => \E k \in DOMAIN left : pos[k] = i
<1> DEFINE n == Len(list)
           keep == {i \in 1..n : list[i] \notin gone}
           seqs == [i \in 1..n |-> IF i \in keep THEN <<list[i]>> ELSE <<>>]
<1>1. n \in Nat /\ DOMAIN list = 1..n
  BY DEF IsList
<1>2. left = FlattenSeq(seqs)
  <2> DEFINE all == [i \in DOMAIN list |-> IF list[i] \in gone THEN <<>> ELSE <<list[i]>>]
  <2>1. left = FlattenSeq(all)
    BY DEF LeftOf
  <2>2. all = seqs
    <3>1. \A i \in 1..n : (IF list[i] \in gone THEN <<>> ELSE <<list[i]>>) =
                          (IF i \in keep THEN <<list[i]>> ELSE <<>>)
      OBVIOUS
    <3> HIDE DEF keep, n
    <3> QED BY <1>1, <3>1
  <2> QED BY <2>1, <2>2
<1>3. IsList(FlattenSeq(seqs)) /\ \E pos : InOrder(pos, FlattenSeq(seqs), keep, list)
  <2>1. keep \in SUBSET (1..n) /\ seqs = [i \in 1..n |-> IF i \in keep THEN <<list[i]>> ELSE <<>>]
    OBVIOUS
  <2> HIDE DEF keep, seqs, n
  <2> QED BY <1>1, <2>1, OptionsInOrder
<1> HIDE DEF seqs
<1>4. PICK pos : InOrder(pos, left, keep, list)
  BY <1>2, <1>3
<1>5. IsList(left) /\ DOMAIN left = 1..Len(left) /\ Len(left) \in Nat
  BY <1>2, <1>3 DEF IsList
<1>6. Rising(pos, Len(left), Len(list))
  BY <1>4 DEF InOrder, Rising
<1>7. ASSUME NEW k \in DOMAIN left PROVE left[k] = list[pos[k]] /\ left[k] \notin gone
  BY <1>4, <1>5 DEF InOrder
<1>8. ASSUME NEW i \in DOMAIN list, list[i] \notin gone PROVE \E k \in DOMAIN left : pos[k] = i
  BY <1>1, <1>4, <1>5, <1>8 DEF InOrder
<1> QED BY <1>5, <1>6, <1>7, <1>8

\* A list of which nothing is gone is still there in its order.
LEMMA WholeIs ==
  ASSUME NEW list, IsList(list), NEW left, left = LeftOf(list, {})
  PROVE  /\ IsList(left)
         /\ \E g : /\ Rising(g, Len(list), Len(left))
                   /\ \A i \in DOMAIN list : left[g[i]] = list[i]
                   /\ \A k \in DOMAIN left : \E i \in DOMAIN list : g[i] = k
<1>1. PICK pos : /\ Rising(pos, Len(left), Len(list))
                 /\ \A k \in DOMAIN left : left[k] = list[pos[k]]
                 /\ \A i \in DOMAIN list : \E k \in DOMAIN left : pos[k] = i
  BY LeftIs
<1>2. IsList(left)
  BY LeftIs
<1>3. DOMAIN left = 1..Len(left) /\ Len(left) \in Nat /\ DOMAIN list = 1..Len(list) /\ Len(list) \in Nat
  BY <1>2 DEF IsList
<1> DEFINE g == [i \in 1..Len(list) |-> CHOOSE k \in 1..Len(left) : pos[k] = i]
<1>4. ASSUME NEW i \in 1..Len(list) PROVE g[i] \in 1..Len(left) /\ pos[g[i]] = i
  <2>1. \E k \in 1..Len(left) : pos[k] = i
    BY <1>1, <1>3
  <2> QED BY <2>1
<1>5. g = [i \in 1..Len(list) |-> g[i]]
  OBVIOUS
<1> HIDE DEF g
<1>6. ASSUME NEW i \in 1..Len(list), NEW j \in 1..Len(list), i < j PROVE g[i] < g[j]
  <2>1. SUFFICES ASSUME g[j] <= g[i] PROVE FALSE
    BY <1>3, <1>4
  <2>2. g[j] = g[i] \/ g[j] < g[i]
    BY <2>1, <1>3, <1>4
  <2>3. pos[g[j]] = j /\ pos[g[i]] = i
    BY <1>4
  <2>4. g[j] < g[i] => pos[g[j]] < pos[g[i]]
    BY <1>1, <1>4 DEF Rising
  <2> QED BY <2>2, <2>3, <2>4, <1>6, <1>3
<1>7. Rising(g, Len(list), Len(left))
  BY <1>4, <1>5, <1>6 DEF Rising
<1>8. ASSUME NEW k \in DOMAIN left PROVE \E i \in DOMAIN list : g[i] = k
  <2>1. pos[k] \in 1..Len(list) /\ g[pos[k]] \in 1..Len(left) /\ pos[g[pos[k]]] = pos[k]
    BY <1>1, <1>3, <1>4 DEF Rising
  <2>2. g[pos[k]] = k
    <3> DEFINE l == g[pos[k]]
    <3>1. l < k => pos[l] < pos[k]
      BY <1>1, <1>3, <2>1 DEF Rising
    <3>2. k < l => pos[k] < pos[l]
      BY <1>1, <1>3, <2>1 DEF Rising
    <3>3. l \in 1..Len(left) /\ k \in 1..Len(left) /\ pos[l] = pos[k] /\ pos[k] \in 1..Len(list)
      BY <2>1, <1>3
    <3> HIDE DEF l
    <3>4. l = k
      BY <3>1, <3>2, <3>3, <1>3
    <3> QED BY <3>4 DEF l
  <2> QED BY <2>1, <2>2, <1>3
<1>9. ASSUME NEW i \in DOMAIN list PROVE left[g[i]] = list[i]
  BY <1>1, <1>3, <1>4
<1> QED BY <1>2, <1>7, <1>8, <1>9

\* The steps of all findings, divergences and combinations; the lists of a model.
FindingLists(fs) == [i \in DOMAIN fs |-> FindingSteps(fs[i])]
DivergenceLists(ds) == [i \in DOMAIN ds |-> DivergenceSteps(ds[i])]
AgentLists(cs) == [i \in DOMAIN cs |-> AgentSteps(cs[i])]
Base(rows) == A!StructuralEdges(\E i \in DOMAIN rows : "ci_deploy" \in rows[i].codes)

LEMMA EdgesAre ==
  ASSUME NEW in
  PROVE  A!Edges(in) = Base(in.leverage) \o FlattenSeq(FindingLists(in.findings)) \o
                       A!LeverageEdges(in.leverage) \o
                       FlattenSeq(DivergenceLists(in.divergences)) \o
                       FlattenSeq(AgentLists(in.combinations))
<1>1. A!DivergenceEdges(in.divergences) = FlattenSeq(DivergenceLists(in.divergences))
  BY DEF A!DivergenceEdges, A!FlattenSeq, FlattenSeq, DivergenceLists, DivergenceSteps
<1>2. A!AgentEdges(in.combinations) = FlattenSeq(AgentLists(in.combinations))
  BY DEF A!AgentEdges, A!FlattenSeq, FlattenSeq, AgentLists, AgentSteps
<1> DEFINE seqs == FindingLists(in.findings)
<1>3. A!Edges(in) = Base(in.leverage) \o FlattenSeq(seqs) \o A!LeverageEdges(in.leverage) \o
                    A!DivergenceEdges(in.divergences) \o A!AgentEdges(in.combinations)
  BY DEF A!Edges, A!FlattenSeq, FlattenSeq, FindingLists, FindingSteps, Base
<1> QED BY <1>1, <1>2, <1>3

\* These are lists, as long as what they are of.
LEMMA ListsAre ==
  ASSUME NEW in, IsAttack(in)
  PROVE  /\ IsList(FindingLists(in.findings)) /\ Len(FindingLists(in.findings)) = Len(in.findings)
         /\ DOMAIN FindingLists(in.findings) = DOMAIN in.findings
         /\ \A i \in DOMAIN in.findings : IsList(FindingSteps(in.findings[i]))
         /\ IsList(DivergenceLists(in.divergences))
         /\ Len(DivergenceLists(in.divergences)) = Len(in.divergences)
         /\ DOMAIN DivergenceLists(in.divergences) = DOMAIN in.divergences
         /\ IsList(AgentLists(in.combinations))
         /\ Len(AgentLists(in.combinations)) = Len(in.combinations)
         /\ DOMAIN AgentLists(in.combinations) = DOMAIN in.combinations
         /\ IsList(Base(in.leverage)) /\ IsList(A!LeverageEdges(in.leverage))
<1>1. ASSUME NEW list, IsList(list), NEW s, DOMAIN s = DOMAIN list, s = [i \in DOMAIN list |-> s[i]]
      PROVE  IsList(s) /\ Len(s) = Len(list)
  <2>1. DOMAIN list = 1..Len(list) /\ Len(list) \in Nat
    BY <1>1 DEF IsList
  <2>2. s = [i \in 1..Len(list) |-> s[i]]
    BY <1>1, <2>1
  <2> QED BY <2>1, <2>2, ListOf
<1>2. IsList(in.findings) /\ IsList(in.divergences) /\ IsList(in.combinations) /\ IsList(in.leverage)
  BY DEF IsAttack
<1>3. IsList(FindingLists(in.findings)) /\ Len(FindingLists(in.findings)) = Len(in.findings)
  <2> DEFINE s == FindingLists(in.findings)
  <2>1. DOMAIN s = DOMAIN in.findings /\ s = [i \in DOMAIN in.findings |-> s[i]]
    BY DEF FindingLists
  <2> HIDE DEF s
  <2>2. IsList(s) /\ Len(s) = Len(in.findings)
    BY <1>1, <1>2, <2>1
  <2> QED BY <2>2 DEF s
<1>4. IsList(DivergenceLists(in.divergences)) /\ Len(DivergenceLists(in.divergences)) = Len(in.divergences)
  <2> DEFINE s == DivergenceLists(in.divergences)
  <2>1. DOMAIN s = DOMAIN in.divergences /\ s = [i \in DOMAIN in.divergences |-> s[i]]
    BY DEF DivergenceLists
  <2> HIDE DEF s
  <2>2. IsList(s) /\ Len(s) = Len(in.divergences)
    BY <1>1, <1>2, <2>1
  <2> QED BY <2>2 DEF s
<1>5. IsList(AgentLists(in.combinations)) /\ Len(AgentLists(in.combinations)) = Len(in.combinations)
  <2> DEFINE s == AgentLists(in.combinations)
  <2>1. DOMAIN s = DOMAIN in.combinations /\ s = [i \in DOMAIN in.combinations |-> s[i]]
    BY DEF AgentLists
  <2> HIDE DEF s
  <2>2. IsList(s) /\ Len(s) = Len(in.combinations)
    BY <1>1, <1>2, <2>1
  <2> QED BY <2>2 DEF s
<1>6. ASSUME NEW i \in DOMAIN in.findings PROVE IsList(FindingSteps(in.findings[i]))
  <2>1. in.findings[i].matches \subseteq DOMAIN A!Kinds
    BY DEF IsAttack, Range
  <2>2. AreSteps(A!FindingEdges(in.findings[i])) /\ AreSteps(A!McpEdges(in.findings[i]))
    BY <2>1, FindingStepsAre, McpStepsAre
  <2> QED BY <2>2 DEF FindingSteps, AreSteps
<1>7. IsList(Base(in.leverage)) /\ IsList(A!LeverageEdges(in.leverage))
  <2>1. AreSteps(Base(in.leverage))
    BY StructuralStepsAre DEF Base
  <2>2. AreSteps(A!LeverageEdges(in.leverage))
    BY <1>2, LeverageStepsAre DEF IsAttack
  <2> QED BY <2>1, <2>2 DEF AreSteps
<1>8. /\ DOMAIN FindingLists(in.findings) = DOMAIN in.findings
      /\ DOMAIN DivergenceLists(in.divergences) = DOMAIN in.divergences
      /\ DOMAIN AgentLists(in.combinations) = DOMAIN in.combinations
  BY DEF FindingLists, DivergenceLists, AgentLists
<1> QED BY <1>3, <1>4, <1>5, <1>6, <1>7, <1>8

\* What a step of the model comes from.
LEMMA StepsHaveSources ==
  ASSUME NEW in, IsAttack(in), NEW e \in Range(A!Edges(in))
  PROVE  \/ e.fix = A!NoFix /\ e.structural
         \/ \E f \in Range(in.findings) : e.fix = <<"finding", f.id>> /\ ~e.structural
         \/ e.fix[1] = "leverage"
         \/ \E d \in Range(in.divergences) :
                /\ e.fix = <<"divergence", d.id>>
                /\ e.structural => /\ e.from = "changes_code" /\ e.to = "reads_repository"
                                   /\ e.cost = 0
         \/ \E c \in Range(in.combinations) :
                ~e.structural /\ e.fix = <<"agent", c.steps>> /\ c.steps # {}
<1> DEFINE base == Base(in.leverage)
           fs == FindingLists(in.findings)
           rows == A!LeverageEdges(in.leverage)
           ds == DivergenceLists(in.divergences)
           cs == AgentLists(in.combinations)
<1>1. /\ IsList(base) /\ IsList(fs) /\ IsList(rows) /\ IsList(ds) /\ IsList(cs)
      /\ DOMAIN fs = DOMAIN in.findings /\ DOMAIN ds = DOMAIN in.divergences
      /\ DOMAIN cs = DOMAIN in.combinations
      /\ \A i \in DOMAIN fs : IsList(FindingSteps(in.findings[i]))
  BY ListsAre
<1>2. /\ \A i \in DOMAIN fs : fs[i] = FindingSteps(in.findings[i])
      /\ \A i \in DOMAIN ds : ds[i] = DivergenceSteps(in.divergences[i])
      /\ \A i \in DOMAIN cs : cs[i] = AgentSteps(in.combinations[i])
  BY DEF FindingLists, DivergenceLists, AgentLists
<1>3. e \in Range(base \o FlattenSeq(fs) \o rows \o FlattenSeq(ds) \o FlattenSeq(cs))
  BY EdgesAre
<1> HIDE DEF base, fs, rows, ds, cs
<1>4. /\ IsList(FlattenSeq(fs)) /\ Range(FlattenSeq(fs)) = UNION {Range(fs[i]) : i \in DOMAIN fs}
      /\ IsList(FlattenSeq(ds)) /\ Range(FlattenSeq(ds)) = UNION {Range(ds[i]) : i \in DOMAIN ds}
      /\ IsList(FlattenSeq(cs)) /\ Range(FlattenSeq(cs)) = UNION {Range(cs[i]) : i \in DOMAIN cs}
  <2>1. /\ \A i \in DOMAIN fs : IsList(fs[i])
        /\ \A i \in DOMAIN ds : IsList(ds[i])
        /\ \A i \in DOMAIN cs : IsList(cs[i])
    BY <1>1, <1>2, DivergenceStepsAreOf, AgentStepsAreOf
  <2> QED BY <1>1, <2>1, RangeOfAll
<1>5. \/ e \in Range(base) \/ e \in Range(FlattenSeq(fs)) \/ e \in Range(rows)
      \/ e \in Range(FlattenSeq(ds)) \/ e \in Range(FlattenSeq(cs))
  BY <1>1, <1>3, <1>4, ListOfBoth
<1>6. CASE e \in Range(base)
  BY <1>6, StructuralStepsAre DEF base, Base
<1>7. CASE e \in Range(FlattenSeq(fs))
  <2>1. PICK i \in DOMAIN fs : e \in Range(fs[i])
    BY <1>4, <1>7
  <2>2. e.fix = <<"finding", in.findings[i].id>> /\ ~e.structural
    BY <1>2, <2>1, FindingStepsAreOf
  <2>3. in.findings[i] \in Range(in.findings)
    BY <1>1 DEF Range
  <2> QED BY <2>2, <2>3
<1>8. CASE e \in Range(rows)
  BY <1>8, LeverageStepsAreOf DEF rows, IsAttack
<1>9. CASE e \in Range(FlattenSeq(ds))
  <2>1. PICK i \in DOMAIN ds : e \in Range(ds[i])
    BY <1>4, <1>9
  <2> DEFINE d == in.divergences[i]
  <2>2. e \in Range(DivergenceSteps(d))
    BY <1>2, <2>1
  <2>3. d \in Range(in.divergences)
    BY <1>1 DEF Range
  <2> HIDE DEF d
  <2> QED BY <2>2, <2>3, DivergenceStepsAreOf
<1>10. CASE e \in Range(FlattenSeq(cs))
  <2>1. PICK i \in DOMAIN cs : e \in Range(cs[i])
    BY <1>4, <1>10
  <2> DEFINE c == in.combinations[i]
  <2>2. e \in Range(AgentSteps(c))
    BY <1>2, <2>1
  <2>3. c \in Range(in.combinations)
    BY <1>1 DEF Range
  <2> HIDE DEF c
  <2> QED BY <2>2, <2>3, AgentStepsAreOf
<1> QED BY <1>5, <1>6, <1>7, <1>8, <1>9, <1>10

\* What a divergence adds without a flaw repeats a step that is always there.
LEMMA RepeatsAreListedLater ==
  ASSUME NEW in, IsAttack(in), NEW edges, edges = A!Edges(in)
  PROVE  /\ 18 \in DOMAIN edges /\ Lasting(edges[18])
         /\ \A i \in DOMAIN edges : edges[i].structural /\ ~Lasting(edges[i]) =>
                /\ 18 < i /\ edges[18].from = edges[i].from /\ edges[18].to = edges[i].to
                /\ edges[18].cost = edges[i].cost
<1> DEFINE base == Base(in.leverage)
           rest == FlattenSeq(FindingLists(in.findings)) \o A!LeverageEdges(in.leverage) \o
                   FlattenSeq(DivergenceLists(in.divergences)) \o
                   FlattenSeq(AgentLists(in.combinations))
<1>1. /\ IsList(base) /\ \A d \in Range(base) : d.fix = A!NoFix /\ d.structural
      /\ 18 \in DOMAIN base /\ base[18].from = "changes_code"
      /\ base[18].to = "reads_repository" /\ base[18].cost = 0
  BY StructuralStepsAre DEF Base, AreSteps
<1>2. IsList(rest) /\ edges = base \o rest
  <2> DEFINE fs == FlattenSeq(FindingLists(in.findings))
             rows == A!LeverageEdges(in.leverage)
             ds == FlattenSeq(DivergenceLists(in.divergences))
             cs == FlattenSeq(AgentLists(in.combinations))
  <2>1. IsList(fs) /\ IsList(ds) /\ IsList(cs) /\ IsList(rows)
    <3>1. \A i \in DOMAIN in.findings : IsList(FindingLists(in.findings)[i])
      BY ListsAre DEF FindingLists
    <3>2. \A i \in DOMAIN in.divergences : IsList(DivergenceLists(in.divergences)[i])
      BY DivergenceStepsAreOf DEF DivergenceLists
    <3>3. \A i \in DOMAIN in.combinations : IsList(AgentLists(in.combinations)[i])
      BY AgentStepsAreOf DEF AgentLists
    <3> QED BY <3>1, <3>2, <3>3, ListsAre, RangeOfAll
  <2>2. edges = base \o fs \o rows \o ds \o cs
    BY EdgesAre
  <2> HIDE DEF base, fs, rows, ds, cs
  <2>3. IsList(fs \o rows \o ds \o cs)
    BY <2>1, ListOfBoth
  <2>4. base \o fs \o rows \o ds \o cs = base \o (fs \o rows \o ds \o cs)
    <3> DEFINE Vals == Range(base) \cup Range(fs) \cup Range(rows) \cup Range(ds) \cup Range(cs)
    <3>1. base \in Seq(Vals) /\ fs \in Seq(Vals) /\ rows \in Seq(Vals) /\ ds \in Seq(Vals)
          /\ cs \in Seq(Vals)
      BY <1>1, <2>1 DEF IsList
    <3> HIDE DEF Vals
    <3> QED BY <3>1
  <2> QED BY <2>2, <2>3, <2>4 DEF fs, rows, ds, cs
<1> HIDE DEF base, rest
<1>3. /\ DOMAIN base = 1..Len(base) /\ Len(base) \in Nat
      /\ DOMAIN edges = 1..Len(base) + Len(rest) /\ Len(rest) \in Nat
      /\ \A i \in DOMAIN base : i \in DOMAIN edges /\ edges[i] = base[i]
  BY <1>1, <1>2, InBoth
<1>4. "none" # "divergence" /\ A!NoFix[1] = "none"
  BY DEF A!NoFix
<1>5. \A i \in DOMAIN base : Lasting(edges[i])
  BY <1>1, <1>3, <1>4 DEF Range, Lasting
<1>6. ASSUME NEW i \in DOMAIN edges, edges[i].structural, ~Lasting(edges[i])
      PROVE  /\ edges[i].from = "changes_code" /\ edges[i].to = "reads_repository"
             /\ edges[i].cost = 0 /\ 18 < i
  <2> DEFINE e == edges[i]
  <2>1. e \in Range(A!Edges(in)) /\ e.structural /\ e.fix[1] = "divergence"
    BY <1>6 DEF Range, Lasting
  <2>2. 18 < i
    <3>1. i \notin DOMAIN base
      BY <1>5, <1>6
    <3> QED BY <3>1, <1>1, <1>3
  <2> HIDE DEF e
  <2>3. e.from = "changes_code" /\ e.to = "reads_repository" /\ e.cost = 0
    BY <2>1, <1>4, StepsHaveSources
  <2> QED BY <2>2, <2>3 DEF e
<1> QED BY <1>1, <1>3, <1>5, <1>6

(***************************************************************************)
(* What a change leaves.                                                   *)
(***************************************************************************)

\* What a change takes away.
FindingsOf(in, fix) == {f \in Range(in.findings) : f.id \in fix}
CombinationsOf(in, capabilities) ==
  {c \in Range(in.combinations) : c.steps \cap capabilities # {}}
DivergencesOf(in, divergences) == {d \in Range(in.divergences) : d.id \in divergences}

\* What a change makes of the inputs.
LEMMA ChangeIs ==
  ASSUME NEW in, IsAttack(in), NEW fix, NEW confirm, NEW capabilities, NEW divergences,
         NEW new, new = Change(in, fix, confirm, capabilities, divergences),
         NEW left, left = LeftOf(in.findings, FindingsOf(in, fix))
  PROVE  /\ DOMAIN new = DOMAIN in
         /\ new.findings = [i \in DOMAIN left |->
                               IF left[i].id \in confirm THEN Confirm(left[i]) ELSE left[i]]
         /\ new.combinations = LeftOf(in.combinations, CombinationsOf(in, capabilities))
         /\ new.divergences = LeftOf(in.divergences, DivergencesOf(in, divergences))
         /\ new.leverage = in.leverage /\ new.jewels = in.jewels
<1> DEFINE fs == [i \in DOMAIN left |->
                     IF left[i].id \in confirm THEN Confirm(left[i]) ELSE left[i]]
           cs == LeftOf(in.combinations, CombinationsOf(in, capabilities))
           ds == LeftOf(in.divergences, DivergencesOf(in, divergences))
<1>1. new = [in EXCEPT !.findings = fs, !.combinations = cs, !.divergences = ds]
  BY DEF Change, FindingsOf, CombinationsOf, DivergencesOf
<1>2. {"findings", "leverage", "divergences", "combinations", "jewels"} \subseteq DOMAIN in
  BY DEF IsAttack
<1> HIDE DEF fs, cs, ds
<1>3. /\ DOMAIN new = DOMAIN in /\ new.findings = fs /\ new.combinations = cs
      /\ new.divergences = ds /\ new.leverage = in.leverage /\ new.jewels = in.jewels
  BY <1>1, <1>2
<1> QED BY <1>3 DEF fs, cs, ds

\* A model of less is part of the one of all.
LEMMA PartOfEdges ==
  ASSUME NEW in, IsAttack(in), NEW new, IsAttack(new), NEW sure, new.leverage = in.leverage,
         Part(FlattenSeq(FindingLists(new.findings)), FlattenSeq(FindingLists(in.findings)), sure),
         Part(FlattenSeq(DivergenceLists(new.divergences)),
              FlattenSeq(DivergenceLists(in.divergences)), sure),
         Part(FlattenSeq(AgentLists(new.combinations)),
              FlattenSeq(AgentLists(in.combinations)), sure)
  PROVE  Part(A!Edges(new), A!Edges(in), sure)
<1> DEFINE base == Base(in.leverage)
           rows == A!LeverageEdges(in.leverage)
           fs == FlattenSeq(FindingLists(in.findings))
           ds == FlattenSeq(DivergenceLists(in.divergences))
           cs == FlattenSeq(AgentLists(in.combinations))
           nfs == FlattenSeq(FindingLists(new.findings))
           nds == FlattenSeq(DivergenceLists(new.divergences))
           ncs == FlattenSeq(AgentLists(new.combinations))
<1>1. ASSUME NEW x, IsAttack(x)
      PROVE  /\ IsList(FlattenSeq(FindingLists(x.findings)))
             /\ IsList(FlattenSeq(DivergenceLists(x.divergences)))
             /\ IsList(FlattenSeq(AgentLists(x.combinations)))
             /\ IsList(Base(x.leverage)) /\ IsList(A!LeverageEdges(x.leverage))
  <2>1. \A i \in DOMAIN x.findings : IsList(FindingLists(x.findings)[i])
    BY <1>1, ListsAre DEF FindingLists
  <2>2. \A i \in DOMAIN x.divergences : IsList(DivergenceLists(x.divergences)[i])
    BY DivergenceStepsAreOf DEF DivergenceLists
  <2>3. \A i \in DOMAIN x.combinations : IsList(AgentLists(x.combinations)[i])
    BY AgentStepsAreOf DEF AgentLists
  <2> QED BY <1>1, <2>1, <2>2, <2>3, ListsAre, RangeOfAll
<1>2. /\ IsList(base) /\ IsList(rows) /\ IsList(fs) /\ IsList(ds) /\ IsList(cs)
      /\ IsList(nfs) /\ IsList(nds) /\ IsList(ncs)
  BY <1>1
<1>3. /\ A!Edges(in) = base \o fs \o rows \o ds \o cs
      /\ A!Edges(new) = base \o nfs \o rows \o nds \o ncs
  BY EdgesAre
<1>4. Part(nfs, fs, sure) /\ Part(nds, ds, sure) /\ Part(ncs, cs, sure)
  OBVIOUS
<1> HIDE DEF base, rows, fs, ds, cs, nfs, nds, ncs
<1>5. Part(base, base, sure) /\ Part(rows, rows, sure)
  BY <1>2, PartOfSame
<1>6. /\ IsList(base \o nfs) /\ IsList(base \o fs) /\ Part(base \o nfs, base \o fs, sure)
  BY <1>2, <1>4, <1>5, ListOfBoth, PartOfBoth
<1>7. /\ IsList(base \o nfs \o rows) /\ IsList(base \o fs \o rows)
      /\ Part(base \o nfs \o rows, base \o fs \o rows, sure)
  BY <1>2, <1>5, <1>6, ListOfBoth, PartOfBoth
<1>8. /\ IsList(base \o nfs \o rows \o nds) /\ IsList(base \o fs \o rows \o ds)
      /\ Part(base \o nfs \o rows \o nds, base \o fs \o rows \o ds, sure)
  BY <1>2, <1>4, <1>7, ListOfBoth, PartOfBoth
<1>9. Part(base \o nfs \o rows \o nds \o ncs, base \o fs \o rows \o ds \o cs, sure)
  BY <1>2, <1>4, <1>8, PartOfBoth
<1> QED BY <1>3, <1>9

\* Nothing that findings, divergences and combinations add lasts.
LEMMA NoneLasts ==
  ASSUME NEW x
  PROVE  /\ Part(<<>>, FindingSteps(x), TRUE) /\ Part(<<>>, FindingSteps(x), FALSE)
         /\ Part(<<>>, DivergenceSteps(x), TRUE) /\ Part(<<>>, AgentSteps(x), TRUE)
<1>1. \A j \in DOMAIN FindingSteps(x) : ~Lasting(FindingSteps(x)[j])
  BY FindingStepsAreOf DEF Range, Lasting
<1>2. \A j \in DOMAIN DivergenceSteps(x) : ~Lasting(DivergenceSteps(x)[j])
  <2>1. \A e \in Range(DivergenceSteps(x)) : e.fix = <<"divergence", x.id>>
    BY DivergenceStepsAreOf
  <2> QED BY <2>1 DEF Range, Lasting
<1>3. \A j \in DOMAIN AgentSteps(x) : ~Lasting(AgentSteps(x)[j])
  <2>1. \A e \in Range(AgentSteps(x)) : ~e.structural
    BY AgentStepsAreOf
  <2> QED BY <2>1 DEF Range, Lasting
<1> QED BY <1>1, <1>2, <1>3, PartOfPassing

\* The steps of what is left of a list are part of those of the list.
LEMMA PartOfLeft ==
  ASSUME NEW list, IsList(list), NEW gone, NEW left, left = LeftOf(list, gone),
         NEW ss, IsList(ss), DOMAIN ss = DOMAIN left, \A k \in DOMAIN ss : IsList(ss[k]),
         NEW tt, IsList(tt), DOMAIN tt = DOMAIN list, \A i \in DOMAIN tt : IsList(tt[i]),
         NEW sure, \A i \in DOMAIN tt : Part(<<>>, tt[i], sure),
         \A k \in DOMAIN left : \A i \in DOMAIN list : left[k] = list[i] => ss[k] = tt[i]
  PROVE  Part(FlattenSeq(ss), FlattenSeq(tt), sure)
<1>1. PICK pos : /\ Rising(pos, Len(left), Len(list))
                 /\ \A k \in DOMAIN left : left[k] = list[pos[k]]
  BY LeftIs
<1>2. IsList(left)
  BY LeftIs
<1>3. /\ DOMAIN left = 1..Len(left) /\ DOMAIN list = 1..Len(list)
      /\ Len(ss) = Len(left) /\ Len(tt) = Len(list)
  <2>1. \A s : IsList(s) => DOMAIN s = 1..Len(s) /\ Len(s) \in Nat
    BY DEF IsList
  <2>2. \A a, b \in Nat : 1..a = 1..b => a = b
    <3>1. SUFFICES ASSUME NEW a \in Nat, NEW b \in Nat, 1..a = 1..b PROVE a = b
      OBVIOUS
    <3>2. a <= b \/ a = 0
      BY <3>1
    <3>3. b <= a \/ b = 0
      BY <3>1
    <3> QED BY <3>2, <3>3
  <2> QED BY <1>2, <2>1, <2>2
<1>4. ASSUME NEW k \in DOMAIN ss PROVE Part(ss[k], tt[pos[k]], sure)
  <2>1. pos[k] \in DOMAIN list /\ left[k] = list[pos[k]]
    BY <1>1, <1>3 DEF Rising
  <2>2. ss[k] = tt[pos[k]] /\ IsList(ss[k])
    BY <2>1
  <2> QED BY <2>2, PartOfSame
<1>5. Rising(pos, Len(ss), Len(tt))
  BY <1>1, <1>3
<1> QED BY <1>4, <1>5, PartOfAll

\* The steps of a list are part of those of the list with each taken for more.
LEMMA PartOfWhole ==
  ASSUME NEW list, IsList(list), NEW left, left = LeftOf(list, {}),
         NEW ss, IsList(ss), DOMAIN ss = DOMAIN left, \A k \in DOMAIN ss : IsList(ss[k]),
         NEW tt, IsList(tt), DOMAIN tt = DOMAIN list, \A i \in DOMAIN tt : IsList(tt[i]),
         NEW sure,
         \A k \in DOMAIN left : \A i \in DOMAIN list : left[k] = list[i] => Part(tt[i], ss[k], sure)
  PROVE  Part(FlattenSeq(tt), FlattenSeq(ss), sure)
<1>1. PICK g : /\ Rising(g, Len(list), Len(left))
               /\ \A i \in DOMAIN list : left[g[i]] = list[i]
               /\ \A k \in DOMAIN left : \E i \in DOMAIN list : g[i] = k
  BY WholeIs
<1>2. IsList(left)
  BY WholeIs
<1>3. /\ DOMAIN left = 1..Len(left) /\ DOMAIN list = 1..Len(list)
      /\ Len(ss) = Len(left) /\ Len(tt) = Len(list)
  <2>1. \A s : IsList(s) => DOMAIN s = 1..Len(s) /\ Len(s) \in Nat
    BY DEF IsList
  <2>2. \A a, b \in Nat : 1..a = 1..b => a = b
    <3>1. SUFFICES ASSUME NEW a \in Nat, NEW b \in Nat, 1..a = 1..b PROVE a = b
      OBVIOUS
    <3>2. a <= b \/ a = 0
      BY <3>1
    <3>3. b <= a \/ b = 0
      BY <3>1
    <3> QED BY <3>2, <3>3
  <2> QED BY <1>2, <2>1, <2>2
<1>4. ASSUME NEW i \in DOMAIN tt PROVE Part(tt[i], ss[g[i]], sure)
  <2>1. g[i] \in DOMAIN left /\ left[g[i]] = list[i]
    BY <1>1, <1>3 DEF Rising
  <2> QED BY <2>1
<1>5. Rising(g, Len(tt), Len(ss))
  BY <1>1, <1>3
<1>6. \A k \in DOMAIN ss : \E i \in DOMAIN tt : g[i] = k
  BY <1>1
<1> QED BY <1>4, <1>5, <1>6, PartOfAll

\* The things of a list that is left are those of the list that are not gone.
LEMMA RangeOfLeft ==
  ASSUME NEW list, IsList(list), NEW gone
  PROVE  IsList(LeftOf(list, gone)) /\ Range(LeftOf(list, gone)) \subseteq Range(list) \ gone
<1> DEFINE left == LeftOf(list, gone)
<1>1. PICK pos : /\ Rising(pos, Len(left), Len(list))
                 /\ \A k \in DOMAIN left : left[k] = list[pos[k]] /\ left[k] \notin gone
  BY LeftIs
<1>2. IsList(left)
  BY LeftIs
<1>3. DOMAIN left = 1..Len(left) /\ DOMAIN list = 1..Len(list)
  BY <1>2 DEF IsList
<1> HIDE DEF left
<1>4. ASSUME NEW k \in DOMAIN left PROVE left[k] \in Range(list) \ gone
  BY <1>1, <1>3 DEF Rising, Range
<1>5. Range(left) \subseteq Range(list) \ gone
  BY <1>4 DEF Range
<1> QED BY <1>2, <1>5 DEF left

\* With fixes in place the model is part of what it was, without what was fixed.
LEMMA FixedIsPart ==
  ASSUME NEW in, IsAttack(in), NEW fix, NEW capabilities, NEW divergences,
         NEW new, new = Change(in, fix, {}, capabilities, divergences)
  PROVE  /\ IsAttack(new) /\ A!Goals(new) = A!Goals(in)
         /\ Part(A!Edges(new), A!Edges(in), TRUE)
         /\ \A f \in Range(new.findings) : f.id \notin fix
         /\ \A d \in Range(new.divergences) : d.id \notin divergences
         /\ \A c \in Range(new.combinations) : c.steps \cap capabilities = {}
<1> DEFINE nof == FindingsOf(in, fix)
           noc == CombinationsOf(in, capabilities)
           nod == DivergencesOf(in, divergences)
           fs == LeftOf(in.findings, nof)
           cs == LeftOf(in.combinations, noc)
           ds == LeftOf(in.divergences, nod)
<1>0. IsList(in.findings) /\ IsList(in.combinations) /\ IsList(in.divergences) /\ IsList(in.leverage)
  BY DEF IsAttack
<1>1. /\ IsList(fs) /\ Range(fs) \subseteq Range(in.findings) \ nof
      /\ IsList(cs) /\ Range(cs) \subseteq Range(in.combinations) \ noc
      /\ IsList(ds) /\ Range(ds) \subseteq Range(in.divergences) \ nod
  BY <1>0, RangeOfLeft
<1>2. /\ DOMAIN new = DOMAIN in
      /\ new.findings = [i \in DOMAIN fs |-> IF fs[i].id \in {} THEN Confirm(fs[i]) ELSE fs[i]]
      /\ new.combinations = cs /\ new.divergences = ds
      /\ new.leverage = in.leverage /\ new.jewels = in.jewels
  <2> DEFINE none == {}
  <2>1. new = Change(in, fix, none, capabilities, divergences)
    OBVIOUS
  <2> HIDE DEF none
  <2>2. /\ DOMAIN new = DOMAIN in
        /\ new.findings = [i \in DOMAIN fs |-> IF fs[i].id \in none THEN Confirm(fs[i]) ELSE fs[i]]
        /\ new.combinations = cs /\ new.divergences = ds
        /\ new.leverage = in.leverage /\ new.jewels = in.jewels
    BY <2>1, ChangeIs
  <2> QED BY <2>2 DEF none
<1>3. new.findings = fs
  <2> DEFINE s == fs
  <2>1. IsList(s) /\ new.findings = [i \in DOMAIN s |-> s[i]]
    <3> HIDE DEF fs
    <3> QED BY <1>1, <1>2
  <2> HIDE DEF s
  <2>2. s = [i \in DOMAIN s |-> s[i]]
    BY <2>1 DEF IsList
  <2> QED BY <2>1, <2>2 DEF s
<1>4. IsAttack(new)
  <2> HIDE DEF fs, cs, ds
  <2> QED BY <1>0, <1>1, <1>2, <1>3 DEF IsAttack
<1>5. A!Goals(new) = A!Goals(in)
  BY <1>2 DEF A!Goals
<1>6. /\ \A f \in Range(new.findings) : f.id \notin fix
      /\ \A d \in Range(new.divergences) : d.id \notin divergences
      /\ \A c \in Range(new.combinations) : c.steps \cap capabilities = {}
  <2> HIDE DEF fs, cs, ds
  <2> QED BY <1>1, <1>2, <1>3 DEF FindingsOf, CombinationsOf, DivergencesOf
<1>11. /\ fs = LeftOf(in.findings, nof) /\ cs = LeftOf(in.combinations, noc)
       /\ ds = LeftOf(in.divergences, nod)
  OBVIOUS
<1> HIDE DEF nof, noc, nod, fs, cs, ds
<1>7. Part(FlattenSeq(FindingLists(new.findings)), FlattenSeq(FindingLists(in.findings)), TRUE)
  <2> DEFINE ss == FindingLists(fs)
             tt == FindingLists(in.findings)
             sure == TRUE
  <2>1. /\ IsList(ss) /\ DOMAIN ss = DOMAIN fs /\ \A k \in DOMAIN ss : IsList(ss[k])
        /\ IsList(tt) /\ DOMAIN tt = DOMAIN in.findings /\ \A k \in DOMAIN tt : IsList(tt[k])
    BY <1>3, <1>4, ListsAre DEF FindingLists
  <2>2. \A i \in DOMAIN tt : Part(<<>>, tt[i], sure)
    BY NoneLasts DEF FindingLists
  <2>3. \A k \in DOMAIN fs : \A i \in DOMAIN in.findings : fs[k] = in.findings[i] => ss[k] = tt[i]
    BY DEF FindingLists
  <2> HIDE DEF ss, tt, sure
  <2>4. Part(FlattenSeq(ss), FlattenSeq(tt), sure)
    BY <1>0, <1>11, <2>1, <2>2, <2>3, PartOfLeft
  <2> QED BY <1>3, <2>4 DEF ss, tt, sure
<1>8. Part(FlattenSeq(DivergenceLists(new.divergences)),
           FlattenSeq(DivergenceLists(in.divergences)), TRUE)
  <2> DEFINE ss == DivergenceLists(ds)
             tt == DivergenceLists(in.divergences)
             sure == TRUE
  <2>1. /\ IsList(ss) /\ DOMAIN ss = DOMAIN ds /\ \A k \in DOMAIN ss : IsList(ss[k])
        /\ IsList(tt) /\ DOMAIN tt = DOMAIN in.divergences /\ \A k \in DOMAIN tt : IsList(tt[k])
    BY <1>2, <1>4, ListsAre, DivergenceStepsAreOf DEF DivergenceLists
  <2>2. \A i \in DOMAIN tt : Part(<<>>, tt[i], sure)
    BY NoneLasts DEF DivergenceLists
  <2>3. \A k \in DOMAIN ds : \A i \in DOMAIN in.divergences :
            ds[k] = in.divergences[i] => ss[k] = tt[i]
    BY DEF DivergenceLists
  <2> HIDE DEF ss, tt, sure
  <2>4. Part(FlattenSeq(ss), FlattenSeq(tt), sure)
    BY <1>0, <1>11, <2>1, <2>2, <2>3, PartOfLeft
  <2> QED BY <1>2, <2>4 DEF ss, tt, sure
<1>9. Part(FlattenSeq(AgentLists(new.combinations)), FlattenSeq(AgentLists(in.combinations)), TRUE)
  <2> DEFINE ss == AgentLists(cs)
             tt == AgentLists(in.combinations)
             sure == TRUE
  <2>1. /\ IsList(ss) /\ DOMAIN ss = DOMAIN cs /\ \A k \in DOMAIN ss : IsList(ss[k])
        /\ IsList(tt) /\ DOMAIN tt = DOMAIN in.combinations /\ \A k \in DOMAIN tt : IsList(tt[k])
    BY <1>2, <1>4, ListsAre, AgentStepsAreOf DEF AgentLists
  <2>2. \A i \in DOMAIN tt : Part(<<>>, tt[i], sure)
    BY NoneLasts DEF AgentLists
  <2>3. \A k \in DOMAIN cs : \A i \in DOMAIN in.combinations :
            cs[k] = in.combinations[i] => ss[k] = tt[i]
    BY DEF AgentLists
  <2> HIDE DEF ss, tt, sure
  <2>4. Part(FlattenSeq(ss), FlattenSeq(tt), sure)
    BY <1>0, <1>11, <2>1, <2>2, <2>3, PartOfLeft
  <2> QED BY <1>2, <2>4 DEF ss, tt, sure
<1>10. Part(A!Edges(new), A!Edges(in), TRUE)
  BY <1>2, <1>4, <1>7, <1>8, <1>9, PartOfEdges
<1> QED BY <1>4, <1>5, <1>6, <1>10

\* What confirming leaves of a finding.
LEMMA ConfirmIs ==
  ASSUME NEW f, NEW c, c = Confirm(f),
         {"id", "matches", "category", "status", "verified", "admin", "account", "rule",
          "assessment"} \subseteq DOMAIN f
  PROVE  /\ DOMAIN c = DOMAIN f
         /\ c.assessment = "confirmed" /\ c.status = "reachable" /\ c.verified = TRUE
         /\ c.id = f.id /\ c.matches = f.matches /\ c.category = f.category
         /\ c.admin = f.admin /\ c.account = f.account /\ c.rule = f.rule
         /\ A!KindOf(c) = A!KindOf(f)
<1>1. /\ DOMAIN c = DOMAIN f
      /\ c.assessment = "confirmed" /\ c.status = "reachable" /\ c.verified = TRUE
      /\ c.id = f.id /\ c.matches = f.matches /\ c.category = f.category
      /\ c.admin = f.admin /\ c.account = f.account /\ c.rule = f.rule
  BY DEF Confirm
<1>2. A!KindOf(c) = A!KindOf(f)
  <2> DEFINE Fit(matches, category) == {i \in matches : category \in A!Kinds[i][2]}
             Kind(matches, category) ==
                 IF Fit(matches, category) # {}
                 THEN A!Kinds[CHOOSE i \in Fit(matches, category) :
                                  \A j \in Fit(matches, category) : i <= j][1]
                 ELSE IF category \in DOMAIN A!Fallback THEN A!Fallback[category] ELSE "none"
  <2>1. \A x : A!KindOf(x) = Kind(x.matches, x.category)
    BY DEF A!KindOf
  <2> HIDE DEF Kind
  <2> QED BY <1>1, <2>1
<1> QED BY <1>1, <1>2

\* A finding about an MCP server is of no kind.
LEMMA McpIsNoKind ==
  ASSUME NEW f, f.category = "mcp", f.matches \subseteq DOMAIN A!Kinds
  PROVE  A!KindOf(f) = "none"
<1>1. \A i \in DOMAIN A!Kinds : "mcp" \notin A!Kinds[i][2]
  BY DEF A!Kinds
<1>2. "mcp" \notin DOMAIN A!Fallback
  BY DEF A!Fallback
<1> QED BY <1>1, <1>2 DEF A!KindOf

\* A confirmed finding has the steps that it had.
LEMMA ConfirmedHasItsSteps ==
  ASSUME NEW f, f.matches \subseteq DOMAIN A!Kinds,
         {"id", "matches", "category", "status", "verified", "admin", "account", "rule",
          "assessment"} \subseteq DOMAIN f
  PROVE  Part(FindingSteps(f), FindingSteps(Confirm(f)), FALSE)
<1> DEFINE c == Confirm(f)
           fix == <<"finding", f.id>>
           gains == A!Techniques[A!KindOf(f)].gains
           cost == A!Techniques[A!KindOf(f)].cost
           kind == A!KindOf(f)
           From(x) == CASE kind = "hardcoded_secret" -> "reads_repository"
                        [] kind \notin {"hardcoded_secret", "privilege", "missing_auth"} /\ x.admin ->
                               "accesses_admin"
                        [] kind \in {"idor", "csrf"} /\ ~x.admin -> "user_account"
                        [] kind = "privilege" -> "user_account"
                        [] OTHER -> IF x.account THEN "user_account" ELSE "sends_requests"
           Naught(x) == \/ x.status \notin {"reachable", "corroborated", "inconclusive"}
                      \/ ~x.verified \/ kind = "none"
           from == From(f)
           Steps(tentative) ==
               [i \in DOMAIN gains |-> A!Step(from, gains[i], cost, fix, tentative, FALSE)]
           step == A!McpSteps[f.rule]
           Mcp(tentative) == <<A!Step(step[1], step[2], step[3], fix, tentative, FALSE)>>
<1>1. /\ c.assessment = "confirmed" /\ c.status = "reachable" /\ c.verified = TRUE
      /\ c.id = f.id /\ c.matches = f.matches /\ c.category = f.category
      /\ c.admin = f.admin /\ c.account = f.account /\ c.rule = f.rule
      /\ A!KindOf(c) = kind
  BY ConfirmIs
<1> HIDE DEF c
<1>2. A!FindingEdges(f) = IF Naught(f) THEN <<>> ELSE Steps(f.status = "inconclusive")
  BY DEF A!FindingEdges
<1>3. A!FindingEdges(c) = IF Naught(c) THEN <<>> ELSE Steps(c.status = "inconclusive")
  <2>1. From(c) = from
    BY <1>1
  <2>2. A!FindingEdges(c) =
            IF Naught(c) THEN <<>>
            ELSE [i \in DOMAIN gains |-> A!Step(From(c), gains[i], cost, fix,
                                                c.status = "inconclusive", FALSE)]
    <3> HIDE DEF kind
    <3>1. A!KindOf(c) = kind /\ A!KindOf(f) = kind /\ <<"finding", c.id>> = fix
      BY <1>1 DEF kind
    <3> QED BY <3>1 DEF A!FindingEdges
  <2> HIDE DEF From
  <2> QED BY <2>1, <2>2
<1> HIDE DEF kind, from, gains, cost, fix
<1>4. CASE A!FindingEdges(f) # <<>>
  <2>1. ~Naught(f) /\ A!FindingEdges(f) = Steps(f.status = "inconclusive")
    BY <1>2, <1>4
  <2>2. ~Naught(c)
    BY <1>1, <2>1
  <2>3. A!FindingEdges(c) = Steps(FALSE)
    BY <1>1, <1>3, <2>2
  <2>4. FindingSteps(f) = Steps(f.status = "inconclusive") /\ FindingSteps(c) = Steps(FALSE)
    <3>1. DOMAIN gains # {}
      <4>1. SUFFICES ASSUME DOMAIN gains = {} PROVE FALSE
        OBVIOUS
      <4> DEFINE s == A!FindingEdges(f)
      <4>2. DOMAIN s = DOMAIN gains /\ s = [i \in DOMAIN s |-> s[i]]
        BY <2>1
      <4> HIDE DEF s
      <4>3. s = <<>>
        BY <4>1, <4>2
      <4> QED BY <4>3, <1>4 DEF s
    <3>2. Steps(FALSE) # <<>>
      <4>1. DOMAIN Steps(FALSE) = DOMAIN gains /\ DOMAIN <<>> = {}
        OBVIOUS
      <4> HIDE DEF Steps
      <4> QED BY <3>1, <4>1
    <3> HIDE DEF Steps
    <3> QED BY <1>4, <2>1, <2>3, <3>2 DEF FindingSteps
  <2> DEFINE h == [i \in DOMAIN gains |-> i]
             s == FindingSteps(f)
             t == FindingSteps(c)
  <2>5. /\ DOMAIN s = DOMAIN gains /\ DOMAIN t = DOMAIN gains
        /\ \A i \in DOMAIN gains : /\ Like(s[i], t[i], FALSE) /\ ~Lasting(t[i])
    <3>1. ASSUME NEW i \in DOMAIN gains
          PROVE  /\ Like(Steps(f.status = "inconclusive")[i], Steps(FALSE)[i], FALSE)
                 /\ ~Lasting(Steps(FALSE)[i])
      BY <3>1 DEF Like, Lasting, A!Step
    <3> QED BY <2>4, <3>1
  <2>6. h \in [DOMAIN gains -> DOMAIN gains] /\ \A i \in DOMAIN gains : h[i] = i
    OBVIOUS
  <2> HIDE DEF h, s, t
  <2>7. PartBy(h, s, t, FALSE)
    BY <2>5, <2>6 DEF PartBy
  <2> QED BY <2>7 DEF Part, s, t, c
<1>5. CASE A!FindingEdges(f) = <<>> /\ A!McpEdges(f) = <<>>
  <2>1. FindingSteps(f) = <<>>
    BY <1>5 DEF FindingSteps
  <2> QED BY <2>1, NoneLasts
<1>6. CASE A!FindingEdges(f) = <<>> /\ A!McpEdges(f) # <<>>
  <2> HIDE DEF step, Naught, Steps
  <2>1. /\ f.category = "mcp" /\ f.rule \in DOMAIN A!McpSteps
        /\ A!McpEdges(f) = Mcp(f.assessment # "confirmed")
    BY <1>6 DEF A!McpEdges, step, fix
  <2>2. A!McpEdges(c) = Mcp(FALSE)
    BY <1>1, <2>1 DEF A!McpEdges, step, fix
  <2>3. A!FindingEdges(c) = <<>>
    <3>1. kind = "none"
      BY <2>1, McpIsNoKind DEF kind
    <3> QED BY <1>3, <3>1 DEF Naught
  <2>4. FindingSteps(f) = Mcp(f.assessment # "confirmed") /\ FindingSteps(c) = Mcp(FALSE)
    BY <1>6, <2>1, <2>2, <2>3 DEF FindingSteps
  <2> DEFINE h == [i \in {1} |-> 1]
             s == FindingSteps(f)
             t == FindingSteps(c)
  <2>5. /\ DOMAIN s = {1} /\ DOMAIN t = {1}
        /\ Like(s[1], t[1], FALSE) /\ ~Lasting(t[1])
    <3>1. \A x, y : Like(A!Step(step[1], step[2], step[3], fix, x, FALSE),
                         A!Step(step[1], step[2], step[3], fix, y, FALSE), FALSE)
                    /\ ~Lasting(A!Step(step[1], step[2], step[3], fix, y, FALSE))
      BY DEF Like, Lasting, A!Step
    <3>2. \A x : DOMAIN Mcp(x) = {1}
                 /\ Mcp(x)[1] = A!Step(step[1], step[2], step[3], fix, x, FALSE)
      OBVIOUS
    <3> HIDE DEF Mcp
    <3> QED BY <2>4, <3>1, <3>2
  <2>6. h \in [{1} -> {1}] /\ h[1] = 1
    OBVIOUS
  <2> HIDE DEF h, s, t
  <2>7. PartBy(h, s, t, FALSE)
    BY <2>5, <2>6 DEF PartBy
  <2> QED BY <2>7 DEF Part, s, t, c
<1> QED BY <1>4, <1>5, <1>6

\* With every finding confirmed the model has all that it had.
LEMMA ConfirmedIsWhole ==
  ASSUME NEW in, IsAttack(in),
         NEW new, new = Change(in, {}, {in.findings[i].id : i \in DOMAIN in.findings}, {}, {})
  PROVE  /\ IsAttack(new) /\ A!Goals(new) = A!Goals(in)
         /\ Part(A!Edges(in), A!Edges(new), FALSE)
<1> DEFINE ids == {in.findings[i].id : i \in DOMAIN in.findings}
           none == {}
           sure == FALSE
           fs == LeftOf(in.findings, none)
           cs == LeftOf(in.combinations, none)
           ds == LeftOf(in.divergences, none)
           Fields == {"id", "matches", "category", "status", "verified", "admin", "account",
                      "rule", "assessment"}
<1>1. IsList(in.findings) /\ IsList(in.combinations) /\ IsList(in.divergences) /\ IsList(in.leverage)
  BY DEF IsAttack
<1>2. /\ IsList(fs) /\ Range(fs) \subseteq Range(in.findings)
      /\ IsList(cs) /\ Range(cs) \subseteq Range(in.combinations)
      /\ IsList(ds) /\ Range(ds) \subseteq Range(in.divergences)
  BY <1>1, RangeOfLeft
<1>3. /\ DOMAIN new = DOMAIN in /\ new.findings = [i \in DOMAIN fs |-> Confirm(fs[i])]
      /\ new.combinations = cs /\ new.divergences = ds
      /\ new.leverage = in.leverage /\ new.jewels = in.jewels
  <2>1. FindingsOf(in, none) = none /\ CombinationsOf(in, none) = none /\ DivergencesOf(in, none) = none
    BY DEF FindingsOf, CombinationsOf, DivergencesOf
  <2>2. new = Change(in, none, ids, none, none)
    OBVIOUS
  <2>3. \A i \in DOMAIN fs : fs[i].id \in ids
    <3> HIDE DEF fs
    <3>1. ASSUME NEW i \in DOMAIN fs PROVE fs[i].id \in ids
      <4>1. fs[i] \in Range(in.findings)
        BY <1>2 DEF Range
      <4> QED BY <4>1 DEF Range
    <3> QED BY <3>1
  <2> HIDE DEF none, ids
  <2>4. /\ DOMAIN new = DOMAIN in
        /\ new.findings = [i \in DOMAIN fs |-> IF fs[i].id \in ids THEN Confirm(fs[i]) ELSE fs[i]]
        /\ new.combinations = cs /\ new.divergences = ds
        /\ new.leverage = in.leverage /\ new.jewels = in.jewels
    BY <2>1, <2>2, ChangeIs
  <2> HIDE DEF fs, cs, ds
  <2> QED BY <2>3, <2>4
<1>4. fs = LeftOf(in.findings, {}) /\ cs = LeftOf(in.combinations, {}) /\ ds = LeftOf(in.divergences, {})
  OBVIOUS
<1> HIDE DEF none, fs, cs, ds, ids
<1>5. \A f \in Range(in.findings) : f.matches \subseteq DOMAIN A!Kinds /\ Fields \subseteq DOMAIN f
  BY DEF IsAttack
<1>6. IsList(new.findings) /\ DOMAIN new.findings = DOMAIN fs
      /\ \A i \in DOMAIN fs : new.findings[i] = Confirm(fs[i]) /\ fs[i] \in Range(in.findings)
  <2>1. DOMAIN fs = 1..Len(fs) /\ Len(fs) \in Nat
    BY <1>2 DEF IsList
  <2> DEFINE s == new.findings
  <2>2. s = [i \in 1..Len(fs) |-> s[i]] /\ \A i \in DOMAIN fs : s[i] = Confirm(fs[i])
    BY <1>3, <2>1
  <2> HIDE DEF s
  <2>3. IsList(s) /\ DOMAIN s = DOMAIN fs
    BY <2>1, <2>2, ListOf
  <2>4. \A i \in DOMAIN fs : fs[i] \in Range(in.findings)
    BY <1>2 DEF Range
  <2> QED BY <2>2, <2>3, <2>4 DEF s
<1>7. IsAttack(new)
  <2>1. ASSUME NEW f \in Range(new.findings)
        PROVE  f.matches \subseteq DOMAIN A!Kinds /\ Fields \subseteq DOMAIN f
    <3>1. PICK i \in DOMAIN fs : f = Confirm(fs[i])
      BY <1>6 DEF Range
    <3> DEFINE x == fs[i]
    <3>2. f = Confirm(x) /\ x.matches \subseteq DOMAIN A!Kinds /\ Fields \subseteq DOMAIN x
      BY <1>5, <1>6, <3>1
    <3> HIDE DEF x
    <3>3. DOMAIN f = DOMAIN x /\ f.matches = x.matches
      BY <3>2, ConfirmIs
    <3> QED BY <3>2, <3>3
  <2> QED BY <1>1, <1>2, <1>3, <1>6, <2>1 DEF IsAttack
<1>8. A!Goals(new) = A!Goals(in)
  BY <1>3 DEF A!Goals
<1>9. Part(FlattenSeq(FindingLists(in.findings)), FlattenSeq(FindingLists(new.findings)), sure)
  <2> DEFINE ss == FindingLists(new.findings)
             tt == FindingLists(in.findings)
  <2>1. /\ IsList(ss) /\ DOMAIN ss = DOMAIN fs /\ \A k \in DOMAIN ss : IsList(ss[k])
        /\ IsList(tt) /\ DOMAIN tt = DOMAIN in.findings /\ \A k \in DOMAIN tt : IsList(tt[k])
    BY <1>6, <1>7, ListsAre DEF FindingLists
  <2>2. ASSUME NEW k \in DOMAIN fs, NEW i \in DOMAIN in.findings, fs[k] = in.findings[i]
        PROVE  Part(tt[i], ss[k], sure)
    <3> DEFINE f == in.findings[i]
    <3>1. f \in Range(in.findings)
      BY DEF Range
    <3>2. tt[i] = FindingSteps(f) /\ ss[k] = FindingSteps(Confirm(f))
      BY <1>6, <2>2 DEF FindingLists
    <3> HIDE DEF f, ss, tt
    <3>3. Part(FindingSteps(f), FindingSteps(Confirm(f)), sure)
      BY <1>5, <3>1, ConfirmedHasItsSteps
    <3> QED BY <3>2, <3>3
  <2> HIDE DEF ss, tt, sure
  <2>3. Part(FlattenSeq(tt), FlattenSeq(ss), sure)
    BY <1>1, <1>4, <2>1, <2>2, PartOfWhole
  <2> QED BY <2>3 DEF ss, tt
<1> HIDE DEF sure
<1>10. Part(FlattenSeq(DivergenceLists(in.divergences)),
            FlattenSeq(DivergenceLists(new.divergences)), sure)
  <2> DEFINE ss == DivergenceLists(ds)
             tt == DivergenceLists(in.divergences)
  <2>1. /\ IsList(ss) /\ DOMAIN ss = DOMAIN ds /\ \A k \in DOMAIN ss : IsList(ss[k])
        /\ IsList(tt) /\ DOMAIN tt = DOMAIN in.divergences /\ \A k \in DOMAIN tt : IsList(tt[k])
    BY <1>3, <1>7, ListsAre, DivergenceStepsAreOf DEF DivergenceLists
  <2>2. ASSUME NEW k \in DOMAIN ds, NEW i \in DOMAIN in.divergences, ds[k] = in.divergences[i]
        PROVE  Part(tt[i], ss[k], sure)
    <3>1. tt[i] = DivergenceSteps(ds[k]) /\ ss[k] = DivergenceSteps(ds[k])
      BY <2>2 DEF DivergenceLists
    <3> HIDE DEF ss, tt
    <3> QED BY <3>1, DivergenceStepsAreOf, PartOfSame
  <2> HIDE DEF ss, tt
  <2>3. Part(FlattenSeq(tt), FlattenSeq(ss), sure)
    BY <1>1, <1>4, <2>1, <2>2, PartOfWhole
  <2> QED BY <1>3, <2>3 DEF ss, tt
<1>11. Part(FlattenSeq(AgentLists(in.combinations)),
            FlattenSeq(AgentLists(new.combinations)), sure)
  <2> DEFINE ss == AgentLists(cs)
             tt == AgentLists(in.combinations)
  <2>1. /\ IsList(ss) /\ DOMAIN ss = DOMAIN cs /\ \A k \in DOMAIN ss : IsList(ss[k])
        /\ IsList(tt) /\ DOMAIN tt = DOMAIN in.combinations /\ \A k \in DOMAIN tt : IsList(tt[k])
    BY <1>3, <1>7, ListsAre, AgentStepsAreOf DEF AgentLists
  <2>2. ASSUME NEW k \in DOMAIN cs, NEW i \in DOMAIN in.combinations, cs[k] = in.combinations[i]
        PROVE  Part(tt[i], ss[k], sure)
    <3>1. tt[i] = AgentSteps(cs[k]) /\ ss[k] = AgentSteps(cs[k])
      BY <2>2 DEF AgentLists
    <3> HIDE DEF ss, tt
    <3> QED BY <3>1, AgentStepsAreOf, PartOfSame
  <2> HIDE DEF ss, tt
  <2>3. Part(FlattenSeq(tt), FlattenSeq(ss), sure)
    BY <1>1, <1>4, <2>1, <2>2, PartOfWhole
  <2> QED BY <1>3, <2>3 DEF ss, tt
<1>12. Part(A!Edges(in), A!Edges(new), sure)
  BY <1>3, <1>7, <1>9, <1>10, <1>11, PartOfEdges
<1> QED BY <1>7, <1>8, <1>12 DEF sure

(***************************************************************************)
(* The searches agree.                                                     *)
(***************************************************************************)

\* A search comes to a place by a flaw.
Flawed(edges, allowed, start, n) ==
  LET tree == A!Cheapest(edges, start, allowed)
  IN n \in DOMAIN tree /\ \E i \in A!PathTo(edges, tree, n) : ~edges[i].structural

\* What is reported are the places that a search comes to by a flaw.
LEMMA ReportedAreFlawed ==
  ASSUME NEW edges, NEW goals, NEW allowed
  PROVE  /\ \A x \in A!Paths(edges, goals, allowed) :
                /\ x.persona \in A!Personas /\ x.goal \in goals
                /\ Flawed(edges, allowed, x.persona, x.goal)
                /\ x.steps = A!PathTo(edges, A!Cheapest(edges, x.persona, allowed), x.goal)
         /\ \A p \in A!Personas : \A g \in goals : Flawed(edges, allowed, p, g) =>
                \E x \in A!Paths(edges, goals, allowed) : x.persona = p /\ x.goal = g
<1>1. ASSUME NEW x \in A!Paths(edges, goals, allowed)
      PROVE  /\ x.persona \in A!Personas /\ x.goal \in goals
             /\ Flawed(edges, allowed, x.persona, x.goal)
             /\ x.steps = A!PathTo(edges, A!Cheapest(edges, x.persona, allowed), x.goal)
  <2>1. PICK p \in A!Personas : \E g \in goals \cap DOMAIN A!Cheapest(edges, p, allowed) :
          /\ x = PathFrom(edges, allowed, p, g)
          /\ \E i \in A!PathTo(edges, A!Cheapest(edges, p, allowed), g) : ~edges[i].structural
    BY PathsAre
  <2>2. PICK g \in goals \cap DOMAIN A!Cheapest(edges, p, allowed) :
          /\ x = PathFrom(edges, allowed, p, g)
          /\ \E i \in A!PathTo(edges, A!Cheapest(edges, p, allowed), g) : ~edges[i].structural
    BY <2>1
  <2>3. /\ x.persona = p /\ x.goal = g
        /\ x.steps = A!PathTo(edges, A!Cheapest(edges, p, allowed), g)
    BY <2>2 DEF PathFrom
  <2> QED BY <2>2, <2>3 DEF Flawed
<1>2. ASSUME NEW p \in A!Personas, NEW g \in goals, Flawed(edges, allowed, p, g)
      PROVE  \E x \in A!Paths(edges, goals, allowed) : x.persona = p /\ x.goal = g
  <2>1. PathFrom(edges, allowed, p, g) \in A!Paths(edges, goals, allowed)
    BY <1>2, PathsAre DEF Flawed
  <2>2. PathFrom(edges, allowed, p, g).persona = p /\ PathFrom(edges, allowed, p, g).goal = g
    BY DEF PathFrom
  <2> QED BY <2>1, <2>2
<1> QED BY <1>1, <1>2

\* A place that is come to by a flaw is so too where all these steps are, if what is
\* there besides needs a flaw or repeats a step that was there before.
LEMMA FlawGoesOn ==
  ASSUME NEW in, IsAttack(in), NEW edges, edges = A!Edges(in),
         NEW allowed \in SUBSET DOMAIN edges, 18 \in allowed,
         NEW less, AreSteps(less), NEW few \in SUBSET DOMAIN less,
         NEW sure, NEW h, PartBy(h, less, edges, sure), \A j \in few : h[j] \in allowed,
         \A i \in allowed : Lasting(edges[i]) => \E j \in few : h[j] = i,
         NEW start \in Nodes, NEW n, Flawed(less, few, start, n)
  PROVE  Flawed(edges, allowed, start, n)
<1> DEFINE some == [j \in few |-> h[j]]
           tree == A!Cheapest(edges, start, allowed)
           other == A!Cheapest(less, start, few)
<1>1. AreSteps(edges)
  BY EdgesAreSteps
<1>2. /\ DOMAIN less \subseteq Nat
      /\ \A i, j \in DOMAIN less : i < j => h[i] < h[j]
      /\ \A i \in DOMAIN less : Like(less[i], edges[h[i]], sure)
  BY DEF PartBy, AreSteps, IsList
<1>3. \A j \in few : some[j] = h[j]
  OBVIOUS
<1>4. some \in [few -> allowed]
  OBVIOUS
<1> HIDE DEF some
<1>5. Embeds(some, less, few, edges, allowed)
  <2>1. \A i, j \in few : i < j => some[i] < some[j]
    BY <1>2, <1>3
  <2>2. \A j \in few : /\ edges[some[j]].from = less[j].from /\ edges[some[j]].to = less[j].to
                       /\ edges[some[j]].cost = less[j].cost
    BY <1>2, <1>3 DEF Like
  <2> QED BY <1>4, <2>1, <2>2 DEF Embeds
<1>6. \A j \in few : edges[some[j]].structural = less[j].structural
  BY <1>2, <1>3 DEF Like
<1>7. \A i \in allowed : edges[i].structural =>
          \/ i \in {some[j] : j \in few}
          \/ \E j \in allowed : /\ j < i /\ edges[j].from = edges[i].from
                                /\ edges[j].to = edges[i].to /\ edges[j].cost = edges[i].cost
  <2>1. SUFFICES ASSUME NEW i \in allowed, edges[i].structural
                 PROVE  \/ i \in {some[j] : j \in few}
                        \/ \E j \in allowed : /\ j < i /\ edges[j].from = edges[i].from
                                              /\ edges[j].to = edges[i].to
                                              /\ edges[j].cost = edges[i].cost
    OBVIOUS
  <2>2. CASE Lasting(edges[i])
    BY <1>3, <2>2
  <2>3. CASE ~Lasting(edges[i])
    <3>1. /\ 18 < i /\ edges[18].from = edges[i].from /\ edges[18].to = edges[i].to
          /\ edges[18].cost = edges[i].cost
      BY <2>1, <2>3, RepeatsAreListedLater
    <3> QED BY <3>1
  <2> QED BY <2>2, <2>3
<1>8. n \in DOMAIN other /\ \E j \in A!PathTo(less, other, n) : ~less[j].structural
  BY DEF Flawed
<1> HIDE DEF tree, other
<1>9. n \in DOMAIN tree /\ \E i \in A!PathTo(edges, tree, n) : ~edges[i].structural
  <2>1. tree = A!Cheapest(edges, start, allowed) /\ other = A!Cheapest(less, start, few)
    BY DEF tree, other
  <2> QED BY <1>1, <1>5, <1>6, <1>7, <1>8, <2>1, FlawStays
<1> QED BY <1>9 DEF Flawed, tree

\* What the table of paths says.
LEMMA TableIs ==
  ASSUME NEW edges, NEW goals
  PROVE  /\ \A x \in PathTable(edges, goals) : \E p \in A!Paths(edges, goals, DOMAIN edges) :
                /\ x.pair = <<p.persona, p.goal>>
                /\ x.tentative = (\E i \in p.steps : edges[i].tentative)
         /\ \A p \in A!Paths(edges, goals, DOMAIN edges) :
                \E x \in PathTable(edges, goals) : x.pair = <<p.persona, p.goal>>
<1> DEFINE row(p) == [pair |-> <<p.persona, p.goal>>, cost |-> p.cost,
                      tentative |-> \E i \in p.steps : edges[i].tentative,
                      findings |-> {edges[i].fix[2] : i \in {j \in p.steps : edges[j].fix[1] = "finding"}}]
           paths == A!Paths(edges, goals, DOMAIN edges)
<1>1. PathTable(edges, goals) = {row(p) : p \in paths}
  BY DEF PathTable
<1>2. \A p : /\ row(p).pair = <<p.persona, p.goal>>
             /\ row(p).tentative = (\E i \in p.steps : edges[i].tentative)
  OBVIOUS
<1> HIDE DEF row, paths
<1>3. \A p \in paths : row(p) \in PathTable(edges, goals)
  BY <1>1
<1>4. \A x \in PathTable(edges, goals) : \E p \in paths : x = row(p)
  BY <1>1
<1>5. /\ \A x \in PathTable(edges, goals) : \E p \in paths :
             /\ x.pair = <<p.persona, p.goal>>
             /\ x.tentative = (\E i \in p.steps : edges[i].tentative)
      /\ \A p \in paths : \E x \in PathTable(edges, goals) : x.pair = <<p.persona, p.goal>>
  BY <1>2, <1>3, <1>4
<1> QED BY <1>5 DEF paths

\* A path of certain steps is come to by certain steps alone.
LEMMA FirmPathsStay ==
  ASSUME NEW edges, AreSteps(edges), NEW start \in Nodes, NEW n,
         Flawed(edges, DOMAIN edges, start, n),
         \A i \in A!PathTo(edges, A!Cheapest(edges, start, DOMAIN edges), n) : ~edges[i].tentative
  PROVE  Flawed(edges, Firm(edges), start, n)
<1> DEFINE all == DOMAIN edges
           few == Firm(edges)
           tree == A!Cheapest(edges, start, all)
           other == A!Cheapest(edges, start, few)
           h == [j \in few |-> j]
<1>1. few \in SUBSET all /\ all \in SUBSET DOMAIN edges
  BY DEF Firm
<1>2. tree = A!Cheapest(edges, start, all) /\ other = A!Cheapest(edges, start, few)
  OBVIOUS
<1>3. /\ n \in DOMAIN tree /\ \E i \in A!PathTo(edges, tree, n) : ~edges[i].structural
      /\ \A i \in A!PathTo(edges, tree, n) : ~edges[i].tentative
  BY DEF Flawed
<1>4. Embeds(h, edges, few, edges, all)
  BY <1>1 DEF Embeds
<1>5. \A j \in few : h[j] = j
  OBVIOUS
<1> HIDE DEF tree, other, h, all
<1>6. A!PathTo(edges, tree, n) \subseteq Image(h, few)
  <2>1. Settled(edges, start, all, tree, 20)
    BY <1>1, <1>2, CheapestIsSearched DEF Searched
  <2>2. \A i \in A!PathTo(edges, tree, n) : i \in all
    BY <1>1, <1>3, <2>1, StepsOfPaths
  <2>3. ASSUME NEW i \in A!PathTo(edges, tree, n) PROVE i \in few
    BY <1>1, <1>3, <2>2, <2>3 DEF Firm
  <2> HIDE DEF few
  <2> QED BY <1>5, <2>3 DEF Image
<1> HIDE DEF few
<1>7. /\ n \in DOMAIN other
      /\ A!PathTo(edges, tree, n) = Image(h, A!PathTo(edges, other, n))
  <2> DEFINE less == edges
  <2>1. /\ few \in SUBSET DOMAIN less /\ all \in SUBSET DOMAIN edges /\ AreSteps(less)
        /\ other = A!Cheapest(less, start, few) /\ Embeds(h, less, few, edges, all)
    BY <1>1, <1>2, <1>4
  <2>2. n \in DOMAIN tree
    BY <1>3
  <2> HIDE DEF less
  <2>3. /\ n \in DOMAIN other /\ other[n].cost = tree[n].cost
        /\ A!PathTo(edges, tree, n) = Image(h, A!PathTo(less, other, n))
    BY <1>2, <1>6, <2>1, <2>2, SamePath
  <2> QED BY <2>3 DEF less
<1>8. PICK i \in A!PathTo(edges, tree, n) : ~edges[i].structural
  BY <1>3
<1>9. PICK j \in A!PathTo(edges, other, n) : i = h[j]
  BY <1>7, <1>8 DEF Image
<1>10. j \in few
  <2>1. few \subseteq DOMAIN edges
    BY <1>1
  <2>2. Settled(edges, start, few, other, 20)
    BY <1>2, <2>1, CheapestIsSearched DEF Searched
  <2> QED BY <1>7, <2>1, <2>2, StepsOfPaths
<1>11. n \in DOMAIN other /\ \E k \in A!PathTo(edges, other, n) : ~edges[k].structural
  BY <1>5, <1>7, <1>8, <1>9, <1>10
<1> QED BY <1>11 DEF Flawed, other, few

\* To confirm what is not certain closes no path.
LEMMA ConfirmedClosesNone ==
  ASSUME NEW in, IsAttack(in)
  PROVE  Confirmed(in).closed = {}
<1> DEFINE ids == {in.findings[i].id : i \in DOMAIN in.findings}
           new == Change(in, {}, ids, {}, {})
           edges == A!Edges(in)
           late == A!Edges(new)
           goals == A!Goals(in)
           before == PathTable(edges, goals)
           after == PathTable(late, A!Goals(new))
<1>1. Confirmed(in).closed = {x \in before : ~\E q \in after : q.pair = x.pair}
  <2> HIDE DEF before, after
  <2>1. Confirmed(in) = Differences(before, after)
    BY DEF Confirmed, Simulate, before, after
  <2> QED BY <2>1 DEF Differences
<1>2. IsAttack(new) /\ A!Goals(new) = goals /\ Part(edges, late, FALSE)
  BY ConfirmedIsWhole
<1> HIDE DEF new, ids
<1>3. /\ AreSteps(edges) /\ AreSteps(late) /\ goals \subseteq Nodes /\ A!Personas \subseteq Nodes
      /\ 18 \in DOMAIN late
  BY <1>2, EdgesAreSteps, GoalsArePlaces, PlacesAreListed, RepeatsAreListedLater
<1> DEFINE sure == FALSE
<1>4. PICK h : PartBy(h, edges, late, sure)
  BY <1>2 DEF Part
<1> HIDE DEF sure
<1>5. ASSUME NEW p \in A!Personas, NEW g \in goals, Flawed(edges, DOMAIN edges, p, g)
      PROVE  Flawed(late, DOMAIN late, p, g)
  <2> DEFINE all == DOMAIN edges
             allowed == DOMAIN late
  <2>1. /\ allowed \in SUBSET DOMAIN late /\ 18 \in allowed /\ all \in SUBSET DOMAIN edges
        /\ p \in Nodes /\ late = A!Edges(new) /\ Flawed(edges, all, p, g)
    BY <1>3, <1>5
  <2>2. \A j \in all : h[j] \in allowed
    BY <1>4 DEF PartBy
  <2>3. \A i \in allowed : Lasting(late[i]) => \E j \in all : h[j] = i
    BY <1>4 DEF PartBy
  <2> HIDE DEF all, allowed, edges, late
  <2>4. Flawed(late, allowed, p, g)
    BY <1>2, <1>3, <1>4, <2>1, <2>2, <2>3, FlawGoesOn
  <2> QED BY <2>4 DEF allowed
<1>6. ASSUME NEW x \in before PROVE \E q \in after : q.pair = x.pair
  <2> HIDE DEF edges, late, goals
  <2>1. PICK p \in A!Paths(edges, goals, DOMAIN edges) : x.pair = <<p.persona, p.goal>>
    BY TableIs
  <2>2. /\ p.persona \in A!Personas /\ p.goal \in goals
        /\ Flawed(edges, DOMAIN edges, p.persona, p.goal)
    BY ReportedAreFlawed
  <2>3. Flawed(late, DOMAIN late, p.persona, p.goal)
    BY <1>5, <2>2
  <2>4. PICK q \in A!Paths(late, goals, DOMAIN late) : q.persona = p.persona /\ q.goal = p.goal
    BY <2>2, <2>3, ReportedAreFlawed
  <2>5. after = PathTable(late, goals)
    BY <1>2 DEF late, goals
  <2> HIDE DEF after
  <2>6. PICK y \in after : y.pair = <<q.persona, q.goal>>
    BY <2>5, TableIs
  <2> QED BY <2>1, <2>4, <2>6
<1> HIDE DEF before, after
<1> QED BY <1>1, <1>6

\* A change leaves the jewels as they are.
LEMMA ChangeKeepsGoals ==
  ASSUME NEW in, NEW fix, NEW confirm, NEW capabilities, NEW divergences
  PROVE  A!Goals(Change(in, fix, confirm, capabilities, divergences)) = A!Goals(in)
<1> DEFINE new == Change(in, fix, confirm, capabilities, divergences)
<1>1. new.jewels = in.jewels
  BY DEF Change
<1> HIDE DEF new
<1>2. A!Goals(new) = A!Goals(in)
  BY <1>1 DEF A!Goals
<1> QED BY <1>2 DEF new

\* What is left of the steps when the fixes that are chosen, none of them of a file that
\* runs by itself, are made is of no chosen fix.
LEMMA MadeFixesAreGone ==
  ASSUME NEW cut, Chosen(cut, "leverage") = {}, NEW new, IsAttack(new),
         \A f \in Range(new.findings) : f.id \notin Chosen(cut, "finding"),
         \A d \in Range(new.divergences) : d.id \notin Chosen(cut, "divergence"),
         \A c \in Range(new.combinations) : c.steps \cap UNION Chosen(cut, "agent") = {},
         NEW e \in Range(A!Edges(new)), ~e.structural
  PROVE  e.fix \notin Range(cut.chosen)
<1>1. \A d \in Range(cut.chosen) : \A kind : d[1] = kind => d[2] \in Chosen(cut, kind)
  BY DEF Chosen
<1>2. SUFFICES ASSUME e.fix \in Range(cut.chosen) PROVE FALSE
  OBVIOUS
<1>3. \A kind : e.fix[1] = kind => e.fix[2] \in Chosen(cut, kind)
  BY <1>1, <1>2
<1>4. ASSUME NEW f \in Range(new.findings), e.fix = <<"finding", f.id>> PROVE FALSE
  BY <1>3, <1>4
<1>5. CASE e.fix[1] = "leverage"
  BY <1>3, <1>5
<1>6. ASSUME NEW d \in Range(new.divergences), e.fix = <<"divergence", d.id>> PROVE FALSE
  BY <1>3, <1>6
<1>7. ASSUME NEW c \in Range(new.combinations), e.fix = <<"agent", c.steps>>, c.steps # {}
      PROVE  FALSE
  <2>1. c.steps \in Chosen(cut, "agent")
    BY <1>3, <1>7
  <2> QED BY <1>7, <2>1
<1> QED BY <1>4, <1>5, <1>6, <1>7, StepsHaveSources

\* No certain step leads by a flaw to a pair that they cut, once the fixes are made.
LEMMA FixedIsCut ==
  ASSUME NEW in, IsAttack(in), NEW edges, edges = A!Edges(in), NEW goals, goals = A!Goals(in),
         NEW cut, cut = A!MinCut(edges, goals), Chosen(cut, "leverage") = {},
         NEW fix, fix = Chosen(cut, "finding"),
         NEW capabilities, capabilities = UNION Chosen(cut, "agent"),
         NEW divergences, divergences = Chosen(cut, "divergence"),
         NEW new, new = Change(in, fix, {}, capabilities, divergences),
         NEW late, late = A!Edges(new), NEW p \in A!Personas, NEW g \in goals,
         NEW few, few = Firm(late), Flawed(late, few, p, g)
  PROVE  <<p, g>> \in cut.remaining
<1>1. /\ IsAttack(new)
      /\ Part(late, edges, TRUE)
      /\ \A f \in Range(new.findings) : f.id \notin fix
      /\ \A d \in Range(new.divergences) : d.id \notin divergences
      /\ \A c \in Range(new.combinations) : c.steps \cap capabilities = {}
  <2>1. /\ Part(A!Edges(new), A!Edges(in), TRUE)
        /\ \A f \in Range(new.findings) : f.id \notin fix
        /\ \A d \in Range(new.divergences) : d.id \notin divergences
        /\ \A c \in Range(new.combinations) : c.steps \cap capabilities = {}
    BY ONLY IsAttack(in), new = Change(in, fix, {}, capabilities, divergences), FixedIsPart
  <2>2. IsAttack(new)
    BY ONLY IsAttack(in), new = Change(in, fix, {}, capabilities, divergences), FixedIsPart
  <2> QED BY <2>1, <2>2
<1>2. \A e \in Range(late) : ~e.structural => e.fix \notin Range(cut.chosen)
  <2>1. ASSUME NEW e \in Range(A!Edges(new)), ~e.structural PROVE e.fix \notin Range(cut.chosen)
    BY <1>1, <2>1, MadeFixesAreGone
  <2> QED BY <2>1
<1>3. /\ AreSteps(edges) /\ AreSteps(late) /\ goals \in SUBSET Nodes /\ A!Personas \subseteq Nodes
      /\ 18 \in DOMAIN edges /\ Lasting(edges[18])
  BY <1>1, EdgesAreSteps, GoalsArePlaces, PlacesAreListed, RepeatsAreListedLater
<1> DEFINE sure == TRUE
<1>4. PICK h : PartBy(h, late, edges, sure)
  BY <1>1 DEF Part
<1>5. /\ h \in [DOMAIN late -> DOMAIN edges]
      /\ \A j \in DOMAIN late : /\ edges[h[j]].fix = late[j].fix
                                /\ edges[h[j]].structural = late[j].structural
                                /\ edges[h[j]].tentative = late[j].tentative
      /\ \A i \in DOMAIN edges : Lasting(edges[i]) => \E j \in DOMAIN late : h[j] = i
  <2>1. h \in [DOMAIN late -> DOMAIN edges]
    BY <1>4 DEF PartBy
  <2>2. \A j \in DOMAIN late : Like(late[j], edges[h[j]], sure)
    BY <1>4 DEF PartBy
  <2>3. \A i \in DOMAIN edges : Lasting(edges[i]) => \E j \in DOMAIN late : h[j] = i
    BY <1>4 DEF PartBy
  <2>4. ASSUME NEW j \in DOMAIN late
        PROVE  /\ edges[h[j]].fix = late[j].fix
               /\ edges[h[j]].structural = late[j].structural
               /\ edges[h[j]].tentative = late[j].tentative
    <3> DEFINE e == late[j]
               f == edges[h[j]]
    <3>1. Like(e, f, sure)
      BY <2>2
    <3> HIDE DEF e, f
    <3>2. f.fix = e.fix /\ f.structural = e.structural /\ f.tentative = e.tentative
      BY <3>1 DEF Like
    <3> QED BY <3>2 DEF e, f
  <2> HIDE DEF sure
  <2> QED BY <2>1, <2>3, <2>4
<1> HIDE DEF sure
<1>6. SUFFICES ASSUME <<p, g>> \notin cut.remaining PROVE FALSE
  OBVIOUS
<1>7. PICK some \in SUBSET Range(cut.chosen) :
        <<p, g>> \notin A!Pairs(A!Paths(edges, goals,
                            A!Solid(edges) \ UNION {A!StepsOf(edges, f) : f \in some}))
  <2>1. Held(edges, goals, cut)
    BY <1>3, MinCutHolds
  <2> QED BY <1>6, <2>1 DEF Held, Cut
<1> DEFINE allowed == A!Solid(edges) \ UNION {A!StepsOf(edges, f) : f \in some}
<1>8. \A i \in DOMAIN edges :
           i \in allowed <=> /\ ~edges[i].tentative
                             /\ ~(~edges[i].structural /\ edges[i].fix \in some)
  BY DEF A!Solid, A!StepsOf
<1>9. allowed \in SUBSET DOMAIN edges /\ few \in SUBSET DOMAIN late
  BY DEF A!Solid, Firm
<1>10. \A i \in DOMAIN late : i \in few <=> ~late[i].tentative
  BY DEF Firm
<1> HIDE DEF allowed
<1>11. ASSUME NEW j \in few PROVE h[j] \in allowed
  <2>1. j \in DOMAIN late /\ ~late[j].tentative
    BY <1>9, <1>10
  <2>2. late[j] \in Range(late)
    BY <2>1 DEF Range
  <2>3. ~late[j].structural => late[j].fix \notin some
    BY <1>2, <2>2
  <2> QED BY <1>5, <1>8, <2>1, <2>3
<1>12. \A i \in DOMAIN edges : Lasting(edges[i]) => edges[i].structural /\ ~edges[i].tentative
  <2>1. \A i \in DOMAIN edges : IsStep(edges[i])
    BY <1>3 DEF AreSteps, Range
  <2> QED BY <2>1 DEF IsStep, Lasting
<1>13. ASSUME NEW i \in allowed, Lasting(edges[i]) PROVE \E j \in few : h[j] = i
  <2>1. i \in DOMAIN edges /\ ~edges[i].tentative
    BY <1>9, <1>12, <1>13
  <2>2. PICK j \in DOMAIN late : h[j] = i
    BY <1>5, <1>13, <2>1
  <2>3. ~late[j].tentative
    BY <1>5, <2>1, <2>2
  <2> QED BY <1>10, <2>2, <2>3
<1>14. 18 \in allowed
  BY <1>3, <1>8, <1>12
<1>15. Flawed(edges, allowed, p, g)
  <2>1. p \in Nodes
    BY <1>3
  <2>2. /\ \A j \in few : h[j] \in allowed
        /\ \A i \in allowed : Lasting(edges[i]) => \E j \in few : h[j] = i
    BY <1>11, <1>13
  <2>3. /\ IsAttack(in) /\ edges = A!Edges(in) /\ AreSteps(late) /\ Flawed(late, few, p, g)
        /\ allowed \in SUBSET DOMAIN edges /\ few \in SUBSET DOMAIN late
    BY <1>3, <1>9
  <2> QED BY ONLY <1>4, <1>14, <2>1, <2>2, <2>3, FlawGoesOn
<1>16. \E y \in A!Paths(edges, goals, allowed) : y.persona = p /\ y.goal = g
  BY <1>15, ReportedAreFlawed
<1> QED BY <1>7, <1>16, PairsOfPaths DEF allowed

\* The other searches of an answer agree with its paths.
LEMMA SearchesSound ==
  ASSUME asked.in \in Given("attack"), answer.value = AttackOn(asked.in)
  PROVE  SearchesAgree
<1> DEFINE in == asked.in
           edges == A!Edges(in)
           goals == A!Goals(in)
           value == answer.value
           cut == value.cut
<1>1. /\ value.paths = A!Paths(edges, goals, DOMAIN edges)
      /\ value.severity = A!ContextualSeverity(edges, goals)
      /\ cut = A!MinCut(edges, goals)
      /\ value.fixed = Fixed(in, cut) /\ value.confirmed = Confirmed(in)
  BY DEF AttackOn, Attack
<1>2. IsAttack(in) /\ AreSteps(edges)
  BY AttackAssumption, EdgesAreSteps
<1> HIDE DEF in, edges, goals, value
<1>3. ASSUME NEW x \in value.paths, NEW i \in x.steps, edges[i].fix[1] = "finding"
      PROVE  /\ edges[i].fix[2] \in DOMAIN value.severity
             /\ value.severity[edges[i].fix[2]] <= x.severity
  BY <1>1, <1>2, <1>3, FindingsAreAsGrave
<1>4. ASSUME Chosen(cut, "leverage") = {}, NEW x \in value.fixed.remaining, ~x.tentative
      PROVE  x.pair \in cut.remaining
  <2> DEFINE fix == Chosen(cut, "finding")
             capabilities == UNION Chosen(cut, "agent")
             divergences == Chosen(cut, "divergence")
             new == Change(in, fix, {}, capabilities, divergences)
             late == A!Edges(new)
             before == PathTable(edges, goals)
             after == PathTable(late, A!Goals(new))
  <2>1. Fixed(in, cut) = Differences(before, after)
    BY DEF Fixed, Simulate, edges, goals
  <2>2. A!Goals(new) = goals
    <3> HIDE DEF fix, capabilities, divergences
    <3> QED BY ChangeKeepsGoals DEF goals, new
  <2> HIDE DEF new
  <2>3. after = PathTable(late, goals)
    BY <2>2
  <2> HIDE DEF before, after
  <2>4. x \in PathTable(late, goals)
    BY <1>1, <1>4, <2>1, <2>3 DEF Differences
  <2>5. PICK p \in A!Paths(late, goals, DOMAIN late) :
          x.pair = <<p.persona, p.goal>> /\ x.tentative = (\E i \in p.steps : late[i].tentative)
    BY <2>4, TableIs
  <2>6. /\ p.persona \in A!Personas /\ p.goal \in goals
        /\ Flawed(late, DOMAIN late, p.persona, p.goal)
        /\ p.steps = A!PathTo(late, A!Cheapest(late, p.persona, DOMAIN late), p.goal)
    BY ReportedAreFlawed
  <2>7. AreSteps(late) /\ p.persona \in Nodes
    <3>1. IsAttack(new)
      <4> HIDE DEF fix, capabilities, divergences
      <4> QED BY <1>2, FixedIsPart DEF new
    <3> QED BY <2>6, <3>1, EdgesAreSteps, PlacesAreListed
  <2> HIDE DEF late
  <2>8. Flawed(late, Firm(late), p.persona, p.goal)
    <3>1. \A i \in A!PathTo(late, A!Cheapest(late, p.persona, DOMAIN late), p.goal) :
              ~late[i].tentative
      BY <1>4, <2>5, <2>6
    <3> QED BY <2>6, <2>7, <3>1, FirmPathsStay
  <2>9. <<p.persona, p.goal>> \in cut.remaining
    <3> DEFINE few == Firm(late)
    <3>1. /\ edges = A!Edges(in) /\ goals = A!Goals(in) /\ late = A!Edges(new)
          /\ new = Change(in, fix, {}, capabilities, divergences)
          /\ fix = Chosen(cut, "finding") /\ capabilities = UNION Chosen(cut, "agent")
          /\ divergences = Chosen(cut, "divergence") /\ few = Firm(late)
          /\ Flawed(late, few, p.persona, p.goal)
      BY <2>8 DEF edges, goals, late, new
    <3> HIDE DEF fix, capabilities, divergences, cut, few
    <3> QED BY <1>1, <1>2, <1>4, <2>6, <3>1, FixedIsCut
  <2> QED BY <2>5, <2>9
<1>5. value.confirmed.closed = {}
  BY <1>1, <1>2, ConfirmedClosesNone
<1> QED BY <1>3, <1>4, <1>5 DEF SearchesAgree, in, edges, value

\* A finding that a reported path takes is at least as grave as the path; once the fixes
\* that were chosen are made, a pair said to be cut has no certain path; and confirming
\* findings closes none (attacker.contextual_severity, twin.simulate).
THEOREM SearchesAreInAgreement == Spec => []SearchesAgree
<1>1. Inv => SearchesAgree
  <2> SUFFICES ASSUME Inv, Answered("attack") PROVE SearchesAgree
    BY DEF SearchesAgree
  <2>1. asked.in \in Given("attack") /\ answer.value = AttackOn(asked.in)
    BY AnsweredAsFound DEF ResultOf
  <2> QED BY <2>1, SearchesSound
<1> QED BY <1>1, InvHolds, PTL

===============================================================================
